SPECIFICATION CachesSpec
CONSTANTS
  a = a
  b = b
  w1 = w1
  s1 = s1
  Items = {a, b}
  Gap = Gap
  Writers = {w1}
  Syncers = {s1}
  Main = Main
  Nobody = Nobody
  Server = TRUE
  Stoppable = TRUE
  TxnFails = FALSE
  HistorySize = 5
  SyncMax = 2
  MaxLocal = 1
  TextSize = 10
  TextLen <- Texts
  MaxGathered = 1
  VCProcs = {p1, p2}
  MaxSec = 3
  NsPerSec = 1
  Requests <- SomeRequests
  MaxWritten = 3
  MinChunk = 1
  MaxChunk = 2
  CleanSlack = 0
  MayEvict = TRUE
  EvictUnread = TRUE
  MayFail = {"new", "fill"}
  SecondsInOrder = TRUE
  LateIntoEmpty = FALSE
  CSItems = {i1, i2}
  CSKeys = {c1, c2, c3}
  CSTriggers = {t1, t2}
  CSFunctions = {f1, f2}
  CSTimeFunctions = {f1}
  NoKey = nokey
  CSNoItem = noitem
  NullPtr = nullptr
SYMMETRY Alike
INVARIANTS VacuumKeeps FullDrain   HkExact LinksExact
CHECK_DEADLOCK FALSE

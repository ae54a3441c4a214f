SPECIFICATION StreamsSpec
CONSTANTS
  Triggers <- Two
  Depends <- Chain
  Multiple = {2}
  Errors = {"e1", "e2"}
  Procs = {p1}
  NoProc = none
  Passes = 2
  FirstChange = 1
  MaxTxns = 3
  TxnFails = FALSE
  ConfigSync = FALSE
  SameSecond = FALSE
  RotatesInScan = FALSE
  MaxLogLines = 5
  MaxFiles = 4
  MaxLogNow = 5
  PUSyncers = {u1, u2}
  PUReaders = {r1, r2}
  PUItems = {i1, i2}
  Passive = TRUE
  ZBX_MAX_HRECORDS = 2
  OfflineBuffer = 0
  LocalBuffer = 0
  KeepWindow = 4
  MaxRows = 3
  MaxUpNow = 1
  MaxFaults = 1
SYMMETRY Alike
INVARIANTS CacheAgrees DecisionsSound LinesInOrder UploadSound

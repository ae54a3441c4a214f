SPECIFICATION Spec
CONSTANTS
  a = a
  b = b
  w1 = w1
  w2 = w2
  s1 = s1
  s2 = s2
  Items = {a, b}
  Gap = Gap
  Writers = {w1}
  Syncers = {s1, s2}
  Main = Main
  Nobody = Nobody
  Server = TRUE
  Stoppable = TRUE
  TxnFails = TRUE
  HistorySize = 3
  SyncMax = 2
  MaxLocal = 1
  TextSize = 0
  TextLen <- Numeric
  MaxGathered = 5
SYMMETRY Perms
INVARIANTS RingSound ItemExclusive
PROPERTIES QueueSpec

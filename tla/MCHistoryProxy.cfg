SPECIFICATION Spec
CONSTANTS
  a = a
  b = b
  w1 = w1
  w2 = w2
  s1 = s1
  s2 = s2
  Items = {a, b}
  Gap = Gap
  Writers = {w1, w2}
  Syncers = {s1, s2}
  Main = Main
  Nobody = Nobody
  Server = FALSE
  Stoppable = FALSE
  TxnFails = FALSE
  HistorySize = 3
  SyncMax = 2
  MaxLocal = 2
  TextSize = 4
  TextLen <- Texts
  MaxGathered = 5
INVARIANTS ProxyAccounted

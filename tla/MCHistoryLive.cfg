SPECIFICATION FairSpec
CONSTANTS
  a = a
  b = b
  w1 = w1
  w2 = w2
  s1 = s1
  s2 = s2
  Items = {a, b}
  Gap = Gap
  Writers = {w1}
  Syncers = {s1, s2}
  Main = Main
  Nobody = Nobody
  Server = TRUE
  Stoppable = FALSE
  TxnFails = FALSE
  HistorySize = 2
  SyncMax = 1
  MaxLocal = 1
  TextSize = 2
  TextLen <- Mixed
  MaxGathered = 3
PROPERTIES EverySynced EveryFlushed

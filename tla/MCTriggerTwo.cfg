SPECIFICATION FairSpec
CONSTANTS
  Triggers <- Two
  Depends <- Chain
  Multiple = {}
  Errors = {"e1"}
  Procs = {p1, p2}
  NoProc = none
  Passes = 1
  FirstChange = 1
  MaxTxns = 2
  TxnFails = TRUE
  ConfigSync = TRUE
INVARIANTS RowFollowsEvents
PROPERTIES  CacheRepaired

SPECIFICATION Spec
CONSTANTS
  Items = {1}
  Pollers = {n1}
  UnreachablePollers = {u1}
  ItemType = "agent"
  Delays <- MCDelay
  Refreshes = {3}
  UnreachableDelay = 1
  UnreachablePeriod = 3
  UnavailableDelay = 2
  Timeout = 1
  MaxTime = 7
  MaxSyncs = 1
  MayMove = FALSE
  MayDelete = FALSE
  MayMaintain = TRUE
  MayReject = FALSE
INVARIANTS HeldIsTaken 
PROPERTIES DueServed

SPECIFICATION Spec
CONSTANTS
  Items = {1}
  Pollers = {n1}
  UnreachablePollers = {u1}
  ItemType = "agent"
  Delays <- MCDelay
  Refreshes = {3}
  UnreachableDelay = 1
  UnreachablePeriod = 3
  UnavailableDelay = 2
  Timeout = 1
  MaxTime = 4
  MaxSyncs = 1
  MayMove = TRUE
  MayDelete = FALSE
  MayMaintain = FALSE
  MayReject = FALSE
INVARIANTS TakenIsHeld

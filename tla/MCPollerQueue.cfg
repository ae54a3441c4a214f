SPECIFICATION Spec
CONSTANTS
  Items = {1, 2}
  Pollers = {n1}
  UnreachablePollers = {u1}
  ItemType = "snmp"
  Delays <- MCDelays
  Refreshes = {0, 1}
  UnreachableDelay = 1
  UnreachablePeriod = 3
  UnavailableDelay = 2
  Timeout = 1
  MaxTime = 3
  MaxSyncs = 1
  MayMove = TRUE
  MayDelete = TRUE
  MayMaintain = FALSE
  MayReject = TRUE
INVARIANTS QueueOrder

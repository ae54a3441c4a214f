SPECIFICATION MCSpec
CONSTANTS
  Items <- MCItems
  Tables = {trends, trends_uint}
  Hours = 2
  Values <- MCValues
  Syncers = {s1}
  Parent = parent
  ZBX_SYNC_MAX = 1
  MaxValues = 4
  MaxStops = 1
  TxnFails = TRUE
SYMMETRY TableSymmetry
INVARIANTS  CountedOnce RowsExact

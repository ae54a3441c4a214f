SPECIFICATION GoalSpec
CONSTANTS
  Keys = {k1, k2, k3, k4, k5, k6}
  Data = {1, 2, 3}
  MaxElems = 6
SYMMETRY KeysAlike
INVARIANTS IndexExact HeapOrder Computes

CONSTANTS
  c1 = c1
  c2 = c2
  NoRow = NoRow
  NoKey = NoKey
  r1 = r1
  Calls = {c1, c2}
  Kinds = {"stream"}
  Runs = {r1}
  MaxCost = 2
  Amounts = {1}
  GlobalCeiling = 2
  RequestCeilings = {2}
  LastDay = 0
  StaleAge = 1
  SweepLimit = 1
  MaxReservations = 2
SYMMETRY CallSymmetry
CHECK_DEADLOCK FALSE
SPECIFICATION Spec
INVARIANT ClosedStreamsReconcile

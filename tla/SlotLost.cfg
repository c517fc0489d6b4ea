CONSTANTS
  k1 = k1
  r1 = r1
  r3 = r3
  NoKey = NoKey
  Keys = {k1}
  Requests = {r1, r3}
  Direct = {r3}
  Limit = 1
SPECIFICATION Spec
INVARIANT SlotsAtWork
CHECK_DEADLOCK FALSE

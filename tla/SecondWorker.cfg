CONSTANTS
  w1 = w1
  w2 = w2
  Pids = {w1, w2}
  NoBeat = NoBeat
  Unread = Unread
  Root = Root
  Users = {Root}
  Stale = 8
  Beat = 3
  Wait = 5
  MaxMishaps = 2
SPECIFICATION LeaseSpec
PROPERTY AdmittedAlone

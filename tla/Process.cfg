CONSTANTS
  j1 = j1
  j2 = j2
  d1 = d1
  Runs = {j1, j2}
  Readers = {d1}
  NoRun = NoRun
  MaxJobs = 1
  Grace = 0
  Prune = 0
  Evict = 1
  k1 = k1
  r1 = r1
  r2 = r2
  r3 = r3
  NoKey = NoKey
  Keys = {k1}
  Requests = {r1, r2, r3}
  Direct = {r3}
  Limit = 2
  w1 = w1
  w2 = w2
  Pids = {w1, w2}
  NoBeat = NoBeat
  Unread = Unread
  Root = Root
  Owner = Owner
  Users = {Root, Owner}
  Stale = 3
  Beat = 1
  Wait = 2
  MaxMishaps = 2
CHECK_DEADLOCK FALSE
SPECIFICATION ProcessSpec
INVARIANTS
  OrphansWereCancelled
  FlagsMatchTask
  SlotsConserved
  LeaseTypeOK
PROPERTIES
  JobsLeave
  EveryRequestEnds
  AdmittedInGap
  WorkersComeBack

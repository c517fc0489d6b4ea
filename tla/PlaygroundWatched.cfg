CONSTANTS
  j1 = j1
  j2 = j2
  d1 = d1
  d2 = d2
  Runs = {j1, j2}
  Readers = {d1, d2}
  NoRun = NoRun
  MaxJobs = 1
  Grace = 0
  Prune = 0
  Evict = 1
CHECK_DEADLOCK FALSE
SPECIFICATION JobsSpec
PROPERTY WatchedRunsSurvive

CONSTANTS
  m1 = m1
  m2 = m2
  m3 = m3
  Panelists = {m1, m2, m3}
  NoTrace = NoTrace
  Nobody = Nobody
  MaxRepairs = 2
  MaxChunks = 1
SPECIFICATION FairSpec
INVARIANTS
  RefusalSurfaces
  QuorumBehindAnswer
  AnswerIsTraced
  ErrorIsTraced
  TraceIsHonest
  ToolCallsExist
  SkippedRepairsShow
PROPERTY RunEnds

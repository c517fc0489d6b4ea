CONSTANTS
  i1 = i1
  i2 = i2
  t1 = t1
  t2 = t2
  s1 = s1
  s2 = s2
  Ips = {i1, i2}
  Tabs = {t1, t2}
  Sids = {s1, s2}
  NoSession = NoSession
  NoRow = NoRow
  NoRecord = NoRecord
  MaxAttempts = 2
  Lockout = 2
  Life = 0
  p1 = p1
  c1 = c1
  c2 = c2
  w1 = w1
  Ids = {p1}
  Readers = {c1, c2}
  Writers = {w1}
  Empty = Empty
  TTL = 2
  ReadTicks = 1
  MaxWrites = 2
CHECK_DEADLOCK FALSE
SPECIFICATION ConsoleSpec
INVARIANTS
  LockoutHolds
  GivenUpIsDead
  ServedFresh
  StaleOnlyByRace
  KeyDoesNotShadowRef

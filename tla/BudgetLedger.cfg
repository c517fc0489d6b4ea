CONSTANTS
  r1 = r1
  r2 = r2
  Runs = {r1, r2}
  Amounts = {1, 2}
  Costs <- MCCosts
  GlobalCeiling = 3
  RequestCeilings = {2}
  LastDay = 1
  StaleAge = 1
  SweepLimit = 1
  MaxReservations = 2
  NoRow = NoRow
  NoKey = NoKey
SPECIFICATION FairSpec
INVARIANTS
  TypeOK
  ReservedIsOutstanding
  SpentIsCharged
  CeilingHolds
PROPERTIES
  SettledOnce
  OnlyStaleAreSwept
  EventuallySettled

CONSTANTS
  r1 = r1
  r2 = r2
  Runs = {r1}
  Amounts = {1, 2}
  Costs <- MCCosts
  GlobalCeiling = 3
  RequestCeilings = {2}
  LastDay = 1
  StaleAge = 1
  SweepLimit = 1
  MaxReservations = 1
  NoRow = NoRow
  NoKey = NoKey
SPECIFICATION FairSpec
PROPERTY MigratedAreSwept

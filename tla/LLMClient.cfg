CONSTANTS
  c1 = c1
  c2 = c2
  c3 = c3
  pa = pa
  Calls = {c1, c2, c3}
  Direct = {c3}
  Providers = {pa}
  FailureThreshold = 2
  Cooldown = 1
  Burst = 1
  ProviderCap = 2
  GlobalCap = 1
  Retries = 1
  MayCancel = TRUE
CHECK_DEADLOCK FALSE
SPECIFICATION FairSpec
INVARIANTS
  CircuitsSound
  PermitsInUse
PROPERTIES
  OpenCircuitDrains
  ImplementsSemaphores
  EveryCallEnds
  ProbeReturnsOrCancelled

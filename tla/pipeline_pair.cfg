SPECIFICATION FairSpec
CONSTANTS
  g1 = g1
  i1 = i1
  i2 = i2
  Reqs <- OneOfEach
  Interactive <- InteractiveOnes
  Capacity <- Tight
  Bodies <- AllKinds
  Routes <- BothRoutes
INVARIANTS
  QuotaAccounted
  CapacityRestored
PROPERTY WaitsEnd

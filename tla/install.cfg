SPECIFICATION FairSpec
CONSTANTS
  MaxVersion = 2
  MaxGenerations = 2
  MaxEdits = 1
  MaxFaults = 2
INVARIANT RuntimesKept
PROPERTIES
  ResolvedWhole
  RecoverySettles
CHECK_DEADLOCK FALSE

SPECIFICATION FairSpec
CONSTANTS
  MaxArtifact = 3
  MaxOps = 4
  MaxFaults = 2
CHECK_DEADLOCK FALSE
INVARIANTS
  GenerationsKept
  WitnessSound
  SettledAgreement
PROPERTIES
  RecoveryTerminates
  ImplementsLifecycle

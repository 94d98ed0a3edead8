SPECIFICATION Spec

CONSTANTS
  Requests = {}
  MaxGen = 3
  MaxFaults = 2
  FaultKinds = {"edit", "lose_state", "journal", "crash", "io"}

INVARIANTS
  DriftParks
PROPERTIES
  ObservedRecoveryKeepsArtifacts

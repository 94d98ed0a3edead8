SPECIFICATION Spec

CONSTANTS
  Requests = {r1}
  MaxGen = 5
  MaxFaults = 1
  FaultKinds = {"crash", "relay_crash", "timeout", "io"}

INVARIANTS
  TypeOK
  NoTrafficDuringMutation
  OpenStateMatchesArtifacts
  ServedByConfiguredBackend

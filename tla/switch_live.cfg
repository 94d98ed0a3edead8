SPECIFICATION QuietSpec

CONSTANTS
  Requests = {r1}
  MaxGen = 3
  MaxFaults = 0
  FaultKinds = {}

PROPERTY SwitchCompletes

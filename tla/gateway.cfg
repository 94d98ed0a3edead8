SPECIFICATION FairSpec
CONSTANTS
  a = a
  b = b
  none = none
  Gateways <- TwoGateways
  NoGateway <- none
  MaxGen = 7
  MaxFaults = 3
CHECK_DEADLOCK FALSE
INVARIANT OpenServesConfig
PROPERTIES
  EditKept
  RecoverySettles

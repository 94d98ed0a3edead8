SPECIFICATION FairSpec
CONSTANTS
  a = a
  b = b
  none = none
  Gateways <- TwoGateways
  NoGateway <- none
  MaxGen = 2
  MaxFaults = 0
CHECK_DEADLOCK FALSE
INVARIANT LiveReloadCommits

SPECIFICATION FairSpec
CONSTANTS
  i1 = i1
  i2 = i2
  Items <- MCItems
  MaxRetired = 1
  MaxExecutions = 4
  MaxPackages = 2
  MaxRevisions = 2
  MaxFaults = 2
INVARIANTS
  HelpersAccepted
  LiveChildWitnessed
  JournalTruthful
  RemovalWhole
PROPERTIES
  NeverMovedTwice
  ParkedBeforeCleared
  RemovalSettles
CHECK_DEADLOCK FALSE

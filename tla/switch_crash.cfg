SPECIFICATION WSpec

CONSTANTS
  Requests = {}
  MaxGen = 4
  MaxFaults = 2
  FaultKinds = {"crash"}

INVARIANTS
  MutatedJournalCompletes
  MutatedJournalParks
 

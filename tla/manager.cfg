SPECIFICATION FairSpec

CONSTANTS
  Requests = {r1}
  MaxSlots = 2
  MaxTimeouts = 1

INVARIANTS
  RetiredNeverServes
  OneCatalogWriter
  MaintenanceQuiet
  ParkedLossStays
PROPERTY ManagerProgresses

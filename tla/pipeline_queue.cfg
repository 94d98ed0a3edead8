SPECIFICATION Spec
CONSTANTS
  g1 = g1
  i1 = i1
  i2 = i2
  Reqs <- TwoInteractive
  Interactive <- InteractiveOnes
  Capacity <- Tight
  Bodies <- OneOrTwo
  Routes = {"acquire"}
SYMMETRY Symmetry
INVARIANTS
  NoIdlePermit
  PermitsAccounted
  ReservedForInteractive
PROPERTY FirstComeFirstServed

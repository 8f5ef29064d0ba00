CONSTANTS
  Ops = {o1, o2}
  Names = {v1}
  Paths = {p1, p2}
  None = none
SPECIFICATION Spec
CHECK_DEADLOCK FALSE
SYMMETRY Symmetry
INVARIANTS
  OnlyOwnVolumeIsWritten
  ReturnLeavesNothing
PROPERTIES
  CopyIsExact
  ImplementsOwnership

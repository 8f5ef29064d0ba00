CONSTANTS
  Workers = {w1, w2}
  None = none
  MaxPushes = 2
  MaxCommands = 6
SPECIFICATION Spec
CHECK_DEADLOCK FALSE
SYMMETRY Symmetry
INVARIANTS
  RemovalIsWholeOrTold
  RevisionIsBound

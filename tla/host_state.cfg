CONSTANTS
  Workers = {w1, w2}
  None = none
  Names = {n1}
  KeyNames = {k1}
  MaxKeys = 2
  MaxCommands = 4
  MaxBackups = 1
SPECIFICATION Spec
CHECK_DEADLOCK FALSE
SYMMETRY Symmetry
INVARIANTS
  SealedValuesOpen
  LoneCommandHeals
  RestoreIsWhole
  StateIsRecoverable
PROPERTIES
  KeyIsKept

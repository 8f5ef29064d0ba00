CONSTANTS
  Names = {a, b}
  None = none
  Views <- MCViews
  Filters = {"", "up"}
  MaxRequests = 3
  MaxCommands = 1
SPECIFICATION Spec
SYMMETRY Symmetry
INVARIANTS
  ScreenIsConsistent
PROPERTIES
  DialogKeepsItsApp
  RequestsAreGrounded

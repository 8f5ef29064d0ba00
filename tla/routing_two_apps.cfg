CONSTANTS
  Apps = {a1, a2}
  Endpoints = {a1, a2}
  Forms = {"https"}
  Ports = {p1}
  Workers = {w1, w2}
  Aliased = {}
  LegacyEndpoint = none
  None = none
  MaxApplyFailures = 1
  MaxDisturbances = 1
SPECIFICATION Spec
SYMMETRY Symmetry
INVARIANTS
  StaleIsKnown
  OrphanRouteIsResumable
PROPERTIES
  NewestRoutesWritten

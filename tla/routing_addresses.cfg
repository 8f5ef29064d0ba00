CONSTANTS
  Apps = {a1, a2}
  Endpoints = {a1, a2}
  Forms = {"https", "http"}
  Ports = {p1}
  Workers = {w1, w2}
  Aliased = {a1}
  LegacyEndpoint = a1
  None = none
  MaxApplyFailures = 0
  MaxDisturbances = 0
SPECIFICATION Spec
SYMMETRY SymmetryWorkers
PROPERTIES
  EndpointsStayOwned
  RoutesAreKept

CONSTANTS
  Apps = {a1, a2}
  Commits = {c1}
  Sessions = {s1, s2}
  Redeployers = {}
  Daemon = daemon
  None = none
  MaxAttempts = 3
  MaxFaults = 1
  MaxLostWrites = 0
  AllowOrphans = TRUE
SPECIFICATION Spec
SYMMETRY SymmetryApps
INVARIANTS
  OneActivePerApp
PROPERTIES
  AcceptedIsKept
  ImplementsLifecycle

CONSTANTS
  Apps = {a1}
  Commits = {c1, c2}
  Sessions = {s1, s2}
  Redeployers = {}
  Daemon = daemon
  None = none
  MaxAttempts = 2
  MaxFaults = 2
  MaxLostWrites = 0
  AllowOrphans = FALSE
SPECIFICATION FairSpec
PROPERTIES
  AcceptedAttemptFinishes

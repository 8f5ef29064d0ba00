CONSTANTS
  Apps = {a1}
  Commits = {c1, c2}
  Sessions = {s1, s2}
  Redeployers = {r1}
  Daemon = daemon
  None = none
  MaxAttempts = 3
  MaxFaults = 2
  MaxLostWrites = 1
  AllowOrphans = FALSE
SPECIFICATION Spec
SYMMETRY Symmetry
INVARIANTS
  QueuedPushWasAccepted
  
  NewestPushIsMain
  FollowsOwnAttempt

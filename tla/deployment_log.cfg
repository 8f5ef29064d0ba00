CONSTANTS
  Followers = {f1}
  Kept = 2
  MaxAttempts = 3
  MaxLines = 3
  MaxFaults = 1
  MaxContent = 3
SPECIFICATION FairSpec
CHECK_DEADLOCK FALSE
INVARIANTS
  PrintedIsLog
  ActiveLogIsKept
PROPERTIES
  FollowEnds

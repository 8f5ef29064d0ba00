CONSTANTS
  Apps = {a1, a2}
  Commits = {c1, c2}
  None = none
  MaxAttempts = 2
  MaxCrashes = 2
  MaxRefusals = 2
SPECIFICATION FairSpec
INVARIANTS
  CleanSuccessIsComplete
  AppStatusIsLastOutcome
  
PROPERTIES
  EarlierSuccessIsKept
  QueuedAttemptEnds

CONSTANTS
  MaxEntries = 4
  MaxContent = 4
  MaxLabel = 3
SPECIFICATION Spec
INVARIANTS
  
  
  PreflightIsTrue
  
  OperatorWordsAreKept

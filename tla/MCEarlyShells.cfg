CONSTANTS
  Lines <- MCLines
  MaxLines = 2
  Capacity = 1
  Amount = 3
  Chunk = 5
  MaxKids = 5
SPECIFICATION FairSpec
INVARIANTS TypeOK NoEndKept NoneLeftBehind FoundByNumber
PROPERTIES PromptReturns EveryCommandEnds
CHECK_DEADLOCK FALSE

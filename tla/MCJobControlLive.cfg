SPECIFICATION FairSpec
CONSTANTS
  MaxCommands = 3
  MaxForks = 3
  MaxStages = 2
INVARIANTS
  WaitHasChild
  ChildrenAccountedFor
PROPERTY LineReturns
CHECK_DEADLOCK FALSE

SPECIFICATION Spec
CONSTANTS
  MaxCommands = 4
  MaxForks = 2
  MaxStages = 2
PROPERTY FoundByIdx
CHECK_DEADLOCK FALSE

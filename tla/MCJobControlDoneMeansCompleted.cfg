SPECIFICATION Spec
CONSTANTS
  MaxCommands = 4
  MaxForks = 2
  MaxStages = 2
INVARIANT DoneMeansCompleted
CHECK_DEADLOCK FALSE

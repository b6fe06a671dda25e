SPECIFICATION Spec
CONSTANTS
  MaxCommands = 4
  MaxForks = 2
  MaxStages = 2
INVARIANTS
  TypeOK
  PositionBelowIdx
  SuspendedHasModes
PROPERTY ImplementsJobTable
CHECK_DEADLOCK FALSE

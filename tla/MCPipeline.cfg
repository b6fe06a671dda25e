SPECIFICATION FairSpec
CONSTANTS
  MaxCommands = 4
  MaxStages = 4
  MaxFd = 11
INVARIANTS
  TypeOK
  Wired
  SoleEnds
  OneDescriptorPerPipeline
PROPERTY CommandsEnd
CHECK_DEADLOCK FALSE

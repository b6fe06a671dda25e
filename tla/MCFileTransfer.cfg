SPECIFICATION FairSpec
CONSTANTS
  Clients = {c1, c2}
  Files <- MCFiles
  Dirs <- MCDirs
  Buf = 2
  MaxCommands = 5
  MaxSize = 3
  NoFile = NoFile
INVARIANTS
  TypeOK
  OneSession
  Agreement
  WholeBuffersIntact
  CleanSessionsSurvive
  OneLeakedSession
PROPERTIES
  ImplementsFileSession
  CommandReturns
CHECK_DEADLOCK FALSE

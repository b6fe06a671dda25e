CONSTANTS
  Characters = {"a", "b", " ", "tab", "|", "&", "<", ">"}
  MaxLine = 5
  MAX_ARGUMENTS = 3
  Argvs <- MCArgvs
  MaxText = 5
  Trees <- MCTrees
  MaxOpen = 3
  Disk <- MCDisk
  MaxChoices = 4
  MaxLocation = 2
  MaxLength = 2
  MaxDescriptors = 3
SPECIFICATION FairSpec
INVARIANTS TypeOK ParsesAsWritten CountsAsRead EveryEntryOnce MissingIsSaid
PROPERTIES FindEnds WritesWhatWasAsked ShownAsOnDisk
CHECK_DEADLOCK FALSE

CONSTANTS
  Versions = {"lab8", "lab9", "lab11"}
  Calls <- MCCalls
  Width = 8
  Integers_array <- MCIntegers
  Characters_array <- MCCharacters
  Strings_array <- MCStrings
SPECIFICATION Spec
INVARIANTS TypeOK TextAsAsked CountIsText NamedStops
CHECK_DEADLOCK FALSE

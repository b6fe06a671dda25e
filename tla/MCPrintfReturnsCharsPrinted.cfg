CONSTANTS
  Versions = {"lab9"}
  Calls <- MCCalls
  Width = 8
  Integers_array <- MCIntegers
  Characters_array <- MCCharacters
  Strings_array <- MCStrings
SPECIFICATION Spec
INVARIANT ReturnsCharsPrinted
CHECK_DEADLOCK FALSE

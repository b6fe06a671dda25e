CONSTANTS
  Digits = {0, 1, 9}
  Capacity = 2
  Zeroed = 5
  MaxTyped = 5
  MaxKeys = 8
SPECIFICATION Spec
INVARIANT TypeOK
 
CHECK_DEADLOCK FALSE

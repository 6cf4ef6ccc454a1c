SPECIFICATION Spec
CONSTANTS
  FILE_BACKENDS = {FALSE}
  UINT8_SIZE = 3
  LENGTH_MAX = 10
  LENGTH_1 = 9
  SOURCE_SIZE = 6
  MAX_BOOTS = 2
  MAX_FAULTS = 0
INVARIANTS LengthIsOverwritten
CHECK_DEADLOCK FALSE

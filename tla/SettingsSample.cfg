SPECIFICATION Spec
CONSTANTS
  FILE_BACKENDS = {TRUE, FALSE}
  UINT8_SIZE = 3
  LENGTH_MAX = 10
  LENGTH_1 = 9
  SOURCE_SIZE = 5
  MAX_BOOTS = 5
  MAX_FAULTS = 2
INVARIANTS TypeOK DriftBounded InjectedNotSaved CleanRun
PROPERTIES CountsOnceABoot
CHECK_DEADLOCK FALSE

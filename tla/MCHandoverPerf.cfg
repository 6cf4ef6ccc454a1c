SPECIFICATION Spec
CONSTANTS
  RANDOM_ROW_RANGE = 1
  RANDOM_COL_RANGE = 3
  CAPACITY = 6
  MAX_FAULTS = 4
  PROGRAMS <- MCPrograms
  TEST_FILE_SIZE = 3
  TEST_BLOCK_SIZE = 1
  TEST_ITERATIONS = 2
  LEFTOVERS <- MCLeftovers
INVARIANTS CleanRunIsHonest SequentialReadVouches SeekInsideFile
CHECK_DEADLOCK FALSE

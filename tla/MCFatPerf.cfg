SPECIFICATION Spec
CONSTANTS
  RANDOM_ROW_RANGE = 2
  RANDOM_COL_RANGE = 2
  CAPACITY = 5
  MAX_FAULTS = 5
  CONFIGS <- MCConfigs
  TEST_BLOCK_SIZE_MAX = 5
  TEST_ITERATIONS = 2
  SEEK_PAST_END = FALSE
  LEFTOVERS <- MCLeftovers
INVARIANTS TypeOK CleanRunIsHonest SeekInsideFile ReturnsWithFileClosed LeavesMountedOnlyOnFailure
CHECK_DEADLOCK FALSE

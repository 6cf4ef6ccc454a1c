SPECIFICATION Spec
CONSTANTS
  RANDOM_ROW_RANGE = 2
  RANDOM_COL_RANGE = 2
  CAPACITY = 6
  MAX_FAULTS = 2
  CONFIGS <- MCSequential
  TEST_BLOCK_SIZE_MAX = 2
  TEST_ITERATIONS = 2
  SEEK_PAST_END = FALSE
  LEFTOVERS <- MCLeftovers
INVARIANTS SyncedAfterWrite
CHECK_DEADLOCK FALSE

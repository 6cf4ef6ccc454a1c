SPECIFICATION Spec
CONSTANTS
  RANDOM_ROW_RANGE = 2
  RANDOM_COL_RANGE = 2
  CAPACITY = 5
  MAX_FAULTS = 2
  FILE_LENGTHS <- MCFileLengths
  BLOCK_LENGTHS <- MCBlockLengths
  MIN_RANDOM_BLOCK = 1
  TEST_BLOCK_SIZE_MAX = 2
  TEST_ITERATIONS = 2
  LEFTOVERS <- MCLeftovers
INVARIANTS TypeOK CompleteWriteIsOnVolume MeansOfWholePasses NoHandleLeft
PROPERTIES ShortReadMeansBadWrite EveryCaseReported
CHECK_DEADLOCK FALSE

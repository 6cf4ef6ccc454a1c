SPECIFICATION Spec
CONSTANTS
  TEST_SETTINGS_COUNT = 3
  TEST_STORE_ITR = 2
  TIMEOUT = 3
  UINT32_MAX = 100
  MAX_TIME = 4
  MAX_FAULTS = 2
INVARIANTS TypeOK PassMeansStored StatsAgree
PROPERTIES TestEnds
CHECK_DEADLOCK FALSE

SPECIFICATION MCSpec
CONSTANTS
  RANDOM_ROW_RANGE = 3
  RANDOM_COL_RANGE = 3
  BLOCKS = {1, 2, 3, 4, 6, 9, 12}
INVARIANTS TypeOK ArraysArePermutations
PROPERTIES OnlyPrefixWritten CallIsAtomic

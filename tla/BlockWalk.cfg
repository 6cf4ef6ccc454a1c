SPECIFICATION BenchSpec
CONSTANTS
  RANDOM_ROW_RANGE = 3
  RANDOM_COL_RANGE = 4
  BLOCKS = {1, 3, 4, 6, 8, 12, 16}
INVARIANTS ReadsShuffledElements NoBlockTwice PassCoversFile IInv

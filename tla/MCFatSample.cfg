SPECIFICATION Spec
CONSTANTS
  nand = nand
  nand2 = nand2
  sd = sd
  SAMPLES <- MCSamples
  MAX_BOOTS = 4
  MAX_FAULTS = 3
INVARIANTS TypeOK MatchMeansWritten CleanRoundMatches WorkAreaOfOpenFile TextSurvives
CHECK_DEADLOCK FALSE

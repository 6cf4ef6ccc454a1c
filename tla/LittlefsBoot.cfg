SPECIFICATION BootSpec
CONSTANTS
  UINT8_SIZE = 3
  ROOT_ENTRIES = 2
  AUTOMOUNTS = {TRUE, FALSE}
  MAX_BOOTS = 5
  MAX_FAULTS = 3
INVARIANTS BootTypeOK CountsCommits ReportedMeansCounted CleanBoot
CHECK_DEADLOCK FALSE

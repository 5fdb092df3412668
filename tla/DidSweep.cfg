SPECIFICATION FairSpec
CONSTANTS
  Functional <- Broadcast
  NoEcu = 0
  Answers <- CarAnswers
  Addresses <- Block
  Ranges <- OneDid
  Narrowings <- AnyEcu
  MaxNaps = 1
  ADAPTER_ERROR_ATTEMPTS = 2
  MAX_CONSECUTIVE_ERRORS = 2
  SLEEP_SUSPICION_PROBES = 1
  MaxRuns = 2
INVARIANTS
  TypeOK
  Paired
  OnlyItsEcu
  DeadlineHeld
  LiveEcusAreHeard
  PayloadsAreGenerous
  NothingBuried
  LogIsWhole
PROPERTIES
  RunEnds
CHECK_DEADLOCK FALSE

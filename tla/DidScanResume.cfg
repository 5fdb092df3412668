SPECIFICATION Spec
CONSTANTS
  Functional <- Broadcast
  NoEcu = 0
  Answers <- CarAnswers
  Addresses <- Block
  Ranges <- OneDid
  Narrowings <- EveryEcu
  MaxNaps = 0
  ADAPTER_ERROR_ATTEMPTS = 2
  MAX_CONSECUTIVE_ERRORS = 2
  SLEEP_SUSPICION_PROBES = 1
  MaxRuns = 2
INVARIANTS
  SweepsEveryEcu
CHECK_DEADLOCK FALSE

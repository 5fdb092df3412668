SPECIFICATION FairSpec
CONSTANTS
  kMaxRxBuffer = 4
  MaxWrite = 3
  MaxTyped = 6
  MaxChunks = 2
INVARIANTS
  TypeOK
  NeverStitched
  NothingLeftWaiting
PROPERTIES
  HostTaskReturns

SPECIFICATION FairSpec
CONSTANTS
  Pad = Pad
  OutOfBounds = OutOfBounds
  e1 = e1
  e2 = e2
  Ecus = {e1, e2}
  All = All
  Commands <- Mixed
  MaxRequests = 2
  MaxQueue = 2
  TxQueueLen = 2
  LongReply = 14
INVARIANTS
  TypeOK
  CorrelatedAnswer
  QuietStartIsSound
PROPERTIES
  EveryCommandIsAnswered
CHECK_DEADLOCK FALSE

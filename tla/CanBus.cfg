SPECIFICATION FairSpec
CONSTANTS
  TxQueueLen = 3
  MaxSleeps = 3
INVARIANTS
  HealsInTwoPolls
PROPERTIES
  LinkHeals

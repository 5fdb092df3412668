SPECIFICATION FairSpec
CONSTANTS
  kMaxLine = 3
  Chars = {"a", "b", "0"}
  NUL = "0"
  kWriteAllMaxStalledAttempts = 2
  MaxReply = 4
  MaxTyped = 5
INVARIANTS
  TypeOK
  RunsWhatWasTyped
PROPERTIES
  OnlyDeadSinksCut
  LoopComesBack

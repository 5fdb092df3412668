SPECIFICATION PathSpec
CONSTANTS
  Pad = Pad
  OutOfBounds = OutOfBounds
  Messages <- Responses
  Setups <- WithinLimits
  EcuAddress = 241
  MaxQueue = 3
  MaxLost = 17
  Spacings = {TRUE, FALSE}
  MaxBurst = 15
INVARIANTS
  TypeOK
  OnlyTheResponse
  LosslessIsRead
  ReadsOnlyTheFrame
CHECK_DEADLOCK FALSE

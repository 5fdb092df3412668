SPECIFICATION Spec
CONSTANTS
  Pad = Pad
  OutOfBounds = OutOfBounds
  Messages <- ShortResponses
  Setups <- Oversized
  EcuAddress = 241
  MaxQueue = 3
  MaxLost = 17
INVARIANTS
  ReadsOnlyTheFrame
CHECK_DEADLOCK FALSE

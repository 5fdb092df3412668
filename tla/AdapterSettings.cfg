SPECIFICATION Spec
CONSTANTS
  Flags = {"responses", "variableDlc", "extendedAddressing"}
  ByteSettings = {"testerAddress"}
  kMinTimeoutMs = 5
  Word16 = 32
  Word32 = 128
  MaxHeader = 2
  MaxByte = 2
  Broadcast = 1
  DefaultTimeout = 20
  Tails = {0, 2, 3, 8, 32}
  Malformed = Malformed
INVARIANTS
  TypeOK
  FrameCoversRequest
PROPERTIES
  RejectedChangesNothing

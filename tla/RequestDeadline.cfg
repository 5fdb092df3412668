SPECIFICATION Spec
CONSTANTS
  Wrap = 24
  Timeouts = {3, 5, 9}
  Turn = 3
  MaxIdle = 4
INVARIANTS
  TypeOK
  Punctual

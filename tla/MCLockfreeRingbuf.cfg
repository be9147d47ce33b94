SPECIFICATION Spec
CONSTANTS
  Size = 3
  MaxLen = 4
  MaxBytes = 9
INVARIANTS
  NoSharedByte
  InOrder
PROPERTY
  ImplementsStream

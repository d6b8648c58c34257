SPECIFICATION Spec
CONSTANTS
  ByteBits = 2
  IoChunk = 3
  ControlChunk = 2
  ShortText = 6
  LongText = 24
  MaxBytes = 6
  Inputs <- MCInputs
INVARIANTS
  NoInternalError
  DecodesInBounds
PROPERTY ImplementsLzw
CHECK_DEADLOCK FALSE

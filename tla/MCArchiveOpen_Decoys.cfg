SPECIFICATION Spec
CONSTANTS
  Requests <- MCRequests
  IoChunk = 2
  FixedSize = 2
INVARIANT DecoysMaskNothing
CHECK_DEADLOCK FALSE

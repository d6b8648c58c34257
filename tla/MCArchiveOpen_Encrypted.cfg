SPECIFICATION Spec
CONSTANTS
  Requests <- MCRequests
  IoChunk = 2
  FixedSize = 2
INVARIANT EncryptedFailureIsAmbiguous
CHECK_DEADLOCK FALSE

SPECIFICATION Spec
CONSTANTS
  Requests <- MCRequests
  IoChunk = 2
  FixedSize = 2
INVARIANTS
  OpenIsBounded
  OpenedIsComplete
  FailureNamesItsCause
PROPERTY Terminates
CHECK_DEADLOCK FALSE

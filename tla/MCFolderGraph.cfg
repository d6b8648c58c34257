SPECIFICATION Spec
CONSTANTS
  MaxCoders = 3
  MaxInputs = 4
  MaxOutputs = 3
  Folders <- MCRaw
INVARIANTS
  TypeOK
  AcceptedIsWellFormed
  RejectedIsMalformed
  NoInternalError
  DecodedAsWired
PROPERTY Terminates
CHECK_DEADLOCK FALSE

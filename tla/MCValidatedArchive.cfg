SPECIFICATION Spec
CONSTANTS
  MaxCount = 2
  RootSize = 3
  StoredSize = 1
  HeaderAt = 4
  MaxPosition = 2
  IoChunk = 2
  RawArchives <- MCRawArchives
  Facts <- MCFacts
INVARIANTS
  HandoverIsSound
  PackedBytesHaveOneOwner
  ChecksumsDecide
  SinkIsServed
  OutputIsBounded
  OperationsAgree
PROPERTY Terminates
CHECK_DEADLOCK FALSE

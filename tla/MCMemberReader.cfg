SPECIFICATION ReaderSpec
CONSTANTS
  MaxLength = 6
  MaxBudget = 9
  ControlChunk = 2
  SliceChunk = 4
INVARIANTS
  ReaderTypeOK
  VerdictIsTrue
  FailedReaderNeverJudges
PROPERTY CallsReturn
CHECK_DEADLOCK FALSE

SPECIFICATION Spec
CONSTANTS
  MaxOutput = 3
  IoChunk = 2
  ControlChunk = 1
  LegacyBlockBytes = 2
  HistoryBytes = 1
  MaximumBlockBytes = 2
  Jobs <- MCJobs
PROPERTY CancelledReturns
CHECK_DEADLOCK FALSE

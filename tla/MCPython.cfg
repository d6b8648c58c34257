CONSTANTS
  a = a
  b = b
  MaxChunk = 2
  MaxVolumes = 2
  Threads <- MCThreads
  Programs <- MCPrograms
SPECIFICATION Spec
INVARIANT RaisedIsTruthful
INVARIANT OkIsComplete
INVARIANT SnapshotsAreFaithful
PROPERTY CallsReturn

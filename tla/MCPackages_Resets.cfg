SPECIFICATION Spec
CONSTANTS
  Cases <- MCResetCases
  Ample <- MCAmple
  IoChunk = 2
INVARIANT DictionaryResetsDecode

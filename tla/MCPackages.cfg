SPECIFICATION Spec
CONSTANTS
  Cases <- MCCases
  Ample <- MCAmple
  IoChunk = 2
INVARIANTS
  ReadsWhatWasPacked
  DamageNeverPasses
  EntriesAreDisjoint
  LimitsHold
  OperationsAgree
PROPERTIES
  ImplementsSink
  RoundsAdvance

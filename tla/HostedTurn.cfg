CONSTANTS
  i1 = i1
  i2 = i2
  i3 = i3
  r1 = r1
  r2 = r2
  NoResult = NoResult
  NoPark = NoPark
  Interrupt = {i1, i2, i3}
  Result = {r1, r2}
  Local = FALSE
  BrainRepeats = FALSE
  MaxOperations = 2
  MaxRounds = 2
  MaxAnswers = 1
  MaxGeneration = 2
  MaxContainers = 2
  MaxRuns = 2
SPECIFICATION Spec
CHECK_DEADLOCK FALSE
SYMMETRY Interchangeable
INVARIANTS
  TypeOK
  JournalTellsTheTruth
  RunsAtMostOnce
  OneSideEffectAtATime
  DestroyedLeavesNothing
PROPERTIES
  UncertainStaysUncertain
  ImplementsContract

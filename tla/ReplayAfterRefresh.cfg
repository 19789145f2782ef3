CONSTANTS
  i1 = i1
  i2 = i2
  i3 = i3
  r1 = r1
  r2 = r2
  NoResult = NoResult
  NoPark = NoPark
  Interrupt = {i1}
  Result = {r1}
  Local = TRUE
  BrainRepeats = FALSE
  MaxOperations = 1
  MaxRounds = 1
  MaxAnswers = 1
  MaxGeneration = 2
  MaxContainers = 1
  MaxRuns = 1
SPECIFICATION Spec
CHECK_DEADLOCK FALSE
PROPERTIES
  SuspendedBatchIsReplayable

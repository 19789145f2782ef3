CONSTANTS
  i1 = i1
  i2 = i2
  i3 = i3
  r1 = r1
  r2 = r2
  NoResult = NoResult
  NoPark = NoPark
  Interrupt = {i1, i2}
  Result = {r1}
  Local = FALSE
  BrainRepeats = TRUE
  MaxOperations = 2
  MaxRounds = 3
  MaxAnswers = 1
  MaxGeneration = 1
  MaxContainers = 1
  MaxRuns = 2
SPECIFICATION FairSpec
CHECK_DEADLOCK FALSE
PROPERTIES
  NoRepeatInTurn
  TurnEnds

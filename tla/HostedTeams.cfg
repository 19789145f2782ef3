CONSTANTS
  team1 = team1
  team2 = team2
  app1 = app1
  owner1 = owner1
  brain1 = brain1
  brain2 = brain2
  NoBrain = NoBrain
  NoApp = NoApp
  NoRecord = NoRecord
  NoRequest = NoRequest
  NoReading = NoReading
  Team = {team1, team2}
  App = {app1}
  Owner = {owner1}
  OwnerOf <- OneOwner
  TeamLimit = 2
  OwnerTeamLimit = 2
  BrainMemory = 1
  AppMemory = 2
  Memory = 3
  OwnerMemory = 3
  AppLimit = 1
  RecordLimit = 1
  WithDatabase = {app1}
  Busy = {team1}
  StoreLimit = 1
  Brain = {brain1, brain2}
  MaxFaults = 1
  FaultsAlone = TRUE
SPECIFICATION FairSpec
CHECK_DEADLOCK FALSE
INVARIANTS
  TypeOK
  NoBrainNoResidue
  EgressOnlyWhileInstalled
  TeardownExcludesTurns
PROPERTIES
  LedgerKept
  DestroysItsOwnBrain
  RecordUntilGone
  ForgottenWhenGone
  OperationsEnd
  RetriesEnd

CONSTANTS
  r1 = r1
  r2 = r2
  imageA = imageA
  Request = {r1, r2}
  Image = {imageA}
  NoRequest = NoRequest
  NoChallenge = NoChallenge
  NoPower = NoPower
  NoSecret = NoSecret
  ThisTeam = ThisTeam
  OtherTeam = OtherTeam
  Capacity = 1
  Shared = {"approval"}
  MaxTurns = 2
  MaxChallenges = 2
  MaxAnswers = 1
  MaxChanges = 1
  MaxStops = 1
SPECIFICATION Spec
SYMMETRY Interchangeable
INVARIANTS
  TypeOK
  OnePending
  RotationSurvives
  GrantedForThisInstallation
PROPERTIES
  StoppedStaysStopped

CONSTANTS
  a1 = a1
  a2 = a2
  s1 = s1
  s2 = s2
  t1 = t1
  t2 = t2
  f1 = f1
  f2 = f2
  NoAccount = NoAccount
  NoRecord = NoRecord
  NoFlight = NoFlight
  NoThread = NoThread
  NoChallenge = NoChallenge
  Account = {a1}
  Session = {s1, s2}
  Thread = {t1, t2}
  Flight = {f1, f2}
  Capacity = 2
  PerSession = 1
  MaxStates = 2
  MaxGrants = 3
SPECIFICATION FairSpec
CHECK_DEADLOCK FALSE
INVARIANTS
  TypeOK
  SingleFlight
PROPERTIES
  RefreshReplacesWhatItRead
  RevokedBeforeDeleted
  ExchangedOnce
  FlightsDrain

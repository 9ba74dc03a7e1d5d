CONSTANTS
  r1 = r1
  r2 = r2
  m1 = m1
  Requests = {r1, r2}
  Models = {m1}
  NoValue = NoValue
  Torn = Torn
  Keys <- MCKeys
  Values <- MCValues
  Watched <- MCWatched
  Kinds = {"ceOn", "mrOn", "mrOff", "save", "stage", "sync"}
  Bodies <- MCBodies
  MaxRequests = 2
  MaxFaults = 1
SPECIFICATION FairSpec
INVARIANTS
  TypeOK
  CapturedFresh
PROPERTIES
  AppliesInOrder
  RestartForAChange
  EveryRequestEnds
  CopiesCatchUp
CHECK_DEADLOCK FALSE

CONSTANTS
  s1 = s1
  s2 = s2
  act = act
  a1 = a1
  a2 = a2
  a3 = a3
  c1 = c1
  c2 = c2
  Sessions = {s1}
  Actions = {act}
  Args = {a1}
  TTL = 2
  RetryWindow = 1
  CleanupInterval = 0
  TrustKeys <- MCTrustKeys
  Subjects <- MCSubjects
  DenialIds = {1}
  Window = 1
  Level1 = 1
  Level2 = 2
  Calls = {c1, c2}
  NoSession = NoSession
  Policies <- AskOrAllow
  Notifies = TRUE
  IsTTY = TRUE
  TotpConfigured = TRUE
  Embedder = TRUE
SPECIFICATION FairSpec
PROPERTIES
  ApprovalReachesStall
  StallsEnd

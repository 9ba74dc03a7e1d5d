CONSTANTS
  main = main
  r1 = r1
  r2 = r2
  read = read
  c1 = c1
  c2 = c2
  Sessions = {main}
  Requests = {r1}
  Tools = {read}
  Calls = {c1, c2}
  Policies <- OnePolicy
  Default <- MCDefault
  NoPolicy = NoPolicy
  Startup = Startup
  PluginStart = FALSE
  Embedder = FALSE
  Tears = TRUE
  Restarts = TRUE
  ResetScopes = {"all"}
  SawMarker = FALSE
  MaxResets = 0
  CountCap = 3
SPECIFICATION FairSpec
INVARIANTS
  TypeOK
  BudgetHolds
  CountsEveryCall
  SavedBeforeAnswered
  WarnedBeforeBlocked
PROPERTY EveryCallAnswered

CONSTANTS
  main = main
  r1 = r1
  r2 = r2
  read = read
  c1 = c1
  c2 = c2
  Sessions = {main}
  Requests = {r1}
  Tools = {read}
  Calls = {c1, c2}
  Policies <- TwoPolicies
  Default <- MCDefault
  NoPolicy = NoPolicy
  Startup = Startup
  PluginStart = FALSE
  Embedder = TRUE
  Tears = FALSE
  Restarts = FALSE
  ResetScopes = {"all"}
  SawMarker = TRUE
  MaxResets = 2
  CountCap = 2
SPECIFICATION Spec
SYMMETRY MCSymmetry
INVARIANTS
  ResetsHonoured

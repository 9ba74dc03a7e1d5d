CONSTANTS
  Calls = {c1, c2}
  read = read
  exec = exec
  erase = erase
  Inputs <- MCInputs
  Key <- MCKey
  Rule <- MCRule
  Configured <- MCConfigured
  MaxReloads = 1
SPECIFICATION FairSpec
INVARIANTS
  RunsAsSeen
  FindingsHeeded
PROPERTY EveryCallSettles
CHECK_DEADLOCK FALSE

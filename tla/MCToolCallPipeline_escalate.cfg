CONSTANTS
  Calls = {c1, c2}
  read = read
  exec = exec
  erase = erase
  Inputs <- MCInputs
  Key <- MCKey
  Rule <- MCRule
  Configured <- MCConfigured
  MaxReloads = 1
SPECIFICATION Spec
INVARIANT EscalatedAreAsked
CHECK_DEADLOCK FALSE

CONSTANTS
  s1 = s1
  s2 = s2
  threat = threat
  marker = marker
  token = token
  key = key
  Sessions = {s1, s2}
  Fragments = {threat, marker, token, key}
  Class <- MCClass
  Flag <- MCFlag
  Messages <- MCMessages
  Prompts <- MCPrompts
  MaxCanaries = 2
  MaxAudits = 1
SPECIFICATION Spec
SYMMETRY MCSymmetry
INVARIANTS
  TypeOK
  FlaggedRewritten
PROPERTY LeakbackStopped

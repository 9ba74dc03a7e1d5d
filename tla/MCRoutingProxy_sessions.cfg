CONSTANTS
  s1 = s1
  s2 = s2
  plain = plain
  stream = stream
  same = same
  m1 = m1
  m2 = m2
  r1 = r1
  r2 = r2
  r3 = r3
  Sessions = {s1, s2}
  Bodies = {plain}
  Hashes = {same}
  HashOf <- MCHashOf
  Models = {m1, m2}
  TopTier = 2
  MaxSessions = 1
  StrikeThreshold = 3
  Requests = {r1, r2}
  Streams = {}
  Cacheable = {}
  Chain <- MCChain
SPECIFICATION FairSpec
INVARIANT TypeOK
PROPERTIES
  NeverBelowPin
  EveryRequestAnswered

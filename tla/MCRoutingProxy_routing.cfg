CONSTANTS
  s1 = s1
  s2 = s2
  plain = plain
  stream = stream
  same = same
  m1 = m1
  m2 = m2
  r1 = r1
  r2 = r2
  r3 = r3
  Sessions = {s1}
  Bodies = {plain, stream}
  Hashes = {same}
  HashOf <- MCHashOf
  Models = {m1, m2}
  TopTier = 1
  MaxSessions = 1
  StrikeThreshold = 1
  Requests = {r1, r2, r3}
  Streams = {stream}
  Cacheable = {plain}
  Chain <- MCChain
SPECIFICATION Spec
SYMMETRY MCSymmetry
INVARIANTS
  WaitersHaveOriginal
  OneCallPerKey
  PaidOnce
PROPERTY NoCallAfterAbort

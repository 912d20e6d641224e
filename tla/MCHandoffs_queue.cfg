SPECIFICATION FairSpec
CONSTANTS
  h1 = h1
  h2 = h2
  cc = cc
  codex = codex
  s1 = s1
  s2 = s2
  s3 = s3
  o1 = o1
  o2 = o2
  Nobody = Nobody
  Handoffs = {h1, h2}
  Legacy = {h1}
  Callers = {cc, codex}
  Sessions = {s1}
  RoleOf <- MCOneSession
  Operators = {o1}
  OpenQuota = 1
  TotalQuota = 2
  MaxIdentities = 1
  MaxOccurrences = 0
  MaxClockBacks = 0
INVARIANTS
  QueueBounded
PROPERTIES
  EveryClaimEnds

SPECIFICATION Spec
CONSTANTS
  h1 = h1
  h2 = h2
  cc = cc
  codex = codex
  s1 = s1
  s2 = s2
  s3 = s3
  o1 = o1
  o2 = o2
  Nobody = Nobody
  Handoffs = {h1}
  Legacy = {}
  Callers = {cc, codex}
  Sessions = {s1, s2, s3}
  RoleOf <- MCThreeSessions
  Operators = {o1, o2}
  OpenQuota = 1
  TotalQuota = 2
  MaxIdentities = 2
  MaxOccurrences = 1
  MaxClockBacks = 1
SYMMETRY MCInterchangeable
INVARIANTS
  ClaimMatchesCapability
  ReceiptsTellTheTruth
  QuarantineKeepsTheRow
  OneSessionPerClaim
PROPERTIES
  TrustRisesOnlyWhereReviewed
  ExpiryDecidesWhoCloses
  ImplementsLifecycle

SPECIFICATION Spec
CONSTANTS
  codex = codex
  cc = cc
  notion_os = notion_os
  shipped1 = shipped1
  shipped2 = shipped2
  policy1 = policy1
  policy2 = policy2
  page1 = page1
  page2 = page2
  null = null
  c1 = c1
  c2 = c2
  Rows <- MCTwoRows
  Principals <- MCThreePrincipals
  Owner <- MCOwner
  Policies <- MCTwoPolicies
  Refs <- MCTwoRefs
  Nothing = null
  Calls <- MCCalls
  MaxCalls = 2
  MaxTime = 1
SYMMETRY MCInterchangeable
INVARIANTS
  JobsFollowProofs
  DelegatedRetryIsAnswered
PROPERTIES
  ProofIsNotReplaced
  DelegatedWriteSpendsTheGrant

--------------------------- MODULE MCDispositions ---------------------------
EXTENDS Dispositions, TLC

CONSTANTS codex, cc, notion_os, shipped1, shipped2, policy1, policy2, page1, page2, null, c1, c2

MCPrincipals == {codex, cc}
MCThreePrincipals == {codex, cc, notion_os}
MCOneRow == {shipped1}
MCTwoRows == {shipped1, shipped2}
MCOwner == [r \in Rows |-> codex]
MCOnePolicy == {policy1}
MCTwoPolicies == {policy1, policy2}
MCTwoRefs == {page1, page2}
MCCalls == {c1, c2}
MCDelegates == {cc, notion_os}

\* Only cc and notion_os are alike among the principals: codex owns the rows.
MCInterchangeable == Permutations(Calls) \cup Permutations(Rows)
                     \cup Permutations(Refs)
                     \cup Permutations(Policies) \cup Permutations(MCDelegates)
=============================================================================

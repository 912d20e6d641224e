----------------------------- MODULE MCHandoffs -----------------------------
EXTENDS Handoffs, TLC

CONSTANTS h1, h2, cc, codex, s1, s2, s3, o1, o2

MCOneSession == s1 :> cc
MCThreeSessions == s1 :> cc @@ s2 :> cc @@ s3 :> codex

\* The operators are alike, and so are the two sessions bound to cc.
MCInterchangeable == Permutations({o1, o2}) \cup Permutations({s1, s2})
=============================================================================

--------------------------- MODULE MCContextBridge ---------------------------
EXTENDS ContextBridge, TLC

CONSTANTS career, speaking, x, y, z, p1, p2, o1

MCSize == [t \in Texts \cup {NoText} |->
              CASE t = NoText -> 0 [] t = y -> 2 [] t = z -> 3 [] OTHER -> 1]
MCEqualSize == [t \in Texts \cup {NoText} |-> IF t = NoText THEN 0 ELSE 1]
MCOwnerAndReader == p1 :> "claude_ai" @@ p2 :> "codex"
MCOwners == p1 :> "claude_ai" @@ p2 :> "claude_ai"
MCOneOwner == p2 :> "claude_ai"
MCOneFile == <<career>>
MCTwoFile == <<career, speaking>>

\* Texts of one size, and processes of one role, are alike.
MCInterchangeable == Permutations({x, y}) \cup Permutations({p1, p2})
=============================================================================

-------------------------- MODULE GenerationSwitch --------------------------
(***************************************************************************)
(* What the execution root promises its readers: which generation is       *)
(* current and which one a rollback would return to change together, as    *)
(* one step, and only a generation that was replaced is asked to drain.    *)
(* ExecutionGenerations implements this with files, a journal and retries. *)
(***************************************************************************)
CONSTANTS
    Generations,    \* ids of execution generations
    Legacy,         \* those whose releases no longer pass the verifier
    None            \* no generation

VARIABLES
    current,        \* the generation that new servers are launched from
    previous,       \* the generation a rollback returns to
    draining        \* generations asked to drain

vars == <<current, previous, draining>>

Init ==
    /\ \/ current = None /\ previous = None
       \/ /\ current \in Legacy
          /\ previous \in Legacy \ {current}
    /\ draining = {}

(* The replaced generation becomes the rollback target.  A rollback is the *)
(* switch to that target.                                                  *)
Switch(g) ==
    /\ g # current
    /\ current' = g
    /\ previous' = current
    /\ UNCHANGED draining

(* Both generations of the map are replaced by a pair of others. *)
Adopt(g, back) ==
    /\ g # back
    /\ {g, back} \cap {current, previous} = {}
    /\ current' = g
    /\ previous' = back
    /\ UNCHANGED draining

RequestDrain ==
    /\ previous # None
    /\ previous # current
    /\ draining' = draining \cup {previous}
    /\ UNCHANGED <<current, previous>>

Next ==
    \/ \E g \in Generations : Switch(g)
    \/ \E g, back \in Generations : Adopt(g, back)
    \/ RequestDrain

Spec == Init /\ [][Next]_vars
=============================================================================

-------------------------- MODULE HandoffLifecycle --------------------------
(***************************************************************************)
(* What the handoff queue promises to the person who dispatches work: each *)
(* handoff is proposed once, is claimed by at most one consumer and only   *)
(* after an operator approved it, and is closed at most once, by the       *)
(* consumer that holds it or by an operator when nobody can.               *)
(***************************************************************************)
CONSTANTS Handoffs,         \* the handoff ids
          Callers,          \* the consumer roles, cc and codex
          Nobody            \* no holder

VARIABLES phase,            \* where each handoff stands
          holder            \* the consumer that claimed it

vars == <<phase, holder>>

Phases == {"unused", "proposed", "approved", "claimed",
           "completed", "cancelled", "recovered", "archived"}

TypeOK ==
    /\ phase \in [Handoffs -> Phases]
    /\ holder \in [Handoffs -> Callers \cup {Nobody}]

\* An upgraded database starts with handoffs in any open phase, or closed
\* before closings were recorded; nothing it holds was closed by a receipt.
Init ==
    /\ phase \in [Handoffs -> {"unused", "proposed", "approved", "claimed",
                               "archived"}]
    /\ holder \in [Handoffs -> Callers \cup {Nobody}]

Move(h, from, to) ==
    /\ phase[h] \in from
    /\ phase' = [phase EXCEPT ![h] = to]

Propose(h) == Move(h, {"unused"}, "proposed") /\ UNCHANGED holder

Approve(h) == Move(h, {"proposed"}, "approved") /\ UNCHANGED holder

Claim(h, c) ==
    /\ Move(h, {"approved"}, "claimed")
    /\ holder' = [holder EXCEPT ![h] = c]

\* Only a handoff somebody holds can be completed or recovered; the holder
\* stays on the record.
Complete(h) ==
    /\ holder[h] \in Callers
    /\ Move(h, {"claimed"}, "completed")
    /\ UNCHANGED holder

Recover(h) ==
    /\ holder[h] \in Callers
    /\ Move(h, {"claimed"}, "recovered")
    /\ UNCHANGED holder

\* The operator withdraws work nobody holds.
Cancel(h) ==
    /\ holder[h] = Nobody
    /\ Move(h, {"proposed", "approved", "claimed"}, "cancelled")
    /\ UNCHANGED holder

Next ==
    \E h \in Handoffs :
        \/ Propose(h) \/ Approve(h)
        \/ \E c \in Callers : Claim(h, c)
        \/ Complete(h) \/ Recover(h) \/ Cancel(h)

Spec == Init /\ [][Next]_vars
=============================================================================

--------------------------- MODULE RecoveryAnchors ---------------------------
(***************************************************************************)
(* Recovery anchors, bridge_db/recovery.py: a verified copy of the         *)
(* database in a directory beside it.  `create` publishes one at the       *)
(* stable path; `rotate` builds a candidate at a new sibling path and      *)
(* exchanges the two directories, so that the sibling holds the superseded *)
(* anchor.  Commands take no lock of their own: what serialises them is    *)
(* SQLite's writer slot, held for the last comparison and the renaming.    *)
(*                                                                         *)
(* This module has the commands up to the point where a rotation is        *)
(* verified, and from a failure on; RecoverySeals has what happens there.  *)
(* Contents of the database are numbered by the commits that made them:    *)
(* no later content has the fingerprint of an earlier one.                 *)
(***************************************************************************)
EXTENDS Naturals

CONSTANTS
    Processes,      \* operator commands, one at a time each
    OldContents,    \* contents that have an older schema
    None,
    MaxWrites,      \* bound on commits of other programs
    MaxBundles,     \* bound on backups that have room
    MaxFaults       \* bound on crashes, failures and damage

ASSUME AnchorsAssumption ==
    /\ None \notin Processes
    /\ {MaxWrites, MaxBundles, MaxFaults} \subseteq Nat
    /\ OldContents \subseteq Nat

VARIABLES
    db,             \* what the database holds
    slot,           \* who holds SQLite's writer slot across steps
    anchor,         \* the bundle at the stable path
    superseded,     \* the bundles at sibling paths
    damaged,        \* bundles that no longer verify
    made,           \* number of bundles ever made
    proc,           \* where a command stands
    faults

NoBundle == [id |-> 0, of |-> 0]

Idle == [at |-> "idle", run |-> "none", prev |-> NoBundle, cand |-> NoBundle,
         swapped |-> FALSE, batch |-> None]

\* At first there is an anchor of an earlier version of the program, or none.
AnchorsInit ==
    /\ db = 0
    /\ slot = None
    /\ anchor \in {NoBundle, [id |-> 1, of |-> 0]}
    /\ superseded = {}
    /\ damaged = {}
    /\ made = 1
    /\ proc = [p \in Processes |-> Idle]
    /\ faults = 0

At(p, place) == proc[p].at = place
Goes(p, place) == proc' = [proc EXCEPT ![p].at = place]

\* verify_recovery_anchor under the expected schema.
Sound(b) == b # NoBundle /\ b.id \notin damaged
Verified(b) == Sound(b) /\ b.of \notin OldContents

\* _verify_rotation_evidence: an older schema is no objection.
Evidence(b) == Sound(b)

\* _recovery_anchor_inventory_at: verified, and of what the database holds.
Ready(b) == Verified(b) /\ b.of = db

\* The bundle at the sibling path of a rotation.
Sibling(p) == IF proc[p].swapped THEN proc[p].prev ELSE proc[p].cand

\* Mutant: the sibling is removed, exchanged or not.
Raises_RemovesSibling(p) ==
    Goes(p, IF proc[p].cand # NoBundle THEN "cleanup" ELSE "raised")

\* An exception: a candidate that was published and not exchanged is removed.
Raises(p) == Goes(p, IF proc[p].cand \in superseded /\ ~proc[p].swapped
                     THEN "cleanup" ELSE "raised")

Release(p) == slot' = IF slot = p THEN None ELSE slot

Fault == faults < MaxFaults /\ faults' = faults + 1

(***************************************************************************)
(* The world: commits of other programs, the first of them the migration   *)
(* to the expected schema, and damage to the current anchor.               *)
(***************************************************************************)
Write ==
    /\ slot = None
    /\ db < MaxWrites
    /\ db' = db + 1
    /\ UNCHANGED <<slot, anchor, superseded, damaged, made, proc, faults>>

Damage ==
    /\ Sound(anchor)
    /\ Fault
    /\ damaged' = damaged \cup {anchor.id}
    /\ UNCHANGED <<db, slot, anchor, superseded, made, proc>>

(***************************************************************************)
(* A backup, and its publication at a path nobody has.                     *)
(***************************************************************************)
StartCreate(p) ==
    /\ At(p, "idle")
    /\ anchor = NoBundle
    /\ proc' = [proc EXCEPT ![p] = [Idle EXCEPT !.at = "backup", !.run = "create"]]
    /\ UNCHANGED <<db, slot, anchor, superseded, damaged, made, faults>>

\* The online backup is one consistent image; its schema is the expected one.
Backup(p) ==
    /\ At(p, "backup")
    /\ IF db \in OldContents \/ made = MaxBundles
       THEN Raises(p) /\ UNCHANGED made
       ELSE /\ made' = made + 1
            /\ proc' = [proc EXCEPT ![p].at = "publish",
                                    ![p].cand = [id |-> made + 1, of |-> db]]
    /\ UNCHANGED <<db, slot, anchor, superseded, damaged, faults>>

\* Under the writer slot: compare with the database, rename without replacing,
\* read back.  No other renaming falls in between.
Publish(p) ==
    /\ At(p, "publish")
    /\ slot = None
    /\ LET cand == proc[p].cand IN
       CASE proc[p].run = "create" /\ db = cand.of /\ anchor = NoBundle ->
                anchor' = cand /\ Goes(p, "idle") /\ UNCHANGED superseded
         [] proc[p].run # "create" /\ db = cand.of ->
                superseded' = superseded \cup {cand} /\ Goes(p, "recheck") /\ UNCHANGED anchor
         [] OTHER -> Raises(p) /\ UNCHANGED <<anchor, superseded>>
    /\ UNCHANGED <<db, slot, damaged, made, faults>>

(***************************************************************************)
(* A rotation.                                                             *)
(***************************************************************************)
StartRotate(p) ==
    /\ At(p, "idle")
    /\ proc' = [proc EXCEPT ![p] = [Idle EXCEPT !.at = "rotate", !.run = "rotate"]]
    /\ UNCHANGED <<db, slot, anchor, superseded, damaged, made, faults>>

\* What is there has to be evidence, at whatever schema.
TakeEvidence(p) ==
    IF Evidence(anchor)
    THEN proc' = [proc EXCEPT ![p].at = "backup", ![p].prev = anchor]
    ELSE Raises(p)

LookAtAnchor(p) ==
    /\ At(p, "rotate")
    /\ IF Ready(anchor) THEN Goes(p, "preserve") ELSE TakeEvidence(p)
    /\ UNCHANGED <<db, slot, anchor, superseded, damaged, made, faults>>

\* A current anchor is kept, if it still is one with the writer slot held.
Preserve(p) ==
    /\ At(p, "preserve")
    /\ slot = None
    /\ IF Ready(anchor)
       THEN slot' = p /\ Goes(p, "verified")
       ELSE TakeEvidence(p) /\ UNCHANGED slot
    /\ UNCHANGED <<db, anchor, superseded, damaged, made, faults>>

\* With the writer slot again: the candidate is current, and the anchor is
\* the very directory that was taken for evidence.
Recheck(p) ==
    /\ At(p, "recheck")
    /\ slot = None
    /\ IF Ready(proc[p].cand) /\ anchor = proc[p].prev /\ Evidence(anchor)
       THEN slot' = p /\ Goes(p, "swap")
       ELSE Raises(p) /\ UNCHANGED slot
    /\ UNCHANGED <<db, anchor, superseded, damaged, made, faults>>

\* renameatx_np and renameat2 exchange two directories in one call.
Exchange(in) ==
    /\ anchor' = in
    /\ superseded' = (superseded \ {in}) \cup {anchor}

\* After the exchange both bundles are read back.
Swap(p) ==
    /\ At(p, "swap")
    /\ Exchange(proc[p].cand)
    /\ proc' = [proc EXCEPT ![p].swapped = TRUE,
                            ![p].at = IF Ready(proc[p].cand) /\ Evidence(proc[p].prev)
                                      THEN "verified" ELSE "undo"]
    /\ UNCHANGED <<db, slot, damaged, made, faults>>

\* Exchanged back; then the writer slot is free, and the candidate removed.
Undo(p) ==
    /\ At(p, "undo")
    /\ IF proc[p].swapped
       THEN /\ Exchange(proc[p].prev)
            /\ proc' = [proc EXCEPT ![p].swapped = FALSE, ![p].at = "cleanup"]
       ELSE Raises(p) /\ UNCHANGED <<anchor, superseded>>
    /\ Release(p)
    /\ UNCHANGED <<db, damaged, made, faults>>

Cleanup(p) ==
    /\ At(p, "cleanup")
    /\ superseded' = superseded \ {Sibling(p)}
    /\ Goes(p, "raised")
    /\ UNCHANGED <<db, slot, anchor, damaged, made, faults>>

(***************************************************************************)
(* What fails: a call, or the wait for a writer slot another one holds.    *)
(***************************************************************************)
Fails(p) ==
    /\ proc[p].at \in {"backup", "publish", "preserve", "recheck", "swap", "undo"}
    /\ Fault
    /\ Raises(p)
    /\ Release(p)
    /\ UNCHANGED <<db, anchor, superseded, damaged, made>>

BusyTimeout(p) ==
    /\ proc[p].at \in {"publish", "preserve", "recheck"}
    /\ slot # None
    /\ Raises(p)
    /\ UNCHANGED <<db, slot, anchor, superseded, damaged, made, faults>>

RotationStep(p) ==
    \/ Backup(p) \/ Publish(p) \/ BusyTimeout(p)
    \/ LookAtAnchor(p) \/ Preserve(p) \/ Recheck(p) \/ Swap(p)
    \/ Undo(p) \/ Cleanup(p)
=============================================================================

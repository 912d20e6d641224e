---------------------------- MODULE RecoverySeals ----------------------------
(***************************************************************************)
(* Recovery seals, bridge_db/recovery_seal.py, on top of the recovery      *)
(* anchors: for a completed batch of writes, an immutable attempt and then *)
(* at most one terminal receipt, published while the rotation still holds  *)
(* the writer slot.  Batches are sealed one at a time, under a lock;       *)
(* anchors are also created and rotated by hand, without it.  The gate     *)
(* before an activation reads all of this and takes no lock.               *)
(***************************************************************************)
EXTENDS RecoveryAnchors, Sequences

CONSTANT Batches

VARIABLES
    lock,           \* who holds the seal lock
    opened,         \* batches that have a directory
    attempts,       \* batches with an attempt, in the order of started_at
    source,         \* the content an attempt was made for
    receipts,       \* terminal receipts
    debris,         \* batches with a temporary file of a publication
    gate,           \* a reader that checks whether an activation may begin
    retained        \* history: bundles at the stable path, the slot free

anchorVars == <<db, slot, anchor, superseded, damaged, made, proc, faults>>
sealVars == <<lock, opened, attempts, source, receipts, debris>>
vars == <<anchorVars, sealVars, gate, retained>>

NoReceipt == [outcome |-> "none", of |-> 0, bundle |-> 0]
Outcomes == {"recovery_sealed", "recovery_unsealed"}

\* The gate: the bundle it verified and a content, and of the directories of
\* the batches those still to read, and the latest attempt read.
Unread == [todo |-> {}, latest |-> None, seal |-> NoReceipt]
Outside == [at |-> "outside", sha |-> 0, of |-> 0, scan |-> Unread]

Init ==
    /\ AnchorsInit
    /\ lock = None
    /\ opened = {}
    /\ attempts = <<>>
    /\ source = [b \in Batches |-> 0]
    /\ receipts = [b \in Batches |-> NoReceipt]
    /\ debris = {}
    /\ gate = Outside
    /\ retained = {anchor} \ {NoBundle}

Attempted(b) == \E i \in DOMAIN attempts : attempts[i] = b
Terminated(b) == receipts[b] # NoReceipt

\* A command ends: its locks are free.
Leave(p) ==
    /\ proc' = [proc EXCEPT ![p] = Idle]
    /\ Release(p)
    /\ lock' = IF lock = p THEN None ELSE lock

(***************************************************************************)
(* The records a command publishes, and how.                               *)
(***************************************************************************)
Unsealed(b) == [outcome |-> "recovery_unsealed", of |-> source[b], bundle |-> anchor.id]
Sealed(b) == [outcome |-> "recovery_sealed", of |-> source[b], bundle |-> anchor.id]

\* started_at is the clock's, which may have been set back.
LinkAttempt(b) ==
    /\ attempts' \in {Append(attempts, b), <<b>> \o attempts}
    /\ source' = [source EXCEPT ![b] = db]
    /\ UNCHANGED receipts

LinkReceipt(b, receipt) ==
    /\ receipts' = [receipts EXCEPT ![b] = receipt]
    /\ UNCHANGED <<attempts, source>>

(***************************************************************************)
(* A batch is sealed.                                                      *)
(***************************************************************************)
\* With the lock, the directory is made.  What is terminated is only replayed.
StartSeal(p, b) ==
    /\ At(p, "idle")
    /\ lock = None
    /\ b \notin debris
    /\ ~Terminated(b)
    /\ lock' = p
    /\ opened' = opened \cup {b}
    /\ proc' = [proc EXCEPT ![p] = [Idle EXCEPT !.at = "attempt", !.run = "seal", !.batch = b]]
    /\ UNCHANGED <<db, slot, anchor, superseded, damaged, made, faults,
                   attempts, source, receipts, debris, gate>>

\* The attempt of an interrupted call is resumed, with the content it names.
Attempt(p) ==
    LET b == proc[p].batch IN
    /\ At(p, "attempt")
    /\ IF Attempted(b) THEN UNCHANGED <<attempts, source, receipts>> ELSE LinkAttempt(b)
    /\ Goes(p, "check")
    /\ UNCHANGED <<db, slot, anchor, superseded, damaged, made, faults,
                   lock, opened, debris, gate>>

SourceMoved(p) == db # source[proc[p].batch]

\* The source has to be what it was at the attempt, and then the anchor is
\* rotated.
Check(p) ==
    LET b == proc[p].batch IN
    /\ At(p, "check")
    /\ IF SourceMoved(p)
       THEN LinkReceipt(b, Unsealed(b)) /\ Leave(p)
       ELSE Goes(p, "rotate") /\ UNCHANGED <<slot, lock, attempts, source, receipts>>
    /\ UNCHANGED <<db, anchor, superseded, damaged, made, faults, opened, debris, gate>>

\* Mutant: the callback trusts the check made before the rotation.
Seal_Unchecked(p) ==
    LET b == proc[p].batch IN
    /\ At(p, "verified")
    /\ proc[p].run = "seal"
    /\ LinkReceipt(b, Sealed(b)) /\ Leave(p)
    /\ UNCHANGED <<db, anchor, superseded, damaged, made, faults, opened, debris, gate>>

\* publish_verified_receipt, with the writer slot still held: an exception
\* here undoes the rotation.
Seal(p) ==
    LET b == proc[p].batch IN
    /\ At(p, "verified")
    /\ proc[p].run = "seal"
    /\ IF SourceMoved(p)
       THEN Goes(p, "undo") /\ UNCHANGED <<slot, lock, attempts, source, receipts>>
       ELSE LinkReceipt(b, Sealed(b)) /\ Leave(p)
    /\ UNCHANGED <<db, anchor, superseded, damaged, made, faults, opened, debris, gate>>

\* Mutant: the exception leaves the batch without a receipt and the lock taken.
Unseal_KeepsLock(p) ==
    /\ At(p, "raised")
    /\ proc[p].run = "seal"
    /\ proc' = [proc EXCEPT ![p] = Idle]
    /\ UNCHANGED <<db, slot, anchor, superseded, damaged, made, faults,
                   lock, opened, attempts, source, receipts, debris, gate>>

\* After a rotation that raised, the receipt says so.
Unseal(p) ==
    LET b == proc[p].batch IN
    /\ At(p, "raised")
    /\ proc[p].run = "seal"
    /\ LinkReceipt(b, Unsealed(b))
    /\ Leave(p)
    /\ UNCHANGED <<db, anchor, superseded, damaged, made, faults, opened, debris, gate>>

\* A rotation by hand is over, or a command by hand failed.
EndByHand(p) ==
    /\ proc[p].at \in {"verified", "raised"}
    /\ proc[p].run # "seal"
    /\ Leave(p)
    /\ UNCHANGED <<db, anchor, superseded, damaged, made, faults,
                   opened, attempts, source, receipts, debris, gate>>

(***************************************************************************)
(* What goes wrong.                                                        *)
(***************************************************************************)
\* A record is not published: the rotation is undone, or the call is refused.
PublicationFails(p) ==
    /\ proc[p].run = "seal"
    /\ Fault
    /\ \/ At(p, "verified") /\ Goes(p, "undo") /\ UNCHANGED <<slot, lock>>
       \/ proc[p].at \in {"attempt", "check", "raised"} /\ Leave(p)
    /\ UNCHANGED <<db, anchor, superseded, damaged, made,
                   opened, attempts, source, receipts, debris, gate>>

\* The fingerprint is not to be had at the check: the receipt says unsealed.
CannotCheck(p) ==
    LET b == proc[p].batch IN
    /\ At(p, "check")
    /\ Fault
    /\ LinkReceipt(b, Unsealed(b))
    /\ Leave(p)
    /\ UNCHANGED <<db, anchor, superseded, damaged, made, opened, debris, gate>>

\* The process is killed; the operating system gives back its locks.
Crash(p) ==
    /\ ~At(p, "idle")
    /\ Fault
    /\ Leave(p)
    /\ UNCHANGED <<db, anchor, superseded, damaged, made,
                   opened, attempts, source, receipts, debris, gate>>

\* It is killed in _publish_record: the temporary file stays, linked or not.
CrashInPublication(p) ==
    LET b == proc[p].batch IN
    /\ proc[p].run = "seal"
    /\ proc[p].at \in {"attempt", "check", "verified", "raised"}
    /\ Fault
    /\ debris' = debris \cup {b}
    /\ \/ UNCHANGED <<attempts, source, receipts>>
       \/ At(p, "attempt") /\ ~Attempted(b) /\ LinkAttempt(b)
       \/ At(p, "verified") /\ ~SourceMoved(p) /\ LinkReceipt(b, Sealed(b))
       \/ proc[p].at \in {"check", "raised"} /\ LinkReceipt(b, Unsealed(b))
    /\ At(p, "attempt") => ~Attempted(b)
    /\ At(p, "verified") => ~SourceMoved(p)
    /\ Leave(p)
    /\ UNCHANGED <<db, anchor, superseded, damaged, made, opened, gate>>

(***************************************************************************)
(* The gate before an activation and a rollback: the anchor is verified,   *)
(* compared with the database, then the receipts are, one reading after    *)
(* the other.                                                              *)
(***************************************************************************)
GateStep(from, to, holds, next) ==
    /\ gate.at = from
    /\ gate' = IF holds THEN [next EXCEPT !.at = to] ELSE Outside
    /\ UNCHANGED <<anchorVars, sealVars>>

GateVerifies ==
    GateStep("outside", "verified", Verified(anchor), [gate EXCEPT !.sha = anchor.id])

GateReadsAnchor == GateStep("verified", "anchor", TRUE, [gate EXCEPT !.of = anchor.of])

GateReadsSource == GateStep("anchor", "current", db = gate.of, gate)

\* recovery_seal_inventory reads one directory after the other; one that is
\* not as it should be makes all of them invalid.
GateListsBatches ==
    GateStep("current", "reading", opened # {}, [gate EXCEPT !.scan = [Unread EXCEPT !.todo = opened]])

StartedLater(b, c) ==
    \E i, j \in DOMAIN attempts : i < j /\ attempts[i] = c /\ attempts[j] = b

GateReadsBatch(b) ==
    LET scan == gate.scan
        rest == scan.todo \ {b}
    IN
    /\ b \in scan.todo
    /\ GateStep("reading", "reading", b \notin debris /\ Attempted(b),
           [gate EXCEPT !.scan =
               IF scan.latest = None \/ StartedLater(b, scan.latest)
               THEN [todo |-> rest, latest |-> b, seal |-> receipts[b]]
               ELSE [todo |-> rest, latest |-> scan.latest, seal |-> scan.seal]])

GateReadsSeals ==
    LET seal == gate.scan.seal IN
    /\ gate.scan.todo = {}
    /\ GateStep("reading", "sealed",
           seal.outcome = "recovery_sealed" /\ seal.bundle = gate.sha,
           [gate EXCEPT !.of = seal.of, !.scan = Unread])

\* Mutant: that the anchor is current is enough.
GateReadsSourceAgain_Trusts == GateStep("sealed", "ready", TRUE, gate)

GateReadsSourceAgain == GateStep("sealed", "ready", db = gate.of, gate)

GateCloses ==
    /\ gate.at = "ready"
    /\ gate' = Outside
    /\ UNCHANGED <<anchorVars, sealVars>>

-----------------------------------------------------------------------------
RotationOfAnchors(p) == RotationStep(p) /\ UNCHANGED <<sealVars, gate>>

Proceed(p) ==
    \/ RotationOfAnchors(p)
    \/ Attempt(p) \/ Check(p) \/ Seal(p) \/ Unseal(p) \/ EndByHand(p)

Begin(p) ==
    /\ StartCreate(p) \/ StartRotate(p)
    /\ UNCHANGED <<sealVars, gate>>

Environment ==
    /\ Write \/ Damage \/ \E p \in Processes : Fails(p)
    /\ UNCHANGED <<sealVars, gate>>

Gate ==
    \/ GateVerifies \/ GateReadsAnchor \/ GateReadsSource
    \/ GateListsBatches \/ (\E b \in Batches : GateReadsBatch(b)) \/ GateReadsSeals
    \/ GateReadsSourceAgain \/ GateCloses

Step ==
    \/ \E p \in Processes : Begin(p) \/ Proceed(p) \/ \E b \in Batches : StartSeal(p, b)
    \/ \E p \in Processes : PublicationFails(p) \/ CannotCheck(p)
    \/ \E p \in Processes : Crash(p) \/ CrashInPublication(p)
    \/ Environment
    \/ Gate

Retain == retained' = IF slot' = None THEN retained \cup ({anchor'} \ {NoBundle}) ELSE retained

Next == Step /\ Retain

Spec == Init /\ [][Next]_vars

\* A command that runs goes on; an operator repeats a call until it ends.
Retry(b) == (\E p \in Processes : StartSeal(p, b)) /\ Retain

FairSpec ==
    /\ Spec
    /\ \A p \in Processes : WF_vars(Proceed(p) /\ Retain)
    /\ \A b \in Batches : SF_vars(Retry(b))

-----------------------------------------------------------------------------
Bundles == [id : 0 .. MaxBundles, of : 0 .. MaxWrites]

TypeOK ==
    /\ db \in 0 .. MaxWrites
    /\ {slot, lock} \subseteq Processes \cup {None}
    /\ anchor \in Bundles
    /\ superseded \subseteq Bundles
    /\ damaged \subseteq 1 .. MaxBundles
    /\ made \in 1 .. MaxBundles
    /\ \A p \in Processes : {proc[p].prev, proc[p].cand} \subseteq Bundles
    /\ faults \in 0 .. MaxFaults
    /\ debris \subseteq opened
    /\ receipts \in [Batches -> {NoReceipt} \cup
                                [outcome : Outcomes, of : 0 .. MaxWrites, bundle : 0 .. MaxBundles]]

\* A receipt that says sealed is published at a moment when the database
\* holds the content of the attempt, and the anchor at the stable path is the
\* bundle it names and has that content (recovery_seal.py:660-681).  Other
\* programs write, and operators rotate without the seal lock, all the while.
SealedReceiptsTellTheTruth ==
    [][\A b \in Batches :
          receipts'[b].outcome = "recovery_sealed" /\ receipts[b] = NoReceipt =>
              /\ receipts'[b].of = db'
              /\ anchor'.of = db'
              /\ receipts'[b].bundle = anchor'.id]_vars

\* A bundle that was the anchor while no rotation held the writer slot is
\* never lost: concurrent rotations, failures at any step and kills leave it
\* at the stable path or at a sibling (recovery.py:1000-1107).
EvidenceIsKept == retained \subseteq {anchor} \cup superseded

\* When the gate says ready, the bundle it verified is the anchor now, and
\* what the database holds now (execution_generation.py:153-197): several
\* readings, none of them under a lock.
GateVerdictIsTrue ==
    [][gate'.at = "ready" /\ gate.at # "ready" =>
          anchor.id = gate.sha /\ anchor.of = db]_vars

\* An attempt gets its terminal receipt, or a temporary file that a kill left
\* behind is in its directory: a rotation that raised, a writer slot that is
\* not to be had or a lost call do not leave it open (recovery_seal.py:683-755).
AttemptIsTerminated ==
    \A b \in Batches : Attempted(b) ~> Terminated(b) \/ b \in debris

\* docs/internal/RECOVERY-SEAL-PROTOCOL.md:64-68: a hard interruption leaves
\* only the attempt, and a retry resumes it.  So every attempt is terminated.
InterruptedSealCanEnd ==
    \A b \in Batches : Attempted(b) ~> Terminated(b)
=============================================================================

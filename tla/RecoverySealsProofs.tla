------------------------ MODULE RecoverySealsProofs ------------------------
(***************************************************************************)
(* No recovery anchor is lost, no sealed receipt is false, and the gate    *)
(* before an activation is right when it says ready, for any number of     *)
(* commands, batches, commits of other programs, failures and kills.       *)
(*                                                                         *)
(* The writer slot is all that serialises commands, and they hold it only  *)
(* from the last comparison on.  The invariant says what a command may     *)
(* rely on: while it holds the slot the anchor is the one it compared, or  *)
(* the candidate it exchanged for it; and a candidate that was not         *)
(* exchanged is its own, was never the anchor, and so may be removed.      *)
(***************************************************************************)
EXTENDS RecoverySeals, TLAPS

Bundle == [id : Nat, of : Nat]
Places == {"idle", "backup", "publish", "rotate", "preserve", "recheck", "swap",
           "verified", "undo", "cleanup", "raised", "attempt", "check"}
Command == [at : Places, run : {"none", "create", "rotate", "seal"}, prev : Bundle,
            cand : Bundle, swapped : BOOLEAN, batch : Batches \cup {None}]

CommandsType ==
    /\ db \in Nat /\ made \in Nat
    /\ slot \in Processes \cup {None}
    /\ anchor \in Bundle /\ anchor.id <= made
    /\ retained \subseteq Bundle /\ \A b \in retained : b.id <= made
    /\ proc \in [Processes -> Command]
    /\ \A p \in Processes : proc[p].prev.id <= made /\ proc[p].cand.id <= made
    /\ receipts = [b \in Batches |-> receipts[b]]

\* A candidate that was not exchanged, and one that was and may still be
\* exchanged back.
Own(c) == c.at # "idle" /\ c.cand # NoBundle /\ ~c.swapped
Exchanged(c) == c.swapped /\ c.at \in {"verified", "undo"}
Replaces(c) == c.at = "swap" \/ Exchanged(c)

HoldsSlot(p) ==
    /\ proc[p].swapped => proc[p].at \in {"verified", "undo", "raised"}
    /\ proc[p].at \in {"swap", "verified", "undo"} => slot = p

OwnIsNoEvidence(p) == Own(proc[p]) => proc[p].cand # anchor /\ proc[p].cand \notin retained

Comparison(p) ==
    /\ proc[p].at = "verified" => anchor.of = db
    /\ proc[p].at = "swap" => Own(proc[p])
    /\ Replaces(proc[p]) => proc[p].prev # proc[p].cand
    /\ Exchanged(proc[p]) =>
          proc[p].cand # NoBundle /\ anchor = proc[p].cand /\ proc[p].cand \notin retained

Apart(p, q) ==
    /\ Own(proc[p]) /\ Own(proc[q]) => proc[p].cand # proc[q].cand
    /\ Replaces(proc[p]) /\ Own(proc[q]) => proc[p].prev # proc[q].cand

Kept == EvidenceIsKept /\ NoBundle \notin retained

SealsInv ==
    /\ CommandsType
    /\ \A p \in Processes : HoldsSlot(p) /\ OwnIsNoEvidence(p) /\ Comparison(p)
    /\ \A p, q \in Processes : p # q => Apart(p, q)
    /\ Kept

LEMMA Types ==
    /\ NoBundle \in Bundle
    /\ Idle \in Command
    /\ ~Own(Idle) /\ ~Replaces(Idle) /\ ~Exchanged(Idle)
BY DEF NoBundle, Bundle, Idle, Command, Places, Own, Replaces, Exchanged

LEMMA InitSealsInv == Init => SealsInv
<1> SUFFICES ASSUME Init PROVE SealsInv
  OBVIOUS
<1> USE DEF Init, AnchorsInit
<1>1. CommandsType
  BY Types DEF CommandsType, NoBundle, Bundle, Idle
<1>2. \A p \in Processes : proc[p] = Idle
  OBVIOUS
<1>3. Kept
  BY DEF Kept, EvidenceIsKept
<1>4. Idle.at = "idle" /\ ~Idle.swapped
  BY DEF Idle
<1> HIDE DEF Init, AnchorsInit
<1> QED
  BY <1>1, <1>2, <1>3, <1>4, Types
  DEF SealsInv, HoldsSlot, OwnIsNoEvidence, Comparison, Apart

(***************************************************************************)
(* Most steps move one command, and neither the anchor nor the database.   *)
(* c is the command after the step.                                        *)
(***************************************************************************)
SlotPasses(p) == slot' = slot \/ (slot \in {p, None} /\ slot' \in {p, None})

Keeps(p, c) ==
    /\ c \in Command
    /\ c.prev.id <= made
    /\ c.cand \in {proc[p].cand, NoBundle}
    /\ c.swapped => c.at \in {"verified", "undo", "raised"}
    /\ c.at \in {"swap", "verified", "undo"} => slot' = p
    /\ c.at = "verified" => anchor.of = db
    /\ Own(c) => Own(proc[p])
    /\ Exchanged(c) => Exchanged(proc[p]) /\ c.cand = proc[p].cand /\ c.prev = proc[p].prev
    /\ c.at = "swap" => Own(c) /\ c.prev = anchor

Moves(p) == \E c : Keeps(p, c) /\ proc' = [proc EXCEPT ![p] = c]

LEMMA MoveInv ==
    ASSUME SealsInv, NEW p \in Processes, Moves(p), SlotPasses(p), Retain,
           UNCHANGED <<db, anchor, made>>,
           retained \subseteq {anchor} \cup superseded',
           receipts' = [b \in Batches |-> receipts'[b]]
    PROVE  SealsInv'
<1> PICK c : Keeps(p, c) /\ proc' = [proc EXCEPT ![p] = c]
  BY DEF Moves
<1>1. /\ proc \in [Processes -> Command] /\ proc' \in [Processes -> Command]
      /\ proc'[p] = c
      /\ \A q \in Processes : q # p => proc'[q] = proc[q]
  BY DEF Keeps, SealsInv, CommandsType
<1>2. retained' \subseteq retained \cup ({anchor} \ {NoBundle})
  BY DEF Retain
<1>3. slot' \in Processes \cup {None}
  BY DEF SlotPasses, SealsInv, CommandsType
<1>4. CommandsType'
  <2>1. retained' \subseteq Bundle /\ \A b \in retained' : b.id <= made
    BY <1>2 DEF SealsInv, CommandsType
  <2>2. \A q \in Processes : proc'[q].prev.id <= made /\ proc'[q].cand.id <= made
    BY <1>1 DEF Keeps, SealsInv, CommandsType, NoBundle
  <2> QED
    BY <1>1, <1>3, <2>1, <2>2 DEF SealsInv, CommandsType
<1>5. ASSUME NEW q \in Processes PROVE HoldsSlot(q)'
  BY <1>1, <1>5, AnchorsAssumption DEF SealsInv, HoldsSlot, SlotPasses, Keeps
<1>6. ASSUME NEW q \in Processes PROVE OwnIsNoEvidence(q)'
  <2>1. Own(proc'[q]) => Own(proc[q]) /\ proc'[q].cand = proc[q].cand
    BY <1>1 DEF Keeps, Own
  <2> QED
    BY <1>2, <2>1 DEF SealsInv, OwnIsNoEvidence
<1>7. ASSUME NEW q \in Processes PROVE Comparison(q)'
  <2>1. CASE q = p
    <3>1. ASSUME Exchanged(c) PROVE c.cand \notin retained'
      <4>1. slot' = p /\ p # None
        BY <3>1, AnchorsAssumption DEF Keeps, Exchanged
      <4>2. retained' = retained
        BY <4>1 DEF Retain
      <4> QED
        BY <3>1, <4>2 DEF SealsInv, Comparison, Keeps
    <3>2. c.at = "swap" => c.prev # c.cand
      BY DEF Keeps, SealsInv, OwnIsNoEvidence, Own
    <3> QED
      BY <1>1, <2>1, <3>1, <3>2 DEF SealsInv, Comparison, Keeps, Replaces
  <2>2. CASE q # p
    <3>1. proc'[q] = proc[q]
      BY <1>1, <2>2
    <3>2. ASSUME Exchanged(proc[q]) PROVE retained' = retained
      <4>1. slot = q
        BY <3>2 DEF SealsInv, HoldsSlot, Exchanged
      <4>2. slot' # None
        BY <2>2, <4>1, AnchorsAssumption DEF SlotPasses
      <4> QED
        BY <4>2 DEF Retain
    <3> QED
      BY <3>1, <3>2 DEF SealsInv, Comparison
  <2> QED
    BY <2>1, <2>2
<1>8. ASSUME NEW q \in Processes, NEW r \in Processes, q # r PROVE Apart(q, r)'
  <2>1. \A s \in Processes : Own(proc'[s]) => Own(proc[s]) /\ proc'[s].cand = proc[s].cand
    BY <1>1 DEF Keeps, Own
  <2>2. Replaces(proc'[q]) =>
            \/ proc'[q].prev = anchor
            \/ Replaces(proc[q]) /\ proc'[q].prev = proc[q].prev
    BY <1>1 DEF Keeps, Replaces
  <2> QED
    BY <1>8, <2>1, <2>2 DEF SealsInv, Apart, OwnIsNoEvidence
<1>9. Kept'
  BY <1>2 DEF SealsInv, Kept, EvidenceIsKept
<1> QED
  BY <1>4, <1>5, <1>6, <1>7, <1>8, <1>9 DEF SealsInv

LEMMA PlainMove ==
    ASSUME SealsInv, NEW p \in Processes, Moves(p), SlotPasses(p), Retain,
           UNCHANGED <<db, anchor, made, superseded>>,
           receipts' = [b \in Batches |-> receipts'[b]]
    PROVE  SealsInv'
<1>1. retained \subseteq {anchor} \cup superseded'
  BY DEF SealsInv, Kept, EvidenceIsKept
<1> QED
  BY <1>1, MoveInv

\* To a place where nothing is held or compared.
LEMMA CalmMove ==
    ASSUME SealsInv, NEW p \in Processes, NEW x \in Places \ {"swap", "verified", "undo"},
           ~At(p, "idle"), proc[p].swapped => x = "raised", Goes(p, x)
    PROVE  Moves(p)
<1> DEFINE c == [proc[p] EXCEPT !.at = x]
<1>1. proc[p] \in Command /\ proc[p].prev.id <= made
  BY DEF SealsInv, CommandsType
<1>2. c \in Command /\ c.at = x /\ c.prev = proc[p].prev /\ c.cand = proc[p].cand
      /\ c.swapped = proc[p].swapped
  BY <1>1 DEF Command
<1>3. Keeps(p, c)
  BY <1>1, <1>2 DEF Keeps, Own, Exchanged, At
<1> QED
  BY <1>3 DEF Moves, Goes

LEMMA RaisesMoves ==
    ASSUME SealsInv, NEW p \in Processes, ~At(p, "idle"), Raises(p) PROVE Moves(p)
<1>1. CASE Goes(p, "raised")
  BY <1>1, CalmMove DEF Places
<1>2. CASE Goes(p, "cleanup") /\ ~proc[p].swapped
  BY <1>2, CalmMove DEF Places
<1> QED
  BY <1>1, <1>2 DEF Raises

LEMMA ReleasePasses == ASSUME NEW p, Release(p) PROVE SlotPasses(p)
BY DEF Release, SlotPasses

LEMMA LeaveMoves ==
    ASSUME SealsInv, NEW p \in Processes, Leave(p) PROVE Moves(p) /\ SlotPasses(p)
<1>1. Keeps(p, Idle)
  BY Types DEF Keeps, Idle, NoBundle, SealsInv, CommandsType
<1> QED
  BY <1>1, ReleasePasses DEF Leave, Moves

LEMMA ReceiptsKept ==
    ASSUME SealsInv, \/ receipts' = receipts
                     \/ \E b, r : LinkReceipt(b, r)
                     \/ \E b : LinkAttempt(b)
    PROVE  receipts' = [b \in Batches |-> receipts'[b]]
BY DEF SealsInv, CommandsType, LinkReceipt, LinkAttempt

(***************************************************************************)
(* The steps of a creation and of a rotation.                              *)
(***************************************************************************)
LEMMA StartSound ==
    ASSUME SealsInv, NEW p \in Processes, Retain, UNCHANGED receipts,
           StartCreate(p) \/ StartRotate(p)
    PROVE  SealsInv'
<1>1. PICK x \in {"backup", "rotate"}, run \in {"create", "rotate"} :
         proc' = [proc EXCEPT ![p] = [Idle EXCEPT !.at = x, !.run = run]]
  BY DEF StartCreate, StartRotate
<1> DEFINE c == [Idle EXCEPT !.at = x, !.run = run]
<1> HIDE DEF c
<1>2. /\ c \in Command /\ c.at \in {"backup", "rotate"}
      /\ c.cand = NoBundle /\ c.prev = NoBundle /\ ~c.swapped
  BY Types DEF c, Idle, Command, Places
<1>3. NoBundle.id <= made
  BY DEF NoBundle, SealsInv, CommandsType
<1>4. Keeps(p, c)
  BY <1>2, <1>3 DEF Keeps, Own, Exchanged
<1>5. Moves(p)
  BY <1>1, <1>4 DEF Moves, c
<1> QED
  BY <1>5, PlainMove, ReceiptsKept DEF StartCreate, StartRotate, SlotPasses

\* The candidate's number is new: nothing that was ever made is this one.
LEMMA BackupSound ==
    ASSUME SealsInv, NEW p \in Processes, Retain, UNCHANGED receipts, Backup(p)
    PROVE  SealsInv'
<1>1. CASE Raises(p) /\ UNCHANGED made
  BY <1>1, RaisesMoves, PlainMove, ReceiptsKept DEF Backup, SlotPasses, At
<1>2. CASE /\ made' = made + 1
           /\ proc' = [proc EXCEPT ![p].at = "publish", ![p].cand = [id |-> made + 1, of |-> db]]
  <2> DEFINE new == [id |-> made + 1, of |-> db]
             c == [proc[p] EXCEPT !.at = "publish", !.cand = new]
  <2>1. /\ UNCHANGED <<db, slot, anchor, superseded>>
        /\ At(p, "backup")
    BY DEF Backup
  <2>2. /\ proc[p] \in Command /\ db \in Nat /\ made \in Nat
        /\ proc \in [Processes -> Command]
    BY DEF SealsInv, CommandsType
  <2>3. ~proc[p].swapped
    BY <2>1 DEF SealsInv, HoldsSlot, At
  <2>4. /\ c \in Command /\ c.at = "publish" /\ c.cand = new /\ c.prev = proc[p].prev
        /\ ~c.swapped
    <3>1. new \in Bundle /\ "publish" \in Places
      BY <2>2 DEF Bundle, Places
    <3> HIDE DEF new
    <3> QED
      BY <2>2, <2>3, <3>1 DEF Command
  <2>5. /\ proc' \in [Processes -> Command]
        /\ proc'[p] = c
        /\ \A q \in Processes : q # p => proc'[q] = proc[q]
    BY <1>2, <2>2, <2>4
  <2>6. retained' \subseteq retained \cup {anchor} /\ NoBundle \notin retained'
    BY <2>1 DEF Retain, SealsInv, Kept
  <2>7. /\ new # anchor /\ new \notin retained'
        /\ \A q \in Processes : new # proc[q].cand /\ new # proc[q].prev
    BY <2>2, <2>6 DEF SealsInv, CommandsType, Bundle, Command
  <2>8. CommandsType'
    <3>1. retained' \subseteq Bundle /\ \A b \in retained' : b.id <= made + 1
      BY <2>2, <2>6 DEF SealsInv, CommandsType, Bundle
    <3>2. \A q \in Processes : proc'[q].prev.id <= made + 1 /\ proc'[q].cand.id <= made + 1
      <4> SUFFICES ASSUME NEW q \in Processes
                   PROVE  proc'[q].prev.id <= made + 1 /\ proc'[q].cand.id <= made + 1
        OBVIOUS
      <4>1. /\ proc[q].prev.id \in Nat /\ proc[q].prev.id <= made
            /\ proc[q].cand.id \in Nat /\ proc[q].cand.id <= made
        BY DEF SealsInv, CommandsType, Command, Bundle
      <4>2. CASE q = p
        <5>1. new.id = made + 1
          OBVIOUS
        <5> HIDE DEF c, new
        <5> QED
          BY <2>2, <2>4, <2>5, <4>1, <4>2, <5>1
      <4>3. CASE q # p
        BY <2>2, <2>5, <4>1, <4>3
      <4> QED
        BY <4>2, <4>3
    <3>3. anchor.id \in Nat /\ anchor.id <= made
      BY DEF SealsInv, CommandsType, Bundle
    <3> QED
      BY <1>2, <2>1, <2>2, <2>5, <3>1, <3>2, <3>3 DEF SealsInv, CommandsType
  <2>9. ASSUME NEW q \in Processes
        PROVE  HoldsSlot(q)' /\ OwnIsNoEvidence(q)' /\ Comparison(q)'
    <3>1. CASE q = p
      BY <2>1, <2>4, <2>5, <2>7, <3>1
      DEF HoldsSlot, OwnIsNoEvidence, Comparison, Replaces, Exchanged
    <3>2. CASE q # p
      <4>1. proc'[q] = proc[q]
        BY <2>5, <3>2
      <4>2. Exchanged(proc[q]) => retained' = retained
        BY <2>1, AnchorsAssumption DEF SealsInv, HoldsSlot, Exchanged, Retain
      <4> QED
        BY <2>1, <2>6, <4>1, <4>2 DEF SealsInv, HoldsSlot, OwnIsNoEvidence, Comparison
    <3> QED
      BY <3>1, <3>2
  <2>10. ASSUME NEW q \in Processes, NEW r \in Processes, q # r PROVE Apart(q, r)'
    <3>1. ~Replaces(c)
      BY <2>4 DEF Replaces, Exchanged
    <3>2. CASE q = p
      BY <2>4, <2>5, <2>7, <2>10, <3>1, <3>2 DEF Apart
    <3>3. CASE r = p
      BY <2>4, <2>5, <2>7, <2>10, <3>3 DEF Apart
    <3>4. CASE q # p /\ r # p
      BY <2>5, <2>10, <3>4 DEF SealsInv, Apart
    <3> QED
      BY <3>2, <3>3, <3>4
  <2> QED
    BY <2>1, <2>6, <2>8, <2>9, <2>10 DEF SealsInv, Kept, EvidenceIsKept, Retain
<1> QED
  BY <1>1, <1>2 DEF Backup

\* A creation takes the stable path when nobody has it.
LEMMA CreateSound ==
    ASSUME SealsInv, NEW p \in Processes, Retain, UNCHANGED <<receipts, db, made, slot, superseded>>,
           At(p, "publish"), slot = None, anchor = NoBundle,
           anchor' = proc[p].cand, Goes(p, "idle")
    PROVE  SealsInv'
<1> DEFINE c == [proc[p] EXCEPT !.at = "idle"]
<1>1. /\ proc[p] \in Command /\ proc \in [Processes -> Command]
      /\ ~proc[p].swapped
  BY DEF SealsInv, CommandsType, HoldsSlot, At
<1>2. /\ c \in Command /\ c.at = "idle" /\ c.prev = proc[p].prev /\ c.cand = proc[p].cand
      /\ ~c.swapped
  BY <1>1 DEF Command, Places
<1>3. /\ proc' \in [Processes -> Command]
      /\ proc'[p] = c
      /\ \A q \in Processes : q # p => proc'[q] = proc[q]
  BY <1>1, <1>2 DEF Goes
<1>4. /\ retained' = retained \cup ({proc[p].cand} \ {NoBundle})
      /\ slot' = None
  BY DEF Retain
<1>5. CommandsType'
  BY <1>1, <1>2, <1>3, <1>4 DEF SealsInv, CommandsType, Command
<1>6. \A q \in Processes : ~Replaces(proc[q]) /\ proc[q].at # "verified"
  BY AnchorsAssumption DEF SealsInv, HoldsSlot, Replaces, Exchanged
<1>7. ~Own(c) /\ ~Replaces(c)
  BY <1>2 DEF Own, Replaces, Exchanged
<1>8. Own(proc[p]) \/ proc[p].cand = NoBundle
  BY <1>1 DEF Own, At
<1>9. ASSUME NEW q \in Processes PROVE HoldsSlot(q)' /\ OwnIsNoEvidence(q)' /\ Comparison(q)'
  <2>1. CASE q = p
    BY <1>2, <1>3, <1>7, <2>1 DEF HoldsSlot, OwnIsNoEvidence, Comparison, Replaces
  <2>2. CASE q # p
    <3>1. Own(proc[q]) => proc[q].cand # proc[p].cand
      BY <1>8, <2>2 DEF SealsInv, Apart, Own
    <3> QED
      BY <1>3, <1>4, <1>6, <2>2, <3>1
      DEF SealsInv, HoldsSlot, OwnIsNoEvidence, Comparison, Replaces
  <2> QED
    BY <2>1, <2>2
<1>10. ASSUME NEW q \in Processes, NEW r \in Processes, q # r PROVE Apart(q, r)'
  BY <1>3, <1>7, <1>10 DEF SealsInv, Apart
<1>11. Kept'
  BY <1>4 DEF SealsInv, Kept, EvidenceIsKept
<1> QED
  BY <1>5, <1>9, <1>10, <1>11 DEF SealsInv

LEMMA PublishSound ==
    ASSUME SealsInv, NEW p \in Processes, Retain, UNCHANGED receipts, Publish(p)
    PROVE  SealsInv'
<1>1. /\ At(p, "publish") /\ ~At(p, "idle") /\ slot = None
      /\ UNCHANGED <<db, slot, made>>
      /\ ~proc[p].swapped
  BY DEF Publish, At, SealsInv, HoldsSlot
<1>2. \/ anchor = NoBundle /\ anchor' = proc[p].cand /\ Goes(p, "idle") /\ UNCHANGED superseded
      \/ Goes(p, "recheck") /\ UNCHANGED anchor /\ superseded \subseteq superseded'
      \/ Raises(p) /\ UNCHANGED <<anchor, superseded>>
  BY DEF Publish
<1>3. CASE anchor = NoBundle /\ anchor' = proc[p].cand /\ Goes(p, "idle") /\ UNCHANGED superseded
  BY <1>1, <1>3, CreateSound
<1>4. CASE Goes(p, "recheck") /\ UNCHANGED anchor /\ superseded \subseteq superseded'
  <2>1. Moves(p)
    BY <1>1, <1>4, CalmMove DEF Places
  <2>2. retained \subseteq {anchor} \cup superseded'
    BY <1>4 DEF SealsInv, Kept, EvidenceIsKept
  <2> QED
    BY <1>1, <1>4, <2>1, <2>2, MoveInv, ReceiptsKept DEF SlotPasses
<1>5. CASE Raises(p) /\ UNCHANGED <<anchor, superseded>>
  BY <1>1, <1>5, RaisesMoves, PlainMove, ReceiptsKept DEF SlotPasses
<1> QED
  BY <1>2, <1>3, <1>4, <1>5

LEMMA TakeEvidenceMoves ==
    ASSUME SealsInv, NEW p \in Processes, ~At(p, "idle"), ~proc[p].swapped, TakeEvidence(p)
    PROVE  Moves(p)
<1>1. CASE Raises(p)
  BY <1>1, RaisesMoves
<1>2. CASE proc' = [proc EXCEPT ![p].at = "backup", ![p].prev = anchor]
  <2> DEFINE c == [proc[p] EXCEPT !.at = "backup", !.prev = anchor]
  <2>1. proc[p] \in Command /\ anchor \in Bundle /\ anchor.id <= made
    BY DEF SealsInv, CommandsType
  <2>2. /\ c \in Command /\ c.at = "backup" /\ c.prev = anchor /\ c.cand = proc[p].cand
        /\ ~c.swapped
    BY <2>1 DEF Command, Places
  <2>3. Keeps(p, c)
    BY <2>1, <2>2 DEF Keeps, Own, Exchanged, At
  <2> QED
    BY <1>2, <2>3 DEF Moves
<1> QED
  BY <1>1, <1>2 DEF TakeEvidence

LEMMA LookSound ==
    ASSUME SealsInv, NEW p \in Processes, Retain, UNCHANGED receipts, LookAtAnchor(p)
    PROVE  SealsInv'
<1>1. ~At(p, "idle") /\ ~proc[p].swapped
  BY DEF LookAtAnchor, At, SealsInv, HoldsSlot
<1>2. Moves(p)
  BY <1>1, CalmMove, TakeEvidenceMoves DEF LookAtAnchor, Places
<1> QED
  BY <1>2, PlainMove, ReceiptsKept DEF LookAtAnchor, SlotPasses

LEMMA PreserveSound ==
    ASSUME SealsInv, NEW p \in Processes, Retain, UNCHANGED receipts, Preserve(p)
    PROVE  SealsInv'
<1>1. ~At(p, "idle") /\ ~proc[p].swapped /\ slot = None
  BY DEF Preserve, At, SealsInv, HoldsSlot
<1>2. CASE TakeEvidence(p) /\ UNCHANGED slot
  BY <1>1, <1>2, TakeEvidenceMoves, PlainMove, ReceiptsKept DEF Preserve, SlotPasses
<1>3. CASE Ready(anchor) /\ slot' = p /\ Goes(p, "verified")
  <2> DEFINE c == [proc[p] EXCEPT !.at = "verified"]
  <2>1. proc[p] \in Command /\ proc[p].prev.id <= made
    BY DEF SealsInv, CommandsType
  <2>2. /\ c \in Command /\ c.at = "verified" /\ c.prev = proc[p].prev
        /\ c.cand = proc[p].cand /\ ~c.swapped
    BY <1>1, <2>1 DEF Command, Places
  <2>3. Keeps(p, c)
    BY <1>1, <1>3, <2>1, <2>2 DEF Keeps, Own, Exchanged, At, Ready
  <2>4. Moves(p)
    BY <1>3, <2>3 DEF Moves, Goes
  <2> QED
    BY <1>1, <1>3, <2>4, PlainMove, ReceiptsKept DEF Preserve, SlotPasses
<1> QED
  BY <1>2, <1>3 DEF Preserve

LEMMA RecheckSound ==
    ASSUME SealsInv, NEW p \in Processes, Retain, UNCHANGED receipts, Recheck(p)
    PROVE  SealsInv'
<1>1. ~At(p, "idle") /\ ~proc[p].swapped /\ slot = None
  BY DEF Recheck, At, SealsInv, HoldsSlot
<1>2. CASE Raises(p) /\ UNCHANGED slot
  BY <1>1, <1>2, RaisesMoves, PlainMove, ReceiptsKept DEF Recheck, SlotPasses
<1>3. CASE Ready(proc[p].cand) /\ anchor = proc[p].prev /\ slot' = p /\ Goes(p, "swap")
  <2> DEFINE c == [proc[p] EXCEPT !.at = "swap"]
  <2>1. /\ proc[p] \in Command /\ proc[p].prev.id <= made
        /\ proc[p].cand # NoBundle
    BY <1>3 DEF SealsInv, CommandsType, Ready, Verified, Sound
  <2>2. /\ c \in Command /\ c.at = "swap" /\ c.prev = proc[p].prev
        /\ c.cand = proc[p].cand /\ ~c.swapped
    BY <1>1, <2>1 DEF Command, Places
  <2>3. Keeps(p, c)
    BY <1>1, <1>3, <2>1, <2>2 DEF Keeps, Own, Exchanged, At
  <2>4. Moves(p)
    BY <1>3, <2>3 DEF Moves, Goes
  <2> QED
    BY <1>1, <1>3, <2>4, PlainMove, ReceiptsKept DEF Recheck, SlotPasses
<1> QED
  BY <1>2, <1>3 DEF Recheck

\* The exchange: whoever holds the slot is alone, and its candidate is the
\* anchor from here on.
LEMMA SwapSound ==
    ASSUME SealsInv, NEW p \in Processes, Retain, UNCHANGED receipts, Swap(p)
    PROVE  SealsInv'
<1>1. /\ slot = p /\ p # None /\ slot' = p /\ retained' = retained
      /\ UNCHANGED <<db, made>>
  BY AnchorsAssumption DEF Swap, At, SealsInv, HoldsSlot, Retain
<1>2. /\ Own(proc[p]) /\ Replaces(proc[p])
      /\ proc[p] \in Command /\ proc \in [Processes -> Command]
  BY DEF Swap, At, SealsInv, Comparison, CommandsType, Replaces
<1> DEFINE x == IF Ready(proc[p].cand) /\ Evidence(proc[p].prev) THEN "verified" ELSE "undo"
           c == [proc[p] EXCEPT !.swapped = TRUE, !.at = x]
<1>3. x \in {"verified", "undo"} /\ (x = "verified" => proc[p].cand.of = db)
  BY DEF Ready
<1>4. anchor' = proc[p].cand /\ superseded' = (superseded \ {anchor'}) \cup {anchor}
  BY DEF Swap, Exchange
<1>5. proc' = [proc EXCEPT ![p] = c]
  BY DEF Swap
<1> HIDE DEF x
<1>6. /\ c \in Command /\ c.at = x /\ c.prev = proc[p].prev /\ c.cand = proc[p].cand
      /\ c.swapped
  BY <1>2, <1>3 DEF Command, Places
<1> HIDE DEF c
<1>7. /\ proc' \in [Processes -> Command]
      /\ proc'[p] = c
      /\ \A q \in Processes : q # p => proc'[q] = proc[q]
  BY <1>2, <1>5, <1>6
<1>8. CommandsType'
  BY <1>1, <1>2, <1>4, <1>6, <1>7 DEF SealsInv, CommandsType, Command
<1>9. ~Own(c) /\ Exchanged(c) /\ Replaces(c)
  BY <1>3, <1>6 DEF Own, Exchanged, Replaces
<1>10. \A q \in Processes : q # p => ~Replaces(proc[q]) /\ proc[q].at # "verified"
  BY <1>1 DEF SealsInv, HoldsSlot, Replaces, Exchanged
<1>11. ASSUME NEW q \in Processes PROVE HoldsSlot(q)' /\ OwnIsNoEvidence(q)' /\ Comparison(q)'
  <2>1. CASE q = p
    BY <1>1, <1>2, <1>3, <1>4, <1>6, <1>7, <1>9, <2>1
    DEF SealsInv, HoldsSlot, OwnIsNoEvidence, Comparison, Own
  <2>2. CASE q # p
    BY <1>1, <1>2, <1>4, <1>7, <1>10, <2>2
    DEF SealsInv, HoldsSlot, OwnIsNoEvidence, Comparison, Apart, Replaces
  <2> QED
    BY <2>1, <2>2
<1>12. ASSUME NEW q \in Processes, NEW r \in Processes, q # r PROVE Apart(q, r)'
  BY <1>2, <1>6, <1>7, <1>9, <1>10, <1>12 DEF SealsInv, Apart
<1>13. Kept'
  BY <1>1, <1>4 DEF SealsInv, Kept, EvidenceIsKept
<1> QED
  BY <1>8, <1>11, <1>12, <1>13 DEF SealsInv

\* Exchanged back under the same slot, the candidate never was evidence.
LEMMA ExchangedBackSound ==
    ASSUME SealsInv, NEW p \in Processes, Retain, UNCHANGED <<receipts, db, made>>,
           At(p, "undo"), proc[p].swapped, Exchange(proc[p].prev), slot' = None,
           proc' = [proc EXCEPT ![p].swapped = FALSE, ![p].at = "cleanup"]
    PROVE  SealsInv'
<1>1. slot = p /\ p # None
  BY AnchorsAssumption DEF At, SealsInv, HoldsSlot
<1>2. /\ Exchanged(proc[p]) /\ Replaces(proc[p])
      /\ proc[p] \in Command /\ proc \in [Processes -> Command]
  BY DEF At, SealsInv, CommandsType, Replaces, Exchanged
<1>3. /\ anchor = proc[p].cand /\ proc[p].cand \notin retained
      /\ proc[p].cand # NoBundle /\ proc[p].prev # proc[p].cand
  BY <1>2 DEF SealsInv, Comparison
<1> DEFINE c == [proc[p] EXCEPT !.swapped = FALSE, !.at = "cleanup"]
<1>4. anchor' = proc[p].prev /\ superseded' = (superseded \ {anchor'}) \cup {anchor}
  BY DEF Exchange
<1>5. retained' = retained \cup ({proc[p].prev} \ {NoBundle})
  BY <1>4 DEF Retain
<1>6. /\ c \in Command /\ c.at = "cleanup" /\ c.prev = proc[p].prev /\ c.cand = proc[p].cand
      /\ ~c.swapped
  BY <1>2 DEF Command, Places
<1> HIDE DEF c
<1>7. /\ proc' \in [Processes -> Command]
      /\ proc'[p] = c
      /\ \A q \in Processes : q # p => proc'[q] = proc[q]
  BY <1>2, <1>6 DEF c
<1>8. CommandsType'
  BY <1>2, <1>4, <1>5, <1>6, <1>7 DEF SealsInv, CommandsType, Command
<1>9. Own(c) /\ ~Exchanged(c) /\ ~Replaces(c)
  BY <1>3, <1>6 DEF Own, Exchanged, Replaces
<1>10. \A q \in Processes : q # p => ~Replaces(proc[q]) /\ proc[q].at # "verified"
  BY <1>1 DEF SealsInv, HoldsSlot, Replaces, Exchanged
<1>11. \A q \in Processes : q # p /\ Own(proc[q]) => proc[q].cand \notin {proc[p].cand, proc[p].prev}
  BY <1>2, <1>3 DEF SealsInv, Apart, OwnIsNoEvidence
<1>12. ASSUME NEW q \in Processes PROVE HoldsSlot(q)' /\ OwnIsNoEvidence(q)' /\ Comparison(q)'
  <2>1. CASE q = p
    BY <1>3, <1>4, <1>5, <1>6, <1>7, <1>9, <2>1
    DEF HoldsSlot, OwnIsNoEvidence, Comparison
  <2>2. CASE q # p
    BY <1>1, <1>4, <1>5, <1>7, <1>10, <1>11, <2>2
    DEF SealsInv, HoldsSlot, OwnIsNoEvidence, Comparison, Replaces
  <2> QED
    BY <2>1, <2>2
<1>13. ASSUME NEW q \in Processes, NEW r \in Processes, q # r PROVE Apart(q, r)'
  BY <1>6, <1>7, <1>9, <1>10, <1>11, <1>13 DEF SealsInv, Apart
<1>14. Kept'
  BY <1>4, <1>5 DEF SealsInv, Kept, EvidenceIsKept
<1> QED
  BY <1>8, <1>12, <1>13, <1>14 DEF SealsInv

LEMMA UndoSound ==
    ASSUME SealsInv, NEW p \in Processes, Retain, UNCHANGED receipts, Undo(p)
    PROVE  SealsInv'
<1>1. CASE proc[p].swapped
  <2>1. slot' = None
    BY DEF Undo, At, Release, SealsInv, HoldsSlot
  <2> QED
    BY <1>1, <2>1, ExchangedBackSound DEF Undo
<1>2. CASE ~proc[p].swapped
  BY <1>2, RaisesMoves, ReleasePasses, PlainMove, ReceiptsKept DEF Undo, At
<1> QED
  BY <1>1, <1>2

LEMMA CleanupSound ==
    ASSUME SealsInv, NEW p \in Processes, Retain, UNCHANGED receipts, Cleanup(p)
    PROVE  SealsInv'
<1>1. ~At(p, "idle") /\ ~proc[p].swapped
  BY DEF Cleanup, At, SealsInv, HoldsSlot
<1>2. proc[p].cand \notin retained
  BY <1>1 DEF SealsInv, Kept, OwnIsNoEvidence, Own, At
<1>3. retained \subseteq {anchor} \cup superseded'
  BY <1>1, <1>2 DEF Cleanup, Sibling, SealsInv, Kept, EvidenceIsKept
<1>4. Moves(p)
  BY <1>1, CalmMove DEF Cleanup, Places
<1> QED
  BY <1>3, <1>4, MoveInv, ReceiptsKept DEF Cleanup, SlotPasses

LEMMA FailsSound ==
    ASSUME SealsInv, NEW p \in Processes, Retain, UNCHANGED receipts, Fails(p) \/ BusyTimeout(p)
    PROVE  SealsInv'
<1>1. ~At(p, "idle") /\ Raises(p) /\ SlotPasses(p)
  BY ReleasePasses DEF Fails, BusyTimeout, At, SlotPasses
<1> QED
  BY <1>1, RaisesMoves, PlainMove, ReceiptsKept DEF Fails, BusyTimeout

(***************************************************************************)
(* A commit of another program and damage: nobody holds the slot when the  *)
(* database moves, so no comparison is outdated.                           *)
(***************************************************************************)
LEMMA EnvironmentSound ==
    ASSUME SealsInv, Retain, UNCHANGED receipts, Write \/ Damage PROVE SealsInv'
<1>1. /\ UNCHANGED <<proc, slot, anchor, made, superseded>>
      /\ db' \in Nat
      /\ db' # db => slot = None
  BY DEF Write, Damage, SealsInv, CommandsType
<1>2. /\ retained' \subseteq retained \cup ({anchor} \ {NoBundle})
      /\ slot # None => retained' = retained
  BY <1>1 DEF Retain
<1>3. CommandsType'
  BY <1>1, <1>2 DEF SealsInv, CommandsType
<1>4. ASSUME NEW q \in Processes PROVE HoldsSlot(q)' /\ OwnIsNoEvidence(q)' /\ Comparison(q)'
  <2>1. proc[q].at \in {"swap", "verified", "undo"} => slot # None
    BY AnchorsAssumption DEF SealsInv, HoldsSlot
  <2> QED
    BY <1>1, <1>2, <2>1
    DEF SealsInv, HoldsSlot, OwnIsNoEvidence, Comparison, Exchanged
<1>5. \A q, r \in Processes : q # r => Apart(q, r)'
  BY <1>1 DEF SealsInv, Apart
<1>6. Kept'
  BY <1>1, <1>2 DEF SealsInv, Kept, EvidenceIsKept
<1> QED
  BY <1>3, <1>4, <1>5, <1>6 DEF SealsInv

\* The gate only reads.
LEMMA QuietSound ==
    ASSUME SealsInv, UNCHANGED <<db, slot, anchor, superseded, made, proc, receipts>>,
           Retain \/ UNCHANGED retained
    PROVE  SealsInv'
<1>1. /\ retained' \subseteq retained \cup ({anchor} \ {NoBundle})
      /\ slot # None => retained' = retained
  BY DEF Retain
<1>2. CommandsType'
  BY <1>1 DEF SealsInv, CommandsType
<1>3. ASSUME NEW q \in Processes PROVE HoldsSlot(q)' /\ OwnIsNoEvidence(q)' /\ Comparison(q)'
  <2>1. proc[q].at \in {"swap", "verified", "undo"} => slot # None
    BY AnchorsAssumption DEF SealsInv, HoldsSlot
  <2> QED
    BY <1>1, <2>1 DEF SealsInv, HoldsSlot, OwnIsNoEvidence, Comparison, Exchanged
<1>4. \A q, r \in Processes : q # r => Apart(q, r)'
  BY DEF SealsInv, Apart
<1>5. Kept'
  BY <1>1 DEF SealsInv, Kept, EvidenceIsKept
<1> QED
  BY <1>2, <1>3, <1>4, <1>5 DEF SealsInv

(***************************************************************************)
(* The steps of a seal.                                                    *)
(***************************************************************************)
LEMMA StartSealSound ==
    ASSUME SealsInv, NEW p \in Processes, NEW b \in Batches, Retain, StartSeal(p, b)
    PROVE  SealsInv'
<1> DEFINE c == [Idle EXCEPT !.at = "attempt", !.run = "seal", !.batch = b]
<1>1. proc' = [proc EXCEPT ![p] = c]
  BY DEF StartSeal
<1>2. /\ c \in Command /\ c.at = "attempt"
      /\ c.cand = NoBundle /\ c.prev = NoBundle /\ ~c.swapped
  BY Types DEF Idle, Command, Places
<1> HIDE DEF c
<1>3. NoBundle.id <= made
  BY DEF NoBundle, SealsInv, CommandsType
<1>4. Keeps(p, c)
  BY <1>2, <1>3 DEF Keeps, Own, Exchanged
<1>5. Moves(p)
  BY <1>1, <1>4 DEF Moves
<1> QED
  BY <1>5, PlainMove, ReceiptsKept DEF StartSeal, SlotPasses

\* The callback that raises keeps the slot until the exchange is undone.
LEMMA UndoMoves ==
    ASSUME SealsInv, NEW p \in Processes, At(p, "verified"), Goes(p, "undo"), UNCHANGED slot
    PROVE  Moves(p)
<1> DEFINE c == [proc[p] EXCEPT !.at = "undo"]
<1>1. proc[p] \in Command /\ proc[p].prev.id <= made /\ slot = p
  BY DEF SealsInv, CommandsType, HoldsSlot, At
<1>2. /\ c \in Command /\ c.at = "undo" /\ c.prev = proc[p].prev
      /\ c.cand = proc[p].cand /\ c.swapped = proc[p].swapped
  BY <1>1 DEF Command, Places
<1>3. Keeps(p, c)
  BY <1>1, <1>2 DEF Keeps, Own, Exchanged, At
<1> QED
  BY <1>3 DEF Moves, Goes

LEMMA AttemptSound ==
    ASSUME SealsInv, NEW p \in Processes, Retain, Attempt(p) PROVE SealsInv'
<1>1. ~At(p, "idle") /\ ~proc[p].swapped
  BY DEF Attempt, At, SealsInv, HoldsSlot
<1>2. Moves(p)
  BY <1>1, CalmMove DEF Attempt, Places
<1> QED
  BY <1>2, PlainMove, ReceiptsKept DEF Attempt, SlotPasses

LEMMA CheckSound ==
    ASSUME SealsInv, NEW p \in Processes, Retain, Check(p) PROVE SealsInv'
<1>1. ~At(p, "idle") /\ ~proc[p].swapped
  BY DEF Check, At, SealsInv, HoldsSlot
<1>2. CASE LinkReceipt(proc[p].batch, Unsealed(proc[p].batch)) /\ Leave(p)
  BY <1>2, LeaveMoves, PlainMove, ReceiptsKept DEF Check
<1>3. CASE Goes(p, "rotate") /\ UNCHANGED <<slot, lock, attempts, source, receipts>>
  BY <1>1, <1>3, CalmMove, PlainMove, ReceiptsKept DEF Check, SlotPasses, Places
<1> QED
  BY <1>2, <1>3 DEF Check

LEMMA SealSound ==
    ASSUME SealsInv, NEW p \in Processes, Retain, Seal(p) PROVE SealsInv'
<1>1. CASE LinkReceipt(proc[p].batch, Sealed(proc[p].batch)) /\ Leave(p)
  BY <1>1, LeaveMoves, PlainMove, ReceiptsKept DEF Seal
<1>2. CASE Goes(p, "undo") /\ UNCHANGED <<slot, lock, attempts, source, receipts>>
  BY <1>2, UndoMoves, PlainMove, ReceiptsKept DEF Seal, SlotPasses
<1> QED
  BY <1>1, <1>2 DEF Seal

LEMMA EndSound ==
    ASSUME SealsInv, NEW p \in Processes, Retain,
           Unseal(p) \/ EndByHand(p) \/ CannotCheck(p) \/ Crash(p) \/ CrashInPublication(p)
    PROVE  SealsInv'
<1>1. /\ Leave(p)
      /\ \/ receipts' = receipts
         \/ \E b, r : LinkReceipt(b, r)
         \/ \E b : LinkAttempt(b)
      /\ UNCHANGED <<db, anchor, made, superseded>>
  BY DEF Unseal, EndByHand, CannotCheck, Crash, CrashInPublication
<1> QED
  BY <1>1, LeaveMoves, PlainMove, ReceiptsKept

LEMMA PublicationFailsSound ==
    ASSUME SealsInv, NEW p \in Processes, Retain, PublicationFails(p) PROVE SealsInv'
<1>1. CASE At(p, "verified") /\ Goes(p, "undo") /\ UNCHANGED <<slot, lock>>
  BY <1>1, UndoMoves, PlainMove, ReceiptsKept DEF PublicationFails, SlotPasses
<1>2. CASE Leave(p)
  BY <1>2, LeaveMoves, PlainMove, ReceiptsKept DEF PublicationFails
<1> QED
  BY <1>1, <1>2 DEF PublicationFails

LEMMA StepSealsInv ==
    ASSUME SealsInv, [Next]_vars PROVE SealsInv'
<1>1. ASSUME NEW p \in Processes, Begin(p), Retain PROVE SealsInv'
  BY <1>1, StartSound DEF Begin, sealVars
<1>2. ASSUME NEW p \in Processes, RotationOfAnchors(p), Retain PROVE SealsInv'
  BY <1>2, BackupSound, PublishSound, FailsSound, LookSound, PreserveSound, RecheckSound,
     SwapSound, UndoSound, CleanupSound
  DEF RotationOfAnchors, RotationStep, sealVars
<1>3. ASSUME NEW p \in Processes, Proceed(p), Retain PROVE SealsInv'
  BY <1>2, <1>3, AttemptSound, CheckSound, SealSound, EndSound DEF Proceed
<1>4. ASSUME Environment, Retain PROVE SealsInv'
  BY <1>4, EnvironmentSound, FailsSound DEF Environment, sealVars
<1>5. ASSUME Gate, Retain PROVE SealsInv'
  BY <1>5, QuietSound
  DEF Gate, GateVerifies, GateReadsAnchor, GateReadsSource, GateListsBatches, GateReadsBatch,
      GateReadsSeals, GateReadsSourceAgain, GateCloses, GateStep, anchorVars, sealVars
<1>6. CASE UNCHANGED vars
  BY <1>6, QuietSound DEF vars, anchorVars, sealVars
<1> QED
  BY <1>1, <1>3, <1>4, <1>5, <1>6, StartSealSound, EndSound, PublicationFailsSound
  DEF Next, Step

\* The invariant of creation, rotation and sealing (recovery.py:796-1107,
\* recovery_seal.py:547-755) among failures, kills and other programs.
THEOREM SealsInvariant == Spec => []SealsInv
<1>1. Init => SealsInv
  BY InitSealsInv
<1>2. SealsInv /\ [Next]_vars => SealsInv'
  BY StepSealsInv
<1> QED
  BY <1>1, <1>2, PTL DEF Spec

\* A bundle that was the anchor with the writer slot free is at the stable
\* path or at a sibling for ever (recovery.py:1000-1107).
THEOREM AnchorsAreKept == Spec => []EvidenceIsKept
<1>1. SealsInv => EvidenceIsKept
  BY DEF SealsInv, Kept
<1> QED
  BY <1>1, SealsInvariant, PTL

\* Only two steps write a receipt that says sealed, and both do with the slot
\* held since the anchor was compared with the database.
LEMMA SealedIsTrue ==
    ASSUME SealsInv, NEW p \in Processes, Seal(p) \/ CrashInPublication(p),
           NEW b \in Batches, receipts'[b].outcome = "recovery_sealed", receipts[b] = NoReceipt
    PROVE  receipts'[b].of = db' /\ anchor'.of = db' /\ receipts'[b].bundle = anchor'.id
<1>1. receipts[b].outcome # "recovery_sealed"
  BY DEF NoReceipt
<1>2. /\ At(p, "verified") /\ ~SourceMoved(p)
      /\ LinkReceipt(proc[p].batch, Sealed(proc[p].batch))
      /\ UNCHANGED <<db, anchor>>
  BY <1>1 DEF Seal, CrashInPublication, LinkReceipt, LinkAttempt, Unsealed, SealsInv,
              CommandsType
<1>3. anchor.of = db
  BY <1>2 DEF At, SealsInv, Comparison
<1>4. b = proc[p].batch /\ receipts'[b] = Sealed(b)
  BY <1>1, <1>2 DEF LinkReceipt, SealsInv, CommandsType
<1> QED
  BY <1>2, <1>3, <1>4 DEF Sealed, SourceMoved

\* A sealed receipt is true of the database and of the anchor at the moment
\* it is published (recovery_seal.py:660-681).
THEOREM SealsTellTheTruth == Spec => SealedReceiptsTellTheTruth
<1> DEFINE Truth ==
        \A b \in Batches :
          receipts'[b].outcome = "recovery_sealed" /\ receipts[b] = NoReceipt =>
              /\ receipts'[b].of = db'
              /\ anchor'.of = db'
              /\ receipts'[b].bundle = anchor'.id
<1>1. ASSUME SealsInv, [Next]_vars PROVE Truth
  <2> SUFFICES ASSUME NEW b \in Batches,
                      receipts'[b].outcome = "recovery_sealed", receipts[b] = NoReceipt
               PROVE  /\ receipts'[b].of = db'
                      /\ anchor'.of = db'
                      /\ receipts'[b].bundle = anchor'.id
    OBVIOUS
  <2>1. receipts'[b].outcome # receipts[b].outcome
    BY DEF NoReceipt
  <2>2. ASSUME NEW p \in Processes, Check(p) \/ Unseal(p) \/ CannotCheck(p) PROVE FALSE
    BY <1>1, <2>1, <2>2 DEF Check, Unseal, CannotCheck, LinkReceipt, Unsealed, SealsInv, CommandsType
  <2>3. ASSUME NEW p \in Processes, Attempt(p) PROVE FALSE
    BY <2>1, <2>3 DEF Attempt, LinkAttempt
  <2>4. CASE UNCHANGED receipts
    BY <2>1, <2>4
  <2>5. CASE \E p \in Processes : Seal(p) \/ CrashInPublication(p)
    BY <1>1, <2>5, SealedIsTrue
  <2>6. CASE ~ \E p \in Processes : Seal(p) \/ CrashInPublication(p)
    <3>1. ASSUME NEW p \in Processes, Proceed(p) PROVE UNCHANGED receipts
      BY <2>2, <2>3, <2>6, <3>1 DEF Proceed, RotationOfAnchors, EndByHand, sealVars
    <3>2. Gate => UNCHANGED receipts
      BY DEF Gate, GateVerifies, GateReadsAnchor, GateReadsSource, GateListsBatches,
             GateReadsBatch, GateReadsSeals, GateReadsSourceAgain, GateCloses, GateStep, sealVars
    <3> QED
      BY <1>1, <2>2, <2>4, <2>6, <3>1, <3>2
      DEF Next, Step, Begin, StartSeal, PublicationFails, Crash, Environment, vars, sealVars
  <2> QED
    BY <2>5, <2>6
<1>2. SealsInv /\ [Next]_vars => [Truth]_vars
  BY <1>1
<1> QED
  BY <1>2, SealsInvariant, PTL DEF Spec, SealedReceiptsTellTheTruth

(***************************************************************************)
(* The gate.  A sealed receipt whose content the database still has names  *)
(* the bundle at the stable path: nobody replaces an anchor that is        *)
(* current, since a rotation takes for evidence only what is not, and no   *)
(* content ever comes back.  So readings without a lock are enough.        *)
(***************************************************************************)
\* Nothing for a rotation to preserve, now or later.
Outdated(b) == b = NoBundle \/ b.of < db \/ b.of \in OldContents

Remembers(p) ==
    /\ proc[p].prev.of <= db /\ Outdated(proc[p].prev)
    /\ proc[p].cand.of <= db
    /\ proc[p].cand = NoBundle \/ proc[p].cand.of \notin OldContents
    /\ At(p, "swap") => anchor = proc[p].prev
    /\ At(p, "verified") => ~Outdated(anchor)

\* A batch is sealed once, and by one command at a time.
Sealing(p) ==
    /\ proc[p].at \in {"attempt", "check"} => proc[p].run = "seal"
    /\ proc[p].run = "seal" =>
          lock = p /\ proc[p].batch \in Batches /\ ~Terminated(proc[p].batch)

SealedBundle(b) == [id |-> receipts[b].bundle, of |-> receipts[b].of]

SealHolds(b) ==
    receipts[b].outcome = "recovery_sealed" =>
        /\ SealedBundle(b) \in retained
        /\ receipts[b].of = source[b] /\ receipts[b].of <= db
        /\ receipts[b].of = db => anchor = SealedBundle(b) /\ db \notin OldContents

GateHasRead ==
    /\ gate = [at |-> gate.at, sha |-> gate.sha, of |-> gate.of, scan |-> gate.scan]
    /\ gate.at = "reading" /\ gate.scan.seal.outcome = "recovery_sealed" =>
        \E b \in Batches : receipts[b] = gate.scan.seal
    /\ gate.at = "sealed" =>
        \E b \in Batches : /\ receipts[b].outcome = "recovery_sealed"
                           /\ receipts[b].bundle = gate.sha /\ receipts[b].of = gate.of

GateInv ==
    /\ anchor.of <= db
    /\ attempts \in Seq(Batches)
    /\ \A p \in Processes : Remembers(p) /\ Sealing(p)
    /\ \A b \in Batches : SealHolds(b)
    /\ GateHasRead

(***************************************************************************)
(* One step of a command; c is the command after it.                       *)
(***************************************************************************)
Learns(c) ==
    /\ c.prev.of <= db /\ Outdated(c.prev)
    /\ c.cand.of <= db /\ (c.cand = NoBundle \/ c.cand.of \notin OldContents)
    /\ c.at = "swap" => anchor = c.prev
    /\ c.at = "verified" => ~Outdated(anchor)

\* It touches the records of its own batch, and says sealed only of a current anchor.
Records(p, c) ==
    /\ attempts' \in Seq(Batches)
    /\ \A q \in Processes \ {p} : lock = q => lock' = q
    /\ c.at \in {"attempt", "check"} => c.run = "seal"
    /\ c.run = "seal" => lock' = p /\ c.batch \in Batches /\ receipts'[c.batch] = NoReceipt
    /\ \A b \in Batches :
          receipts'[b] # receipts[b] \/ source'[b] # source[b] =>
              proc[p].run = "seal" /\ proc[p].batch = b
    /\ \A b \in Batches :
          receipts'[b] # receipts[b] /\ receipts'[b].outcome = "recovery_sealed" =>
              /\ receipts'[b] = Sealed(b) /\ source'[b] = source[b] /\ source[b] = db
              /\ ~Outdated(anchor) /\ slot' = None

Becomes(p, c) == proc' = [proc EXCEPT ![p] = c] /\ UNCHANGED <<db, gate>>

LEMMA SealedStays ==
    ASSUME SealsInv, GateInv, NEW p \in Processes, NEW c, Records(p, c),
           NEW b \in Batches, receipts[b].outcome = "recovery_sealed"
    PROVE  receipts'[b] = receipts[b] /\ source'[b] = source[b]
<1>1. receipts[b] # NoReceipt
  BY DEF NoReceipt
<1>2. proc[p].run = "seal" => proc[p].batch # b
  BY <1>1 DEF GateInv, Sealing, Terminated
<1> QED
  BY <1>2 DEF Records

LEMMA RecordsStep ==
    ASSUME SealsInv, GateInv, NEW p \in Processes, NEW c, Records(p, c), Becomes(p, c)
    PROVE  attempts' \in Seq(Batches) /\ (\A q \in Processes : Sealing(q)') /\ GateHasRead'
<1>1. proc'[p] = c /\ \A q \in Processes \ {p} : proc'[q] = proc[q]
  BY DEF Becomes, SealsInv, CommandsType
<1>2. ASSUME NEW q \in Processes PROVE Sealing(q)'
  <2>1. CASE q = p
    BY <1>1, <2>1 DEF Records, Sealing, Terminated
  <2>2. CASE q # p
    <3>1. proc'[q] = proc[q] /\ Sealing(q)
      BY <1>1, <2>2 DEF GateInv
    <3>2. proc[q].run = "seal" => lock = q /\ proc[p].run # "seal"
      BY <2>2, <3>1 DEF GateInv, Sealing
    <3> QED
      BY <2>2, <3>1, <3>2 DEF Records, Sealing, Terminated
  <2> QED
    BY <2>1, <2>2
<1>3. GateHasRead'
  BY SealedStays DEF Becomes, GateInv, GateHasRead
<1> QED
  BY <1>2, <1>3 DEF Records

\* Contents are numbers.
LEMMA Contents ==
    ASSUME SealsInv
    PROVE  /\ db \in Nat /\ anchor \in Bundle /\ anchor.of \in Nat
           /\ \A p \in Processes : proc[p].prev.of \in Nat /\ proc[p].cand.of \in Nat
BY DEF SealsInv, CommandsType, Command, Bundle

\* The anchor stays where it is.
LEMMA StayStep ==
    ASSUME SealsInv, GateInv, NEW p \in Processes, NEW c, Records(p, c), Becomes(p, c), Learns(c),
           UNCHANGED anchor, Retain
    PROVE  GateInv'
<1>1. proc'[p] = c /\ \A q \in Processes \ {p} : proc'[q] = proc[q]
  BY DEF Becomes, SealsInv, CommandsType
<1>2. db' = db /\ anchor' = anchor /\ \A b : Outdated(b)' <=> Outdated(b)
  BY DEF Becomes, Outdated
<1>3. ASSUME NEW q \in Processes PROVE Remembers(q)'
  <2>1. CASE q = p
    BY <1>1, <1>2, <2>1 DEF Learns, Remembers, At, Outdated
  <2>2. CASE q # p
    BY <1>1, <1>2, <2>2 DEF GateInv, Remembers, At, Outdated
  <2> QED
    BY <2>1, <2>2
<1>4. retained \subseteq retained'
  BY DEF Retain
<1>5. ASSUME NEW b \in Batches PROVE SealHolds(b)'
  <2> SUFFICES ASSUME receipts'[b].outcome = "recovery_sealed"
               PROVE  /\ SealedBundle(b)' \in retained'
                      /\ receipts'[b].of = source'[b] /\ receipts'[b].of <= db
                      /\ receipts'[b].of = db => anchor = SealedBundle(b)' /\ db \notin OldContents
    BY <1>2 DEF SealHolds
  <2>1. CASE receipts'[b] = receipts[b]
    <3>1. source'[b] = source[b] /\ SealHolds(b)
      BY <2>1, SealedStays DEF GateInv
    <3> QED
      BY <1>4, <2>1, <3>1 DEF SealHolds, SealedBundle
  <2>2. CASE receipts'[b] # receipts[b]
    <3>1. /\ receipts'[b] = Sealed(b) /\ source'[b] = source[b] /\ source[b] = db
          /\ ~Outdated(anchor) /\ slot' = None
      BY <2>2 DEF Records
    <3>2. anchor.of = db /\ db \notin OldContents /\ anchor # NoBundle
      BY <3>1, Contents DEF Outdated, GateInv
    <3>3. SealedBundle(b)' = anchor
      BY <3>1, <3>2, Contents DEF SealedBundle, Sealed, Bundle
    <3>4. anchor \in retained'
      BY <1>2, <3>1, <3>2 DEF Retain
    <3> QED
      BY <3>1, <3>2, <3>3, <3>4, Contents DEF Sealed
  <2> QED
    BY <2>1, <2>2
<1> QED
  BY <1>2, <1>3, <1>5, RecordsStep DEF GateInv

(***************************************************************************)
(* Steps that only move a command.                                         *)
(***************************************************************************)
Unrecorded == UNCHANGED <<lock, attempts, source, receipts>>

LEMMA UnrecordedRecords ==
    ASSUME GateInv, NEW p \in Processes, NEW c, Unrecorded,
           c.at \notin {"attempt", "check"},
           c.run = proc[p].run \/ c.run # "seal", c.batch = proc[p].batch \/ c.run # "seal"
    PROVE  Records(p, c)
BY DEF Unrecorded, Records, GateInv, Sealing, Terminated

LEMMA LinkedAttempt ==
    ASSUME SealsInv, attempts \in Seq(Batches), NEW b \in Batches, LinkAttempt(b)
    PROVE  /\ receipts' = receipts /\ attempts' \in Seq(Batches)
           /\ \A a \in Batches : source'[a] # source[a] => a = b
<1>1. Append(attempts, b) \in Seq(Batches)
  OBVIOUS
<1>2. <<b>> \in Seq(Batches)
  OBVIOUS
<1>3. <<b>> \o attempts \in Seq(Batches)
  BY <1>2
<1>4. attempts' \in Seq(Batches)
  BY <1>1, <1>3 DEF LinkAttempt
<1>5. source' = [source EXCEPT ![b] = db] /\ receipts' = receipts
  BY DEF LinkAttempt
<1>6. ASSUME NEW a \in Batches, a # b PROVE source'[a] = source[a]
  BY <1>5, <1>6
<1> QED
  BY <1>4, <1>5, <1>6

LEMMA GoStep ==
    ASSUME SealsInv, GateInv, NEW p \in Processes, NEW x, Goes(p, x),
           x \notin {"swap", "verified", "attempt", "check"},
           UNCHANGED <<db, anchor, gate>>, Unrecorded, Retain
    PROVE  GateInv'
<1> DEFINE c == [proc[p] EXCEPT !.at = x]
<1>1. Becomes(p, c)
  BY DEF Becomes, Goes
<1>2. /\ c.at = x /\ c.prev = proc[p].prev /\ c.cand = proc[p].cand /\ c.run = proc[p].run
      /\ c.batch = proc[p].batch
  BY DEF SealsInv, CommandsType, Command
<1> HIDE DEF c
<1>3. Records(p, c)
  BY <1>2, UnrecordedRecords
<1>4. Learns(c)
  BY <1>2 DEF Learns, GateInv, Remembers
<1> QED
  BY <1>1, <1>3, <1>4, StayStep

LEMMA RaisesStep ==
    ASSUME SealsInv, GateInv, NEW p \in Processes, Raises(p),
           UNCHANGED <<db, anchor, gate>>, Unrecorded, Retain
    PROVE  GateInv'
BY GoStep DEF Raises

LEMMA LeaveStep ==
    ASSUME SealsInv, GateInv, NEW p \in Processes, Leave(p),
           UNCHANGED <<db, anchor, gate>>, Retain, attempts' \in Seq(Batches),
           \A b \in Batches :
              receipts'[b] # receipts[b] \/ source'[b] # source[b] =>
                  proc[p].run = "seal" /\ proc[p].batch = b,
           \A b \in Batches :
              receipts'[b] # receipts[b] /\ receipts'[b].outcome = "recovery_sealed" =>
                  /\ receipts'[b] = Sealed(b) /\ source'[b] = source[b] /\ source[b] = db
                  /\ ~Outdated(anchor) /\ slot' = None
    PROVE  GateInv'
<1>1. Becomes(p, Idle)
  BY DEF Becomes, Leave
<1>2. Idle.at = "idle" /\ Idle.prev = NoBundle /\ Idle.cand = NoBundle /\ Idle.run = "none"
  BY DEF Idle
<1>3. Records(p, Idle)
  BY <1>2 DEF Records, Leave
<1>4. Learns(Idle)
  BY <1>2, Contents DEF Learns, Outdated, NoBundle
<1> QED
  BY <1>1, <1>3, <1>4, StayStep

LEMMA TakeEvidenceStep ==
    ASSUME SealsInv, GateInv, NEW p \in Processes, ~Ready(anchor), TakeEvidence(p),
           UNCHANGED <<db, anchor, gate>>, Unrecorded, Retain
    PROVE  GateInv'
<1>1. CASE Evidence(anchor)
  <2> DEFINE c == [proc[p] EXCEPT !.at = "backup", !.prev = anchor]
  <2>1. Becomes(p, c)
    BY <1>1 DEF Becomes, TakeEvidence
  <2>2. /\ c.at = "backup" /\ c.prev = anchor /\ c.cand = proc[p].cand /\ c.run = proc[p].run
        /\ c.batch = proc[p].batch
    BY DEF SealsInv, CommandsType, Command
  <2> HIDE DEF c
  <2>3. Records(p, c)
    BY <2>2, UnrecordedRecords
  <2>4. anchor.of <= db /\ Outdated(anchor)
    BY <1>1, Contents DEF GateInv, Outdated, Ready, Verified, Evidence
  <2>5. Learns(c)
    BY <2>2, <2>4 DEF Learns, GateInv, Remembers
  <2> QED
    BY <2>1, <2>3, <2>5, StayStep
<1>2. CASE ~Evidence(anchor)
  BY <1>2, RaisesStep DEF TakeEvidence
<1> QED
  BY <1>1, <1>2

LEMMA StartStep ==
    ASSUME SealsInv, GateInv, NEW p \in Processes, StartCreate(p) \/ StartRotate(p),
           UNCHANGED gate, Unrecorded, Retain
    PROVE  GateInv'
<1>1. PICK x \in {"backup", "rotate"}, run \in {"create", "rotate"} :
         proc' = [proc EXCEPT ![p] = [Idle EXCEPT !.at = x, !.run = run]]
  BY DEF StartCreate, StartRotate
<1> DEFINE c == [Idle EXCEPT !.at = x, !.run = run]
<1>2. /\ c.at \in {"backup", "rotate"} /\ c.run # "seal"
      /\ c.prev = NoBundle /\ c.cand = NoBundle
  BY DEF Idle
<1>3. Becomes(p, c) /\ UNCHANGED anchor
  BY <1>1 DEF Becomes, StartCreate, StartRotate
<1> HIDE DEF c
<1>4. Records(p, c)
  BY <1>2, UnrecordedRecords
<1>5. Learns(c)
  BY <1>2, Contents DEF Learns, Outdated, NoBundle
<1> QED
  BY <1>3, <1>4, <1>5, StayStep

LEMMA StartSealStep ==
    ASSUME SealsInv, GateInv, NEW p \in Processes, NEW b \in Batches, StartSeal(p, b), Retain
    PROVE  GateInv'
<1> DEFINE c == [Idle EXCEPT !.at = "attempt", !.run = "seal", !.batch = b]
<1>1. Becomes(p, c) /\ UNCHANGED <<anchor, attempts, source, receipts>> /\ lock = None /\ lock' = p
      /\ ~Terminated(b)
  BY DEF Becomes, StartSeal
<1>2. /\ c.at = "attempt" /\ c.run = "seal" /\ c.batch = b
      /\ c.prev = NoBundle /\ c.cand = NoBundle
  BY DEF Idle
<1> HIDE DEF c
<1>3. Records(p, c)
  BY <1>1, <1>2, AnchorsAssumption DEF Records, GateInv, Terminated
<1>4. Learns(c)
  BY <1>2, Contents DEF Learns, Outdated, NoBundle
<1> QED
  BY <1>1, <1>3, <1>4, StayStep

LEMMA AttemptStep ==
    ASSUME SealsInv, GateInv, NEW p \in Processes, Attempt(p), Retain PROVE GateInv'
<1> DEFINE c == [proc[p] EXCEPT !.at = "check"]
<1>1. Becomes(p, c) /\ UNCHANGED <<anchor, lock>> /\ At(p, "attempt")
  BY DEF Becomes, Attempt, Goes
<1>2. /\ c.at = "check" /\ c.prev = proc[p].prev /\ c.cand = proc[p].cand /\ c.run = proc[p].run
      /\ c.batch = proc[p].batch
  BY DEF SealsInv, CommandsType, Command
<1> HIDE DEF c
<1>3. /\ proc[p].run = "seal" /\ lock = p /\ proc[p].batch \in Batches
      /\ ~Terminated(proc[p].batch)
  BY <1>1 DEF GateInv, Sealing, At
<1>4. /\ receipts' = receipts /\ attempts' \in Seq(Batches)
      /\ \A b \in Batches : source'[b] # source[b] => b = proc[p].batch
  BY <1>3, LinkedAttempt DEF Attempt, GateInv
<1>5. Records(p, c)
  BY <1>1, <1>2, <1>3, <1>4 DEF Records, Terminated
<1>6. Learns(c)
  BY <1>2 DEF Learns, GateInv, Remembers
<1> QED
  BY <1>1, <1>5, <1>6, StayStep

LEMMA BackupStep ==
    ASSUME SealsInv, GateInv, NEW p \in Processes, Backup(p), UNCHANGED gate, Unrecorded, Retain
    PROVE  GateInv'
<1>1. CASE Raises(p)
  BY <1>1, RaisesStep DEF Backup
<1>2. CASE ~Raises(p)
  <2> DEFINE new == [id |-> made + 1, of |-> db]
             c == [proc[p] EXCEPT !.at = "publish", !.cand = new]
  <2>1. Becomes(p, c) /\ UNCHANGED anchor /\ db \notin OldContents
    BY <1>2 DEF Becomes, Backup
  <2>2. new.of = db
    OBVIOUS
  <2> HIDE DEF new
  <2>3. /\ c.at = "publish" /\ c.prev = proc[p].prev /\ c.cand = new /\ c.run = proc[p].run
        /\ c.batch = proc[p].batch
    BY DEF SealsInv, CommandsType, Command
  <2> HIDE DEF c
  <2>4. Records(p, c)
    BY <2>3, UnrecordedRecords
  <2>5. Learns(c)
    BY <2>1, <2>2, <2>3, Contents DEF Learns, GateInv, Remembers
  <2> QED
    BY <2>1, <2>4, <2>5, StayStep
<1> QED
  BY <1>1, <1>2

LEMMA LookStep ==
    ASSUME SealsInv, GateInv, NEW p \in Processes, LookAtAnchor(p), UNCHANGED gate, Unrecorded, Retain
    PROVE  GateInv'
BY GoStep, TakeEvidenceStep DEF LookAtAnchor

LEMMA PreserveStep ==
    ASSUME SealsInv, GateInv, NEW p \in Processes, Preserve(p), UNCHANGED gate, Unrecorded, Retain
    PROVE  GateInv'
<1>1. CASE ~Ready(anchor)
  BY <1>1, TakeEvidenceStep DEF Preserve
<1>2. CASE Ready(anchor)
  <2> DEFINE c == [proc[p] EXCEPT !.at = "verified"]
  <2>1. Becomes(p, c) /\ UNCHANGED anchor
    BY <1>2 DEF Becomes, Preserve, Goes
  <2>2. /\ c.at = "verified" /\ c.prev = proc[p].prev /\ c.cand = proc[p].cand
        /\ c.run = proc[p].run /\ c.batch = proc[p].batch
    BY DEF SealsInv, CommandsType, Command
  <2> HIDE DEF c
  <2>3. Records(p, c)
    BY <2>2, UnrecordedRecords
  <2>4. ~Outdated(anchor)
    BY <1>2, Contents DEF Ready, Verified, Sound, Outdated
  <2>5. Learns(c)
    BY <2>2, <2>4 DEF Learns, GateInv, Remembers
  <2> QED
    BY <2>1, <2>3, <2>5, StayStep
<1> QED
  BY <1>1, <1>2

LEMMA RecheckStep ==
    ASSUME SealsInv, GateInv, NEW p \in Processes, Recheck(p), UNCHANGED gate, Unrecorded, Retain
    PROVE  GateInv'
<1>1. CASE Raises(p)
  BY <1>1, RaisesStep DEF Recheck
<1>2. CASE ~Raises(p)
  <2> DEFINE c == [proc[p] EXCEPT !.at = "swap"]
  <2>1. Becomes(p, c) /\ UNCHANGED anchor /\ anchor = proc[p].prev
    BY <1>2 DEF Becomes, Recheck, Goes
  <2>2. /\ c.at = "swap" /\ c.prev = proc[p].prev /\ c.cand = proc[p].cand
        /\ c.run = proc[p].run /\ c.batch = proc[p].batch
    BY DEF SealsInv, CommandsType, Command
  <2> HIDE DEF c
  <2>3. Records(p, c)
    BY <2>2, UnrecordedRecords
  <2>4. Learns(c)
    BY <2>1, <2>2 DEF Learns, GateInv, Remembers
  <2> QED
    BY <2>1, <2>3, <2>4, StayStep
<1> QED
  BY <1>1, <1>2

(***************************************************************************)
(* Steps that exchange the anchor, when no receipt is about a current one. *)
(***************************************************************************)
NoneIsCurrent ==
    \A b \in Batches : receipts[b].outcome = "recovery_sealed" => receipts[b].of # db

LEMMA OutdatedUnsealed == ASSUME SealsInv, GateInv, Outdated(anchor) PROVE NoneIsCurrent
<1> SUFFICES ASSUME NEW b \in Batches, receipts[b].outcome = "recovery_sealed", receipts[b].of = db
             PROVE  FALSE
  BY DEF NoneIsCurrent
<1>1. anchor = SealedBundle(b) /\ db \notin OldContents /\ anchor \in retained
  BY DEF GateInv, SealHolds
<1>2. anchor.of = db /\ anchor # NoBundle
  BY <1>1 DEF SealedBundle, SealsInv, Kept
<1> QED
  BY <1>1, <1>2, Contents DEF Outdated

LEMMA AnchorStep ==
    ASSUME SealsInv, GateInv, NEW p \in Processes, NEW c, Unrecorded, Becomes(p, c), Retain,
           NoneIsCurrent, anchor'.of <= db,
           \A q \in Processes \ {p} : proc[q].at \notin {"swap", "verified"},
           c.prev = proc[p].prev, c.cand = proc[p].cand, c.run = proc[p].run, c.batch = proc[p].batch,
           c.at \notin {"swap", "attempt", "check"}, c.at = "verified" => ~Outdated(anchor')
    PROVE  GateInv'
<1>1. proc'[p] = c /\ \A q \in Processes \ {p} : proc'[q] = proc[q]
  BY DEF Becomes, SealsInv, CommandsType
<1>2. db' = db /\ \A b : Outdated(b)' <=> Outdated(b)
  BY DEF Becomes, Outdated
<1>3. ASSUME NEW q \in Processes PROVE Remembers(q)'
  <2>1. CASE q = p
    BY <1>1, <1>2, <2>1 DEF GateInv, Remembers, At, Outdated
  <2>2. CASE q # p
    BY <1>1, <1>2, <2>2 DEF GateInv, Remembers, At, Outdated
  <2> QED
    BY <2>1, <2>2
<1>4. ASSUME NEW b \in Batches PROVE SealHolds(b)'
  <2>1. retained \subseteq retained'
    BY DEF Retain
  <2> QED
    BY <1>2, <2>1 DEF Unrecorded, GateInv, SealHolds, SealedBundle, NoneIsCurrent
<1>5. Records(p, c)
  BY UnrecordedRecords
<1> QED
  BY <1>2, <1>3, <1>4, <1>5, RecordsStep DEF GateInv

LEMMA PublishStep ==
    ASSUME SealsInv, GateInv, NEW p \in Processes, Publish(p), UNCHANGED gate, Unrecorded, Retain
    PROVE  GateInv'
<1>1. CASE Raises(p) /\ UNCHANGED anchor
  BY <1>1, RaisesStep DEF Publish
<1>2. CASE Goes(p, "recheck") /\ UNCHANGED anchor
  BY <1>2, GoStep DEF Publish
<1>3. CASE anchor = NoBundle /\ anchor' = proc[p].cand /\ Goes(p, "idle")
  <2> DEFINE c == [proc[p] EXCEPT !.at = "idle"]
  <2>1. Becomes(p, c)
    BY <1>3 DEF Becomes, Publish, Goes
  <2>2. /\ c.at = "idle" /\ c.prev = proc[p].prev /\ c.cand = proc[p].cand
        /\ c.run = proc[p].run /\ c.batch = proc[p].batch
    BY DEF SealsInv, CommandsType, Command
  <2> HIDE DEF c
  <2>3. NoneIsCurrent
    BY <1>3, OutdatedUnsealed DEF Outdated
  <2>4. \A q \in Processes : proc[q].at \notin {"swap", "verified"}
    BY AnchorsAssumption DEF Publish, SealsInv, HoldsSlot
  <2>5. anchor'.of <= db
    BY <1>3 DEF GateInv, Remembers
  <2> QED
    BY <2>1, <2>2, <2>3, <2>4, <2>5, AnchorStep
<1> QED
  BY <1>1, <1>2, <1>3 DEF Publish

LEMMA SwapStep ==
    ASSUME SealsInv, GateInv, NEW p \in Processes, Swap(p), UNCHANGED gate, Unrecorded, Retain
    PROVE  GateInv'
<1> DEFINE x == IF Ready(proc[p].cand) /\ Evidence(proc[p].prev) THEN "verified" ELSE "undo"
           c == [proc[p] EXCEPT !.swapped = TRUE, !.at = x]
<1>1. Becomes(p, c) /\ anchor' = proc[p].cand /\ At(p, "swap")
  BY DEF Becomes, Swap, Exchange
<1>2. x \in {"verified", "undo"} /\ (x = "verified" => Ready(proc[p].cand))
  OBVIOUS
<1> HIDE DEF x
<1>3. /\ c.at = x /\ c.prev = proc[p].prev /\ c.cand = proc[p].cand
      /\ c.run = proc[p].run /\ c.batch = proc[p].batch
  BY DEF SealsInv, CommandsType, Command
<1> HIDE DEF c
<1>4. anchor = proc[p].prev /\ Outdated(proc[p].prev) /\ proc[p].cand.of <= db
  BY <1>1 DEF GateInv, Remembers
<1>5. NoneIsCurrent
  BY <1>4, OutdatedUnsealed
<1>6. \A q \in Processes \ {p} : proc[q].at \notin {"swap", "verified"}
  BY <1>1 DEF SealsInv, HoldsSlot, At
<1>7. x = "verified" => ~Outdated(anchor')
  BY <1>1, <1>2, Contents DEF Ready, Verified, Sound, Outdated
<1>8. anchor'.of <= db
  BY <1>1, <1>4
<1> QED
  BY <1>1, <1>2, <1>3, <1>5, <1>6, <1>7, <1>8, AnchorStep

LEMMA UndoStep ==
    ASSUME SealsInv, GateInv, NEW p \in Processes, Undo(p), UNCHANGED gate, Unrecorded, Retain
    PROVE  GateInv'
<1>1. CASE ~proc[p].swapped
  BY <1>1, RaisesStep DEF Undo
<1>2. CASE proc[p].swapped
  <2> DEFINE c == [proc[p] EXCEPT !.swapped = FALSE, !.at = "cleanup"]
  <2>1. Becomes(p, c) /\ anchor' = proc[p].prev /\ At(p, "undo")
    BY <1>2 DEF Becomes, Undo, Exchange
  <2>2. /\ c.at = "cleanup" /\ c.prev = proc[p].prev /\ c.cand = proc[p].cand
        /\ c.run = proc[p].run /\ c.batch = proc[p].batch
    BY DEF SealsInv, CommandsType, Command
  <2> HIDE DEF c
  <2>3. anchor = proc[p].cand /\ anchor \notin retained
    BY <1>2, <2>1 DEF SealsInv, Comparison, Exchanged, At
  <2>4. NoneIsCurrent
    BY <2>3 DEF GateInv, SealHolds, NoneIsCurrent
  <2>5. \A q \in Processes \ {p} : proc[q].at \notin {"swap", "verified"}
    BY <2>1 DEF SealsInv, HoldsSlot, At
  <2>6. anchor'.of <= db
    BY <2>1 DEF GateInv, Remembers
  <2> QED
    BY <2>1, <2>2, <2>4, <2>5, <2>6, AnchorStep
<1> QED
  BY <1>1, <1>2

(***************************************************************************)
(* The other steps of commands.                                            *)
(***************************************************************************)
LEMMA RestOfRotationStep ==
    ASSUME SealsInv, GateInv, NEW p \in Processes, Cleanup(p) \/ Fails(p) \/ BusyTimeout(p),
           UNCHANGED gate, Unrecorded, Retain
    PROVE  GateInv'
BY GoStep, RaisesStep DEF Cleanup, Fails, BusyTimeout

\* A receipt is linked for the batch of the command.
LEMMA LinkedReceipt ==
    ASSUME SealsInv, GateInv, NEW b \in Batches, NEW r, LinkReceipt(b, r)
    PROVE  /\ attempts' \in Seq(Batches) /\ source' = source
           /\ receipts'[b] = r /\ \A a \in Batches \ {b} : receipts'[a] = receipts[a]
BY DEF LinkReceipt, GateInv, SealsInv, CommandsType

LEMMA UnsealingStep ==
    ASSUME SealsInv, GateInv, NEW p \in Processes, proc[p].run = "seal",
           LinkReceipt(proc[p].batch, Unsealed(proc[p].batch)), Leave(p),
           UNCHANGED <<db, anchor, gate>>, Retain
    PROVE  GateInv'
<1>1. proc[p].batch \in Batches
  BY DEF GateInv, Sealing
<1>2. /\ attempts' \in Seq(Batches) /\ source' = source
      /\ receipts'[proc[p].batch].outcome = "recovery_unsealed"
      /\ \A a \in Batches \ {proc[p].batch} : receipts'[a] = receipts[a]
  BY <1>1, LinkedReceipt DEF Unsealed
<1> QED
  BY <1>1, <1>2, LeaveStep

\* With the slot still held, the anchor is current and the batch's content is
\* the database's.
LEMMA SealingStep ==
    ASSUME SealsInv, GateInv, NEW p \in Processes, proc[p].run = "seal", At(p, "verified"),
           ~SourceMoved(p), LinkReceipt(proc[p].batch, Sealed(proc[p].batch)), Leave(p),
           UNCHANGED <<db, anchor, gate>>, Retain
    PROVE  GateInv'
<1> DEFINE b == proc[p].batch
<1>1. b \in Batches /\ ~Outdated(anchor) /\ source[b] = db
  BY DEF GateInv, Sealing, Remembers, SourceMoved
<1>2. /\ attempts' \in Seq(Batches) /\ source' = source /\ receipts'[b] = Sealed(b)
      /\ \A a \in Batches \ {b} : receipts'[a] = receipts[a]
  BY <1>1, LinkedReceipt
<1>3. slot' = None
  BY DEF Leave, Release, SealsInv, HoldsSlot, At
<1> HIDE DEF b
<1>4. \A a \in Batches :
         receipts'[a] # receipts[a] \/ source'[a] # source[a] =>
             proc[p].run = "seal" /\ proc[p].batch = a
  BY <1>2 DEF b
<1>5. \A a \in Batches :
         receipts'[a] # receipts[a] /\ receipts'[a].outcome = "recovery_sealed" =>
             /\ receipts'[a] = Sealed(a) /\ source'[a] = source[a] /\ source[a] = db
             /\ ~Outdated(anchor) /\ slot' = None
  BY <1>1, <1>2, <1>3
<1> QED
  BY <1>2, <1>4, <1>5, LeaveStep

\* The command leaves and no record changes.
LEMMA QuietLeaveStep ==
    ASSUME SealsInv, GateInv, NEW p \in Processes, Leave(p), Retain,
           UNCHANGED <<db, anchor, gate, attempts, source, receipts>>
    PROVE  GateInv'
BY LeaveStep DEF GateInv

LEMMA CheckStep ==
    ASSUME SealsInv, GateInv, NEW p \in Processes, Check(p), Retain PROVE GateInv'
<1>1. CASE SourceMoved(p)
  <2>1. proc[p].run = "seal"
    BY DEF Check, GateInv, Sealing, At
  <2> QED
    BY <1>1, <2>1, UnsealingStep DEF Check
<1>2. CASE ~SourceMoved(p)
  BY <1>2, GoStep DEF Check, Unrecorded
<1> QED
  BY <1>1, <1>2

LEMMA SealStep ==
    ASSUME SealsInv, GateInv, NEW p \in Processes, Seal(p), Retain PROVE GateInv'
<1>1. CASE SourceMoved(p)
  BY <1>1, GoStep DEF Seal, Unrecorded
<1>2. CASE ~SourceMoved(p)
  BY <1>2, SealingStep DEF Seal
<1> QED
  BY <1>1, <1>2

LEMMA PublicationFailsStep ==
    ASSUME SealsInv, GateInv, NEW p \in Processes, PublicationFails(p), Retain PROVE GateInv'
<1>1. CASE Goes(p, "undo") /\ UNCHANGED <<slot, lock>>
  BY <1>1, GoStep DEF PublicationFails, Unrecorded
<1>2. CASE Leave(p)
  BY <1>2, QuietLeaveStep DEF PublicationFails
<1> QED
  BY <1>1, <1>2 DEF PublicationFails

\* A kill in the publication of a record, which may be linked or not.
LEMMA CrashInPublicationStep ==
    ASSUME SealsInv, GateInv, NEW p \in Processes, CrashInPublication(p), Retain PROVE GateInv'
<1> DEFINE b == proc[p].batch
<1>1. Leave(p) /\ UNCHANGED <<db, anchor, gate>> /\ proc[p].run = "seal"
  BY DEF CrashInPublication
<1>2. CASE UNCHANGED <<attempts, source, receipts>>
  BY <1>1, <1>2, QuietLeaveStep
<1>3. CASE LinkAttempt(b)
  <2>1. b \in Batches /\ attempts \in Seq(Batches)
    BY <1>1 DEF GateInv, Sealing
  <2>2. /\ receipts' = receipts /\ attempts' \in Seq(Batches)
        /\ \A a \in Batches : source'[a] # source[a] => a = b
    BY <1>3, <2>1, LinkedAttempt
  <2> QED
    BY <1>1, <2>2, LeaveStep
<1>4. CASE At(p, "verified") /\ ~SourceMoved(p) /\ LinkReceipt(b, Sealed(b))
  BY <1>1, <1>4, SealingStep
<1>5. CASE LinkReceipt(b, Unsealed(b))
  BY <1>1, <1>5, UnsealingStep
<1> QED
  BY <1>2, <1>3, <1>4, <1>5 DEF CrashInPublication

(***************************************************************************)
(* A commit of another program, and damage.                                *)
(***************************************************************************)
LEMMA WriteStep ==
    ASSUME SealsInv, GateInv, Write, Unrecorded, UNCHANGED gate, Retain PROVE GateInv'
<1>1. /\ slot = None /\ db' = db + 1 /\ UNCHANGED <<anchor, proc>>
  BY DEF Write
<1>2. retained \subseteq retained'
  BY DEF Retain
<1>3. anchor'.of <= db'
  BY <1>1, Contents DEF GateInv
<1>4. ASSUME NEW q \in Processes PROVE Remembers(q)'
  <2>1. proc[q].at \notin {"swap", "verified"}
    BY <1>1, AnchorsAssumption DEF SealsInv, HoldsSlot
  <2>2. proc[q].prev.of <= db' /\ proc[q].cand.of <= db'
    BY <1>1, Contents DEF GateInv, Remembers
  <2>3. Outdated(proc[q].prev)'
    BY <1>1, Contents DEF GateInv, Remembers, Outdated
  <2> QED
    BY <1>1, <2>1, <2>2, <2>3 DEF GateInv, Remembers, At
<1>5. ASSUME NEW b \in Batches PROVE SealHolds(b)'
  <2> SUFFICES ASSUME receipts[b].outcome = "recovery_sealed"
               PROVE  SealHolds(b)'
    BY DEF SealHolds, Unrecorded
  <2>1. SealedBundle(b) \in retained /\ receipts[b].of = source[b] /\ receipts[b].of <= db
    BY DEF GateInv, SealHolds
  <2>2. receipts[b].of \in Nat
    BY <2>1 DEF SealsInv, CommandsType, SealedBundle, Bundle
  <2>3. receipts[b].of <= db' /\ receipts[b].of # db'
    BY <1>1, <2>1, <2>2, Contents
  <2> QED
    BY <1>2, <2>1, <2>3 DEF SealHolds, SealedBundle, Unrecorded
<1>6. \A q \in Processes : Sealing(q)'
  BY <1>1 DEF GateInv, Sealing, Terminated, Unrecorded
<1>7. GateHasRead'
  BY DEF GateInv, GateHasRead, Unrecorded
<1> QED
  BY <1>3, <1>4, <1>5, <1>6, <1>7 DEF GateInv, Unrecorded

\* Neither commands nor the database move.
LEMMA StillStep ==
    ASSUME SealsInv, GateInv, UNCHANGED <<db, anchor, proc>>, Unrecorded,
           retained \subseteq retained', GateHasRead'
    PROVE  GateInv'
<1>1. ASSUME NEW q \in Processes PROVE Remembers(q)' /\ Sealing(q)'
  BY DEF GateInv, Remembers, Sealing, Outdated, At, Terminated, Unrecorded
<1>2. ASSUME NEW b \in Batches PROVE SealHolds(b)'
  BY DEF GateInv, SealHolds, SealedBundle, Unrecorded
<1> QED
  BY <1>1, <1>2 DEF GateInv, Unrecorded

LEMMA DamageStep ==
    ASSUME SealsInv, GateInv, Damage, Unrecorded, UNCHANGED gate, Retain PROVE GateInv'
<1>1. GateHasRead'
  BY DEF GateInv, GateHasRead, Unrecorded
<1> QED
  BY <1>1, StillStep DEF Damage, Retain

(***************************************************************************)
(* The gate.                                                               *)
(***************************************************************************)
LEMMA GateMoves ==
    ASSUME GateInv, NEW from, NEW to, NEW holds \in BOOLEAN, NEW sha, NEW of, NEW scan, NEW next,
           next = [at |-> gate.at, sha |-> sha, of |-> of, scan |-> scan],
           GateStep(from, to, holds, next)
    PROVE  /\ gate' = [at |-> gate'.at, sha |-> gate'.sha, of |-> gate'.of, scan |-> gate'.scan]
           /\ gate'.at \in {to, "outside"}
           /\ gate'.at = to /\ to # "outside" =>
                  holds /\ gate'.sha = sha /\ gate'.of = of /\ gate'.scan = scan
<1>1. CASE holds
  <2>1. gate' = [at |-> to, sha |-> sha, of |-> of, scan |-> scan]
    BY <1>1 DEF GateStep
  <2> QED
    BY <1>1, <2>1
<1>2. CASE ~holds
  BY <1>2 DEF GateStep, Outside
<1> QED
  BY <1>1, <1>2

\* The seal that a reading of a directory leaves was there before, or is there.
LEMMA ReadsBatch ==
    ASSUME SealsInv, GateInv, NEW b \in Batches, GateReadsBatch(b) PROVE GateHasRead'
<1> DEFINE holds == b \notin debris /\ Attempted(b)
           rest == gate.scan.todo \ {b}
           scan == IF gate.scan.latest = None \/ StartedLater(b, gate.scan.latest)
                   THEN [todo |-> rest, latest |-> b, seal |-> receipts[b]]
                   ELSE [todo |-> rest, latest |-> gate.scan.latest, seal |-> gate.scan.seal]
           next == [gate EXCEPT !.scan = scan]
<1>1. /\ holds \in BOOLEAN /\ GateStep("reading", "reading", holds, next)
      /\ gate.at = "reading" /\ receipts' = receipts
  BY DEF GateReadsBatch, GateStep, sealVars, Attempted
<1>2. gate = [at |-> gate.at, sha |-> gate.sha, of |-> gate.of, scan |-> gate.scan]
  BY DEF GateInv, GateHasRead
<1>3. scan.seal = receipts[b] \/ scan.seal = gate.scan.seal
  OBVIOUS
<1> HIDE DEF holds, scan
<1>4. next = [at |-> gate.at, sha |-> gate.sha, of |-> gate.of, scan |-> scan]
  BY <1>2
<1> HIDE DEF next
<1>5. /\ gate' = [at |-> gate'.at, sha |-> gate'.sha, of |-> gate'.of, scan |-> gate'.scan]
      /\ gate'.at \in {"reading", "outside"}
      /\ gate'.at = "reading" => gate'.scan = scan
  BY <1>1, <1>4, GateMoves
<1>6. ASSUME gate'.at = "reading", gate'.scan.seal.outcome = "recovery_sealed"
      PROVE  \E a \in Batches : receipts'[a] = gate'.scan.seal
  <2>1. CASE gate'.scan.seal = receipts[b]
    BY <1>1, <2>1
  <2>2. CASE gate'.scan.seal = gate.scan.seal
    BY <1>1, <1>6, <2>2 DEF GateInv, GateHasRead
  <2> QED
    BY <1>3, <1>5, <1>6, <2>1, <2>2
<1> QED
  BY <1>5, <1>6 DEF GateHasRead

LEMMA ReadsSeals ==
    ASSUME SealsInv, GateInv, GateReadsSeals PROVE GateHasRead'
<1> DEFINE seal == gate.scan.seal
           holds == seal.outcome = "recovery_sealed" /\ seal.bundle = gate.sha
           next == [gate EXCEPT !.of = seal.of, !.scan = Unread]
<1>1. /\ holds \in BOOLEAN /\ GateStep("reading", "sealed", holds, next)
      /\ gate.at = "reading" /\ receipts' = receipts
  BY DEF GateReadsSeals, GateStep, sealVars
<1>2. next = [at |-> gate.at, sha |-> gate.sha, of |-> seal.of, scan |-> Unread]
  <2> DEFINE first == [gate EXCEPT !.of = seal.of]
  <2> HIDE DEF seal
  <2>1. gate = [at |-> gate.at, sha |-> gate.sha, of |-> gate.of, scan |-> gate.scan]
    BY DEF GateInv, GateHasRead
  <2>2. first = [at |-> gate.at, sha |-> gate.sha, of |-> seal.of, scan |-> gate.scan]
    BY <2>1
  <2> HIDE DEF first
  <2>3. [first EXCEPT !.scan = Unread] =
           [at |-> gate.at, sha |-> gate.sha, of |-> seal.of, scan |-> Unread]
    BY <2>2
  <2> QED
    BY <2>3 DEF first
<1>3. ASSUME holds PROVE \E b \in Batches : receipts[b] = seal
  BY <1>1, <1>3 DEF GateInv, GateHasRead
<1>4. holds => seal.outcome = "recovery_sealed" /\ seal.bundle = gate.sha
  OBVIOUS
<1> HIDE DEF seal, holds, next
<1>5. /\ gate' = [at |-> gate'.at, sha |-> gate'.sha, of |-> gate'.of, scan |-> gate'.scan]
      /\ gate'.at \in {"sealed", "outside"}
      /\ gate'.at = "sealed" => holds /\ gate'.sha = gate.sha /\ gate'.of = seal.of
  BY <1>1, <1>2, GateMoves
<1>6. ASSUME gate'.at = "sealed"
      PROVE  \E b \in Batches : /\ receipts'[b].outcome = "recovery_sealed"
                                /\ receipts'[b].bundle = gate'.sha /\ receipts'[b].of = gate'.of
  <2>1. PICK b \in Batches : receipts[b] = seal
    BY <1>3, <1>5, <1>6
  <2> QED
    BY <1>1, <1>4, <1>5, <1>6, <2>1
<1> QED
  BY <1>5, <1>6 DEF GateHasRead

LEMMA GateReads == ASSUME SealsInv, GateInv, Gate PROVE GateHasRead'
<1>1. gate = [at |-> gate.at, sha |-> gate.sha, of |-> gate.of, scan |-> gate.scan]
  BY DEF GateInv, GateHasRead
<1>2. ASSUME NEW to \in {"verified", "anchor", "current", "reading", "ready"}, NEW from,
             NEW holds \in BOOLEAN, NEW sha, NEW of, NEW scan, NEW next,
             to # "reading" \/ scan.seal.outcome # "recovery_sealed",
             next = [at |-> gate.at, sha |-> sha, of |-> of, scan |-> scan],
             GateStep(from, to, holds, next)
      PROVE  GateHasRead'
  <2>1. /\ gate' = [at |-> gate'.at, sha |-> gate'.sha, of |-> gate'.of, scan |-> gate'.scan]
        /\ gate'.at \in {to, "outside"}
        /\ gate'.at = to => gate'.scan = scan
    BY <1>2, GateMoves
  <2>2. ~(gate'.at = "reading" /\ gate'.scan.seal.outcome = "recovery_sealed")
    BY <1>2, <2>1
  <2> QED
    BY <2>1, <2>2 DEF GateHasRead
<1>3. CASE GateVerifies
  <2> DEFINE next == [gate EXCEPT !.sha = anchor.id]
             holds == Verified(anchor)
  <2>1. next = [at |-> gate.at, sha |-> anchor.id, of |-> gate.of, scan |-> gate.scan]
    BY <1>1
  <2>2. GateStep("outside", "verified", holds, next)
    BY <1>3 DEF GateVerifies
  <2>3. holds \in BOOLEAN
    BY DEF Verified, Sound
  <2> HIDE DEF next, holds
  <2> QED
    BY <1>2, <2>1, <2>2, <2>3
<1>4. CASE GateReadsAnchor
  <2>1. [gate EXCEPT !.of = anchor.of] =
           [at |-> gate.at, sha |-> gate.sha, of |-> anchor.of, scan |-> gate.scan]
    BY <1>1
  <2>2. GateStep("verified", "anchor", TRUE, [gate EXCEPT !.of = anchor.of])
    BY <1>4 DEF GateReadsAnchor
  <2> QED
    BY <1>2, <2>1, <2>2, Zenon
<1>5. CASE GateReadsSource
  <2>1. GateStep("anchor", "current", db = gate.of, gate)
    BY <1>5 DEF GateReadsSource
  <2> QED
    BY <1>1, <1>2, <2>1, Zenon
<1>6. CASE GateListsBatches
  <2> DEFINE scan == [Unread EXCEPT !.todo = opened]
  <2>1. GateStep("current", "reading", opened # {}, [gate EXCEPT !.scan = scan])
    BY <1>6 DEF GateListsBatches
  <2>2. scan.seal.outcome # "recovery_sealed"
    BY DEF Unread, NoReceipt
  <2> HIDE DEF scan
  <2>3. [gate EXCEPT !.scan = scan] =
           [at |-> gate.at, sha |-> gate.sha, of |-> gate.of, scan |-> scan]
    BY <1>1
  <2> QED
    BY <1>2, <2>1, <2>2, <2>3, Zenon
<1>7. CASE GateReadsSourceAgain
  <2>1. GateStep("sealed", "ready", db = gate.of, gate)
    BY <1>7 DEF GateReadsSourceAgain
  <2> QED
    BY <1>1, <1>2, <2>1, Zenon
<1>8. CASE GateCloses
  BY <1>8 DEF GateCloses, GateHasRead, Outside
<1> QED
  BY <1>3, <1>4, <1>5, <1>6, <1>7, <1>8, ReadsBatch, ReadsSeals DEF Gate

LEMMA GateLooks == ASSUME SealsInv, GateInv, Gate, Retain PROVE GateInv'
<1>1. UNCHANGED <<anchorVars, sealVars>>
  BY DEF Gate, GateVerifies, GateReadsAnchor, GateReadsSource, GateReadsSeals,
         GateListsBatches, GateReadsBatch, GateReadsSourceAgain, GateCloses, GateStep
<1> QED
  BY <1>1, GateReads, StillStep DEF anchorVars, sealVars, Unrecorded, Retain

LEMMA InitGate == Init => GateInv
<1> SUFFICES ASSUME Init PROVE GateInv
  OBVIOUS
<1>1. /\ db = 0 /\ anchor.of = 0 /\ attempts = <<>>
      /\ \A p \in Processes : proc[p] = Idle
      /\ \A b \in Batches : receipts[b] = NoReceipt
      /\ gate = Outside
  BY DEF Init, AnchorsInit, NoBundle
<1>2. Idle.at = "idle" /\ Idle.run = "none" /\ Idle.prev = NoBundle /\ Idle.cand = NoBundle
  BY DEF Idle
<1>3. NoBundle.of = 0 /\ Outdated(NoBundle)
  BY DEF Outdated, NoBundle
<1>4. ASSUME NEW p \in Processes PROVE Remembers(p) /\ Sealing(p)
  <2>1. proc[p] = Idle
    BY <1>1
  <2>2. Remembers(p)
    BY <1>1, <1>2, <1>3, <2>1 DEF Remembers, At
  <2>3. Sealing(p)
    BY <1>2, <2>1 DEF Sealing
  <2> QED
    BY <2>2, <2>3
<1>5. \A b \in Batches : SealHolds(b)
  BY <1>1 DEF SealHolds, NoReceipt
<1>6. GateHasRead
  BY <1>1 DEF GateHasRead, Outside
<1>7. attempts \in Seq(Batches)
  BY <1>1
<1> QED
  BY <1>1, <1>4, <1>5, <1>6, <1>7 DEF GateInv

LEMMA StepGate ==
    ASSUME SealsInv, GateInv, [Next]_vars PROVE GateInv'
<1>1. ASSUME NEW p \in Processes, Begin(p), Retain PROVE GateInv'
  BY <1>1, StartStep DEF Begin, sealVars, Unrecorded
<1>2. ASSUME NEW p \in Processes, RotationOfAnchors(p), Retain PROVE GateInv'
  BY <1>2, BackupStep, PublishStep, LookStep, PreserveStep, RecheckStep, SwapStep, UndoStep,
     RestOfRotationStep
  DEF RotationOfAnchors, RotationStep, sealVars, Unrecorded
<1>3. ASSUME NEW p \in Processes, Unseal(p), Retain PROVE GateInv'
  BY <1>3, UnsealingStep DEF Unseal
<1>4. ASSUME NEW p \in Processes, CannotCheck(p), Retain PROVE GateInv'
  <2>1. proc[p].run = "seal"
    BY <1>4 DEF CannotCheck, GateInv, Sealing, At
  <2> QED
    BY <1>4, <2>1, UnsealingStep DEF CannotCheck
<1>5. ASSUME NEW p \in Processes, EndByHand(p) \/ Crash(p), Retain PROVE GateInv'
  BY <1>5, QuietLeaveStep DEF EndByHand, Crash
<1>6. ASSUME NEW p \in Processes, Proceed(p), Retain PROVE GateInv'
  BY <1>2, <1>3, <1>5, <1>6, AttemptStep, CheckStep, SealStep DEF Proceed
<1>7. ASSUME Environment, Retain PROVE GateInv'
  BY <1>7, WriteStep, DamageStep, RestOfRotationStep DEF Environment, sealVars, Unrecorded
<1>8. CASE UNCHANGED vars
  <2>1. GateHasRead'
    BY <1>8 DEF vars, sealVars, GateInv, GateHasRead
  <2> QED
    BY <1>8, <2>1, StillStep DEF vars, anchorVars, sealVars, Unrecorded
<1> QED
  BY <1>1, <1>4, <1>5, <1>6, <1>7, <1>8, GateLooks, StartSealStep, PublicationFailsStep,
     CrashInPublicationStep
  DEF Next, Step

\* A sealed receipt whose content the database still has names the bundle at
\* the stable path, and the gate has read such a receipt when it reads the
\* database for the last time (recovery_seal.py:547-755,
\* execution_generation.py:153-197).
THEOREM GateInvariant == Spec => []GateInv
<1>1. Init => GateInv
  BY InitGate
<1>2. SealsInv /\ GateInv /\ [Next]_vars => GateInv'
  BY StepGate
<1> QED
  BY <1>1, <1>2, SealsInvariant, PTL DEF Spec

LEMMA ReadyIsLastReading ==
    ASSUME SealsInv, GateInv, Next, gate'.at = "ready", gate.at # "ready"
    PROVE  gate.at = "sealed" /\ db = gate.of /\ gate'.sha = gate.sha /\ anchor' = anchor
<1>1. gate = [at |-> gate.at, sha |-> gate.sha, of |-> gate.of, scan |-> gate.scan]
  BY DEF GateInv, GateHasRead
<1>2. Gate
  <2>1. gate' # gate
    OBVIOUS
  <2>2. ASSUME NEW p \in Processes PROVE ~Begin(p) /\ ~Proceed(p)
    BY <2>1 DEF Begin, Proceed, RotationOfAnchors, Attempt, Check, Seal, Unseal, EndByHand
  <2>3. ASSUME NEW p \in Processes
        PROVE  ~PublicationFails(p) /\ ~CannotCheck(p) /\ ~Crash(p) /\ ~CrashInPublication(p)
    BY <2>1 DEF PublicationFails, CannotCheck, Crash, CrashInPublication
  <2> QED
    BY <2>1, <2>2, <2>3 DEF Next, Step, Environment, StartSeal
<1>3. CASE GateReadsSourceAgain
  <2>1. GateStep("sealed", "ready", db = gate.of, gate) /\ (db = gate.of) \in BOOLEAN
    BY <1>3 DEF GateReadsSourceAgain
  <2>2. gate.at = "sealed" /\ UNCHANGED anchor
    BY <2>1 DEF GateStep, anchorVars
  <2>3. db = gate.of /\ gate'.sha = gate.sha
    BY <1>1, <2>1, GateMoves
  <2> QED
    BY <2>2, <2>3
<1>4. ASSUME NEW from, NEW to \in {"verified", "anchor", "current", "reading", "sealed"}, NEW holds, NEW next,
             GateStep(from, to, holds, next), "at" \in DOMAIN next
      PROVE  FALSE
  BY <1>4 DEF GateStep, Outside
<1>5. /\ ~GateVerifies /\ ~GateReadsAnchor /\ ~GateReadsSource /\ ~GateListsBatches
      /\ ~GateReadsSeals /\ \A b \in Batches : ~GateReadsBatch(b)
  <2>1. "at" \in DOMAIN gate
    BY <1>1
  <2>2. ASSUME NEW x
        PROVE  /\ "at" \in DOMAIN [gate EXCEPT !.sha = x]
               /\ "at" \in DOMAIN [gate EXCEPT !.of = x]
               /\ "at" \in DOMAIN [gate EXCEPT !.scan = x]
    BY <2>1
  <2>3. "at" \in DOMAIN [gate EXCEPT !.of = gate.scan.seal.of, !.scan = Unread]
    BY <2>1
  <2>4. ~GateVerifies /\ ~GateReadsAnchor /\ ~GateReadsSource /\ ~GateListsBatches
    BY <1>4, <2>1, <2>2, Zenon
    DEF GateVerifies, GateReadsAnchor, GateReadsSource, GateListsBatches
  <2>5. ~GateReadsSeals
    BY <1>4, <2>3, Zenon DEF GateReadsSeals
  <2>6. ASSUME NEW b \in Batches PROVE ~GateReadsBatch(b)
    BY <1>4, <2>2, Zenon DEF GateReadsBatch
  <2> QED
    BY <2>4, <2>5, <2>6
<1>6. ~GateCloses
  BY DEF GateCloses, Outside
<1> QED
  BY <1>2, <1>3, <1>5, <1>6 DEF Gate

\* The verdict of the gate is true of the anchor and of the database when it
\* is given, whatever happened between its readings
\* (execution_generation.py:153-197).
THEOREM VerdictIsTrue == Spec => GateVerdictIsTrue
<1> DEFINE Truth == gate'.at = "ready" /\ gate.at # "ready" => anchor.id = gate.sha /\ anchor.of = db
<1>1. ASSUME SealsInv, GateInv, [Next]_vars PROVE Truth
  <2> SUFFICES ASSUME gate'.at = "ready", gate.at # "ready"
               PROVE  anchor.id = gate.sha /\ anchor.of = db
    OBVIOUS
  <2>1. Next
    BY <1>1 DEF vars
  <2>2. gate.at = "sealed" /\ db = gate.of
    BY <1>1, <2>1, ReadyIsLastReading
  <2>3. PICK b \in Batches : /\ receipts[b].outcome = "recovery_sealed"
                             /\ receipts[b].bundle = gate.sha /\ receipts[b].of = gate.of
    BY <1>1, <2>2 DEF GateInv, GateHasRead
  <2>4. anchor = SealedBundle(b)
    BY <1>1, <2>2, <2>3 DEF GateInv, SealHolds
  <2> QED
    BY <2>2, <2>3, <2>4 DEF SealedBundle
<1>2. SealsInv /\ GateInv /\ [Next]_vars => [Truth]_vars
  BY <1>1
<1> QED
  BY <1>2, SealsInvariant, GateInvariant, PTL DEF Spec, GateVerdictIsTrue
=============================================================================

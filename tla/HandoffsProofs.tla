--------------------------- MODULE HandoffsProofs ---------------------------
(***************************************************************************)
(* Proofs about the handoff queue, for any number of handoffs, sessions,   *)
(* operators and legacy rows.                                              *)
(***************************************************************************)
EXTENDS Handoffs, FiniteSetTheorems, TLAPS

\* Closing a handoff writes a cleared row and one more receipt.
LEMMA CloseType ==
    ASSUME TypeOK, NEW h \in Handoffs,
           NEW e \in {"cleared", "cancelled", "recovered"}, Close(h, e)
    PROVE  row' \in [Handoffs -> Row] /\ receipts' \in [Handoffs -> Seq(Receipt)]
<1>1. row[h] \in Row /\ receipts[h] \in Seq(Receipt)
  BY DEF TypeOK
<1>2. [row[h] EXCEPT !.status = "cleared"] \in Row
  BY <1>1 DEF Row
<1>3. [event |-> e, claimant |-> row[h].claimant] \in Receipt
  BY <1>1 DEF Row, Receipt
<1>4. Append(receipts[h], [event |-> e, claimant |-> row[h].claimant]) \in Seq(Receipt)
  BY <1>1, <1>3
<1>5. /\ row' = [row EXCEPT ![h] = [row[h] EXCEPT !.status = "cleared"]]
      /\ receipts' = [receipts EXCEPT ![h] =
              Append(receipts[h], [event |-> e, claimant |-> row[h].claimant])]
  BY DEF Close
<1> QED
  BY <1>2, <1>4, <1>5 DEF TypeOK

\* A receipt of a lost pickup is one more occurrence in the ledger.
LEMMA LossType ==
    ASSUME TypeOK, NEW s \in Sessions, NEW reason, RecordLoss(s, reason)
    PROVE  ledger' \in Conflicts!Ledgers
<1>1. PICK k : ledger' = [ledger EXCEPT ![k] = ledger[k] + 1]
  BY DEF RecordLoss, Conflicts!RecordConflict, Conflicts!Upsert
<1>2. ledger \in [Conflicts!RowKeys -> Nat]
  BY DEF TypeOK, Conflicts!Ledgers
<1>3. CASE k \in Conflicts!RowKeys
  <2>1. ledger[k] + 1 \in Nat
    BY <1>2, <1>3
  <2> QED
    BY <1>1, <1>2, <2>1 DEF Conflicts!Ledgers
<1>4. CASE k \notin Conflicts!RowKeys
  BY <1>1, <1>2, <1>4 DEF Conflicts!Ledgers
<1> QED
  BY <1>3, <1>4

\* A ceremony about one handoff names a stored handoff.
LEMMA ReviewTarget ==
    ASSUME TypeOK, NEW o \in Operators,
           review[o].cmd \in {"promote", "cancel", "recover", "restore"}
    PROVE  review[o].h \in Handoffs
<1>1. review[o] \in Review
  BY DEF TypeOK
<1>2. CASE review[o] = NoReview
  BY <1>2 DEF NoReview
<1>3. CASE review[o] \in [cmd : {"promote", "cancel"}, h : Handoffs, row : Row]
  BY <1>3
<1>4. CASE review[o] \in [cmd : {"recover"}, h : Handoffs, row : Row, cap : Cap]
  BY <1>4
<1>5. CASE review[o] \in [cmd : {"quarantine"},
                          rows : UNION {[S -> Row] : S \in SUBSET Handoffs}]
  BY <1>5
<1>6. CASE review[o] \in [cmd : {"restore"}, h : Handoffs, image : Image]
  BY <1>6
<1> QED
  BY <1>1, <1>2, <1>3, <1>4, <1>5, <1>6 DEF Review

\* Every variable keeps its type: what the other proofs build on.
THEOREM TypeCorrect == Spec => []TypeOK
<1> USE HandoffsAssumption
<1>1. Init => TypeOK
  <2> SUFFICES ASSUME Init PROVE TypeOK
    OBVIOUS
  <2>1. cap \in [Handoffs -> Cap] /\ receipts \in [Handoffs -> Seq(Receipt)]
    BY DEF Init, Cap, NoCap, Claimants
  <2>2. image \in [Handoffs -> Image]
    BY DEF Init, Image, NoImage, Absent, Row, Trusts, Claimants
  <2>3. ledger \in Conflicts!Ledgers
    BY DEF Init, Conflicts!EmptyLedger, Conflicts!Ledgers
  <2>4. call \in [Sessions -> Call] /\ review \in [Operators -> Review]
    BY DEF Init, Call, Review
  <2>5. index \subseteq Handoffs
    BY DEF Init, StoredRows
  <2> QED
    BY <2>1, <2>2, <2>3, <2>4, <2>5 DEF Init, TypeOK
<1>2. TypeOK /\ [Next]_vars => TypeOK'
  <2> SUFFICES ASSUME TypeOK, [Next]_vars PROVE TypeOK'
    OBVIOUS
  <2>1. ASSUME NEW h \in Handoffs, NEW t \in Trusts, CreateHandoff(h, t)
        PROVE  TypeOK'
    <3>1. [status |-> "pending", trust |-> Clamp(t), claimant |-> Nobody] \in Row
      BY DEF Clamp, Row, Trusts, Claimants
    <3> QED
      BY <2>1, <3>1 DEF TypeOK, CreateHandoff
  <2>2. ASSUME NEW s \in Sessions, SessionNext(s)
        PROVE  TypeOK'
    <3>1. ASSUME NEW h \in Handoffs, PickUpRead(s, h) PROVE TypeOK'
      <4>1. [op |-> IF row[h].status = "pending" THEN "claiming" ELSE "stale",
             h |-> h, trust |-> row[h].trust] \in Call
        BY DEF TypeOK, Row, Call
      <4> QED
        BY <3>1, <4>1 DEF TypeOK, PickUpRead, Start, store
    <3>2. ASSUME NEW h \in Handoffs, ClearRead(s, h) PROVE TypeOK'
      BY <3>2 DEF TypeOK, ClearRead, Start, store, Call
    <3>4. CASE PickUpStale(s)
      BY LossType, <3>4 DEF TypeOK, PickUpStale, Return, Call
    <3>5. CASE PickUpRaced(s)
      BY LossType, <3>5 DEF TypeOK, PickUpRaced, Return, Call
    <3>6. CASE PickUpWin(s)
      <4>1. call[s].h \in Handoffs
        BY <3>6 DEF PickUpWin, TypeOK, Call, Idle
      <4>2. row' \in [Handoffs -> Row]
        <5>1. row' = [row EXCEPT ![call[s].h].status = "active",
                                 ![call[s].h].claimant = RoleOf[s]]
          BY <3>6 DEF PickUpWin
        <5>2. row \in [Handoffs -> Row]
          BY DEF TypeOK
        <5>3. RoleOf[s] \in Claimants
          BY HandoffsAssumption DEF Claimants
        <5>4. [row[call[s].h] EXCEPT !.status = "active", !.claimant = RoleOf[s]] \in Row
          BY <4>1, <5>2, <5>3 DEF Row
        <5> QED
          BY <4>1, <5>1, <5>2, <5>4
      <4>3. cap' \in [Handoffs -> Cap]
        BY <3>6, <4>1 DEF PickUpWin, TypeOK, Cap, Claimants
      <4>4. call' \in [Sessions -> Call]
        BY <3>6, <4>1 DEF PickUpWin, TypeOK, Call
      <4> QED
        BY <3>6, <4>2, <4>3, <4>4 DEF PickUpWin, TypeOK
    <3>7. CASE Respond(s)
      <4>1. call[s].h \in Handoffs
        BY <3>7 DEF Respond, TypeOK, Call, Idle
      <4> QED
        BY <3>7, <4>1 DEF Respond, Return, TypeOK, Call, store
    <3>8. CASE ClearCommit(s)
      <4>1. call[s].h \in Handoffs
        BY <3>8 DEF ClearCommit, TypeOK, Call, Idle
      <4>2. row' \in [Handoffs -> Row] /\ receipts' \in [Handoffs -> Seq(Receipt)]
        BY <3>8, <4>1, CloseType DEF ClearCommit
      <4>3. cap' \in [Handoffs -> Cap]
        BY <3>8, <4>1 DEF ClearCommit, TypeOK, Cap
      <4> QED
        BY <3>8, <4>2, <4>3 DEF ClearCommit, Return, TypeOK, Call
    <3>9. CASE Abandon(s)
      BY <3>9 DEF Abandon, Return, TypeOK, Call, store
    <3> QED
      BY <2>2, <3>1, <3>2, <3>4, <3>5, <3>6, <3>7, <3>8, <3>9 DEF SessionNext
  <2>3. ASSUME NEW o \in Operators, OperatorNext(o)
        PROVE  TypeOK'
    <3>1. ASSUME NEW r \in Review, Show(o, r) PROVE TypeOK'
      BY <3>1 DEF Show, TypeOK, store
    <3>2. EndReview(o) => /\ UNCHANGED <<expired, index, ledger, bearers, call,
                                         clockBacks>>
                          /\ review' \in [Operators -> Review]
      BY DEF EndReview, TypeOK, Review
    <3>3. ASSUME NEW h \in Handoffs,
                 ReviewPromote(o, h) \/ ReviewCancel(o, h)
                   \/ ReviewRecover(o, h) \/ ReviewRestore(o, h)
          PROVE  TypeOK'
      <4>1. /\ [cmd |-> "promote", h |-> h, row |-> row[h]] \in Review
            /\ [cmd |-> "cancel", h |-> h, row |-> row[h]] \in Review
            /\ [cmd |-> "recover", h |-> h, row |-> row[h], cap |-> cap[h]] \in Review
            /\ [cmd |-> "restore", h |-> h, image |-> image[h]] \in Review
        BY DEF TypeOK, Review
      <4> QED
        BY <3>1, <3>3, <4>1 DEF ReviewPromote, ReviewCancel, ReviewRecover,
                                ReviewRestore
    <3>4. CASE ReviewQuarantine(o)
      <4>1. QuarantineSet \in [Quarantinable -> Row] /\ Quarantinable \in SUBSET Handoffs
        BY DEF QuarantineSet, Quarantinable, TypeOK
      <4>2. [cmd |-> "quarantine", rows |-> QuarantineSet] \in Review
        BY <4>1 DEF Review
      <4> QED
        BY <3>1, <3>4, <4>2 DEF ReviewQuarantine
    <3>5. CASE CommitPromote(o)
      BY <3>2, <3>5 DEF CommitPromote, TypeOK, Row, Trusts
    <3>7. CASE CommitCancel(o)
      <4>1. review[o].h \in Handoffs
        BY <3>7, ReviewTarget DEF CommitCancel
      <4> QED
        BY <3>2, CloseType, <3>7, <4>1 DEF CommitCancel, TypeOK
    <3>8. CASE CommitRecover(o)
      <4>1. review[o].h \in Handoffs
        BY <3>8, ReviewTarget DEF CommitRecover
      <4>2. cap' \in [Handoffs -> Cap]
        BY <3>8, <4>1 DEF CommitRecover, TypeOK, Cap
      <4> QED
        BY <3>2, CloseType, <3>8, <4>1, <4>2 DEF CommitRecover, TypeOK
    <3>9. CASE CommitQuarantine(o)
      <4>1. row' \in [Handoffs -> Row] /\ image' \in [Handoffs -> Image]
        BY <3>9 DEF CommitQuarantine, TypeOK, Image, Row, Trusts
      <4> QED
        BY <3>2, <3>9, <4>1 DEF CommitQuarantine, TypeOK
    <3>10. CASE CommitRestore(o)
      <4>1. review[o].h \in Handoffs
        BY <3>10, ReviewTarget DEF CommitRestore
      <4>2. row' \in [Handoffs -> Row]
        BY <3>10, <4>1 DEF CommitRestore, TypeOK, Row, Trusts
      <4>3. image' \in [Handoffs -> Image]
        BY <3>10, <4>1 DEF CommitRestore, TypeOK, Image
      <4> QED
        BY <3>2, <3>10, <4>2, <4>3 DEF CommitRestore, TypeOK
    <3>11. CASE EndCeremony(o)
      BY <3>11 DEF EndCeremony, TypeOK, Review, store
    <3> QED
      BY <2>3, <3>3, <3>4, <3>5, <3>7, <3>8, <3>9, <3>10, <3>11 DEF OperatorNext
  <2>4. ASSUME NEW h \in Handoffs, Expire(h) \/ SetClockBack(h)
        PROVE  TypeOK'
    BY <2>4 DEF Expire, SetClockBack, TypeOK, store
  <2>5. CASE UNCHANGED vars
    BY <2>5 DEF TypeOK, vars, store
  <2> QED
    BY <2>1, <2>2, <2>3, <2>4, <2>5 DEF Next
<1> QED
  BY <1>1, <1>2, PTL DEF Spec

-----------------------------------------------------------------------------
(* The inductive invariant.  `At(h)' abbreviates, in the comments, the      *)
(* values of the four tables at handoff h: each step changes them at one    *)
(* handoff (a quarantine at several) and leaves the others alone.           *)

\* Unchanged tables are still sound.
LEMMA SoundFrame ==
    ASSUME HandoffInv, NEW h \in Handoffs,
           row'[h] = row[h], cap'[h] = cap[h],
           receipts'[h] = receipts[h], image'[h] = image[h]
    PROVE  Sound(h, row'[h], cap'[h], receipts'[h], image'[h])
BY DEF HandoffInv

\* A dispatch writes a fresh pending row where there was none.
LEMMA CreateSound ==
    ASSUME TypeOK, HandoffInv, NEW g \in Handoffs, NEW t, CreateHandoff(g, t),
           NEW h \in Handoffs
    PROVE  Sound(h, row'[h], cap'[h], receipts'[h], image'[h])
<1>1. CASE h # g
  <2>1. row'[h] = row[h] /\ cap'[h] = cap[h] /\ receipts'[h] = receipts[h]
        /\ image'[h] = image[h]
    BY <1>1 DEF CreateHandoff, TypeOK
  <2> QED
    BY <2>1, SoundFrame
<1>2. CASE h = g
  <2>1. Sound(h, row[h], cap[h], receipts[h], image[h]) /\ row[h].status = "absent"
    BY <1>2 DEF HandoffInv, CreateHandoff, Absent
  <2>2. /\ row'[h] = [status |-> "pending", trust |-> Clamp(t), claimant |-> Nobody]
        /\ cap'[h] = cap[h] /\ receipts'[h] = receipts[h] /\ image'[h] = image[h]
    BY <1>2 DEF CreateHandoff, TypeOK
  <2> QED
    BY <2>1, <2>2 DEF Sound, NoCap
<1> QED
  BY <1>1, <1>2

\* A winning claim takes a pending operator-trust row and mints its capability.
LEMMA WinSound ==
    ASSUME TypeOK, HandoffInv, NEW s \in Sessions, PickUpWin(s), NEW h \in Handoffs
    PROVE  Sound(h, row'[h], cap'[h], receipts'[h], image'[h])
<1> DEFINE g == call[s].h
<1>1. CASE h # g
  <2>1. row'[h] = row[h] /\ cap'[h] = cap[h] /\ receipts'[h] = receipts[h]
        /\ image'[h] = image[h]
    BY <1>1 DEF PickUpWin, TypeOK
  <2> QED
    BY <2>1, SoundFrame
<1>2. CASE h = g
  <2>1. Sound(h, row[h], cap[h], receipts[h], image[h])
    BY DEF HandoffInv
  <2>2. row[h].status = "pending" /\ row[h].trust = "operator"
    BY <1>2 DEF PickUpWin, Claimable, HandoffInv, CallsSound
  <2>3. /\ row'[h] = [row[h] EXCEPT !.status = "active", !.claimant = RoleOf[s]]
        /\ cap'[h] = [minted |-> TRUE, caller |-> RoleOf[s],
                      consumed |-> FALSE, recovered |-> FALSE]
        /\ receipts'[h] = receipts[h] /\ image'[h] = image[h]
    BY <1>2 DEF PickUpWin, TypeOK
  <2>4. row'[h].status = "active" /\ row'[h].claimant = RoleOf[s]
        /\ row'[h].trust = "operator"
    BY <2>2, <2>3 DEF TypeOK, Row
  <2>5. RoleOf[s] \in Callers
    BY HandoffsAssumption DEF HandoffsAssumption
  <2> QED
    BY <2>1, <2>2, <2>3, <2>4, <2>5 DEF Sound, Open, NoCap
<1> QED
  BY <1>1, <1>2

\* Closing an open row once, by an event its capability agrees with.
LEMMA CloseSound ==
    ASSUME TypeOK, HandoffInv, NEW g \in Handoffs,
           NEW e \in {"cleared", "cancelled", "recovered"}, Close(g, e),
           row[g].status \in {"pending", "active"},
           \A h \in Handoffs \ {g} : cap'[h] = cap[h],
           cap'[g] = NoCap \/ (cap'[g].minted /\ cap'[g].caller \in Callers),
           EndedBy(e, row[g], cap'[g]),
           cap'[g].consumed => row[g].trust = "operator",
           image' = image, NEW h \in Handoffs
    PROVE  Sound(h, row'[h], cap'[h], receipts'[h], image'[h])
<1>1. CASE h # g
  <2>1. row'[h] = row[h] /\ cap'[h] = cap[h] /\ receipts'[h] = receipts[h]
        /\ image'[h] = image[h]
    BY <1>1 DEF Close, TypeOK
  <2> QED
    BY <2>1, SoundFrame
<1>2. CASE h = g
  <2>1. Sound(h, row[h], cap[h], receipts[h], image[h])
    BY DEF HandoffInv
  <2>2. receipts[h] = <<>> /\ ~image[h].kept
    BY <1>2, <2>1 DEF Sound, TypeOK, Image
  <2>3. /\ row'[h] = [row[h] EXCEPT !.status = "cleared"]
        /\ receipts'[h] = Append(<<>>, [event |-> e, claimant |-> row[h].claimant])
        /\ image'[h] = image[h]
    BY <1>2, <2>2 DEF Close, TypeOK
  <2>4. receipts'[h] = <<[event |-> e, claimant |-> row[h].claimant]>>
    BY <2>3
  <2>5. /\ row'[h].status = "cleared" /\ row'[h].claimant = row[h].claimant
        /\ row'[h].trust = row[h].trust
    BY <2>3 DEF TypeOK, Row
  <2>6. EndedBy(e, row'[h], cap'[h])
    BY <1>2, <2>5 DEF EndedBy
  <2> QED
    BY <1>2, <2>2, <2>3, <2>4, <2>5, <2>6 DEF Sound
<1> QED
  BY <1>1, <1>2

\* Completion consumes the open capability of an active row.
LEMMA ClearSound ==
    ASSUME TypeOK, HandoffInv, NEW s \in Sessions, ClearCommit(s), NEW h \in Handoffs
    PROVE  Sound(h, row'[h], cap'[h], receipts'[h], image'[h])
<1> DEFINE g == call[s].h
<1>1. g \in Handoffs
  BY DEF ClearCommit, TypeOK, Call, Idle
<1>2. Sound(g, row[g], cap[g], receipts[g], image[g])
  BY <1>1 DEF HandoffInv
<1>3. Open(cap[g]) /\ row[g].status = "active" /\ Close(g, "cleared")
  BY DEF ClearCommit, Completable
<1>4. cap' = [cap EXCEPT ![g].consumed = TRUE] /\ image' = image
  BY DEF ClearCommit
<1>5. /\ cap'[g].minted /\ cap'[g].consumed /\ ~cap'[g].recovered
      /\ cap'[g].caller = cap[g].caller
  BY <1>1, <1>3, <1>4 DEF TypeOK, Cap, Open
<1>6. cap[g].caller \in Callers /\ row[g].trust = "operator"
  BY <1>2, <1>3 DEF Sound, Open, NoCap
<1>7. EndedBy("cleared", row[g], cap'[g])
  BY <1>5 DEF EndedBy
<1>8. \A k \in Handoffs \ {g} : cap'[k] = cap[k]
  BY <1>4 DEF TypeOK
<1> HIDE DEF g
<1> QED
  BY <1>1, <1>3, <1>4, <1>5, <1>6, <1>7, <1>8, CloseSound

\* Cancellation meets no capability.
LEMMA CancelSound ==
    ASSUME TypeOK, HandoffInv, NEW o \in Operators, CommitCancel(o), NEW h \in Handoffs
    PROVE  Sound(h, row'[h], cap'[h], receipts'[h], image'[h])
<1> DEFINE g == review[o].h
<1>1. g \in Handoffs
  BY ReviewTarget DEF CommitCancel
<1>2. Sound(g, row[g], cap[g], receipts[g], image[g])
  BY <1>1 DEF HandoffInv
<1>3. /\ row[g].claimant = Nobody /\ Close(g, "cancelled")
      /\ cap' = cap /\ image' = image
  BY DEF CommitCancel
<1>4. row[g].status \in {"pending", "active"}
  BY DEF CommitCancel, HandoffInv, ReviewsSound
<1>5. cap[g] = NoCap
  BY <1>2, <1>3, <1>4, HandoffsAssumption DEF Sound, Open, HandoffsAssumption
<1>6. EndedBy("cancelled", row[g], cap'[g]) /\ ~cap'[g].consumed
  BY <1>3, <1>5 DEF EndedBy, NoCap
<1> HIDE DEF g
<1> QED
  BY <1>1, <1>3, <1>4, <1>5, <1>6, CloseSound

\* Recovery retires the expired capability, or closes a claim that had none.
LEMMA RecoverSound ==
    ASSUME TypeOK, HandoffInv, NEW o \in Operators, CommitRecover(o), NEW h \in Handoffs
    PROVE  Sound(h, row'[h], cap'[h], receipts'[h], image'[h])
<1> DEFINE g == review[o].h
<1>1. g \in Handoffs
  BY ReviewTarget DEF CommitRecover
<1>2. Sound(g, row[g], cap[g], receipts[g], image[g]) /\ cap[g] \in Cap
  BY <1>1 DEF HandoffInv, TypeOK
<1>3. /\ row[g].status = "active" /\ Close(g, "recovered") /\ image' = image
      /\ cap[g].minted => Open(cap[g])
      /\ cap' = IF cap[g].minted THEN [cap EXCEPT ![g].recovered = TRUE] ELSE cap
  BY DEF CommitRecover
<1>4. \A k \in Handoffs \ {g} : cap'[k] = cap[k]
  BY <1>3 DEF TypeOK
<1>5. CASE cap[g].minted
  <2>1. cap'[g] = [cap[g] EXCEPT !.recovered = TRUE]
    BY <1>1, <1>3, <1>5 DEF TypeOK
  <2>2. /\ cap'[g].minted /\ ~cap'[g].consumed /\ cap'[g].recovered
        /\ cap'[g].caller = cap[g].caller
    BY <1>2, <1>3, <1>5, <2>1 DEF Cap, Open
  <2>3. cap[g].caller \in Callers
    BY <1>2, <1>5 DEF Sound, NoCap
  <2>4. EndedBy("recovered", row[g], cap'[g])
    BY <2>2 DEF EndedBy
  <2> HIDE DEF g
  <2> QED
    BY <1>1, <1>3, <1>4, <2>2, <2>3, <2>4, CloseSound
<1>6. CASE ~cap[g].minted
  <2>1. cap[g] = NoCap /\ cap'[g] = NoCap
    BY <1>2, <1>3, <1>6 DEF Sound
  <2>2. EndedBy("recovered", row[g], cap'[g]) /\ ~cap'[g].consumed
    BY <2>1 DEF EndedBy, NoCap
  <2> HIDE DEF g
  <2> QED
    BY <1>1, <1>3, <1>4, <2>1, <2>2, CloseSound
<1> QED
  BY <1>5, <1>6

\* Promotion raises the trust of a pending row and nothing else.
LEMMA PromoteSound ==
    ASSUME TypeOK, HandoffInv, NEW o \in Operators, CommitPromote(o), NEW h \in Handoffs
    PROVE  Sound(h, row'[h], cap'[h], receipts'[h], image'[h])
<1>1. /\ cap'[h] = cap[h] /\ receipts'[h] = receipts[h] /\ image'[h] = image[h]
      /\ Sound(h, row[h], cap[h], receipts[h], image[h])
  BY DEF CommitPromote, HandoffInv
<1>2. CASE h # review[o].h
  <2>1. row'[h] = row[h]
    BY <1>2 DEF CommitPromote, TypeOK
  <2> QED
    BY <1>1, <2>1
<1>3. CASE h = review[o].h
  <2>1. /\ row[h].status = "pending"
        /\ row'[h] = [row[h] EXCEPT !.trust = "operator"]
    BY <1>3 DEF CommitPromote, TypeOK
  <2>2. row'[h].status = "pending" /\ row'[h].claimant = row[h].claimant
    BY <2>1 DEF TypeOK, Row
  <2> QED
    BY <1>1, <2>1, <2>2 DEF Sound, NoCap
<1> QED
  BY <1>2, <1>3

\* Quarantine relabels cleared operator rows and keeps each of them whole.
LEMMA QuarantineSound ==
    ASSUME TypeOK, HandoffInv, NEW o \in Operators, CommitQuarantine(o),
           NEW h \in Handoffs
    PROVE  Sound(h, row'[h], cap'[h], receipts'[h], image'[h])
<1>1. /\ cap'[h] = cap[h] /\ receipts'[h] = receipts[h]
      /\ Sound(h, row[h], cap[h], receipts[h], image[h])
  BY DEF CommitQuarantine, HandoffInv
<1>2. CASE h \notin Quarantinable
  <2>1. row'[h] = row[h] /\ image'[h] = image[h]
    BY <1>2 DEF CommitQuarantine
  <2> QED
    BY <1>1, <2>1
<1>3. CASE h \in Quarantinable
  <2>1. row[h].status = "cleared" /\ row[h].trust = "operator" /\ row[h] \in Row
    BY <1>3 DEF Quarantinable, TypeOK
  <2>2. /\ row'[h] = [row[h] EXCEPT !.trust = "ingested"]
        /\ image'[h] = [kept |-> TRUE, row |-> row[h], restored |-> FALSE]
    BY <1>3 DEF CommitQuarantine
  <2>3. /\ row'[h].status = "cleared" /\ row'[h].trust = "ingested"
        /\ row'[h].claimant = row[h].claimant
        /\ [row'[h] EXCEPT !.trust = "operator"] = row[h]
    BY <2>1, <2>2 DEF Row
  <2>4. \A e : EndedBy(e, row[h], cap[h]) => EndedBy(e, row'[h], cap'[h])
    BY <1>1, <2>3 DEF EndedBy
  <2> QED
    BY <1>1, <2>1, <2>2, <2>3, <2>4 DEF Sound
<1> QED
  BY <1>2, <1>3

\* Restoring gives the row of the image back.
LEMMA RestoreSound ==
    ASSUME TypeOK, HandoffInv, NEW o \in Operators, CommitRestore(o),
           NEW h \in Handoffs
    PROVE  Sound(h, row'[h], cap'[h], receipts'[h], image'[h])
<1>1. /\ cap'[h] = cap[h] /\ receipts'[h] = receipts[h]
      /\ Sound(h, row[h], cap[h], receipts[h], image[h])
  BY DEF CommitRestore, HandoffInv
<1>2. CASE h # review[o].h
  <2>1. row'[h] = row[h] /\ image'[h] = image[h]
    BY <1>2 DEF CommitRestore, TypeOK
  <2> QED
    BY <1>1, <2>1
<1>3. CASE h = review[o].h
  <2>1. /\ row'[h] = [row[h] EXCEPT !.trust = "operator"]
        /\ image'[h] = [image[h] EXCEPT !.restored = TRUE]
        /\ Restorable(h)
    BY <1>3 DEF CommitRestore, TypeOK
  <2>2. /\ image'[h].kept /\ image'[h].restored /\ image'[h].row = image[h].row
        /\ row'[h].trust = "operator" /\ row'[h].status = row[h].status
        /\ row'[h].claimant = row[h].claimant
        /\ [row'[h] EXCEPT !.trust = "operator"] = row'[h]
    BY <2>1 DEF TypeOK, Image, Row, Restorable
  <2>3. \A e : EndedBy(e, row[h], cap[h]) => EndedBy(e, row'[h], cap'[h])
    BY <1>1, <2>2 DEF EndedBy
  <2> QED
    BY <1>1, <2>1, <2>2, <2>3 DEF Sound, Restorable
<1> QED
  BY <1>2, <1>3

\* Every step keeps every handoff sound.
LEMMA SoundStep ==
    ASSUME TypeOK, HandoffInv, [Next]_vars, NEW h \in Handoffs
    PROVE  Sound(h, row'[h], cap'[h], receipts'[h], image'[h])
<1>1. ASSUME UNCHANGED <<row, cap, receipts, image>>
      PROVE  Sound(h, row'[h], cap'[h], receipts'[h], image'[h])
  BY <1>1, SoundFrame
<1>2. ASSUME NEW g \in Handoffs, NEW t \in Trusts, CreateHandoff(g, t)
      PROVE  Sound(h, row'[h], cap'[h], receipts'[h], image'[h])
  BY <1>2, CreateSound
<1>3. ASSUME NEW s \in Sessions, SessionNext(s)
      PROVE  Sound(h, row'[h], cap'[h], receipts'[h], image'[h])
  <2>1. CASE \E g \in Handoffs : PickUpRead(s, g) \/ ClearRead(s, g)
    BY <1>1, <2>1 DEF PickUpRead, ClearRead, store
  <2>2. CASE PickUpStale(s) \/ PickUpRaced(s) \/ Respond(s) \/ Abandon(s)
    BY <1>1, <2>2 DEF PickUpStale, PickUpRaced, Respond, Abandon, store
  <2> QED
    BY <1>3, <2>1, <2>2, WinSound, ClearSound DEF SessionNext
<1>4. ASSUME NEW o \in Operators, OperatorNext(o)
      PROVE  Sound(h, row'[h], cap'[h], receipts'[h], image'[h])
  <2>1. CASE \/ \E g \in Handoffs : \/ ReviewPromote(o, g) \/ ReviewCancel(o, g)
                                  \/ ReviewRecover(o, g) \/ ReviewRestore(o, g)
             \/ ReviewQuarantine(o) \/ EndCeremony(o)
    BY <1>1, <2>1 DEF ReviewPromote, ReviewCancel, ReviewRecover, ReviewRestore,
                      ReviewQuarantine, EndCeremony, Show, store
  <2> QED
    BY <1>4, <2>1, PromoteSound, CancelSound, RecoverSound, QuarantineSound,
       RestoreSound DEF OperatorNext
<1>5. ASSUME NEW g \in Handoffs, Expire(g) \/ SetClockBack(g)
      PROVE  Sound(h, row'[h], cap'[h], receipts'[h], image'[h])
  BY <1>1, <1>5 DEF Expire, SetClockBack, store
<1>6. CASE UNCHANGED vars
  BY <1>1, <1>6 DEF vars, store
<1> QED
  BY <1>2, <1>3, <1>4, <1>5, <1>6 DEF Next

\* A minted capability stays minted: the rows of that table are never deleted.
LEMMA MintedStays ==
    ASSUME TypeOK, HandoffInv, [Next]_vars, NEW h \in Handoffs, cap[h].minted
    PROVE  cap'[h].minted
<1>1. cap' = cap => cap'[h].minted
  OBVIOUS
<1>2. ASSUME NEW s \in Sessions, SessionNext(s) PROVE cap'[h].minted
  <2>1. CASE PickUpWin(s)
    BY <2>1 DEF PickUpWin, TypeOK, Cap
  <2>2. CASE ClearCommit(s)
    BY <2>2 DEF ClearCommit, TypeOK, Cap
  <2> QED
    BY <1>1, <1>2, <2>1, <2>2 DEF SessionNext, PickUpRead, ClearRead, PickUpStale,
        PickUpRaced, Respond, Abandon, store
<1>3. ASSUME NEW o \in Operators, OperatorNext(o) PROVE cap'[h].minted
  <2>1. CASE CommitRecover(o)
    BY <2>1 DEF CommitRecover, TypeOK, Cap
  <2> QED
    BY <1>1, <1>3, <2>1 DEF OperatorNext, ReviewPromote, ReviewCancel,
        ReviewRecover, ReviewRestore, ReviewQuarantine, EndCeremony, Show, store,
        CommitPromote, CommitCancel, CommitQuarantine, CommitRestore
<1> QED
  BY <1>1, <1>2, <1>3 DEF Next, CreateHandoff, Expire, SetClockBack, vars, store

\* A grant in flight names a stored handoff.
LEMMA CallTarget ==
    ASSUME TypeOK, NEW s \in Sessions, call[s].op # "idle"
    PROVE  call[s].h \in Handoffs
BY DEF TypeOK, Call, Idle

\* Every step keeps what the sessions know true.
LEMMA CallsStep ==
    ASSUME TypeOK, HandoffInv, [Next]_vars
    PROVE  CallsSound'
<1>1. ASSUME UNCHANGED <<call, bearers>> PROVE CallsSound'
  <2>1. \A s \in Sessions : call[s].op = "granted" => cap'[call[s].h].minted
    BY MintedStays, CallTarget DEF HandoffInv, CallsSound
  <2>2. \A h \in bearers : cap'[h].minted
    BY MintedStays DEF HandoffInv, CallsSound, TypeOK
  <2> QED
    BY <1>1, <2>1, <2>2 DEF HandoffInv, CallsSound, OneSessionPerClaim
<1>2. ASSUME NEW s \in Sessions, SessionNext(s) PROVE CallsSound'
  <2>1. ASSUME bearers' = bearers,
               NEW c \in Call, call' = [call EXCEPT ![s] = c],
               c.op = "claiming" => c.trust = "operator",
               c.op # "granted"
        PROVE  CallsSound'
    <3>1. \A t \in Sessions : call'[t] = IF t = s THEN c ELSE call[t]
      BY <2>1 DEF TypeOK
    <3>2. \A t \in Sessions : call'[t].op = "granted" =>
              call'[t] = call[t] /\ cap'[call'[t].h].minted
      BY <2>1, <3>1, MintedStays, CallTarget DEF HandoffInv, CallsSound
    <3>3. \A h \in bearers' : cap'[h].minted
      BY <2>1, MintedStays DEF HandoffInv, CallsSound, TypeOK
    <3>4. OneSessionPerClaim'
      BY <2>1, <3>1 DEF HandoffInv, CallsSound, OneSessionPerClaim
    <3>5. \A t \in Sessions : call'[t].op = "claiming" => call'[t].trust = "operator"
      BY <2>1, <3>1 DEF HandoffInv, CallsSound
    <3> QED
      BY <3>2, <3>3, <3>4, <3>5 DEF CallsSound
  <2>2. Idle \in Call /\ Idle.op = "idle"
    BY DEF Call, Idle
  <2>3. CASE \E h \in Handoffs : PickUpRead(s, h)
    <3> PICK h \in Handoffs : PickUpRead(s, h)
      BY <2>3
    <3> DEFINE c == [op |-> IF row[h].status = "pending" THEN "claiming" ELSE "stale",
                     h |-> h, trust |-> row[h].trust]
    <3>1. c \in Call
      BY DEF TypeOK, Row, Call
    <3>2. c.op = "claiming" => c.trust = "operator"
      BY DEF PickUpRead
    <3>3. c.op # "granted"
      OBVIOUS
    <3>4. bearers' = bearers /\ call' = [call EXCEPT ![s] = c]
      BY DEF PickUpRead, Start
    <3> HIDE DEF c
    <3> QED
      BY <2>1, <3>1, <3>2, <3>3, <3>4
  <2>4. CASE \E h \in Handoffs : ClearRead(s, h)
    <3> PICK h \in Handoffs : ClearRead(s, h)
      BY <2>4
    <3> DEFINE c == [op |-> "clearing", h |-> h]
    <3>1. c \in Call /\ c.op = "clearing"
      BY DEF Call
    <3>2. bearers' = bearers /\ call' = [call EXCEPT ![s] = c]
      BY DEF ClearRead, Start
    <3> HIDE DEF c
    <3> QED
      BY <2>1, <3>1, <3>2
  <2>5. CASE PickUpStale(s) \/ PickUpRaced(s) \/ ClearCommit(s) \/ Abandon(s)
    <3>1. bearers' = bearers /\ call' = [call EXCEPT ![s] = Idle]
      BY <2>5 DEF PickUpStale, PickUpRaced, ClearCommit, Abandon, Return
    <3> QED
      BY <2>1, <2>2, <3>1
  <2>6. CASE PickUpWin(s)
    <3> DEFINE g == call[s].h
    <3>1. /\ g \in Handoffs /\ ~cap[g].minted /\ cap'[g].minted
          /\ bearers' = bearers
          /\ call' = [call EXCEPT ![s] = [op |-> "granted", h |-> g]]
      BY <2>6, CallTarget DEF PickUpWin, TypeOK
    <3>2. \A t \in Sessions :
             call'[t] = IF t = s THEN [op |-> "granted", h |-> g] ELSE call[t]
      BY <3>1 DEF TypeOK
    <3>3. g \notin bearers /\ \A t \in Sessions : call[t].op = "granted" => call[t].h # g
      BY <3>1 DEF HandoffInv, CallsSound
    <3>4. \A t \in Sessions : call'[t].op = "granted" => cap'[call'[t].h].minted
      BY <3>1, <3>2, MintedStays, CallTarget DEF HandoffInv, CallsSound
    <3>5. \A h \in bearers' : cap'[h].minted
      BY <3>1, MintedStays DEF HandoffInv, CallsSound, TypeOK
    <3>6. OneSessionPerClaim'
      <4> SUFFICES ASSUME NEW h \in Handoffs, NEW t \in Sessions,
                          call'[t] = [op |-> "granted", h |-> h]
                   PROVE  /\ h \notin bearers
                          /\ \A u \in Sessions :
                                call'[u] = [op |-> "granted", h |-> h] => t = u
        BY <3>1 DEF OneSessionPerClaim
      <4>1. CASE h = g
        BY <3>2, <3>3, <4>1
      <4>2. CASE h # g
        <5>1. \A u \in Sessions : call'[u] = [op |-> "granted", h |-> h] =>
                                      call[u] = [op |-> "granted", h |-> h]
          BY <3>2, <4>2
        <5> QED
          BY <5>1 DEF HandoffInv, CallsSound, OneSessionPerClaim
      <4> QED
        BY <4>1, <4>2
    <3>7. \A t \in Sessions : call'[t].op = "claiming" => call'[t].trust = "operator"
      BY <3>2 DEF HandoffInv, CallsSound
    <3> QED
      BY <3>4, <3>5, <3>6, <3>7 DEF CallsSound
  <2>7. CASE Respond(s)
    <3> DEFINE g == call[s].h
    <3>1. /\ g \in Handoffs /\ cap' = cap /\ call[s].op = "granted"
          /\ bearers' = bearers \cup {g} /\ call' = [call EXCEPT ![s] = Idle]
      BY <2>7, CallTarget DEF Respond, Return, store
    <3>2. \A t \in Sessions : call'[t] = IF t = s THEN Idle ELSE call[t]
      BY <3>1 DEF TypeOK
    <3>3. call[s] = [op |-> "granted", h |-> g]
      BY <3>1 DEF TypeOK, Call, Idle
    <3>4. \A t \in Sessions, h \in Handoffs :
             call'[t] = [op |-> "granted", h |-> h] =>
                 t # s /\ call[t] = [op |-> "granted", h |-> h]
      BY <3>2 DEF Idle
    <3>5. OneSessionPerClaim'
      <4> SUFFICES ASSUME NEW h \in Handoffs, NEW t \in Sessions,
                          call'[t] = [op |-> "granted", h |-> h]
                   PROVE  /\ h \notin bearers'
                          /\ \A u \in Sessions :
                                call'[u] = [op |-> "granted", h |-> h] => t = u
        BY DEF OneSessionPerClaim
      <4>1. t # s /\ call[t] = [op |-> "granted", h |-> h]
        BY <3>4
      <4>2. \A u \in Sessions : call[u] = [op |-> "granted", h |-> h] => t = u
        BY <4>1 DEF HandoffInv, CallsSound, OneSessionPerClaim
      <4>3. h # g
        BY <3>3, <4>1, <4>2
      <4>4. h \notin bearers
        BY <4>1 DEF HandoffInv, CallsSound, OneSessionPerClaim
      <4> HIDE DEF g
      <4> QED
        BY <3>1, <3>4, <4>2, <4>3, <4>4
    <3>6. \A t \in Sessions :
             /\ call'[t].op = "claiming" => call'[t].trust = "operator"
             /\ call'[t].op = "granted" => cap'[call'[t].h].minted
      BY <3>1, <3>2 DEF Idle, HandoffInv, CallsSound
    <3>7. \A h \in bearers' : cap'[h].minted
      BY <3>1 DEF HandoffInv, CallsSound
    <3> QED
      BY <3>5, <3>6, <3>7 DEF CallsSound
  <2> QED
    BY <1>2, <2>3, <2>4, <2>5, <2>6, <2>7 DEF SessionNext
<1>3. ASSUME NEW o \in Operators, OperatorNext(o) PROVE CallsSound'
  BY <1>1, <1>3 DEF OperatorNext, ReviewPromote, ReviewCancel, ReviewRecover,
      ReviewRestore, ReviewQuarantine, EndCeremony, Show, EndReview,
      CommitPromote, CommitCancel, CommitRecover, CommitQuarantine, CommitRestore
<1> QED
  BY <1>1, <1>2, <1>3 DEF Next, CreateHandoff, Expire, SetClockBack, vars

\* Every step keeps what the ceremonies know true.
LEMMA ReviewsStep ==
    ASSUME TypeOK, HandoffInv, [Next]_vars
    PROVE  ReviewsSound'
<1>1. review' = review => ReviewsSound'
  BY DEF HandoffInv, ReviewsSound
<1>2. ASSUME NEW o \in Operators, OperatorNext(o) PROVE ReviewsSound'
  <2>1. ASSUME NEW r, review' = [review EXCEPT ![o] = r],
               r.cmd = "cancel" => r.row.status \in {"pending", "active"},
               r.cmd = "recover" => r.row.claimant # Nobody
        PROVE  ReviewsSound'
    <3>1. \A p \in Operators : review'[p] = IF p = o THEN r ELSE review[p]
      BY <2>1 DEF TypeOK
    <3> QED
      BY <2>1, <3>1 DEF HandoffInv, ReviewsSound
  <2>2. review' = [review EXCEPT ![o] = NoReview] => ReviewsSound'
    BY <2>1 DEF NoReview
  <2>3. ASSUME NEW h \in Handoffs,
               ReviewPromote(o, h) \/ ReviewCancel(o, h)
                 \/ ReviewRecover(o, h) \/ ReviewRestore(o, h)
        PROVE  ReviewsSound'
    <3>1. CASE ReviewPromote(o, h)
      BY <2>1, <3>1 DEF ReviewPromote, Show
    <3>2. CASE ReviewCancel(o, h)
      BY <2>1, <3>2 DEF ReviewCancel, Show
    <3>3. CASE ReviewRecover(o, h)
      BY <2>1, <3>3 DEF ReviewRecover, Orphaned, Show
    <3>4. CASE ReviewRestore(o, h)
      BY <2>1, <3>4 DEF ReviewRestore, Show
    <3> QED
      BY <2>3, <3>1, <3>2, <3>3, <3>4
  <2>4. CASE ReviewQuarantine(o)
    BY <2>1, <2>4 DEF ReviewQuarantine, Show
  <2>5. CASE \/ CommitPromote(o) \/ CommitCancel(o) \/ CommitRecover(o)
             \/ CommitQuarantine(o) \/ CommitRestore(o) \/ EndCeremony(o)
    BY <2>2, <2>5 DEF CommitPromote, CommitCancel, CommitRecover,
        CommitQuarantine, CommitRestore, EndCeremony, EndReview
  <2> QED
    BY <1>2, <2>3, <2>4, <2>5 DEF OperatorNext
<1>3. ASSUME NEW s \in Sessions, SessionNext(s) PROVE review' = review
  BY <1>3 DEF SessionNext, PickUpRead, ClearRead, PickUpStale, PickUpWin,
      PickUpRaced, Respond, ClearCommit, Abandon
<1> QED
  BY <1>1, <1>2, <1>3 DEF Next, CreateHandoff, Expire, SetClockBack, vars

\* The inductive invariant holds throughout.
THEOREM Invariance == Spec => []HandoffInv
<1>1. Init => HandoffInv
  <2> SUFFICES ASSUME Init PROVE HandoffInv
    OBVIOUS
  <2>1. ASSUME NEW h \in Handoffs
        PROVE  Sound(h, row[h], cap[h], receipts[h], image[h])
    <3>1. /\ cap[h] = NoCap /\ receipts[h] = <<>> /\ ~image[h].kept
          /\ row[h] \in IF h \in Legacy THEN LegacyRow ELSE {Absent}
      BY DEF Init, NoImage
    <3>2. CASE h \in Legacy
      BY <3>1, <3>2 DEF Sound, LegacyRow, Absent, NoCap
    <3>3. CASE h \notin Legacy
      BY <3>1, <3>3 DEF Sound, Absent, NoCap
    <3> QED
      BY <3>2, <3>3
  <2>2. CallsSound
    BY DEF Init, CallsSound, OneSessionPerClaim, Idle
  <2>3. ReviewsSound
    BY DEF Init, ReviewsSound, NoReview
  <2> QED
    BY <2>1, <2>2, <2>3 DEF HandoffInv
<1>2. TypeOK /\ HandoffInv /\ [Next]_vars => HandoffInv'
  BY SoundStep, CallsStep, ReviewsStep DEF HandoffInv
<1> QED
  BY <1>1, <1>2, TypeCorrect, PTL DEF Spec

-----------------------------------------------------------------------------
(* The safety properties, for every instance *)

\* An open capability and an owned claim are two sides of one row: see the
\* transactions of pick_up_handoff, clear_handoff and orphan recovery.
THEOREM ClaimSafety == Spec => []ClaimMatchesCapability
<1>1. TypeOK /\ HandoffInv => ClaimMatchesCapability
  <2> SUFFICES ASSUME TypeOK, HandoffInv, NEW h \in Handoffs
               PROVE  /\ Open(cap[h]) => /\ row[h].status = "active"
                                         /\ row[h].claimant = cap[h].caller
                      /\ (row[h].status = "active" /\ h \notin Legacy) => Open(cap[h])
    BY DEF ClaimMatchesCapability
  <2>1. Sound(h, row[h], cap[h], receipts[h], image[h])
    BY DEF HandoffInv
  <2>2. row[h].status \in {"absent", "pending", "active", "cleared"}
    BY DEF TypeOK, Row
  <2>3. ~Open(NoCap)
    BY DEF Open, NoCap
  <2>4. CASE row[h].status = "cleared"
    BY <2>1, <2>3, <2>4 DEF Sound, EndedBy, Open
  <2> QED
    BY <2>1, <2>2, <2>3, <2>4 DEF Sound
<1> QED
  BY <1>1, TypeCorrect, Invariance, PTL

\* However pickups of one handoff interleave, one session is granted it.
THEOREM SingleWinner == Spec => []OneSessionPerClaim
<1>1. HandoffInv => OneSessionPerClaim
  BY DEF HandoffInv, CallsSound
<1> QED
  BY <1>1, Invariance, PTL

\* Completion, cancellation and recovery close a handoff once between them, with
\* one receipt that agrees with the claimant and with the capability.
THEOREM ClosedOnce == Spec => []ClosedByOneReceipt
<1>1. TypeOK /\ HandoffInv => ClosedByOneReceipt
  <2> SUFFICES ASSUME TypeOK, HandoffInv, NEW h \in Handoffs
               PROVE  /\ receipts[h] # <<>> =>
                            row[h].status = "cleared" /\ Len(receipts[h]) = 1
                      /\ (row[h].status = "cleared" /\ h \notin Legacy)
                            => receipts[h] # <<>>
                      /\ \A i \in DOMAIN receipts[h] :
                           LET r == receipts[h][i] IN
                           /\ r.claimant = row[h].claimant
                           /\ (r.event = "cleared") <=> cap[h].consumed
                           /\ (r.event = "recovered" /\ cap[h].minted)
                                 <=> cap[h].recovered
                           /\ (r.event = "cancelled")
                                 => (r.claimant = Nobody /\ ~cap[h].minted)
    BY DEF ClosedByOneReceipt
  <2>1. Sound(h, row[h], cap[h], receipts[h], image[h])
    BY DEF HandoffInv
  <2>2. row[h].status \in {"absent", "pending", "active", "cleared"}
    BY DEF TypeOK, Row
  <2>3. CASE receipts[h] = <<>>
    BY <2>1, <2>2, <2>3 DEF Sound
  <2>4. CASE receipts[h] # <<>>
    <3>1. row[h].status = "cleared"
      BY <2>1, <2>2, <2>4 DEF Sound
    <3>2. PICK e \in {"cleared", "cancelled", "recovered"} :
              /\ receipts[h] = <<[event |-> e, claimant |-> row[h].claimant]>>
              /\ EndedBy(e, row[h], cap[h])
      BY <2>1, <2>4, <3>1 DEF Sound
    <3>3. Len(receipts[h]) = 1 /\ DOMAIN receipts[h] = {1}
          /\ receipts[h][1] = [event |-> e, claimant |-> row[h].claimant]
      BY <3>2
    <3>4. /\ (e = "cleared") <=> cap[h].consumed
          /\ (e = "recovered" /\ cap[h].minted) <=> cap[h].recovered
          /\ (e = "cancelled") => (row[h].claimant = Nobody /\ ~cap[h].minted)
      BY <3>2 DEF EndedBy, NoCap
    <3> QED
      BY <2>4, <3>1, <3>3, <3>4
  <2> QED
    BY <2>3, <2>4
<1> QED
  BY <1>1, TypeCorrect, Invariance, PTL

\* No handoff of this schema runs, or was completed, without the promotion of
\* an operator.
THEOREM Approval == Spec => []RunsOnlyApproved
<1>1. HandoffInv => RunsOnlyApproved
  BY DEF HandoffInv, Sound, RunsOnlyApproved
<1> QED
  BY <1>1, Invariance, PTL

\* Quarantine and restore never lose the row they relabel.
THEOREM QuarantineSafety == Spec => []QuarantineKeepsTheRow
<1>1. HandoffInv => QuarantineKeepsTheRow
  BY DEF HandoffInv, Sound, QuarantineKeepsTheRow
<1> QED
  BY <1>1, Invariance, PTL

\* A live claim ends by completion, an expired one by recovery, whatever the
\* clock and the other actors do between the reads and the transactions.
THEOREM ExpiryDecides == Spec => ExpiryDecidesWhoCloses
<1>1. ASSUME TypeOK, HandoffInv, [Next]_vars, NEW h \in Handoffs,
             Open(cap[h]), row'[h].status # "active"
      PROVE  IF h \in expired THEN cap'[h].recovered ELSE cap'[h].consumed
  <2>1. Sound(h, row[h], cap[h], receipts[h], image[h])
    BY <1>1 DEF HandoffInv
  <2>2. row[h].status \in {"absent", "pending", "active", "cleared"}
    BY <1>1 DEF TypeOK, Row
  <2>3. row[h].status = "active" /\ row[h].claimant \in Callers
    <3>1. ~Open(NoCap)
      BY DEF Open, NoCap
    <3>2. row[h].status # "cleared"
      BY <1>1, <2>1, <3>1 DEF Sound, EndedBy, Open
    <3> QED
      BY <1>1, <2>1, <2>2, <3>1, <3>2 DEF Sound
  <2>4. row'[h] # row[h]
    BY <1>1, <2>3
  <2>5. ASSUME NEW g \in Handoffs, NEW t \in Trusts, CreateHandoff(g, t) PROVE FALSE
    BY <1>1, <2>3, <2>4, <2>5 DEF CreateHandoff, Absent, TypeOK
  <2>6. ASSUME NEW s \in Sessions, SessionNext(s)
        PROVE  h \notin expired /\ cap'[h].consumed
    <3>1. CASE PickUpWin(s)
      BY <1>1, <2>3, <2>4, <3>1 DEF PickUpWin, Claimable, TypeOK
    <3>2. CASE ClearCommit(s)
      <4>1. h = call[s].h
        BY <1>1, <2>4, <3>2 DEF ClearCommit, Close, TypeOK
      <4> QED
        BY <1>1, <3>2, <4>1 DEF ClearCommit, Completable, TypeOK, Cap
    <3> QED
      BY <2>4, <2>6, <3>1, <3>2 DEF SessionNext, PickUpRead, ClearRead, PickUpStale,
          PickUpRaced, Respond, Abandon, store
  <2>7. ASSUME NEW o \in Operators, OperatorNext(o)
        PROVE  h \in expired /\ cap'[h].recovered
    <3>1. CASE CommitRecover(o)
      <4>1. h = review[o].h
        BY <1>1, <2>4, <3>1 DEF CommitRecover, Close, TypeOK
      <4> QED
        BY <1>1, <3>1, <4>1 DEF CommitRecover, Open, TypeOK, Cap
    <3>2. CASE CommitCancel(o)
      <4>1. h = review[o].h
        BY <1>1, <2>4, <3>2 DEF CommitCancel, Close, TypeOK
      <4> QED
        BY <2>3, <3>2, <4>1, HandoffsAssumption DEF CommitCancel, HandoffsAssumption
    <3>3. CASE CommitPromote(o)
      BY <1>1, <2>3, <2>4, <3>3 DEF CommitPromote, TypeOK
    <3>4. CASE CommitQuarantine(o)
      BY <2>3, <2>4, <3>4 DEF CommitQuarantine, Quarantinable
    <3>5. CASE CommitRestore(o)
      <4>1. h = review[o].h
        BY <1>1, <2>4, <3>5 DEF CommitRestore, TypeOK
      <4>2. image[h].kept
        BY <3>5, <4>1 DEF CommitRestore, Restorable
      <4> QED
        BY <2>1, <2>3, <4>2 DEF Sound
    <3> QED
      BY <2>4, <2>7, <3>1, <3>2, <3>3, <3>4, <3>5 DEF OperatorNext, ReviewPromote,
          ReviewCancel, ReviewRecover, ReviewRestore, ReviewQuarantine, EndCeremony,
          Show, store
  <2> QED
    BY <1>1, <2>4, <2>5, <2>6, <2>7 DEF Next, Expire, SetClockBack, vars, store
<1>2. TypeOK /\ HandoffInv /\ [Next]_vars =>
        [\A h \in Handoffs :
           (Open(cap[h]) /\ row'[h].status # "active")
               => IF h \in expired THEN cap'[h].recovered ELSE cap'[h].consumed]_vars
  BY <1>1
<1> QED
  BY <1>2, TypeCorrect, Invariance, PTL DEF Spec, ExpiryDecidesWhoCloses

-----------------------------------------------------------------------------
(* The steps of a row, and what follows for trust, receipts and quotas *)

\* A step that changes a row creates it, approves it, claims it, closes it, or
\* relabels it after its end; recall's index follows the creation alone.
LEMMA RowSteps ==
    ASSUME TypeOK, HandoffInv, [Next]_vars
    PROVE  \/ \E h \in Handoffs, t \in Trusts : CreateHandoff(h, t)
           \/ /\ index' = index
              /\ \A h \in Handoffs :
                    \/ row'[h] = row[h]
                    \/ /\ row[h].status = "pending" /\ row'[h].status = "pending"
                       /\ row'[h].trust = "operator"
                    \/ /\ row[h].status \in {"pending", "active"}
                       /\ row'[h].status \in {"active", "cleared"}
                       /\ row'[h].trust = row[h].trust
                    \/ /\ row[h].status = "cleared" /\ row'[h].status = "cleared"
                       /\ row'[h].trust = "operator" => image[h].kept
<1> DEFINE Moves(h) ==
               \/ row'[h] = row[h]
               \/ /\ row[h].status = "pending" /\ row'[h].status = "pending"
                  /\ row'[h].trust = "operator"
               \/ /\ row[h].status \in {"pending", "active"}
                  /\ row'[h].status \in {"active", "cleared"}
                  /\ row'[h].trust = row[h].trust
               \/ /\ row[h].status = "cleared" /\ row'[h].status = "cleared"
                  /\ row'[h].trust = "operator" => image[h].kept
           Goal == index' = index /\ \A h \in Handoffs : Moves(h)
<1>1. ASSUME NEW s \in Sessions, SessionNext(s) PROVE Goal
  <2>1. CASE PickUpWin(s)
    <3>1. call[s].h \in Handoffs /\ row[call[s].h].status = "pending" /\ index' = index
          /\ row' = [row EXCEPT ![call[s].h].status = "active",
                                ![call[s].h].claimant = RoleOf[s]]
      BY <2>1, CallTarget DEF PickUpWin, Claimable
    <3> QED
      BY <3>1 DEF TypeOK, Row
  <2>2. CASE ClearCommit(s)
    <3>1. call[s].h \in Handoffs /\ row[call[s].h].status = "active" /\ index' = index
          /\ row' = [row EXCEPT ![call[s].h].status = "cleared"]
      BY <2>2, CallTarget DEF ClearCommit, Completable, Close
    <3> QED
      BY <3>1 DEF TypeOK, Row
  <2>3. CASE ~PickUpWin(s) /\ ~ClearCommit(s)
    <3>1. row' = row /\ index' = index
      BY <1>1, <2>3 DEF SessionNext, PickUpRead, ClearRead, PickUpStale, PickUpRaced,
          Respond, Abandon, store
    <3> QED
      BY <3>1
  <2> QED
    BY <2>1, <2>2, <2>3
<1>2. ASSUME NEW o \in Operators, OperatorNext(o) PROVE Goal
  <2>1. CASE CommitPromote(o)
    <3>1. review[o].h \in Handoffs /\ row[review[o].h].status = "pending" /\ index' = index
          /\ row' = [row EXCEPT ![review[o].h].trust = "operator"]
      BY <2>1, ReviewTarget DEF CommitPromote, EndReview
    <3> QED
      BY <3>1 DEF TypeOK, Row
  <2>2. CASE CommitCancel(o) \/ CommitRecover(o)
    <3>1. review[o].h \in Handoffs /\ row[review[o].h].status \in {"pending", "active"}
          /\ index' = index /\ row' = [row EXCEPT ![review[o].h].status = "cleared"]
      BY <2>2, ReviewTarget
         DEF CommitCancel, CommitRecover, EndReview, Close, HandoffInv, ReviewsSound
    <3> QED
      BY <3>1 DEF TypeOK, Row
  <2>3. CASE CommitQuarantine(o)
    <3>1. index' = index
          /\ row' = [h \in Handoffs |-> IF h \in Quarantinable
                         THEN [row[h] EXCEPT !.trust = "ingested"] ELSE row[h]]
      BY <2>3 DEF CommitQuarantine, EndReview
    <3> QED
      BY <3>1 DEF Quarantinable, TypeOK, Row
  <2>4. CASE CommitRestore(o)
    <3>1. review[o].h \in Handoffs /\ image[review[o].h].kept /\ index' = index
          /\ row' = [row EXCEPT ![review[o].h].trust = "operator"]
      BY <2>4, ReviewTarget DEF CommitRestore, Restorable, EndReview
    <3>2. row[review[o].h].status = "cleared"
      BY <3>1 DEF HandoffInv, Sound
    <3> QED
      BY <3>1, <3>2 DEF TypeOK, Row
  <2>5. CASE row' = row /\ index' = index
    BY <2>5
  <2> HIDE DEF Goal
  <2> QED
    BY <1>2, <2>1, <2>2, <2>3, <2>4, <2>5 DEF OperatorNext, ReviewPromote, ReviewCancel,
        ReviewRecover, ReviewRestore, ReviewQuarantine, EndCeremony, Show, store
<1>3. ASSUME row' = row, index' = index PROVE Goal
  BY <1>3
<1>4. (\E h \in Handoffs, t \in Trusts : CreateHandoff(h, t)) \/ Goal
  <2> HIDE DEF Goal
  <2> QED
    BY <1>1, <1>2, <1>3 DEF Next, Expire, SetClockBack, vars, store
<1> QED
  BY <1>4

\* run_promote_handoff and the restore of a quarantine: operator trust is given
\* to work that is pending still, or given back.
THEOREM TrustIsReviewed == Spec => TrustRisesOnlyWhereReviewed
<1>1. ASSUME TypeOK, HandoffInv, [Next]_vars, NEW h \in Handoffs,
             row[h].trust # "operator", row'[h].trust = "operator"
      PROVE  row[h].status = "pending" \/ image[h].kept
  <2>1. ASSUME NEW g \in Handoffs, NEW t \in Trusts, CreateHandoff(g, t) PROVE FALSE
    <3>1. row'[h] = row[h] \/ row'[h].trust = Clamp(t)
      BY <1>1, <2>1 DEF CreateHandoff, TypeOK
    <3> QED
      BY <1>1, <3>1 DEF Clamp
  <2> QED
    BY <1>1, <2>1, RowSteps
<1>2. TypeOK /\ HandoffInv /\ [Next]_vars =>
        [\A h \in Handoffs :
           (row[h].trust # "operator" /\ row'[h].trust = "operator")
               => row[h].status = "pending" \/ image[h].kept]_vars
  BY <1>1
<1> QED
  BY <1>2, TypeCorrect, Invariance, PTL DEF Spec, TrustRisesOnlyWhereReviewed

\* The quotas hold because the count and the INSERT are one statement, and no
\* other step opens or stores a row; the rows stored are finitely many.
QuotaInv == QueueBounded /\ IsFiniteSet(StoredRows)

THEOREM QuotaIsKept == Spec => []QueueBounded
<1>1. Init => QuotaInv
  <2> SUFFICES ASSUME Init PROVE QuotaInv
    OBVIOUS
  <2>1. StoredRows \subseteq Legacy
    BY DEF Init, StoredRows, Exists, Absent
  <2>2. IsFiniteSet(StoredRows)
    BY <2>1, FS_Subset, HandoffsAssumption DEF HandoffsAssumption
  <2> QED
    BY <2>2 DEF Init, QuotaInv, QueueBounded
<1>2. TypeOK /\ HandoffInv /\ QuotaInv /\ [Next]_vars => QuotaInv'
  <2> SUFFICES ASSUME TypeOK, HandoffInv, QuotaInv, [Next]_vars PROVE QuotaInv'
    OBVIOUS
  <2>1. /\ OpenRows \subseteq StoredRows /\ IsFiniteSet(OpenRows)
        /\ Cardinality(OpenRows) \in Nat /\ Cardinality(StoredRows) \in Nat
        /\ OpenQuota \in Nat /\ TotalQuota \in Nat
    <3>1. OpenRows \subseteq StoredRows
      BY DEF OpenRows, StoredRows, Exists
    <3> QED
      BY <3>1, FS_Subset, FS_CardinalityType, HandoffsAssumption
         DEF QuotaInv, HandoffsAssumption
  <2>2. ASSUME NEW g \in Handoffs, NEW t \in Trusts, CreateHandoff(g, t) PROVE QuotaInv'
    <3>1. /\ row[g] = Absent /\ index' = index \cup {g}
          /\ row' = [row EXCEPT ![g] = [status |-> "pending", trust |-> Clamp(t),
                                        claimant |-> Nobody]]
          /\ Cardinality(OpenRows) < OpenQuota /\ Cardinality(StoredRows) < TotalQuota
      BY <2>2 DEF CreateHandoff, HasRoom
    <3>2. /\ OpenRows' = OpenRows \cup {g} /\ g \notin OpenRows
          /\ StoredRows' = StoredRows \cup {g} /\ g \notin StoredRows
      BY <3>1 DEF TypeOK, OpenRows, StoredRows, Exists, Absent
    <3>3. /\ Cardinality(OpenRows') = Cardinality(OpenRows) + 1
          /\ Cardinality(StoredRows') = Cardinality(StoredRows) + 1
          /\ IsFiniteSet(StoredRows')
      BY <2>1, <3>2, FS_AddElement DEF QuotaInv
    <3>4. index' = StoredRows'
      BY <3>1, <3>2 DEF QuotaInv, QueueBounded
    <3> QED
      BY <2>1, <3>1, <3>3, <3>4 DEF QuotaInv, QueueBounded
  <2>3. ASSUME index' = index,
               \A h \in Handoffs :
                  /\ row'[h].status = "absent" <=> row[h].status = "absent"
                  /\ row'[h].status \in {"pending", "active"}
                        => row[h].status \in {"pending", "active"}
        PROVE  QuotaInv'
    <3>1. StoredRows' = StoredRows /\ OpenRows' \subseteq OpenRows
      BY <2>3 DEF OpenRows, StoredRows, Exists
    <3>2. Cardinality(OpenRows') <= Cardinality(OpenRows)
          /\ Cardinality(OpenRows') \in Nat
      BY <2>1, <3>1, FS_Subset, FS_CardinalityType
    <3> QED
      BY <2>1, <2>3, <3>1, <3>2 DEF QuotaInv, QueueBounded
  <2> QED
    BY <2>2, <2>3, RowSteps
<1> QED
  BY <1>1, <1>2, TypeCorrect, Invariance, PTL DEF Spec, QuotaInv

\* A handoff that somebody has claimed or that is closed stays so.
Past(h) == row[h].status \in {"active", "cleared"}

\* What a pickup that will lose relies on: a handoff it met past pending stays
\* past it, and one that was approved leaves pending by a claim or a closing.
LossInv ==
    /\ \A s \in Sessions :
          /\ call[s].op = "stale" => Past(call[s].h)
          /\ call[s].op = "claiming" =>
                \/ Past(call[s].h)
                \/ row[call[s].h].status = "pending" /\ row[call[s].h].trust = "operator"
    /\ NoPhantomConflict

\* The receipt of a loss is of a handoff that was past pending by then.
LEMMA LossIsReal ==
    ASSUME TypeOK, LossInv, NEW s \in Sessions, Past(call[s].h), call[s].h \in Handoffs,
           call[s].op \in {"stale", "claiming"},
           NEW reason \in {"stale_claim", "raced_claim"}, RecordLoss(s, reason), row' = row
    PROVE  NoPhantomConflict'
<1> DEFINE id == [target |-> call[s].h, by |-> RoleOf[s], reason |-> reason,
                  trust |-> call[s].trust]
<1>1. PICK k : /\ k \in {Conflicts!Exact(id), Conflicts!Overflow("handoff")}
               /\ ledger' = [ledger EXCEPT ![k] = @ + 1]
  <2>1. Conflicts!KeyFor(ledger, id) = Conflicts!Exact(id)
        \/ Conflicts!KeyFor(ledger, id) = Conflicts!Overflow([c \in Conflict |-> "handoff"][id])
    BY DEF Conflicts!KeyFor
  <2>2. id \in Conflict
    <3>1. call[s].trust \in Trusts
      BY DEF TypeOK, Call, Idle
    <3>2. RoleOf[s] \in Callers
      BY HandoffsAssumption DEF HandoffsAssumption
    <3> QED
      BY <3>1, <3>2 DEF Conflict
  <2>3. [c \in Conflict |-> "handoff"][id] = "handoff"
    BY <2>2
  <2>4. ledger' = [ledger EXCEPT ![Conflicts!KeyFor(ledger, id)] = @ + 1]
    BY DEF RecordLoss, Conflicts!RecordConflict, Conflicts!Upsert
  <2> QED
    BY <2>1, <2>3, <2>4
<1> SUFFICES ASSUME NEW c \in Conflict, ledger'[Conflicts!Exact(c)] > 0
             PROVE  row[c.target].status \in {"active", "cleared"}
  BY DEF NoPhantomConflict
<1>2. CASE c = id
  BY <1>2 DEF Past
<1>3. CASE c # id
  <2>1. k # Conflicts!Exact(c)
    BY <1>1, <1>3 DEF Conflicts!Exact, Conflicts!Overflow
  <2>2. ledger'[Conflicts!Exact(c)] = ledger[Conflicts!Exact(c)]
    BY <1>1, <2>1 DEF TypeOK, Conflicts!Ledgers, Conflicts!RowKeys, Conflicts!ExactKeys
  <2> QED
    BY <2>2 DEF LossInv, NoPhantomConflict
<1> QED
  BY <1>2, <1>3

\* INV-2, both halves: the receipts of closings and those of lost pickups.
THEOREM ReceiptsAreTrue == Spec => []ReceiptsTellTheTruth
<1>1. Init => LossInv
  BY DEF Init, LossInv, NoPhantomConflict, Idle, Conflicts!EmptyLedger,
         Conflicts!RowKeys, Conflicts!ExactKeys
<1>2. TypeOK /\ HandoffInv /\ LossInv /\ [Next]_vars => LossInv'
  <2> SUFFICES ASSUME TypeOK, HandoffInv, LossInv, [Next]_vars PROVE LossInv'
    OBVIOUS
  <2>1. ASSUME NEW h \in Handoffs
        PROVE  /\ Past(h) => Past(h)'
               /\ row[h].status = "pending" /\ row[h].trust = "operator" =>
                     Past(h)' \/ (row'[h].status = "pending" /\ row'[h].trust = "operator")
    <3>1. ASSUME NEW g \in Handoffs, NEW t \in Trusts, CreateHandoff(g, t),
                 row[h].status # "absent"
          PROVE  row'[h] = row[h]
      BY <3>1 DEF CreateHandoff, TypeOK, Absent
    <3> QED
      BY <3>1, RowSteps DEF Past
  <2>2. ASSUME ledger' = ledger PROVE NoPhantomConflict'
    BY <2>1, <2>2 DEF LossInv, NoPhantomConflict, Past, Conflict
  <2>3. NoPhantomConflict'
    <3>1. ASSUME NEW s \in Sessions, PickUpStale(s) PROVE NoPhantomConflict'
      BY <3>1, CallTarget, LossIsReal DEF PickUpStale, LossInv
    <3>2. ASSUME NEW s \in Sessions, PickUpRaced(s) PROVE NoPhantomConflict'
      <4>1. Past(call[s].h)
        BY <3>2 DEF PickUpRaced, Claimable, LossInv, HandoffInv, CallsSound
      <4> QED
        BY <3>2, <4>1, CallTarget, LossIsReal DEF PickUpRaced
    <3>3. ledger' = ledger \/ \E s \in Sessions : PickUpStale(s) \/ PickUpRaced(s)
      BY DEF Next, CreateHandoff, SessionNext, PickUpRead, ClearRead, PickUpWin, Respond,
          ClearCommit, Abandon, OperatorNext, ReviewPromote, ReviewCancel, ReviewRecover,
          ReviewRestore, ReviewQuarantine, CommitPromote, CommitCancel, CommitRecover,
          CommitQuarantine, CommitRestore, EndCeremony, EndReview, Show, Expire,
          SetClockBack, vars, store
    <3> QED
      BY <2>2, <3>1, <3>2, <3>3
  <2>4. ASSUME NEW s \in Sessions, NEW h \in Handoffs, PickUpRead(s, h)
        PROVE  LossInv'
    <3> DEFINE c == [op |-> IF row[h].status = "pending" THEN "claiming" ELSE "stale",
                     h |-> h, trust |-> row[h].trust]
    <3>1. \A t \in Sessions : call'[t] = IF t = s THEN c ELSE call[t]
      BY <2>4 DEF PickUpRead, Start, TypeOK
    <3>2. /\ row' = row /\ c.h = h
          /\ c.op = "stale" => Past(h)
          /\ c.op = "claiming" => row[h].status = "pending" /\ row[h].trust = "operator"
      BY <2>4 DEF PickUpRead, Exists, Past, store, TypeOK, Row
    <3> HIDE DEF c
    <3> QED
      BY <2>3, <3>1, <3>2 DEF LossInv, Past
  <2>5. ASSUME \A s \in Sessions :
                  call'[s] = call[s] \/ call'[s].op \notin {"stale", "claiming"}
        PROVE  LossInv'
    <3>1. ASSUME NEW s \in Sessions, call[s].op \in {"stale", "claiming"}
          PROVE  /\ call[s].op = "stale" => row'[call[s].h].status \in {"active", "cleared"}
                 /\ call[s].op = "claiming" =>
                       \/ row'[call[s].h].status \in {"active", "cleared"}
                       \/ /\ row'[call[s].h].status = "pending"
                          /\ row'[call[s].h].trust = "operator"
      BY <2>1, <3>1, CallTarget DEF LossInv, Past
    <3> QED
      BY <2>3, <2>5, <3>1 DEF LossInv, Past
  <2>6. \/ \E s \in Sessions, h \in Handoffs : PickUpRead(s, h)
        \/ \A s \in Sessions :
              call'[s] = call[s] \/ call'[s].op \notin {"stale", "claiming"}
    <3>1. ASSUME NEW s \in Sessions, SessionNext(s),
                 ~ \E h \in Handoffs : PickUpRead(s, h)
          PROVE  \E c : c.op \notin {"stale", "claiming"} /\ call' = [call EXCEPT ![s] = c]
      <4>1. CASE \E h \in Handoffs : ClearRead(s, h)
        <5>1. PICK h \in Handoffs : call' = [call EXCEPT ![s] = [op |-> "clearing", h |-> h]]
          BY <4>1 DEF ClearRead, Start
        <5> QED
          BY <5>1
      <4>2. CASE PickUpWin(s)
        <5>1. call' = [call EXCEPT ![s] = [op |-> "granted", h |-> call[s].h]]
          BY <4>2 DEF PickUpWin
        <5> QED
          BY <5>1
      <4>3. CASE Return(s)
        BY <4>3 DEF Return, Idle
      <4> QED
        BY <3>1, <4>1, <4>2, <4>3
           DEF SessionNext, PickUpStale, PickUpRaced, Respond, ClearCommit, Abandon
    <3>2. call' = call \/ \E s \in Sessions : SessionNext(s)
      BY DEF Next, CreateHandoff, OperatorNext, ReviewPromote, ReviewCancel, ReviewRecover,
          ReviewRestore, ReviewQuarantine, CommitPromote, CommitCancel, CommitRecover,
          CommitQuarantine, CommitRestore, EndCeremony, EndReview, Show, Expire,
          SetClockBack, vars
    <3> QED
      BY <3>1, <3>2 DEF TypeOK
  <2> QED
    BY <2>4, <2>5, <2>6
<1>3. NoPhantomConflict /\ ClosedByOneReceipt => ReceiptsTellTheTruth
  BY DEF ReceiptsTellTheTruth
<1> QED
  BY <1>1, <1>2, <1>3, TypeCorrect, Invariance, ClosedOnce, PTL DEF Spec, LossInv

-----------------------------------------------------------------------------
(* Refinement of HandoffLifecycle *)

\* The phase of a handoff depends on its row and its receipts alone.
LEMMA PhaseFrame ==
    ASSUME NEW h \in Handoffs, row'[h].status = row[h].status,
           row[h].status = "pending" => row'[h].trust = row[h].trust,
           receipts'[h] = receipts[h]
    PROVE  PhaseOf(h)' = PhaseOf(h)
BY DEF PhaseOf

\* Tables that keep their rows keep the abstract state.
LEMMA Stutter ==
    ASSUME \A h \in Handoffs :
               /\ row'[h].status = row[h].status
               /\ row'[h].claimant = row[h].claimant
               /\ (row[h].status = "pending" => row'[h].trust = row[h].trust)
               /\ receipts'[h] = receipts[h]
    PROVE  UNCHANGED Lifecycle!vars
<1>1. ASSUME NEW h \in Handoffs PROVE PhaseOf(h)' = PhaseOf(h)
  BY PhaseFrame
<1>2. [h \in Handoffs |-> PhaseOf(h)]' = [h \in Handoffs |-> PhaseOf(h)]
  BY <1>1
<1>3. [h \in Handoffs |-> row[h].claimant]' = [h \in Handoffs |-> row[h].claimant]
  OBVIOUS
<1> QED
  BY <1>2, <1>3 DEF Lifecycle!vars

\* A step that changes one handoff is an abstract move of that handoff.
LEMMA OneMove ==
    ASSUME NEW g \in Handoffs,
           \A h \in Handoffs \ {g} : row'[h] = row[h] /\ receipts'[h] = receipts[h],
           NEW from, NEW to, PhaseOf(g) \in from, PhaseOf(g)' = to
    PROVE  Lifecycle!Move(g, from, to)
<1>1. \A h \in Handoffs \ {g} : PhaseOf(h)' = PhaseOf(h)
  BY PhaseFrame
<1> QED
  BY <1>1 DEF Lifecycle!Move

\* Holders change in a claim only.
LEMMA HolderFrame ==
    ASSUME \A h \in Handoffs : row'[h].claimant = row[h].claimant
    PROVE  [h \in Handoffs |-> row[h].claimant]'
               = [h \in Handoffs |-> row[h].claimant]
OBVIOUS

\* Closing a handoff ends its life by that event.
LEMMA CloseMove ==
    ASSUME TypeOK, HandoffInv, NEW g \in Handoffs,
           NEW e \in {"cleared", "cancelled", "recovered"}, Close(g, e),
           row[g].status \in {"pending", "active"}, NEW from, PhaseOf(g) \in from
    PROVE  /\ Lifecycle!Move(g, from, IF e = "cleared" THEN "completed" ELSE e)
           /\ [h \in Handoffs |-> row[h].claimant]'
                  = [h \in Handoffs |-> row[h].claimant]
<1>1. receipts[g] = <<>>
  BY DEF HandoffInv, Sound
<1>2. /\ row'[g] = [row[g] EXCEPT !.status = "cleared"]
      /\ receipts'[g] = Append(<<>>, [event |-> e, claimant |-> row[g].claimant])
      /\ \A h \in Handoffs \ {g} : row'[h] = row[h] /\ receipts'[h] = receipts[h]
  BY <1>1 DEF Close, TypeOK
<1>3. receipts'[g] = <<[event |-> e, claimant |-> row[g].claimant]>>
  BY <1>2
<1>4. receipts'[g] # <<>> /\ receipts'[g][1].event = e
  BY <1>3
<1>5. row'[g].status = "cleared" /\ row'[g].claimant = row[g].claimant
  BY <1>2 DEF TypeOK, Row
<1>6. PhaseOf(g)' = IF e = "cleared" THEN "completed" ELSE e
  BY <1>4, <1>5 DEF PhaseOf
<1>7. \A h \in Handoffs : row'[h].claimant = row[h].claimant
  BY <1>2, <1>5
<1> QED
  BY <1>2, <1>6, <1>7, OneMove, HolderFrame

\* Every step is a step of the abstract life of one handoff, or none.
LEMMA LifecycleStep ==
    ASSUME TypeOK, HandoffInv, [Next]_vars
    PROVE  [Lifecycle!Next]_(Lifecycle!vars)
<1>1. UNCHANGED <<row, receipts>> => UNCHANGED Lifecycle!vars
  BY Stutter
<1>2. ASSUME NEW g \in Handoffs, NEW t \in Trusts, CreateHandoff(g, t)
      PROVE  Lifecycle!Next
  <2>1. /\ row[g].status = "absent" /\ row[g].claimant = Nobody
        /\ row'[g] = [status |-> "pending", trust |-> Clamp(t), claimant |-> Nobody]
        /\ \A h \in Handoffs \ {g} : row'[h] = row[h]
        /\ receipts' = receipts
    BY <1>2 DEF CreateHandoff, TypeOK, Absent
  <2>2. PhaseOf(g) = "unused" /\ PhaseOf(g)' = "proposed"
    BY <2>1 DEF PhaseOf, Clamp
  <2>3. \A h \in Handoffs : row'[h].claimant = row[h].claimant
    BY <2>1
  <2> QED
    BY <2>1, <2>2, <2>3, OneMove, HolderFrame DEF Lifecycle!Next, Lifecycle!Propose
<1>3. ASSUME NEW s \in Sessions, SessionNext(s)
      PROVE  Lifecycle!Next \/ UNCHANGED Lifecycle!vars
  <2>1. CASE PickUpWin(s)
    <3>1. PICK g \in Handoffs : g = call[s].h
      BY <2>1, CallTarget DEF PickUpWin
    <3>2. /\ row[g].status = "pending" /\ row[g].trust = "operator"
          /\ row'[g] = [row[g] EXCEPT !.status = "active", !.claimant = RoleOf[s]]
          /\ row' = [row EXCEPT ![g].status = "active", ![g].claimant = RoleOf[s]]
          /\ receipts' = receipts
      BY <2>1, <3>1 DEF PickUpWin, Claimable, TypeOK, HandoffInv, CallsSound
    <3>3. row'[g].status = "active" /\ row'[g].claimant = RoleOf[s]
      BY <3>1, <3>2 DEF TypeOK, Row
    <3>4. PhaseOf(g) = "approved" /\ PhaseOf(g)' = "claimed"
      BY <3>2, <3>3 DEF PhaseOf
    <3>5. \A h \in Handoffs \ {g} : row'[h] = row[h] /\ receipts'[h] = receipts[h]
      BY <3>2 DEF TypeOK
    <3>6. [h \in Handoffs |-> row[h].claimant]'
            = [[h \in Handoffs |-> row[h].claimant] EXCEPT ![g] = RoleOf[s]]
      BY <3>3, <3>5
    <3>7. RoleOf[s] \in Callers
      BY HandoffsAssumption DEF HandoffsAssumption
    <3>8. Lifecycle!Move(g, {"approved"}, "claimed")
      BY <3>1, <3>4, <3>5, OneMove
    <3> QED
      BY <3>6, <3>7, <3>8 DEF Lifecycle!Next, Lifecycle!Claim
  <2>2. CASE ClearCommit(s)
    <3> PICK g \in Handoffs : g = call[s].h
      BY <2>2, CallTarget DEF ClearCommit
    <3>1. /\ row[g].status = "active" /\ Close(g, "cleared")
          /\ row[g].claimant \in Callers
      BY <2>2, HandoffsAssumption
         DEF ClearCommit, Completable, HandoffsAssumption
    <3>2. PhaseOf(g) = "claimed"
      BY <3>1 DEF PhaseOf
    <3> QED
      BY <3>1, <3>2, CloseMove DEF Lifecycle!Next, Lifecycle!Complete
  <2> QED
    BY <1>1, <1>3, <2>1, <2>2 DEF SessionNext, PickUpRead, ClearRead, PickUpStale,
        PickUpRaced, Respond, Abandon, store
<1>4. ASSUME NEW o \in Operators, OperatorNext(o)
      PROVE  Lifecycle!Next \/ UNCHANGED Lifecycle!vars
  <2>1. CASE CommitPromote(o)
    <3> PICK g \in Handoffs : g = review[o].h
      BY <2>1, ReviewTarget DEF CommitPromote
    <3>1. /\ row[g].status = "pending" /\ receipts' = receipts
          /\ row'[g] = [row[g] EXCEPT !.trust = "operator"]
          /\ \A h \in Handoffs \ {g} : row'[h] = row[h]
      BY <2>1 DEF CommitPromote, TypeOK
    <3>2. /\ row'[g].status = "pending" /\ row'[g].trust = "operator"
          /\ row'[g].claimant = row[g].claimant
      BY <3>1 DEF TypeOK, Row
    <3>3. \A h \in Handoffs : row'[h].claimant = row[h].claimant
      BY <3>1, <3>2
    <3>4. CASE row[g].trust = "operator"
      BY <3>1, <3>2, <3>3, <3>4, Stutter
    <3>5. CASE row[g].trust # "operator"
      <4>1. PhaseOf(g) = "proposed" /\ PhaseOf(g)' = "approved"
        BY <3>1, <3>2, <3>5 DEF PhaseOf
      <4> QED
        BY <3>1, <3>3, <4>1, OneMove, HolderFrame DEF Lifecycle!Next, Lifecycle!Approve
    <3> QED
      BY <3>4, <3>5
  <2>2. CASE CommitCancel(o)
    <3> PICK g \in Handoffs : g = review[o].h
      BY <2>2, ReviewTarget DEF CommitCancel
    <3>1. /\ row[g].status \in {"pending", "active"}
          /\ row[g].claimant = Nobody /\ Close(g, "cancelled")
      BY <2>2 DEF CommitCancel, HandoffInv, ReviewsSound
    <3>2. PhaseOf(g) \in {"proposed", "approved", "claimed"}
      BY <3>1 DEF PhaseOf
    <3> QED
      BY <3>1, <3>2, CloseMove DEF Lifecycle!Next, Lifecycle!Cancel
  <2>3. CASE CommitRecover(o)
    <3> PICK g \in Handoffs : g = review[o].h
      BY <2>3, ReviewTarget DEF CommitRecover
    <3>1. /\ row[g].status = "active" /\ Close(g, "recovered")
          /\ row[g].claimant # Nobody
      BY <2>3 DEF CommitRecover, HandoffInv, ReviewsSound
    <3>2. row[g].claimant \in Callers
      BY <3>1 DEF TypeOK, Row, Claimants
    <3>3. PhaseOf(g) = "claimed"
      BY <3>1 DEF PhaseOf
    <3> QED
      BY <3>1, <3>2, <3>3, CloseMove DEF Lifecycle!Next, Lifecycle!Recover
  <2>4. CASE CommitQuarantine(o)
    <3>1. \A h \in Handoffs : /\ row'[h].status = row[h].status
                               /\ row'[h].claimant = row[h].claimant
                               /\ row[h].status = "pending" =>
                                      row'[h].trust = row[h].trust
      BY <2>4 DEF CommitQuarantine, Quarantinable, TypeOK, Row
    <3> QED
      BY <2>4, <3>1, Stutter DEF CommitQuarantine
  <2>5. CASE CommitRestore(o)
    <3> PICK g \in Handoffs : g = review[o].h
      BY <2>5, ReviewTarget DEF CommitRestore
    <3>1. /\ image[g].kept
          /\ row' = [row EXCEPT ![g].trust = "operator"] /\ receipts' = receipts
      BY <2>5 DEF CommitRestore, Restorable
    <3>2. row[g].status = "cleared"
      BY <3>1 DEF HandoffInv, Sound
    <3>3. \A h \in Handoffs : /\ row'[h].status = row[h].status
                               /\ row'[h].claimant = row[h].claimant
                               /\ row[h].status = "pending" =>
                                      row'[h].trust = row[h].trust
      BY <3>1, <3>2 DEF TypeOK, Row
    <3> QED
      BY <3>1, <3>3, Stutter
  <2> QED
    BY <1>1, <1>4, <2>1, <2>2, <2>3, <2>4, <2>5 DEF OperatorNext, ReviewPromote,
        ReviewCancel, ReviewRecover, ReviewRestore, ReviewQuarantine, EndCeremony,
        Show, store
<1> QED
  BY <1>1, <1>2, <1>3, <1>4 DEF Next, Expire, SetClockBack, vars, store

\* The queue implements HandoffLifecycle.
THEOREM Refinement == Spec => ImplementsLifecycle
<1>1. Init => Lifecycle!Init
  <2> SUFFICES ASSUME Init PROVE Lifecycle!Init
    OBVIOUS
  <2>1. \A h \in Handoffs : PhaseOf(h) \in {"unused", "proposed", "approved",
                                            "claimed", "archived"}
    BY DEF Init, PhaseOf, Row
  <2>2. \A h \in Handoffs : row[h].claimant \in Callers \cup {Nobody}
    BY DEF Init, Row, Claimants
  <2> QED
    BY <2>1, <2>2 DEF Lifecycle!Init
<1>2. TypeOK /\ HandoffInv /\ [Next]_vars => [Lifecycle!Next]_(Lifecycle!vars)
  BY LifecycleStep
<1> QED
  BY <1>1, <1>2, TypeCorrect, Invariance, PTL
     DEF Spec, ImplementsLifecycle, Lifecycle!Spec

=============================================================================

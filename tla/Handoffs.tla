------------------------------ MODULE Handoffs ------------------------------
(***************************************************************************)
(* The handoff queue: Claude.ai dispatches work, an operator promotes the  *)
(* exact row at a terminal, a consumer session (role cc or codex) claims   *)
(* it and completes it with the bearer capability the claim returned, and  *)
(* an operator cancels, recovers, quarantines or restores rows.            *)
(*                                                                         *)
(* The actors are processes over one SQLite database (WAL).  A SELECT is   *)
(* one atomic read; a write transaction is one atomic step, whatever       *)
(* statements it runs; between the read of a call and its transaction any  *)
(* other actor may move, and the process may die.  A refused call that     *)
(* writes nothing is no step.                                              *)
(*                                                                         *)
(* Abstracted: the payload and the timestamps of a row never change after  *)
(* the steps that set them, so a row is its status, trust and claimant,    *)
(* and the SHA-256 digest of a row is the row itself.  handoff_id is the   *)
(* primary key of the capability table, so a bearer secret is named by its *)
(* handoff.                                                                *)
(***************************************************************************)
EXTENDS Integers, FiniteSets, Sequences

CONSTANTS Handoffs,         \* the handoff ids
          Legacy,           \* those an older schema may have stored
          Callers,          \* the consumer roles: cc, codex
          Sessions,         \* consumer sessions, each with one call in flight
          RoleOf,           \* the principal a session is bound to
          Operators,        \* operator terminals running a ceremony
          Nobody,           \* claimed_by IS NULL
          OpenQuota,        \* config.HANDOFF_OPEN_QUOTA
          TotalQuota,       \* config.HANDOFF_TOTAL_ROWS_QUOTA
          MaxIdentities,    \* config.WRITE_CONFLICT_MAX_IDENTITIES
          MaxOccurrences,   \* bound of the model: repeats of one conflict
          MaxClockBacks     \* bound of the model: times the clock is set back

ASSUME HandoffsAssumption ==
    /\ Legacy \subseteq Handoffs /\ IsFiniteSet(Legacy)
    /\ RoleOf \in [Sessions -> Callers]
    /\ Nobody \notin Callers
    /\ OpenQuota \in Nat /\ TotalQuota \in Nat
    /\ MaxIdentities \in Nat /\ MaxOccurrences \in Nat /\ MaxClockBacks \in Nat

VARIABLES row,              \* pending_handoffs
          cap,              \* handoff_session_capabilities
          expired,          \* capabilities whose expires_at is past
          receipts,         \* lifecycle, cancellation and orphan receipts
          image,            \* handoff_trust_quarantine
          index,            \* full-text entries of handoffs
          ledger,           \* write_conflicts
          bearers,          \* capability secrets that left the server
          call,             \* what a session's call in flight remembers
          review,           \* what an operator's ceremony was shown
          clockBacks

store == <<row, cap, receipts, image, index, ledger>>
vars == <<store, expired, bearers, call, review, clockBacks>>

-----------------------------------------------------------------------------
(* Data *)

Trusts == {"operator", "agent", "ingested"}
Claimants == Callers \cup {Nobody}

Row == [status : {"absent", "pending", "active", "cleared"},
        trust : Trusts, claimant : Claimants]
Absent == [status |-> "absent", trust |-> "agent", claimant |-> Nobody]

\* One capability row per handoff: consumed_at and recovered_at as flags.
Cap == [minted : BOOLEAN, caller : Claimants,
        consumed : BOOLEAN, recovered : BOOLEAN]
NoCap == [minted |-> FALSE, caller |-> Nobody,
          consumed |-> FALSE, recovered |-> FALSE]
Open(c) == c.minted /\ ~c.consumed /\ ~c.recovered

\* The three receipt tables, in the order their rows were written.
Receipt == [event : {"cleared", "cancelled", "recovered"}, claimant : Claimants]

\* The recovery image of a quarantined row.
Image == [kept : BOOLEAN, row : Row, restored : BOOLEAN]
NoImage == [kept |-> FALSE, row |-> Absent, restored |-> FALSE]

\* What a call or a ceremony read before its transaction.
Idle == [op |-> "idle"]
Call == {Idle} \cup [op : {"claiming", "stale"}, h : Handoffs, trust : Trusts]
               \cup [op : {"granted", "clearing"}, h : Handoffs]
NoReview == [cmd |-> "none"]
Review == {NoReview}
    \cup [cmd : {"promote", "cancel"}, h : Handoffs, row : Row]
    \cup [cmd : {"recover"}, h : Handoffs, row : Row, cap : Cap]
    \cup [cmd : {"quarantine"}, rows : UNION {[S -> Row] : S \in SUBSET Handoffs}]
    \cup [cmd : {"restore"}, h : Handoffs, image : Image]

Exists(h) == row[h].status # "absent"
OpenRows == {h \in Handoffs : row[h].status \in {"pending", "active"}}
StoredRows == {h \in Handoffs : Exists(h)}

\* The evidence of a refused pickup.
Conflict == [target : Handoffs, by : Callers,
             reason : {"stale_claim", "raced_claim"}, trust : Trusts]
Conflicts == INSTANCE ConflictLedger WITH
                 Identities <- Conflict, Surfaces <- {"handoff"},
                 SurfaceOf <- [c \in Conflict |-> "handoff"]

TypeOK ==
    /\ row \in [Handoffs -> Row]
    /\ cap \in [Handoffs -> Cap]
    /\ expired \subseteq Handoffs
    /\ receipts \in [Handoffs -> Seq(Receipt)]
    /\ image \in [Handoffs -> Image]
    /\ index \subseteq Handoffs
    /\ ledger \in Conflicts!Ledgers
    /\ bearers \subseteq Handoffs
    /\ call \in [Sessions -> Call]
    /\ review \in [Operators -> Review]
    /\ clockBacks \in Nat

\* Rows an older version can have left: claimed before claimants or
\* capabilities existed, closed before closings left receipts, of any trust.
LegacyRow ==
    {Absent} \cup [status : {"pending"}, trust : Trusts, claimant : {Nobody}]
             \cup [status : {"active", "cleared"}, trust : Trusts,
                   claimant : Claimants]

Init ==
    /\ row \in [Handoffs -> Row]
    /\ \A h \in Handoffs : row[h] \in IF h \in Legacy THEN LegacyRow ELSE {Absent}
    /\ Cardinality(OpenRows) <= OpenQuota /\ Cardinality(StoredRows) <= TotalQuota
    /\ cap = [h \in Handoffs |-> NoCap]
    /\ expired = {}
    /\ receipts = [h \in Handoffs |-> <<>>]
    /\ image = [h \in Handoffs |-> NoImage]
    /\ index = StoredRows
    /\ ledger = Conflicts!EmptyLedger
    /\ bearers = {}
    /\ call = [s \in Sessions |-> Idle]
    /\ review = [o \in Operators |-> NoReview]
    /\ clockBacks = 0

-----------------------------------------------------------------------------
(* Claude.ai *)

Clamp(trust) == IF trust = "operator" THEN "agent" ELSE trust

\* Mutant: the quota counts only the rows nobody has claimed yet.
HasRoom_PendingOnly ==
    /\ Cardinality({h \in Handoffs : row[h].status = "pending"}) < OpenQuota
    /\ Cardinality(StoredRows) < TotalQuota
HasRoom ==
    /\ Cardinality(OpenRows) < OpenQuota
    /\ Cardinality(StoredRows) < TotalQuota

\* One INSERT ... SELECT ... WHERE both counts are below their quotas, and the
\* full-text entry in the same transaction.
CreateHandoff(h, trust) ==
    /\ row[h] = Absent
    /\ HasRoom
    /\ row' = [row EXCEPT ![h] = [status |-> "pending", trust |-> Clamp(trust),
                                  claimant |-> Nobody]]
    /\ index' = index \cup {h}
    /\ UNCHANGED <<cap, expired, receipts, image, ledger, bearers, call, review,
                   clockBacks>>

-----------------------------------------------------------------------------
(* Consumer sessions *)

Start(s, c) ==
    /\ call[s] = Idle
    /\ call' = [call EXCEPT ![s] = c]

Return(s) == call' = [call EXCEPT ![s] = Idle]

\* Mutant: work that awaits approval is refused as a stale claim.
PickUpRead_GateAsStale(s, h) ==
    /\ Exists(h)
    /\ Start(s, [op |-> IF row[h].status = "pending" /\ row[h].trust = "operator"
                       THEN "claiming" ELSE "stale",
                 h |-> h, trust |-> row[h].trust])
    /\ UNCHANGED <<store, expired, bearers, review, clockBacks>>
\* pick_up_handoff, up to its UPDATE: the SELECT, the status check and the
\* provenance gate.  A pending row of lesser trust is refused here.
PickUpRead(s, h) ==
    /\ Exists(h)
    /\ row[h].status = "pending" => row[h].trust = "operator"
    /\ Start(s, [op |-> IF row[h].status = "pending" THEN "claiming" ELSE "stale",
                 h |-> h, trust |-> row[h].trust])
    /\ UNCHANGED <<store, expired, bearers, review, clockBacks>>

RecordLoss(s, reason) ==
    LET id == [target |-> call[s].h, by |-> RoleOf[s], reason |-> reason,
               trust |-> call[s].trust]
    IN  /\ ledger[Conflicts!KeyFor(ledger, id)] < MaxOccurrences
        /\ ledger' = Conflicts!RecordConflict(ledger, id)

\* The row was not pending when it was read: a receipt, then the refusal.
PickUpStale(s) ==
    /\ call[s].op = "stale"
    /\ RecordLoss(s, "stale_claim")
    /\ Return(s)
    /\ UNCHANGED <<row, cap, expired, receipts, image, index, bearers, review,
                   clockBacks>>

\* The WHERE clause of the claim: still pending, still of the trust it had.
Claimable(s) ==
    LET r == row[call[s].h] IN r.status = "pending" /\ r.trust = call[s].trust

\* Mutant: no WHERE clause but the id, and INSERT OR REPLACE of the capability.
PickUpWin_LastWriter(s) ==
    /\ call[s].op = "claiming"
    /\ LET h == call[s].h IN
       /\ row' = [row EXCEPT ![h].status = "active", ![h].claimant = RoleOf[s]]
       /\ cap' = [cap EXCEPT ![h] = [minted |-> TRUE, caller |-> RoleOf[s],
                                     consumed |-> FALSE, recovered |-> FALSE]]
       /\ call' = [call EXCEPT ![s] = [op |-> "granted", h |-> h]]
    /\ UNCHANGED <<expired, receipts, image, index, ledger, bearers, review,
                   clockBacks>>
\* The claim wins: the row and its capability change in one transaction.
PickUpWin(s) ==
    /\ call[s].op = "claiming" /\ Claimable(s)
    /\ LET h == call[s].h IN
       /\ ~cap[h].minted
       /\ row' = [row EXCEPT ![h].status = "active", ![h].claimant = RoleOf[s]]
       /\ cap' = [cap EXCEPT ![h] = [minted |-> TRUE, caller |-> RoleOf[s],
                                     consumed |-> FALSE, recovered |-> FALSE]]
       /\ call' = [call EXCEPT ![s] = [op |-> "granted", h |-> h]]
    /\ UNCHANGED <<expired, receipts, image, index, ledger, bearers, review,
                   clockBacks>>

\* The claim loses: the zero-row UPDATE and the receipt are one transaction.
PickUpRaced(s) ==
    /\ call[s].op = "claiming" /\ ~Claimable(s)
    /\ RecordLoss(s, "raced_claim")
    /\ Return(s)
    /\ UNCHANGED <<row, cap, expired, receipts, image, index, bearers, review,
                   clockBacks>>

\* The response with the only copy of the secret.
Respond(s) ==
    /\ call[s].op = "granted"
    /\ bearers' = bearers \cup {call[s].h}
    /\ Return(s)
    /\ UNCHANGED <<store, expired, review, clockBacks>>

\* The conditions a completion capability has to meet, at the first read and
\* again under the write lock.
Completable(s, h) ==
    /\ Open(cap[h]) /\ h \notin expired
    /\ row[h].status = "active" /\ row[h].claimant = RoleOf[s]

\* clear_handoff, up to BEGIN IMMEDIATE.  Whoever holds the secret may try.
ClearRead(s, h) ==
    /\ h \in bearers
    /\ cap[h].caller = RoleOf[s]
    /\ Completable(s, h)
    /\ Start(s, [op |-> "clearing", h |-> h])
    /\ UNCHANGED <<store, expired, bearers, review, clockBacks>>

\* Mutant: the receipt is written after the commit, and may be lost with it.
Close_NoReceipt(h, event) ==
    /\ row' = [row EXCEPT ![h].status = "cleared"]
    /\ receipts' = receipts
Close(h, event) ==
    /\ row' = [row EXCEPT ![h].status = "cleared"]
    /\ receipts' = [receipts EXCEPT ![h] =
                       Append(@, [event |-> event, claimant |-> row[h].claimant])]

\* The row, the capability and the receipt change in one transaction.
ClearCommit(s) ==
    /\ call[s].op = "clearing"
    /\ LET h == call[s].h IN
       /\ Completable(s, h)
       /\ Close(h, "cleared")
       /\ cap' = [cap EXCEPT ![h].consumed = TRUE]
    /\ Return(s)
    /\ UNCHANGED <<expired, image, index, ledger, bearers, review, clockBacks>>

\* The process dies, the client goes away, the write lock times out, or the
\* recheck under the lock refuses: nothing the call staged is stored.
Abandon(s) ==
    /\ call[s] # Idle
    /\ Return(s)
    /\ UNCHANGED <<store, expired, bearers, review, clockBacks>>

-----------------------------------------------------------------------------
(* Operator ceremonies: review at a terminal, then an exact-row transaction *)

Show(o, r) ==
    /\ review[o] = NoReview
    /\ review' = [review EXCEPT ![o] = r]
    /\ UNCHANGED <<store, expired, bearers, call, clockBacks>>

EndReview(o) ==
    /\ review' = [review EXCEPT ![o] = NoReview]
    /\ UNCHANGED <<expired, index, ledger, bearers, call, clockBacks>>

ReviewPromote(o, h) ==
    /\ row[h].status = "pending" /\ row[h].trust # "operator"
    /\ Show(o, [cmd |-> "promote", h |-> h, row |-> row[h]])

\* Mutant: the reviewed image is not compared again under the lock.
CommitPromote_NoRecheck(o) ==
    /\ review[o].cmd = "promote"
    /\ row' = [row EXCEPT ![review[o].h].trust = "operator"]
    /\ EndReview(o)
    /\ UNCHANGED <<cap, receipts, image>>
CommitPromote(o) ==
    /\ review[o].cmd = "promote"
    /\ LET h == review[o].h IN
       /\ row[h] = review[o].row /\ row[h].status = "pending"
       /\ row' = [row EXCEPT ![h].trust = "operator"]
    /\ EndReview(o)
    /\ UNCHANGED <<cap, receipts, image>>

\* Only unclaimed work is cancelled; a claimant owns completion.
ReviewCancel(o, h) ==
    /\ \/ row[h].status = "pending"
       \/ row[h].status = "active" /\ row[h].claimant = Nobody
    /\ Show(o, [cmd |-> "cancel", h |-> h, row |-> row[h]])

\* Mutant: whatever the row has become is cancelled.
CommitCancel_NoRecheck(o) ==
    /\ review[o].cmd = "cancel"
    /\ Close(review[o].h, "cancelled")
    /\ EndReview(o)
    /\ UNCHANGED <<cap, image>>
CommitCancel(o) ==
    /\ review[o].cmd = "cancel"
    /\ LET h == review[o].h IN
       /\ row[h] = review[o].row
       /\ row[h].claimant = Nobody
       /\ Close(h, "cancelled")
    /\ EndReview(o)
    /\ UNCHANGED <<cap, image>>

\* Mutant: only capabilities are recovered, not claims older than them.
Orphaned_CapabilityOnly(h) ==
    /\ row[h].status = "active" /\ row[h].claimant # Nobody
    /\ Open(cap[h]) /\ h \in expired
\* An owned active claim whose capability is past its expiry, or that never
\* had one.
Orphaned(h) ==
    /\ row[h].status = "active" /\ row[h].claimant # Nobody
    /\ cap[h].minted => Open(cap[h]) /\ h \in expired

ReviewRecover(o, h) ==
    /\ Orphaned(h)
    /\ Show(o, [cmd |-> "recover", h |-> h, row |-> row[h], cap |-> cap[h]])

\* Mutant: the expiry is not read again under the lock.
CommitRecover_NoClock(o) ==
    /\ review[o].cmd = "recover"
    /\ LET h == review[o].h IN
       /\ row[h] = review[o].row /\ cap[h] = review[o].cap
       /\ row[h].status = "active"
       /\ cap[h].minted => Open(cap[h])
       /\ Close(h, "recovered")
       /\ cap' = IF cap[h].minted THEN [cap EXCEPT ![h].recovered = TRUE] ELSE cap
    /\ EndReview(o)
    /\ UNCHANGED image
\* The digest covers row and capability; the expiry is checked again, and the
\* two UPDATEs carry their conditions.
CommitRecover(o) ==
    /\ review[o].cmd = "recover"
    /\ LET h == review[o].h IN
       /\ row[h] = review[o].row /\ cap[h] = review[o].cap
       /\ row[h].status = "active"
       /\ cap[h].minted => Open(cap[h]) /\ h \in expired
       /\ Close(h, "recovered")
       /\ cap' = IF cap[h].minted THEN [cap EXCEPT ![h].recovered = TRUE] ELSE cap
    /\ EndReview(o)
    /\ UNCHANGED image

\* The cleared operator-trust rows without a recovery image.
Quarantinable ==
    {h \in Handoffs : /\ row[h].status = "cleared" /\ row[h].trust = "operator"
                      /\ ~image[h].kept}

QuarantineSet == [h \in Quarantinable |-> row[h]]

ReviewQuarantine(o) ==
    /\ Quarantinable # {}
    /\ Show(o, [cmd |-> "quarantine", rows |-> QuarantineSet])

\* All of the set, exactly as shown, or nothing.
CommitQuarantine(o) ==
    /\ review[o].cmd = "quarantine"
    /\ review[o].rows = QuarantineSet
    /\ image' = [h \in Handoffs |-> IF h \in Quarantinable
                     THEN [kept |-> TRUE, row |-> row[h], restored |-> FALSE]
                     ELSE image[h]]
    /\ row' = [h \in Handoffs |-> IF h \in Quarantinable
                     THEN [row[h] EXCEPT !.trust = "ingested"] ELSE row[h]]
    /\ EndReview(o)
    /\ UNCHANGED <<cap, receipts>>

\* The row equals its image but for the trust.
Restorable(h) ==
    /\ image[h].kept /\ ~image[h].restored
    /\ row[h].trust = "ingested"
    /\ [row[h] EXCEPT !.trust = "operator"] = image[h].row

ReviewRestore(o, h) ==
    /\ Restorable(h)
    /\ Show(o, [cmd |-> "restore", h |-> h, image |-> image[h]])

\* Mutant: the image stays open to a second restore.
CommitRestore_Unmarked(o) ==
    /\ review[o].cmd = "restore"
    /\ LET h == review[o].h IN
       /\ image[h] = review[o].image
       /\ Restorable(h)
       /\ row' = [row EXCEPT ![h].trust = "operator"]
    /\ EndReview(o)
    /\ UNCHANGED <<cap, receipts, image>>
CommitRestore(o) ==
    /\ review[o].cmd = "restore"
    /\ LET h == review[o].h IN
       /\ image[h] = review[o].image
       /\ Restorable(h)
       /\ row' = [row EXCEPT ![h].trust = "operator"]
       /\ image' = [image EXCEPT ![h].restored = TRUE]
    /\ EndReview(o)
    /\ UNCHANGED <<cap, receipts>>

\* The operator does not confirm, the recheck refuses, or the process ends.
EndCeremony(o) ==
    /\ review[o] # NoReview
    /\ review' = [review EXCEPT ![o] = NoReview]
    /\ UNCHANGED <<store, expired, bearers, call, clockBacks>>

-----------------------------------------------------------------------------
(* The wall clock, external to the code: an expiry passes, or the clock is  *)
(* set back before it.  A closed capability's expiry is not read any more.  *)

Expire(h) ==
    /\ Open(cap[h]) /\ h \notin expired
    /\ expired' = expired \cup {h}
    /\ UNCHANGED <<store, bearers, call, review, clockBacks>>

SetClockBack(h) ==
    /\ Open(cap[h]) /\ h \in expired
    /\ clockBacks < MaxClockBacks
    /\ clockBacks' = clockBacks + 1
    /\ expired' = expired \ {h}
    /\ UNCHANGED <<store, bearers, call, review>>

-----------------------------------------------------------------------------

SessionNext(s) ==
    \/ \E h \in Handoffs : PickUpRead(s, h) \/ ClearRead(s, h)
    \/ PickUpStale(s) \/ PickUpWin(s) \/ PickUpRaced(s) \/ Respond(s)
    \/ ClearCommit(s) \/ Abandon(s)

OperatorNext(o) ==
    \/ \E h \in Handoffs : \/ ReviewPromote(o, h) \/ ReviewCancel(o, h)
                           \/ ReviewRecover(o, h) \/ ReviewRestore(o, h)
    \/ ReviewQuarantine(o)
    \/ CommitPromote(o) \/ CommitCancel(o) \/ CommitRecover(o)
    \/ CommitQuarantine(o) \/ CommitRestore(o) \/ EndCeremony(o)

Next ==
    \/ \E h \in Handoffs, t \in Trusts : CreateHandoff(h, t)
    \/ \E s \in Sessions : SessionNext(s)
    \/ \E o \in Operators : OperatorNext(o)
    \/ \E h \in Handoffs : Expire(h) \/ SetClockBack(h)

Spec == Init /\ [][Next]_vars

\* An operator who, as long as a claim is orphaned or work is stuck without a
\* claimant, keeps reviewing it and sooner or later confirms; and a clock that
\* goes on.  The code schedules nothing here: this is what it asks of people.
DiligentOperator(o) ==
    /\ \A h \in Handoffs :
        /\ SF_vars(row[h].status = "active" /\ ReviewCancel(o, h))
        /\ SF_vars(ReviewRecover(o, h))
        /\ SF_vars(review[o].cmd = "cancel" /\ review[o].h = h /\ CommitCancel(o))
        /\ SF_vars(review[o].cmd = "recover" /\ review[o].h = h /\ CommitRecover(o))
    /\ SF_vars(EndCeremony(o))

FairSpec ==
    /\ Spec
    /\ \A h \in Handoffs : SF_vars(Expire(h))
    /\ \E o \in Operators : DiligentOperator(o)

-----------------------------------------------------------------------------
(* Properties *)

\* A capability that is still open belongs to an active row claimed by the very
\* role it names, and every owned claim made under this schema has one: no
\* completion, race or ceremony leaves one half without the other.
ClaimMatchesCapability ==
    \A h \in Handoffs :
        /\ Open(cap[h]) => /\ row[h].status = "active"
                           /\ row[h].claimant = cap[h].caller
        /\ (row[h].status = "active" /\ h \notin Legacy) => Open(cap[h])

\* INV-1 across response loss: however pickups interleave, one session at most
\* is granted a handoff, and its secret exists in one place.
OneSessionPerClaim ==
    \A h \in Handoffs :
        LET granted == {s \in Sessions : call[s] = [op |-> "granted", h |-> h]}
        IN  /\ \A s, t \in granted : s = t
            /\ h \in bearers => granted = {}

\* A handoff is closed once, by one receipt that names the claimant it had, and
\* the receipt tells what became of the capability: completion consumed it,
\* recovery retired it, cancellation never met one.
ClosedByOneReceipt ==
    \A h \in Handoffs :
        /\ receipts[h] # <<>> => row[h].status = "cleared" /\ Len(receipts[h]) = 1
        /\ (row[h].status = "cleared" /\ h \notin Legacy) => receipts[h] # <<>>
        /\ \A i \in DOMAIN receipts[h] :
              LET r == receipts[h][i] IN
              /\ r.claimant = row[h].claimant
              /\ (r.event = "cleared") <=> cap[h].consumed
              /\ (r.event = "recovered" /\ cap[h].minted) <=> cap[h].recovered
              /\ (r.event = "cancelled") => (r.claimant = Nobody /\ ~cap[h].minted)

\* Work runs only under operator approval: a handoff of this schema is never
\* active, or closed by its consumer, unless an operator promoted it (a later
\* quarantine keeps that approval in its image).
RunsOnlyApproved ==
    \A h \in Handoffs \ Legacy :
        (row[h].status = "active" \/ cap[h].consumed)
            => row[h].trust = "operator" \/ image[h].kept

\* Operator trust is given to pending work or given back to quarantined work,
\* never to a row that moved on while the operator was reading it.
TrustRisesOnlyWhereReviewed ==
    [][\A h \in Handoffs :
           (row[h].trust # "operator" /\ row'[h].trust = "operator")
               => row[h].status = "pending" \/ image[h].kept]_vars

\* While its capability is live a claim ends in one way only, completion by the
\* session that holds it; once it is past its expiry completion is over and
\* only recovery ends it -- whatever the clock does between read and write.
ExpiryDecidesWhoCloses ==
    [][\A h \in Handoffs :
           (Open(cap[h]) /\ row'[h].status # "active")
               => IF h \in expired THEN cap'[h].recovered ELSE cap'[h].consumed]_vars

\* Quarantine forgets nothing: the image is the row as it was under operator
\* trust, the row differs from it in trust alone, and only until restored.
QuarantineKeepsTheRow ==
    \A h \in Handoffs :
        image[h].kept =>
            /\ image[h].row.status = "cleared" /\ image[h].row.trust = "operator"
            /\ [row[h] EXCEPT !.trust = "operator"] = image[h].row
            /\ row[h].trust = IF image[h].restored THEN "operator" ELSE "ingested"

\* INV-2: the ledger holds no phantom.  Whoever has a receipt for a handoff met
\* it, or lost it to a state, past pending.
NoPhantomConflict ==
    \A c \in Conflict :
        ledger[Conflicts!Exact(c)] > 0
            => row[c.target].status \in {"active", "cleared"}

\* Every receipt is true, the one of who closed a handoff and those of who lost it.
ReceiptsTellTheTruth == ClosedByOneReceipt /\ NoPhantomConflict

\* Concurrent dispatches never push the queue past its quotas, and a stored
\* handoff is always one recall can find.
QueueBounded ==
    /\ Cardinality(OpenRows) <= OpenQuota
    /\ Cardinality(StoredRows) <= TotalQuota
    /\ index = StoredRows

\* No claim is stuck for ever: whatever was lost (the secret, the session, the
\* claimant column of an old row), some ceremony accepts what is left.
EveryClaimEnds ==
    \A h \in Handoffs : row[h].status = "active" ~> row[h].status = "cleared"

-----------------------------------------------------------------------------
(* The inductive invariant behind the safety properties *)

\* How a closing of row r by an event left its capability c.
EndedBy(event, r, c) ==
    \/ event = "cleared" /\ c.minted /\ c.consumed /\ ~c.recovered
    \/ event = "recovered" /\ ~c.consumed /\ (c.recovered <=> c.minted)
    \/ event = "cancelled" /\ c = NoCap /\ r.claimant = Nobody

\* What holds between the row, the capability, the receipts and the recovery
\* image of one handoff.
Sound(h, r, c, q, i) ==
    /\ c = NoCap \/ (c.minted /\ c.caller \in Callers)
    /\ r.status \in {"absent", "pending"} =>
           c = NoCap /\ r.claimant = Nobody /\ q = <<>>
    /\ r.status = "active" =>
           /\ q = <<>>
           /\ \/ Open(c) /\ r.claimant = c.caller /\ r.trust = "operator"
              \/ c = NoCap /\ h \in Legacy
    /\ r.status = "cleared" =>
           \/ q = <<>> /\ c = NoCap /\ h \in Legacy
           \/ \E e \in {"cleared", "cancelled", "recovered"} :
                  /\ q = <<[event |-> e, claimant |-> r.claimant]>>
                  /\ EndedBy(e, r, c)
    /\ c.consumed => r.trust = "operator" \/ i.kept
    /\ i.kept => /\ r.status = "cleared" /\ i.row.status = "cleared"
                 /\ i.row.trust = "operator"
                 /\ [r EXCEPT !.trust = "operator"] = i.row
                 /\ r.trust = IF i.restored THEN "operator" ELSE "ingested"

\* What a session in flight knows: it saw operator trust before a claim, and a
\* granted or published secret has a capability of its own.
CallsSound ==
    /\ \A s \in Sessions :
          /\ call[s].op = "claiming" => call[s].trust = "operator"
          /\ call[s].op = "granted" => cap[call[s].h].minted
    /\ \A h \in bearers : cap[h].minted
    /\ OneSessionPerClaim

\* What a ceremony in flight knows: the kind of row it was shown.
ReviewsSound ==
    \A o \in Operators :
        /\ review[o].cmd = "cancel" => review[o].row.status \in {"pending", "active"}
        /\ review[o].cmd = "recover" => review[o].row.claimant # Nobody

HandoffInv ==
    /\ \A h \in Handoffs : Sound(h, row[h], cap[h], receipts[h], image[h])
    /\ CallsSound
    /\ ReviewsSound

-----------------------------------------------------------------------------
(* Refinement *)

\* The phase of a handoff, read from its row and the receipt that closed it.
PhaseOf(h) ==
    CASE row[h].status = "absent" -> "unused"
      [] row[h].status = "pending" ->
             IF row[h].trust = "operator" THEN "approved" ELSE "proposed"
      [] row[h].status = "active" -> "claimed"
      [] row[h].status = "cleared" ->
             IF receipts[h] = <<>> THEN "archived"
             ELSE CASE receipts[h][1].event = "cleared" -> "completed"
                    [] receipts[h][1].event = "cancelled" -> "cancelled"
                    [] receipts[h][1].event = "recovered" -> "recovered"

Lifecycle == INSTANCE HandoffLifecycle WITH
                 phase <- [h \in Handoffs |-> PhaseOf(h)],
                 holder <- [h \in Handoffs |-> row[h].claimant]

\* The queue keeps the promise of HandoffLifecycle: every step of a session, a
\* ceremony or the clock is one step of a handoff's life, or none.
ImplementsLifecycle == Lifecycle!Spec
=============================================================================

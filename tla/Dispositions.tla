---------------------------- MODULE Dispositions ----------------------------
(***************************************************************************)
(* The terminal disposition of SHIPPED activity rows.  The owner of a row, *)
(* or a principal an operator delegated that exact row to, records either  *)
(* downstream proof ("synced") or a reasoned policy decision.  A proof     *)
(* leaves a projection job, which the same call or a later retry completes *)
(* by exporting the fallback file.                                         *)
(*                                                                         *)
(* record_disposition reads the row and the grant outside any transaction  *)
(* and writes in one: the UPDATEs, the consumption receipt and the job     *)
(* commit together.  Calls of several processes interleave between those   *)
(* reads and that write, and a process may die at any point.               *)
(*                                                                         *)
(* Abstracted: a policy value stands for itself and its reason; an image   *)
(* and its hash are the row; the file and its safety checks (see           *)
(* ContextBridge) are the choice of an export to succeed or to fail.       *)
(***************************************************************************)
EXTENDS Integers, Sequences

CONSTANTS Rows,             \* SHIPPED rows of activity_log
          Principals,       \* the callers that MCP connections are bound to
          Owner,            \* the source of each row
          Policies,         \* the policy dispositions
          Refs,             \* downstream references
          Nothing,          \* SQL NULL
          Calls,            \* record_disposition calls in flight
          MaxCalls,         \* bound of the model: calls made in all
          MaxTime           \* bound of the model: seconds of the SQL clock

ASSUME DispositionAssumption ==
    /\ Owner \in [Rows -> Principals]
    /\ Nothing \notin Policies \cup Refs \cup Principals \cup {"synced"}
    /\ "synced" \notin Policies
    /\ MaxCalls \in Nat /\ MaxTime \in Nat

VARIABLES rows,             \* the sync_* columns and the PROCESSED tag
          grants,           \* owner_delegations with their consumptions
          jobs,             \* bridge_projection_jobs, by id
          manifest,         \* the manifest an operator has reviewed
          calls,            \* the local state of each call
          started,          \* calls made so far
          now               \* strftime('now')

vars == <<rows, grants, jobs, manifest, calls, started, now>>

-----------------------------------------------------------------------------
(* Data *)

Times == 0..MaxTime
Choices == {"synced"} \cup Policies
RefsFor(choice) == IF choice = "synced" THEN Refs ELSE {Nothing}

OpenRow == [disp : {Nothing}, by : {Nothing}, ref : {Nothing},
            note : {"plain"}, processed : BOOLEAN, at : {0}]
PolicyRow == [disp : Policies, by : Principals, ref : {Nothing},
              note : {"plain"}, processed : BOOLEAN, at : Times]
SyncedRow == [disp : {"synced"}, by : Principals, ref : Refs,
              note : {"plain", "folded"}, processed : {TRUE}, at : Times]
Row == OpenRow \cup PolicyRow \cup SyncedRow

\* A consumption receipt.
NoUse == [choice |-> Nothing]
Use == [choice : Choices, result : Row]
NoGrant == [to |-> Nothing]
IsGrant(g) == /\ DOMAIN g = {"to", "image", "use"}
              /\ g.to \in Principals /\ g.image \in OpenRow
              /\ g.use = NoUse \/ g.use \in Use

\* "proof" is history: the row that carried the proof.
Job == [row : Rows, status : {"pending", "completed"}, error : BOOLEAN,
        exports : Nat, proof : SyncedRow]

NoManifest == [to |-> Nothing]
Idle == [pc |-> "idle"]

Stages == {"image", "grant", "write", "lost", "export", "failed", "done"}
IsCall(c) ==
    /\ c.pc \in Stages /\ c.row \in Rows /\ c.by \in Principals
    /\ c.choice \in Choices /\ c.ref \in RefsFor(c.choice) /\ c.seen \in Row
    /\ c.image \in Row /\ c.spent \in BOOLEAN /\ c.job \in Nat
    /\ c.result \in {"none", "recorded", "replayed", "refused"}

TypeOK ==
    /\ rows \in [Rows -> Row]
    /\ \A r \in Rows : grants[r] = NoGrant \/ IsGrant(grants[r])
    /\ jobs \in Seq(Job)
    /\ manifest = NoManifest
       \/ /\ manifest.to \in Principals
          /\ manifest.rows \subseteq Rows
          /\ manifest.images \in [manifest.rows -> Row]
    /\ \A c \in Calls : calls[c] = Idle \/ IsCall(calls[c])
    /\ started \in 0..MaxCalls /\ now \in Times

\* Rows that were only tagged PROCESSED come from the retired
\* mark_shipped_processed.
Init ==
    /\ rows \in [Rows -> OpenRow]
    /\ grants = [r \in Rows |-> NoGrant]
    /\ jobs = <<>>
    /\ manifest = NoManifest
    /\ calls = [c \in Calls |-> Idle]
    /\ started = 0
    /\ now = 0

-----------------------------------------------------------------------------
(* record_disposition: the reads *)

Foreign(k) == k.by # Owner[k.row]

\* The row is canonical proof of exactly this call.
SameReceipt(k, row) ==
    /\ row.disp = "synced" /\ row.by = k.by /\ row.ref = k.ref
    /\ row.note = "plain"

\* What a call does next, from what it has read.
Verdict(k) ==
    IF k.choice = "synced" /\ k.seen.disp = "synced"
    THEN IF SameReceipt(k, k.seen) THEN "replayed" ELSE "refused"
    ELSE IF k.spent
    THEN IF k.choice # "synced" /\ grants[k.row].use.choice = k.choice
              /\ k.seen.disp = k.choice
         THEN "replayed" ELSE "refused"
    ELSE IF k.choice # "synced" /\ k.seen.disp = "synced" THEN "refused"
    ELSE "write"

\* A call that has its verdict goes on to write, or has its answer.
Judged(k) ==
    IF Verdict(k) = "write" THEN [k EXCEPT !.pc = "write"]
    ELSE [k EXCEPT !.pc = "done", !.result = Verdict(k)]
Refused(k) == [k EXCEPT !.pc = "done", !.result = "refused"]

Read(c, r, p, choice, ref) ==
    /\ calls[c].pc \in {"idle", "done"}
    /\ started < MaxCalls
    /\ started' = started + 1
    /\ LET k == [pc |-> "image", row |-> r, by |-> p, choice |-> choice, ref |-> ref,
                 seen |-> rows[r], image |-> rows[r], spent |-> FALSE,
                 job |-> 0, result |-> "none"]
       IN  calls' = [calls EXCEPT ![c] = IF Foreign(k) THEN k ELSE Judged(k)]
    /\ UNCHANGED <<rows, grants, jobs, manifest, now>>

\* resolve_owner_delegation reads the resource, and then the grant.
ReadImage(c) ==
    /\ calls[c].pc = "image"
    /\ calls' = [calls EXCEPT ![c].pc = "grant", ![c].image = rows[calls[c].row]]
    /\ UNCHANGED <<rows, grants, jobs, manifest, started, now>>

\* Mutant: only the image the grant was issued for resolves.
Resolves_GrantedImageOnly(k, g) ==
    g # NoGrant /\ g.to = k.by /\ k.image = g.image

\* The grant names this delegate and the image is the one it was issued for,
\* or the one its own use left.
Resolves(k, g) ==
    /\ g # NoGrant /\ g.to = k.by
    /\ \/ k.image = g.image
       \/ g.use # NoUse /\ k.image = g.use.result

ReadGrant(c) ==
    LET k == calls[c]
        g == grants[k.row]
    IN  /\ k.pc = "grant"
        /\ calls' = [calls EXCEPT ![c] =
                        IF Resolves(k, g)
                        THEN Judged([k EXCEPT !.spent = (g.use # NoUse)])
                        ELSE Refused(k)]
        /\ UNCHANGED <<rows, grants, jobs, manifest, started, now>>

-----------------------------------------------------------------------------
(* record_disposition: the write transaction *)

\* The row as the UPDATEs leave it.  The note folds in the policy decision the
\* call has read; the tag is added with proof and never removed.
Decided(k, row) ==
    [disp |-> k.choice, by |-> k.by,
     ref |-> k.ref,
     note |-> IF k.choice = "synced" /\ k.seen.disp \in Policies
              THEN "folded" ELSE "plain",
     processed |-> row.processed \/ k.choice = "synced", at |-> now]

\* Mutant: the UPDATE has no WHERE clause for proof.
Outrun_Never(k) == FALSE
\* The guard of the UPDATE: it finds no row when proof is there and more comes.
Outrun(k) == k.choice = "synced" /\ rows[k.row].disp = "synced"

\* Mutant: consumptions are not unique per delegation.
Spent_Never(k) == FALSE
\* The consumption receipt of this delegation exists: IntegrityError.
Spent(k) == Foreign(k) /\ grants[k.row].use # NoUse

\* Mutant: a projection that is pending already will do for this proof too.
Enqueue_Coalesced(k, after) ==
    IF k.choice = "synced" /\ \A j \in DOMAIN jobs : jobs[j].status = "completed"
    THEN Append(jobs, [row |-> k.row, status |-> "pending", error |-> FALSE,
                       exports |-> 0, proof |-> after])
    ELSE jobs
Enqueue(k, after) ==
    IF k.choice = "synced"
    THEN Append(jobs, [row |-> k.row, status |-> "pending", error |-> FALSE,
                       exports |-> 0, proof |-> after])
    ELSE jobs

Write(c) ==
    LET k == calls[c]
        after == Decided(k, rows[k.row])
    IN  /\ k.pc = "write" /\ ~Outrun(k) /\ ~Spent(k)
        /\ rows' = [rows EXCEPT ![k.row] = after]
        /\ grants' = IF Foreign(k)
                     THEN [grants EXCEPT ![k.row].use =
                              [choice |-> k.choice, result |-> after]]
                     ELSE grants
        /\ jobs' = Enqueue(k, after)
        /\ calls' = [calls EXCEPT ![c] =
                        IF k.choice = "synced"
                        THEN [k EXCEPT !.pc = "export", !.job = Len(jobs')]
                        ELSE [k EXCEPT !.pc = "done", !.result = "recorded"]]
        /\ UNCHANGED <<manifest, started, now>>

\* Somebody else's proof came first: roll back, and look again.
WriteOutrun(c) ==
    /\ calls[c].pc = "write" /\ Outrun(calls[c])
    /\ calls' = [calls EXCEPT ![c].pc = "lost"]
    /\ UNCHANGED <<rows, grants, jobs, manifest, started, now>>

Recheck(c) ==
    LET k == calls[c]
    IN  /\ k.pc = "lost"
        /\ calls' = [calls EXCEPT ![c] =
                        IF SameReceipt(k, rows[k.row])
                        THEN [k EXCEPT !.pc = "done", !.result = "replayed"]
                        ELSE Refused(k)]
        /\ UNCHANGED <<rows, grants, jobs, manifest, started, now>>

\* Another call used the grant: roll back.
WriteSpent(c) ==
    /\ calls[c].pc = "write" /\ ~Outrun(calls[c]) /\ Spent(calls[c])
    /\ calls' = [calls EXCEPT ![c] = Refused(@)]
    /\ UNCHANGED <<rows, grants, jobs, manifest, started, now>>

-----------------------------------------------------------------------------
(* Projection jobs *)

Projectable(j) == jobs[j].status = "pending"

Exported(job) ==
    [job EXCEPT !.status = "completed", !.error = FALSE, !.exports = @ + 1]
Completed(j) == [jobs EXCEPT ![j] = Exported(jobs[j])]

\* One BEGIN IMMEDIATE transaction: look at the job, render, write the file,
\* complete the job with an export receipt.
AutoExport(c) ==
    LET k == calls[c]
    IN  /\ k.pc = "export" /\ Projectable(k.job)
        /\ jobs' = Completed(k.job)
        /\ calls' = [calls EXCEPT ![c].pc = "done", ![c].result = "recorded"]
        /\ UNCHANGED <<rows, grants, manifest, started, now>>

\* The job is taken, the file changed since the last export, or the disk
\* refuses: the export's transaction is rolled back.
AutoExportFails(c) ==
    /\ calls[c].pc = "export"
    /\ calls' = [calls EXCEPT ![c].pc = "failed"]
    /\ UNCHANGED <<rows, grants, jobs, manifest, started, now>>

\* Mutant: the failure is written to the job whatever became of it.
Failed_Always(j) == [jobs EXCEPT ![j].error = TRUE]
Failed(j) == IF jobs[j].status = "pending" THEN [jobs EXCEPT ![j].error = TRUE]
             ELSE jobs

\* A transaction of its own after that.
CountFailure(c) ==
    /\ calls[c].pc = "failed"
    /\ jobs' = Failed(calls[c].job)
    /\ calls' = [calls EXCEPT ![c].pc = "done", ![c].result = "recorded"]
    /\ UNCHANGED <<rows, grants, manifest, started, now>>

\* export_bridge_markdown(projection_job_id) of the owner of the event.
RetryExport(p, j) ==
    /\ Projectable(j)
    /\ p = Owner[jobs[j].row]
    /\ jobs' = Completed(j)
    /\ UNCHANGED <<rows, grants, manifest, calls, started, now>>

\* The process dies; the caller never hears from this call.
Crash(c) ==
    /\ calls[c].pc \notin {"idle", "done"}
    /\ calls' = [calls EXCEPT ![c] = Idle]
    /\ UNCHANGED <<rows, grants, jobs, manifest, started, now>>

-----------------------------------------------------------------------------
(* --apply-owner-delegation-manifest *)

\* An operator writes a manifest from the images of rows, and reviews it.
Draft(p, S) ==
    /\ manifest = NoManifest
    /\ S # {} /\ \A r \in S : Owner[r] # p
    /\ manifest' = [to |-> p, rows |-> S, images |-> [r \in S |-> rows[r]]]
    /\ UNCHANGED <<rows, grants, jobs, calls, started, now>>

Discard ==
    /\ manifest # NoManifest
    /\ manifest' = NoManifest
    /\ UNCHANGED <<rows, grants, jobs, calls, started, now>>

Actionable(image) == image.disp = Nothing /\ ~image.processed

Grantable(r) ==
    /\ rows[r] = manifest.images[r]
    /\ Actionable(manifest.images[r])
    /\ \/ grants[r] = NoGrant
       \/ /\ grants[r].to = manifest.to
          /\ grants[r].image = manifest.images[r]

\* All of the manifest, or none of it.  A grant that exists is left alone.
Apply ==
    /\ manifest # NoManifest
    /\ \A r \in manifest.rows : Grantable(r)
    /\ grants' = [r \in Rows |->
                     IF r \in manifest.rows /\ grants[r] = NoGrant
                     THEN [to |-> manifest.to, image |-> manifest.images[r],
                           use |-> NoUse]
                     ELSE grants[r]]
    /\ manifest' = NoManifest
    /\ UNCHANGED <<rows, jobs, calls, started, now>>

Tick ==
    /\ now < MaxTime
    /\ now' = now + 1
    /\ UNCHANGED <<rows, grants, jobs, manifest, calls, started>>

-----------------------------------------------------------------------------

Step(c) ==
    \/ \E r \in Rows, p \in Principals, choice \in Choices :
          \E ref \in RefsFor(choice) : Read(c, r, p, choice, ref)
    \/ ReadImage(c)
    \/ ReadGrant(c)
    \/ Write(c)
    \/ WriteOutrun(c)
    \/ Recheck(c)
    \/ WriteSpent(c)
    \/ AutoExport(c)
    \/ AutoExportFails(c)
    \/ CountFailure(c)
    \/ Crash(c)

Operator ==
    \/ \E p \in Principals, S \in SUBSET Rows : Draft(p, S)
    \/ Discard
    \/ Apply

Next ==
    \/ \E c \in Calls : Step(c)
    \/ \E p \in Principals, j \in DOMAIN jobs : RetryExport(p, j)
    \/ Operator
    \/ Tick

Spec == Init /\ [][Next]_vars

-----------------------------------------------------------------------------
(* Properties the code has *)

\* The CAS of the UPDATE: proof is never replaced by different proof, however
\* the calls of several connections interleave.
ProofIsNotReplaced ==
    [][\A r \in Rows : (rows[r].disp = "synced" /\ rows'[r].disp = "synced")
                           => rows'[r] = rows[r]]_vars

\* Whoever is not the owner writes a row only in the transaction that turns the
\* operator's unused grant to that principal into its consumption receipt, and
\* the receipt holds the row as written: one grant, one write, and a loser of
\* the race for it leaves nothing behind.
DelegatedWriteSpendsTheGrant ==
    [][\A r \in Rows :
          (rows'[r] # rows[r] /\ rows'[r].by # Owner[r])
              => /\ grants[r] # NoGrant
                 /\ grants[r].to = rows'[r].by
                 /\ grants[r].use = NoUse
                 /\ grants'[r].use # NoUse
                 /\ grants'[r].use.result = rows'[r]]_vars

\* A delegate whose answer was lost and who asks the same policy decision again
\* is answered from the receipt, as long as the row is as it left it.
DelegatedRetryIsAnswered ==
    \A c \in Calls :
        LET k == calls[c] IN
        (/\ k.pc = "done" /\ k.result = "refused" /\ Foreign(k)
         /\ k.choice # "synced"
         /\ grants[k.row] # NoGrant
         /\ grants[k.row].to = k.by
         /\ grants[k.row].use # NoUse
         /\ grants[k.row].use.choice = k.choice)
            => k.seen # grants[k.row].use.result \/ k.seen # k.image

\* Proof is never durable without the job that will project it, and the job
\* never without proof.
ProofHasItsJob ==
    \A r \in Rows :
        rows[r].disp = "synced" =>
            \E j \in DOMAIN jobs : jobs[j].row = r /\ jobs[j].proof = rows[r]

\* The call's own export, a retry by the owner and the failure counter of the
\* call race: a job is exported once, and a completed job carries no error.
JobsProjectOnce ==
    \A j \in DOMAIN jobs :
        /\ jobs[j].exports = IF jobs[j].status = "completed" THEN 1 ELSE 0
        /\ jobs[j].status = "completed" => ~jobs[j].error

\* Every proof is projected, by a job of its own, once: neither a crash after
\* the proof nor the race for its export loses or repeats it.
JobsFollowProofs == ProofHasItsJob /\ JobsProjectOnce

-----------------------------------------------------------------------------
(* What the documents say, and the code does not do *)

\* integration-spec.md: a row that carries proof cannot be downgraded.  The job
\* of a proof is the witness that the row carried it.
ProofIsNeverDowngraded ==
    \A j \in DOMAIN jobs : rows[jobs[j].row] = jobs[j].proof
=============================================================================

------------------------- MODULE DispositionsProofs -------------------------
(***************************************************************************)
(* Dispositions for any number of rows, principals, policies and calls.    *)
(* Between its reads and its write a call holds what it read: the proofs   *)
(* say what of that is still true when the write commits, however many     *)
(* other calls, exports, crashes and grants came between.                  *)
(***************************************************************************)
EXTENDS Dispositions, TLAPS

CallFields == {"pc", "row", "by", "choice", "ref", "seen", "image", "spent", "job", "result"}

\* The grant for a row, if there is one, is unused.
Unused(r) == grants[r] = NoGrant \/ grants[r].use = NoUse

\* Nobody but the owner has written the image, as long as no grant is used.
OwnersImage(r, image) == Unused(r) => image.by \in {Nothing, Owner[r]}

\* A refused retry had not seen the row as the receipt of its grant has it.
Answered(k) ==
    (/\ k.pc = "done" /\ k.result = "refused" /\ Foreign(k)
     /\ k.choice # "synced"
     /\ grants[k.row] # NoGrant
     /\ grants[k.row].to = k.by
     /\ grants[k.row].use # NoUse
     /\ grants[k.row].use.choice = k.choice)
        => k.seen # grants[k.row].use.result \/ k.seen # k.image

\* What a call in flight may rely on.
CallSound(k) ==
    /\ DOMAIN k = CallFields /\ IsCall(k)
    /\ OwnersImage(k.row, k.image)
    /\ k.pc = "write" /\ Foreign(k) =>
          grants[k.row] # NoGrant /\ grants[k.row].to = k.by /\ k.image = grants[k.row].image
    /\ k.pc = "lost" => k.choice = "synced"
    /\ k.pc \in {"export", "failed"} => k.job \in DOMAIN jobs
    /\ Answered(k)

\* A grant is never the owner's, and its receipt is the delegate's write.
GrantSound(r) ==
    grants[r] # NoGrant =>
        /\ IsGrant(grants[r])
        /\ grants[r].to # Owner[r]
        /\ grants[r].use # NoUse =>
              /\ grants[r].use.result.disp = grants[r].use.choice
              /\ grants[r].use.result.by = grants[r].to

TablesTyped ==
    /\ rows \in [Rows -> Row]
    /\ grants = [r \in Rows |-> grants[r]]
    /\ jobs \in Seq(Job)
    /\ now \in Times /\ started \in 0 .. MaxCalls
    /\ calls = [c \in Calls |-> calls[c]]

ManifestSound ==
    manifest = NoManifest \/
        /\ manifest.to \in Principals
        /\ manifest.rows \subseteq Rows
        /\ manifest.images \in [manifest.rows -> Row]
        /\ \A r \in manifest.rows : Owner[r] # manifest.to

GrantsSound == \A r \in Rows : GrantSound(r) /\ OwnersImage(r, rows[r])
CallsSound == \A c \in Calls : calls[c] = Idle \/ CallSound(calls[c])

DispositionInv ==
    /\ TablesTyped
    /\ ManifestSound
    /\ GrantsSound
    /\ CallsSound
    /\ JobsFollowProofs

\* A row is open, decided by a policy, or proof.
LEMMA RowFields ==
    ASSUME NEW r \in Row
    PROVE  /\ r.disp \in Choices \cup {Nothing} /\ r.by \in Principals \cup {Nothing}
           /\ r.processed \in BOOLEAN
           /\ r.disp = Nothing <=> r.by = Nothing
           /\ r \in OpenRow <=> r.disp = Nothing
BY DispositionAssumption DEF Row, OpenRow, PolicyRow, SyncedRow, Choices

\* The UPDATEs leave a row of the choice and the caller.
LEMMA DecidedRow ==
    ASSUME TablesTyped, NEW k, IsCall(k), NEW row \in Row
    PROVE  /\ Decided(k, row) \in Row
           /\ Decided(k, row).disp = k.choice /\ Decided(k, row).by = k.by
           /\ k.choice = "synced" => Decided(k, row) \in SyncedRow
<1>1. row.processed \in BOOLEAN /\ now \in Times
  BY RowFields DEF TablesTyped
<1>2. CASE k.choice = "synced"
  BY <1>1, <1>2 DEF Decided, IsCall, RefsFor, Row, SyncedRow
<1>3. CASE k.choice # "synced"
  BY <1>1, <1>3 DEF Decided, IsCall, RefsFor, Row, PolicyRow, Choices
<1> QED
  BY <1>2, <1>3

\* No call, no grant and no proof yet.
LEMMA InitInv == Init => DispositionInv
<1> SUFFICES ASSUME Init PROVE DispositionInv
  OBVIOUS
<1>1. TablesTyped
  BY DispositionAssumption DEF Init, TablesTyped, Row, Times
<1>2. GrantsSound
  BY DEF Init, GrantsSound, GrantSound, OwnersImage, OpenRow
<1>3. JobsFollowProofs
  BY DispositionAssumption DEF Init, JobsFollowProofs, ProofHasItsJob, JobsProjectOnce, OpenRow
<1> QED
  BY <1>1, <1>2, <1>3 DEF Init, DispositionInv, ManifestSound, CallsSound

(***************************************************************************)
(* Steps of one call that change no table.                                 *)
(***************************************************************************)
LEMMA CallStep ==
    ASSUME DispositionInv, NEW c \in Calls, NEW k, k = Idle \/ CallSound(k),
           calls' = [calls EXCEPT ![c] = k],
           UNCHANGED <<rows, grants, jobs, manifest, now>>, started' \in 0 .. MaxCalls
    PROVE  DispositionInv'
<1> USE DEF DispositionInv
<1>1. TablesTyped' /\ ManifestSound' /\ JobsFollowProofs'
  BY DEF TablesTyped, ManifestSound, JobsFollowProofs, ProofHasItsJob, JobsProjectOnce
<1>2. GrantsSound'
  BY DEF GrantsSound, GrantSound, OwnersImage, Unused
<1>3. CallsSound'
  <2> SUFFICES ASSUME NEW d \in Calls PROVE (calls[d] = Idle \/ CallSound(calls[d]))'
    BY DEF CallsSound
  <2>1. calls'[d] = Idle \/ CallSound(calls'[d])
    BY DEF TablesTyped, CallsSound
  <2> QED
    BY <2>1 DEF CallSound, OwnersImage, Unused, Answered
<1> QED
  BY <1>1, <1>2, <1>3

\* The verdict of a call that may write is about an unspent grant, or its own row.
LEMMA JudgedSound ==
    ASSUME NEW k, CallSound(k), k.pc # "done",
           Foreign(k) =>
              /\ grants[k.row] # NoGrant /\ grants[k.row].to = k.by
              /\ IF k.spent
                 THEN grants[k.row].use # NoUse /\ grants[k.row].use.result.disp = grants[k.row].use.choice
                 ELSE k.image = grants[k.row].image /\ Unused(k.row)
    PROVE  CallSound(Judged(k))
<1>1. CASE Verdict(k) = "write"
  <2>1. ~k.spent
    BY <1>1 DEF Verdict
  <2> DEFINE new == [k EXCEPT !.pc = "write"]
  <2>2. /\ DOMAIN new = CallFields /\ new.pc = "write" /\ new.row = k.row /\ new.by = k.by
        /\ new.choice = k.choice /\ new.ref = k.ref /\ new.seen = k.seen /\ new.image = k.image
        /\ new.spent = k.spent /\ new.job = k.job /\ new.result = k.result
    BY DEF CallSound, CallFields
  <2> HIDE DEF new
  <2>3. IsCall(new)
    BY <2>2 DEF CallSound, IsCall, Stages
  <2>4. CallSound(new)
    BY <2>1, <2>2, <2>3 DEF CallSound, Foreign, Answered
  <2> QED
    BY <1>1, <2>4 DEF Judged, new
<1>2. CASE Verdict(k) # "write"
  <2> DEFINE new == [k EXCEPT !.pc = "done", !.result = Verdict(k)]
  <2>1. Verdict(k) \in {"replayed", "refused"}
    BY <1>2 DEF Verdict
  <2>2. /\ DOMAIN new = CallFields /\ new.pc = "done" /\ new.row = k.row /\ new.by = k.by
        /\ new.choice = k.choice /\ new.ref = k.ref /\ new.seen = k.seen /\ new.image = k.image
        /\ new.spent = k.spent /\ new.job = k.job /\ new.result = Verdict(k)
    BY DEF CallSound, CallFields
  <2> HIDE DEF new
  <2>3. IsCall(new)
    BY <2>1, <2>2 DEF CallSound, IsCall, Stages
  <2>4. Answered(new)
    <3> SUFFICES ASSUME Verdict(k) = "refused", Foreign(k), k.choice # "synced",
                        grants[k.row].use # NoUse, grants[k.row].use.choice = k.choice
                 PROVE  k.seen # grants[k.row].use.result
      BY <2>2 DEF Answered, Foreign
    <3>1. k.spent
      BY DEF Unused
    <3>2. k.seen.disp # k.choice
      BY <3>1 DEF Verdict
    <3> QED
      BY <3>1, <3>2
  <2>5. CallSound(new)
    BY <2>2, <2>3, <2>4 DEF CallSound
  <2> QED
    BY <1>2, <2>5 DEF Judged, new
<1> QED
  BY <1>1, <1>2

LEMMA RefusedSound ==
    ASSUME NEW k, CallSound(k), Answered(Refused(k))
    PROVE  CallSound(Refused(k))
<1> DEFINE new == Refused(k)
<1>1. /\ DOMAIN new = CallFields /\ new.pc = "done" /\ new.row = k.row /\ new.by = k.by
      /\ new.choice = k.choice /\ new.ref = k.ref /\ new.seen = k.seen /\ new.image = k.image
      /\ new.spent = k.spent /\ new.job = k.job /\ new.result = "refused"
  BY DEF CallSound, CallFields, Refused
<1> HIDE DEF new
<1>2. IsCall(new)
  BY <1>1 DEF CallSound, IsCall, Stages
<1> QED
  BY <1>1, <1>2 DEF CallSound, new

(***************************************************************************)
(* The reads.                                                              *)
(***************************************************************************)
LEMMA ReadKeeps ==
    ASSUME DispositionInv, NEW c \in Calls, NEW r \in Rows, NEW p \in Principals,
           NEW choice \in Choices, NEW ref \in RefsFor(choice), Read(c, r, p, choice, ref)
    PROVE  DispositionInv'
<1> DEFINE k == [pc |-> "image", row |-> r, by |-> p, choice |-> choice, ref |-> ref,
                 seen |-> rows[r], image |-> rows[r], spent |-> FALSE,
                 job |-> 0, result |-> "none"]
<1>1. /\ calls' = [calls EXCEPT ![c] = IF Foreign(k) THEN k ELSE Judged(k)]
      /\ UNCHANGED <<rows, grants, jobs, manifest, now>>
      /\ started' \in 0 .. MaxCalls
  BY DispositionAssumption DEF Read, DispositionInv, TablesTyped
<1>2. CallSound(k)
  <2>1. IsCall(k)
    BY DEF IsCall, Stages, DispositionInv, TablesTyped
  <2> QED
    BY <2>1 DEF CallSound, CallFields, Answered, DispositionInv, GrantsSound
<1>3. k.pc # "done"
  OBVIOUS
<1> HIDE DEF k
<1>4. ~Foreign(k) => CallSound(Judged(k))
  BY <1>2, <1>3, JudgedSound
<1> QED
  BY <1>1, <1>2, <1>4, CallStep

LEMMA ReadImageKeeps ==
    ASSUME DispositionInv, NEW c \in Calls, ReadImage(c)
    PROVE  DispositionInv'
<1> DEFINE k == calls[c]
           new == [k EXCEPT !.pc = "grant", !.image = rows[k.row]]
<1>1. k.pc = "image" /\ CallSound(k) /\ k.row \in Rows /\ k.pc # "idle"
  BY DEF ReadImage, DispositionInv, CallsSound, CallSound, IsCall, Idle
<1>2. /\ DOMAIN new = CallFields /\ new.pc = "grant" /\ new.row = k.row /\ new.by = k.by
      /\ new.choice = k.choice /\ new.ref = k.ref /\ new.seen = k.seen
      /\ new.image = rows[k.row] /\ new.spent = k.spent /\ new.job = k.job /\ new.result = k.result
  BY <1>1 DEF CallSound, CallFields
<1>3. calls' = [calls EXCEPT ![c] = new]
  BY <1>1 DEF ReadImage, CallSound, CallFields, DispositionInv, TablesTyped
<1> HIDE DEF new
<1>4. CallSound(new)
  <2>1. IsCall(new)
    BY <1>1, <1>2 DEF CallSound, IsCall, Stages, DispositionInv, TablesTyped
  <2>2. OwnersImage(new.row, new.image)
    BY <1>1, <1>2 DEF DispositionInv, GrantsSound
  <2> QED
    BY <1>2, <2>1, <2>2 DEF CallSound, Answered
<1> QED
  BY <1>3, <1>4, CallStep DEF ReadImage, DispositionInv, TablesTyped

LEMMA ReadGrantKeeps ==
    ASSUME DispositionInv, NEW c \in Calls, ReadGrant(c)
    PROVE  DispositionInv'
<1> DEFINE k == calls[c]
           g == grants[k.row]
<1>1. k.pc = "grant" /\ CallSound(k) /\ k.row \in Rows
  BY DEF ReadGrant, DispositionInv, CallsSound, CallSound, IsCall, Idle
<1>2. GrantSound(k.row)
  BY <1>1 DEF DispositionInv, GrantsSound
<1>3. CASE Resolves(k, g)
  <2> DEFINE new == [k EXCEPT !.spent = (g.use # NoUse)]
  <2>1. /\ DOMAIN new = CallFields /\ new.pc = "grant" /\ new.row = k.row /\ new.by = k.by
        /\ new.choice = k.choice /\ new.ref = k.ref /\ new.seen = k.seen
        /\ new.image = k.image /\ new.spent = (g.use # NoUse) /\ new.job = k.job
        /\ new.result = k.result
    BY <1>1 DEF CallSound, CallFields
  <2>2. calls' = [calls EXCEPT ![c] = Judged(new)]
    BY <1>3 DEF ReadGrant
  <2> HIDE DEF new
  <2>3. CallSound(new)
    <3>1. IsCall(new)
      BY <1>1, <2>1 DEF CallSound, IsCall
    <3> QED
      BY <1>1, <2>1, <3>1 DEF CallSound, Answered
  <2>4. CallSound(Judged(new))
    <3>1. g # NoGrant /\ g.to = k.by /\ (g.use # NoUse => g.use.result.disp = g.use.choice)
      BY <1>2, <1>3 DEF Resolves, GrantSound
    <3>2. g.use = NoUse => k.image = g.image
      BY <1>3 DEF Resolves
    <3> QED
      BY <2>1, <2>3, <3>1, <3>2, JudgedSound DEF Unused
  <2> QED
    BY <2>2, <2>4, CallStep DEF ReadGrant, DispositionInv, TablesTyped
\* What does not resolve is not the image that the use of the grant left.
<1>4. CASE ~Resolves(k, g)
  <2>1. calls' = [calls EXCEPT ![c] = Refused(k)]
    BY <1>4 DEF ReadGrant
  <2>2. /\ Refused(k).row = k.row /\ Refused(k).by = k.by /\ Refused(k).choice = k.choice
        /\ Refused(k).seen = k.seen /\ Refused(k).image = k.image
    BY <1>1 DEF CallSound, CallFields, Refused
  <2>3. Answered(Refused(k))
    BY <1>4, <2>2 DEF Answered, Resolves, Foreign
  <2>4. CallSound(Refused(k))
    BY <1>1, <2>3, RefusedSound
  <2> QED
    BY <2>1, <2>4, CallStep DEF ReadGrant, DispositionInv, TablesTyped
<1> QED
  BY <1>3, <1>4

(***************************************************************************)
(* The write transaction, where it does not commit, and after it.          *)
(***************************************************************************)
LEMMA LosesKeeps ==
    ASSUME DispositionInv, NEW c \in Calls, WriteOutrun(c) \/ AutoExportFails(c) \/ Crash(c)
    PROVE  DispositionInv'
<1> DEFINE k == calls[c]
<1>1. CASE Crash(c)
  BY <1>1, CallStep DEF Crash, DispositionInv, TablesTyped
<1>2. CASE WriteOutrun(c) \/ AutoExportFails(c)
  <2>1. k.pc \in {"write", "export"} /\ CallSound(k)
    BY <1>2 DEF WriteOutrun, AutoExportFails, DispositionInv, CallsSound, Idle
  <2>2. PICK pc \in {"lost", "failed"} :
           /\ calls' = [calls EXCEPT ![c].pc = pc]
           /\ pc = "lost" => k.choice = "synced"
           /\ pc = "failed" => k.job \in DOMAIN jobs
    BY <1>2, <2>1 DEF WriteOutrun, AutoExportFails, Outrun, CallSound
  <2> DEFINE new == [k EXCEPT !.pc = pc]
  <2>3. /\ DOMAIN new = CallFields /\ new.pc = pc /\ new.row = k.row /\ new.by = k.by
        /\ new.choice = k.choice /\ new.ref = k.ref /\ new.seen = k.seen /\ new.image = k.image
        /\ new.spent = k.spent /\ new.job = k.job /\ new.result = k.result
    BY <2>1 DEF CallSound, CallFields
  <2>4. calls' = [calls EXCEPT ![c] = new]
    BY <2>2
  <2> HIDE DEF new
  <2>5. CallSound(new)
    <3>1. IsCall(new)
      BY <2>1, <2>3 DEF CallSound, IsCall, Stages
    <3> QED
      BY <2>1, <2>2, <2>3, <3>1 DEF CallSound, Answered
  <2> QED
    BY <1>2, <2>4, <2>5, CallStep DEF WriteOutrun, AutoExportFails, DispositionInv, TablesTyped
<1> QED
  BY <1>1, <1>2

LEMMA RecheckKeeps ==
    ASSUME DispositionInv, NEW c \in Calls, Recheck(c)
    PROVE  DispositionInv'
<1> DEFINE k == calls[c]
           new == [k EXCEPT !.pc = "done", !.result = "replayed"]
<1>1. k.pc = "lost" /\ CallSound(k) /\ k.choice = "synced"
  BY DEF Recheck, DispositionInv, CallsSound, CallSound, Idle
<1>2. Refused(k).choice = "synced"
  BY <1>1 DEF CallSound, CallFields, Refused
<1>3. CallSound(Refused(k))
  BY <1>1, <1>2, RefusedSound DEF Answered
<1>4. /\ DOMAIN new = CallFields /\ new.pc = "done" /\ new.row = k.row /\ new.by = k.by
      /\ new.choice = k.choice /\ new.ref = k.ref /\ new.seen = k.seen /\ new.image = k.image
      /\ new.spent = k.spent /\ new.job = k.job /\ new.result = "replayed"
  BY <1>1 DEF CallSound, CallFields
<1>5. calls' = [calls EXCEPT ![c] = IF SameReceipt(k, rows[k.row]) THEN new ELSE Refused(k)]
  BY DEF Recheck
<1> HIDE DEF new
<1>6. CallSound(new)
  <2>1. IsCall(new)
    BY <1>1, <1>4 DEF CallSound, IsCall, Stages
  <2> QED
    BY <1>1, <1>4, <2>1 DEF CallSound, Answered
<1> QED
  BY <1>3, <1>5, <1>6, CallStep DEF Recheck, DispositionInv, TablesTyped

\* The call had resolved the unused grant, whose image carries no disposition.
LEMMA WriteSpentKeeps ==
    ASSUME DispositionInv, NEW c \in Calls, WriteSpent(c)
    PROVE  DispositionInv'
<1> DEFINE k == calls[c]
           g == grants[k.row]
<1>1. k.pc = "write" /\ CallSound(k) /\ k.row \in Rows /\ Foreign(k) /\ g.use # NoUse
  BY DEF WriteSpent, Spent, DispositionInv, CallsSound, CallSound, IsCall, Idle
<1>2. g # NoGrant /\ k.image = g.image /\ GrantSound(k.row)
  BY <1>1 DEF CallSound, DispositionInv, GrantsSound
<1>3. k.image.disp = Nothing /\ g.use.result.disp = g.use.choice /\ g.use.choice # Nothing
  BY <1>1, <1>2, DispositionAssumption DEF GrantSound, IsGrant, OpenRow, Use, Choices
<1>4. Refused(k).row = k.row /\ Refused(k).seen = k.seen /\ Refused(k).image = k.image
  BY <1>1 DEF CallSound, CallFields, Refused
<1>5. CallSound(Refused(k))
  BY <1>1, <1>3, <1>4, RefusedSound DEF Answered
<1> QED
  BY <1>5, CallStep DEF WriteSpent, DispositionInv, TablesTyped

(***************************************************************************)
(* Projection jobs.                                                        *)
(***************************************************************************)
\* A job keeps what it is for, and tells its export.
LEMMA JobStep ==
    ASSUME DispositionInv, NEW j \in DOMAIN jobs, NEW new \in Job,
           new.row = jobs[j].row, new.proof = jobs[j].proof,
           new.exports = IF new.status = "completed" THEN 1 ELSE 0,
           new.status = "completed" => ~new.error,
           jobs' = [jobs EXCEPT ![j] = new], UNCHANGED <<rows, grants, manifest, now>>
    PROVE  /\ jobs' \in Seq(Job) /\ DOMAIN jobs' = DOMAIN jobs
           /\ JobsFollowProofs' /\ ManifestSound' /\ GrantsSound'
<1> USE DEF DispositionInv
<1>1. jobs \in Seq(Job)
  BY DEF TablesTyped
<1>2. jobs' \in Seq(Job) /\ DOMAIN jobs' = DOMAIN jobs
  BY <1>1
<1>3. \A i \in DOMAIN jobs : jobs'[i] = IF i = j THEN new ELSE jobs[i]
  BY <1>1
<1>4. ProofHasItsJob'
  BY <1>2, <1>3 DEF JobsFollowProofs, ProofHasItsJob
<1>5. JobsProjectOnce'
  BY <1>2, <1>3 DEF JobsFollowProofs, JobsProjectOnce
<1>6. ManifestSound' /\ GrantsSound'
  BY DEF ManifestSound, GrantsSound, GrantSound, OwnersImage, Unused
<1> QED
  BY <1>2, <1>4, <1>5, <1>6 DEF JobsFollowProofs

\* The calls in flight do not mind.
LEMMA CallsAndJobs ==
    ASSUME DispositionInv, UNCHANGED <<rows, grants>>, DOMAIN jobs' = DOMAIN jobs,
           NEW c \in Calls, NEW k, k = Idle \/ CallSound(k),
           calls' = [calls EXCEPT ![c] = k] \/ calls' = calls
    PROVE  CallsSound' /\ calls' = [d \in Calls |-> calls'[d]]
<1> USE DEF DispositionInv
<1>1. ASSUME NEW d \in Calls PROVE (calls[d] = Idle \/ CallSound(calls[d]))'
  <2>1. calls'[d] = Idle \/ CallSound(calls'[d])
    BY DEF TablesTyped, CallsSound
  <2> QED
    BY <2>1 DEF CallSound, OwnersImage, Unused, Answered
<1> QED
  BY <1>1 DEF CallsSound, TablesTyped

\* The job as an export leaves it.
LEMMA ExportedJob ==
    ASSUME NEW job \in Job
    PROVE  /\ Exported(job) \in Job
           /\ Exported(job).row = job.row /\ Exported(job).proof = job.proof
           /\ Exported(job).status = "completed" /\ Exported(job).exports = job.exports + 1
           /\ ~Exported(job).error
<1>1. job.exports + 1 \in Nat
  BY DEF Job
<1>2. Exported(job) \in Job
  BY <1>1 DEF Job, Exported
<1>3. Exported(job).row = job.row /\ Exported(job).proof = job.proof
  BY DEF Job, Exported
<1>4. Exported(job).status = "completed" /\ Exported(job).exports = job.exports + 1
  BY DEF Job, Exported
<1>5. Exported(job).error = FALSE
  BY DEF Job, Exported
<1> QED
  BY <1>2, <1>3, <1>4, <1>5

LEMMA CompletedJob ==
    ASSUME DispositionInv, NEW j \in DOMAIN jobs, Projectable(j)
    PROVE  \E new \in Job :
              /\ new.row = jobs[j].row /\ new.proof = jobs[j].proof
              /\ new.status = "completed" /\ new.exports = 1 /\ ~new.error
              /\ Completed(j) = [jobs EXCEPT ![j] = new]
<1>1. jobs \in Seq(Job) /\ jobs[j] \in Job /\ jobs[j].status = "pending" /\ jobs[j].exports = 0
  BY DEF DispositionInv, TablesTyped, JobsFollowProofs, JobsProjectOnce, Projectable
<1>2. /\ Exported(jobs[j]) \in Job
      /\ Exported(jobs[j]).row = jobs[j].row /\ Exported(jobs[j]).proof = jobs[j].proof
      /\ Exported(jobs[j]).status = "completed" /\ Exported(jobs[j]).exports = 1
      /\ ~Exported(jobs[j]).error
  BY <1>1, ExportedJob
<1> QED
  BY <1>2 DEF Completed

LEMMA FailedJob ==
    ASSUME DispositionInv, NEW j \in DOMAIN jobs
    PROVE  \E new \in Job :
              /\ new.row = jobs[j].row /\ new.proof = jobs[j].proof
              /\ new.exports = IF new.status = "completed" THEN 1 ELSE 0
              /\ new.status = "completed" => ~new.error
              /\ Failed(j) = [jobs EXCEPT ![j] = new]
<1>1. jobs \in Seq(Job) /\ jobs[j] \in Job
  BY DEF DispositionInv, TablesTyped
<1>2. CASE jobs[j].status = "pending"
  <2> DEFINE new == [jobs[j] EXCEPT !.error = TRUE]
  <2>1. /\ new \in Job /\ new.row = jobs[j].row /\ new.proof = jobs[j].proof
        /\ new.status = "pending" /\ new.exports = jobs[j].exports
    BY <1>1, <1>2 DEF Job
  <2>2. Failed(j) = [jobs EXCEPT ![j] = new]
    BY <1>1, <1>2 DEF Failed
  <2>3. jobs[j].exports = 0
    BY <1>2 DEF DispositionInv, JobsFollowProofs, JobsProjectOnce
  <2> HIDE DEF new
  <2> QED
    BY <2>1, <2>2, <2>3
<1>3. CASE jobs[j].status # "pending"
  <2>1. Failed(j) = [jobs EXCEPT ![j] = jobs[j]]
    BY <1>1, <1>3 DEF Failed
  <2> QED
    BY <1>1, <2>1 DEF DispositionInv, JobsFollowProofs, JobsProjectOnce
<1> QED
  BY <1>2, <1>3

LEMMA RetryExportKeeps ==
    ASSUME DispositionInv, NEW p, NEW j \in DOMAIN jobs, RetryExport(p, j)
    PROVE  DispositionInv'
<1>1. PICK new \in Job :
         /\ new.row = jobs[j].row /\ new.proof = jobs[j].proof
         /\ new.status = "completed" /\ new.exports = 1 /\ ~new.error
         /\ jobs' = [jobs EXCEPT ![j] = new]
  BY CompletedJob DEF RetryExport
<1>2. UNCHANGED <<rows, grants, manifest, calls, started, now>>
  BY DEF RetryExport
<1>3. /\ jobs' \in Seq(Job) /\ DOMAIN jobs' = DOMAIN jobs
      /\ JobsFollowProofs' /\ ManifestSound' /\ GrantsSound'
  BY <1>1, <1>2, JobStep
<1>4. CallsSound'
  BY <1>2, <1>3 DEF DispositionInv, CallsSound, CallSound, OwnersImage, Unused, Answered
<1> QED
  BY <1>2, <1>3, <1>4 DEF DispositionInv, TablesTyped

LEMMA ExportKeeps ==
    ASSUME DispositionInv, NEW c \in Calls, AutoExport(c) \/ CountFailure(c)
    PROVE  DispositionInv'
<1> DEFINE k == calls[c]
           done == [k EXCEPT !.pc = "done", !.result = "recorded"]
<1>1. k.pc \in {"export", "failed"} /\ CallSound(k) /\ k.job \in DOMAIN jobs
  BY DEF AutoExport, CountFailure, DispositionInv, CallsSound, CallSound, Idle
<1>2. PICK new \in Job :
         /\ new.row = jobs[k.job].row /\ new.proof = jobs[k.job].proof
         /\ new.exports = IF new.status = "completed" THEN 1 ELSE 0
         /\ new.status = "completed" => ~new.error
         /\ jobs' = [jobs EXCEPT ![k.job] = new]
  BY <1>1, CompletedJob, FailedJob DEF AutoExport, CountFailure
<1>3. UNCHANGED <<rows, grants, manifest, started, now>>
  BY DEF AutoExport, CountFailure
<1>4. /\ jobs' \in Seq(Job) /\ DOMAIN jobs' = DOMAIN jobs
      /\ JobsFollowProofs' /\ ManifestSound' /\ GrantsSound'
  BY <1>1, <1>2, <1>3, JobStep
<1>5. /\ DOMAIN done = CallFields /\ done.pc = "done" /\ done.row = k.row /\ done.by = k.by
      /\ done.choice = k.choice /\ done.ref = k.ref /\ done.seen = k.seen /\ done.image = k.image
      /\ done.spent = k.spent /\ done.job = k.job /\ done.result = "recorded"
  BY <1>1 DEF CallSound, CallFields
<1>6. calls' = [calls EXCEPT ![c] = done]
  BY DEF AutoExport, CountFailure
<1> HIDE DEF done
<1>7. CallSound(done)
  <2>1. IsCall(done)
    BY <1>1, <1>5 DEF CallSound, IsCall, Stages
  <2> QED
    BY <1>1, <1>5, <2>1 DEF CallSound, Answered
<1>8. CallsSound' /\ calls' = [d \in Calls |-> calls'[d]]
  BY <1>3, <1>4, <1>6, <1>7, CallsAndJobs
<1> QED
  BY <1>3, <1>4, <1>8 DEF DispositionInv, TablesTyped

(***************************************************************************)
(* The write that commits.                                                 *)
(***************************************************************************)
LEMMA WriteKeeps ==
    ASSUME DispositionInv, NEW c \in Calls, Write(c)
    PROVE  DispositionInv'
<1> USE DEF DispositionInv
<1> DEFINE k == calls[c]
           r == k.row
           g == grants[r]
           after == Decided(k, rows[r])
           use == [choice |-> k.choice, result |-> after]
<1>1. /\ k.pc = "write" /\ CallSound(k) /\ IsCall(k) /\ r \in Rows /\ k.by \in Principals
      /\ ~Outrun(k) /\ ~Spent(k)
  BY DEF Write, CallsSound, CallSound, IsCall, Idle
<1>2. /\ after \in Row /\ after.disp = k.choice /\ after.by = k.by
      /\ k.choice = "synced" => after \in SyncedRow
  BY <1>1, DecidedRow DEF TablesTyped
<1>3. /\ rows' = [rows EXCEPT ![r] = after]
      /\ grants' = IF Foreign(k) THEN [grants EXCEPT ![r].use = use] ELSE grants
      /\ jobs' = Enqueue(k, after)
      /\ calls' = [calls EXCEPT ![c] = IF k.choice = "synced"
                        THEN [k EXCEPT !.pc = "export", !.job = Len(jobs')]
                        ELSE [k EXCEPT !.pc = "done", !.result = "recorded"]]
      /\ UNCHANGED <<manifest, started, now>>
  BY DEF Write
<1>4. use \in Use /\ use # NoUse /\ use.choice = k.choice /\ use.result = after
  <2>1. use \in Use
    BY <1>1, <1>2 DEF Use, IsCall
  <2>2. use.choice # NoUse.choice
    BY <1>1, DispositionAssumption DEF NoUse, IsCall, Choices
  <2> QED
    BY <2>1, <2>2
<1> HIDE DEF after, use
<1>5. /\ rows' \in [Rows -> Row] /\ rows'[r] = after
      /\ \A x \in Rows \ {r} : rows'[x] = rows[x]
  BY <1>1, <1>2, <1>3 DEF TablesTyped
\* The grant of the row, if the caller is a delegate.
<1>6. Foreign(k) => /\ g # NoGrant /\ g.to = k.by /\ g.use = NoUse /\ k.image = g.image
                    /\ IsGrant(g) /\ g.to # Owner[r]
  BY <1>1 DEF CallSound, Spent, GrantsSound, GrantSound
<1>7. /\ grants' = [x \in Rows |-> grants'[x]]
      /\ \A x \in Rows \ {r} : grants'[x] = grants[x]
      /\ ~Foreign(k) => grants'[r] = g
  BY <1>1, <1>3 DEF TablesTyped
<1>8. Foreign(k) => /\ grants'[r] # NoGrant /\ grants'[r].to = k.by /\ grants'[r].image = g.image
                    /\ grants'[r].use = use /\ IsGrant(grants'[r])
  <2> SUFFICES ASSUME Foreign(k) PROVE /\ grants'[r] # NoGrant /\ grants'[r].to = k.by
                                       /\ grants'[r].image = g.image
                                       /\ grants'[r].use = use /\ IsGrant(grants'[r])
    OBVIOUS
  <2>1. grants'[r] = [g EXCEPT !.use = use]
    BY <1>1, <1>3 DEF TablesTyped
  <2>2. DOMAIN g = {"to", "image", "use"}
    BY <1>6 DEF IsGrant
  <2>3. DOMAIN NoGrant = {"to"}
    BY DEF NoGrant
  <2> QED
    BY <1>4, <1>6, <2>1, <2>2, <2>3 DEF IsGrant
\* Jobs are appended, and a proof has its own.
<1>9. /\ jobs' \in Seq(Job) /\ Len(jobs) <= Len(jobs') /\ Len(jobs) \in Nat
      /\ \A j \in DOMAIN jobs : j \in DOMAIN jobs' /\ jobs'[j] = jobs[j]
      /\ k.choice = "synced" =>
            /\ Len(jobs') = Len(jobs) + 1 /\ Len(jobs') \in DOMAIN jobs'
            /\ jobs'[Len(jobs')] = [row |-> r, status |-> "pending", error |-> FALSE,
                                    exports |-> 0, proof |-> after]
            /\ \A j \in DOMAIN jobs' : j \in DOMAIN jobs \/ j = Len(jobs')
      /\ k.choice # "synced" => jobs' = jobs
  <2>1. jobs \in Seq(Job)
    BY DEF TablesTyped
  <2>2. CASE k.choice = "synced"
    <3> DEFINE new == [row |-> r, status |-> "pending", error |-> FALSE,
                       exports |-> 0, proof |-> after]
    <3>1. new \in Job
      BY <1>1, <1>2, <2>2 DEF Job
    <3>2. jobs' = Append(jobs, new)
      BY <1>3, <2>2 DEF Enqueue
    <3> HIDE DEF new
    <3>3. /\ jobs' \in Seq(Job) /\ Len(jobs') = Len(jobs) + 1 /\ jobs'[Len(jobs')] = new
          /\ \A j \in DOMAIN jobs : j \in DOMAIN jobs' /\ jobs'[j] = jobs[j]
          /\ \A j \in DOMAIN jobs' : j \in DOMAIN jobs \/ j = Len(jobs')
      BY <2>1, <3>1, <3>2
    <3> QED
      BY <2>1, <2>2, <3>3 DEF new
  <2>3. CASE k.choice # "synced"
    BY <1>3, <2>1, <2>3 DEF Enqueue
  <2> QED
    BY <2>2, <2>3
<1>10. ProofHasItsJob'
  <2> SUFFICES ASSUME NEW x \in Rows, rows'[x].disp = "synced"
               PROVE  \E j \in DOMAIN jobs' : jobs'[j].row = x /\ jobs'[j].proof = rows'[x]
    BY DEF ProofHasItsJob
  <2>1. CASE x = r
    <3>1. jobs'[Len(jobs')].row = x /\ jobs'[Len(jobs')].proof = rows'[x]
      BY <1>2, <1>5, <1>9, <2>1
    <3> QED
      BY <1>2, <1>5, <1>9, <2>1, <3>1
  <2>2. CASE x # r
    BY <1>5, <1>9, <2>2 DEF JobsFollowProofs, ProofHasItsJob
  <2> QED
    BY <2>1, <2>2
<1>11. JobsProjectOnce'
  <2> SUFFICES ASSUME NEW j \in DOMAIN jobs'
               PROVE  /\ jobs'[j].exports = IF jobs'[j].status = "completed" THEN 1 ELSE 0
                      /\ jobs'[j].status = "completed" => ~jobs'[j].error
    BY DEF JobsProjectOnce
  <2>1. CASE j \in DOMAIN jobs
    BY <1>9, <2>1 DEF JobsFollowProofs, JobsProjectOnce
  <2>2. CASE j \notin DOMAIN jobs
    BY <1>9, <2>2
  <2> QED
    BY <2>1, <2>2
<1>12. GrantsSound'
  <2> SUFFICES ASSUME NEW x \in Rows PROVE (GrantSound(x) /\ OwnersImage(x, rows[x]))'
    BY DEF GrantsSound
  <2>1. GrantSound(x) /\ OwnersImage(x, rows[x])
    BY DEF GrantsSound
  <2>2. CASE x # r
    BY <1>5, <1>7, <2>1, <2>2 DEF GrantSound, OwnersImage, Unused
  <2>3. CASE x = r /\ Foreign(k)
    BY <1>2, <1>4, <1>6, <1>8, <2>3 DEF GrantSound, OwnersImage, Unused
  <2>4. CASE x = r /\ ~Foreign(k)
    BY <1>2, <1>5, <1>7, <2>1, <2>4 DEF GrantSound, OwnersImage, Unused, Foreign
  <2> QED
    BY <2>2, <2>3, <2>4
<1> DEFINE new == calls'[c]
<1>13. /\ DOMAIN new = CallFields /\ new.row = r /\ new.by = k.by
       /\ new.choice = k.choice /\ new.ref = k.ref /\ new.seen = k.seen /\ new.image = k.image
       /\ new.spent = k.spent /\ new.job \in Nat
       /\ \/ k.choice = "synced" /\ new.pc = "export" /\ new.job = Len(jobs') /\ new.result = k.result
          \/ k.choice # "synced" /\ new.pc = "done" /\ new.result = "recorded"
  <2>1. CASE k.choice = "synced"
    <3>1. new = [k EXCEPT !.pc = "export", !.job = Len(jobs')]
      BY <1>3, <2>1 DEF TablesTyped
    <3> QED
      BY <1>1, <1>9, <2>1, <3>1 DEF CallSound, CallFields
  <2>2. CASE k.choice # "synced"
    <3>1. new = [k EXCEPT !.pc = "done", !.result = "recorded"]
      BY <1>3, <2>2 DEF TablesTyped
    <3> QED
      BY <1>1, <2>2, <3>1 DEF CallSound, CallFields, IsCall
  <2> QED
    BY <2>1, <2>2
<1>14. IsCall(new)
  BY <1>1, <1>13 DEF IsCall, Stages
<1>15. /\ \A d \in Calls \ {c} : calls'[d] = calls[d]
       /\ calls' = [d \in Calls |-> calls'[d]]
  BY <1>3 DEF TablesTyped
<1> HIDE DEF new
\* Whose grant is used now has an image the owner wrote, which is not the result.
<1>16. ASSUME NEW d \in Calls \ {c}, calls[d] # Idle PROVE CallSound(calls[d])'
  <2> DEFINE q == calls[d]
  <2>1. CallSound(q) /\ q.row \in Rows
    BY <1>16 DEF CallsSound, CallSound, IsCall
  <2>2. OwnersImage(q.row, q.image)'
    BY <1>4, <1>7, <1>8, <1>15, <2>1 DEF CallSound, OwnersImage, Unused
  <2>3. q.pc = "write" /\ Foreign(q) =>
           grants'[q.row] # NoGrant /\ grants'[q.row].to = q.by /\ q.image = grants'[q.row].image
    BY <1>6, <1>7, <1>8, <2>1 DEF CallSound
  <2>4. q.pc \in {"export", "failed"} => q.job \in DOMAIN jobs'
    BY <1>9, <2>1 DEF CallSound
  <2>5. Answered(q)'
    <3>1. CASE q.row = r /\ Foreign(k)
      <4>1. q.image.by \in {Nothing, Owner[r]}
        BY <1>6, <2>1, <3>1 DEF CallSound, OwnersImage, Unused
      <4>2. q.image # after
        BY <1>1, <1>2, <3>1, <4>1, DispositionAssumption DEF Foreign
      <4> QED
        BY <1>4, <1>8, <1>15, <3>1, <4>2 DEF Answered
    <3>2. CASE ~(q.row = r /\ Foreign(k))
      <4>1. grants'[q.row] = grants[q.row] /\ calls'[d] = q
        BY <1>7, <1>15, <2>1, <3>2
      <4> QED
        BY <2>1, <4>1 DEF CallSound, Answered, Foreign
    <3> QED
      BY <3>1, <3>2
  <2> QED
    BY <1>15, <2>1, <2>2, <2>3, <2>4, <2>5 DEF CallSound, Foreign
<1>17. CallSound(calls[c])'
  <2>1. OwnersImage(r, k.image) /\ (OwnersImage(calls[c].row, calls[c].image))'
    BY <1>1, <1>4, <1>7, <1>8, <1>13 DEF CallSound, OwnersImage, Unused, new
  <2> QED
    BY <1>9, <1>13, <1>14, <2>1 DEF CallSound, Answered, new
<1>18. CallsSound'
  BY <1>15, <1>16, <1>17 DEF CallsSound
<1>19. TablesTyped' /\ ManifestSound'
  BY <1>3, <1>5, <1>7, <1>9, <1>15 DEF TablesTyped, ManifestSound
<1> QED
  BY <1>10, <1>11, <1>12, <1>18, <1>19 DEF JobsFollowProofs

(***************************************************************************)
(* The operator, and the clock.                                            *)
(***************************************************************************)
\* Steps that change neither rows, nor jobs, nor calls.
LEMMA OtherTables ==
    ASSUME DispositionInv, UNCHANGED <<rows, jobs, calls, started>>, now' \in Times
    PROVE  /\ rows' \in [Rows -> Row] /\ jobs' \in Seq(Job)
           /\ now' \in Times /\ started' \in 0 .. MaxCalls
           /\ calls' = [c \in Calls |-> calls'[c]]
           /\ JobsFollowProofs'
BY DEF DispositionInv, TablesTyped, JobsFollowProofs, ProofHasItsJob, JobsProjectOnce

LEMMA ManifestKeeps ==
    ASSUME DispositionInv, UNCHANGED <<rows, grants, jobs, calls, started>>, now' \in Times,
           ManifestSound'
    PROVE  DispositionInv'
<1>1. TablesTyped' /\ JobsFollowProofs'
  BY OtherTables DEF DispositionInv, TablesTyped
<1>2. GrantsSound'
  BY DEF DispositionInv, GrantsSound, GrantSound, OwnersImage, Unused
<1>3. CallsSound'
  BY DEF DispositionInv, CallsSound, CallSound, OwnersImage, Unused, Answered
<1> QED
  BY <1>1, <1>2, <1>3 DEF DispositionInv

LEMMA DraftKeeps ==
    ASSUME DispositionInv, NEW p \in Principals, NEW S \in SUBSET Rows, Draft(p, S)
    PROVE  DispositionInv'
<1>1. ManifestSound'
  <2> DEFINE m == [to |-> p, rows |-> S, images |-> [r \in S |-> rows[r]]]
  <2>1. m.to = p /\ m.rows = S /\ m.images = [r \in S |-> rows[r]]
    OBVIOUS
  <2>2. m.images \in [S -> Row] /\ \A r \in S : Owner[r] # p
    BY DEF Draft, DispositionInv, TablesTyped
  <2>3. manifest' = m
    BY DEF Draft
  <2> HIDE DEF m
  <2> QED
    BY <2>1, <2>2, <2>3 DEF ManifestSound
<1>2. now' \in Times
  BY DEF Draft, DispositionInv, TablesTyped
<1> QED
  BY <1>1, <1>2, ManifestKeeps DEF Draft

LEMMA ApplyKeeps ==
    ASSUME DispositionInv, Apply
    PROVE  DispositionInv'
<1> USE DEF DispositionInv
<1> DEFINE Grant(r) == [to |-> manifest.to, image |-> manifest.images[r], use |-> NoUse]
<1>1. /\ manifest # NoManifest /\ manifest.to \in Principals /\ manifest.rows \subseteq Rows
      /\ manifest.images \in [manifest.rows -> Row]
      /\ \A r \in manifest.rows : Owner[r] # manifest.to /\ Grantable(r)
  BY DEF Apply, ManifestSound
<1>2. /\ grants' = [r \in Rows |-> IF r \in manifest.rows /\ grants[r] = NoGrant
                                   THEN Grant(r) ELSE grants[r]]
      /\ UNCHANGED <<rows, jobs, calls, started, now>> /\ ManifestSound' /\ now' \in Times
  BY DEF Apply, ManifestSound, TablesTyped
<1>3. ASSUME NEW r \in manifest.rows
      PROVE  /\ Grant(r) # NoGrant /\ IsGrant(Grant(r))
             /\ Grant(r).use = NoUse /\ Grant(r).to # Owner[r]
  <2>1. manifest.images[r] \in Row /\ manifest.images[r].disp = Nothing
    BY <1>1 DEF Grantable, Actionable
  <2>2. manifest.images[r] \in OpenRow
    BY <2>1, RowFields
  <2>3. DOMAIN Grant(r) = {"to", "image", "use"} /\ DOMAIN NoGrant = {"to"}
    BY DEF NoGrant
  <2> QED
    BY <1>1, <2>2, <2>3 DEF IsGrant
<1> HIDE DEF Grant
\* A grant that is new is unused, as no grant was.
<1>4. ASSUME NEW r \in Rows
      PROVE  \/ grants'[r] = grants[r]
             \/ /\ grants[r] = NoGrant /\ grants'[r] # NoGrant /\ IsGrant(grants'[r])
                /\ grants'[r].use = NoUse /\ grants'[r].to # Owner[r]
  BY <1>2, <1>3
<1>5. GrantsSound'
  <2> SUFFICES ASSUME NEW r \in Rows PROVE (GrantSound(r) /\ OwnersImage(r, rows[r]))'
    BY DEF GrantsSound
  <2>1. GrantSound(r) /\ OwnersImage(r, rows[r])
    BY DEF GrantsSound
  <2> QED
    BY <1>2, <1>4, <2>1 DEF GrantSound, OwnersImage, Unused
<1>6. CallsSound'
  <2> SUFFICES ASSUME NEW c \in Calls, calls[c] # Idle PROVE CallSound(calls[c])'
    BY <1>2 DEF CallsSound
  <2> DEFINE k == calls[c]
  <2>1. CallSound(k) /\ k.row \in Rows
    BY DEF CallsSound, CallSound, IsCall
  <2>2. \/ grants'[k.row] = grants[k.row]
        \/ /\ grants[k.row] = NoGrant /\ grants'[k.row] # NoGrant
           /\ grants'[k.row].use = NoUse
    BY <1>4, <2>1
  <2> QED
    BY <1>2, <2>1, <2>2 DEF CallSound, OwnersImage, Unused, Answered
<1>7. TablesTyped' /\ JobsFollowProofs'
  BY <1>2, OtherTables DEF TablesTyped
<1> QED
  BY <1>2, <1>5, <1>6, <1>7

LEMMA TickKeeps ==
    ASSUME DispositionInv, Tick
    PROVE  DispositionInv'
<1>1. now' \in Times
  BY DispositionAssumption DEF Tick, DispositionInv, TablesTyped, Times
<1>2. ManifestSound'
  BY DEF Tick, DispositionInv, ManifestSound
<1> QED
  BY <1>1, <1>2, ManifestKeeps DEF Tick

LEMMA StepKeeps == ASSUME DispositionInv, [Next]_vars PROVE DispositionInv'
<1>1. ASSUME NEW c \in Calls, Step(c) PROVE DispositionInv'
  BY <1>1, ReadKeeps, ReadImageKeeps, ReadGrantKeeps, WriteKeeps, LosesKeeps, RecheckKeeps,
     WriteSpentKeeps, ExportKeeps DEF Step
<1>2. ASSUME Operator PROVE DispositionInv'
  <2>1. CASE Discard
    <3>1. ManifestSound' /\ now' \in Times
      BY <2>1 DEF Discard, ManifestSound, DispositionInv, TablesTyped
    <3> QED
      BY <2>1, <3>1, ManifestKeeps DEF Discard
  <2> QED
    BY <1>2, <2>1, DraftKeeps, ApplyKeeps DEF Operator
<1>3. CASE UNCHANGED vars
  <2>1. ManifestSound' /\ now' \in Times
    BY <1>3 DEF vars, ManifestSound, DispositionInv, TablesTyped
  <2> QED
    BY <1>3, <2>1, ManifestKeeps DEF vars
<1> QED
  BY <1>1, <1>2, <1>3, RetryExportKeeps, TickKeeps DEF Next

\* The inductive invariant of record_disposition, the projection of its jobs
\* and the operator's manifests.
THEOREM DispositionInvariant == Spec => []DispositionInv
BY InitInv, StepKeeps, PTL DEF Spec

\* Every proof has its job, and a job is exported once: the UPDATE and the
\* job's INSERT commit together (tools/activity.py), and an export completes
\* a pending job only.
THEOREM ProofsHaveJobs == Spec => []JobsFollowProofs
BY DispositionInvariant, PTL DEF DispositionInv

\* A delegate that asks its policy decision again is refused only if the row
\* is no longer as its own write left it.
THEOREM RetriesAreAnswered == Spec => []DelegatedRetryIsAnswered
<1>1. DispositionInv => DelegatedRetryIsAnswered
  <2> SUFFICES ASSUME DispositionInv, NEW c \in Calls, calls[c].pc = "done"
               PROVE  Answered(calls[c])
    BY DEF DelegatedRetryIsAnswered, Answered
  <2> QED
    BY DEF DispositionInv, CallsSound, CallSound, Idle
<1> QED
  BY <1>1, DispositionInvariant, PTL

\* Rows change in the write of one call, and in nothing else.
LEMMA RowsChangeInWrite ==
    ASSUME DispositionInv, [Next]_vars, NEW r \in Rows, rows'[r] # rows[r]
    PROVE  \E c \in Calls : Write(c) /\ calls[c].row = r
<1>1. rows' # rows
  OBVIOUS
<1>2. ASSUME NEW c \in Calls, Step(c) PROVE Write(c)
  <2>1. ASSUME NEW x \in Rows, NEW p \in Principals, NEW choice \in Choices,
               NEW ref \in RefsFor(choice)
        PROVE  ~Read(c, x, p, choice, ref)
    BY <1>1 DEF Read
  <2> QED
    BY <1>1, <1>2, <2>1 DEF Step, ReadImage, ReadGrant, WriteOutrun, Recheck, WriteSpent,
       AutoExport, AutoExportFails, CountFailure, Crash
<1>3. ~Operator /\ ~Tick
  BY <1>1 DEF Operator, Draft, Discard, Apply, Tick
<1>4. ASSUME NEW p \in Principals, NEW j \in DOMAIN jobs PROVE ~RetryExport(p, j)
  BY <1>1 DEF RetryExport
<1>5. PICK c \in Calls : Write(c)
  BY <1>1, <1>2, <1>3, <1>4 DEF Next, vars
<1> QED
  BY <1>5 DEF Write, DispositionInv, TablesTyped

\* The WHERE clause of the UPDATE: no proof is replaced by another, for any
\* number of calls that read before it.
THEOREM ProofStands == Spec => ProofIsNotReplaced
<1> DEFINE Stands == \A r \in Rows : (rows[r].disp = "synced" /\ rows'[r].disp = "synced")
                                        => rows'[r] = rows[r]
<1>1. ASSUME DispositionInv, [Next]_vars PROVE Stands
  <2> SUFFICES ASSUME NEW r \in Rows, rows[r].disp = "synced", rows'[r].disp = "synced",
                      rows'[r] # rows[r]
               PROVE  FALSE
    OBVIOUS
  <2>1. PICK c \in Calls : Write(c) /\ calls[c].row = r
    BY <1>1, RowsChangeInWrite
  <2>2. rows'[r] = Decided(calls[c], rows[r])
    BY <1>1, <2>1 DEF Write, DispositionInv, TablesTyped
  <2>3. rows'[r].disp = calls[c].choice
    BY <2>2 DEF Decided
  <2> QED
    BY <2>1, <2>3 DEF Write, Outrun
<1>2. ASSUME DispositionInv, UNCHANGED vars PROVE Stands
  BY <1>2, <1>1
<1> QED
  BY <1>1, DispositionInvariant, PTL DEF Spec, ProofIsNotReplaced

\* What a delegate writes, it writes in the transaction that turns the unused
\* grant to it into the receipt of this very write.
THEOREM DelegationIsSpent == Spec => DelegatedWriteSpendsTheGrant
<1> DEFINE Spends ==
       \A r \in Rows : (rows'[r] # rows[r] /\ rows'[r].by # Owner[r])
                          => /\ grants[r] # NoGrant
                             /\ grants[r].to = rows'[r].by
                             /\ grants[r].use = NoUse
                             /\ grants'[r].use # NoUse
                             /\ grants'[r].use.result = rows'[r]
<1>1. ASSUME DispositionInv, [Next]_vars PROVE Spends
  <2> SUFFICES ASSUME NEW r \in Rows, rows'[r] # rows[r], rows'[r].by # Owner[r]
               PROVE  /\ grants[r] # NoGrant /\ grants[r].to = rows'[r].by
                      /\ grants[r].use = NoUse /\ grants'[r].use # NoUse
                      /\ grants'[r].use.result = rows'[r]
    OBVIOUS
  <2>1. PICK c \in Calls : Write(c) /\ calls[c].row = r
    BY <1>1, RowsChangeInWrite
  <2> DEFINE k == calls[c]
             use == [choice |-> k.choice, result |-> rows'[r]]
  <2>2. rows'[r] = Decided(k, rows[r]) /\ rows'[r].by = k.by
    BY <1>1, <2>1 DEF Write, DispositionInv, TablesTyped, Decided
  <2>3. Foreign(k) /\ CallSound(k) /\ k.pc = "write"
    BY <1>1, <2>1, <2>2 DEF Foreign, Write, DispositionInv, CallsSound, Idle
  <2>4. grants[r] # NoGrant /\ grants[r].to = k.by /\ grants[r].use = NoUse
    BY <2>1, <2>3 DEF CallSound, Write, Spent
  <2>5. IsGrant(grants[r])
    BY <1>1, <2>4 DEF DispositionInv, GrantsSound, GrantSound
  <2>6. grants' = [grants EXCEPT ![r].use = use]
    BY <2>1, <2>2, <2>3 DEF Write
  <2>7. grants'[r].use = use
    BY <1>1, <2>5, <2>6 DEF DispositionInv, TablesTyped, IsGrant
  <2>8. use.choice # NoUse.choice
    BY <2>3, DispositionAssumption DEF NoUse, CallSound, IsCall, Choices
  <2> QED
    BY <2>2, <2>4, <2>7, <2>8
<1> QED
  BY <1>1, DispositionInvariant, PTL DEF Spec, DelegatedWriteSpendsTheGrant
=============================================================================

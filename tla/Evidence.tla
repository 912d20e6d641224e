------------------------------- MODULE Evidence -------------------------------
(***************************************************************************)
(* The evidence log of bridge_db: JSONL families that server processes     *)
(* append to (evidence.py, audit.py, tools/recall.py), and the operator    *)
(* commands that plan, archive, acknowledge and redact them                *)
(* (evidence_policy.py).  A family is an active file and its segments; an  *)
(* append holds the family's lock, and so does a redaction from its checks *)
(* to its last receipt.  Plans and archives take no lock.                  *)
(*                                                                         *)
(* Of a file the model keeps what its readers tell apart: the records on   *)
(* lines that end, whether a line is damaged, what is left of a line that  *)
(* does not end, and a size that grows with every write.  The backups and  *)
(* the recovery anchor, which a plan also lists, do not change here; nor   *)
(* is there anything new in the counts a plan has of the same files.       *)
(***************************************************************************)
EXTENDS Naturals, Sequences

CONSTANTS
    Servers, Operators,
    Destinations,   \* the paths an archive may be written to
    None,
    RotateSize,     \* rotate_bytes
    LegacyRecords,  \* recall records of older programs, with their query
    MaxSegments,    \* bound on segments of a family
    MaxCalls,       \* bound on events that servers log
    MaxCommands,    \* bound on commands
    MaxFaults       \* bound on failed operations and kills

ASSUME EvidenceAssumption ==
    /\ None \notin Servers \cup Operators
    /\ Servers \cap Operators = {}
    /\ {RotateSize, LegacyRecords, MaxSegments, MaxCalls, MaxCommands, MaxFaults} \subseteq Nat

VARIABLES
    file,           \* family -> place -> what the file holds
    lock,           \* family -> who holds .<name>.lock
    archive,        \* destination -> the archive there
    printed,        \* the plans operators have, each with the evidence there was before
    run,            \* where a process stands, and what it read and prepared
    touched,        \* the redactions that replaced a file
    calls, commands, faults

counters == <<calls, commands, faults>>
vars == <<file, lock, archive, printed, run, touched, calls, commands, faults>>

Processes == Servers \cup Operators

\* The order in which a plan visits the families.
PlanOrder == <<"audit", "recall", "failure", "acknowledgement", "disposition">>
Families == {PlanOrder[i] : i \in 1 .. 5}

\* Place 0 is the active file, the others are segments in the order of their names.
Places == 0 .. MaxSegments

\* Records on lines that end; `rest` is what a line without its end still says.
NoFile == [there |-> FALSE, size |-> 0, records |-> {}, damaged |-> FALSE, torn |-> FALSE, rest |-> {}]
Holding(records, size) ==
    [there |-> TRUE, size |-> size, records |-> records, damaged |-> FALSE, torn |-> FALSE, rest |-> {}]

NoOrder == [plan |-> <<>>, evidence |-> {}]
NoArchive == [order |-> NoOrder, files |-> <<>>]
Queries(ids) == {[id |-> i, form |-> "query"] : i \in ids}

Idle ==
    [at |-> "idle", family |-> "none", record |-> [id |-> 0, form |-> "none"], then |-> "idle",
     kind |-> "none", order |-> NoOrder, to |-> None, number |-> 0,
     next |-> 0, todo |-> <<>>, found |-> <<>>, copied |-> <<>>, made |-> <<>>]

\* The recall log of older programs: some of it rotated, the rest active.
Init ==
    /\ \E split \in 0 .. LegacyRecords :
          file = [f \in Families |-> [n \in Places |->
                    CASE f = "recall" /\ n = 0 /\ split < LegacyRecords ->
                            Holding(Queries(split + 1 .. LegacyRecords), LegacyRecords - split)
                      [] f = "recall" /\ n = 1 /\ split > 0 -> Holding(Queries(1 .. split), split)
                      [] OTHER -> NoFile]]
    /\ lock = [f \in Families |-> None]
    /\ archive = [d \in Destinations |-> NoArchive]
    /\ printed = {}
    /\ run = [p \in Processes |-> Idle]
    /\ touched = {}
    /\ calls = 0 /\ commands = 0 /\ faults = 0

At(p, place) == run[p].at = place
Fault == faults < MaxFaults /\ faults' = faults + 1

\* The end of a call or command, one way or the other, and of the locks it has.
Unlocked(p) == [f \in Families |-> IF lock[f] = p THEN None ELSE lock[f]]
Ends(p) == run' = [run EXCEPT ![p] = Idle] /\ lock' = Unlocked(p)

(***************************************************************************)
(* Contents.                                                               *)
(***************************************************************************)
Existing(f) == {n \in Places : file[f][n].there}

\* Segments are numbered without gaps; 0 when there is none.
Newest(f) == CHOOSE n \in Places : \A m \in Places \ {0} : m \in Existing(f) <=> m <= n
Readable(c) == c.records \cup c.rest
Damaged(c) == c.damaged \/ (c.torn /\ c.rest = {})
HoldsQuery(c) == \E r \in Readable(c) : r.form = "query"

\* Bytes at the end of a file: after a line that did not end they damage it.
Extended(c, records, ended) ==
    [there |-> TRUE,
     size |-> c.size + 1,
     records |-> IF ended /\ ~c.torn THEN c.records \cup records ELSE c.records,
     damaged |-> c.damaged \/ (ended /\ c.torn),
     torn |-> ~ended,
     rest |-> IF ended \/ c.torn THEN {} ELSE records]

\* json.dumps again with sorted keys, and without the query.
Scrubbed(r) == [r EXCEPT !.form = "canonical"]
Redacted(c) == Holding({Scrubbed(r) : r \in Readable(c)}, c.size)

(***************************************************************************)
(* append_jsonl_durable, under the lock of the family.  Readers without a  *)
(* lock may look between the rotation and the write.                       *)
(***************************************************************************)
Appends(p, family, record, then) ==
    run' = [run EXCEPT ![p] = [@ EXCEPT !.at = "append", !.family = family,
                                        !.record = record, !.then = then]]

\* The name of a segment has the time, the process and a collision counter.
FreeSegment(f) == Newest(f) + 1

Rotated(f) ==
    IF file[f][0].size = 0 \/ file[f][0].size + 1 <= RotateSize THEN file[f]
    ELSE [file[f] EXCEPT ![FreeSegment(f)] = file[f][0], ![0] = NoFile]

\* Mutant: the lock file is opened and not locked.
LockAndRotate_Unlocked(p) ==
    LET f == run[p].family IN
    /\ At(p, "append")
    /\ MaxSegments \notin Existing(f)
    /\ file' = [file EXCEPT ![f] = Rotated(f)]
    /\ run' = [run EXCEPT ![p].at = "write"]
    /\ UNCHANGED <<lock, archive, printed, touched, counters>>

LockAndRotate(p) ==
    LET f == run[p].family IN
    /\ At(p, "append")
    /\ lock[f] = None
    /\ MaxSegments \notin Existing(f)
    /\ lock' = [lock EXCEPT ![f] = p]
    /\ file' = [file EXCEPT ![f] = Rotated(f)]
    /\ run' = [run EXCEPT ![p].at = "write"]
    /\ UNCHANGED <<archive, printed, touched, counters>>

Write(p) ==
    LET f == run[p].family IN
    /\ At(p, "write")
    /\ file' = [file EXCEPT ![f][0] = Extended(@, {run[p].record}, TRUE)]
    /\ IF run[p].then = "idle" THEN Ends(p)
       ELSE /\ run' = [run EXCEPT ![p].at = run[p].then]
            /\ lock' = [lock EXCEPT ![f] = None]
    /\ UNCHANGED <<archive, printed, touched, counters>>

\* What a failed write leaves: nothing, part of the line, all but its newline,
\* or, when the fsync failed, all of it.
Leftovers(c, record) ==
    {[c EXCEPT !.there = TRUE], Extended(c, {}, FALSE), Extended(c, {record}, FALSE),
     Extended(c, {record}, TRUE)}

\* log_audit then writes a failure receipt; every other caller gives up.
WriteFails(p) ==
    LET f == run[p].family IN
    /\ At(p, "write")
    /\ Fault
    /\ \E left \in Leftovers(file[f][0], run[p].record) : file' = [file EXCEPT ![f][0] = left]
    /\ IF f = "audit"
       THEN Appends(p, "failure", run[p].record, "idle") /\ lock' = Unlocked(p)
       ELSE Ends(p)
    /\ UNCHANGED <<archive, printed, touched, calls, commands>>

(***************************************************************************)
(* Servers: log_audit, and _log_recall, which has no query any more.       *)
(***************************************************************************)
Log(s, family) ==
    /\ At(s, "idle")
    /\ calls < MaxCalls
    /\ calls' = calls + 1
    /\ Appends(s, family, [id |-> LegacyRecords + calls + 1, form |-> "event"], "idle")
    /\ UNCHANGED <<file, lock, archive, printed, touched, commands, faults>>

(***************************************************************************)
(* collect_evidence_plan: for each family, does the active file exist,     *)
(* which segments are there, and then the hash of each, without a lock.    *)
(***************************************************************************)
Begin(o) == At(o, "idle") /\ commands < MaxCommands /\ commands' = commands + 1

Receipt(o, status) == [id |-> run[o].number, form |-> status]

\* The records a family has on lines of their own, and what a redaction leaves of them.
RecordsOf(f) == UNION {file[f][n].records : n \in Places}
Event(f, r) == <<f, r.id, IF f = "recall" THEN "event" ELSE r.form>>
Events(f) == {Event(f, r) : r \in RecordsOf(f)}

Collect(o, kind, order, d) ==
    /\ Begin(o)
    /\ run' = [run EXCEPT ![o] = [Idle EXCEPT !.at = "list", !.kind = kind, !.order = order,
                                              !.to = d, !.number = commands + 1]]
    /\ UNCHANGED <<file, lock, archive, printed, touched, calls, faults>>

ActiveOf(f) == IF 0 \in Existing(f) THEN <<0>> ELSE <<>>
SegmentsOf(f) == [i \in 1 .. Newest(f) |-> Newest(f) + 1 - i]

ListActive(o) ==
    /\ At(o, "list")
    /\ run[o].todo = <<>> /\ run[o].next < Len(PlanOrder)
    /\ run' = [run EXCEPT ![o] = [run[o] EXCEPT
          !.at = "glob", !.next = run[o].next + 1, !.todo = ActiveOf(PlanOrder[run[o].next + 1])]]
    /\ UNCHANGED <<file, lock, archive, printed, touched, counters>>

ListSegments(o) ==
    /\ At(o, "glob")
    /\ run' = [run EXCEPT ![o] = [run[o] EXCEPT
          !.at = "list", !.todo = run[o].todo \o SegmentsOf(PlanOrder[run[o].next])]]
    /\ UNCHANGED <<file, lock, archive, printed, touched, counters>>

\* A file that a rotation renamed in between is an error.
Hash(o) ==
    LET f == PlanOrder[run[o].next]
        n == Head(run[o].todo)
    IN  /\ At(o, "list")
        /\ run[o].todo # <<>>
        /\ IF n \in Existing(f)
           THEN /\ run' = [run EXCEPT ![o] = [run[o] EXCEPT
                      !.todo = Tail(run[o].todo),
                      !.found = Append(run[o].found,
                                       [family |-> f, place |-> n, content |-> file[f][n]])]]
                /\ UNCHANGED lock
           ELSE Ends(o)
        /\ UNCHANGED <<file, archive, printed, touched, counters>>

Collected(o, kind) ==
    /\ At(o, "list") /\ run[o].kind = kind
    /\ run[o].todo = <<>> /\ run[o].next = Len(PlanOrder)

PrintPlan(o) ==
    /\ Collected(o, "plan")
    /\ printed' = printed \cup {[plan |-> run[o].found, evidence |-> run[o].order.evidence]}
    /\ Ends(o)
    /\ UNCHANGED <<file, archive, touched, counters>>

(***************************************************************************)
(* create_evidence_archive and acknowledge_evidence_plan collect again and *)
(* compare with the plan the operator gives.                               *)
(***************************************************************************)
Planned(o) == run[o].found = run[o].order.plan
Free(o) == archive[run[o].to] = NoArchive

Refuse(o) ==
    /\ \/ Collected(o, "acknowledge") /\ ~Planned(o)
       \/ Collected(o, "archive") /\ ~(Planned(o) /\ Free(o))
    /\ Ends(o)
    /\ UNCHANGED <<file, archive, printed, touched, counters>>

Acknowledge(o) ==
    /\ Collected(o, "acknowledge") /\ Planned(o)
    /\ Appends(o, "acknowledgement", Receipt(o, "acknowledged"), "idle")
    /\ UNCHANGED <<file, lock, archive, printed, touched, counters>>

StartCopies(o) ==
    /\ Collected(o, "archive") /\ Planned(o) /\ Free(o)
    /\ run' = [run EXCEPT ![o].at = "copy"]
    /\ UNCHANGED <<file, lock, archive, printed, touched, counters>>

\* Mutant: whatever the source holds by now is copied.
Copy_Unverified(o) ==
    LET next == run[o].found[Len(run[o].copied) + 1]
        source == file[next.family][next.place]
    IN  /\ At(o, "copy")
        /\ Len(run[o].copied) < Len(run[o].found)
        /\ run' = [run EXCEPT ![o].copied = Append(@, [next EXCEPT !.content = source])]
        /\ UNCHANGED <<file, lock, archive, printed, touched, counters>>

\* _copy_artifact: a source that is not as planned ends the command.  The code
\* copies by kind and path; which comes first matters to no other process.
Copy(o) ==
    LET next == run[o].found[Len(run[o].copied) + 1]
        source == file[next.family][next.place]
    IN  /\ At(o, "copy")
        /\ Len(run[o].copied) < Len(run[o].found)
        /\ IF source = next.content
           THEN /\ run' = [run EXCEPT ![o].copied = Append(@, next)]
                /\ UNCHANGED lock
           ELSE Ends(o)
        /\ UNCHANGED <<file, archive, printed, touched, counters>>

\* os.replace of a directory fails when another archive came to be there.
Publish(o) ==
    /\ At(o, "copy")
    /\ Len(run[o].copied) = Len(run[o].found)
    /\ archive' = IF Free(o)
                  THEN [archive EXCEPT ![run[o].to] = [order |-> run[o].order, files |-> run[o].copied]]
                  ELSE archive
    /\ Ends(o)
    /\ UNCHANGED <<file, printed, touched, counters>>

(***************************************************************************)
(* redact_legacy_recall_queries, with the recall lock from its checks on.  *)
(***************************************************************************)
\* The archive is of the plan, and has every file of the family as it is now.
Archived(d, order) ==
    /\ archive[d] # NoArchive
    /\ archive[d].files = order.plan
    /\ \A n \in Existing("recall") : \E i \in DOMAIN archive[d].files :
          archive[d].files[i] = [family |-> "recall", place |-> n, content |-> file["recall"][n]]

\* A refusal or a dry run leaves nothing; nor is there anything to do without
\* a query.  The count the operator approved is the plan's.
Redact(o, order, d) ==
    /\ Begin(o)
    /\ lock["recall"] = None
    /\ Archived(d, order)
    /\ \A n \in Existing("recall") : ~Damaged(file["recall"][n])
    /\ \E n \in Existing("recall") : HoldsQuery(file["recall"][n])
    /\ lock' = [lock EXCEPT !["recall"] = o]
    /\ run' = [run EXCEPT ![o] = [Idle EXCEPT
          !.at = "append", !.family = "disposition", !.then = "replace",
          !.record = [id |-> commands + 1, form |-> "prepared"],
          !.kind = "redact", !.to = d, !.number = commands + 1,
          !.todo = ActiveOf("recall") \o SegmentsOf("recall"),
          !.made = [n \in Existing("recall") |-> Redacted(file["recall"][n])]]]
    /\ UNCHANGED <<file, archive, printed, touched, calls, faults>>

Replace(o) ==
    LET n == Head(run[o].todo) IN
    /\ At(o, "replace")
    /\ run[o].todo # <<>>
    /\ file' = [file EXCEPT !["recall"][n] = run[o].made[n]]
    /\ run' = [run EXCEPT ![o].todo = Tail(@)]
    /\ touched' = touched \cup {run[o].number}
    /\ UNCHANGED <<lock, archive, printed, counters>>

\* Mutant: every failure is told as an abort.
ReplaceFails_Aborts(o) ==
    /\ At(o, "replace")
    /\ Fault
    /\ Appends(o, "disposition", Receipt(o, "aborted"), "idle")
    /\ UNCHANGED <<file, lock, archive, printed, touched, calls, commands>>

\* Before the first replacement the redaction is aborted, after it left open.
ReplaceFails(o) ==
    /\ At(o, "replace")
    /\ Fault
    /\ IF run[o].number \notin touched
       THEN Appends(o, "disposition", Receipt(o, "aborted"), "idle") /\ UNCHANGED lock
       ELSE Ends(o)
    /\ UNCHANGED <<file, archive, printed, touched, calls, commands>>

\* The files are read back before they are reported.
Complete(o) ==
    /\ At(o, "replace")
    /\ run[o].todo = <<>>
    /\ IF \A n \in DOMAIN run[o].made :
             file["recall"][n] = run[o].made[n] /\ ~HoldsQuery(file["recall"][n])
       THEN Appends(o, "disposition", Receipt(o, "completed"), "idle") /\ UNCHANGED lock
       ELSE Ends(o)
    /\ UNCHANGED <<file, archive, printed, touched, counters>>

\* The locks of a process die with it.
Kill(p) ==
    /\ ~At(p, "idle")
    /\ Fault
    /\ Ends(p)
    /\ UNCHANGED <<file, archive, printed, touched, calls, commands>>

------------------------------------------------------------------------------
Command(o) ==
    \/ Collect(o, "plan", [NoOrder EXCEPT !.evidence = UNION {Events(f) : f \in Families}], None)
    \/ \E order \in printed :
          \/ Collect(o, "acknowledge", order, None)
          \/ \E d \in Destinations : Collect(o, "archive", order, d) \/ Redact(o, order, d)
    \/ ListActive(o) \/ ListSegments(o) \/ Hash(o) \/ PrintPlan(o)
    \/ Refuse(o) \/ Acknowledge(o) \/ StartCopies(o) \/ Copy(o) \/ Publish(o)
    \/ Replace(o) \/ ReplaceFails(o) \/ Complete(o)

Next ==
    \/ \E s \in Servers : Log(s, "audit") \/ Log(s, "recall")
    \/ \E o \in Operators : Command(o)
    \/ \E p \in Processes : LockAndRotate(p) \/ Write(p) \/ WriteFails(p) \/ Kill(p)

Spec == Init /\ [][Next]_vars

(***************************************************************************)
(* Properties.                                                             *)
(***************************************************************************)
\* What an archive holds, by family.
ArchivedEvidence(d) ==
    UNION {{a.family} \X Readable(a.content) : a \in {archive[d].files[i] : i \in DOMAIN archive[d].files}}

\* "Rotation is lossless": a record on a line of its own stays in its family,
\* whoever rotates, redacts, fails or dies; and a query is taken from the log only
\* when an archive has it.
RecordsAreKept ==
    [][/\ \A f \in Families : Events(f) \subseteq Events(f)'
       /\ \A q \in Queries(1 .. LegacyRecords) :
            q \in RecordsOf("recall") =>
                \/ q \in RecordsOf("recall")'
                \/ \E d \in Destinations : <<"recall", q>> \in ArchivedEvidence(d)]_vars

\* An archive has every record that was there when its plan was begun, although
\* plans and copies read file by file while servers append, rotate and fail.  (Of
\* a query that was redacted in between it has what is left.)
ArchivesHoldWhatWasPlanned ==
    \A d \in Destinations : archive[d].order.evidence \subseteq
        UNION {{Event(a.family, r) : r \in Readable(a.content)} :
               a \in {archive[d].files[i] : i \in DOMAIN archive[d].files}}

\* The receipts of a redaction tell the truth, after failures and kills too:
\* completed, no query is left; begun, the prepared receipt is there, unless a
\* damaged line hides it, and never an aborted one.
Said(t) ==
    {r.form : r \in {x \in UNION {Readable(file["disposition"][n]) : n \in Places} : x.id = t}}

RedactionsAreOnRecord ==
    /\ \A t \in 1 .. MaxCommands : "completed" \in Said(t) =>
          \A n \in Places : ~HoldsQuery(file["recall"][n])
    /\ \A t \in touched :
          /\ "aborted" \notin Said(t)
          /\ "prepared" \in Said(t) \/ \E n \in Places : Damaged(file["disposition"][n])

\* "Any open or malformed transaction makes storage health non-green": the
\* disposition inventory shows every redaction that is not completed.
OpenRedactionsAreShown ==
    \A t \in touched : "completed" \notin Said(t) => "prepared" \in Said(t)
==============================================================================

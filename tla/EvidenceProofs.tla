--------------------------- MODULE EvidenceProofs ---------------------------
(***************************************************************************)
(* The evidence log loses nothing, for any number of servers, operators,   *)
(* records, segments and faults.                                           *)
(***************************************************************************)
EXTENDS Evidence, TLAPS

(***************************************************************************)
(* The inductive invariant.                                                *)
(***************************************************************************)
Form == {"none", "query", "event", "canonical", "acknowledged", "prepared", "aborted", "completed"}
Record == [id : Nat, form : Form]

Fields == {"at", "family", "record", "then", "kind", "order", "to", "number",
           "next", "todo", "found", "copied", "made"}

\* What every process remembers, whatever it is doing.
Remembers(r) ==
    /\ DOMAIN r = Fields
    /\ r.record \in Record
    /\ r.number \in Nat
    /\ r.at = "append" \/ r.at = "write" => r.family \in Families

IsContent(c) ==
    /\ c = [there |-> c.there, size |-> c.size, records |-> c.records,
            damaged |-> c.damaged, torn |-> c.torn, rest |-> c.rest]
    /\ c.there \in BOOLEAN
    /\ c.records \subseteq Record /\ c.rest \subseteq Record
    /\ ~c.there => c = NoFile

RunsTypeOK ==
    /\ run = [p \in Processes |-> run[p]]
    /\ \A p \in Processes : Remembers(run[p])
    /\ calls \in Nat /\ commands \in Nat

FilesTypeOK ==
    /\ file = [f \in Families |-> [n \in Places |-> file[f][n]]]
    /\ \A f \in Families : \A n \in Places : IsContent(file[f][n])
    /\ lock = [f \in Families |-> lock[f]]
    /\ archive = [d \in Destinations |-> archive[d]]

\* Segments are numbered without gaps, so the next one is free.
NoGaps ==
    \A f \in Families : \E k \in Places : \A m \in Places \ {0} : m \in Existing(f) <=> m <= k

WritersLock == \A p \in Processes : At(p, "write") => lock[run[p].family] = p

\* A redaction has the recall lock, has prepared every file there is as it is
\* now, replaced or not, and an archive has the queries that are left.
Redacting(o) ==
    /\ lock["recall"] = o
    /\ run[o].to \in Destinations
    /\ run[o].todo \in Seq(Existing("recall"))
    /\ \A n \in Existing("recall") :
          /\ run[o].made[n] = Redacted(file["recall"][n])
          /\ \A r \in file["recall"][n].records :
                r.form = "query" => <<"recall", r>> \in ArchivedEvidence(run[o].to)

Appending(r) == r.at = "append" \/ r.at = "write"

RedactionsLock ==
    \A p \in Processes :
        /\ At(p, "replace") => Redacting(p)
        /\ Appending(run[p]) /\ run[p].then # "idle" =>
              /\ run[p].then = "replace" /\ run[p].family = "disposition"
              /\ Redacting(p)

EvidenceInv == RunsTypeOK /\ FilesTypeOK /\ NoGaps /\ WritersLock /\ RedactionsLock

(***************************************************************************)
(* Families, contents and segments.                                        *)
(***************************************************************************)
LEMMA FamilyNames ==
    Families = {"audit", "recall", "failure", "acknowledgement", "disposition"}
<1>1. /\ PlanOrder[1] = "audit" /\ PlanOrder[2] = "recall" /\ PlanOrder[3] = "failure"
      /\ PlanOrder[4] = "acknowledgement" /\ PlanOrder[5] = "disposition"
  BY DEF PlanOrder
<1>2. 1 .. 5 = {1, 2, 3, 4, 5}
  OBVIOUS
<1> QED
  BY <1>1, <1>2 DEF Families

LEMMA NoFileIsContent == IsContent(NoFile)
BY DEF IsContent, NoFile

\* Bytes at the end of a file, whole lines or not, take no record away.
LEMMA ExtendedKeeps ==
    ASSUME NEW c, IsContent(c), NEW records \in SUBSET Record, NEW ended \in BOOLEAN
    PROVE  /\ IsContent(Extended(c, records, ended))
           /\ Extended(c, records, ended).there
           /\ c.records \subseteq Extended(c, records, ended).records
BY DEF IsContent, Extended

LEMMA LeftoversKeep ==
    ASSUME NEW c, IsContent(c), NEW record \in Record, NEW left \in Leftovers(c, record)
    PROVE  /\ IsContent(left)
           /\ left.there
           /\ c.records \subseteq left.records
<1>1. CASE left = [c EXCEPT !.there = TRUE]
  <2>1. left = [there |-> TRUE, size |-> c.size, records |-> c.records,
                damaged |-> c.damaged, torn |-> c.torn, rest |-> c.rest]
    BY <1>1 DEF IsContent
  <2> QED
    BY <2>1 DEF IsContent
<1>2. CASE left = Extended(c, {}, FALSE)
  BY <1>2, ExtendedKeeps
<1>3. CASE left = Extended(c, {record}, FALSE)
  BY <1>3, ExtendedKeeps
<1>4. CASE left = Extended(c, {record}, TRUE)
  BY <1>4, ExtendedKeeps
<1> QED
  BY <1>1, <1>2, <1>3, <1>4 DEF Leftovers

\* A redaction keeps every record by its id, leaves no query, and changes nothing
\* the second time.
LEMMA ScrubbedRecord ==
    ASSUME NEW r \in Record
    PROVE  /\ Scrubbed(r) \in Record
           /\ Scrubbed(r).id = r.id
           /\ Scrubbed(r).form = "canonical"
           /\ Scrubbed(Scrubbed(r)) = Scrubbed(r)
<1>1. Scrubbed(r) = [id |-> r.id, form |-> "canonical"]
  BY DEF Scrubbed, Record
<1>2. Scrubbed(Scrubbed(r)) = [id |-> r.id, form |-> "canonical"]
  BY <1>1 DEF Scrubbed
<1>3. r.id \in Nat /\ "canonical" \in Form
  BY DEF Record, Form
<1> QED
  BY <1>1, <1>2, <1>3 DEF Record

LEMMA RedactedKeeps ==
    ASSUME NEW c, IsContent(c)
    PROVE  /\ IsContent(Redacted(c))
           /\ Redacted(c).there
           /\ Redacted(Redacted(c)) = Redacted(c)
           /\ \A r \in Redacted(c).records : r.form # "query"
           /\ \A r \in c.records : Scrubbed(r) \in Redacted(c).records
<1> DEFINE S == {Scrubbed(r) : r \in Readable(c)}
<1>1. Readable(c) \subseteq Record
  BY DEF Readable, IsContent
<1>2. S \subseteq Record /\ \A r \in S : r.form = "canonical" /\ Scrubbed(r) = r
  BY <1>1, ScrubbedRecord
<1>3. /\ Redacted(c) = [there |-> TRUE, size |-> c.size, records |-> S,
                        damaged |-> FALSE, torn |-> FALSE, rest |-> {}]
  BY DEF Redacted, Holding
<1>4. Readable(Redacted(c)) = S
  BY <1>3 DEF Readable
<1>5. {Scrubbed(r) : r \in S} = S
  BY <1>2
<1>6. Redacted(Redacted(c)) = Redacted(c)
  <2>1. PICK d : d = Redacted(c)
    OBVIOUS
  <2>2. d.size = c.size /\ Readable(d) = S
    BY <1>3, <1>4, <2>1
  <2>3. {Scrubbed(r) : r \in Readable(d)} = S
    BY <1>5, <2>2
  <2>4. Redacted(d) = Holding(S, c.size)
    BY <2>2, <2>3 DEF Redacted
  <2> QED
    BY <2>1, <2>4 DEF Redacted
<1>7. IsContent(Redacted(c)) /\ Redacted(c).there
  BY <1>2, <1>3 DEF IsContent
<1>8. \A r \in c.records : Scrubbed(r) \in S
  BY DEF Readable
<1> HIDE DEF S
<1> QED
  BY <1>2, <1>3, <1>6, <1>7, <1>8

LEMMA NewestIsLast ==
    ASSUME NoGaps, NEW f \in Families
    PROVE  /\ Newest(f) \in Places
           /\ \A m \in Places \ {0} : m \in Existing(f) <=> m <= Newest(f)
BY DEF NoGaps, Newest

LEMMA SegmentsExist ==
    ASSUME NoGaps
    PROVE  ActiveOf("recall") \o SegmentsOf("recall") \in Seq(Existing("recall"))
<1> DEFINE E == Existing("recall")  k == Newest("recall")
<1>1. k \in 0 .. MaxSegments /\ MaxSegments \in Nat
  BY NewestIsLast, FamilyNames, EvidenceAssumption DEF Places
<1>2. \A i \in 1 .. k : i \in E
  BY <1>1, NewestIsLast, FamilyNames DEF Places
<1>3. SegmentsOf("recall") \in Seq(E)
  <2>1. \A i \in 1 .. k : k + 1 - i \in 1 .. k
    BY <1>1
  <2>2. SegmentsOf("recall") \in [1 .. k -> E]
    BY <1>2, <2>1 DEF SegmentsOf
  <2> QED
    BY <1>1, <2>2
<1>4. ActiveOf("recall") \in Seq(E)
  BY DEF ActiveOf
<1> QED
  BY <1>3, <1>4

(***************************************************************************)
(* Archives are only added to; steps of one process that write no log.     *)
(***************************************************************************)
LEMMA Unarchived == \A d \in Destinations : archive[d] = NoArchive => ArchivedEvidence(d) = {}
BY DEF ArchivedEvidence, NoArchive

LEMMA InitInv == Init => EvidenceInv
<1> SUFFICES ASSUME Init PROVE EvidenceInv
  OBVIOUS
<1> USE EvidenceAssumption
<1>1. RunsTypeOK
  BY DEF Init, RunsTypeOK, Remembers, Fields, Idle, Record, Form
<1>2. PICK split \in 0 .. LegacyRecords :
          file = [f \in Families |-> [n \in Places |->
                    CASE f = "recall" /\ n = 0 /\ split < LegacyRecords ->
                            Holding(Queries(split + 1 .. LegacyRecords), LegacyRecords - split)
                      [] f = "recall" /\ n = 1 /\ split > 0 -> Holding(Queries(1 .. split), split)
                      [] OTHER -> NoFile]]
  BY DEF Init
<1>3. \A i, j \in Nat : Queries(i .. j) \subseteq Record
  BY DEF Queries, Record, Form
<1>4. \A i, j, k \in Nat : IsContent(Holding(Queries(i .. j), k))
  BY <1>3 DEF IsContent, Holding
<1>5. \A f \in Families : \A n \in Places : IsContent(file[f][n])
  <2> SUFFICES ASSUME NEW f \in Families, NEW n \in Places PROVE IsContent(file[f][n])
    OBVIOUS
  <2>1. CASE f = "recall" /\ n = 0 /\ split < LegacyRecords
    <3>1. file[f][n] = Holding(Queries(split + 1 .. LegacyRecords), LegacyRecords - split)
      BY <1>2, <2>1
    <3>2. split + 1 \in Nat /\ LegacyRecords \in Nat /\ LegacyRecords - split \in Nat
      OBVIOUS
    <3> QED
      BY <1>4, <3>1, <3>2
  <2>2. CASE f = "recall" /\ n = 1 /\ split > 0
    <3>1. file[f][n] = Holding(Queries(1 .. split), split)
      BY <1>2, <2>2
    <3> QED
      BY <1>4, <3>1
  <2>3. CASE ~(f = "recall" /\ n = 0 /\ split < LegacyRecords) /\ ~(f = "recall" /\ n = 1 /\ split > 0)
    BY <1>2, <2>3, NoFileIsContent
  <2> QED
    BY <2>1, <2>2, <2>3
<1>6. FilesTypeOK
  BY <1>2, <1>5 DEF Init, FilesTypeOK
<1>7. NoGaps
  <2>1. \A f \in Families : \A n \in Places \ {0} :
            file[f][n].there <=> f = "recall" /\ n = 1 /\ split > 0
    BY <1>2 DEF Holding, NoFile, Places
  <2>2. ASSUME NEW f \in Families
        PROVE  \E k \in Places : \A m \in Places \ {0} : m \in Existing(f) <=> m <= k
    <3>1. CASE f = "recall" /\ split > 0 /\ MaxSegments > 0
      <4>1. \A m \in Places \ {0} : m \in Existing(f) <=> m <= 1
        BY <2>1, <3>1 DEF Existing, Places
      <4> QED
        BY <3>1, <4>1 DEF Places
    <3>2. CASE ~(f = "recall" /\ split > 0 /\ MaxSegments > 0)
      <4>1. \A m \in Places \ {0} : m \in Existing(f) <=> m <= 0
        BY <2>1, <3>2 DEF Existing, Places
      <4> QED
        BY <4>1 DEF Places
    <3> QED
      BY <3>1, <3>2
  <2> QED
    BY <2>2 DEF NoGaps
<1>8. \A p \in Processes : run[p] = Idle
  BY DEF Init
<1> QED
  BY <1>1, <1>6, <1>7, <1>8 DEF EvidenceInv, WritersLock, RedactionsLock, At, Appending, Idle

\* A process moves, and takes up no line to write and no file to replace.
LEMMA MoveKeeps ==
    ASSUME EvidenceInv, NEW p \in Processes,
           UNCHANGED file,
           archive' = [d \in Destinations |-> archive'[d]],
           \A d \in Destinations : ArchivedEvidence(d) \subseteq ArchivedEvidence(d)',
           lock' = lock \/ lock' = Unlocked(p),
           run' = [run EXCEPT ![p] = run'[p]],
           Remembers(run'[p]),
           run'[p].at \notin {"write", "replace"},
           run'[p].at = "append" => run'[p].then = "idle",
           calls' \in Nat, commands' \in Nat
    PROVE  EvidenceInv'
<1> USE DEF EvidenceInv
<1>1. \A q \in Processes \ {p} : run'[q] = run[q]
  BY DEF RunsTypeOK
<1>2. RunsTypeOK'
  BY <1>1 DEF RunsTypeOK
<1>3. lock' = [f \in Families |-> lock'[f]]
  BY DEF FilesTypeOK, Unlocked
<1>4. FilesTypeOK'
  BY <1>3 DEF FilesTypeOK
<1>5. NoGaps'
  BY DEF NoGaps, Existing
<1>6. \A f \in Families : \A q \in Processes \ {p} : lock[f] = q => lock'[f] = q
  BY EvidenceAssumption DEF Unlocked, Processes
<1>7. WritersLock'
  <2> SUFFICES ASSUME NEW q \in Processes, At(q, "write")' PROVE lock'[run'[q].family] = q
    BY DEF WritersLock
  <2>1. q # p /\ At(q, "write") /\ run'[q] = run[q]
    BY <1>1 DEF At
  <2>2. run[q].family \in Families
    BY <2>1 DEF RunsTypeOK, Remembers, Fields, At
  <2> QED
    BY <1>6, <2>1, <2>2 DEF WritersLock
<1>8. ASSUME NEW q \in Processes \ {p}, Redacting(q) PROVE Redacting(q)'
  <2>1. lock'["recall"] = q
    BY <1>6, <1>8, FamilyNames DEF Redacting
  <2> QED
    BY <1>1, <1>8, <2>1 DEF Redacting, Existing
<1>9. RedactionsLock'
  BY <1>1, <1>8 DEF RedactionsLock, At, Appending
<1> QED
  BY <1>2, <1>4, <1>5, <1>7, <1>9

LEMMA QuietKeeps ==
    ASSUME EvidenceInv, NEW p \in Processes,
           UNCHANGED <<file, archive>>,
           lock' = lock \/ lock' = Unlocked(p),
           run' = [run EXCEPT ![p] = run'[p]],
           Remembers(run'[p]),
           run'[p].at \notin {"write", "replace"},
           run'[p].at = "append" => run'[p].then = "idle",
           calls' \in Nat, commands' \in Nat
    PROVE  EvidenceInv'
<1>1. archive' = [d \in Destinations |-> archive'[d]]
  BY DEF EvidenceInv, FilesTypeOK
<1>2. \A d \in Destinations : ArchivedEvidence(d) \subseteq ArchivedEvidence(d)'
  BY DEF ArchivedEvidence
<1> QED
  BY <1>1, <1>2, MoveKeeps

LEMMA EndKeeps ==
    ASSUME EvidenceInv, NEW p \in Processes, Ends(p), UNCHANGED <<file, archive>>,
           calls' \in Nat, commands' \in Nat
    PROVE  EvidenceInv'
<1>1. run' = [run EXCEPT ![p] = run'[p]] /\ run'[p] = Idle
  BY DEF EvidenceInv, RunsTypeOK, Ends
<1>2. Remembers(Idle) /\ Idle.at = "idle"
  BY DEF Remembers, Fields, Idle, Record, Form
<1> QED
  BY <1>1, <1>2, QuietKeeps DEF Ends

\* A process turns to an append after which it does no more than end.
LEMMA AppendKeeps ==
    ASSUME EvidenceInv, NEW p \in Processes, NEW f \in Families, NEW r \in Record,
           Appends(p, f, r, "idle"), UNCHANGED <<file, archive>>,
           lock' = lock \/ lock' = Unlocked(p),
           calls' \in Nat, commands' \in Nat
    PROVE  EvidenceInv'
<1>1. /\ run' = [run EXCEPT ![p] = run'[p]]
      /\ Remembers(run'[p])
      /\ run'[p].at = "append" /\ run'[p].then = "idle"
  BY DEF EvidenceInv, RunsTypeOK, Remembers, Fields, Appends
<1> QED
  BY <1>1, QuietKeeps

LEMMA ReceiptIsRecord ==
    ASSUME EvidenceInv, NEW o \in Processes, NEW status \in Form
    PROVE  Receipt(o, status) \in Record
BY DEF EvidenceInv, RunsTypeOK, Remembers, Fields, Receipt, Record

LEMMA LogKeeps ==
    ASSUME EvidenceInv, NEW s \in Servers, NEW f \in Families, Log(s, f)
    PROVE  EvidenceInv'
<1>1. [id |-> LegacyRecords + calls + 1, form |-> "event"] \in Record
  BY EvidenceAssumption DEF EvidenceInv, RunsTypeOK, Record, Form
<1>2. s \in Processes /\ calls' \in Nat /\ commands' \in Nat
  BY DEF Log, EvidenceInv, RunsTypeOK, Processes
<1>3. /\ Appends(s, f, [id |-> LegacyRecords + calls + 1, form |-> "event"], "idle")
      /\ UNCHANGED <<file, archive, lock>>
  BY DEF Log
<1> QED
  BY <1>1, <1>2, <1>3, AppendKeeps

LEMMA CollectKeeps ==
    ASSUME EvidenceInv, NEW o \in Operators, NEW kind, NEW order, NEW d, Collect(o, kind, order, d)
    PROVE  EvidenceInv'
<1>1. /\ run' = [run EXCEPT ![o] = run'[o]]
      /\ Remembers(run'[o])
      /\ run'[o].at = "list"
  <2> DEFINE r == [Idle EXCEPT !.at = "list", !.kind = kind, !.order = order,
                              !.to = d, !.number = commands + 1]
  <2>1. run' = [run EXCEPT ![o] = r]
    BY DEF Collect
  <2>2. Remembers(r) /\ r.at = "list"
    BY DEF EvidenceInv, RunsTypeOK, Remembers, Fields, Idle, Record, Form
  <2> HIDE DEF r
  <2> QED
    BY <2>1, <2>2 DEF EvidenceInv, RunsTypeOK, Processes
<1> QED
  BY <1>1, QuietKeeps DEF Collect, Begin, EvidenceInv, RunsTypeOK, Processes

\* Plans and copies only read.
LEMMA ReadKeeps ==
    ASSUME EvidenceInv, NEW o \in Operators,
           \/ ListActive(o) \/ ListSegments(o) \/ Hash(o) \/ StartCopies(o) \/ Copy(o)
    PROVE  EvidenceInv'
<1> USE DEF EvidenceInv, RunsTypeOK, Processes, counters
<1>1. CASE ListActive(o)
  <2>1. run' = [run EXCEPT ![o] = run'[o]] /\ Remembers(run'[o]) /\ run'[o].at = "glob"
    BY <1>1 DEF ListActive, Remembers, Fields
  <2> QED
    BY <1>1, <2>1, QuietKeeps DEF ListActive
<1>2. CASE ListSegments(o)
  <2>1. run' = [run EXCEPT ![o] = run'[o]] /\ Remembers(run'[o]) /\ run'[o].at = "list"
    BY <1>2 DEF ListSegments, Remembers, Fields
  <2> QED
    BY <1>2, <2>1, QuietKeeps DEF ListSegments
<1>3. CASE Hash(o) /\ UNCHANGED lock
  <2>1. CASE ~Ends(o)
    <3>1. run' = [run EXCEPT ![o] = run'[o]] /\ Remembers(run'[o]) /\ run'[o].at = "list"
      BY <1>3, <2>1 DEF Hash, Remembers, Fields, At
    <3> QED
      BY <1>3, <3>1, QuietKeeps DEF Hash
  <2>2. CASE Ends(o)
    BY <1>3, <2>2, EndKeeps DEF Hash
  <2> QED
    BY <2>1, <2>2
<1>4. CASE Hash(o) /\ ~UNCHANGED lock
  BY <1>4, EndKeeps DEF Hash
<1>5. CASE StartCopies(o)
  <2>1. run' = [run EXCEPT ![o] = run'[o]] /\ Remembers(run'[o]) /\ run'[o].at = "copy"
    BY <1>5 DEF StartCopies, Remembers, Fields
  <2> QED
    BY <1>5, <2>1, QuietKeeps DEF StartCopies
<1>6. CASE Copy(o)
  <2>1. CASE ~Ends(o)
    <3>1. run' = [run EXCEPT ![o] = run'[o]] /\ Remembers(run'[o]) /\ run'[o].at = "copy"
      BY <1>6, <2>1 DEF Copy, Remembers, Fields, At
    <3> QED
      BY <1>6, <2>1, <3>1, QuietKeeps DEF Copy
  <2>2. CASE Ends(o)
    BY <1>6, <2>2, EndKeeps DEF Copy
  <2> QED
    BY <2>1, <2>2
<1> QED
  BY <1>1, <1>2, <1>3, <1>4, <1>5, <1>6

LEMMA PublishKeeps ==
    ASSUME EvidenceInv, NEW o \in Operators, Publish(o)
    PROVE  EvidenceInv'
<1>1. archive' = [d \in Destinations |-> archive'[d]]
  BY DEF EvidenceInv, FilesTypeOK, Publish
<1>2. \A d \in Destinations : ArchivedEvidence(d) \subseteq ArchivedEvidence(d)'
  <2> SUFFICES ASSUME NEW d \in Destinations PROVE ArchivedEvidence(d) \subseteq ArchivedEvidence(d)'
    OBVIOUS
  <2>1. CASE archive[d] = NoArchive
    BY <2>1, Unarchived
  <2>2. CASE archive[d] # NoArchive
    <3>1. archive'[d] = archive[d]
      BY <2>2 DEF Publish, Free, EvidenceInv, FilesTypeOK
    <3> QED
      BY <3>1 DEF ArchivedEvidence
  <2> QED
    BY <2>1, <2>2
<1>3. run' = [run EXCEPT ![o] = run'[o]] /\ run'[o] = Idle
  BY DEF EvidenceInv, RunsTypeOK, Publish, Ends, Processes
<1>4. Remembers(Idle) /\ Idle.at = "idle"
  BY DEF Remembers, Fields, Idle, Record, Form
<1> QED
  BY <1>1, <1>2, <1>3, <1>4, MoveKeeps DEF Publish, Ends, counters, EvidenceInv, RunsTypeOK, Processes

\* The command ends, or has one receipt left to write.
LEMMA FinishKeeps ==
    ASSUME EvidenceInv, NEW o \in Operators,
           PrintPlan(o) \/ Refuse(o) \/ Acknowledge(o) \/ ReplaceFails(o) \/ Complete(o)
    PROVE  EvidenceInv'
<1>1. o \in Processes /\ calls' \in Nat /\ commands' \in Nat /\ UNCHANGED <<file, archive>>
  BY DEF PrintPlan, Refuse, Acknowledge, ReplaceFails, Complete, counters, EvidenceInv,
         RunsTypeOK, Processes
<1>2. \A status \in {"acknowledged", "aborted", "completed"} : Receipt(o, status) \in Record
  BY <1>1, ReceiptIsRecord DEF Form
<1>3. CASE Ends(o)
  BY <1>1, <1>3, EndKeeps
<1>4. CASE Appends(o, "acknowledgement", Receipt(o, "acknowledged"), "idle") /\ UNCHANGED lock
  BY <1>1, <1>2, <1>4, AppendKeeps, FamilyNames
<1>5. CASE Appends(o, "disposition", Receipt(o, "aborted"), "idle") /\ UNCHANGED lock
  BY <1>1, <1>2, <1>5, AppendKeeps, FamilyNames
<1>6. CASE Appends(o, "disposition", Receipt(o, "completed"), "idle") /\ UNCHANGED lock
  BY <1>1, <1>2, <1>6, AppendKeeps, FamilyNames
<1> QED
  BY <1>3, <1>4, <1>5, <1>6 DEF PrintPlan, Refuse, Acknowledge, ReplaceFails, Complete

LEMMA KillKeeps ==
    ASSUME EvidenceInv, NEW p \in Processes, Kill(p)
    PROVE  EvidenceInv'
BY EndKeeps DEF Kill, EvidenceInv, RunsTypeOK

(***************************************************************************)
(* Steps that write.                                                       *)
(***************************************************************************)
\* A process writes to a family that it locks or has locked; it may be a redaction
\* that writes a receipt and goes on.
GoesOn(p) ==
    /\ Appending(run[p]) /\ run[p].then # "idle"
    /\ run'[p].to = run[p].to /\ run'[p].todo = run[p].todo /\ run'[p].made = run[p].made
    /\ lock'["recall"] = lock["recall"]
    /\ Appending(run'[p]) => run'[p].then = run[p].then /\ run'[p].family = run[p].family

GoodFamily(new) ==
    /\ new = [n \in Places |-> new[n]] /\ \A n \in Places : IsContent(new[n])
    /\ \E k \in Places : \A m \in Places \ {0} : new[m].there <=> m <= k

WriterStep(p, g, new) ==
    /\ Appending(run[p]) /\ g = run[p].family /\ lock[g] \in {None, p}
    /\ file' = [file EXCEPT ![g] = new]
    /\ GoodFamily(new)
    /\ UNCHANGED archive
    /\ lock' = [f \in Families |-> lock'[f]]
    /\ \A f \in Families : \A q \in Processes \ {p} : lock[f] = q => lock'[f] = q
    /\ run' = [run EXCEPT ![p] = run'[p]]
    /\ Remembers(run'[p])
    /\ run'[p].at = "write" => lock'[run'[p].family] = p
    /\ run'[p].at = "replace" \/ (Appending(run'[p]) /\ run'[p].then # "idle") => GoesOn(p)
    /\ calls' \in Nat /\ commands' \in Nat

LEMMA WriterKeeps ==
    ASSUME EvidenceInv, NEW p \in Processes, NEW g, NEW new, WriterStep(p, g, new)
    PROVE  EvidenceInv'
<1> USE DEF EvidenceInv, WriterStep, GoodFamily
<1>1. \A q \in Processes \ {p} : run'[q] = run[q]
  BY DEF RunsTypeOK
<1>2. RunsTypeOK'
  BY <1>1 DEF RunsTypeOK
<1>3. g \in Families
  BY DEF RunsTypeOK, Remembers, Appending
<1>4. file'[g] = new /\ \A f \in Families \ {g} : file'[f] = file[f]
  BY <1>3 DEF FilesTypeOK
<1>5. FilesTypeOK'
  <2>1. \A f \in Families : \A n \in Places : IsContent(file'[f][n])
    BY <1>4 DEF FilesTypeOK
  <2>2. \A f \in Families : file'[f] = [n \in Places |-> file'[f][n]]
    BY <1>4 DEF FilesTypeOK
  <2>3. file' = [f \in Families |-> file'[f]]
    BY DEF FilesTypeOK
  <2>4. file' = [f \in Families |-> [n \in Places |-> file'[f][n]]]
    BY <2>2, <2>3
  <2>5. \A f \in Families : \A n \in Places : IsContent(file[f][n])'
    BY <2>1 DEF IsContent
  <2> QED
    BY <2>4, <2>5 DEF FilesTypeOK
<1>6. NoGaps'
  <2>1. \A m \in Places : m \in Existing(g)' <=> new[m].there
    BY <1>4 DEF Existing
  <2>2. \A f \in Families \ {g} : Existing(f)' = Existing(f)
    BY <1>4 DEF Existing
  <2>3. ASSUME NEW f \in Families
        PROVE  \E k \in Places : \A m \in Places \ {0} : m \in Existing(f)' <=> m <= k
    <3>1. CASE f = g
      BY <2>1, <3>1
    <3>2. CASE f # g
      BY <2>2, <3>2 DEF NoGaps
    <3> QED
      BY <3>1, <3>2
  <2> QED
    BY <2>3 DEF NoGaps
<1>7. WritersLock'
  <2> SUFFICES ASSUME NEW q \in Processes, At(q, "write")' PROVE lock'[run'[q].family] = q
    BY DEF WritersLock
  <2>1. CASE q = p
    BY <2>1 DEF At
  <2>2. CASE q # p
    <3>1. run'[q] = run[q] /\ At(q, "write")
      BY <1>1, <2>2 DEF At
    <3>2. run[q].family \in Families
      BY <3>1 DEF RunsTypeOK, Remembers, At
    <3> QED
      BY <2>2, <3>1, <3>2 DEF WritersLock
  <2> QED
    BY <2>1, <2>2
\* Whoever redacts has the recall lock, so this is another family.
<1>8. ASSUME NEW q \in Processes, Redacting(q), q = p => run[p].then # "idle",
             lock'["recall"] = q,
             run'[q].to = run[q].to, run'[q].todo = run[q].todo, run'[q].made = run[q].made
      PROVE  Redacting(q)'
  <2>1. g # "recall"
    <3>1. q # None /\ lock["recall"] = q
      BY <1>8, EvidenceAssumption DEF Redacting, Processes
    <3>2. q = p => g = "disposition"
      BY <1>8 DEF RedactionsLock
    <3> QED
      BY <3>1, <3>2
  <2>2. file'["recall"] = file["recall"]
    BY <1>4, <2>1, FamilyNames
  <2>3. Existing("recall")' = Existing("recall")
    BY <2>2 DEF Existing
  <2>4. \A d : ArchivedEvidence(d)' = ArchivedEvidence(d)
    BY DEF ArchivedEvidence
  <2> QED
    BY <1>8, <2>2, <2>3, <2>4 DEF Redacting
<1>9. ASSUME NEW q \in Processes \ {p}, Redacting(q) PROVE Redacting(q)'
  <2>1. lock'["recall"] = q
    BY <1>9, FamilyNames DEF Redacting
  <2> QED
    BY <1>1, <1>8, <1>9, <2>1
<1>10. ASSUME GoesOn(p) PROVE Redacting(p)'
  <2>1. Redacting(p)
    BY <1>10 DEF RedactionsLock, GoesOn
  <2> QED
    BY <1>8, <1>10, <2>1 DEF GoesOn, Redacting
<1>11. RedactionsLock'
  <2> SUFFICES ASSUME NEW q \in Processes
               PROVE  /\ At(q, "replace")' => Redacting(q)'
                      /\ Appending(run'[q]) /\ run'[q].then # "idle" =>
                            /\ run'[q].then = "replace" /\ run'[q].family = "disposition"
                            /\ Redacting(q)'
    BY DEF RedactionsLock, Appending
  <2>1. CASE q = p
    BY <1>10, <2>1 DEF At, GoesOn, RedactionsLock
  <2>2. CASE q # p
    BY <1>1, <1>9, <2>2 DEF At, RedactionsLock, Appending
  <2> QED
    BY <2>1, <2>2
<1> QED
  BY <1>2, <1>5, <1>6, <1>7, <1>11

\* A rotation moves the active file to the place behind the newest segment.
LEMMA RotatedShape ==
    ASSUME EvidenceInv, NEW g \in Families, MaxSegments \notin Existing(g), Rotated(g) # file[g]
    PROVE  /\ 0 \in Places /\ Newest(g) \in Nat /\ Newest(g) + 1 \in Places
           /\ file[g][0].there /\ ~file[g][Newest(g) + 1].there
           /\ Rotated(g) = [n \in Places |-> IF n = 0 THEN NoFile
                                            ELSE IF n = Newest(g) + 1 THEN file[g][0]
                                            ELSE file[g][n]]
<1> USE DEF EvidenceInv
<1> DEFINE k == Newest(g)
<1>1. /\ k \in 0 .. MaxSegments /\ MaxSegments \in Nat
      /\ \A m \in Places \ {0} : file[g][m].there <=> m <= k
  BY NewestIsLast, EvidenceAssumption DEF Places, Existing
<1>2. file[g] = [n \in Places |-> file[g][n]] /\ \A n \in Places : IsContent(file[g][n])
  BY DEF FilesTypeOK
<1>3. 0 \in Places /\ file[g][0].there
  <2>1. 0 \in Places /\ file[g][0].size # 0
    BY <1>1 DEF Rotated, Places
  <2>2. NoFile.size = 0
    BY DEF NoFile
  <2> QED
    BY <1>2, <2>1, <2>2 DEF IsContent
<1>4. k < MaxSegments
  <2>1. MaxSegments # 0
    BY <1>3 DEF Existing
  <2> QED
    BY <1>1, <2>1 DEF Existing, Places
<1>5. k + 1 \in Places /\ k + 1 # 0 /\ ~file[g][k + 1].there
  BY <1>1, <1>4 DEF Places
<1>6. Rotated(g) = [file[g] EXCEPT ![k + 1] = file[g][0], ![0] = NoFile]
  BY DEF Rotated, FreeSegment
<1> QED
  BY <1>1, <1>2, <1>3, <1>5, <1>6

LEMMA RotatedKeeps ==
    ASSUME EvidenceInv, NEW g \in Families, MaxSegments \notin Existing(g)
    PROVE  /\ GoodFamily(Rotated(g))
           /\ \A n \in Places : \E m \in Places : file[g][n].records \subseteq Rotated(g)[m].records
<1> USE DEF EvidenceInv, GoodFamily
<1> DEFINE k == Newest(g)
<1>1. /\ k \in 0 .. MaxSegments /\ MaxSegments \in Nat
      /\ \A m \in Places \ {0} : file[g][m].there <=> m <= k
  BY NewestIsLast, EvidenceAssumption DEF Places, Existing
<1>2. file[g] = [n \in Places |-> file[g][n]] /\ \A n \in Places : IsContent(file[g][n])
  BY DEF FilesTypeOK
<1>3. CASE Rotated(g) = file[g]
  BY <1>1, <1>2, <1>3 DEF Places
<1>4. CASE Rotated(g) # file[g]
  <2>1. /\ 0 \in Places /\ k + 1 \in Places /\ k + 1 # 0
        /\ file[g][0].there /\ ~file[g][k + 1].there
        /\ Rotated(g) = [n \in Places |-> IF n = 0 THEN NoFile
                                         ELSE IF n = k + 1 THEN file[g][0] ELSE file[g][n]]
    BY <1>1, <1>4, RotatedShape
  <2>2. \A n \in Places : IsContent(Rotated(g)[n])
    BY <1>2, <2>1, NoFileIsContent
  <2>3. \A m \in Places \ {0} : Rotated(g)[m].there <=> m <= k + 1
    BY <1>1, <2>1 DEF Places
  <2>4. ASSUME NEW n \in Places
        PROVE  \E m \in Places : file[g][n].records \subseteq Rotated(g)[m].records
    <3>1. CASE n = 0
      <4>1. Rotated(g)[k + 1] = file[g][0]
        BY <2>1
      <4>2. file[g][n].records \subseteq Rotated(g)[k + 1].records
        BY <3>1, <4>1
      <4> QED
        BY <2>1, <4>2
    <3>2. CASE n = k + 1
      <4>1. file[g][n] = NoFile
        BY <1>2, <2>1, <3>2 DEF IsContent
      <4> QED
        BY <4>1 DEF NoFile
    <3>3. CASE n # 0 /\ n # k + 1
      BY <2>1, <3>3
    <3> QED
      BY <3>1, <3>2, <3>3
  <2> QED
    BY <2>1, <2>2, <2>3, <2>4
<1> QED
  BY <1>3, <1>4

\* What a step does to a log that has all it had and more.
Kept == \A f \in Families : RecordsOf(f) \subseteq RecordsOf(f)'

LEMMA KeptFamily ==
    ASSUME EvidenceInv, NEW g \in Families, NEW new,
           file' = [file EXCEPT ![g] = new],
           \A n \in Places : \E m \in Places : file[g][n].records \subseteq new[m].records
    PROVE  Kept
<1>1. file'[g] = new /\ \A f \in Families \ {g} : file'[f] = file[f]
  BY DEF EvidenceInv, FilesTypeOK
<1> QED
  BY <1>1 DEF Kept, RecordsOf

LEMMA LockAndRotateKeeps ==
    ASSUME EvidenceInv, NEW p \in Processes, LockAndRotate(p)
    PROVE  EvidenceInv' /\ Kept
<1> DEFINE g == run[p].family
<1>1. /\ Appending(run[p]) /\ g \in Families /\ lock[g] = None /\ MaxSegments \notin Existing(g)
  BY DEF LockAndRotate, EvidenceInv, RunsTypeOK, Remembers, At, Appending
<1>2. /\ file' = [file EXCEPT ![g] = Rotated(g)]
      /\ lock' = [lock EXCEPT ![g] = p]
      /\ run' = [run EXCEPT ![p].at = "write"]
      /\ UNCHANGED <<archive, calls, commands>>
  BY DEF LockAndRotate, counters
<1>3. /\ run' = [run EXCEPT ![p] = run'[p]]
      /\ Remembers(run'[p])
      /\ run'[p].at = "write" /\ run'[p].family = g /\ run'[p].then = run[p].then
      /\ run'[p].to = run[p].to /\ run'[p].todo = run[p].todo /\ run'[p].made = run[p].made
  BY <1>1, <1>2 DEF EvidenceInv, RunsTypeOK, Remembers, Fields
<1>4. /\ lock' = [f \in Families |-> lock'[f]]
      /\ lock'[g] = p
      /\ \A f \in Families \ {g} : lock'[f] = lock[f]
  BY <1>1, <1>2 DEF EvidenceInv, FilesTypeOK
<1>5. \A f \in Families : \A q \in Processes \ {p} : lock[f] = q => lock'[f] = q
  BY <1>1, <1>4, EvidenceAssumption DEF Processes
<1>6. run[p].then # "idle" => GoesOn(p)
  BY <1>1, <1>3, <1>4, FamilyNames DEF GoesOn, EvidenceInv, RedactionsLock
<1>7. Kept
  BY <1>1, <1>2, RotatedKeeps, KeptFamily
<1>8. calls' \in Nat /\ commands' \in Nat
  BY <1>2 DEF EvidenceInv, RunsTypeOK
<1>9. EvidenceInv'
  <2>1. WriterStep(p, g, Rotated(g))
    BY <1>1, <1>2, <1>3, <1>4, <1>5, <1>6, <1>8, RotatedKeeps DEF WriterStep, Appending
  <2> QED
    BY <2>1, WriterKeeps
<1> QED
  BY <1>7, <1>9

\* A write to the active file takes no record away, whether it fails or not.
LEMMA ActiveKeeps ==
    ASSUME EvidenceInv, NEW g \in Families, NEW left, IsContent(left),
           file[g][0].records \subseteq left.records
    PROVE  /\ GoodFamily([file[g] EXCEPT ![0] = left])
           /\ \A n \in Places : \E m \in Places :
                 file[g][n].records \subseteq [file[g] EXCEPT ![0] = left][m].records
<1> DEFINE new == [file[g] EXCEPT ![0] = left]
<1>1. file[g] = [n \in Places |-> file[g][n]] /\ \A n \in Places : IsContent(file[g][n])
  BY DEF EvidenceInv, FilesTypeOK
<1>2. /\ new = [n \in Places |-> IF n = 0 THEN left ELSE file[g][n]]
  BY <1>1
<1>3. \A n \in Places : new[n] = IF n = 0 THEN left ELSE file[g][n]
  BY <1>2
<1>4. \A n \in Places : file[g][n].records \subseteq new[n].records
  BY <1>3
<1>5. new = [n \in Places |-> new[n]] /\ \A n \in Places : IsContent(new[n])
  BY <1>1, <1>2, <1>3
<1>6. \E k \in Places : \A m \in Places \ {0} : new[m].there <=> m <= k
  BY <1>3, NewestIsLast DEF Existing, EvidenceInv
<1> HIDE DEF new
<1>7. GoodFamily(new)
  BY <1>5, <1>6 DEF GoodFamily
<1>8. \A n \in Places : \E m \in Places : file[g][n].records \subseteq new[m].records
  BY <1>4
<1> QED
  BY <1>7, <1>8 DEF new

LEMMA ActiveExists == ASSUME EvidenceInv, NEW g \in Families PROVE IsContent(file[g][0])
BY EvidenceAssumption DEF EvidenceInv, FilesTypeOK, Places

LEMMA IdleRemembers == Remembers(Idle) /\ Idle.at = "idle"
BY DEF Remembers, Fields, Idle, Record, Form

LEMMA LocksGiven ==
    ASSUME EvidenceInv, NEW p \in Processes
    PROVE  /\ Unlocked(p) = [f \in Families |-> Unlocked(p)[f]]
           /\ \A f \in Families : \A q \in Processes \ {p} : lock[f] = q => Unlocked(p)[f] = q
BY DEF Unlocked

LEMMA WriteKeeps ==
    ASSUME EvidenceInv, NEW p \in Processes, Write(p)
    PROVE  EvidenceInv' /\ Kept
<1> DEFINE g == run[p].family
           left == Extended(file[g][0], {run[p].record}, TRUE)
           new == [file[g] EXCEPT ![0] = left]
<1>1. /\ Appending(run[p]) /\ g \in Families /\ lock[g] = p
      /\ run[p].record \in Record
  BY DEF Write, EvidenceInv, RunsTypeOK, WritersLock, Remembers, At, Appending
<1>2. IsContent(left) /\ file[g][0].records \subseteq left.records
  BY <1>1, ActiveExists, ExtendedKeeps
<1>3. file' = [file EXCEPT ![g] = new] /\ UNCHANGED <<archive, calls, commands>>
  BY DEF Write, counters
<1> HIDE DEF left
<1>4. GoodFamily(new) /\ Kept
  BY <1>1, <1>2, <1>3, ActiveKeeps, KeptFamily
<1> HIDE DEF new
<1>5. calls' \in Nat /\ commands' \in Nat
  BY <1>3 DEF EvidenceInv, RunsTypeOK
<1>6. CASE run[p].then = "idle"
  <2>1. run' = [run EXCEPT ![p] = Idle] /\ lock' = Unlocked(p)
    BY <1>6 DEF Write, Ends
  <2>2. run' = [run EXCEPT ![p] = run'[p]] /\ run'[p] = Idle
    BY <2>1 DEF EvidenceInv, RunsTypeOK
  <2>3. WriterStep(p, g, new)
    BY <1>1, <1>3, <1>4, <1>5, <2>1, <2>2, IdleRemembers, LocksGiven DEF WriterStep, Appending
  <2> QED
    BY <1>4, <2>3, WriterKeeps
<1>7. CASE run[p].then # "idle"
  <2>1. run' = [run EXCEPT ![p].at = run[p].then] /\ lock' = [lock EXCEPT ![g] = None]
    BY <1>7 DEF Write
  <2>2. run[p].then = "replace" /\ g = "disposition"
    BY <1>1, <1>7 DEF EvidenceInv, RedactionsLock
  <2>3. /\ run' = [run EXCEPT ![p] = run'[p]]
        /\ Remembers(run'[p])
        /\ run'[p].at = "replace"
        /\ run'[p].to = run[p].to /\ run'[p].todo = run[p].todo /\ run'[p].made = run[p].made
    BY <2>1, <2>2 DEF EvidenceInv, RunsTypeOK, Remembers, Fields
  <2>4. /\ lock' = [f \in Families |-> lock'[f]]
        /\ \A f \in Families \ {g} : lock'[f] = lock[f]
    BY <1>1, <2>1 DEF EvidenceInv, FilesTypeOK
  <2>5. \A f \in Families : \A q \in Processes \ {p} : lock[f] = q => lock'[f] = q
    BY <1>1, <2>4
  <2>6. GoesOn(p)
    BY <1>1, <1>7, <2>2, <2>3, <2>4, FamilyNames DEF GoesOn, Appending
  <2>7. WriterStep(p, g, new)
    BY <1>1, <1>3, <1>4, <1>5, <2>3, <2>4, <2>5, <2>6 DEF WriterStep
  <2> QED
    BY <1>4, <2>7, WriterKeeps
<1> QED
  BY <1>6, <1>7

LEMMA WriteFailsKeeps ==
    ASSUME EvidenceInv, NEW p \in Processes, WriteFails(p)
    PROVE  EvidenceInv' /\ Kept
<1> DEFINE g == run[p].family
<1>1. /\ Appending(run[p]) /\ g \in Families /\ lock[g] = p
      /\ run[p].record \in Record
  BY DEF WriteFails, EvidenceInv, RunsTypeOK, WritersLock, Remembers, At, Appending
<1>2. PICK left \in Leftovers(file[g][0], run[p].record) : file' = [file EXCEPT ![g][0] = left]
  BY DEF WriteFails
<1> DEFINE new == [file[g] EXCEPT ![0] = left]
<1>3. IsContent(left) /\ file[g][0].records \subseteq left.records
  BY <1>1, ActiveExists, LeftoversKeep
<1>4. file' = [file EXCEPT ![g] = new]
  BY <1>2
<1>5. GoodFamily(new) /\ Kept
  BY <1>1, <1>3, <1>4, ActiveKeeps, KeptFamily
<1> HIDE DEF new
<1>6. UNCHANGED archive /\ calls' \in Nat /\ commands' \in Nat
  BY DEF WriteFails, EvidenceInv, RunsTypeOK
<1>7. lock' = Unlocked(p)
  BY DEF WriteFails, Ends
<1>8. /\ run' = [run EXCEPT ![p] = run'[p]]
      /\ Remembers(run'[p])
      /\ run'[p].at # "write" /\ run'[p].at # "replace"
      /\ Appending(run'[p]) => run'[p].then = "idle"
  <2>1. CASE Ends(p)
    <3>1. run' = [run EXCEPT ![p] = run'[p]] /\ run'[p] = Idle
      BY <2>1 DEF Ends, EvidenceInv, RunsTypeOK
    <3> QED
      BY <3>1, IdleRemembers DEF Appending
  <2>2. CASE Appends(p, "failure", run[p].record, "idle")
    BY <1>1, <2>2, FamilyNames DEF Appends, EvidenceInv, RunsTypeOK, Remembers, Fields, Appending
  <2> QED
    BY <2>1, <2>2 DEF WriteFails
<1>9. WriterStep(p, g, new)
  BY <1>1, <1>4, <1>5, <1>6, <1>7, <1>8, LocksGiven DEF WriterStep
<1> QED
  BY <1>5, <1>9, WriterKeeps

(***************************************************************************)
(* Steps of a redaction.                                                   *)
(***************************************************************************)
\* An archive of all files of the recall family has their queries.
LEMMA ArchivedQueries ==
    ASSUME EvidenceInv, NEW d \in Destinations, NEW order, Archived(d, order),
           NEW n \in Existing("recall"), NEW r \in file["recall"][n].records
    PROVE  <<"recall", r>> \in ArchivedEvidence(d)
<1>1. PICK i \in DOMAIN archive[d].files :
          archive[d].files[i] = [family |-> "recall", place |-> n, content |-> file["recall"][n]]
  BY DEF Archived
<1> DEFINE a == archive[d].files[i]
<1>2. a.family = "recall" /\ a.content = file["recall"][n]
  BY <1>1
<1>3. r \in Readable(a.content)
  BY <1>2 DEF Readable
<1>4. <<"recall", r>> \in {a.family} \X Readable(a.content)
  BY <1>2, <1>3
<1> QED
  BY <1>4 DEF ArchivedEvidence

LEMMA RedactKeeps ==
    ASSUME EvidenceInv, NEW o \in Operators, NEW order, NEW d \in Destinations, Redact(o, order, d)
    PROVE  EvidenceInv'
<1> USE DEF EvidenceInv
<1> DEFINE r == [Idle EXCEPT
          !.at = "append", !.family = "disposition", !.then = "replace",
          !.record = [id |-> commands + 1, form |-> "prepared"],
          !.kind = "redact", !.to = d, !.number = commands + 1,
          !.todo = ActiveOf("recall") \o SegmentsOf("recall"),
          !.made = [n \in Existing("recall") |-> Redacted(file["recall"][n])]]
<1>1. /\ lock["recall"] = None /\ Archived(d, order)
      /\ lock' = [lock EXCEPT !["recall"] = o]
      /\ run' = [run EXCEPT ![o] = r]
      /\ UNCHANGED <<file, archive, calls>>
      /\ commands' = commands + 1
  BY DEF Redact, Begin
<1>2. o \in Processes /\ o # None
  BY EvidenceAssumption DEF Processes
<1>3. /\ r.at = "append" /\ r.family = "disposition" /\ r.then = "replace"
      /\ r.to = d /\ r.todo = ActiveOf("recall") \o SegmentsOf("recall")
      /\ r.made = [n \in Existing("recall") |-> Redacted(file["recall"][n])]
      /\ r.record = [id |-> commands + 1, form |-> "prepared"] /\ r.number = commands + 1
      /\ DOMAIN r = Fields
  BY DEF Idle, Fields
<1>4. Remembers(r)
  <2> HIDE DEF r
  <2>1. commands + 1 \in Nat
    BY DEF RunsTypeOK
  <2>2. r.record \in Record
    BY <1>3, <2>1 DEF Record, Form
  <2> QED
    BY <1>3, <2>1, <2>2, FamilyNames DEF Remembers
<1> HIDE DEF r
<1>5. run'[o] = r /\ \A q \in Processes \ {o} : run'[q] = run[q]
  BY <1>1, <1>2 DEF RunsTypeOK
<1>6. RunsTypeOK'
  BY <1>1, <1>2, <1>4, <1>5 DEF RunsTypeOK
<1>7. lock'["recall"] = o /\ \A f \in Families \ {"recall"} : lock'[f] = lock[f]
  BY <1>1, FamilyNames DEF FilesTypeOK
<1>8. FilesTypeOK'
  BY <1>1 DEF FilesTypeOK
<1>9. NoGaps'
  BY <1>1 DEF NoGaps, Existing
<1>10. WritersLock'
  <2> SUFFICES ASSUME NEW q \in Processes, At(q, "write")' PROVE lock'[run'[q].family] = q
    BY DEF WritersLock
  <2>1. q # o /\ run'[q] = run[q] /\ At(q, "write")
    BY <1>3, <1>5 DEF At
  <2>2. run[q].family \in Families /\ lock[run[q].family] = q /\ q # None
    BY <2>1, EvidenceAssumption DEF RunsTypeOK, Remembers, At, WritersLock, Processes
  <2> QED
    BY <1>1, <1>7, <2>1, <2>2
<1>11. \A q \in Processes : ~Redacting(q)
  BY <1>1, EvidenceAssumption DEF Redacting, Processes
<1>12. Redacting(o)'
  <2>1. Existing("recall")' = Existing("recall") /\ ArchivedEvidence(d)' = ArchivedEvidence(d)
    BY <1>1 DEF Existing, ArchivedEvidence
  <2>2. run'[o].todo \in Seq(Existing("recall"))
    BY <1>3, <1>5, SegmentsExist
  <2>3. \A n \in Existing("recall") : run'[o].made[n] = Redacted(file["recall"][n])
    BY <1>3, <1>5
  <2>4. \A n \in Existing("recall") : \A x \in file["recall"][n].records :
            <<"recall", x>> \in ArchivedEvidence(d)
    BY <1>1, ArchivedQueries
  <2>5. run'[o].to = d
    BY <1>3, <1>5
  <2> QED
    BY <1>1, <1>7, <2>1, <2>2, <2>3, <2>4, <2>5 DEF Redacting
<1>13. RedactionsLock'
  <2> SUFFICES ASSUME NEW q \in Processes
               PROVE  /\ At(q, "replace")' => Redacting(q)'
                      /\ Appending(run'[q]) /\ run'[q].then # "idle" =>
                            /\ run'[q].then = "replace" /\ run'[q].family = "disposition"
                            /\ Redacting(q)'
    BY DEF RedactionsLock, Appending
  <2>1. CASE q = o
    BY <1>3, <1>5, <1>12, <2>1
  <2>2. CASE q # o
    BY <1>5, <1>11, <2>2 DEF At, RedactionsLock, Appending
  <2> QED
    BY <2>1, <2>2
<1> QED
  BY <1>6, <1>8, <1>9, <1>10, <1>13

\* Of a redaction the log keeps every record by its id, and what it loses of them
\* an archive has.
LEMMA ReplaceKeeps ==
    ASSUME EvidenceInv, NEW o \in Operators, Replace(o)
    PROVE  /\ EvidenceInv'
           /\ \A f \in Families : Events(f) \subseteq Events(f)'
           /\ \A q \in RecordsOf("recall") :
                 q.form = "query" => \E d \in Destinations : <<"recall", q>> \in ArchivedEvidence(d)
<1> USE DEF EvidenceInv
<1> DEFINE n == Head(run[o].todo)
           old == file["recall"]
<1>1. /\ run[o].todo # <<>> /\ o \in Processes
      /\ file' = [file EXCEPT !["recall"][n] = run[o].made[n]]
      /\ run' = [run EXCEPT ![o].todo = Tail(@)]
      /\ UNCHANGED <<lock, archive, calls, commands>>
  BY DEF Replace, counters, Processes
<1>2. Redacting(o)
  BY <1>1 DEF Replace, RedactionsLock
<1>3. n \in Existing("recall") /\ Tail(run[o].todo) \in Seq(Existing("recall"))
  BY <1>1, <1>2 DEF Redacting
<1>4. n \in Places /\ old[n].there /\ IsContent(old[n]) /\ run[o].made[n] = Redacted(old[n])
  BY <1>2, <1>3, FamilyNames DEF Redacting, Existing, FilesTypeOK
<1> HIDE DEF n
<1>5. /\ file'["recall"] = [old EXCEPT ![n] = Redacted(old[n])]
      /\ \A f \in Families \ {"recall"} : file'[f] = file[f]
  BY <1>1, <1>4, FamilyNames DEF FilesTypeOK
<1>6. /\ old = [m \in Places |-> old[m]]
      /\ file'["recall"][n] = Redacted(old[n])
      /\ \A m \in Places \ {n} : file'["recall"][m] = old[m]
  BY <1>4, <1>5, FamilyNames DEF FilesTypeOK
<1>7. /\ IsContent(Redacted(old[n])) /\ Redacted(old[n]).there
      /\ Redacted(Redacted(old[n])) = Redacted(old[n])
      /\ \A r \in Redacted(old[n]).records : r.form # "query"
      /\ \A r \in old[n].records : Scrubbed(r) \in Redacted(old[n]).records
  BY <1>4, RedactedKeeps
<1>8. \A f \in Families : Existing(f)' = Existing(f)
  BY <1>4, <1>5, <1>6, <1>7 DEF Existing
<1>9. /\ run' = [run EXCEPT ![o] = run'[o]]
      /\ Remembers(run'[o])
      /\ run'[o].at = "replace" /\ run'[o].todo = Tail(run[o].todo)
      /\ run'[o].to = run[o].to /\ run'[o].made = run[o].made
  BY <1>1 DEF RunsTypeOK, Remembers, Fields, Replace, At
<1>10. \A q \in Processes \ {o} : run'[q] = run[q]
  BY <1>9 DEF RunsTypeOK
<1>11. RunsTypeOK'
  BY <1>1, <1>9, <1>10 DEF RunsTypeOK
<1>12. FilesTypeOK'
  <2>1. \A f \in Families : \A m \in Places : IsContent(file'[f][m])
    BY <1>5, <1>6, <1>7, FamilyNames DEF FilesTypeOK
  <2>2. \A f \in Families : file'[f] = [m \in Places |-> file'[f][m]]
    BY <1>5, <1>6, FamilyNames DEF FilesTypeOK
  <2>3. file' = [f \in Families |-> file'[f]]
    BY <1>1 DEF FilesTypeOK
  <2>4. file' = [f \in Families |-> [m \in Places |-> file'[f][m]]]
    BY <2>2, <2>3
  <2>5. \A f \in Families : \A m \in Places : IsContent(file[f][m])'
    BY <2>1 DEF IsContent
  <2> QED
    BY <1>1, <2>4, <2>5 DEF FilesTypeOK
<1>13. NoGaps'
  BY <1>8 DEF NoGaps
<1>14. WritersLock'
  BY <1>1, <1>9, <1>10 DEF WritersLock, At
<1>15. \A q \in Processes \ {o} : ~Redacting(q)
  BY <1>2 DEF Redacting
<1>16. Redacting(o)'
  <2>1. \A d : ArchivedEvidence(d)' = ArchivedEvidence(d)
    BY <1>1 DEF ArchivedEvidence
  <2>2. ASSUME NEW m \in Existing("recall")
        PROVE  /\ run'[o].made[m] = Redacted(file'["recall"][m])
               /\ \A r \in file'["recall"][m].records :
                     r.form = "query" => <<"recall", r>> \in ArchivedEvidence(run[o].to)
    <3>1. CASE m = n
      BY <1>4, <1>6, <1>7, <1>9, <3>1
    <3>2. CASE m # n
      BY <1>2, <1>6, <1>9, <3>2 DEF Redacting, Existing
    <3> QED
      BY <3>1, <3>2
  <2>3. \A c : Redacted(c)' = Redacted(c)
    BY DEF Redacted, Holding, Scrubbed, Readable
  <2> QED
    BY <1>1, <1>2, <1>3, <1>8, <1>9, <2>1, <2>2, FamilyNames DEF Redacting
<1>17. RedactionsLock'
  <2> SUFFICES ASSUME NEW q \in Processes
               PROVE  /\ At(q, "replace")' => Redacting(q)'
                      /\ Appending(run'[q]) /\ run'[q].then # "idle" =>
                            /\ run'[q].then = "replace" /\ run'[q].family = "disposition"
                            /\ Redacting(q)'
    BY DEF RedactionsLock, Appending
  <2>1. CASE q = o
    BY <1>9, <1>16, <2>1 DEF Appending
  <2>2. CASE q # o
    BY <1>10, <1>15, <2>2 DEF At, RedactionsLock, Appending
  <2> QED
    BY <2>1, <2>2
<1>18. ASSUME NEW f \in Families PROVE Events(f) \subseteq Events(f)'
  <2>1. CASE f # "recall"
    <3>1. RecordsOf(f)' = RecordsOf(f)
      BY <1>5, <2>1 DEF RecordsOf
    <3> QED
      BY <3>1 DEF Events, Event
  <2>2. CASE f = "recall"
    <3> SUFFICES ASSUME NEW r \in RecordsOf("recall") PROVE <<"recall", r.id, "event">> \in Events("recall")'
      BY <2>2 DEF Events, Event
    <3>1. PICK m \in Places : r \in old[m].records
      BY DEF RecordsOf
    <3>2. r \in Record
      BY <3>1, FamilyNames DEF FilesTypeOK, IsContent
    <3>3. \E x \in RecordsOf("recall")' : x.id = r.id
      <4>1. CASE m = n
        <5>1. Scrubbed(r) \in file'["recall"][n].records /\ Scrubbed(r).id = r.id
          BY <1>6, <1>7, <3>1, <3>2, <4>1, ScrubbedRecord
        <5> QED
          BY <1>4, <5>1 DEF RecordsOf
      <4>2. CASE m # n
        BY <1>6, <3>1, <4>2 DEF RecordsOf
      <4> QED
        BY <4>1, <4>2
    <3> QED
      BY <3>3 DEF Events, Event
  <2> QED
    BY <2>1, <2>2
<1>19. ASSUME NEW q \in RecordsOf("recall"), q.form = "query"
       PROVE  \E d \in Destinations : <<"recall", q>> \in ArchivedEvidence(d)
  <2>1. PICK m \in Places : q \in old[m].records
    BY DEF RecordsOf
  <2>2. m \in Existing("recall")
    <3>1. IsContent(old[m])
      BY FamilyNames DEF FilesTypeOK
    <3>2. old[m] # NoFile
      BY <2>1 DEF NoFile
    <3> QED
      BY <3>1, <3>2 DEF IsContent, Existing
  <2> QED
    BY <1>2, <1>19, <2>1, <2>2 DEF Redacting
<1> QED
  BY <1>11, <1>12, <1>13, <1>14, <1>17, <1>18, <1>19

(***************************************************************************)
(* The theorems.                                                           *)
(***************************************************************************)
LEMMA CommandKeeps ==
    ASSUME EvidenceInv, NEW o \in Operators, Command(o), ~Replace(o)
    PROVE  EvidenceInv' /\ UNCHANGED file
<1>1. EvidenceInv'
  <2>1. ASSUME NEW order, NEW d, NEW kind, Collect(o, kind, order, d) PROVE EvidenceInv'
    BY <2>1, CollectKeeps
  <2> QED
    BY <2>1, RedactKeeps, ReadKeeps, PublishKeeps, FinishKeeps DEF Command
<1>2. UNCHANGED file
  BY DEF Command, Collect, Redact, ListActive, ListSegments, Hash, PrintPlan, Refuse, Acknowledge,
         StartCopies, Copy, Publish, ReplaceFails, Complete
<1> QED
  BY <1>1, <1>2

\* Every step keeps the invariant, and either all records or what it may take
\* from the recall log.
LEMMA EveryStep ==
    ASSUME EvidenceInv, [Next]_vars
    PROVE  /\ EvidenceInv'
           /\ Kept \/ \E o \in Operators : Replace(o)
<1> USE DEF Kept
<1>1. UNCHANGED file => Kept
  BY DEF RecordsOf
<1>2. ASSUME NEW s \in Servers, Log(s, "audit") \/ Log(s, "recall")
      PROVE  EvidenceInv' /\ Kept
  BY <1>1, <1>2, LogKeeps, FamilyNames DEF Log
<1>3. ASSUME NEW o \in Operators, Command(o)
      PROVE  EvidenceInv' /\ (Kept \/ Replace(o))
  BY <1>1, <1>3, CommandKeeps, ReplaceKeeps
<1>4. ASSUME NEW p \in Processes, LockAndRotate(p) \/ Write(p) \/ WriteFails(p) \/ Kill(p)
      PROVE  EvidenceInv' /\ Kept
  <2>1. CASE Kill(p)
    BY <1>1, <2>1, KillKeeps DEF Kill
  <2> QED
    BY <1>4, <2>1, LockAndRotateKeeps, WriteKeeps, WriteFailsKeeps
<1>5. CASE UNCHANGED vars
  <2>1. RunsTypeOK' /\ FilesTypeOK' /\ NoGaps'
    BY <1>5 DEF vars, counters, EvidenceInv, RunsTypeOK, FilesTypeOK, NoGaps, Existing
  <2>2. WritersLock'
    BY <1>5 DEF vars, EvidenceInv, WritersLock, At
  <2>3. ASSUME NEW q \in Processes, Redacting(q) PROVE Redacting(q)'
    BY <1>5, <2>3 DEF vars, Redacting, Existing, ArchivedEvidence
  <2>4. RedactionsLock'
    BY <1>5, <2>3 DEF vars, EvidenceInv, RedactionsLock, At, Appending
  <2> QED
    BY <1>1, <1>5, <2>1, <2>2, <2>4 DEF vars, EvidenceInv
<1> QED
  BY <1>2, <1>3, <1>4, <1>5 DEF Next

\* At any time an append that writes has its family's lock, and a redaction has the
\* recall lock, all files of the family prepared as they still are, and an archive
\* of every query that is left: append_jsonl_durable, redact_legacy_recall_queries.
THEOREM EvidenceInvariant == Spec => []EvidenceInv
<1>1. EvidenceInv /\ [Next]_vars => EvidenceInv'
  BY EveryStep
<1> QED
  BY <1>1, InitInv, PTL DEF Spec

\* "Rotation is lossless": for any number of processes, faults and segments no step
\* takes a record from its family, and a redaction takes a query only when an
\* archive has it.
THEOREM NothingIsLost == Spec => RecordsAreKept
<1> DEFINE Step ==
       /\ \A f \in Families : Events(f) \subseteq Events(f)'
       /\ \A q \in Queries(1 .. LegacyRecords) :
            q \in RecordsOf("recall") =>
                \/ q \in RecordsOf("recall")'
                \/ \E d \in Destinations : <<"recall", q>> \in ArchivedEvidence(d)
<1>1. EvidenceInv /\ [Next]_vars => [Step]_vars
  <2> SUFFICES ASSUME EvidenceInv, [Next]_vars PROVE Step
    OBVIOUS
  <2>1. CASE Kept
    <3>1. \A f \in Families : Events(f) \subseteq Events(f)'
      BY <2>1 DEF Kept, Events, Event
    <3> QED
      BY <2>1, <3>1, FamilyNames DEF Kept
  <2>2. CASE \E o \in Operators : Replace(o)
    <3>1. \A q \in Queries(1 .. LegacyRecords) : q.form = "query"
      BY DEF Queries
    <3> QED
      BY <2>2, <3>1, ReplaceKeeps
  <2> QED
    BY <2>1, <2>2, EveryStep
<1>2. Spec => [][Step]_vars
  BY <1>1, EvidenceInvariant, PTL DEF Spec
<1> QED
  BY <1>2 DEF RecordsAreKept

(***************************************************************************)
(* Archives.  A plan visits each family's active file before its segments, *)
(* and records move from the active file to a segment only.  So what was   *)
(* there when a plan was begun is, when it is printed, in a segment or in  *)
(* the active file as the plan has it; and a second collection that finds  *)
(* the same files has read the segments that were there when it began.     *)
(***************************************************************************)
EventsOf(f, c) == {Event(f, r) : r \in c.records}

\* What a step does to the files: segments keep their events, and what leaves the
\* active file goes to one segment.
Moved(fs, gs) ==
    \A f \in Families :
        /\ \A n \in Places \ {0} : EventsOf(f, fs[f][n]) \subseteq EventsOf(f, gs[f][n])
        /\ \/ EventsOf(f, fs[f][0]) \subseteq EventsOf(f, gs[f][0])
           \/ \E k \in Places \ {0} : EventsOf(f, fs[f][0]) \subseteq EventsOf(f, gs[f][k])

InSegment(fs, e) == \E n \in Places \ {0} : e \in EventsOf(e[1], fs[e[1]][n])

\* A list of files has the event, and has it in the active file.
Has(list, e) ==
    \E i \in DOMAIN list : list[i].family = e[1] /\ e \in EventsOf(e[1], list[i].content)
HasActive(list, e) ==
    \E i \in DOMAIN list :
        /\ list[i].family = e[1] /\ list[i].place = 0
        /\ e \in EventsOf(e[1], list[i].content)

\* The family is still to be visited; the file is on the list of those to be read.
Unvisited(r, f) == \E i \in 1 .. 5 : i > r.next /\ PlanOrder[i] = f
Due(r, f, n) == PlanOrder[r.next] = f /\ \E i \in DOMAIN r.todo : r.todo[i] = n

PlanSees(r, fs, e) ==
    \/ InSegment(fs, e)
    \/ HasActive(r.found, e)
    \/ /\ e \in EventsOf(e[1], fs[e[1]][0])
       /\ Unvisited(r, e[1]) \/ Due(r, e[1], 0)

OrderSees(order, fs, e) == InSegment(fs, e) \/ HasActive(order.plan, e)

ArchiveSees(r, fs, e) ==
    \/ HasActive(r.order.plan, e)
    \/ Has(r.found, e)
    \/ \E n \in Places \ {0} :
          /\ e \in EventsOf(e[1], fs[e[1]][n])
          /\ \/ Unvisited(r, e[1])
             \/ r.at = "glob" /\ PlanOrder[r.next] = e[1]
             \/ Due(r, e[1], n)

IsSeq(s) == \E S : s \in Seq(S)

Collecting(r) == r.at \in {"list", "glob"}

CollectsOK(r) ==
    /\ r.next \in 0 .. 5 /\ r.todo \in Seq(Places) /\ IsSeq(r.found) /\ r.copied = <<>>
    /\ r.at = "glob" \/ r.todo # <<>> => r.next # 0

CopiesOK(r) ==
    /\ IsSeq(r.found) /\ IsSeq(r.copied) /\ Len(r.copied) <= Len(r.found)
    /\ \A i \in 1 .. Len(r.copied) : r.copied[i] = r.found[i]

Sees(r, fs) ==
    /\ Collecting(r) => CollectsOK(r)
    /\ Collecting(r) /\ r.kind = "plan" =>
          \A e \in r.order.evidence : e[1] \in Families /\ PlanSees(r, fs, e)
    /\ Collecting(r) /\ r.kind = "archive" =>
          \A e \in r.order.evidence : e[1] \in Families /\ ArchiveSees(r, fs, e)
    /\ r.at = "copy" => CopiesOK(r) /\ \A e \in r.order.evidence : Has(r.found, e)

ArchivesInv ==
    /\ \A p \in Processes : Sees(run[p], file)
    /\ \A order \in printed : \A e \in order.evidence : e[1] \in Families /\ OrderSees(order, file, e)
    /\ \A d \in Destinations : \A e \in archive[d].order.evidence : Has(archive[d].files, e)

\* The property of the runs, in the invariant's words.
LEMMA HasIsHeld == ArchivesInv => ArchivesHoldWhatWasPlanned
<1> SUFFICES ASSUME ArchivesInv, NEW d \in Destinations, NEW e \in archive[d].order.evidence
             PROVE  e \in UNION {{Event(a.family, r) : r \in Readable(a.content)} :
                                 a \in {archive[d].files[i] : i \in DOMAIN archive[d].files}}
  BY DEF ArchivesHoldWhatWasPlanned
<1>1. PICK i \in DOMAIN archive[d].files :
          /\ archive[d].files[i].family = e[1]
          /\ e \in EventsOf(e[1], archive[d].files[i].content)
  BY DEF ArchivesInv, Has
<1> DEFINE a == archive[d].files[i]
<1>2. PICK r \in a.content.records : e = Event(e[1], r)
  BY <1>1 DEF EventsOf
<1>3. r \in Readable(a.content) /\ e = Event(a.family, r)
  BY <1>1, <1>2 DEF Readable
<1> QED
  BY <1>3

(***************************************************************************)
(* Every step moves records in one direction only.                         *)
(***************************************************************************)
LEMMA EventsGrow ==
    ASSUME NEW f, NEW c, NEW d, c.records \subseteq d.records
    PROVE  EventsOf(f, c) \subseteq EventsOf(f, d)
BY DEF EventsOf

LEMMA FamilyMoves ==
    ASSUME EvidenceInv, NEW g \in Families, NEW new, file' = [file EXCEPT ![g] = new],
           \A n \in Places \ {0} : EventsOf(g, file[g][n]) \subseteq EventsOf(g, new[n]),
           \/ EventsOf(g, file[g][0]) \subseteq EventsOf(g, new[0])
           \/ \E k \in Places \ {0} : EventsOf(g, file[g][0]) \subseteq EventsOf(g, new[k])
    PROVE  Moved(file, file')
<1>1. file'[g] = new /\ \A f \in Families \ {g} : file'[f] = file[f]
  BY DEF EvidenceInv, FilesTypeOK
<1> QED
  BY <1>1 DEF Moved

LEMMA ActiveMoves ==
    ASSUME EvidenceInv, NEW g \in Families, NEW left, file' = [file EXCEPT ![g][0] = left],
           file[g][0].records \subseteq left.records
    PROVE  Moved(file, file')
<1> DEFINE new == [file[g] EXCEPT ![0] = left]
<1>1. file' = [file EXCEPT ![g] = new]
  OBVIOUS
<1>2. file[g] = [n \in Places |-> file[g][n]] /\ 0 \in Places
  BY EvidenceAssumption DEF EvidenceInv, FilesTypeOK, Places
<1>3. new[0] = left /\ \A n \in Places \ {0} : new[n] = file[g][n]
  BY <1>2
<1> HIDE DEF new
<1>4. EventsOf(g, file[g][0]) \subseteq EventsOf(g, new[0])
  BY <1>3, EventsGrow
<1>5. \A n \in Places \ {0} : EventsOf(g, file[g][n]) \subseteq EventsOf(g, new[n])
  BY <1>3
<1> QED
  BY <1>1, <1>4, <1>5, FamilyMoves

LEMMA RotateMoves ==
    ASSUME EvidenceInv, NEW p \in Processes, LockAndRotate(p) PROVE Moved(file, file')
<1> DEFINE g == run[p].family  k == Newest(g) + 1
<1>1. g \in Families /\ MaxSegments \notin Existing(g) /\ file' = [file EXCEPT ![g] = Rotated(g)]
  BY DEF LockAndRotate, EvidenceInv, RunsTypeOK, Remembers, At
<1>2. CASE Rotated(g) = file[g]
  BY <1>1, <1>2, FamilyMoves
<1>3. CASE Rotated(g) # file[g]
  <2>1. /\ k \in Places \ {0} /\ 0 \in Places /\ ~file[g][k].there
        /\ Rotated(g) = [n \in Places |-> IF n = 0 THEN NoFile
                                         ELSE IF n = k THEN file[g][0] ELSE file[g][n]]
    BY <1>1, <1>3, RotatedShape
  <2>2. Rotated(g)[k] = file[g][0] /\ \A n \in Places \ {0, k} : Rotated(g)[n] = file[g][n]
    BY <2>1
  <2>3. file[g][k].records = {}
    <3>1. file[g][k] = NoFile
      BY <1>1, <2>1 DEF EvidenceInv, FilesTypeOK, IsContent
    <3> QED
      BY <3>1 DEF NoFile
  <2>4. EventsOf(g, file[g][k]) \subseteq EventsOf(g, Rotated(g)[k])
    BY <2>3 DEF EventsOf
  <2>5. \A n \in Places \ {0} : EventsOf(g, file[g][n]) \subseteq EventsOf(g, Rotated(g)[n])
    BY <2>2, <2>4
  <2>6. EventsOf(g, file[g][0]) \subseteq EventsOf(g, Rotated(g)[k])
    BY <2>2
  <2> HIDE DEF k
  <2> QED
    BY <1>1, <2>1, <2>5, <2>6, FamilyMoves
<1> QED
  BY <1>2, <1>3

\* A redaction keeps the events of the file.
LEMMA RedactedEvents ==
    ASSUME NEW c, IsContent(c)
    PROVE  EventsOf("recall", c) \subseteq EventsOf("recall", Redacted(c))
<1> SUFFICES ASSUME NEW r \in c.records
             PROVE  Event("recall", r) \in EventsOf("recall", Redacted(c))
  BY DEF EventsOf
<1>1. r \in Record /\ Scrubbed(r) \in Redacted(c).records
  BY RedactedKeeps DEF IsContent
<1>2. Scrubbed(r).id = r.id
  BY <1>1, ScrubbedRecord
<1>3. Event("recall", r) = Event("recall", Scrubbed(r))
  BY <1>2 DEF Event
<1> QED
  BY <1>1, <1>3 DEF EventsOf

LEMMA ReplaceMoves ==
    ASSUME EvidenceInv, NEW o \in Operators, Replace(o) PROVE Moved(file, file')
<1> DEFINE n == Head(run[o].todo)
           new == [file["recall"] EXCEPT ![n] = run[o].made[n]]
<1>1. Redacting(o) /\ run[o].todo # <<>> /\ file' = [file EXCEPT !["recall"] = new]
  BY DEF Replace, EvidenceInv, RedactionsLock, Processes
<1>2. n \in Existing("recall")
  BY <1>1 DEF Redacting
<1>3. n \in Places /\ IsContent(file["recall"][n]) /\ run[o].made[n] = Redacted(file["recall"][n])
  BY <1>1, <1>2, FamilyNames DEF Redacting, Existing, EvidenceInv, FilesTypeOK
<1>4. file["recall"] = [m \in Places |-> file["recall"][m]]
  BY FamilyNames DEF EvidenceInv, FilesTypeOK
<1> HIDE DEF n
<1>5. new[n] = Redacted(file["recall"][n]) /\ \A m \in Places \ {n} : new[m] = file["recall"][m]
  BY <1>3, <1>4
<1> HIDE DEF new
<1>6. EventsOf("recall", file["recall"][n]) \subseteq EventsOf("recall", new[n])
  BY <1>3, <1>5, RedactedEvents
<1>7. \A m \in Places : EventsOf("recall", file["recall"][m]) \subseteq EventsOf("recall", new[m])
  BY <1>5, <1>6
<1>8. 0 \in Places
  BY EvidenceAssumption DEF Places
<1> QED
  BY <1>1, <1>7, <1>8, FamilyNames, FamilyMoves

LEMMA StepMoves == ASSUME EvidenceInv, [Next]_vars PROVE Moved(file, file')
<1>1. UNCHANGED file => Moved(file, file')
  BY DEF Moved
<1>2. ASSUME NEW p \in Processes, Write(p) PROVE Moved(file, file')
  <2> DEFINE g == run[p].family  left == Extended(file[g][0], {run[p].record}, TRUE)
  <2>1. g \in Families /\ run[p].record \in Record /\ file' = [file EXCEPT ![g][0] = left]
    BY <1>2 DEF Write, EvidenceInv, RunsTypeOK, Remembers, At
  <2>2. file[g][0].records \subseteq left.records
    BY <2>1, ActiveExists, ExtendedKeeps
  <2> HIDE DEF left
  <2> QED
    BY <2>1, <2>2, ActiveMoves
<1>3. ASSUME NEW p \in Processes, WriteFails(p) PROVE Moved(file, file')
  <2> DEFINE g == run[p].family
  <2>1. g \in Families /\ run[p].record \in Record
    BY <1>3 DEF WriteFails, EvidenceInv, RunsTypeOK, Remembers, At
  <2>2. PICK left \in Leftovers(file[g][0], run[p].record) : file' = [file EXCEPT ![g][0] = left]
    BY <1>3 DEF WriteFails
  <2>3. file[g][0].records \subseteq left.records
    BY <2>1, ActiveExists, LeftoversKeep
  <2> QED
    BY <2>1, <2>2, <2>3, ActiveMoves
<1>4. ASSUME NEW o \in Operators, Command(o), ~Replace(o) PROVE Moved(file, file')
  BY <1>1, <1>4, CommandKeeps
<1>5. ASSUME NEW s \in Servers, Log(s, "audit") \/ Log(s, "recall") PROVE Moved(file, file')
  BY <1>1, <1>5 DEF Log
<1>6. CASE UNCHANGED vars
  BY <1>1, <1>6 DEF vars
<1>7. ASSUME NEW p \in Processes, Kill(p) PROVE Moved(file, file')
  BY <1>1, <1>7 DEF Kill
<1> QED
  BY <1>2, <1>3, <1>4, <1>5, <1>6, <1>7, RotateMoves, ReplaceMoves DEF Next

(***************************************************************************)
(* What a reader has seen stays seen, whatever others do to the files.     *)
(***************************************************************************)
LEMMA SegmentStays ==
    ASSUME NEW fs, NEW gs, Moved(fs, gs), NEW e, e[1] \in Families
    PROVE  /\ InSegment(fs, e) => InSegment(gs, e)
           /\ e \in EventsOf(e[1], fs[e[1]][0]) =>
                 e \in EventsOf(e[1], gs[e[1]][0]) \/ InSegment(gs, e)
BY DEF Moved, InSegment

LEMMA OthersSee ==
    ASSUME NEW fs, NEW gs, Moved(fs, gs), NEW r, Sees(r, fs)
    PROVE  Sees(r, gs)
<1>1. ASSUME NEW e \in r.order.evidence, e[1] \in Families, PlanSees(r, fs, e)
      PROVE  PlanSees(r, gs, e)
  BY <1>1, SegmentStays DEF PlanSees
<1>2. ASSUME NEW e \in r.order.evidence, e[1] \in Families, ArchiveSees(r, fs, e)
      PROVE  ArchiveSees(r, gs, e)
  BY <1>2 DEF ArchiveSees, Moved
<1> QED
  BY <1>1, <1>2 DEF Sees

LEMMA OrdersStay ==
    ASSUME NEW fs, NEW gs, Moved(fs, gs), NEW order,
           \A e \in order.evidence : e[1] \in Families /\ OrderSees(order, fs, e)
    PROVE  \A e \in order.evidence : e[1] \in Families /\ OrderSees(order, gs, e)
BY SegmentStays DEF OrderSees

\* A step of one process that prints no plan and publishes no archive.
LEMMA ReaderStep ==
    ASSUME EvidenceInv, ArchivesInv, [Next]_vars, NEW p \in Processes,
           run' = [run EXCEPT ![p] = run'[p]], Sees(run'[p], file'),
           UNCHANGED <<printed, archive>>
    PROVE  ArchivesInv'
<1>1. Moved(file, file')
  BY StepMoves
<1>2. \A q \in Processes : Sees(run'[q], file')
  <2>1. \A q \in Processes \ {p} : run'[q] = run[q] /\ Sees(run[q], file)
    BY DEF EvidenceInv, RunsTypeOK, ArchivesInv
  <2> QED
    BY <1>1, <2>1, OthersSee
<1>3. \A order \in printed : \A e \in order.evidence : e[1] \in Families /\ OrderSees(order, file', e)
  BY <1>1, OrdersStay DEF ArchivesInv
<1> QED
  BY <1>2, <1>3 DEF ArchivesInv

LEMMA BlindSees ==
    ASSUME NEW r, NEW fs, r.at \notin {"list", "glob", "copy"} PROVE Sees(r, fs)
BY DEF Sees, Collecting

LEMMA EndsBlind ==
    ASSUME EvidenceInv, NEW p \in Processes, Ends(p)
    PROVE  run' = [run EXCEPT ![p] = run'[p]] /\ Sees(run'[p], file')
<1>1. run' = [run EXCEPT ![p] = run'[p]] /\ run'[p] = Idle
  BY DEF EvidenceInv, RunsTypeOK, Ends
<1>2. Idle.at = "idle"
  BY DEF Idle
<1> QED
  BY <1>1, <1>2, BlindSees

LEMMA AppendsBlind ==
    ASSUME EvidenceInv, NEW p \in Processes, NEW f, NEW record, NEW then, Appends(p, f, record, then)
    PROVE  run' = [run EXCEPT ![p] = run'[p]] /\ Sees(run'[p], file')
<1>1. run' = [run EXCEPT ![p] = run'[p]] /\ run'[p].at = "append"
  BY DEF EvidenceInv, RunsTypeOK, Remembers, Fields, Appends
<1> QED
  BY <1>1, BlindSees

LEMMA RedactBlind ==
    ASSUME EvidenceInv, NEW o \in Operators, NEW order, NEW d, Redact(o, order, d)
    PROVE  run' = [run EXCEPT ![o] = run'[o]] /\ Sees(run'[o], file')
<1> DEFINE r == [Idle EXCEPT
          !.at = "append", !.family = "disposition", !.then = "replace",
          !.record = [id |-> commands + 1, form |-> "prepared"],
          !.kind = "redact", !.to = d, !.number = commands + 1,
          !.todo = ActiveOf("recall") \o SegmentsOf("recall"),
          !.made = [n \in Existing("recall") |-> Redacted(file["recall"][n])]]
<1>1. run' = [run EXCEPT ![o] = r]
  BY DEF Redact
<1>2. r.at = "append"
  BY DEF Idle
<1> HIDE DEF r
<1>3. run' = [run EXCEPT ![o] = run'[o]] /\ run'[o] = r
  BY <1>1 DEF EvidenceInv, RunsTypeOK, Processes
<1> QED
  BY <1>2, <1>3, BlindSees

\* A command that neither collects nor copies, or does so no longer.
LEMMA OtherCommands ==
    ASSUME EvidenceInv, NEW o \in Operators,
           \/ Refuse(o) \/ Acknowledge(o) \/ Replace(o) \/ ReplaceFails(o) \/ Complete(o)
           \/ \E order \in printed : \E d \in Destinations : Redact(o, order, d)
    PROVE  /\ run' = [run EXCEPT ![o] = run'[o]] /\ Sees(run'[o], file')
           /\ UNCHANGED <<printed, archive>>
<1>1. o \in Processes
  BY DEF Processes
<1>2. CASE Replace(o)
  <2>1. run' = [run EXCEPT ![o] = run'[o]] /\ run'[o].at = "replace"
    BY <1>1, <1>2 DEF Replace, EvidenceInv, RunsTypeOK, Remembers, Fields, At
  <2> QED
    BY <1>2, <2>1, BlindSees DEF Replace
<1>3. CASE Refuse(o)
  BY <1>1, <1>3, EndsBlind DEF Refuse
<1>4. CASE Acknowledge(o)
  BY <1>1, <1>4, AppendsBlind DEF Acknowledge
<1>5. CASE ReplaceFails(o)
  BY <1>1, <1>5, EndsBlind, AppendsBlind DEF ReplaceFails
<1>6. CASE Complete(o)
  BY <1>1, <1>6, EndsBlind, AppendsBlind DEF Complete
<1>7. CASE \E order \in printed : \E d \in Destinations : Redact(o, order, d)
  <2>1. PICK order \in printed, d \in Destinations : Redact(o, order, d)
    BY <1>7
  <2> QED
    BY <2>1, RedactBlind DEF Redact
<1> QED
  BY <1>2, <1>3, <1>4, <1>5, <1>6, <1>7

\* An append and the end of a process.
LEMMA OtherSteps ==
    ASSUME EvidenceInv, NEW p \in Processes,
           \/ LockAndRotate(p) \/ Write(p) \/ WriteFails(p) \/ Kill(p)
           \/ \E f \in Families : Log(p, f)
    PROVE  /\ run' = [run EXCEPT ![p] = run'[p]] /\ Sees(run'[p], file')
           /\ UNCHANGED <<printed, archive>>
<1>1. CASE LockAndRotate(p)
  <2>1. run' = [run EXCEPT ![p] = run'[p]] /\ run'[p].at = "write"
    BY <1>1 DEF LockAndRotate, EvidenceInv, RunsTypeOK, Remembers, Fields
  <2> QED
    BY <1>1, <2>1, BlindSees DEF LockAndRotate
<1>2. CASE Write(p)
  <2>1. CASE Ends(p)
    BY <1>2, <2>1, EndsBlind DEF Write
  <2>2. CASE ~Ends(p)
    <3>1. run[p].then # "idle" /\ run' = [run EXCEPT ![p].at = run[p].then]
      BY <1>2, <2>2 DEF Write
    <3>2. run[p].then = "replace"
      BY <1>2, <3>1 DEF Write, EvidenceInv, RedactionsLock, Appending, At
    <3>3. run' = [run EXCEPT ![p] = run'[p]] /\ run'[p].at = "replace"
      BY <3>1, <3>2 DEF EvidenceInv, RunsTypeOK, Remembers, Fields
    <3> QED
      BY <1>2, <3>3, BlindSees DEF Write
  <2> QED
    BY <2>1, <2>2
<1>3. CASE WriteFails(p)
  BY <1>3, EndsBlind, AppendsBlind DEF WriteFails
<1>4. CASE Kill(p)
  BY <1>4, EndsBlind DEF Kill
<1>5. CASE \E f \in Families : Log(p, f)
  BY <1>5, AppendsBlind DEF Log
<1> QED
  BY <1>1, <1>2, <1>3, <1>4, <1>5

(***************************************************************************)
(* Collecting: list the active file, list the segments, read one file.     *)
(***************************************************************************)
LEMMA PlanVisitsAll ==
    /\ Len(PlanOrder) = 5
    /\ \A f \in Families : \E i \in 1 .. 5 : PlanOrder[i] = f
    /\ \A i \in 1 .. 5 : PlanOrder[i] \in Families
BY DEF PlanOrder, Families

LEMMA Appended ==
    ASSUME NEW list, IsSeq(list), NEW a, NEW e
    PROVE  /\ IsSeq(Append(list, a))
           /\ Has(list, e) => Has(Append(list, a), e)
           /\ HasActive(list, e) => HasActive(Append(list, a), e)
           /\ a.family = e[1] /\ e \in EventsOf(e[1], a.content) =>
                 /\ Has(Append(list, a), e)
                 /\ a.place = 0 => HasActive(Append(list, a), e)
<1>1. PICK S : list \in Seq(S)
  BY DEF IsSeq
<1>2. Append(list, a) \in Seq(S \cup {a})
  <2>1. list \in Seq(S \cup {a})
    BY <1>1
  <2> QED
    BY <2>1
<1>3. /\ DOMAIN Append(list, a) = 1 .. Len(list) + 1 /\ DOMAIN list = 1 .. Len(list)
      /\ Len(list) \in Nat
      /\ \A i \in 1 .. Len(list) : Append(list, a)[i] = list[i]
      /\ Append(list, a)[Len(list) + 1] = a
  BY <1>1
<1>4. \A i \in DOMAIN list : i \in DOMAIN Append(list, a) /\ Append(list, a)[i] = list[i]
  BY <1>3
<1>5. Len(list) + 1 \in DOMAIN Append(list, a)
  BY <1>3
<1>6. IsSeq(Append(list, a))
  BY <1>2 DEF IsSeq
<1>7. Has(list, e) => Has(Append(list, a), e)
  BY <1>4 DEF Has
<1>8. HasActive(list, e) => HasActive(Append(list, a), e)
  BY <1>4 DEF HasActive
<1>9. a.family = e[1] /\ e \in EventsOf(e[1], a.content) => Has(Append(list, a), e)
  BY <1>3, <1>5 DEF Has
<1>10. a.family = e[1] /\ e \in EventsOf(e[1], a.content) /\ a.place = 0 => HasActive(Append(list, a), e)
  BY <1>3, <1>5 DEF HasActive
<1> QED
  BY <1>6, <1>7, <1>8, <1>9, <1>10

LEMMA AppendedIsSeq == ASSUME NEW list, IsSeq(list), NEW a PROVE IsSeq(Append(list, a))
BY Appended

LEMMA Joined ==
    ASSUME NEW S, NEW s \in Seq(S), NEW t \in Seq(S)
    PROVE  /\ s \o t \in Seq(S)
           /\ \A i \in DOMAIN s : i \in DOMAIN (s \o t) /\ (s \o t)[i] = s[i]
           /\ \A i \in DOMAIN t : \E j \in DOMAIN (s \o t) : (s \o t)[j] = t[i]
<1>1. /\ DOMAIN s = 1 .. Len(s) /\ DOMAIN t = 1 .. Len(t) /\ Len(s) \in Nat /\ Len(t) \in Nat
      /\ DOMAIN (s \o t) = 1 .. Len(s) + Len(t)
  OBVIOUS
<1>2. \A i \in 1 .. Len(s) : (s \o t)[i] = s[i]
  OBVIOUS
<1>3. ASSUME NEW i \in 1 .. Len(t)
      PROVE  Len(s) + i \in 1 .. Len(s) + Len(t) /\ (s \o t)[Len(s) + i] = t[i]
  BY <1>1
<1>4. \A i \in 1 .. Len(s) : i \in 1 .. Len(s) + Len(t)
  BY <1>1
<1> QED
  BY <1>1, <1>2, <1>3, <1>4

LEMMA SegmentsListed ==
    ASSUME NoGaps, NEW f \in Families
    PROVE  /\ ActiveOf(f) \in Seq(Places) /\ SegmentsOf(f) \in Seq(Places)
           /\ 0 \in Existing(f) => ActiveOf(f) # <<>> /\ 1 \in DOMAIN ActiveOf(f) /\ ActiveOf(f)[1] = 0
           /\ \A n \in Existing(f) \ {0} : \E i \in DOMAIN SegmentsOf(f) : SegmentsOf(f)[i] = n
<1> DEFINE k == Newest(f)
<1>1. /\ k \in 0 .. MaxSegments /\ MaxSegments \in Nat
      /\ \A m \in Places \ {0} : m \in Existing(f) <=> m <= k
  BY NewestIsLast, EvidenceAssumption DEF Places
<1>2. ActiveOf(f) \in Seq(Places)
  <2>1. <<0>> \in Seq(Places) /\ <<>> \in Seq(Places)
    BY <1>1 DEF Places
  <2> QED
    BY <2>1 DEF ActiveOf
<1>3. SegmentsOf(f) = [i \in 1 .. k |-> k + 1 - i]
  BY DEF SegmentsOf
<1> HIDE DEF k
<1>4. SegmentsOf(f) \in Seq(Places)
  <2>1. \A i \in 1 .. k : k + 1 - i \in Places
    BY <1>1 DEF Places
  <2>2. SegmentsOf(f) \in [1 .. k -> Places]
    BY <1>3, <2>1
  <2> QED
    BY <1>1, <2>2
<1>5. ASSUME NEW n \in Existing(f) \ {0}
      PROVE  \E i \in DOMAIN SegmentsOf(f) : SegmentsOf(f)[i] = n
  <2>1. n \in Nat /\ n # 0 /\ n <= k
    BY <1>1 DEF Existing, Places
  <2>2. k + 1 - n \in 1 .. k /\ k + 1 - (k + 1 - n) = n
    BY <1>1, <2>1
  <2>3. k + 1 - n \in DOMAIN SegmentsOf(f) /\ SegmentsOf(f)[k + 1 - n] = n
    BY <1>3, <2>2
  <2> QED
    BY <2>3
<1>6. 0 \in Existing(f) => ActiveOf(f) # <<>> /\ 1 \in DOMAIN ActiveOf(f) /\ ActiveOf(f)[1] = 0
  BY DEF ActiveOf
<1> QED
  BY <1>2, <1>4, <1>5, <1>6

LEMMA EventsThere ==
    ASSUME EvidenceInv, NEW f \in Families, NEW n \in Places, NEW e \in EventsOf(f, file[f][n])
    PROVE  n \in Existing(f)
<1>1. file[f][n] # NoFile
  BY DEF EventsOf, NoFile
<1> QED
  BY <1>1 DEF EvidenceInv, FilesTypeOK, IsContent, Existing

\* What the next record of a process has of the one before.
LEMMA ListActiveSees ==
    ASSUME EvidenceInv, ArchivesInv, NEW o \in Operators, ListActive(o)
    PROVE  run' = [run EXCEPT ![o] = run'[o]] /\ Sees(run'[o], file')
<1> DEFINE r == run[o]  s == run'[o]  f == PlanOrder[r.next + 1]
           t == [r EXCEPT !.at = "glob", !.next = r.next + 1, !.todo = ActiveOf(f)]
<1>0. /\ run' = [run EXCEPT ![o] = t] /\ DOMAIN r = Fields /\ o \in Processes
      /\ run = [p \in Processes |-> run[p]]
  BY DEF ListActive, EvidenceInv, RunsTypeOK, Remembers, Processes
<1>1. /\ run' = [run EXCEPT ![o] = run'[o]]
      /\ s.at = "glob" /\ s.next = r.next + 1 /\ s.todo = ActiveOf(f)
      /\ s.found = r.found /\ s.copied = r.copied /\ s.kind = r.kind /\ s.order = r.order
  <2>1. /\ t.at = "glob" /\ t.next = r.next + 1 /\ t.todo = ActiveOf(f)
        /\ t.found = r.found /\ t.copied = r.copied /\ t.kind = r.kind /\ t.order = r.order
    BY <1>0 DEF Fields
  <2> HIDE DEF t
  <2> QED
    BY <1>0, <2>1
<1> HIDE DEF t
<1>2. r.at = "list" /\ r.todo = <<>> /\ r.next < 5 /\ file' = file
  BY PlanVisitsAll DEF ListActive, At
<1>3. Sees(r, file) /\ CollectsOK(r)
  BY <1>2 DEF ArchivesInv, Sees, Collecting, Processes
<1>4. f \in Families /\ s.next \in 1 .. 5 /\ PlanOrder[s.next] = f
  <2> HIDE DEF r, s
  <2>1. r.next \in 0 .. 5
    BY <1>3 DEF CollectsOK
  <2>2. r.next + 1 \in 1 .. 5
    BY <1>2, <2>1
  <2> QED
    BY <1>1, <2>2, PlanVisitsAll
<1> HIDE DEF r, s, f
<1>5. CollectsOK(s)
  BY <1>1, <1>3, <1>4, SegmentsListed DEF CollectsOK, EvidenceInv
<1>6. \A g : Unvisited(r, g) => Unvisited(s, g) \/ g = f
  <2> SUFFICES ASSUME NEW g, NEW i \in 1 .. 5, i > r.next, PlanOrder[i] = g, ~Unvisited(s, g)
               PROVE  g = f
    BY DEF Unvisited
  <2>1. ~(i > r.next + 1)
    BY <1>1 DEF Unvisited
  <2>2. i = r.next + 1
    BY <1>3, <2>1 DEF CollectsOK
  <2> QED
    BY <1>1, <1>4, <2>2
<1>7. \A g, n : ~Due(r, g, n)
  BY <1>2 DEF Due
<1>8. ASSUME NEW e \in r.order.evidence, e[1] \in Families, PlanSees(r, file, e)
      PROVE  PlanSees(s, file, e)
  <2>1. CASE /\ e \in EventsOf(e[1], file[e[1]][0]) /\ e[1] = f
    <3>1. 0 \in Existing(f)
      BY <1>4, <2>1, EventsThere, EvidenceAssumption DEF Places
    <3>2. Due(s, f, 0)
      BY <1>1, <1>4, <3>1, SegmentsListed DEF Due, EvidenceInv
    <3> QED
      BY <2>1, <3>2 DEF PlanSees
  <2> QED
    BY <1>1, <1>6, <1>7, <1>8, <2>1 DEF PlanSees
<1>9. ASSUME NEW e \in r.order.evidence, e[1] \in Families, ArchiveSees(r, file, e)
      PROVE  ArchiveSees(s, file, e)
  BY <1>1, <1>2, <1>4, <1>6, <1>7, <1>9 DEF ArchiveSees
<1>10. Collecting(r)
  BY <1>2 DEF Collecting
<1>11. Sees(s, file)
  BY <1>1, <1>3, <1>5, <1>8, <1>9, <1>10 DEF Sees
<1> QED
  BY <1>1, <1>2, <1>11 DEF s

LEMMA ListSegmentsSees ==
    ASSUME EvidenceInv, ArchivesInv, NEW o \in Operators, ListSegments(o)
    PROVE  run' = [run EXCEPT ![o] = run'[o]] /\ Sees(run'[o], file')
<1> DEFINE r == run[o]  s == run'[o]  f == PlanOrder[r.next]
           t == [r EXCEPT !.at = "list", !.todo = r.todo \o SegmentsOf(f)]
<1>0. /\ run' = [run EXCEPT ![o] = t] /\ DOMAIN r = Fields /\ o \in Processes
      /\ run = [p \in Processes |-> run[p]]
  BY DEF ListSegments, EvidenceInv, RunsTypeOK, Remembers, Processes
<1>1. /\ run' = [run EXCEPT ![o] = run'[o]]
      /\ s.at = "list" /\ s.next = r.next /\ s.todo = r.todo \o SegmentsOf(f)
      /\ s.found = r.found /\ s.copied = r.copied /\ s.kind = r.kind /\ s.order = r.order
  <2>1. /\ t.at = "list" /\ t.next = r.next /\ t.todo = r.todo \o SegmentsOf(f)
        /\ t.found = r.found /\ t.copied = r.copied /\ t.kind = r.kind /\ t.order = r.order
    BY <1>0 DEF Fields
  <2> HIDE DEF t
  <2> QED
    BY <1>0, <2>1
<1> HIDE DEF t
<1>2. r.at = "glob" /\ file' = file
  BY DEF ListSegments, At
<1>3. Sees(r, file) /\ CollectsOK(r) /\ Collecting(r)
  BY <1>2 DEF ArchivesInv, Sees, Collecting, Processes
<1>4. f \in Families /\ PlanOrder[s.next] = f /\ PlanOrder[r.next] = f
  BY <1>1, <1>2, <1>3, PlanVisitsAll DEF CollectsOK
<1> HIDE DEF r, s, f
<1>5. SegmentsOf(f) \in Seq(Places) /\ r.todo \in Seq(Places)
  BY <1>3, <1>4, SegmentsListed DEF EvidenceInv, CollectsOK
<1>6. CollectsOK(s)
  BY <1>1, <1>2, <1>3, <1>5, Joined DEF CollectsOK
<1>7. \A i \in DOMAIN r.todo : i \in DOMAIN s.todo /\ s.todo[i] = r.todo[i]
  BY <1>1, <1>5, Joined
<1>8. \A i \in DOMAIN SegmentsOf(f) : \E j \in DOMAIN s.todo : s.todo[j] = SegmentsOf(f)[i]
  <2>1. \A more \in Seq(Places) : \A i \in DOMAIN more :
            \E j \in DOMAIN (r.todo \o more) : (r.todo \o more)[j] = more[i]
    <3> SUFFICES ASSUME NEW more \in Seq(Places), NEW i \in DOMAIN more
                 PROVE  \E j \in DOMAIN (r.todo \o more) : (r.todo \o more)[j] = more[i]
      OBVIOUS
    <3>1. PICK now \in Seq(Places) : now = r.todo
      BY <1>5
    <3>2. \E j \in DOMAIN (now \o more) : (now \o more)[j] = more[i]
      BY Joined
    <3> QED
      BY <3>1, <3>2
  <2> QED
    BY <1>1, <1>5, <2>1
<1>9. \A g, n : Due(r, g, n) => Due(s, g, n)
  BY <1>1, <1>7 DEF Due
<1>10. \A g : Unvisited(r, g) => Unvisited(s, g)
  BY <1>1 DEF Unvisited
<1>11. ASSUME NEW e \in r.order.evidence, e[1] \in Families, PlanSees(r, file, e)
       PROVE  PlanSees(s, file, e)
  BY <1>1, <1>9, <1>10, <1>11 DEF PlanSees
<1>12. ASSUME NEW e \in r.order.evidence, e[1] \in Families, ArchiveSees(r, file, e)
       PROVE  ArchiveSees(s, file, e)
  <2>1. ASSUME NEW n \in Places \ {0}, e[1] = f, e \in EventsOf(e[1], file[e[1]][n])
        PROVE  Due(s, f, n)
    <3>1. n \in Existing(f) \ {0}
      BY <1>4, <2>1, EventsThere
    <3>2. \E i \in DOMAIN SegmentsOf(f) : SegmentsOf(f)[i] = n
      BY <1>4, <3>1, SegmentsListed DEF EvidenceInv
    <3> QED
      BY <1>4, <1>8, <3>2 DEF Due
  <2> QED
    BY <1>1, <1>4, <1>9, <1>10, <1>12, <2>1 DEF ArchiveSees
<1>13. Sees(s, file)
  BY <1>1, <1>3, <1>6, <1>11, <1>12 DEF Sees, Collecting
<1> QED
  BY <1>1, <1>2, <1>13 DEF s

LEMMA HashSees ==
    ASSUME EvidenceInv, ArchivesInv, NEW o \in Operators, Hash(o)
    PROVE  run' = [run EXCEPT ![o] = run'[o]] /\ Sees(run'[o], file')
<1> DEFINE r == run[o]  s == run'[o]  f == PlanOrder[r.next]  n == Head(r.todo)
           a == [family |-> f, place |-> n, content |-> file[f][n]]
           t == [r EXCEPT !.todo = Tail(r.todo), !.found = Append(r.found, a)]
<1>1. CASE n \notin Existing(f)
  BY <1>1, EndsBlind DEF Hash, Processes
<1>2. CASE n \in Existing(f)
  <2>1. /\ run' = [run EXCEPT ![o] = run'[o]]
        /\ s.at = r.at /\ s.next = r.next /\ s.todo = Tail(r.todo) /\ s.found = Append(r.found, a)
        /\ s.copied = r.copied /\ s.kind = r.kind /\ s.order = r.order
    <3>1. /\ run' = [run EXCEPT ![o] = t] /\ DOMAIN r = Fields /\ o \in Processes
          /\ run = [p \in Processes |-> run[p]]
      BY <1>2 DEF Hash, EvidenceInv, RunsTypeOK, Remembers, Processes
    <3>2. /\ t.at = r.at /\ t.next = r.next /\ t.todo = Tail(r.todo) /\ t.found = Append(r.found, a)
          /\ t.copied = r.copied /\ t.kind = r.kind /\ t.order = r.order
      BY <3>1 DEF Fields
    <3> HIDE DEF t
    <3> QED
      BY <3>1, <3>2
  <2> HIDE DEF t
  <2>2. r.at = "list" /\ r.todo # <<>> /\ file' = file
    BY DEF Hash, At
  <2>3. Sees(r, file) /\ CollectsOK(r) /\ Collecting(r)
    BY <2>2 DEF ArchivesInv, Sees, Collecting, Processes
  <2>4. a.family = f /\ a.place = n /\ a.content = file[f][n] /\ n = Head(r.todo)
        /\ PlanOrder[r.next] = f
    OBVIOUS
  <2> HIDE DEF r, s, a, n, f
  <2>5. r.todo \in Seq(Places) /\ IsSeq(r.found)
    BY <2>3 DEF CollectsOK
  <2>6. CollectsOK(s)
    BY <2>1, <2>2, <2>3, <2>5, AppendedIsSeq DEF CollectsOK
  <2>7. \A g, m : Due(r, g, m) => Due(s, g, m) \/ (g = f /\ m = n)
    <3> SUFFICES ASSUME NEW g, NEW m, Due(r, g, m), m # n PROVE Due(s, g, m)
      BY <2>4 DEF Due
    <3>1. PICK i \in DOMAIN r.todo : r.todo[i] = m
      BY DEF Due
    <3>2. i \in 2 .. Len(r.todo)
      BY <2>2, <2>4, <2>5, <3>1
    <3>3. i - 1 \in DOMAIN Tail(r.todo) /\ Tail(r.todo)[i - 1] = m
      BY <2>2, <2>5, <3>1, <3>2
    <3> QED
      BY <2>1, <3>3 DEF Due
  <2>8. \A g : Unvisited(r, g) => Unvisited(s, g)
    BY <2>1 DEF Unvisited
  <2>9. ASSUME NEW e \in r.order.evidence, e[1] \in Families, PlanSees(r, file, e)
        PROVE  PlanSees(s, file, e)
    <3>1. HasActive(r.found, e) => HasActive(s.found, e)
      BY <2>1, <2>5, Appended
    <3>2. CASE e \in EventsOf(e[1], file[e[1]][0]) /\ e[1] = f /\ n = 0
      <4>1. HasActive(s.found, e)
        BY <2>1, <2>4, <2>5, <3>2, Appended
      <4> QED
        BY <4>1 DEF PlanSees
    <3> QED
      BY <2>7, <2>8, <2>9, <3>1, <3>2 DEF PlanSees
  <2>10. ASSUME NEW e \in r.order.evidence, e[1] \in Families, ArchiveSees(r, file, e)
         PROVE  ArchiveSees(s, file, e)
    <3>1. Has(r.found, e) => Has(s.found, e)
      BY <2>1, <2>5, Appended
    <3>2. CASE e \in EventsOf(e[1], file[e[1]][n]) /\ e[1] = f
      <4>1. Has(s.found, e)
        BY <2>1, <2>4, <2>5, <3>2, Appended
      <4> QED
        BY <4>1 DEF ArchiveSees
    <3> QED
      BY <2>1, <2>2, <2>7, <2>8, <2>10, <3>1, <3>2 DEF ArchiveSees
  <2>11. Sees(s, file)
    BY <2>1, <2>2, <2>3, <2>6, <2>9, <2>10 DEF Sees, Collecting
  <2> QED
    BY <2>1, <2>2, <2>11 DEF s
<1> QED
  BY <1>1, <1>2

(***************************************************************************)
(* A collection begins; a plan is printed; an archive is copied and        *)
(* published.                                                              *)
(***************************************************************************)
Evidence0 == UNION {Events(f) : f \in Families}

LEMMA CollectSees ==
    ASSUME EvidenceInv, ArchivesInv, NEW o \in Operators, NEW kind, NEW order, NEW d,
           Collect(o, kind, order, d),
           \/ kind = "plan" /\ order.evidence = Evidence0
           \/ kind = "acknowledge"
           \/ kind = "archive" /\ order \in printed
    PROVE  run' = [run EXCEPT ![o] = run'[o]] /\ Sees(run'[o], file')
<1> DEFINE t == [Idle EXCEPT !.at = "list", !.kind = kind, !.order = order,
                             !.to = d, !.number = commands + 1]
<1>1. /\ run' = [run EXCEPT ![o] = t] /\ file' = file
      /\ run = [p \in Processes |-> run[p]] /\ o \in Processes
  BY DEF Collect, EvidenceInv, RunsTypeOK, Processes
<1>2. /\ t.at = "list" /\ t.kind = kind /\ t.order = order /\ t.next = 0
      /\ t.todo = <<>> /\ t.found = <<>> /\ t.copied = <<>>
  BY DEF Idle
<1> HIDE DEF t
<1>3. CollectsOK(t)
  <2>1. <<>> \in Seq(Places)
    OBVIOUS
  <2> QED
    BY <1>2, <2>1 DEF CollectsOK, IsSeq
<1>4. \A f \in Families : Unvisited(t, f)
  BY <1>2, PlanVisitsAll DEF Unvisited
<1>5. ASSUME kind = "plan", NEW e \in Evidence0 PROVE e[1] \in Families /\ PlanSees(t, file, e)
  <2>1. PICK f \in Families : e \in Events(f)
    BY <1>5 DEF Evidence0
  <2>2. PICK n \in Places : \E r \in file[f][n].records : e = Event(f, r)
    BY <2>1 DEF Events, RecordsOf
  <2>3. e[1] = f
    BY <2>2 DEF Event
  <2>4. e \in EventsOf(e[1], file[e[1]][n])
    BY <2>2, <2>3 DEF EventsOf
  <2> QED
    BY <1>4, <2>3, <2>4 DEF PlanSees, InSegment
<1>6. ASSUME kind = "archive", order \in printed, NEW e \in order.evidence
      PROVE  e[1] \in Families /\ ArchiveSees(t, file, e)
  <2>1. e[1] \in Families /\ OrderSees(order, file, e)
    BY <1>6 DEF ArchivesInv
  <2> QED
    BY <1>2, <1>4, <2>1 DEF OrderSees, InSegment, ArchiveSees
<1>7. Sees(t, file)
  BY <1>2, <1>3, <1>5, <1>6 DEF Sees, Collecting
<1> QED
  BY <1>1, <1>7

\* Where all families were visited and all their files were read, the events are on
\* the list.
LEMMA CollectedSees ==
    ASSUME ArchivesInv, NEW o \in Operators, NEW kind, Collected(o, kind)
    PROVE  /\ CollectsOK(run[o])
           /\ kind = "plan" => \A e \in run[o].order.evidence :
                 e[1] \in Families /\ (InSegment(file, e) \/ HasActive(run[o].found, e))
           /\ kind = "archive" => \A e \in run[o].order.evidence :
                 HasActive(run[o].order.plan, e) \/ Has(run[o].found, e)
<1> DEFINE r == run[o]
<1>1. /\ r.at = "list" /\ r.kind = kind /\ r.todo = <<>> /\ r.next = 5 /\ Collecting(r)
      /\ Sees(r, file)
  BY PlanVisitsAll DEF Collected, At, Collecting, ArchivesInv, Processes
<1> HIDE DEF r
<1>2. \A f, n : ~Unvisited(r, f) /\ ~Due(r, f, n)
  BY <1>1 DEF Unvisited, Due
<1>3. CollectsOK(r)
  BY <1>1 DEF Sees
<1>4. ASSUME kind = "plan", NEW e \in r.order.evidence
      PROVE  e[1] \in Families /\ (InSegment(file, e) \/ HasActive(r.found, e))
  BY <1>1, <1>2, <1>4 DEF Sees, PlanSees
<1>5. ASSUME kind = "archive", NEW e \in r.order.evidence
      PROVE  HasActive(r.order.plan, e) \/ Has(r.found, e)
  BY <1>1, <1>2, <1>5 DEF Sees, ArchiveSees
<1> QED
  BY <1>3, <1>4, <1>5 DEF r

LEMMA PrintPlanSees ==
    ASSUME EvidenceInv, ArchivesInv, [Next]_vars, NEW o \in Operators, PrintPlan(o)
    PROVE  ArchivesInv'
<1> DEFINE order == [plan |-> run[o].found, evidence |-> run[o].order.evidence]
<1>1. /\ printed' = printed \cup {order} /\ file' = file /\ archive' = archive /\ o \in Processes
      /\ order.plan = run[o].found /\ order.evidence = run[o].order.evidence
  BY DEF PrintPlan, Processes
<1>2. \A e \in order.evidence : e[1] \in Families /\ OrderSees(order, file, e)
  BY <1>1, CollectedSees DEF PrintPlan, OrderSees
<1> HIDE DEF order
<1>3. \A p \in Processes : Sees(run'[p], file')
  <2>1. run' = [run EXCEPT ![o] = run'[o]] /\ Sees(run'[o], file')
    BY <1>1, EndsBlind DEF PrintPlan
  <2> QED
    BY <1>1, <2>1 DEF ArchivesInv, EvidenceInv, RunsTypeOK
<1> QED
  BY <1>1, <1>2, <1>3 DEF ArchivesInv

LEMMA StartCopiesSees ==
    ASSUME EvidenceInv, ArchivesInv, NEW o \in Operators, StartCopies(o)
    PROVE  run' = [run EXCEPT ![o] = run'[o]] /\ Sees(run'[o], file')
<1> DEFINE r == run[o]  s == run'[o]
<1>1. /\ run' = [run EXCEPT ![o] = run'[o]] /\ file' = file
      /\ s.at = "copy" /\ s.found = r.found /\ s.copied = r.copied /\ s.order = r.order
  BY DEF StartCopies, EvidenceInv, RunsTypeOK, Remembers, Fields, Processes
<1>2. CollectsOK(r) /\ r.found = r.order.plan
  BY CollectedSees DEF StartCopies, Planned
<1>3. \A e \in r.order.evidence : HasActive(r.order.plan, e) \/ Has(r.found, e)
  BY CollectedSees DEF StartCopies
<1> HIDE DEF r, s
<1>4. \A e \in s.order.evidence : Has(s.found, e)
  BY <1>1, <1>2, <1>3 DEF Has, HasActive
<1>5. CopiesOK(s)
  <2>1. PICK S : r.found \in Seq(S)
    BY <1>2 DEF CollectsOK, IsSeq
  <2>2. <<>> \in Seq(S) /\ Len(<<>>) = 0 /\ Len(r.found) \in Nat
    BY <2>1
  <2> QED
    BY <1>1, <1>2, <2>1, <2>2 DEF CollectsOK, CopiesOK, IsSeq
<1>6. Sees(s, file)
  BY <1>1, <1>4, <1>5 DEF Sees, Collecting
<1> QED
  BY <1>1, <1>6 DEF s

LEMMA CopySees ==
    ASSUME EvidenceInv, ArchivesInv, NEW o \in Operators, Copy(o)
    PROVE  run' = [run EXCEPT ![o] = run'[o]] /\ Sees(run'[o], file')
<1> DEFINE r == run[o]  s == run'[o]  k == Len(r.copied)  next == r.found[k + 1]
<1>1. CASE Ends(o)
  BY <1>1, EndsBlind DEF Processes
<1>2. CASE ~Ends(o)
  <2>1. /\ run' = [run EXCEPT ![o] = run'[o]] /\ file' = file
        /\ s.at = r.at /\ s.found = r.found /\ s.copied = Append(r.copied, next) /\ s.order = r.order
    BY <1>2 DEF Copy, EvidenceInv, RunsTypeOK, Remembers, Fields, Processes
  <2>2. r.at = "copy" /\ k < Len(r.found) /\ Sees(r, file)
    BY DEF Copy, At, ArchivesInv, Processes
  <2>3. CopiesOK(r) /\ \A e \in r.order.evidence : Has(r.found, e)
    BY <2>2 DEF Sees
  <2> HIDE DEF r, s, next
  <2>4. PICK S, T : r.found \in Seq(S) /\ r.copied \in Seq(T)
    BY <2>3 DEF CopiesOK, IsSeq
  <2>5. next = r.found[k + 1] /\ k \in Nat /\ Len(r.found) \in Nat
    BY <2>4 DEF next
  <2>6. IsSeq(s.copied)
    BY <2>1, <2>3, AppendedIsSeq DEF CopiesOK
  <2>7. Len(s.copied) = k + 1
    BY <2>1, <2>4
  <2>8. \A i \in 1 .. k + 1 : s.copied[i] = s.found[i]
    <3>1. \A i \in 1 .. k : s.copied[i] = r.copied[i]
      BY <2>1, <2>4
    <3>2. s.copied[k + 1] = next
      BY <2>1, <2>4
    <3>3. \A i \in 1 .. k : r.copied[i] = r.found[i]
      BY <2>3 DEF CopiesOK
    <3> QED
      BY <2>1, <2>5, <3>1, <3>2, <3>3
  <2>9. CopiesOK(s)
    BY <2>1, <2>2, <2>3, <2>5, <2>6, <2>7, <2>8 DEF CopiesOK
  <2>10. Sees(s, file)
    BY <2>1, <2>2, <2>3, <2>9 DEF Sees, Collecting
  <2> QED
    BY <2>1, <2>10 DEF s
<1> QED
  BY <1>1, <1>2

LEMMA PublishSees ==
    ASSUME EvidenceInv, ArchivesInv, [Next]_vars, NEW o \in Operators, Publish(o)
    PROVE  ArchivesInv'
<1> DEFINE r == run[o]
<1>1. /\ printed' = printed /\ file' = file /\ o \in Processes
      /\ r.at = "copy" /\ Len(r.copied) = Len(r.found) /\ Sees(r, file)
  BY DEF Publish, At, ArchivesInv, Processes
<1>2. CopiesOK(r) /\ \A e \in r.order.evidence : Has(r.found, e)
  BY <1>1 DEF Sees
<1>3. \A e \in r.order.evidence : Has(r.copied, e)
  <2> HIDE DEF r
  <2>1. PICK S, T : r.found \in Seq(S) /\ r.copied \in Seq(T)
    BY <1>2 DEF CopiesOK, IsSeq
  <2>2. DOMAIN r.found = DOMAIN r.copied /\ \A i \in DOMAIN r.found : r.copied[i] = r.found[i]
    BY <1>1, <1>2, <2>1 DEF CopiesOK
  <2> QED
    BY <1>2, <2>2 DEF Has
<1>4. ASSUME NEW d \in Destinations, NEW e \in archive'[d].order.evidence
      PROVE  Has(archive'[d].files, e)
  <2> DEFINE new == [order |-> r.order, files |-> r.copied]
  <2>1. CASE archive'[d] = archive[d]
    BY <1>4, <2>1 DEF ArchivesInv
  <2>2. CASE archive'[d] = new
    BY <1>3, <1>4, <2>2
  <2>3. archive'[d] = archive[d] \/ archive'[d] = new
    <3> HIDE DEF new
    <3>1. archive = [x \in Destinations |-> archive[x]]
      BY DEF EvidenceInv, FilesTypeOK
    <3>2. archive' = archive \/ archive' = [archive EXCEPT ![r.to] = new]
      BY DEF Publish, new
    <3> QED
      BY <3>1, <3>2
  <2> QED
    BY <2>1, <2>2, <2>3
<1>5. \A p \in Processes : Sees(run'[p], file')
  <2>1. run' = [run EXCEPT ![o] = run'[o]] /\ Sees(run'[o], file')
    BY <1>1, EndsBlind DEF Publish
  <2> QED
    BY <1>1, <2>1 DEF ArchivesInv, EvidenceInv, RunsTypeOK
<1> QED
  BY <1>1, <1>4, <1>5 DEF ArchivesInv

LEMMA InitArchives == Init => ArchivesInv
<1> SUFFICES ASSUME Init PROVE ArchivesInv
  OBVIOUS
<1>1. \A p \in Processes : run[p] = Idle
  BY DEF Init
<1>2. Idle.at = "idle" /\ NoArchive.order.evidence = {}
  BY DEF Idle, NoArchive, NoOrder
<1> QED
  BY <1>1, <1>2, BlindSees DEF Init, ArchivesInv

LEMMA StepArchives == ASSUME EvidenceInv, ArchivesInv, [Next]_vars PROVE ArchivesInv'
<1>1. ASSUME NEW o \in Operators, NEW kind, NEW order, NEW d, Collect(o, kind, order, d),
             \/ kind = "plan" /\ order.evidence = Evidence0
             \/ kind = "acknowledge"
             \/ kind = "archive" /\ order \in printed
      PROVE  ArchivesInv'
  <2>1. run' = [run EXCEPT ![o] = run'[o]] /\ Sees(run'[o], file')
    BY <1>1, CollectSees
  <2> QED
    BY <1>1, <2>1, ReaderStep DEF Collect, Processes
<1>2. ASSUME NEW o \in Operators, Command(o) PROVE ArchivesInv'
  <2>1. CASE Collect(o, "plan", [NoOrder EXCEPT !.evidence = Evidence0], None)
    <3>1. [NoOrder EXCEPT !.evidence = Evidence0].evidence = Evidence0
      BY DEF NoOrder
    <3> QED
      BY <1>1, <2>1, <3>1
  <2>2. ASSUME NEW order \in printed, Collect(o, "acknowledge", order, None) PROVE ArchivesInv'
    BY <1>1, <2>2
  <2>3. ASSUME NEW order \in printed, NEW d \in Destinations, Collect(o, "archive", order, d)
        PROVE  ArchivesInv'
    BY <1>1, <2>3
  <2>4. CASE ListActive(o) \/ ListSegments(o) \/ Hash(o) \/ StartCopies(o) \/ Copy(o)
    <3>1. run' = [run EXCEPT ![o] = run'[o]] /\ Sees(run'[o], file')
      BY <2>4, ListActiveSees, ListSegmentsSees, HashSees, StartCopiesSees, CopySees
    <3>2. UNCHANGED <<printed, archive>>
      BY <2>4 DEF ListActive, ListSegments, Hash, StartCopies, Copy
    <3> QED
      BY <3>1, <3>2, ReaderStep DEF Processes
  <2>5. CASE \/ Refuse(o) \/ Acknowledge(o) \/ Replace(o) \/ ReplaceFails(o) \/ Complete(o)
             \/ \E order \in printed : \E d \in Destinations : Redact(o, order, d)
    <3>1. /\ run' = [run EXCEPT ![o] = run'[o]] /\ Sees(run'[o], file')
          /\ UNCHANGED <<printed, archive>>
      BY <2>5, OtherCommands
    <3> QED
      BY <3>1, ReaderStep DEF Processes
  <2> QED
    BY <1>2, <2>1, <2>2, <2>3, <2>4, <2>5, PrintPlanSees, PublishSees DEF Command, Evidence0
<1>3. ASSUME NEW p \in Processes,
             \/ LockAndRotate(p) \/ Write(p) \/ WriteFails(p) \/ Kill(p)
             \/ \E f \in Families : Log(p, f)
      PROVE  ArchivesInv'
  <2>1. /\ run' = [run EXCEPT ![p] = run'[p]] /\ Sees(run'[p], file')
        /\ UNCHANGED <<printed, archive>>
    BY <1>3, OtherSteps
  <2> QED
    BY <2>1, ReaderStep
<1>4. ASSUME NEW s \in Servers, Log(s, "audit") \/ Log(s, "recall") PROVE ArchivesInv'
  BY <1>3, <1>4, FamilyNames DEF Processes
<1>5. CASE UNCHANGED vars
  BY <1>5 DEF vars, ArchivesInv
<1> QED
  BY <1>2, <1>3, <1>4, <1>5 DEF Next

\* The invariant of plans and archives, which read file by file without a lock while
\* servers append and rotate: collect_evidence_plan, create_evidence_archive.
THEOREM ArchivesInvariant == Spec => []ArchivesInv
<1>1. EvidenceInv /\ ArchivesInv /\ [Next]_vars => ArchivesInv'
  BY StepArchives
<1> QED
  BY <1>1, InitArchives, EvidenceInvariant, PTL DEF Spec

\* An archive has every record that was there when its plan was begun, for any number
\* of processes, records, segments and faults.
THEOREM ArchivesAreWhole == Spec => []ArchivesHoldWhatWasPlanned
BY ArchivesInvariant, HasIsHeld, PTL

(***************************************************************************)
(* Redactions.  Each has a number of its own; its receipts are the only    *)
(* records of the disposition log, and it is told as aborted only where it *)
(* has replaced nothing and is about to end.                               *)
(***************************************************************************)
Texts(fs, f) == UNION {Readable(fs[f][n]) : n \in Places}

NoQueries(fs) == \A x \in Texts(fs, "recall") : x.form # "query"

\* The prepared receipt is on a line of its own, or behind a damaged one.
Witnessed(fs, t) ==
    \E n \in Places :
        \/ fs["disposition"][n].damaged
        \/ [id |-> t, form |-> "prepared"] \in fs["disposition"][n].records

\* The process replaces files, or will when its prepared receipt is written.
Touching(r) == r.at = "replace" \/ (Appending(r) /\ r.then # "idle")

Disposing(r) == Appending(r) /\ r.family = "disposition"

NumbersOK ==
    /\ \A p \in Processes : run[p].number <= commands
    /\ \A p, q \in Processes : p # q /\ run[p].number = run[q].number => run[p].number = 0
    /\ \A x \in Texts(file, "disposition") : x.id <= commands
    /\ touched \subseteq 1 .. commands

ReceiptsOK(r, fs, begun) ==
    /\ Touching(r) => r.number # 0 /\ DOMAIN r.made = {n \in Places : fs["recall"][n].there}
    /\ Disposing(r) =>
          /\ r.number # 0 /\ r.record.id = r.number
          /\ r.record.form \in {"prepared", "aborted", "completed"}
          /\ r.record.form = "prepared" <=> r.then # "idle"
          /\ r.record.form = "aborted" => r.number \notin begun
          /\ r.record.form = "completed" => NoQueries(fs)
    /\ Appending(r) /\ r.family = "recall" => r.record.form = "event"
    /\ r.at = "replace" => Witnessed(fs, r.number)

SaidOK ==
    /\ \A x \in Texts(file, "disposition") :
          /\ x.form = "completed" => NoQueries(file)
          /\ x.form = "aborted" =>
                /\ x.id \notin touched
                /\ \A p \in Processes : run[p].number = x.id => ~Touching(run[p])
    /\ \A t \in touched : Witnessed(file, t)

ReceiptsInv == NumbersOK /\ (\A p \in Processes : ReceiptsOK(run[p], file, touched)) /\ SaidOK

(***************************************************************************)
(* What is written grows by one record at a time.                          *)
(***************************************************************************)
Grown(fs, gs, f, new) ==
    /\ Texts(gs, f) \subseteq Texts(fs, f) \cup new
    /\ \A n \in Places : \E m \in Places :
          /\ fs[f][n].records \subseteq gs[f][m].records
          /\ fs[f][n].damaged => gs[f][m].damaged

LEMMA GrownWitness ==
    ASSUME NEW fs, NEW gs, NEW new, Grown(fs, gs, "disposition", new), NEW t, Witnessed(fs, t)
    PROVE  Witnessed(gs, t)
BY DEF Grown, Witnessed

LEMMA UnchangedGrows ==
    ASSUME NEW fs, NEW gs, NEW f, gs[f] = fs[f] PROVE Grown(fs, gs, f, {})
BY DEF Grown, Texts

LEMMA ExtendedText ==
    ASSUME NEW c, NEW records, NEW ended \in BOOLEAN
    PROVE  /\ Readable(Extended(c, records, ended)) \subseteq Readable(c) \cup records
           /\ c.damaged => Extended(c, records, ended).damaged
BY DEF Readable, Extended

LEMMA LeftoverText ==
    ASSUME NEW c, IsContent(c), NEW record \in Record, NEW left \in Leftovers(c, record)
    PROVE  /\ Readable(left) \subseteq Readable(c) \cup {record}
           /\ c.records \subseteq left.records
           /\ c.damaged => left.damaged
<1>1. CASE left = [c EXCEPT !.there = TRUE]
  <2>1. left = [there |-> TRUE, size |-> c.size, records |-> c.records,
                damaged |-> c.damaged, torn |-> c.torn, rest |-> c.rest]
    BY <1>1 DEF IsContent
  <2> QED
    BY <2>1 DEF Readable
<1>2. CASE left # [c EXCEPT !.there = TRUE]
  <2>1. PICK records \in {{}, {record}}, ended \in BOOLEAN : left = Extended(c, records, ended)
    BY <1>2 DEF Leftovers
  <2>2. Readable(left) \subseteq Readable(c) \cup records /\ (c.damaged => left.damaged)
    BY <2>1, ExtendedText
  <2> QED
    BY <2>1, <2>2, LeftoversKeep
<1> QED
  BY <1>1, <1>2

LEMMA WrittenText ==
    ASSUME NEW c, NEW record
    PROVE  \/ record \in Extended(c, {record}, TRUE).records
           \/ Extended(c, {record}, TRUE).damaged
BY DEF Extended

LEMMA ActiveGrows ==
    ASSUME EvidenceInv, NEW g \in Families, NEW left, NEW new,
           file' = [file EXCEPT ![g][0] = left],
           Readable(left) \subseteq Readable(file[g][0]) \cup new,
           file[g][0].records \subseteq left.records,
           file[g][0].damaged => left.damaged
    PROVE  /\ Grown(file, file', g, new)
           /\ file'[g][0] = left
           /\ \A f \in Families \ {g} : file'[f] = file[f]
<1>1. /\ file = [f \in Families |-> file[f]] /\ file[g] = [n \in Places |-> file[g][n]]
      /\ 0 \in Places
  BY EvidenceAssumption DEF EvidenceInv, FilesTypeOK, Places
<1>2. /\ file'[g][0] = left /\ \A n \in Places \ {0} : file'[g][n] = file[g][n]
      /\ \A f \in Families \ {g} : file'[f] = file[f]
  BY <1>1
<1>3. \A n \in Places : /\ file[g][n].records \subseteq file'[g][n].records
                        /\ file[g][n].damaged => file'[g][n].damaged
                        /\ Readable(file'[g][n]) \subseteq Readable(file[g][n]) \cup new
  BY <1>2
<1>4. Texts(file', g) \subseteq Texts(file, g) \cup new
  BY <1>3 DEF Texts
<1> QED
  BY <1>2, <1>3, <1>4 DEF Grown

LEMMA RotateGrows ==
    ASSUME EvidenceInv, NEW p \in Processes, LockAndRotate(p)
    PROVE  /\ Grown(file, file', run[p].family, {})
           /\ \A f \in Families \ {run[p].family} : file'[f] = file[f]
<1> DEFINE g == run[p].family  k == Newest(g) + 1
<1>1. g \in Families /\ MaxSegments \notin Existing(g) /\ file' = [file EXCEPT ![g] = Rotated(g)]
  BY DEF LockAndRotate, EvidenceInv, RunsTypeOK, Remembers, At
<1>2. file'[g] = Rotated(g) /\ \A f \in Families \ {g} : file'[f] = file[f]
  BY <1>1 DEF EvidenceInv, FilesTypeOK
<1>3. CASE Rotated(g) = file[g]
  BY <1>2, <1>3, UnchangedGrows
<1>4. CASE Rotated(g) # file[g]
  <2>1. /\ k \in Places \ {0} /\ 0 \in Places /\ ~file[g][k].there
        /\ Rotated(g) = [n \in Places |-> IF n = 0 THEN NoFile
                                         ELSE IF n = k THEN file[g][0] ELSE file[g][n]]
    BY <1>1, <1>4, RotatedShape
  <2> HIDE DEF k
  <2>2. /\ file'[g][0] = NoFile /\ file'[g][k] = file[g][0]
        /\ \A n \in Places \ {0, k} : file'[g][n] = file[g][n]
    BY <1>2, <2>1
  <2>3. file[g][k] = NoFile
    BY <1>1, <2>1 DEF EvidenceInv, FilesTypeOK, IsContent
  <2>4. Readable(NoFile) = {} /\ NoFile.records = {} /\ NoFile.damaged = FALSE
    BY DEF Readable, NoFile
  <2>5. Texts(file', g) \subseteq Texts(file, g)
    <3> SUFFICES ASSUME NEW n \in Places, NEW x \in Readable(file'[g][n])
                 PROVE  \E m \in Places : x \in Readable(file[g][m])
      BY DEF Texts
    <3>1. n # 0
      BY <2>2, <2>4
    <3>2. CASE n = k
      BY <2>1, <2>2, <3>2
    <3>3. CASE n # k
      BY <2>2, <3>1, <3>3
    <3> QED
      BY <3>2, <3>3
  <2>6. ASSUME NEW n \in Places
        PROVE  \E m \in Places : /\ file[g][n].records \subseteq file'[g][m].records
                                 /\ file[g][n].damaged => file'[g][m].damaged
    <3>1. CASE n = 0
      BY <2>1, <2>2, <3>1
    <3>2. CASE n = k
      BY <2>3, <2>4, <3>2
    <3>3. CASE n # 0 /\ n # k
      BY <2>2, <3>3
    <3> QED
      BY <3>1, <3>2, <3>3
  <2> QED
    BY <1>2, <2>5, <2>6 DEF Grown
<1> QED
  BY <1>2, <1>3, <1>4

LEMMA WriteGrows ==
    ASSUME EvidenceInv, NEW p \in Processes, Write(p) \/ WriteFails(p)
    PROVE  /\ Grown(file, file', run[p].family, {run[p].record})
           /\ \A f \in Families \ {run[p].family} : file'[f] = file[f]
           /\ Write(p) => \/ run[p].record \in file'[run[p].family][0].records
                          \/ file'[run[p].family][0].damaged
<1> DEFINE g == run[p].family  r == run[p].record
<1>1. g \in Families /\ r \in Record /\ IsContent(file[g][0])
  BY ActiveExists DEF Write, WriteFails, EvidenceInv, RunsTypeOK, Remembers, At
<1>2. CASE Write(p)
  <2> DEFINE left == Extended(file[g][0], {r}, TRUE)
  <2>1. file' = [file EXCEPT ![g][0] = left]
    BY <1>2 DEF Write
  <2>2. /\ Readable(left) \subseteq Readable(file[g][0]) \cup {r}
        /\ file[g][0].records \subseteq left.records
        /\ file[g][0].damaged => left.damaged
        /\ r \in left.records \/ left.damaged
    BY <1>1, ExtendedText, ExtendedKeeps, WrittenText
  <2> HIDE DEF left
  <2> QED
    BY <1>1, <2>1, <2>2, ActiveGrows
<1>3. CASE WriteFails(p) /\ ~Write(p)
  <2>1. PICK left \in Leftovers(file[g][0], r) : file' = [file EXCEPT ![g][0] = left]
    BY <1>3 DEF WriteFails
  <2>2. /\ Readable(left) \subseteq Readable(file[g][0]) \cup {r}
        /\ file[g][0].records \subseteq left.records
        /\ file[g][0].damaged => left.damaged
    BY <1>1, LeftoverText
  <2> QED
    BY <1>1, <1>3, <2>1, <2>2, ActiveGrows
<1> QED
  BY <1>2, <1>3
(***************************************************************************)
(* One step, of a process that leaves as s and may have written `new`.     *)
(***************************************************************************)
MoveOf(p, s, new) ==
    /\ run' = [run EXCEPT ![p] = s]
    /\ commands \in Nat /\ commands' \in {commands, commands + 1}
    /\ \/ s.number \in {0, run[p].number}
       \/ s.number = commands + 1 /\ commands' = commands + 1
    /\ Touching(s) =>
          \/ Touching(run[p]) /\ s.number = run[p].number
          \/ s.number = commands + 1 /\ s.number # run[p].number
    /\ Grown(file, file', "disposition", new)
    /\ new = {} \/ (Disposing(run[p]) /\ new = {run[p].record})
    /\ NoQueries(file) => NoQueries(file')
    /\ \/ touched' = touched
       \/ run[p].at = "replace" /\ touched' = touched \cup {run[p].number}
    /\ \A q \in Processes \ {p} : Touching(run[q]) => file'["recall"] = file["recall"]
    /\ ReceiptsOK(s, file', touched')

LEMMA TextsAreRecords == ASSUME EvidenceInv PROVE Texts(file, "disposition") \subseteq Record
<1>1. \A n \in Places : Readable(file["disposition"][n]) \subseteq Record
  BY FamilyNames DEF EvidenceInv, FilesTypeOK, IsContent, Readable
<1> QED
  BY <1>1 DEF Texts

LEMMA NumbersStep ==
    ASSUME EvidenceInv, ReceiptsInv, NEW p \in Processes, NEW s, NEW new, MoveOf(p, s, new)
    PROVE  /\ run'[p] = s /\ \A q \in Processes \ {p} : run'[q] = run[q]
           /\ \A q \in Processes : run[q].number \in Nat /\ run[q].number <= commands
           /\ \A q \in Processes \ {p} : run[q].number = run[p].number => run[p].number = 0
           /\ run[p].at = "replace" => run[p].number # 0
           /\ NumbersOK'
<1> USE DEF ReceiptsInv, NumbersOK
<1>1. run'[p] = s /\ \A q \in Processes \ {p} : run'[q] = run[q]
  BY DEF MoveOf, EvidenceInv, RunsTypeOK
<1>2. \A q \in Processes : run[q].number \in Nat
  BY DEF EvidenceInv, RunsTypeOK, Remembers
<1>3. commands \in Nat /\ commands' \in {commands, commands + 1}
  BY DEF MoveOf
<1>4. \/ s.number = 0 \/ s.number = run[p].number
      \/ s.number = commands + 1 /\ commands' = commands + 1
  BY DEF MoveOf
<1>5. \A q \in Processes : run'[q].number <= commands'
  BY <1>1, <1>2, <1>3, <1>4
<1>6. \A q \in Processes \ {p} : run'[q].number = s.number => s.number = 0
  BY <1>1, <1>2, <1>3, <1>4
<1>7. \A q, u \in Processes : q # u /\ run'[q].number = run'[u].number => run'[q].number = 0
  BY <1>1, <1>6
<1>8. ASSUME NEW x \in Texts(file', "disposition") PROVE x.id <= commands'
  <2>1. x \in Texts(file, "disposition") \/ x \in new
    BY <1>8 DEF MoveOf, Grown
  <2>2. CASE x \in Texts(file, "disposition")
    <3>1. x \in Record
      BY <2>2, TextsAreRecords
    <3>2. x.id \in Nat /\ x.id <= commands
      BY <2>2, <3>1 DEF Record
    <3> QED
      BY <1>3, <3>2
  <2>3. CASE x \in new
    <3>1. x.id = run[p].number
      BY <2>3 DEF MoveOf, ReceiptsOK
    <3> QED
      BY <1>2, <1>3, <3>1
  <2> QED
    BY <2>1, <2>2, <2>3
<1>9. run[p].at = "replace" => run[p].number # 0
  BY DEF ReceiptsOK, Touching
<1>10. touched' \subseteq 1 .. commands'
  <2>1. \A t \in touched : t \in 1 .. commands'
    BY <1>3
  <2>2. run[p].at = "replace" => run[p].number \in 1 .. commands'
    BY <1>2, <1>3, <1>9
  <2> QED
    BY <2>1, <2>2 DEF MoveOf
<1> QED
  BY <1>1, <1>2, <1>5, <1>7, <1>8, <1>9, <1>10

LEMMA ReceiptsStep ==
    ASSUME EvidenceInv, ReceiptsInv, NEW p \in Processes, NEW s, NEW new, MoveOf(p, s, new)
    PROVE  ReceiptsInv'
<1>1. run'[p] = s /\ \A q \in Processes \ {p} : run'[q] = run[q]
  BY NumbersStep
<1>2. \A q \in Processes : run[q].number \in Nat /\ run[q].number <= commands
  BY NumbersStep
<1>3. \A q \in Processes \ {p} : run[q].number = run[p].number => run[p].number = 0
  BY NumbersStep
<1>4. run[p].at = "replace" => run[p].number # 0
  BY NumbersStep
<1>5. \A q \in Processes : ReceiptsOK(run[q], file, touched)
  BY DEF ReceiptsInv
<1>6. Texts(file', "disposition") \subseteq Texts(file, "disposition") \cup new
  BY DEF MoveOf, Grown
<1>7. \A t : Witnessed(file, t) => Witnessed(file', t)
  BY GrownWitness DEF MoveOf
<1>8. \A t \in touched' : t \in touched \/ (run[p].at = "replace" /\ t = run[p].number)
  BY DEF MoveOf
<1>9. ASSUME NEW q \in Processes PROVE ReceiptsOK(run'[q], file', touched')
  <2>1. CASE q = p
    BY <1>1, <2>1 DEF MoveOf
  <2>2. CASE q # p
    <3>1. /\ run'[q] = run[q] /\ ReceiptsOK(run[q], file, touched)
          /\ NoQueries(file) => NoQueries(file')
          /\ Touching(run[q]) => file'["recall"] = file["recall"]
      BY <1>1, <1>5, <2>2 DEF MoveOf
    <3>2. run[q].number # 0 /\ run[q].number \notin touched => run[q].number \notin touched'
      BY <1>3, <1>8, <2>2
    <3> QED
      BY <1>7, <3>1, <3>2 DEF ReceiptsOK
  <2> QED
    BY <2>1, <2>2
<1>10. ASSUME NEW x \in Texts(file', "disposition"), x.form = "completed" PROVE NoQueries(file')
  <2>1. NoQueries(file)
    <3>1. CASE x \in Texts(file, "disposition")
      BY <1>10, <3>1 DEF ReceiptsInv, SaidOK
    <3>2. CASE x \in new
      BY <1>5, <1>10, <3>2 DEF MoveOf, ReceiptsOK
    <3> QED
      BY <1>6, <3>1, <3>2
  <2> QED
    BY <2>1 DEF MoveOf
<1>11. ASSUME NEW x \in Texts(file', "disposition"), x.form = "aborted"
       PROVE  x.id \notin touched' /\ \A q \in Processes : run'[q].number = x.id => ~Touching(run'[q])
  <2>1. /\ x.id \notin touched /\ x.id <= commands
        /\ \A q \in Processes : run[q].number = x.id => ~Touching(run[q])
        /\ x.id \in Nat
    <3>1. CASE x \in Texts(file, "disposition")
      BY <1>11, <3>1, TextsAreRecords DEF Record, ReceiptsInv, NumbersOK, SaidOK
    <3>2. CASE x \in new
      <4>1. Disposing(run[p]) /\ x = run[p].record
        BY <3>2 DEF MoveOf
      <4>2. x.id = run[p].number /\ x.id # 0 /\ x.id \notin touched /\ run[p].then = "idle"
        BY <1>5, <1>11, <4>1 DEF ReceiptsOK
      <4>3. ~Touching(run[p])
        BY <4>1, <4>2 DEF Touching, Disposing, Appending
      <4>4. \A q \in Processes : run[q].number = x.id => q = p
        BY <1>3, <4>2
      <4> QED
        BY <1>2, <4>2, <4>3, <4>4
    <3> QED
      BY <1>6, <3>1, <3>2
  <2>2. x.id \notin touched'
    BY <1>8, <2>1 DEF Touching
  <2>3. s.number = x.id => ~Touching(s)
    <3>1. commands \in Nat /\ x.id # commands + 1
      BY <2>1 DEF MoveOf
    <3> QED
      BY <2>1, <3>1 DEF MoveOf
  <2> QED
    BY <1>1, <2>1, <2>2, <2>3
<1>12. \A t \in touched' : Witnessed(file', t)
  <2>1. \A t \in touched : Witnessed(file, t)
    BY DEF ReceiptsInv, SaidOK
  <2>2. run[p].at = "replace" => Witnessed(file, run[p].number)
    BY <1>5 DEF ReceiptsOK
  <2> QED
    BY <1>7, <1>8, <2>1, <2>2
<1>13. SaidOK'
  BY <1>10, <1>11, <1>12 DEF SaidOK
<1>14. NumbersOK'
  BY NumbersStep
<1> QED
  BY <1>9, <1>13, <1>14 DEF ReceiptsInv

\* Steps that write no file and replace none.
StillMove(p, s) ==
    /\ UNCHANGED <<file, touched>>
    /\ run' = [run EXCEPT ![p] = s]
    /\ commands' \in {commands, commands + 1}
    /\ \/ s.number \in {0, run[p].number}
       \/ s.number = commands + 1 /\ commands' = commands + 1
    /\ ~Touching(s)
    /\ ReceiptsOK(s, file, touched)

LEMMA StillStep ==
    ASSUME EvidenceInv, ReceiptsInv, NEW p \in Processes, NEW s, StillMove(p, s)
    PROVE  ReceiptsInv'
<1>1. Grown(file, file', "disposition", {})
  BY UnchangedGrows DEF StillMove
<1>2. commands \in Nat /\ file' = file /\ touched' = touched
  BY DEF EvidenceInv, RunsTypeOK, StillMove
<1>3. MoveOf(p, s, {})
  BY <1>1, <1>2 DEF MoveOf, StillMove
<1> QED
  BY <1>3, ReceiptsStep

\* A process that neither appends nor replaces.
LEMMA ReaderIsStill ==
    ASSUME EvidenceInv, ReceiptsInv, NEW p \in Processes, NEW s, UNCHANGED <<file, touched, commands>>,
           run' = [run EXCEPT ![p] = s], s.number \in {0, run[p].number},
           s.at \notin {"append", "write", "replace"}
    PROVE  ReceiptsInv'
<1>1. StillMove(p, s)
  BY DEF StillMove, Touching, Appending, ReceiptsOK, Disposing
<1> QED
  BY <1>1, StillStep

LEMMA EndIsStill ==
    ASSUME EvidenceInv, ReceiptsInv, NEW p \in Processes, Ends(p), UNCHANGED <<file, touched, commands>>
    PROVE  ReceiptsInv'
<1>1. Idle.number = 0 /\ Idle.at = "idle"
  BY DEF Idle
<1> QED
  BY <1>1, ReaderIsStill DEF Ends

\* A process turns to an append after which it does no more than end.
LEMMA LastAppend ==
    ASSUME EvidenceInv, ReceiptsInv, NEW p \in Processes, NEW f, NEW r,
           Appends(p, f, r, "idle"), UNCHANGED <<file, touched, commands>>,
           f = "recall" => r.form = "event",
           f = "disposition" =>
              /\ run[p].number # 0 /\ r.id = run[p].number
              /\ \/ r.form = "aborted" /\ run[p].number \notin touched
                 \/ r.form = "completed" /\ NoQueries(file)
    PROVE  ReceiptsInv'
<1> DEFINE s == [run[p] EXCEPT !.at = "append", !.family = f, !.record = r, !.then = "idle"]
<1>1. run' = [run EXCEPT ![p] = s]
  BY DEF Appends
<1>2. /\ s.at = "append" /\ s.family = f /\ s.record = r /\ s.then = "idle"
      /\ s.number = run[p].number
  BY DEF EvidenceInv, RunsTypeOK, Remembers, Fields
<1> HIDE DEF s
<1>3. ~Touching(s)
  BY <1>2 DEF Touching
<1>4. ReceiptsOK(s, file, touched)
  BY <1>2, <1>3 DEF ReceiptsOK, Disposing
<1>5. StillMove(p, s)
  BY <1>1, <1>2, <1>3, <1>4 DEF StillMove
<1> QED
  BY <1>5, StillStep

LEMMA LogReceipts ==
    ASSUME EvidenceInv, ReceiptsInv, NEW p \in Servers, NEW f \in {"audit", "recall"}, Log(p, f)
    PROVE  ReceiptsInv'
<1> DEFINE r == [id |-> LegacyRecords + calls + 1, form |-> "event"]
<1>1. p \in Processes /\ Appends(p, f, r, "idle") /\ UNCHANGED <<file, touched, commands>>
  BY DEF Log, Processes
<1>2. r.form = "event" /\ f # "disposition"
  OBVIOUS
<1> HIDE DEF r
<1> QED
  BY <1>1, <1>2, LastAppend

LEMMA CollectReceipts ==
    ASSUME EvidenceInv, ReceiptsInv, NEW o \in Operators, NEW kind, NEW order, NEW d,
           Collect(o, kind, order, d)
    PROVE  ReceiptsInv'
<1> DEFINE s == [Idle EXCEPT !.at = "list", !.kind = kind, !.order = order,
                            !.to = d, !.number = commands + 1]
<1>1. /\ o \in Processes /\ run' = [run EXCEPT ![o] = s] /\ UNCHANGED <<file, touched>>
      /\ commands' = commands + 1
  BY DEF Collect, Begin, Processes
<1>2. s.at = "list" /\ s.number = commands + 1
  BY DEF Idle
<1> HIDE DEF s
<1>3. StillMove(o, s)
  BY <1>1, <1>2 DEF StillMove, Touching, Appending, ReceiptsOK, Disposing
<1> QED
  BY <1>1, <1>3, StillStep

LEMMA ReadReceipts ==
    ASSUME EvidenceInv, ReceiptsInv, NEW o \in Operators,
           \/ ListActive(o) \/ ListSegments(o) \/ Hash(o) \/ StartCopies(o) \/ Copy(o)
    PROVE  ReceiptsInv'
<1>1. o \in Processes /\ DOMAIN run[o] = Fields /\ UNCHANGED <<file, touched, commands>>
  BY DEF ListActive, ListSegments, Hash, StartCopies, Copy, Processes, counters,
         EvidenceInv, RunsTypeOK, Remembers
<1>2. CASE Ends(o)
  BY <1>1, <1>2, EndIsStill
<1>3. CASE ~Ends(o)
  <2>1. /\ run' = [run EXCEPT ![o] = run'[o]] /\ run'[o].number = run[o].number
        /\ run'[o].at \in {"list", "glob", "copy"}
    <3> USE DEF EvidenceInv, RunsTypeOK, Remembers, Fields
    <3>1. CASE ListActive(o)
      BY <1>1, <3>1 DEF ListActive
    <3>2. CASE ListSegments(o)
      BY <1>1, <3>2 DEF ListSegments
    <3>3. CASE Hash(o)
      BY <1>1, <1>3, <3>3 DEF Hash, At
    <3>4. CASE StartCopies(o)
      BY <1>1, <3>4 DEF StartCopies
    <3>5. CASE Copy(o)
      BY <1>1, <1>3, <3>5 DEF Copy, At
    <3> QED
      BY <3>1, <3>2, <3>3, <3>4, <3>5
  <2> QED
    BY <1>1, <2>1, ReaderIsStill
<1> QED
  BY <1>2, <1>3

LEMMA EndReceipts ==
    ASSUME EvidenceInv, ReceiptsInv, NEW p \in Processes,
           \/ p \in Operators /\ (PrintPlan(p) \/ Refuse(p) \/ Publish(p))
           \/ Kill(p)
    PROVE  ReceiptsInv'
BY EndIsStill DEF PrintPlan, Refuse, Publish, Kill, counters

LEMMA AcknowledgeReceipts ==
    ASSUME EvidenceInv, ReceiptsInv, NEW o \in Operators, Acknowledge(o)
    PROVE  ReceiptsInv'
BY LastAppend DEF Acknowledge, Processes, counters

LEMMA ReplaceFailsReceipts ==
    ASSUME EvidenceInv, ReceiptsInv, NEW o \in Operators, ReplaceFails(o)
    PROVE  ReceiptsInv'
<1>1. o \in Processes /\ UNCHANGED <<file, touched, commands>> /\ run[o].at = "replace"
  BY DEF ReplaceFails, Processes, At
<1>2. CASE Ends(o)
  BY <1>1, <1>2, EndIsStill
<1>3. CASE ~Ends(o)
  <2>1. /\ Appends(o, "disposition", Receipt(o, "aborted"), "idle")
        /\ run[o].number \notin touched /\ run[o].number # 0
    BY <1>1, <1>3 DEF ReplaceFails, ReceiptsInv, ReceiptsOK, Touching
  <2>2. Receipt(o, "aborted").id = run[o].number /\ Receipt(o, "aborted").form = "aborted"
    BY DEF Receipt
  <2> QED
    BY <1>1, <2>1, <2>2, LastAppend
<1> QED
  BY <1>2, <1>3

\* Every file of the family was prepared, and is as it was prepared.
LEMMA CompleteReceipts ==
    ASSUME EvidenceInv, ReceiptsInv, NEW o \in Operators, Complete(o)
    PROVE  ReceiptsInv'
<1>1. o \in Processes /\ UNCHANGED <<file, touched, commands>> /\ run[o].at = "replace"
  BY DEF Complete, Processes, At, counters
<1>2. CASE Ends(o)
  BY <1>1, <1>2, EndIsStill
<1>3. CASE ~Ends(o)
  <2>1. /\ Appends(o, "disposition", Receipt(o, "completed"), "idle")
        /\ \A n \in DOMAIN run[o].made : ~HoldsQuery(file["recall"][n])
    BY <1>3 DEF Complete
  <2>2. run[o].number # 0 /\ DOMAIN run[o].made = {n \in Places : file["recall"][n].there}
    BY <1>1 DEF ReceiptsInv, ReceiptsOK, Touching
  <2>3. \A n \in Places : \A x \in Readable(file["recall"][n]) : x.form # "query"
    <3> SUFFICES ASSUME NEW n \in Places, NEW x \in Readable(file["recall"][n]) PROVE x.form # "query"
      OBVIOUS
    <3>1. CASE file["recall"][n].there
      BY <2>1, <2>2, <3>1 DEF HoldsQuery
    <3>2. CASE ~file["recall"][n].there
      <4>1. file["recall"][n] = NoFile
        BY <3>2, FamilyNames DEF EvidenceInv, FilesTypeOK, IsContent
      <4> QED
        BY <4>1 DEF Readable, NoFile
    <3> QED
      BY <3>1, <3>2
  <2>4. NoQueries(file)
    BY <2>3 DEF NoQueries, Texts
  <2>5. Receipt(o, "completed").id = run[o].number /\ Receipt(o, "completed").form = "completed"
    BY DEF Receipt
  <2> QED
    BY <1>1, <2>1, <2>2, <2>4, <2>5, LastAppend
<1> QED
  BY <1>2, <1>3

\* Whoever replaces files, or is about to, has the recall lock.
LEMMA TouchingHolds ==
    ASSUME EvidenceInv, NEW q \in Processes, Touching(run[q])
    PROVE  Redacting(q) /\ lock["recall"] = q /\ q # None
BY EvidenceAssumption DEF EvidenceInv, RedactionsLock, Touching, At, Redacting, Processes

LEMMA RedactReceipts ==
    ASSUME EvidenceInv, ReceiptsInv, NEW o \in Operators, NEW order, NEW d, Redact(o, order, d)
    PROVE  ReceiptsInv'
<1> DEFINE s == [Idle EXCEPT
          !.at = "append", !.family = "disposition", !.then = "replace",
          !.record = [id |-> commands + 1, form |-> "prepared"],
          !.kind = "redact", !.to = d, !.number = commands + 1,
          !.todo = ActiveOf("recall") \o SegmentsOf("recall"),
          !.made = [n \in Existing("recall") |-> Redacted(file["recall"][n])]]
<1>1. /\ o \in Processes /\ run' = [run EXCEPT ![o] = s] /\ UNCHANGED <<file, touched>>
      /\ commands' = commands + 1
  BY DEF Redact, Begin, Processes
<1>2. /\ s.at = "append" /\ s.family = "disposition" /\ s.then = "replace"
      /\ s.record = [id |-> commands + 1, form |-> "prepared"] /\ s.number = commands + 1
      /\ DOMAIN s.made = Existing("recall")
  BY DEF Idle
<1> HIDE DEF s
<1>3. commands \in Nat /\ run[o].number \in Nat /\ run[o].number <= commands
  BY <1>1 DEF EvidenceInv, RunsTypeOK, Remembers, ReceiptsInv, NumbersOK
<1>4. s.number # 0 /\ s.number # run[o].number
  BY <1>2, <1>3
<1>5. ReceiptsOK(s, file, touched)
  <2>1. Existing("recall") = {n \in Places : file["recall"][n].there}
    BY DEF Existing
  <2> QED
    BY <1>2, <1>4, <2>1 DEF ReceiptsOK
<1>6. Grown(file, file', "disposition", {})
  BY <1>1, UnchangedGrows
<1>7. MoveOf(o, s, {})
  BY <1>1, <1>2, <1>3, <1>4, <1>5, <1>6 DEF MoveOf
<1> QED
  BY <1>1, <1>7, ReceiptsStep

\* A redacted file has no query, and is there as it was before.
LEMMA ReplaceReceipts ==
    ASSUME EvidenceInv, ReceiptsInv, NEW o \in Operators, Replace(o)
    PROVE  ReceiptsInv'
<1> DEFINE n == Head(run[o].todo)
           s == [run[o] EXCEPT !.todo = Tail(run[o].todo)]
<1>1. /\ run[o].todo # <<>> /\ o \in Processes /\ run[o].at = "replace"
      /\ file' = [file EXCEPT !["recall"][n] = run[o].made[n]]
      /\ run' = [run EXCEPT ![o] = s]
      /\ touched' = touched \cup {run[o].number}
      /\ UNCHANGED commands
  BY DEF Replace, counters, Processes, At
<1>2. /\ s.at = "replace" /\ s.number = run[o].number /\ s.made = run[o].made
  BY <1>1 DEF EvidenceInv, RunsTypeOK, Remembers, Fields
<1> HIDE DEF s
<1>3. Touching(run[o]) /\ Touching(s) /\ ~Appending(s) /\ ~Disposing(s)
  BY <1>1, <1>2 DEF Touching, Appending, Disposing
<1>4. Redacting(o)
  BY <1>1, <1>3, TouchingHolds
<1>5. n \in Existing("recall")
  BY <1>1, <1>4 DEF Redacting
<1>6. /\ n \in Places /\ file["recall"][n].there /\ IsContent(file["recall"][n])
      /\ run[o].made[n] = Redacted(file["recall"][n])
  BY <1>4, <1>5, FamilyNames DEF Redacting, Existing, EvidenceInv, FilesTypeOK
<1> HIDE DEF n
<1>7. /\ file'["recall"][n] = Redacted(file["recall"][n])
      /\ \A m \in Places \ {n} : file'["recall"][m] = file["recall"][m]
      /\ file'["disposition"] = file["disposition"]
  BY <1>1, <1>6, FamilyNames DEF EvidenceInv, FilesTypeOK
<1>8. Redacted(file["recall"][n]).there /\ \A x \in Readable(Redacted(file["recall"][n])) : x.form # "query"
  <2>1. Readable(Redacted(file["recall"][n])) = Redacted(file["recall"][n]).records
    BY DEF Redacted, Holding, Readable
  <2> QED
    BY <1>6, <2>1, RedactedKeeps
<1>9. NoQueries(file) => NoQueries(file')
  <2> SUFFICES ASSUME NoQueries(file), NEW m \in Places, NEW x \in Readable(file'["recall"][m])
               PROVE  x.form # "query"
    BY DEF NoQueries, Texts
  <2>1. CASE m = n
    BY <1>7, <1>8, <2>1
  <2>2. CASE m # n
    BY <1>7, <2>2 DEF NoQueries, Texts
  <2> QED
    BY <2>1, <2>2
<1>10. {m \in Places : file'["recall"][m].there} = {m \in Places : file["recall"][m].there}
  BY <1>6, <1>7, <1>8
<1>11. Witnessed(file', run[o].number) /\ run[o].number # 0
       /\ DOMAIN s.made = {m \in Places : file'["recall"][m].there}
  BY <1>1, <1>2, <1>3, <1>7, <1>10 DEF ReceiptsInv, ReceiptsOK, Witnessed
<1>12. ReceiptsOK(s, file', touched')
  BY <1>2, <1>3, <1>11 DEF ReceiptsOK
<1>13. Grown(file, file', "disposition", {})
  BY <1>7, UnchangedGrows
<1>14. \A q \in Processes \ {o} : ~Touching(run[q])
  BY <1>1, <1>3, TouchingHolds
<1>15. commands \in Nat
  BY DEF EvidenceInv, RunsTypeOK
<1>16. MoveOf(o, s, {})
  BY <1>1, <1>2, <1>3, <1>9, <1>12, <1>13, <1>14, <1>15 DEF MoveOf
<1> QED
  BY <1>1, <1>16, ReceiptsStep

\* What a writer of a family does to the two logs.
LEMMA WriterLogs ==
    ASSUME EvidenceInv, ReceiptsInv, NEW p \in Processes, Appending(run[p]), NEW new,
           new = {} \/ new = {run[p].record},
           Grown(file, file', run[p].family, new),
           \A f \in Families \ {run[p].family} : file'[f] = file[f],
           lock[run[p].family] \in {None, p}
    PROVE  /\ \E x \in SUBSET new : /\ Grown(file, file', "disposition", x)
                                    /\ x = {} \/ (Disposing(run[p]) /\ x = {run[p].record})
           /\ NoQueries(file) => NoQueries(file')
           /\ \A q \in Processes : Touching(run[q]) => file'["recall"] = file["recall"]
<1> DEFINE g == run[p].family
<1>1. \E x \in SUBSET new : /\ Grown(file, file', "disposition", x)
                            /\ x = {} \/ (Disposing(run[p]) /\ x = {run[p].record})
  <2>1. CASE g = "disposition"
    <3>1. Disposing(run[p])
      BY <2>1 DEF Disposing
    <3> QED
      BY <2>1, <3>1
  <2>2. CASE g # "disposition"
    <3>1. Grown(file, file', "disposition", {})
      BY <2>2, UnchangedGrows, FamilyNames
    <3> QED
      BY <3>1
  <2> QED
    BY <2>1, <2>2
<1>2. NoQueries(file) => NoQueries(file')
  <2>1. CASE g = "recall"
    <3>1. Texts(file', "recall") \subseteq Texts(file, "recall") \cup new
      BY <2>1 DEF Grown
    <3>2. \A x \in new : x.form = "event"
      BY <2>1 DEF ReceiptsInv, ReceiptsOK
    <3> QED
      BY <3>1, <3>2 DEF NoQueries
  <2>2. CASE g # "recall"
    <3>1. file'["recall"] = file["recall"]
      BY <2>2, FamilyNames
    <3> QED
      BY <3>1 DEF NoQueries, Texts
  <2> QED
    BY <2>1, <2>2
<1>3. ASSUME NEW q \in Processes, Touching(run[q]) PROVE file'["recall"] = file["recall"]
  <2>1. lock["recall"] = q /\ q # None
    BY <1>3, TouchingHolds
  <2>2. CASE g = "recall"
    <3>1. q = p
      BY <2>1, <2>2
    <3>2. run[p].family = "disposition"
      <4>1. run[p].then # "idle"
        BY <1>3, <3>1 DEF Touching, Appending
      <4> QED
        BY <4>1 DEF EvidenceInv, RedactionsLock
    <3> QED
      BY <2>2, <3>2
  <2>3. CASE g # "recall"
    BY <2>3, FamilyNames
  <2> QED
    BY <2>2, <2>3
<1> QED
  BY <1>1, <1>2, <1>3

\* The step of a writer, once it is known what it writes and how it goes on.
LEMMA WriterStepOf ==
    ASSUME EvidenceInv, ReceiptsInv, NEW p \in Processes, Appending(run[p]), NEW new,
           new = {} \/ new = {run[p].record},
           Grown(file, file', run[p].family, new),
           \A f \in Families \ {run[p].family} : file'[f] = file[f],
           lock[run[p].family] \in {None, p},
           UNCHANGED <<touched, commands>>,
           NEW s, run' = [run EXCEPT ![p] = s],
           s.number \in {0, run[p].number},
           Touching(s) => Touching(run[p]) /\ s.number = run[p].number,
           ReceiptsOK(s, file', touched)
    PROVE  ReceiptsInv'
<1>1. PICK x \in SUBSET new : /\ Grown(file, file', "disposition", x)
                              /\ x = {} \/ (Disposing(run[p]) /\ x = {run[p].record})
  BY WriterLogs
<1>2. /\ NoQueries(file) => NoQueries(file')
      /\ \A q \in Processes : Touching(run[q]) => file'["recall"] = file["recall"]
  BY WriterLogs
<1>3. commands \in Nat
  BY DEF EvidenceInv, RunsTypeOK
<1>4. MoveOf(p, s, x)
  BY <1>1, <1>2, <1>3 DEF MoveOf
<1> QED
  BY <1>4, ReceiptsStep

LEMMA LockAndRotateReceipts ==
    ASSUME EvidenceInv, ReceiptsInv, NEW p \in Processes, LockAndRotate(p)
    PROVE  ReceiptsInv'
<1> DEFINE s == [run[p] EXCEPT !.at = "write"]
<1>1. /\ run[p].at = "append" /\ lock[run[p].family] = None
      /\ run' = [run EXCEPT ![p] = s] /\ UNCHANGED <<touched, commands>>
  BY DEF LockAndRotate, At, counters
<1>2. /\ s.at = "write" /\ s.number = run[p].number /\ s.made = run[p].made /\ s.then = run[p].then
      /\ s.family = run[p].family /\ s.record = run[p].record
  BY DEF EvidenceInv, RunsTypeOK, Remembers, Fields
<1> HIDE DEF s
<1>3. /\ Appending(run[p]) /\ Appending(s)
      /\ Touching(s) <=> Touching(run[p])
      /\ Disposing(s) <=> Disposing(run[p])
  BY <1>1, <1>2 DEF Appending, Touching, Disposing
<1>4. /\ Grown(file, file', run[p].family, {})
      /\ \A f \in Families \ {run[p].family} : file'[f] = file[f]
  BY RotateGrows
<1>5. /\ NoQueries(file) => NoQueries(file')
      /\ Touching(run[p]) => file'["recall"] = file["recall"]
  BY <1>1, <1>3, <1>4, WriterLogs
<1>6. ReceiptsOK(run[p], file, touched)
  BY DEF ReceiptsInv
<1>7. ReceiptsOK(s, file', touched)
  BY <1>2, <1>3, <1>5, <1>6 DEF ReceiptsOK
<1> QED
  BY <1>1, <1>2, <1>3, <1>4, <1>7, WriterStepOf

LEMMA WriteFailsReceipts ==
    ASSUME EvidenceInv, ReceiptsInv, NEW p \in Processes, WriteFails(p)
    PROVE  ReceiptsInv'
<1>1. /\ run[p].at = "write" /\ Appending(run[p]) /\ lock[run[p].family] = p
      /\ UNCHANGED <<touched, commands>>
  BY DEF WriteFails, At, Appending, EvidenceInv, WritersLock
<1>2. /\ Grown(file, file', run[p].family, {run[p].record})
      /\ \A f \in Families \ {run[p].family} : file'[f] = file[f]
  BY WriteGrows
<1>3. PICK s : /\ run' = [run EXCEPT ![p] = s] /\ s.number \in {0, run[p].number}
               /\ s.at \notin {"write", "replace"}
               /\ s.at = "append" => s.family = "failure" /\ s.then = "idle"
  <2>1. CASE Ends(p)
    <3>1. Idle.number = 0 /\ Idle.at = "idle"
      BY DEF Idle
    <3> QED
      BY <2>1, <3>1 DEF Ends
  <2>2. CASE Appends(p, "failure", run[p].record, "idle")
    <3> DEFINE s == [run[p] EXCEPT !.at = "append", !.family = "failure",
                                  !.record = run[p].record, !.then = "idle"]
    <3>1. run' = [run EXCEPT ![p] = s]
      BY <2>2 DEF Appends
    <3>2. s.at = "append" /\ s.family = "failure" /\ s.then = "idle" /\ s.number = run[p].number
      BY DEF EvidenceInv, RunsTypeOK, Remembers, Fields
    <3> HIDE DEF s
    <3> QED
      BY <3>1, <3>2
  <2> QED
    BY <2>1, <2>2 DEF WriteFails
<1>4. ~Touching(s) /\ ~Disposing(s) /\ ReceiptsOK(s, file', touched)
  BY <1>3 DEF Touching, Disposing, Appending, ReceiptsOK
<1> QED
  BY <1>1, <1>2, <1>3, <1>4, WriterStepOf

LEMMA WriteReceipts ==
    ASSUME EvidenceInv, ReceiptsInv, NEW p \in Processes, Write(p)
    PROVE  ReceiptsInv'
<1>1. /\ run[p].at = "write" /\ Appending(run[p]) /\ lock[run[p].family] = p
      /\ UNCHANGED <<touched, commands>>
  BY DEF Write, At, Appending, EvidenceInv, WritersLock, counters
<1>2. /\ Grown(file, file', run[p].family, {run[p].record})
      /\ \A f \in Families \ {run[p].family} : file'[f] = file[f]
      /\ run[p].record \in file'[run[p].family][0].records \/ file'[run[p].family][0].damaged
  BY WriteGrows
<1>3. CASE run[p].then = "idle"
  <2>1. run' = [run EXCEPT ![p] = Idle] /\ Idle.number = 0 /\ Idle.at = "idle"
    BY <1>3 DEF Write, Ends, Idle
  <2>2. ~Touching(Idle) /\ ~Disposing(Idle) /\ ReceiptsOK(Idle, file', touched)
    BY <2>1 DEF Touching, Disposing, Appending, ReceiptsOK
  <2> QED
    BY <1>1, <1>2, <2>1, <2>2, WriterStepOf
<1>4. CASE run[p].then # "idle"
  <2> DEFINE s == [run[p] EXCEPT !.at = run[p].then]
  <2>1. /\ run' = [run EXCEPT ![p] = s] /\ run[p].then = "replace" /\ run[p].family = "disposition"
        /\ Touching(run[p]) /\ Disposing(run[p])
    BY <1>1, <1>4 DEF Write, EvidenceInv, RedactionsLock, Touching, Disposing
  <2>2. s.at = "replace" /\ s.number = run[p].number /\ s.made = run[p].made
    BY <2>1 DEF EvidenceInv, RunsTypeOK, Remembers, Fields
  <2> HIDE DEF s
  <2>3. /\ run[p].record \in Record /\ run[p].record.id = run[p].number
        /\ run[p].record.form = "prepared" /\ run[p].number # 0
        /\ DOMAIN run[p].made = {n \in Places : file["recall"][n].there}
    BY <1>4, <2>1 DEF ReceiptsInv, ReceiptsOK, EvidenceInv, RunsTypeOK, Remembers
  <2>4. run[p].record = [id |-> run[p].number, form |-> "prepared"]
    BY <2>3 DEF Record
  <2>5. Witnessed(file', run[p].number)
    <3>1. 0 \in Places
      BY EvidenceAssumption DEF Places
    <3> QED
      BY <1>2, <2>1, <2>4, <3>1 DEF Witnessed
  <2>6. file'["recall"] = file["recall"]
    BY <1>2, <2>1, FamilyNames
  <2>7. ~Appending(s) /\ ~Disposing(s)
    BY <2>2 DEF Appending, Disposing
  <2>8. ReceiptsOK(s, file', touched)
    BY <2>2, <2>3, <2>5, <2>6, <2>7 DEF ReceiptsOK
  <2> QED
    BY <1>1, <1>2, <2>1, <2>2, <2>8, WriterStepOf
<1> QED
  BY <1>3, <1>4

LEMMA InitReceipts == Init => ReceiptsInv
<1> SUFFICES ASSUME Init PROVE ReceiptsInv
  OBVIOUS
<1>1. /\ \A p \in Processes : run[p] = Idle
      /\ commands = 0 /\ touched = {}
  BY DEF Init
<1>2. Idle.number = 0 /\ Idle.at = "idle"
  BY DEF Idle
<1>3. \A n \in Places : file["disposition"][n] = NoFile
  <2>1. "disposition" \in Families /\ "disposition" # "recall"
    BY FamilyNames
  <2> QED
    BY <2>1 DEF Init
<1>4. Texts(file, "disposition") = {}
  BY <1>3 DEF Texts, Readable, NoFile
<1>5. NumbersOK
  BY <1>1, <1>2, <1>4 DEF NumbersOK
<1>6. \A p \in Processes : ReceiptsOK(run[p], file, touched)
  BY <1>1, <1>2 DEF ReceiptsOK, Touching, Disposing, Appending
<1>7. SaidOK
  BY <1>1, <1>4 DEF SaidOK
<1> QED
  BY <1>5, <1>6, <1>7 DEF ReceiptsInv

LEMMA StepReceipts == ASSUME EvidenceInv, ReceiptsInv, [Next]_vars PROVE ReceiptsInv'
<1>1. CASE UNCHANGED vars
  <2>1. UNCHANGED <<file, run, touched, commands>>
    BY <1>1 DEF vars
  <2> QED
    BY <2>1 DEF ReceiptsInv, NumbersOK, ReceiptsOK, SaidOK, Witnessed, NoQueries, Texts, Touching,
                Disposing, Appending, Readable
<1>2. ASSUME NEW s \in Servers, Log(s, "audit") \/ Log(s, "recall") PROVE ReceiptsInv'
  BY <1>2, LogReceipts
<1>3. ASSUME NEW o \in Operators, Command(o) PROVE ReceiptsInv'
  <2>1. o \in Processes
    BY DEF Processes
  <2>2. ASSUME NEW kind, NEW order, NEW d, Collect(o, kind, order, d) PROVE ReceiptsInv'
    BY <2>2, CollectReceipts
  <2>3. ASSUME NEW order, NEW d, Redact(o, order, d) PROVE ReceiptsInv'
    BY <2>3, RedactReceipts
  <2> QED
    BY <1>3, <2>1, <2>2, <2>3, ReadReceipts, EndReceipts, AcknowledgeReceipts, ReplaceReceipts,
       ReplaceFailsReceipts, CompleteReceipts DEF Command
<1>4. ASSUME NEW p \in Processes, LockAndRotate(p) \/ Write(p) \/ WriteFails(p) \/ Kill(p)
      PROVE  ReceiptsInv'
  BY <1>4, LockAndRotateReceipts, WriteReceipts, WriteFailsReceipts, EndReceipts
<1> QED
  BY <1>1, <1>2, <1>3, <1>4 DEF Next

LEMMA ReceiptsAreTrue == ASSUME EvidenceInv, ReceiptsInv PROVE RedactionsAreOnRecord
<1>1. ASSUME NEW t \in 1 .. MaxCommands, "completed" \in Said(t), NEW n \in Places
      PROVE  ~HoldsQuery(file["recall"][n])
  <2>1. PICK x \in Texts(file, "disposition") : x.form = "completed"
    BY <1>1 DEF Said, Texts
  <2>2. NoQueries(file)
    BY <2>1 DEF ReceiptsInv, SaidOK
  <2> QED
    BY <2>2 DEF NoQueries, Texts, HoldsQuery
<1>2. ASSUME NEW t \in touched PROVE "aborted" \notin Said(t)
  <2> SUFFICES ASSUME NEW x \in Texts(file, "disposition"), x.id = t, x.form = "aborted" PROVE FALSE
    BY DEF Said, Texts
  <2> QED
    BY DEF ReceiptsInv, SaidOK
<1>3. ASSUME NEW t \in touched
      PROVE  "prepared" \in Said(t) \/ \E n \in Places : Damaged(file["disposition"][n])
  <2>1. PICK n \in Places : \/ file["disposition"][n].damaged
                            \/ [id |-> t, form |-> "prepared"] \in file["disposition"][n].records
    BY DEF ReceiptsInv, SaidOK, Witnessed
  <2>2. CASE file["disposition"][n].damaged
    BY <2>2 DEF Damaged
  <2>3. CASE [id |-> t, form |-> "prepared"] \in file["disposition"][n].records
    <3>1. [id |-> t, form |-> "prepared"] \in UNION {Readable(file["disposition"][m]) : m \in Places}
      BY <2>3 DEF Readable
    <3> QED
      BY <3>1 DEF Said
  <2> QED
    BY <2>1, <2>2, <2>3
<1> QED
  BY <1>1, <1>2, <1>3 DEF RedactionsAreOnRecord

\* The strengthening: every redaction has a number of its own, its receipts are
\* the only records with it, and a receipt is written only where it is true and
\* nobody can make it untrue any more.
THEOREM ReceiptsInvariant == Spec => []ReceiptsInv
<1>1. Init => ReceiptsInv
  BY InitReceipts
<1>2. EvidenceInv /\ ReceiptsInv /\ [Next]_vars => ReceiptsInv'
  BY StepReceipts
<1> QED
  BY <1>1, <1>2, EvidenceInvariant, PTL DEF Spec

\* The receipts of a redaction tell the truth, whatever failed or was killed:
\* completed, no query is left; begun, its prepared receipt is there or a damaged
\* line is, and never an aborted one.
THEOREM RedactionsAreTrue == Spec => []RedactionsAreOnRecord
BY ReceiptsInvariant, EvidenceInvariant, ReceiptsAreTrue, PTL
=============================================================================

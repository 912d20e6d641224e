---------------------------- MODULE ContextBridge ----------------------------
(***************************************************************************)
(* The context sections and the fallback markdown file.  Owners write      *)
(* sections with a compare-and-swap token, an operator promotes an exact   *)
(* version, an export renders the sections to the file, Claude.ai edits    *)
(* the file, and sync_from_file imports what it edited.                    *)
(*                                                                         *)
(* Actors are server processes over one SQLite database (WAL).  A SELECT   *)
(* outside a transaction is one atomic read.  A transaction holds the      *)
(* write lock from its first write (or BEGIN IMMEDIATE) to its end; what   *)
(* it staged is kept in "txn" and seen by its own connection alone.  The   *)
(* file is outside the database: it is read, compared and replaced while   *)
(* an editor may rewrite it.                                               *)
(*                                                                         *)
(* Abstracted: a text is a value, equal or not to another (markers,        *)
(* boundary lines and edge newlines are stripped by the importer, hashes   *)
(* are the values they hash).  All else the file renders -- activity,      *)
(* handoffs, snapshots, the date -- is the counter "world".                *)
(***************************************************************************)
EXTENDS Integers, Sequences, FiniteSets, FiniteSetsExt, SequencesExt

CONSTANTS Sections,         \* the keys of SECTION_OWNERS
          FileOrder,        \* those owned by claude_ai, in the order of the file
          Contents,         \* texts that people and agents write
          Placeholder,      \* the text rendered for a section without a row
          NoText,           \* the text of a section without a row
          Asked,            \* bound of the model: the trusts clients ask for
          Size,             \* the bytes of a text, in some unit
          SectionBytes,     \* config.CONTEXT_SECTION_MAX_BYTES
          TotalBytes,       \* config.CONTEXT_TOTAL_MAX_BYTES
          Processes,        \* server processes, each with one call in flight
          RoleOf,           \* the principal a process is bound to
          JobOwner,         \* the principal whose event left a projection job
          Operators,        \* operator terminals
          Nobody,           \* nobody holds the write lock
          NoFile,           \* no fallback file, or no row of its export state
          Guarded,          \* the path is Claude's own: no all-placeholder file
          LegacyFile,       \* an older version may have left a file
          MaxVersion,       \* bound of the model: versions of a section
          MaxWorld          \* bound of the model: changes of the rest

FileSections == ToSet(FileOrder)
Texts == Contents \cup {Placeholder}
Payloads == {text \in Contents : Size[text] <= SectionBytes}

ASSUME ContextAssumption ==
    /\ FileOrder \in Seq(Sections)
    /\ Asked \subseteq {"operator", "agent", "ingested"}
    /\ NoText \notin Texts /\ Placeholder \notin Contents
    /\ Size \in [Texts \cup {NoText} -> Nat] /\ Size[NoText] = 0
    /\ Nobody \notin Processes
    /\ SectionBytes \in Nat /\ TotalBytes \in Nat /\ MaxVersion \in Nat \ {0}
    /\ MaxWorld \in Nat
    /\ Guarded \in BOOLEAN /\ LegacyFile \in BOOLEAN

VARIABLES sec,              \* context_sections
          base,             \* context_section_export_state
          published,        \* bridge_file_export_state
          job,              \* one bridge_projection_jobs row
          imports,          \* bridge_import_receipts
          refusals,         \* sections with a receipt in write_conflicts
          txn,              \* the open write transaction
          file,             \* the fallback file
          call,             \* what a process's call in flight remembers
          review,           \* what an operator was shown
          world             \* everything else the file renders

db == <<sec, base, published, job, imports, refusals>>
vars == <<db, txn, file, call, review, world>>

-----------------------------------------------------------------------------
(* Data *)

Trusts == {"operator", "agent", "ingested"}
Section == [version : 0..MaxVersion, content : Texts \cup {NoText},
            trust : Trusts \cup {"unknown"}]
Absent == [version |-> 0, content |-> NoText, trust |-> "unknown"]
Stored(s) == sec[s].version > 0
OwnerOf(s) == IF s \in FileSections THEN "claude_ai" ELSE "cc"

\* The version and text of a section that the last export rendered.
Base == [version : 0..MaxVersion, content : Texts \cup {NoText}]
NoBase == [version |-> 0, content |-> NoText]

\* Everything a hash of the whole file covers.
Image == [body : [FileSections -> Texts],
          rest : (-1..MaxWorld) \X [FileSections -> Trusts \cup {"unknown"}]]
\* History kept with the file: how its last bytes came about, and the versions
\* its text was exported from.
File == [image : Image, origin : {"legacy", "exported", "torn", "edited"},
         from : [FileSections -> 0..MaxVersion]]

ASSUME NoFileAssumption == NoFile \notin File

ImportReceipt == [section : FileSections, previous : 0..MaxVersion,
                  imported : 1..MaxVersion, content : Texts,
                  from : 0..MaxVersion]

Outcome == [FileSections -> {"pending", "unchanged", "imported", "refused"}]
Idle == [op |-> "idle"]
NoJob == "no_job"

OwnerCall == [op : {"editing"}, section : Sections, row : Section]
             \cup [op : {"creating", "blind"}, section : Sections]
SyncCall == [op : {"syncing", "synced"}, file : File, at : 1 .. Len(FileOrder) + 1,
             plan : {"look", "replace", "insert", "refuse"},
             version : 0..MaxVersion, outcome : Outcome]
ExportCall == [op : {"compared", "replaced"}, saw : File \cup {NoFile}, image : Image,
               versions : [FileSections -> 0..MaxVersion], job : {NoJob, "the_job"}]
Review == [op : {"promote"}, section : Sections, row : Section]

NoTxn == [by |-> Nobody]
TypeOK ==
    /\ sec \in [Sections -> Section]
    /\ base \in [FileSections -> Base]
    /\ published \in Image \cup {NoFile}
    /\ job \in {"none", "pending", "completed"}
    /\ imports \subseteq ImportReceipt
    /\ refusals \subseteq Sections
    /\ txn = NoTxn \/ txn \in [by : Processes, sec : [Sections -> Section],
                               imports : SUBSET ImportReceipt,
                               refusals : SUBSET Sections]
    /\ file = NoFile \/ file \in File
    /\ call \in [Processes -> {Idle} \cup OwnerCall \cup SyncCall \cup ExportCall]
    /\ review \in [Operators -> {Idle} \cup Review]
    /\ world \in 0..MaxWorld

-----------------------------------------------------------------------------
(* Rendering *)

RenderOf(table) ==
    [body |-> [s \in FileSections |->
                   IF table[s].version > 0 THEN table[s].content ELSE Placeholder],
     rest |-> <<world, [s \in FileSections |-> table[s].trust]>>]
VersionsOf(table) == [s \in FileSections |-> table[s].version]

\* A database from an older version: sections somebody wrote, perhaps a file,
\* perhaps the versions it was exported from, but never a whole-file hash.  The
\* sections that are not in the file are created later.
Init ==
    /\ sec \in [Sections -> {Absent} \cup
                    [version : {1}, content : Payloads, trust : Asked]]
    /\ \A s \in Sections \ FileSections : sec[s] = Absent
    /\ MapThenSumSet(LAMBDA s : Size[sec[s].content], Sections) <= TotalBytes
    /\ base \in [FileSections -> {NoBase} \cup [version : {1}, content : Payloads]]
    /\ file \in {NoFile} \cup
           IF LegacyFile
           THEN [image : [body : [FileSections -> Texts],
                          rest : {<<-1, [s \in FileSections |-> "unknown"]>>}],
                 origin : {"legacy"}, from : {[s \in FileSections |-> base[s].version]}]
           ELSE {}
    /\ \A s \in FileSections :
          base[s] # NoBase => file # NoFile /\ base[s].content = sec[s].content
    /\ published = NoFile
    /\ job = "none"
    /\ imports = {} /\ refusals = {}
    /\ txn = NoTxn
    /\ call = [p \in Processes |-> Idle]
    /\ review = [o \in Operators |-> Idle]
    /\ world = 0

-----------------------------------------------------------------------------
(* Transactions *)

\* What a connection reads: its own transaction, or the committed table.
View(p) == IF txn.by = p THEN txn.sec ELSE sec

\* The write lock is free, or this connection has it already.
Writable(p) == txn.by \in {Nobody, p}

Staged(p) == IF txn.by = p THEN txn
             ELSE [by |-> p, sec |-> sec, imports |-> imports, refusals |-> refusals]

\* One write and the commit, which makes durable also what an earlier call of
\* the connection left open.
CommitSection(p, s, new) ==
    /\ sec' = [View(p) EXCEPT ![s] = new]
    /\ imports' = Staged(p).imports /\ refusals' = Staged(p).refusals
CommitRefusal(p, s) ==
    /\ sec' = View(p)
    /\ imports' = Staged(p).imports /\ refusals' = Staged(p).refusals \cup {s}

Return(p) == call' = [call EXCEPT ![p] = Idle]

\* The capacity triggers: an insert may not pass the limit, an update may not
\* unless it shrinks what is over it.
Total(table) == MapThenSumSet(LAMBDA s : Size[table[s].content], Sections)
Fits(table, s, text) ==
    LET total == Total([table EXCEPT ![s].content = text])
    IN  total <= TotalBytes \/ (table[s].version > 0 /\ total <= Total(table))

-----------------------------------------------------------------------------
(* Owners: get_section and update_section *)

Clamp(trust) == IF trust = "operator" THEN "agent" ELSE trust

\* Mutant: operator trust outlives the text it was given to.
Written_KeepsTrust(row, text, trust) ==
    [version |-> row.version + 1, content |-> text,
     trust |-> IF row.trust = "operator" THEN "operator" ELSE trust]
\* Mutant: the version is not stepped.
Written_SameVersion(row, text, trust) ==
    [version |-> IF row.version = 0 THEN 1 ELSE row.version, content |-> text,
     trust |-> trust]
\* The row a content write leaves behind.
Written(row, text, trust) ==
    [version |-> row.version + 1, content |-> text, trust |-> trust]

\* get_section, and the client that goes on with what it read.
GetSection(p, s) ==
    /\ call[p] = Idle
    /\ RoleOf[p] = OwnerOf(s)
    /\ View(p)[s].version > 0
    /\ call' = [call EXCEPT ![p] = [op |-> "editing", section |-> s,
                                    row |-> View(p)[s]]]
    /\ UNCHANGED <<db, txn, file, review, world>>

\* The UPDATE's WHERE clause.  A version is compared exactly.  updated_at has a
\* resolution of one second: the row the client read matches, and so may any row
\* written in the same second.
SameRow(p) == View(p)[call[p].section].version = call[p].row.version

UpdateWins(p, token, text, trust) ==
    /\ call[p].op = "editing" /\ Writable(p)
    /\ token = "version" => SameRow(p)
    /\ LET s == call[p].section IN
       /\ View(p)[s].version < MaxVersion
       /\ Fits(View(p), s, text)
       /\ CommitSection(p, s, Written(View(p)[s], text, Clamp(trust)))
    /\ txn' = NoTxn
    /\ Return(p)
    /\ UNCHANGED <<base, published, job, file, review, world>>

UpdateLoses(p) ==
    /\ call[p].op = "editing" /\ Writable(p)
    /\ ~SameRow(p)
    /\ CommitRefusal(p, call[p].section)
    /\ txn' = NoTxn
    /\ Return(p)
    /\ UNCHANGED <<base, published, job, file, review, world>>

UpdateTooLarge(p, token, text) ==
    /\ call[p].op = "editing" /\ Writable(p)
    /\ token = "version" => SameRow(p)
    /\ ~Fits(View(p), call[p].section, text)
    /\ txn' = NoTxn
    /\ Return(p)
    /\ UNCHANGED <<db, file, review, world>>

\* update_section without a token, up to its SELECT.
CreateRead(p, s) ==
    /\ call[p] = Idle
    /\ RoleOf[p] = OwnerOf(s)
    /\ call' = [call EXCEPT ![p] =
                   [op |-> IF View(p)[s].version > 0 THEN "blind" ELSE "creating",
                    section |-> s]]
    /\ UNCHANGED <<db, txn, file, review, world>>

CreateBlind(p) ==
    /\ call[p].op = "blind" /\ Writable(p)
    /\ CommitRefusal(p, call[p].section)
    /\ txn' = NoTxn
    /\ Return(p)
    /\ UNCHANGED <<base, published, job, file, review, world>>

\* A text over the limit is rolled back and refused.
CreateInsert(p, text, trust) ==
    /\ call[p].op = "creating" /\ Writable(p)
    /\ LET s == call[p].section IN
       /\ View(p)[s].version = 0
       /\ IF Fits(View(p), s, text)
          THEN CommitSection(p, s, Written(Absent, text, Clamp(trust)))
          ELSE UNCHANGED <<sec, imports, refusals>>
    /\ txn' = NoTxn
    /\ Return(p)
    /\ UNCHANGED <<base, published, job, file, review, world>>

\* The section appeared since the SELECT: the INSERT breaks the primary key,
\* and the error leaves the call, the handler of which rolls back capacity
\* errors only.  The transaction the INSERT began stays open.
CreateRaced(p) ==
    /\ call[p].op = "creating" /\ Writable(p)
    /\ View(p)[call[p].section].version > 0
    /\ txn' = Staged(p)
    /\ Return(p)
    /\ UNCHANGED <<db, file, review, world>>

-----------------------------------------------------------------------------
(* sync_from_file *)

\* The file is read once, before the database.
SyncOpen(p) ==
    /\ call[p] = Idle /\ file # NoFile
    /\ call' = [call EXCEPT ![p] =
                   [op |-> "syncing", file |-> file, at |-> 1, plan |-> "look",
                    version |-> 0, outcome |-> [s \in FileSections |-> "pending"]]]
    /\ UNCHANGED <<db, txn, file, review, world>>

SyncSection(p) == FileOrder[call[p].at]
SyncText(p) == call[p].file.image.body[SyncSection(p)]

\* Mutant: any section that was ever exported may be replaced.
PlanFor_AnyExport(row, exported) ==
    CASE row.version = 0 -> "insert"
      [] row.version > 0 /\ exported = NoBase -> "refuse"
      [] row.version > 0 /\ exported # NoBase -> "replace"
\* What is to become of a file text that differs from the stored one: it is
\* refused unless the row still is what was exported last.
PlanFor(row, exported) ==
    CASE row.version = 0 -> "insert"
      [] row.version > 0 /\ \/ row.version # exported.version
                            \/ row.content # exported.content -> "refuse"
      [] row.version > 0 /\ row.version = exported.version
                         /\ row.content = exported.content -> "replace"

\* What a sync remembers when it knows what to do with a section, and when it
\* is done with it.
PlannedCall(c, plan, version) == [c EXCEPT !.plan = plan, !.version = version]
SettledCall(c, s, outcome) ==
    [c EXCEPT !.at = @ + 1, !.plan = "look", !.version = 0, !.outcome[s] = outcome]
Settle(p, outcome) ==
    call' = [call EXCEPT ![p] = SettledCall(@, SyncSection(p), outcome)]

\* The SELECTs for one section of the file.
SyncLook(p) ==
    /\ call[p].op = "syncing" /\ call[p].at <= Len(FileOrder)
    /\ call[p].plan = "look"
    /\ LET row == View(p)[SyncSection(p)]
       IN  IF row.content = SyncText(p)
           THEN Settle(p, "unchanged")
           ELSE /\ Size[SyncText(p)] <= SectionBytes
                /\ call' = [call EXCEPT ![p] =
                       PlannedCall(@, PlanFor(row, base[SyncSection(p)]), row.version)]
    /\ UNCHANGED <<db, txn, file, review, world>>

\* A changed text over the section limit ends the sync.  The check is outside
\* the handler that rolls back: what earlier sections staged stays open.
SyncOversized(p) ==
    /\ call[p].op = "syncing" /\ call[p].at <= Len(FileOrder)
    /\ call[p].plan = "look"
    /\ View(p)[SyncSection(p)].content # SyncText(p)
    /\ Size[SyncText(p)] > SectionBytes
    /\ Return(p)
    /\ UNCHANGED <<db, txn, file, review, world>>

StageRefusal(p) ==
    /\ txn' = [Staged(p) EXCEPT !.refusals = @ \cup {SyncSection(p)}]
    /\ Settle(p, "refused")

ReceiptFor(p, old) ==
    [section |-> SyncSection(p), previous |-> old.version,
     imported |-> old.version + 1, content |-> SyncText(p),
     from |-> call[p].file.from[SyncSection(p)]]

\* Mutant: the batch goes on after the capacity error rolled it back.
StageImport_GoesOn(p) ==
    LET s == SyncSection(p)
        old == View(p)[s]
    IN  IF Fits(View(p), s, SyncText(p))
        THEN /\ old.version < MaxVersion
             /\ txn' = [Staged(p) EXCEPT
                           !.sec[s] = Written(old, SyncText(p), "ingested"),
                           !.imports = @ \cup {ReceiptFor(p, old)}]
             /\ Settle(p, "imported")
        ELSE /\ txn' = NoTxn
             /\ Settle(p, "refused")
\* The new row and its import receipt, or the end of the whole batch when the
\* text does not fit.
StageImport(p) ==
    LET s == SyncSection(p)
        old == View(p)[s]
    IN  IF Fits(View(p), s, SyncText(p))
        THEN /\ old.version < MaxVersion
             /\ txn' = [Staged(p) EXCEPT
                           !.sec[s] = Written(old, SyncText(p), "ingested"),
                           !.imports = @ \cup {ReceiptFor(p, old)}]
             /\ Settle(p, "imported")
        ELSE /\ txn' = NoTxn
             /\ Return(p)

\* The write of one section: its refusal, or the compare-and-swap on the
\* version the SELECT saw.
SyncStage(p) ==
    /\ call[p].op = "syncing" /\ call[p].plan # "look" /\ Writable(p)
    /\ LET stored == View(p)[SyncSection(p)].version IN
       \/ call[p].plan = "refuse" /\ StageRefusal(p)
       \/ call[p].plan = "replace" /\ stored = call[p].version /\ StageImport(p)
       \/ call[p].plan = "replace" /\ stored # call[p].version /\ StageRefusal(p)
       \/ call[p].plan = "insert" /\ stored = 0 /\ StageImport(p)
       \/ call[p].plan = "insert" /\ stored > 0 /\ StageRefusal(p)
    /\ UNCHANGED <<db, file, review, world>>

\* As CreateRaced: the section appeared between the last SELECT and the INSERT.
SyncRaced(p) ==
    /\ call[p].op = "syncing" /\ call[p].plan = "insert" /\ Writable(p)
    /\ Stored(SyncSection(p)) /\ txn.by # p
    /\ txn' = Staged(p)
    /\ Return(p)
    /\ UNCHANGED <<db, file, review, world>>

\* One commit for the batch.
SyncCommit(p) ==
    /\ call[p].op = "syncing" /\ call[p].at > Len(FileOrder)
    /\ call' = [call EXCEPT ![p].op = "synced"]
    /\ IF txn.by = p
       THEN /\ sec' = txn.sec /\ imports' = txn.imports /\ refusals' = txn.refusals
            /\ txn' = NoTxn
       ELSE UNCHANGED <<sec, imports, refusals, txn>>
    /\ UNCHANGED <<base, published, job, file, review, world>>

\* The report of the sync reaches its client, who has acted on it.
SyncReturn(p) ==
    /\ call[p].op = "synced"
    /\ Return(p)
    /\ UNCHANGED <<db, txn, file, review, world>>

-----------------------------------------------------------------------------
(* export_bridge_markdown, and the export that follows a shipped disposition *)

\* Databases older than the whole-file hash: every section that was exported,
\* or if none was, every section there is, is in the file as recorded.
FileText(s) == IF s \in FileSections THEN file.image.body[s] ELSE NoText
Bootstraps(rendered) ==
    LET exported == {s \in FileSections : base[s] # NoBase}
        stored == {s \in Sections : Stored(s)}
    IN  \/ file.image = rendered
        \/ exported # {} /\ \A s \in exported : FileText(s) = base[s].content
        \/ /\ exported = {} /\ stored # {}
           /\ \A s \in stored : FileText(s) = sec[s].content

\* The retry of a projection job finds its very result in place.
Rendered(f, rendered, j) == j # NoJob /\ f # NoFile /\ f.image = rendered

\* An export whose core sections are all placeholders is not written over
\* Claude's own file.
Writes(rendered, j) ==
    \/ ~Guarded
    \/ Rendered(file, rendered, j)
    \/ \E s \in FileSections : rendered.body[s] # Placeholder

\* Mutant: a tracked file is overwritten whatever it has become.
Admits_Always(rendered, j) ==
    (file # NoFile /\ published = NoFile) => Bootstraps(rendered)
\* The file may be replaced: nobody changed it since the last export.
Admits(rendered, j) ==
    file # NoFile =>
        IF published = NoFile THEN Bootstraps(rendered)
        ELSE file.image = published \/ Rendered(file, rendered, j)

\* Mutant: the write lock is not taken before rendering.
ExportCompare_NoLock(p, j) ==
    /\ call[p] = Idle
    /\ txn.by = Nobody
    /\ j # NoJob => job = "pending" /\ RoleOf[p] = JobOwner
    /\ LET rendered == RenderOf(sec) IN
       /\ Admits(rendered, j) /\ Writes(rendered, j)
       /\ call' = [call EXCEPT ![p] = [op |-> "compared", saw |-> file,
                                       image |-> rendered,
                                       versions |-> VersionsOf(sec), job |-> j]]
    /\ UNCHANGED <<db, txn, file, review, world>>
\* BEGIN IMMEDIATE, render, read the file, compare.  A refusal rolls back and
\* leaves no trace; a job that cannot be projected stays pending.
ExportCompare(p, j) ==
    /\ call[p] = Idle
    /\ txn.by = Nobody
    /\ j # NoJob => job = "pending" /\ RoleOf[p] = JobOwner
    /\ LET rendered == RenderOf(sec) IN
       /\ Admits(rendered, j) /\ Writes(rendered, j)
       /\ call' = [call EXCEPT ![p] = [op |-> "compared", saw |-> file,
                                       image |-> rendered,
                                       versions |-> VersionsOf(sec), job |-> j]]
    /\ txn' = Staged(p)
    /\ UNCHANGED <<db, file, review, world>>

AlreadyRendered(p) == Rendered(call[p].saw, call[p].image, call[p].job)

\* os.replace: atomic for readers, and before the commit.
ExportReplace(p) ==
    /\ call[p].op = "compared"
    /\ file' = IF AlreadyRendered(p) THEN file
               ELSE [image |-> call[p].image, origin |-> "exported",
                     from |-> call[p].versions]
    /\ call' = [call EXCEPT ![p].op = "replaced"]
    /\ UNCHANGED <<db, txn, review, world>>

\* What record_context_export_state stores: the versions and texts rendered.
Exported(p) ==
    [s \in FileSections |->
        IF call[p].versions[s] > 0
        THEN [version |-> call[p].versions[s], content |-> call[p].image.body[s]]
        ELSE base[s]]

\* The versions and hashes rendered, the hash of the whole file, the job and
\* the receipt, in one commit.  (file changes in its history fields alone.)
ExportCommit(p) ==
    /\ call[p].op = "replaced"
    /\ base' = Exported(p)
    /\ published' = call[p].image
    /\ job' = IF call[p].job = NoJob THEN job ELSE "completed"
    /\ file' = IF AlreadyRendered(p) /\ file.image = call[p].image
               THEN [file EXCEPT !.origin = "exported", !.from = call[p].versions]
               ELSE file
    /\ txn' = NoTxn
    /\ Return(p)
    /\ UNCHANGED <<sec, imports, refusals, review, world>>

\* BEGIN IMMEDIATE fails in a connection whose transaction is open; the error
\* path of the export rolls it back.
ExportClearsLeak(p) ==
    /\ call[p] = Idle /\ txn.by = p
    /\ txn' = NoTxn
    /\ UNCHANGED <<db, file, call, review, world>>

-----------------------------------------------------------------------------
(* Failures, operators, and what is outside the code *)

\* The process dies, or the call fails and is rolled back.  A file that was
\* replaced before stays replaced.
Fail(p) ==
    /\ call[p] # Idle \/ txn.by = p
    /\ file' = IF call[p].op = "replaced" /\ file.origin = "exported"
               THEN [file EXCEPT !.origin = "torn"] ELSE file
    /\ txn' = IF txn.by = p THEN NoTxn ELSE txn
    /\ Return(p)
    /\ UNCHANGED <<db, review, world>>

\* --promote-section: review of one version, then the exact row under the lock.
ReviewSection(o, s) ==
    /\ review[o] = Idle
    /\ Stored(s) /\ sec[s].trust # "operator"
    /\ review' = [review EXCEPT ![o] = [op |-> "promote", section |-> s,
                                        row |-> sec[s]]]
    /\ UNCHANGED <<db, txn, file, call, world>>

PromoteSection(o) ==
    /\ review[o] # Idle /\ txn.by = Nobody
    /\ LET s == review[o].section
           shown == review[o].row
       IN  /\ sec[s].version = shown.version /\ sec[s].trust = shown.trust
           /\ sec[s].content = shown.content
           /\ sec' = [sec EXCEPT ![s].trust = "operator"]
    /\ review' = [review EXCEPT ![o] = Idle]
    /\ UNCHANGED <<base, published, job, imports, refusals, txn, file, call, world>>

EndReview(o) ==
    /\ review[o] # Idle
    /\ review' = [review EXCEPT ![o] = Idle]
    /\ UNCHANGED <<db, txn, file, call, world>>

\* Claude.ai rewrites one section of the file.
EditFile(s, text) ==
    /\ file # NoFile /\ file.image.body[s] # text
    /\ file' = [file EXCEPT !.image.body[s] = text, !.origin = "edited"]
    /\ UNCHANGED <<db, txn, call, review, world>>

\* record_disposition commits a synced disposition and its projection job.
EnqueueProjection ==
    /\ job = "none" /\ txn.by = Nobody /\ world < MaxWorld
    /\ job' = "pending" /\ world' = world + 1
    /\ UNCHANGED <<sec, base, published, imports, refusals, txn, file, call, review>>

\* Another tool writes what the file renders besides the sections.
RestChanges ==
    /\ txn.by = Nobody /\ world < MaxWorld
    /\ world' = world + 1
    /\ UNCHANGED <<db, txn, file, call, review>>

-----------------------------------------------------------------------------

OwnerNext(p) ==
    \/ \E s \in Sections : GetSection(p, s) \/ CreateRead(p, s)
    \/ \E token \in {"version", "updated_at"}, text \in Payloads :
          \/ \E trust \in Asked : UpdateWins(p, token, text, trust)
          \/ UpdateTooLarge(p, token, text)
    \/ UpdateLoses(p)
    \/ \E text \in Payloads, trust \in Asked : CreateInsert(p, text, trust)
    \/ CreateBlind(p) \/ CreateRaced(p)

SyncNext(p) ==
    \/ SyncOpen(p) \/ SyncLook(p) \/ SyncOversized(p) \/ SyncStage(p)
    \/ SyncRaced(p) \/ SyncCommit(p) \/ SyncReturn(p)

ExportNext(p) ==
    \/ \E j \in {NoJob, "the_job"} : ExportCompare(p, j)
    \/ ExportReplace(p) \/ ExportCommit(p) \/ ExportClearsLeak(p)

OperatorNext(o) ==
    \/ \E s \in Sections : ReviewSection(o, s)
    \/ PromoteSection(o) \/ EndReview(o)

Next ==
    \/ \E p \in Processes : OwnerNext(p) \/ SyncNext(p) \/ ExportNext(p) \/ Fail(p)
    \/ \E o \in Operators : OperatorNext(o)
    \/ \E s \in FileSections, text \in Contents : EditFile(s, text)
    \/ EnqueueProjection \/ RestChanges

Spec == Init /\ [][Next]_vars

-----------------------------------------------------------------------------
(* Properties *)

\* INV-4, the ground of every compare-and-swap here: a version number never
\* stands for two texts.  Whoever remembers a section by its version -- a client,
\* an operator, the last export, the unedited file -- remembers its text.
VersionNamesText ==
    \A s \in Sections :
        /\ \A p \in Processes :
              (call[p].op = "editing" /\ call[p].section = s
                  /\ call[p].row.version = sec[s].version)
              => call[p].row.content = sec[s].content
        /\ \A o \in Operators :
              (review[o] # Idle /\ review[o].section = s
                  /\ review[o].row.version = sec[s].version)
              => review[o].row.content = sec[s].content
        /\ s \in FileSections =>
              /\ base[s].version = sec[s].version => base[s].content = sec[s].content
              /\ (file # NoFile /\ file.origin = "exported" /\ Stored(s)
                    /\ file.from[s] = sec[s].version)
                 => file.image.body[s] = sec[s].content

\* Operator trust belongs to one text: a new version never has it, and a stored
\* version gets it only while an operator has that very version before them.
OperatorTrustFollowsReview ==
    [][\A s \in Sections : sec'[s] # sec[s] =>
          \/ sec'[s].version > sec[s].version /\ sec'[s].trust # "operator"
          \/ /\ sec'[s] = [sec[s] EXCEPT !.trust = "operator"]
             /\ \E o \in Operators :
                   /\ review[o] # Idle /\ review[o].section = s
                   /\ review[o].row.version = sec[s].version
                   /\ review[o].row.content = sec[s].content]_vars

\* INV-5: what a sync reports is stored.  A section it calls imported has its
\* receipt and was written; a section it refused has its conflict; none is
\* forgotten, whatever else in the batch raced or did not fit.
SyncReportIsDurable ==
    \A p \in Processes : call[p].op = "synced" =>
        \A s \in FileSections :
            /\ call[p].outcome[s] # "pending"
            /\ call[p].outcome[s] = "imported" =>
                  \E r \in imports : /\ r.section = s
                                     /\ r.content = call[p].file.image.body[s]
                                     /\ sec[s].version >= r.imported
            /\ call[p].outcome[s] = "refused" => s \in refusals

\* An import never replaces a version the file was not exported at: whatever
\* happened since the SELECTs, the row it overwrites is the exported one.
ImportReplacesExportedVersion ==
    [][\A r \in imports' \ imports :
          r.previous > 0 => base[r.section].version = r.previous]_vars

\* However exports, crashes and retries interleave, the database knows the file
\* as long as nobody edits it and no export died half way.
TrackedUnlessEdited ==
    (/\ file # NoFile /\ file.origin = "exported"
     /\ \A p \in Processes : call[p].op # "replaced")
        => published = file.image

\* An export of a tracked file destroys no edit that was there to be seen: the
\* edits it overwrites came between its comparison and its os.replace.
SeenEditsSurviveExport ==
    [][(/\ file # NoFile /\ file.origin = "edited" /\ file'.origin = "exported"
        /\ published # NoFile /\ file.image # published /\ file'.image # file.image)
          => \E p \in Processes : call[p].op = "compared" /\ call[p].saw # file]_vars

-----------------------------------------------------------------------------
(* What documents and messages of the repository promise, and the code does *)
(* not keep.                                                                *)

\* "import or merge the file edits first": once a sync is done with a tracked
\* file, and the file and the database have the same text in every section, an
\* export is admitted.
ImportUnblocksExport ==
    \A p \in Processes :
        (/\ published # NoFile
         /\ call[p].op = "synced" /\ call[p].file = file
         /\ \A s \in FileSections : /\ call[p].outcome[s] # "refused"
                                    /\ file.image.body[s] = sec[s].content)
            => Admits(RenderOf(sec), NoJob)

\* An import applies only when the database still is what the file in hand was
\* exported from.
ImportDescendsFromTheRow ==
    \A r \in imports : r.previous > 0 => r.previous = r.from

\* INV-10: a call that has ended leaves no transaction open in its connection.
NoCallLeavesItsTransactionOpen ==
    \A p \in Processes : txn.by = p => call[p] # Idle
=============================================================================

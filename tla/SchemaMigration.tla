-------------------------- MODULE SchemaMigration --------------------------
(***************************************************************************)
(* ensure_schema of bridge_db/db.py: every process that opens the database *)
(* climbs a ladder of migrations from the `user_version` it reads once, at *)
(* the beginning and without the write lock.                               *)
(*                                                                         *)
(* A rung is a script, whose statements are committed one by one, an       *)
(* optional hook, and the bump of `user_version`.  The rung to version 14  *)
(* collapses two legacy tables onto the activity rows and drops them,      *)
(* after a verified backup.  Any number of openers climb at once; one may  *)
(* be killed between two statements, and opens again.                      *)
(***************************************************************************)
EXTENDS FiniteSets, Integers, Sequences

CONSTANTS
    Opener,         \* processes that open the database
    Row,            \* activity rows recorded before the first opening
    FirstVersions,  \* the versions a database file may have been left at
    MaxOpens,       \* bound on the openings of each process
    MaxCrashes      \* bound on kills

SchemaVersion == 23

ASSUME MigrationAssumption ==
    /\ FirstVersions \subseteq 0 .. SchemaVersion + 1
    /\ MaxOpens \in Nat /\ MaxCrashes \in Nat

VARIABLES
    version,        \* PRAGMA user_version
    schema,         \* the pairs <<table, column>> of the schema
    home,           \* row -> the tables that hold it
    receipts,       \* rows with a row in shipped_sync_receipts
    policies,       \* rows with a row in shipped_event_dispositions
    sync,           \* row -> what its sync_* columns say
    trust,          \* table -> source_trust of a row older than the label
    files,          \* the backup, its manifest and record, and their temporary files
    pc,             \* opener -> where ensure_schema stands
    cur,            \* opener -> its local current_version
    next,           \* opener -> the next statement of the script
    seen,           \* opener -> what a hook read: columns, tables, version
    opens, crashes, \* counters
    begun           \* the database as it was found: version, receipts, policies

database == <<version, schema, home, receipts, policies, sync, trust>>
local == <<pc, cur, next, seen>>
counters == <<opens, crashes, begun>>
vars == <<database, files, local, counters>>

(***************************************************************************)
(* The ladder.                                                             *)
(***************************************************************************)
Create(table) == [op |-> "create", table |-> table, column |-> "id"]
Add(table, column) == [op |-> "add", table |-> table, column |-> column]
Label(table) == [op |-> "label", table |-> table, column |-> "source_trust"]
Retire(table) == [op |-> "retire", table |-> table, column |-> "id"]
Recreate(table) == [op |-> "recreate", table |-> table, column |-> "id"]
Refill(table) == [op |-> "refill", table |-> table, column |-> "id"]
DropRetired(table) == [op |-> "drop", table |-> table, column |-> "id"]

\* The scripts, one for each version.  Indexes go with their table.
V1_TO_V2 == <<
    Retire("activity_log"), Recreate("activity_log"), Refill("activity_log"),
    DropRetired("activity_log"),
    Retire("cost_records"), Recreate("cost_records"), Refill("cost_records"),
    DropRetired("cost_records"),
    Create("context_sections"), Create("system_snapshots"), Create("pending_handoffs")>>
V2_TO_V3 == <<Create("content_index")>>
V3_TO_V4 == <<Create("shipped_sync_receipts")>>
V4_TO_V5 == <<Add("activity_log", "canonical_key")>>
V5_TO_V6 == <<Add("pending_handoffs", "canonical_key")>>
V6_TO_V7 == <<
    Add("pending_handoffs", "source_trust"), Add("activity_log", "source_trust"),
    Add("context_sections", "source_trust"), Add("system_snapshots", "source_trust"),
    Label("context_sections"), Label("pending_handoffs")>>
V7_TO_V8 == <<Create("shipped_event_dispositions")>>
V8_TO_V9 == <<Create("session_costs")>>
V9_TO_V10 == <<
    Add("context_sections", "version"), Create("context_section_export_state"),
    Create("write_conflicts")>>
V11_TO_V12 == <<Create("session_classification")>>
V12_TO_V13 == <<Add("pending_handoffs", "claimed_by")>>
V14_TO_V15 == <<Create("bridge_file_export_state")>>
V15_TO_V16 == <<Create("bridge_projection_jobs")>>
V16_TO_V17 == <<Create("handoff_lifecycle_receipts")>>
V17_TO_V18 == <<Create("bridge_export_receipts")>>
V18_TO_V19 == <<Create("bridge_import_receipts")>>
V19_TO_V20 == <<Create("idx_activity_created_id")>>
V21_TO_V22 == <<Create("handoff_cancellation_receipts"), Create("handoff_trust_quarantine")>>
V22_TO_V23 == <<Create("handoff_session_capabilities"),
                Create("handoff_orphan_recovery_receipts")>>
DataOnly == <<>>

\* Ladder[v - 1] leads to version v.
Ladder == <<
    V1_TO_V2, V2_TO_V3, V3_TO_V4, V4_TO_V5, V5_TO_V6, V6_TO_V7, V7_TO_V8, V8_TO_V9,
    V9_TO_V10, DataOnly, V11_TO_V12, V12_TO_V13, DataOnly, V14_TO_V15, V15_TO_V16,
    V16_TO_V17, V17_TO_V18, V18_TO_V19, V19_TO_V20, DataOnly, V21_TO_V22, V22_TO_V23>>

Script(target) == Ladder[target - 1]

\* Two of the eight columns of version 14, two of the four of version 21.
SyncColumns == <<"sync_disposition", "sync_note">>
ConflictColumns == <<"identity_hash", "aggregation_state">>

Legacy == {"shipped_sync_receipts", "shipped_event_dispositions"}
Extension == {"snapshot_refusals", "owner_delegations", "owner_delegation_consumptions"}
Retired(table) == IF table = "activity_log" THEN "activity_log_v1" ELSE "cost_records_v1"

\* What the scripts and hooks up to version v lead to.
Created(script) ==
    {<<script[i].table, script[i].column>> :
        i \in {i \in DOMAIN script : script[i].op \in {"create", "add"}}}
SchemaAt(v) ==
    LET scripts == UNION {Created(Script(t)) : t \in {t \in 2 .. SchemaVersion : t <= v}}
        synced == {<<"activity_log", SyncColumns[i]>> : i \in {i \in 1 .. 2 : v >= 14}}
        counted == {<<"write_conflicts", ConflictColumns[i]>> : i \in {i \in 1 .. 2 : v >= 21}}
        dropped == {<<t, "id">> : t \in {t \in Legacy : v >= 14}}
    IN ({<<"activity_log", "id">>, <<"cost_records", "id">>}
            \cup scripts \cup synced \cup counted) \ dropped
ServedSchema == SchemaAt(SchemaVersion) \cup {<<t, "id">> : t \in Extension}

Exists(table) == <<table, "id">> \in schema
Columns(table) == {c[2] : c \in {c \in schema : c[1] = table}}

(***************************************************************************)
(* Backup files.  A digest names one content, so the manifest is the image *)
(* it was computed from.  `open` is who holds the file open to copy into.  *)
(***************************************************************************)
NoFile == [state |-> "absent", open |-> {}, version |-> -1, schema |-> {},
           receipts |-> {}, policies |-> {}]
Partial == [NoFile EXCEPT !.state = "partial"]
Image == [state |-> "whole", open |-> {}, version |-> version, schema |-> schema,
          receipts |-> receipts, policies |-> policies]
Digest(file) == [file EXCEPT !.open = {}]

NothingSeen == [columns |-> {}, tables |-> {}, version |-> -1]

Working(p) == pc[p] \notin {"closed", "failed", "opened"}

Init ==
    /\ begun \in [version : FirstVersions, receipts : SUBSET Row, policies : SUBSET Row]
    /\ begun.version \notin 4 .. 13 => begun.receipts = {}
    /\ begun.version \notin 8 .. 13 => begun.policies = {}
    /\ version = begun.version
    /\ schema = IF version = 0 THEN {} ELSE SchemaAt(version)
    /\ home = [r \in Row |-> IF version = 0 THEN {} ELSE {"activity_log"}]
    /\ receipts = begun.receipts
    /\ policies = begun.policies
    /\ sync = [r \in Row |-> "none"]
    /\ trust = [t \in {"context_sections", "pending_handoffs"} |->
                    IF version \in 1 .. 6 THEN "none" ELSE "ingested"]
    /\ files = [f \in {"backup", "manifest", "metadata", "tmp", "tmpManifest", "tmpMetadata"} |-> NoFile]
    /\ pc = [p \in Opener |-> "closed"]
    /\ cur = [p \in Opener |-> 0]
    /\ next = [p \in Opener |-> 1]
    /\ seen = [p \in Opener |-> NothingSeen]
    /\ opens = [p \in Opener |-> 0]
    /\ crashes = 0

Goto(p, place) == pc' = [pc EXCEPT ![p] = place]

\* Mutant: the extension scripts are gated on the version.
Open_SkipsExtension(p) ==
    /\ pc[p] \in {"closed", "failed"}
    /\ opens[p] < MaxOpens
    /\ opens' = [opens EXCEPT ![p] = @ + 1]
    /\ cur' = [cur EXCEPT ![p] = version]
    /\ next' = [next EXCEPT ![p] = 1]
    /\ seen' = [seen EXCEPT ![p] = NothingSeen]
    /\ Goto(p, IF version > SchemaVersion THEN "failed"
               ELSE IF version = 0 THEN "fresh"
               ELSE IF version = SchemaVersion THEN "opened" ELSE "script")
    /\ UNCHANGED <<database, files, crashes, begun>>

\* open_db and the head of ensure_schema: user_version is read once.
Open(p) ==
    /\ pc[p] \in {"closed", "failed"}
    /\ opens[p] < MaxOpens
    /\ opens' = [opens EXCEPT ![p] = @ + 1]
    /\ cur' = [cur EXCEPT ![p] = version]
    /\ next' = [next EXCEPT ![p] = 1]
    /\ seen' = [seen EXCEPT ![p] = NothingSeen]
    /\ Goto(p, IF version > SchemaVersion THEN "failed"
               ELSE IF version = 0 THEN "fresh"
               ELSE IF version = SchemaVersion THEN "extend" ELSE "script")
    /\ UNCHANGED <<database, files, crashes, begun>>

\* A file without a schema gets the whole one: IF NOT EXISTS throughout, and
\* a script that is cut off is run again.  The version follows.
InitialiseFresh(p) ==
    /\ \/ /\ pc[p] = "fresh"
          /\ schema' = schema \cup ServedSchema
          /\ Goto(p, "fresh_bump")
          /\ UNCHANGED version
       \/ /\ pc[p] = "fresh_bump"
          /\ version' = SchemaVersion
          /\ Goto(p, "opened")
          /\ UNCHANGED schema
    /\ UNCHANGED <<home, receipts, policies, sync, trust, files, cur, next, seen, counters>>

(***************************************************************************)
(* Statements of a script.  executescript runs outside a transaction, so   *)
(* each is durable as soon as it is done; one that cannot run raises.      *)
(***************************************************************************)
CanRun(s) ==
    CASE s.op = "create" -> TRUE
      [] s.op = "add" -> Exists(s.table) /\ <<s.table, s.column>> \notin schema
      [] s.op = "label" -> Exists(s.table)
      [] s.op = "retire" -> Exists(s.table) /\ ~Exists(Retired(s.table))
      [] s.op = "recreate" -> ~Exists(s.table)
      [] s.op = "refill" -> /\ Exists(s.table) /\ Exists(Retired(s.table))
                            /\ Columns(s.table) = Columns(Retired(s.table))
      [] s.op = "drop" -> Exists(Retired(s.table))

Moved(table, t) == IF t = table THEN Retired(table) ELSE t

SchemaAfter(s) ==
    CASE s.op \in {"create", "add", "recreate"} -> schema \cup {<<s.table, s.column>>}
      [] s.op = "retire" -> {<<Moved(s.table, c[1]), c[2]>> : c \in schema}
      [] s.op = "drop" -> {c \in schema : c[1] # Retired(s.table)}
      [] OTHER -> schema

\* Mutant: the new table is not refilled before the old one is dropped.
HomeAfter_NoRefill(s) ==
    CASE s.op = "retire" -> [r \in Row |-> {Moved(s.table, t) : t \in home[r]}]
      [] s.op = "drop" -> [r \in Row |-> home[r] \ {Retired(s.table)}]
      [] OTHER -> home

HomeAfter(s) ==
    CASE s.op = "retire" -> [r \in Row |-> {Moved(s.table, t) : t \in home[r]}]
      [] s.op = "refill" -> [r \in Row |-> IF Retired(s.table) \in home[r]
                                           THEN home[r] \cup {s.table} ELSE home[r]]
      [] s.op = "drop" -> [r \in Row |-> home[r] \ {Retired(s.table)}]
      [] OTHER -> home

\* A new source_trust column gives its default to every row there is.
TrustAfter(s) ==
    [t \in DOMAIN trust |->
        IF t = s.table /\ s.column = "source_trust"
        THEN IF s.op = "label" THEN "ingested" ELSE "agent" ELSE trust[t]]

\* Mutant: a statement that cannot run is passed over.
Statement_PassesOver(p) ==
    /\ pc[p] = "script"
    /\ next[p] <= Len(Script(cur[p] + 1))
    /\ LET s == Script(cur[p] + 1)[next[p]] IN
       /\ schema' = IF CanRun(s) THEN SchemaAfter(s) ELSE schema
       /\ home' = IF CanRun(s) THEN HomeAfter(s) ELSE home
       /\ trust' = IF CanRun(s) THEN TrustAfter(s) ELSE trust
    /\ next' = [next EXCEPT ![p] = @ + 1]
    /\ UNCHANGED <<version, receipts, policies, sync, files, pc, cur, seen, counters>>

Statement(p) ==
    /\ pc[p] = "script"
    /\ next[p] <= Len(Script(cur[p] + 1))
    /\ LET s == Script(cur[p] + 1)[next[p]] IN
       \/ /\ CanRun(s)
          /\ schema' = SchemaAfter(s)
          /\ home' = HomeAfter(s)
          /\ trust' = TrustAfter(s)
          /\ next' = [next EXCEPT ![p] = @ + 1]
          /\ UNCHANGED pc
       \/ /\ ~CanRun(s)
          /\ Goto(p, "failed")
          /\ UNCHANGED <<schema, home, trust, next>>
    /\ UNCHANGED <<version, receipts, policies, sync, files, cur, seen, counters>>

\* The end of a script: the hooks of versions 14 and 21, or the bump.
EndScript(p) ==
    /\ pc[p] = "script"
    /\ next[p] > Len(Script(cur[p] + 1))
    /\ Goto(p, CASE cur[p] + 1 = 14 -> "legacy"
                 [] cur[p] + 1 = 21 -> "columns"
                 [] OTHER -> "bump")
    /\ UNCHANGED <<database, files, cur, next, seen, counters>>

\* After a rung: the next one, or the extension scripts.
ClimbOn(p) ==
    /\ cur' = [cur EXCEPT ![p] = @ + 1]
    /\ next' = [next EXCEPT ![p] = 1]
    /\ Goto(p, IF cur[p] + 1 = SchemaVersion THEN "extend" ELSE "script")

\* PRAGMA user_version and commit.  The index hooks of versions 3 and 11 run in
\* this transaction.
Bump(p) ==
    /\ pc[p] = "bump"
    /\ version' = cur[p] + 1
    /\ ClimbOn(p)
    /\ UNCHANGED <<schema, home, receipts, policies, sync, trust, files, seen, counters>>

\* The additive extensions: three tables, IF NOT EXISTS, on every opening.
Extend(p) ==
    /\ pc[p] = "extend"
    /\ LET missing == {t \in Extension : ~Exists(t)} IN
       IF missing = {}
       THEN Goto(p, "opened") /\ UNCHANGED schema
       ELSE \E t \in missing : schema' = schema \cup {<<t, "id">>} /\ UNCHANGED pc
    /\ UNCHANGED <<version, home, receipts, policies, sync, trust,
                   files, cur, next, seen, counters>>

(***************************************************************************)
(* The hooks that add columns one by one: _migrate_shipped_state_to_columns *)
(* and _migrate_conflict_aggregation.                                      *)
(***************************************************************************)
Hooked(p) == IF cur[p] + 1 = 14 THEN "activity_log" ELSE "write_conflicts"
HookColumns(p) == IF cur[p] + 1 = 14 THEN SyncColumns ELSE ConflictColumns

\* Which legacy tables exist, read before the backup and used after it.
LookForLegacy(p) ==
    /\ pc[p] = "legacy"
    /\ LET tables == {t \in Legacy : Exists(t)} IN
       /\ seen' = [seen EXCEPT ![p].tables = tables]
       /\ Goto(p, IF tables = {} THEN "columns" ELSE "expect")
    /\ UNCHANGED <<database, files, cur, next, counters>>

\* PRAGMA table_info, once, before the first ALTER.
LookForColumns(p) ==
    /\ pc[p] = "columns"
    /\ seen' = [seen EXCEPT ![p].columns = Columns(Hooked(p))]
    /\ next' = [next EXCEPT ![p] = 1]
    /\ Goto(p, "adding")
    /\ UNCHANGED <<database, files, cur, counters>>

AddColumn(p) ==
    /\ pc[p] = "adding"
    /\ next[p] <= 2
    /\ LET add == Add(Hooked(p), HookColumns(p)[next[p]]) IN
       \/ /\ add.column \in seen[p].columns
          /\ next' = [next EXCEPT ![p] = @ + 1]
          /\ UNCHANGED <<schema, pc>>
       \/ /\ add.column \notin seen[p].columns /\ CanRun(add)
          /\ schema' = SchemaAfter(add)
          /\ next' = [next EXCEPT ![p] = @ + 1]
          /\ UNCHANGED pc
       \/ /\ add.column \notin seen[p].columns /\ ~CanRun(add)
          /\ Goto(p, "failed")
          /\ UNCHANGED <<schema, next>>
    /\ UNCHANGED <<version, home, receipts, policies, sync, trust, files, cur, seen, counters>>

EndColumns(p) ==
    /\ pc[p] = "adding"
    /\ next[p] > 2
    /\ Goto(p, IF cur[p] + 1 = 14 THEN "collapse" ELSE "bump")
    /\ UNCHANGED <<database, files, cur, next, seen, counters>>

\* Mutant: the decisions are copied over the receipts.
Collapsed_PoliciesWin(r, tables) ==
    IF "activity_log" \notin home[r] THEN sync[r]
    ELSE IF "shipped_event_dispositions" \in tables /\ r \in policies THEN "policy"
    ELSE IF "shipped_sync_receipts" \in tables /\ r \in receipts THEN "synced"
    ELSE sync[r]

\* What the copies leave in the columns of a row: a receipt outweighs a policy.
Collapsed(r, tables) ==
    IF "activity_log" \notin home[r] THEN sync[r]
    ELSE IF "shipped_sync_receipts" \in tables /\ r \in receipts THEN "synced"
    ELSE IF "shipped_event_dispositions" \in tables /\ r \in policies THEN "policy"
    ELSE sync[r]

\* The first UPDATE opens a transaction that the bump of user_version commits:
\* copies, drops and version are one step.  A legacy table that was seen and is
\* gone raises, and so does an activity_log without the columns.
Collapse(p) ==
    /\ pc[p] = "collapse"
    /\ LET tables == seen[p].tables
           runs == /\ \A t \in tables : Exists(t)
                   /\ tables # {} => <<"activity_log", "sync_note">> \in schema
       IN
       \/ /\ runs
          /\ sync' = [r \in Row |-> Collapsed(r, tables)]
          /\ receipts' = {} /\ policies' = {}
          /\ schema' = schema \ (Legacy \X {"id"})
          /\ version' = 14
          /\ ClimbOn(p)
       \/ /\ ~runs
          /\ Goto(p, "failed")
          /\ UNCHANGED <<version, schema, receipts, policies, sync, cur, next>>
    /\ UNCHANGED <<home, trust, files, seen, counters>>

(***************************************************************************)
(* _backup_db_file.  The temporary names are shared by all openers.        *)
(***************************************************************************)
Put(f, content) == files' = [files EXCEPT ![f] = content]

\* validate: a manifest, its digest, and a database of the version expected.
Valid(p, f, m) ==
    /\ files[m] # NoFile
    /\ Digest(files[f]) = files[m]
    /\ files[f].state = "whole"
    /\ files[f].version = seen[p].version

\* The version that the backup must have.
ExpectVersion(p) ==
    /\ pc[p] = "expect"
    /\ seen' = [seen EXCEPT ![p].version = version]
    /\ Goto(p, "backup")
    /\ UNCHANGED <<database, files, cur, next, counters>>

\* A backup that is there is kept if it validates, and refused if it does not.
FindBackup(p) ==
    /\ pc[p] = "backup"
    /\ Goto(p, IF files["backup"] = NoFile THEN "clear"
               ELSE IF Valid(p, "backup", "manifest") THEN "columns" ELSE "failed")
    /\ UNCHANGED <<database, files, cur, next, seen, counters>>

ClearTemporaries(p) ==
    /\ \/ pc[p] = "clear" /\ Put("tmp", NoFile) /\ Goto(p, "clear_manifest")
       \/ pc[p] = "clear_manifest" /\ Put("tmpManifest", NoFile) /\ Goto(p, "clear_metadata")
       \/ pc[p] = "clear_metadata" /\ Put("tmpMetadata", NoFile) /\ Goto(p, "copy")
    /\ UNCHANGED <<database, cur, next, seen, counters>>

LetGo(p) == [f \in DOMAIN files |-> [files[f] EXCEPT !.open = @ \ {p}]]

\* sqlite3.connect opens the temporary file, or creates it empty.  The online
\* backup into it raises when the file was renamed or removed since.
CopyDatabase(p) ==
    /\ \/ /\ pc[p] = "copy"
          /\ LET tmp == IF files["tmp"] = NoFile THEN Partial ELSE files["tmp"]
             IN Put("tmp", [tmp EXCEPT !.open = @ \cup {p}])
          /\ Goto(p, "copying")
       \/ /\ pc[p] = "copying" /\ p \in files["tmp"].open
          /\ Put("tmp", [Image EXCEPT !.open = files["tmp"].open \ {p}])
          /\ Goto(p, "digest")
       \/ /\ pc[p] = "copying" /\ p \notin files["tmp"].open
          /\ files' = LetGo(p)
          /\ Goto(p, "failed")
    /\ UNCHANGED <<database, cur, next, seen, counters>>

\* The digest of whatever has the temporary name, and the evidence record that
\* repeats it.
WriteManifest(p) ==
    /\ \/ /\ pc[p] = "digest"
          /\ files["tmp"] # NoFile
          /\ Put("tmpManifest", Digest(files["tmp"]))
          /\ Goto(p, "record")
       \/ /\ pc[p] = "record"
          /\ files["tmp"] # NoFile /\ files["tmpManifest"] # NoFile
          /\ Put("tmpMetadata", files["tmpManifest"])
          /\ Goto(p, "validate")
       \/ /\ \/ pc[p] \in {"digest", "record"} /\ files["tmp"] = NoFile
             \/ pc[p] = "record" /\ files["tmpManifest"] = NoFile
          /\ Goto(p, "failed")
          /\ UNCHANGED files
    /\ UNCHANGED <<database, cur, next, seen, counters>>

ValidateCopy(p) ==
    /\ pc[p] = "validate"
    /\ Goto(p, IF Valid(p, "tmp", "tmpManifest") THEN "place" ELSE "failed")
    /\ UNCHANGED <<database, files, cur, next, seen, counters>>

\* Three renames: the backup, the manifest that lets it be used, the record.
Rename(p, from, to, place) ==
    \/ /\ files[from] # NoFile
       /\ files' = [files EXCEPT ![to] = files[from], ![from] = NoFile]
       /\ Goto(p, place)
    \/ /\ files[from] = NoFile
       /\ Goto(p, "failed")
       /\ UNCHANGED files

PlaceBackup(p) ==
    /\ \/ pc[p] = "place" /\ Rename(p, "tmp", "backup", "place_manifest")
       \/ pc[p] = "place_manifest" /\ Rename(p, "tmpManifest", "manifest", "place_metadata")
       \/ pc[p] = "place_metadata" /\ Rename(p, "tmpMetadata", "metadata", "columns")
    /\ UNCHANGED <<database, cur, next, seen, counters>>

(***************************************************************************)
(* The served database, and failures.                                      *)
(***************************************************************************)
\* A server records how a shipped row was settled; a receipt is final.
RecordDisposition(p, r) ==
    /\ pc[p] = "opened"
    /\ "activity_log" \in home[r] /\ <<"activity_log", "sync_note">> \in schema
    /\ sync[r] \in {"none", "policy"}
    /\ sync' = [sync EXCEPT ![r] = "recorded"]
    /\ UNCHANGED <<version, schema, home, receipts, policies, trust, files, local, counters>>

\* An operator vouches for a row that was there before the labels.
Promote(p, t) ==
    /\ pc[p] = "opened"
    /\ <<t, "source_trust">> \in schema
    /\ trust[t] = "ingested"
    /\ trust' = [trust EXCEPT ![t] = "operator"]
    /\ UNCHANGED <<version, schema, home, receipts, policies, sync, files, local, counters>>

Close(p) ==
    /\ pc[p] = "opened"
    /\ Goto(p, "closed")
    /\ UNCHANGED <<database, files, cur, next, seen, counters>>

\* A kill.  The file it was copying into may be torn.
Crash(p) ==
    /\ Working(p)
    /\ crashes < MaxCrashes
    /\ crashes' = crashes + 1
    /\ Goto(p, "closed")
    /\ \/ files' = LetGo(p)
       \/ /\ p \in files["tmp"].open
          /\ files' = [LetGo(p) EXCEPT !["tmp"] =
                            [Partial EXCEPT !.open = files["tmp"].open \ {p}]]
    /\ UNCHANGED <<database, cur, next, seen, opens, begun>>

Climb(p) ==
    \/ InitialiseFresh(p) \/ Statement(p) \/ EndScript(p) \/ Bump(p) \/ Extend(p)
    \/ LookForLegacy(p) \/ LookForColumns(p) \/ AddColumn(p) \/ EndColumns(p) \/ Collapse(p)
    \/ ExpectVersion(p) \/ FindBackup(p) \/ ClearTemporaries(p) \/ CopyDatabase(p) \/ WriteManifest(p)
    \/ ValidateCopy(p) \/ PlaceBackup(p)

Next == \E p \in Opener :
    \/ Open(p) \/ Climb(p) \/ Close(p) \/ Crash(p)
    \/ \E r \in Row : RecordDisposition(p, r)
    \/ \E t \in DOMAIN trust : Promote(p, t)

Spec == Init /\ [][Next]_vars

(***************************************************************************)
(* Properties.                                                             *)
(***************************************************************************)
\* An opened database has every table and column this build uses, whatever the
\* other openers are doing or died of (a file found at version 1 is excepted:
\* its tables are renamed and refilled).
OpenedIsWhole ==
    \A p \in Opener :
        pc[p] = "opened" /\ begun.version # 1 => ServedSchema \subseteq schema

\* No row of activity_log is dropped by the table that is renamed and refilled,
\* with any number of openers in the script at once.
RowsAreKept == begun.version > 0 => \A r \in Row : home[r] # {}

\* The collapse of the legacy tables loses no receipt and no policy decision:
\* what was recorded is still in its table or has reached the row.
MarksAreKept ==
    /\ \A r \in begun.receipts : r \in receipts \/ sync[r] = "synced"
    /\ \A r \in begun.policies \ begun.receipts :
            r \in policies \/ sync[r] \in {"policy", "recorded"}

\* Late openers, which repeat what others have done, lose no row, and labelling
\* the rows again never takes back what an operator vouched for.
OpenersLoseNothing ==
    [][/\ RowsAreKept'
       /\ \A t \in DOMAIN trust : trust[t] = "operator" => trust'[t] = "operator"]_vars

\* "the pristine copy is kept": behind the dropped tables there is a backup with
\* every receipt and decision they had (_backup_db_file).  Two openers keep it so;
\* the temporary names, which are shared, let three of them lose it.
CollapseIsBackedUp ==
    begun.receipts \cup begun.policies # {} /\ ~Exists("shipped_sync_receipts") =>
        /\ files["backup"].state = "whole"
        /\ files["backup"].receipts = begun.receipts
        /\ files["backup"].policies = begun.policies

\* "a mid-sequence failure leaves the DB at the last fully-migrated version":
\* with no opener at work, the schema is the one user_version names.
FailureLeavesWholeVersion ==
    (\A p \in Opener : ~Working(p)) =>
        version = 0 \/ schema \ {<<t, "id">> : t \in Extension} = SchemaAt(version)

\* A re-run of the collapse after any interrupted attempt converges: no opener
\* of a database at version 13 fails.
InterruptedCollapseConverges ==
    \A p \in Opener : version = 13 => pc[p] # "failed"
=============================================================================

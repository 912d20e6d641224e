# bridge-db in TLA+

bridge-db keeps the state several AI clients share (context sections, an
activity log, handoffs, snapshots, cost records) in one SQLite database, serves
it over MCP, and mirrors it in a markdown file.  These modules model its state
machines at the level of its database transactions and file operations, check
them with TLC on small instances, and prove for every instance what matters most
of the handoff queue, the conflict ledger, the execution root, the recovery
anchors and seals, the leases of server processes, the shared broker, the
migration and the evidence log.

Paths below are relative to `src/src/bridge_db/`.

## How the system runs

The actors are operating-system processes over one database file in WAL mode:
an MCP server per client (direct mode) or one broker per credential group
(shared mode), and the operator's command line (`__main__.py`).  A server
process has one connection.  What follows from that is the same in all modules:

* a SELECT outside a transaction is one atomic read of the committed database;
* a write transaction starts at the first DML statement (Python's `sqlite3`
  issues a deferred BEGIN) or at BEGIN IMMEDIATE, holds the only write lock to
  its COMMIT or ROLLBACK, and is atomic; a step of a model is such a
  transaction, or a phase of it where another actor can see or break
  something in between (the export writes a file before it commits);
* between the SELECT of a call and its transaction everybody else may move, and
  the process may die; calls that remember something across that gap keep it in
  a variable (`call`, `calls`, `review`);
* a call that is refused and writes nothing is no step.

The operator's commands around it (activation of a release, recovery anchors and
seals) and the shared runtime work on directories of files instead.  There a
step is one durable file operation, a rename, a link, a replaced file or an
unlink, and everybody else may move, or the process die, before the next.  What
serialises them is said by each module: an `flock`, which is free once its
process has died, or SQLite's writer slot held across a comparison and a rename.

## Components

| component | state | operations | what is hard | status |
|---|---|---|---|---|
| handoff queue (`tools/handoffs.py`, `__main__.py`) | `pending_handoffs`, capabilities, three receipt tables, trust quarantine | create, pick up, clear; promote, cancel, recover, quarantine, restore | sessions race for a claim; the response with the only secret is lost; operators act on rows that moved on; capability expiry | modelled, proved |
| write-conflict ledger (`db.py`) | `write_conflicts` | record a refused write: a new identity, a repeat, an overflow | repeats at the quota, receipts told before they are committed | modelled, proved |
| context sections (`tools/context.py`) | `context_sections`, import receipts | update, create, sync from file, promote | three reads of one sync at three times; batches that partly fail; creation races | modelled |
| fallback file export (`tools/export.py`) | the file, `bridge_file_export_state`, `context_section_export_state` | export, automatic export, bootstrap | a file cannot be committed with a database; people edit it | modelled |
| shipped dispositions and projection jobs (`tools/activity.py`) | `sync_*` columns of `activity_log`, `bridge_projection_jobs` | record_disposition, retry of a job | read-check-write across connections, lost answers, crash before the projection | modelled |
| owner delegation (`owner_delegation.py`) | `owner_delegations`, consumptions | apply manifest, resolve, consume | the delegated image changes between check and write | partly: grants over activity rows |
| activity log and retention (`tools/activity.py`, `db.py`) | `activity_log` | log_activity, retention | which rows a prune may take (BD-INV-1) | planned |
| snapshots (`snapshot_service.py`) | `system_snapshots`, refusals | save, acknowledge a refusal | admission at the limit | planned |
| shared connection (`db.py`, `server.py`) | the implicit transaction | every tool | one call's commit flushes what another staged | planned |
| schema migration (`db.py`) | `user_version`, the schema, the backup of the collapse | open: a fresh schema, or the ladder of migrations and the extensions | the version is read without the lock, statements are committed one by one; kills between them; openers that climb at once | modelled, its marks proved |
| execution generations (`execution_generation.py`) | releases, `current` and `previous` symlinks, activation state, pending journal, drain requests, receipts | stage, activate, roll back, adopt, recover, read back | a crash between any two files, also while undoing or recovering; readers without a lock | modelled |
| recovery anchors (`recovery.py`) | the bundle at the stable path, superseded siblings | create, rotate, verify | no lock but SQLite's writer slot; undoing an exchange of directories | modelled |
| recovery seal (`recovery_seal.py`) | attempt and terminal receipt per batch, the seal lock | seal, resume, replay, inventory; the gate of an activation | interruption between attempt, rotation and receipt; other programs write | modelled |
| shared runtime (`shared_runtime.py`, `server.py`) | lifecycle and run lock, relays' leases, socket, broker receipt | register, find or start a broker, request, idle stop, retire | start races, a stop that races a relay, processes that die holding a lock | modelled, its leases proved |
| tenancy leases (`tenancy.py`) | lease per process, history, close and drain requests | start, account a call, retire, close; plan, apply | a stale plan, a crash between history and lease | partly: no quarantine of leases of unknown ownership; proved |
| evidence log and policy (`evidence.py`, `audit.py`, `tools/recall.py`, `evidence_policy.py`) | JSONL families of an active file and segments, a lock per family, archives | append, rotate; plan, archive, acknowledge, redact | readers without a lock while files are rotated; a redaction that stops halfway; lines that are torn | modelled |
| principal enrollment (`secure_binding.py`, `client_rebinding.py`, `auth.py`) | binding files | bind, rebind | several files, one failure | planned; the trust clamp is in the models |
| recall, health, cost, conflict and audit tools, migration scripts, recovery rehearsal, helpers | - | reads, single upserts, one-shot imports | - | not modelled: no decision depends on another actor |

How they interact: a refused handoff or section write stages its receipt in the
conflict ledger inside its own transaction; a synced disposition leaves a
projection job that an export of the file completes; an export reads the
sections and records what it rendered; `sync_from_file` trusts those records; a
delegation grant lets one other principal do what the owner of a row does.  A
broker of the shared runtime accounts its calls in a tenancy lease, which is how
an activation, by a drain request, or an operator, by a plan, gets it to leave.
An activation first asks the recovery inventories for a current, sealed anchor;
a seal is a rotation of the anchor with a receipt published inside it.

## Modules

| module | models | state |
|---|---|---|
| `HandoffLifecycle` | what the queue promises: an abstract specification | phase, holder |
| `Handoffs` | the queue; refines `HandoffLifecycle`, uses `ConflictLedger` for its receipts | `row`, `cap`, `receipts`, `image`, `index`, `ledger` are tables; `expired` the clock; `bearers` the secrets that left the server; `call`, `review` the calls and ceremonies in flight |
| `HandoffsProofs` | theorems about `Handoffs` | |
| `ConflictLedger` | the upsert with quota and overflow, as operators on a ledger value | none |
| `WriteConflicts` | writers that stage, commit and roll back receipts | `ledger`; `staged` the open write transaction; histories `reported`, `told` |
| `ContextBridge` | sections, sync, export, the file and its editor | `sec`, `base`, `published`, `job`, `imports`, `refusals` are tables; `txn` the open write transaction; `file`; `call`, `review` |
| `Dispositions` | record_disposition, delegation of activity rows, projection jobs | `rows`, `grants`, `jobs` are tables; `manifest` the operator's; `calls` |
| `GenerationSwitch` | what an execution root promises: an abstract specification | current, previous, draining |
| `ExecutionGenerations` | the execution root; refines `GenerationSwitch` | a variable per kind of file (`actstate` is `activation-state.json`); `step` where the command under the lock stands; `reader` a readback |
| `Tenancy` | leases of server processes and their retirement | `lease`, `history`, `marker`, `drained` are files; `tracker`, `closing` a server's memory; `plan`, `applying` an operator's |
| `ContextBridgeProofs` | theorems about `ContextBridge` and about `WriteConflicts`, the ledger its refusals end up in | |
| `DispositionsProofs`, `ExecutionGenerationsProofs`, `RecoverySealsProofs`, `SchemaMigrationProofs`, `EvidenceProofs` | theorems about the modules they name | |
| `SharedRuntime` | relays and brokers; refines `Tenancy`, whose actions its brokers take | `client`, `lock`, `runlock`, `socket`, `receipt` are files; `relay`, `broker` where a process stands |
| `SharedRuntimeProofs` | theorems about `Tenancy`, as the contract `Leases` the brokers keep, and about `SharedRuntime` | |
| `RecoveryAnchors` | create and rotate up to a verified rotation, and from a failure on | `anchor`, `superseded` are directories, `slot` the writer slot, `proc` the commands |
| `RecoverySeals` | composes `RecoveryAnchors` with seals and the gate | `opened`, `attempts`, `receipts`, `debris` are what batch directories hold; `gate` a reader |
| `SchemaMigration` | `ensure_schema`: the ladder of migrations | `version`, `schema` and the data a migration moves or labels; `files` the backup; `pc`, `cur`, `next`, `seen` where an opener stands and what it read |
| `Evidence` | the evidence log and the commands over it | `file`, `lock`, `archive` are files; `printed` the plans operators have; `run` where a process stands; `touched` a history of redactions |
| `MC...` | model values and symmetry | |

Operators named `X_Something` with a comment that begins "Mutant:" are faulty
variants of `X`.  No specification uses them: they show that each property
fails when the code it is about has a plausible bug.

Abstractions worth knowing:

* `Handoffs`: payloads and timestamps do not change after they are set, so a
  digest of a row is the row.  A bearer secret is named by its handoff.
* `ContextBridge`: a text is a value; markers and edge newlines are stripped by
  the importer.  What the file renders besides the sections is the counter
  `world`.  An edit of the file keeps its section markers.  `get_section` is
  modelled where a writer uses it.  A whole-second `updated_at` token may match
  any row written in the same second.  Counters of attempts, and rows of
  export receipts, are left out.  The history fields `origin` and `from` of a
  file are read by properties only.
* `Dispositions`: a policy value stands for disposition and reason, so the repeat
  of a spent call with another reason, which the code answers by the disposition
  alone (`tools/activity.py:1132`), is another decision here; each call
  has a connection of its own; an export succeeds or fails by choice, its file
  checks being those of `ContextBridge`.
* `ConflictLedger`: rows from before evidence identities (a NULL
  `identity_hash`) are left out.
* `ExecutionGenerations`: a release verifies or it does not; the tenancy
  evidence of an activation is the generation it is bound to; a receipt is what
  its readback says.  An operation on a file returns, or raises before or after
  it took effect.  `published` is a history variable.  The recovery gate a
  command passes first is in `RecoverySeals`.
* `Tenancy`: a lease id contains the process's start time, so a server is one
  process and its pid is never reused for it; a probe that cannot tell plans
  nothing.  Resident size, heartbeats and the budgets of a policy ask the owner
  to look and change no file.
* `SharedRuntime`: a capability is minted and used once per request, so it has
  no life of its own, and does not run out.  A relay that stops waiting for an
  answer (`TimeOut`) leaves its request with the broker; it holds its lease until
  it has retired it, and only then can the broker count it out.  What a relay on
  its way out asks last (the DELETE of its session) is left out, and so is a probe
  that cannot tell: it counts as live and keeps a broker.  `plan` and `apply` of
  `Tenancy` are not taken here (an operator who plans makes the instance some
  sixty times as large); `TenancyInvariant`, `CallsAreOnFile` and
  `LeasesAreAccountedFor` are about them, for every interleaving.
* `RecoveryAnchors`: contents of the database are numbered by commits; that a
  rename which is not exchanged cannot clash is in the name of the sibling path,
  which is new for every rotation.
* `RecoverySeals`: the owner of a batch, the limit of 1,024 batches, fingerprints
  of the first schema, and a removal of the temporary file that fails as well
  are left out.  `retained` is a history variable.
* `SchemaMigration`: a schema is the set of its tables and columns; indexes and
  triggers go with their table.  One script of IF NOT EXISTS statements is one
  step where nothing is lost if it is cut off (the fresh schema).  The eight
  columns of version 14 are two, and so are the four of version 21.  Rows of
  cost records and the full-text index, which two hooks rebuild in the
  transaction of the bump, are left out.  SQLite's own behaviour is taken as
  it is: DDL outside a transaction commits, a copy into a file that was renamed
  or removed raises.  `begun` is a history variable.
* `Evidence`: a record is an id and its form (with its query, as it was logged, or as a
  redaction writes it); a size counts the writes of a file; hashes are equal when
  contents are.  A redaction reads and checks everything under the recall lock, which
  is one step.  Clocks do not go back, so segments are in the order of their
  names.  A kill leaves a line whole or unwritten; a failed write may leave any part.
  The inventories read whole files, as they do up to 1 MiB.

## Runs

Bounds are constants, and bounded steps have the bound as a guard.

| run | instance | what it shows |
|---|---|---|
| `handoff_ceremonies` | 1 handoff, 3 sessions (two of one role), 2 operators, 1 clock setback, 2 conflict identities, 1 repeat; symmetric in operators and like sessions | one session at most is granted a handoff (`OneSessionPerClaim`), row and capability agree (`ClaimMatchesCapability`), one receipt per closing and no receipt of a race that never was (`ReceiptsTellTheTruth`), quarantine is lossless (`QuarantineKeepsTheRow`), trust rises only on reviewed rows (`TrustRisesOnlyWhereReviewed`), expiry decides between completion and recovery (`ExpiryDecidesWhoCloses`), and the lifecycle is refined (`ImplementsLifecycle`) |
| `handoff_queue` | 2 handoffs, one of any legacy form, open quota 1, 1 session, 1 operator | `QueueBounded`, and, under `FairSpec`, `EveryClaimEnds` |
| `write_conflicts` | 2 writers, 3 identities over 2 surfaces, quota 2, 4 reports | `EveryConflictCounted`, `ToldReceiptsAreDurable` |
| `context_exports` | 1 section, 2 owner processes, 3 versions, 2 texts, 1 job, every legacy database and file | `VersionNamesText`, `TrackedUnlessEdited`, `SeenEditsSurviveExport`, `ImportReplacesExportedVersion` |
| `context_batch` | 2 sections, 1 process, 1 operator, 2 versions, 1 change of the rest, 2 texts of which one is over the section limit and the other leaves no room, every legacy database and file | `SyncReportIsDurable`, `OperatorTrustFollowsReview` |
| `disposition_races` | 2 rows, owner and 2 delegates, 2 policies, 2 references, 2 calls, 2 seconds; symmetric in all but the owner | `JobsFollowProofs`, `DelegatedRetryIsAnswered`, `ProofIsNotReplaced`, `DelegatedWriteSpendsTheGrant` |
| `generation_crashes` | 2 new and 2 legacy generations, 3 crashes or failed operations, 1 command at a time, 1 reader; first installation or an installed legacy pair | what is settled is whole (`SettledMapIsWhole`), an active readback was true (`ActiveReadbackWasPublished`), `ImplementsSwitch`, and under `FairSpec` `JournalSettles` |
| `shared_runtime` | 2 relays, 2 brokers, 1 call per broker, 1 supersession; any process may die at any step | `BoundRelayKeepsItsBroker`, `NoCallIsCutOff`, the refinement `ImplementsTenancy`, and under `FairSpec` `IdleBrokerStops` |
| `recovery_commands` | 2 commands, 1 batch, 2 commits of others of which the first is a migration, 3 bundles, 1 kill, failure or damage; with or without an anchor | `EvidenceIsKept`, `SealedReceiptsTellTheTruth`, `GateVerdictIsTrue`, and under `FairSpec` `AttemptIsTerminated` |
| `migration_openers` | 2 openers, files of version 0, 1, 3, 6, 11, 13 or 24, 1 row with any marks, 1 kill; symmetric | what is opened is whole (`OpenedIsWhole`), no row, decision or mark is lost (`OpenersLoseNothing`, `MarksAreKept`) |
| `evidence_commands` | 1 server with 1 event, 1 operator with 5 commands, 1 destination, 2 records with queries, a segment of 2 writes, 3 segments, 1 failure or kill | no record is lost and no query removed that is not archived (`RecordsAreKept`), an archive has all there was when its plan was begun (`ArchivesHoldWhatWasPlanned`), receipts of redactions are true (`RedactionsAreOnRecord`) |
| `migration_interrupted` | 1 opener and 1 kill at version 12 | the first disagreement below |

Why the bounds are enough.  A race here is between one call's read and its
write, so two calls plus a ceremony or a crash meet every window; a third
session tells losing to a like session from losing to another role, a third
version lets an import meet a row two writes past the exported one, and the
second section or row lets a batch fail after a success.  Five commands are a plan,
its archive, a redaction, and another plan and command after it or after its failure; a sixth and
a second destination, for the redaction that finishes a half-done one, are in
`MCEvidence_retry.cfg`, without the server.  Quotas of one and two are reached
and passed.  Where two bounds together cost too much the question is split over
two runs rather than dropped: the context runs take the second
process with the third version, and the operator with the second section.  The ladder is climbed from
old versions, so every later rung is met by both openers at every distance.  Two are
not enough for what openers do to each other's files: the loss of the backup (below)
takes three.  The proofs remove the bounds where there are any.

Some of what the properties say is beyond these instances and rests on the theorems:
a total quota that binds with several open handoffs (`QuotaIsKept`), a promotion
that must not touch the text of a version (`VersionIsOneText`), a batch that races another
process (`SyncTellsTheTruth`), plans and their application beside running calls
(`TenancyInvariant`, `CallsAreOnFile`, `LeasesAreAccountedFor`), the gate over more
than one batch (`VerdictIsTrue`), and two appends of one family that race one rotation
(`NothingIsLost`).

Deadlock is checked in the runs over the database: a call can always be
abandoned, a ceremony ended or a new one begun.  The runs of the other
groups may stop, because every generation was used, every process has ended or
the bounds on commits, bundles, openings and faults are reached.

Fairness.  The code has no scheduler for handoffs: claims end because a session
completes them or because an operator runs a ceremony.  `FairSpec` says what it
asks of people, one operator who keeps reviewing what is stuck and sooner or
later confirms, and of the clock, that an expiry passes in the end (strong
fairness because it may be set back).  Nothing is assumed of sessions: their
secrets may be lost for ever.  In `ExecutionGenerations` the running command is
scheduled and an operator retries as long as a journal is pending, which the
documents ask for; no new activation is ever promised.  In `SharedRuntime` the
steps of brokers and the requests they hold are scheduled by their event loops;
relays may hang and operators do nothing.  In `RecoverySeals` commands that run
go on (a wait for the writer slot ends after its busy timeout, whoever holds it),
and an operator repeats the call of a batch until it has its receipt: strongly,
because another command may hold the seal lock each time they look.

## Disagreements with the documents

Checked, with a run that shows the counterexample:

* The scripts to versions 2, 5, 6, 7, 10 and 13 commit every statement, and the
  version follows later.  A kill in between leaves a database that is at no
  version, and whoever opens it next raises on the duplicate column
  (`db.py:1244`, run `migration_interrupted`).  A late opener that fails on such a
  column after it has set the version back leaves the same.

Checked the same way by a configuration beside the runs (`tlc -config <file>
<module>` finds the counterexample):

* `MCExecutionGenerations_rollback_drained.cfg`: a drain request is never
  removed.  After A was replaced by B and B rolled back to A, the active
  generation is the one that is asked to drain: its servers refuse every call
  and retire (`execution_generation.py:1944`, `tenancy.py:483`).
* `MCEvidence_hidden.cfg`: a receipt that a full disk cut off leaves a line
  without its end, and the next receipt is appended to it.  No reader can parse
  that line, and `iter_jsonl_reverse` skips it in silence (`audit.py:137`), so the
  inventory says "clear" of a redaction that has begun and not completed
  (`evidence.py:196`), where `docs/internal/EVIDENCE-LIFECYCLE.md:26` says that any open or malformed
  transaction makes storage health non-green.  The same glued line loses
  an audit event that was reported as written.
* `MCContextBridge_import_unblocks.cfg`: after an edit of the exported file was
  imported, as the refusal of the export asks, the next export is refused all
  the same: an import records nothing about the whole file
  (`tools/export.py:479`).
* `MCContextBridge_import_descends.cfg`: a sync reads the file before any row.
  An update and its export in between make the row match a base newer than the
  text in hand, and the old text is imported over it (`tools/context.py:384`).
* `MCContextBridge_open_transaction.cfg`: two creations of one section race; the
  loser's IntegrityError leaves the call with its implicit transaction open
  (`tools/context.py:306`).
* `MCRecoverySeals_interrupted.cfg`: a kill inside `_publish_record` leaves a
  temporary file in the batch directory.  No retry accepts the directory, and the
  inventory, and with it the gate of every activation, stays invalid
  (`recovery_seal.py:384`, `611`).
* `MCSchemaMigration_rerun.cfg`: the backup of the collapse is renamed into
  place before its manifest.  A kill between the two leaves a backup that every
  later opening refuses (`db.py:1009`, `942`).
* `MCSchemaMigration_backup.cfg`: all openers write the backup of the collapse under
  the same temporary names.  One has validated its copy, a second removes it, a
  third creates the file anew, and the first renames that empty file into place
  and drops the tables.  "The pristine copy is kept" (`db.py:923`) then has nothing to
  keep; a kill of the third while it copies does the same with a torn file
  (`db.py:973`, `979`, `1009`).
* `MCDispositions_downgrade.cfg`: a policy decision that read the row before a
  proof was committed overwrites the proof: the guard of the UPDATE is off for
  policies (`tools/activity.py:1209`).

Met while modelling, visible in the modules, without a run of their own:

* The placeholder an export renders for a missing section is imported as that
  section's first version: with no row, the export base is not looked at
  (`tools/context.py:410`; `PlanFor` with version 0).
* The first export over a legacy file compares it with every stored section,
  also those the file never has, so a matching file is refused once such a
  section is stored (`tools/export.py:500`; `Bootstraps`).
* A delegate's grant and row image are resolved before the write transaction and
  not compared in it (`tools/activity.py:1075`; `ReadImage`, `ReadGrant`,
  `Write`).
* A proof that superseded a policy decision is stored with a folded note, and
  the retry of the same call compares its own note with it, so the retry is
  refused as a different receipt (`tools/activity.py:1011`, `1174`; `SameReceipt`).
* The reason folded into that note is the one read before the transaction; a
  decision committed in between leaves no trace (`tools/activity.py:1174`;
  `Decided` uses `seen`).

* A failed undoing of a switch may leave `current` restored and `previous` not,
  the one partial map a retry does not allow: the journal then stays for review
  for good (`execution_generation.py:2309`; `Torn`).
* An existing drain request that names another successor refuses the retry of a
  committed activation, so its journal stays (`execution_generation.py:1958`;
  `MarkerClash`).
* A broker that did not get the run lock removes the socket of the one that has
  it (`shared_runtime.py:1867`; `UnlinkSocket`), and a broker that retires leaves
  its receipt "ready" until it has ended, so relays are refused in between.
* The wait for a draining broker ends as soon as it stops listening, while it
  still holds the run lock, and the relay gives up (`shared_runtime.py:1347`;
  `WaitEnds`).
* A call whose accounting fails after the count was raised in memory is never
  counted down, and its server cannot retire (`tenancy.py:508`, `server.py:79`;
  not in the model, where accounting does not fail).
* An interrupt between the return of the seal's callback and the note that the
  rotation is committed undoes the rotation under a sealed receipt (`recovery.py:1081`;
  not in the model, where the two are one step).
* Of two openers of a version 1 file the later one can rename the `activity_log`
  of the current schema away and fail on refilling the old one: no row is lost,
  but the table that is served is empty (`db.py:404`; `Statement`).

## What is proved

From the assumptions named on the constants alone, which bound no number of
handoffs, sessions, operators, servers, relays, openers or records:

| theorem | says |
|---|---|
| `TypeCorrect` | `Spec => []TypeOK` |
| `Invariance` | `Spec => []HandoffInv` |
| `ClaimSafety`, `SingleWinner`, `ClosedOnce`, `Approval`, `QuarantineSafety` | `ClaimMatchesCapability`, `OneSessionPerClaim`, `ClosedByOneReceipt`, `RunsOnlyApproved` and `QuarantineKeepsTheRow` always hold |
| `ExpiryDecides` | the action property `ExpiryDecidesWhoCloses` |
| `TrustIsReviewed` | the action property `TrustRisesOnlyWhereReviewed` |
| `QuotaIsKept`, `ReceiptsAreTrue` | `QueueBounded` and `ReceiptsTellTheTruth` always hold |
| `Refinement` | `Spec => ImplementsLifecycle` |
| `TenancyInvariant` | the inductive invariant of the leases |
| `CallsAreOnFile` | a running call of a live server is in its lease file, whatever is planned and applied |
| `LeasesAreAccountedFor` | a lease leaves the active directory only with a record in the history |
| `PlacesInvariant` | relays, brokers and receipts are in the places the program has for them, and requests name a broker |
| `SharedRuntimeImplements` | `Spec => ImplementsTenancy` |
| `BrokerCallsAreOnFile`, `BrokerLeasesAreAccountedFor` | the same two of the brokers, carried over by the refinement |
| `CallsInvariant` | the inductive invariant of relays' requests |
| `BoundRelaysAreServed`, `CallsAreFinished` | `BoundRelayKeepsItsBroker` and `NoCallIsCutOff` always hold |
| `ConflictsInvariant` | the inductive invariant of the ledger |
| `LedgerStaysBounded`, `ToldReceiptsStay` | `LedgerBounded` and `ToldReceiptsAreDurable` always hold |
| `ConflictsAreCounted` | `EveryConflictCounted` always holds |
| `ContextInvariant`, `ContextTypes` | the inductive invariant of sections, syncs and exports, and its types |
| `VersionIsOneText`, `ExportedFileIsTracked`, `SyncTellsTheTruth` | `VersionNamesText`, `TrackedUnlessEdited` and `SyncReportIsDurable` always hold |
| `OperatorTrustIsReviewed`, `ImportReplacesExport`, `ExportKeepsSeenEdits` | the action properties `OperatorTrustFollowsReview`, `ImportReplacesExportedVersion` and `SeenEditsSurviveExport` |
| `DispositionInvariant` | the inductive invariant of dispositions |
| `ProofsHaveJobs`, `RetriesAreAnswered` | `JobsFollowProofs` and `DelegatedRetryIsAnswered` always hold |
| `ProofStands`, `DelegationIsSpent` | the action properties `ProofIsNotReplaced` and `DelegatedWriteSpendsTheGrant` |
| `GenerationsInvariant` | the inductive invariant of the execution root |
| `MapsAreWhole` | `SettledMapIsWhole` always holds |
| `SwitchIsAtomic` | `Spec => ImplementsSwitch` |
| `ReadbackInvariant` | the inductive invariant of the lock-free readback |
| `ActiveReadbackIsTrue` | `ActiveReadbackWasPublished` always holds |
| `SealsInvariant` | the inductive invariant of the recovery commands |
| `AnchorsAreKept` | `EvidenceIsKept` always holds |
| `SealsTellTheTruth` | the action property `SealedReceiptsTellTheTruth` |
| `GateInvariant` | the inductive invariant of the gate |
| `VerdictIsTrue` | the action property `GateVerdictIsTrue` |
| `MarksInvariant` | the inductive invariant of the migration |
| `CollapseLosesNothing` | `MarksAreKept` always holds |
| `LateInvariant` | the inductive invariant of openers that come late |
| `LateOpenersLoseNothing` | the action property `OpenersLoseNothing` |
| `OpenedDatabaseIsWhole` | `OpenedIsWhole` always holds |
| `EvidenceInvariant` | the inductive invariant of the evidence log |
| `NothingIsLost` | the action property `RecordsAreKept` |
| `ArchivesInvariant` | the inductive invariant of plans and archives |
| `ArchivesAreWhole` | `ArchivesHoldWhatWasPlanned` always holds |
| `ReceiptsInvariant` | the inductive invariant of the receipts of redactions |
| `RedactionsAreTrue` | `RedactionsAreOnRecord` always holds |

The argument for the handoff queue.  None of the safety properties is inductive: that a claim and its
capability match, for one, survives a cancellation only because a cancelled row
had no claimant *when it was shown*, and survives a pickup only because a
pending row has no capability.  `HandoffInv` adds what is missing, in three
parts.  `Sound` relates the four stored records of one handoff, case by case of
its status.  `CallsSound` is what sessions in flight may rely on: a claiming
call saw operator trust, a granted or published secret has a capability, one
call at most is granted.  `ReviewsSound` is what ceremonies in flight may rely
on: which kind of row they were shown.  Each action is shown to take one handoff
from `Sound` to `Sound` (`CreateSound` ... `RestoreSound`) and to leave the
others alone (`SoundFrame`); `SoundStep`, `CallsStep` and `ReviewsStep` put the
actions together.  The refinement then needs no invention: under the invariant
every action is one move of one handoff's phase (`OneMove`, `CloseMove`) or a
stutter, and the action properties are read off the same invariant: by `RowSteps`
a step creates, approves, claims, closes or relabels one row, if any.  The quotas
(`QuotaInv`) hold because counting and inserting are one statement, for stored rows that are
finite in number.  A conflict receipt is true (`LossInv`) because whoever
loses has met the handoff past pending, where no step brings it back from.

The argument for the leases.  That a running call is on file is not inductive: an
operator may hold a plan, even a checked one, made from an older file, and a
server may be between the steps of its close.  `TenancyInv` adds that a live
server's memory and file agree unless it is closing, that what is being closed runs nothing,
that a lease is closed or retired only after its history record, and that
`retire_orphan` names a process that is dead, which it stays because a lease id is never
used twice.  `PlacesInv` then says that what relays start
and ask is a broker, so that each step of `SharedRuntime` is a step of `Tenancy` or
leaves its variables alone, and the theorems of `Tenancy` carry over.

The argument for the relays.  A broker can stop in three ways, and `CallsInv` has an
answer to each.  An idle stop needs an empty group, and a living relay is on file from
before it looks for a broker (`Registered`).  A start that failed stops a broker nobody
has heard of: receipts and requests only name brokers that published (`Published`).
And a broker that was asked to retire waits for its count, which has every running call
because a broker runs one at a time (`Calls`, `OneCall`); it is still asked when a
request comes late, so no call starts in a broker that stops (`Requests`).

The argument for the ledger.  A receipt is decided by the ledger a transaction
sees and written when it commits.  `ConflictsInv` says that the open transaction
is one upsert of the ledger as it still is, which holds because there is one
writer at a time; one upsert adds one row at most, an identity its own only below the
quota.  What a caller was told is in the ledger since, because rows are never removed.
That every conflict is counted once compares two sums, and a sum is a recursive function
over the subsets of its set.  Finite sets are well-founded under inclusion
(`LeastSubset`), so a smallest counterexample does what an induction would: the
recursion has a solution (`SumOfSubsets`), and one more in one entry is one more in every
sum with that entry (`SumOverGrows`).  A commit adds one to a row and one to a report, and
the row belongs to the surface of the report, overflow or not (`RowOfSurface`).  This
needs finitely many identities, which SHA-256 digests are.

The argument for the sections.  Clients, operators, exports and the file all hold rows
they read earlier.  Sections only move forward: a content write is a new version
which nobody has approved (`Rewritten`), a promotion keeps version and text
(`Grows`).  So a remembered row is an older version, or the same text
(`Remembers`).  What a connection staged moves the table forward too, and while it
has the write lock nothing durable moves (`TxnSound`, `Frame`): a client or a sync
with a transaction open may rely on what it staged (`EditSound`, `SyncSound`), and an
export on what it rendered (`ExportSound`); only the file may be edited under it.
A planned import names a version the export state has reached (`PlanSound`), and no
row is behind its export state, so its compare-and-swap wins against the exported
row only.

The argument for dispositions.  A call reads its row and its grant with no lock and
writes later.  `DispositionInv` says what is then still true.  `OwnersImage`: while
the grant of a row is unused, nobody but the owner has written the row or any image of
it that a call holds; so the receipt of the first use, which names the delegate, is
none of those images, and a retry is not mistaken for an answered one.  A delegate
that is about to write holds the image its grant names (`CallSound`), and the
UPDATE's guard and the unique receipt do the rest.  `WriteKeeps` is the step that
matters: one row, its grant and its job change together, and each other call in
flight keeps what it relies on.

The argument for the execution root.  `SettledMapIsWhole` speaks of the moments
without a journal only.  `GenerationsInv` says what is true under one: `WayBack`,
that the map before the switch could still be restored whole (receipt and drain
request are written after the commit), as long as there is no commit or the
command undoes; `Placed`, which writes are on disk where a command stands.  The
refinement maps a pending journal to its old map until the commit and to its new
one from then on; `CommitIsSwitch` shows that nothing else changes what readers trust.
A readback takes no lock, and its four files may come from four moments.
`ReadbackInv` says why it is right when it says "active": the state file is written
last (`StateIsWrittenLast`), so the map it names could be read as a whole when it was
written, and a reader starts beside no journal, so the map the file named then could be
too (`StatePublished`); two pointers that agree with it therefore name such a map,
whenever they were read.  `MapsHeld`, that no pointer leads to a release that was never
verified, rules out that the map failed to verify at that moment.

The argument for the recovery commands.  Commands share only the writer slot, and hold
it briefly.  `SealsInv` says that who holds it still has the anchor it compared;
that a candidate which was not exchanged belongs to one command alone, is not
the anchor and never was one with the slot free, so that its removal loses nothing;
and that an exchanged candidate is the anchor until it is exchanged back.
`MoveInv` covers every step that moves one command only; the creation, the backup, the
exchange and its undoing have lemmas of their own.

The gate takes no lock at all; it reads the anchor, the database, every batch directory
and the database again, each at a moment of its own.
`GateInv` says why that is enough: a sealed receipt whose content the database still
has names the bundle at the stable path (`SealHolds`).  It stays so because a rotation
takes for evidence only an anchor that is not current, which it then never becomes
again (`Remembers`: contents do not come back), and exchanges nothing else; so an
exchange finds no receipt about the current content (`NoneIsCurrent`).  The gate has
read a receipt about some content, which no later step changes, and last of all that
the database still has it.

The argument for the migration.  An opener decides from what it read outside the
lock: which version the file has, and which legacy tables exist.  `MarksInv` says
that marks are unmoved in their tables or all on their rows (`Before`, `After`);
that in the first case whoever may still run the collapse has seen those tables
(`Noticed`), which holds because the scripts that create them are below any
version a marked file can have and because only the collapse drops them; and
that no such file is ever below version 4 (`AboveRefill`), so that the one
script that moves rows cannot run.  Late openers (`LateInv`) meet two steps that only one
of them can take, whoever else is killed or late: putting `activity_log` aside, which
the table put aside forbids to all others until it is dropped, and adding the
trust column, which can be added once; so one opener moves the rows (`Shifting`), and
one labels them (`Labelling`) before anybody serves who could promote one.  For what is
opened, `WholeFor` says what an opener has seen to by the place where it stands; it
stays so because nothing but the legacy tables is ever dropped (`WholeFrame`), and a rung
adds to one version what makes it the next (`ClimbSchema`).

The argument for the evidence log.  A rotation may take the next segment name only
because segments have no gaps (`NoGaps`), and what a redaction prepared is still what
the files hold only because nobody else has the recall lock.  `EvidenceInv` says so:
who writes has the lock of its family (`WritersLock`); who redacts, also while it
writes its receipts, has the recall lock, has every file of the family prepared
as it is now, replaced or not, since a second redaction of a file changes
nothing (`RedactedKeeps`), and has an archive of every query that is left
(`RedactionsLock`).  `WriterKeeps` covers the steps of all appends.

Plans and archives hold no lock, and what saves them is that records move one way
(`Moved`): from the active file to a segment, and never back.  A plan visits the
active file of a family before its segments.  So a record that was there when it was
begun is in a segment, or in the active file as the plan has it, or in the active file
and that is still to be read (`PlanSees`).  An archive collects again and goes on only
if it finds the files of the plan; either the plan's active file has the record, and so
has the second collection, or the record was in a segment before the second collection
began, and it reads all segments (`ArchiveSees`).  The property speaks of the beginning
of the plan, not of its end, for a reason: with two failed writes the stronger claim
is false.  Each can leave an empty active file, after a rotation, that is the same to
the plan as the one before, and a record that was written and rotated away
while the plan was read can be missing from both collections.

The receipts of a redaction are true because nobody can make them untrue: its number
is no other's (`NumbersOK`), whoever replaces files has the recall lock, so a
`completed` that is about to be written stays true while it waits for its own lock, and
servers log no queries any more; an `aborted` is written by a process that has
replaced nothing and will do nothing after it; and no file is replaced before the
`prepared` receipt is in the log, on a line or behind a damaged one (`Witnessed`), from
where an append or a rotation does not take it (`Grown`).  `ReceiptsStep` says
this once for any step of any process, and each action is shown to be such a step.

Every invariant and action property of the passing runs is proved.
The other way round, `HandoffInv`, `RunsOnlyApproved` (which
`ImplementsLifecycle` contains) and `LedgerBounded` are proved and no longer need
a run.
Out of the prover's reach, and model-checked only: liveness under fairness
(`EveryClaimEnds`, `JournalSettles`, `IdleBrokerStops`, `AttemptIsTerminated`).

## Not modelled

* `quarantine_legacy_unknown_lease` of `tenancy.py`, and what its inventory
  reports: a one-shot repair of leases written before ownership was recorded.
* `log_activity` with its retention and the snapshots with their refusals; the
  delegation grants for refusals.  `Dispositions` has the rows they would prune.
* Concurrent calls of one server process on one implicit transaction, beyond the
  open transaction of `ContextBridge`.
* The backups and the recovery anchor in the plans of `Evidence`, and the byte
  budget of its inventories.
* The multi-file bind and rebind of a principal.
* Recovery rehearsal, recall, health, cost, conflict and audit tools, one-shot
  migrations and helpers: no decision of theirs depends on another actor.

## Plan

What would come next, in this order: `Retention` (log_activity with BD-INV-1,
snapshots with durable refusals, sharing the grants of `Dispositions`),
`SharedConnection`, `Binding`.

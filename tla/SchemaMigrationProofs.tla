----------------------- MODULE SchemaMigrationProofs -----------------------
(***************************************************************************)
(* The collapse of the legacy tables loses no mark, for any number of      *)
(* openers, rows, openings and kills.                                      *)
(***************************************************************************)
EXTENDS SchemaMigration, TLAPS

(***************************************************************************)
(* The inductive invariant.                                                *)
(***************************************************************************)
Rung == {"script", "bump", "legacy", "expect", "backup", "clear", "clear_manifest",
         "clear_metadata", "copy", "copying", "digest", "record", "validate", "place",
         "place_manifest", "place_metadata", "columns", "adding", "collapse"}

Looked == Rung \ {"script", "bump", "legacy", "columns", "adding"}

LadderTypeOK ==
    /\ version \in 0 .. 24
    /\ pc = [p \in Opener |-> pc[p]]
    /\ cur \in [Opener -> 0 .. 24]
    /\ next \in [Opener -> Nat \ {0}]
    /\ \A p \in Opener : pc[p] \in Rung => cur[p] \in 1 .. 22

NotesTypeOK ==
    /\ seen = [p \in Opener |-> seen[p]]
    /\ \A p \in Opener : seen[p] = [columns |-> seen[p].columns, tables |-> seen[p].tables,
                                    version |-> seen[p].version]
    /\ sync = [r \in Row |-> sync[r]]

Marked == begun.receipts # {} \/ begun.policies # {}

\* A file with marks is of version 4 or later, so no row is ever moved.
AboveRefill ==
    /\ version >= 4
    /\ \A p \in Opener : pc[p] \in Rung => cur[p] >= 4
    /\ \A r \in Row : home[r] = {"activity_log"}

\* The opener has looked for the legacy tables and may still collapse them.
MayCollapse(p) == pc[p] \in Looked \/ (pc[p] \in {"columns", "adding"} /\ cur[p] = 13)

\* Marks in a table: the table is there, and whoever looked has seen it.
Noticed(marks, table) ==
    marks # {} => /\ Exists(table)
                  /\ \A p \in Opener : MayCollapse(p) => table \in seen[p].tables

Before ==
    /\ receipts = begun.receipts /\ policies = begun.policies
    /\ Noticed(receipts, "shipped_sync_receipts")
    /\ Noticed(policies, "shipped_event_dispositions")

After ==
    /\ receipts = {} /\ policies = {}
    /\ \A r \in begun.receipts : sync[r] = "synced"
    /\ \A r \in begun.policies \ begun.receipts : sync[r] \in {"policy", "recorded"}

MarksInv ==
    /\ LadderTypeOK
    /\ NotesTypeOK
    /\ begun.receipts \subseteq Row /\ begun.policies \subseteq Row
    /\ Marked => AboveRefill /\ (Before \/ After)

(***************************************************************************)
(* The ladder.                                                             *)
(***************************************************************************)
Additive == {"create", "add", "label"}
LaterScripts ==
    {V2_TO_V3, V3_TO_V4, V4_TO_V5, V5_TO_V6, V6_TO_V7, V7_TO_V8, V8_TO_V9, V9_TO_V10,
     DataOnly, V11_TO_V12, V12_TO_V13, V14_TO_V15, V15_TO_V16, V16_TO_V17, V17_TO_V18,
     V18_TO_V19, V19_TO_V20, V21_TO_V22, V22_TO_V23}

LEMMA LaterScriptsListed == \A v \in 3 .. 23 : Script(v) \in LaterScripts
<1>1. \A k \in 2 .. 22 : Ladder[k] \in LaterScripts
  BY SMT DEF Ladder, LaterScripts
<1> QED
  BY <1>1 DEF Script

LEMMA LaterScriptsLength == \A s \in LaterScripts : Len(s) \in Nat
  BY SMT DEF LaterScripts, V2_TO_V3, V3_TO_V4, V4_TO_V5, V5_TO_V6,
     V6_TO_V7, V7_TO_V8, V8_TO_V9, V9_TO_V10, DataOnly, V11_TO_V12, V12_TO_V13,
     V14_TO_V15, V15_TO_V16, V16_TO_V17, V17_TO_V18, V18_TO_V19, V19_TO_V20,
     V21_TO_V22, V22_TO_V23

\* No script but the first takes anything away.
LEMMA LaterScriptsAdd ==
    \A v \in 3 .. 23 : \A i \in 1 .. Len(Script(v)) : Script(v)[i].op \in Additive
<1>1. \A s \in LaterScripts : \A i \in 1 .. Len(s) : s[i].op \in Additive
  BY SMT DEF LaterScripts, Create, Add, Label, Additive, V2_TO_V3, V3_TO_V4, V4_TO_V5, V5_TO_V6,
     V6_TO_V7, V7_TO_V8, V8_TO_V9, V9_TO_V10, DataOnly, V11_TO_V12, V12_TO_V13,
     V14_TO_V15, V15_TO_V16, V16_TO_V17, V17_TO_V18, V18_TO_V19, V19_TO_V20,
     V21_TO_V22, V22_TO_V23
<1> QED
  BY <1>1, LaterScriptsListed

\* A database from version 4 to 13 has the receipts, from 8 to 13 the decisions.
LEMMA LegacyTablesThere ==
    /\ \A v \in 4 .. 13 : <<"shipped_sync_receipts", "id">> \in SchemaAt(v)
    /\ \A v \in 8 .. 13 : <<"shipped_event_dispositions", "id">> \in SchemaAt(v)
<1>1. <<"shipped_sync_receipts", "id">> \in Created(Script(4))
  <2>1. Script(4) = V3_TO_V4
    BY DEF Script, Ladder
  <2>2. 1 \in DOMAIN V3_TO_V4 /\ V3_TO_V4[1] = Create("shipped_sync_receipts")
    BY DEF V3_TO_V4
  <2> QED
    BY <2>1, <2>2 DEF Created, Create
<1>2. <<"shipped_event_dispositions", "id">> \in Created(Script(8))
  <2>1. Script(8) = V7_TO_V8
    BY DEF Script, Ladder
  <2>2. 1 \in DOMAIN V7_TO_V8 /\ V7_TO_V8[1] = Create("shipped_event_dispositions")
    BY DEF V7_TO_V8
  <2> QED
    BY <2>1, <2>2 DEF Created, Create
<1>3. ASSUME NEW v \in 4 .. 13 PROVE <<"shipped_sync_receipts", "id">> \in SchemaAt(v)
  BY <1>1 DEF SchemaAt, SchemaVersion
<1>4. ASSUME NEW v \in 8 .. 13 PROVE <<"shipped_event_dispositions", "id">> \in SchemaAt(v)
  BY <1>2 DEF SchemaAt, SchemaVersion
<1> QED
  BY <1>3, <1>4

LEMMA MarksInit == ASSUME Init PROVE MarksInv
<1>1. LadderTypeOK
  <2>1. version \in 0 .. 24
    BY MigrationAssumption DEF Init, MigrationAssumption, SchemaVersion
  <2>2. pc = [p \in Opener |-> pc[p]] /\ \A p \in Opener : pc[p] = "closed"
    BY DEF Init
  <2>4. "closed" \notin Rung
    BY DEF Rung
  <2>3. cur \in [Opener -> 0 .. 24] /\ next \in [Opener -> Nat \ {0}]
    BY DEF Init
  <2> QED
    BY <2>1, <2>2, <2>3, <2>4 DEF LadderTypeOK
<1>2. NotesTypeOK
  BY DEF Init, NotesTypeOK, NothingSeen
<1>3. begun.receipts \subseteq Row /\ begun.policies \subseteq Row
  BY DEF Init
<1>4. ASSUME Marked PROVE AboveRefill /\ Before
  <2>1. begun.version \in 4 .. 13
    BY <1>4 DEF Init, Marked
  <2>2. version = begun.version /\ schema = SchemaAt(version)
    BY <2>1 DEF Init
  <2>3. AboveRefill
    BY <2>1, <2>2 DEF Init, AboveRefill, Rung
  <2>4. \A p \in Opener : ~MayCollapse(p)
    BY DEF Init, MayCollapse, Looked, Rung
  <2>5. Noticed(receipts, "shipped_sync_receipts")
    BY <2>1, <2>2, <2>4, LegacyTablesThere DEF Noticed, Exists
  <2>6. Noticed(policies, "shipped_event_dispositions")
    <3>1. policies # {} => begun.version \in 8 .. 13
      BY DEF Init
    <3> QED
      BY <3>1, <2>2, <2>4, LegacyTablesThere DEF Noticed, Exists
  <2> QED
    BY <2>3, <2>5, <2>6 DEF Before, Init
<1> QED
  BY <1>1, <1>2, <1>3, <1>4 DEF MarksInv

(***************************************************************************)
(* Steps.                                                                  *)
(***************************************************************************)
\* What keeps the marks where they are: no table goes, no row moves, nobody
\* who has not seen a table with marks comes to the collapse.
LEMMA MarksStay ==
    ASSUME MarksInv, UNCHANGED <<receipts, policies, home, sync, begun>>,
           Marked => schema \subseteq schema' /\ AboveRefill',
           \A p \in Opener : MayCollapse(p)' =>
                \/ MayCollapse(p) /\ seen'[p].tables = seen[p].tables
                \/ \A t \in Legacy : Exists(t) => t \in seen'[p].tables
    PROVE  Marked' => AboveRefill' /\ (Before \/ After)'
<1> SUFFICES ASSUME Marked PROVE AboveRefill' /\ (Before \/ After)'
  BY DEF Marked
<1>1. AboveRefill'
  OBVIOUS
<1>2. CASE After
  BY <1>1, <1>2 DEF After
<1>3. CASE Before
  <2>1. ASSUME NEW marks, NEW t \in Legacy, Noticed(marks, t) PROVE Noticed(marks, t)'
    BY <2>1 DEF Noticed, Exists
  <2>2. Before'
    BY <1>3, <2>1 DEF Before, Legacy
  <2> QED
    BY <1>1, <2>2
<1> QED
  BY <1>2, <1>3 DEF MarksInv

\* A step that moves one opener and notes nothing about the tables.
LEMMA MoveInv ==
    ASSUME MarksInv, NEW p \in Opener, NEW place,
           Goto(p, place),
           UNCHANGED <<version, schema, home, receipts, policies, sync, begun, cur, next>>,
           NotesTypeOK', \A q \in Opener : seen'[q].tables = seen[q].tables,
           place \in Rung => pc[p] \in Rung,
           place \in Looked \/ (place \in {"columns", "adding"} /\ cur[p] = 13)
                => MayCollapse(p)
    PROVE  MarksInv'
<1>1. pc' = [q \in Opener |-> IF q = p THEN place ELSE pc[q]]
  BY DEF Goto, MarksInv, LadderTypeOK
<1>2. LadderTypeOK'
  BY <1>1 DEF MarksInv, LadderTypeOK
<1>3. Marked => AboveRefill'
  BY <1>1 DEF MarksInv, AboveRefill
<1>4. \A q \in Opener : MayCollapse(q)' => MayCollapse(q)
  BY <1>1 DEF MayCollapse
<1>5. Marked' => AboveRefill' /\ (Before \/ After)'
  BY <1>3, <1>4, MarksStay
<1> QED
  BY <1>2, <1>5 DEF MarksInv

LEMMA BackupInv ==
    ASSUME MarksInv, NEW p \in Opener,
           \/ FindBackup(p) \/ ClearTemporaries(p) \/ CopyDatabase(p) \/ WriteManifest(p)
           \/ ValidateCopy(p) \/ PlaceBackup(p)
    PROVE  MarksInv'
<1>1. UNCHANGED <<version, schema, home, receipts, policies, sync, begun, cur, next, seen>>
  BY DEF FindBackup, ClearTemporaries, CopyDatabase, WriteManifest, ValidateCopy, PlaceBackup,
         database, counters
<1>2. pc[p] \in Looked
  <2>1. pc[p] \in {"backup", "clear", "clear_manifest", "clear_metadata", "copy", "copying",
                   "digest", "record", "validate", "place", "place_manifest", "place_metadata"}
    BY DEF FindBackup, ClearTemporaries, CopyDatabase, WriteManifest, ValidateCopy, PlaceBackup
  <2> QED
    BY <2>1 DEF Looked, Rung
<1>3. \E place : Goto(p, place)
  BY DEF FindBackup, ClearTemporaries, CopyDatabase, WriteManifest, ValidateCopy, PlaceBackup,
         Rename
<1>4. PICK place : Goto(p, place)
  BY <1>3
<1>5. NotesTypeOK'
  BY <1>1 DEF MarksInv, NotesTypeOK
<1>6. pc[p] \in Rung /\ MayCollapse(p)
  BY <1>2 DEF Looked, MayCollapse
<1> QED
  BY <1>1, <1>4, <1>5, <1>6, MoveInv

LEMMA RestInv ==
    ASSUME MarksInv, NEW p \in Opener, Close(p) \/ Crash(p)
    PROVE  MarksInv'
<1>1. UNCHANGED <<version, schema, home, receipts, policies, sync, begun, cur, next, seen>>
  BY DEF Close, Crash, database, counters
<1>2. Goto(p, "closed")
  BY DEF Close, Crash
<1>3. NotesTypeOK'
  BY <1>1 DEF MarksInv, NotesTypeOK
<1>4. "closed" \notin Rung /\ "closed" \notin Looked
  BY DEF Rung, Looked
<1> QED
  BY <1>1, <1>2, <1>3, <1>4, MoveInv

LEMMA TurnInv ==
    ASSUME MarksInv, NEW p \in Opener, EndScript(p) \/ EndColumns(p) \/ ExpectVersion(p)
    PROVE  MarksInv'
<1>1. UNCHANGED <<version, schema, home, receipts, policies, sync, begun, cur, next>>
  BY DEF EndScript, EndColumns, ExpectVersion, database, counters
<1>2. NotesTypeOK' /\ \A q \in Opener : seen'[q].tables = seen[q].tables
  <2>1. CASE UNCHANGED seen
    BY <1>1, <2>1 DEF MarksInv, NotesTypeOK
  <2>2. CASE ExpectVersion(p)
    <3>1. seen' = [q \in Opener |->
             IF q = p THEN [seen[p] EXCEPT !.version = version] ELSE seen[q]]
      BY <2>2 DEF ExpectVersion, MarksInv, NotesTypeOK
    <3>2. [seen[p] EXCEPT !.version = version]
             = [columns |-> seen[p].columns, tables |-> seen[p].tables, version |-> version]
      BY DEF MarksInv, NotesTypeOK
    <3> QED
      BY <1>1, <3>1, <3>2 DEF MarksInv, NotesTypeOK
  <2> QED
    BY <2>1, <2>2 DEF EndScript, EndColumns
<1>3. cur[p] \in 0 .. 24
  BY DEF MarksInv, LadderTypeOK
<1>4. CASE EndScript(p)
  <2>1. \E place \in {"legacy", "columns", "bump"} :
           Goto(p, place) /\ (place = "columns" => cur[p] = 20)
    BY <1>3, <1>4 DEF EndScript
  <2>2. pc[p] \in Rung
    BY <1>4 DEF EndScript, Rung
  <2> QED
    BY <1>1, <1>2, <2>1, <2>2, MoveInv DEF Looked
<1>5. CASE EndColumns(p)
  <2>1. \E place \in {"collapse", "bump"} :
           Goto(p, place) /\ (place = "collapse" => cur[p] = 13)
    BY <1>3, <1>5 DEF EndColumns
  <2>2. pc[p] \in Rung /\ pc[p] = "adding"
    BY <1>5 DEF EndColumns, Rung
  <2> QED
    BY <1>1, <1>2, <2>1, <2>2, MoveInv DEF Looked, MayCollapse
<1>6. CASE ExpectVersion(p)
  <2>1. pc[p] \in Looked /\ pc[p] \in Rung
    BY <1>6 DEF ExpectVersion, Rung, Looked
  <2>2. Goto(p, "backup")
    BY <1>6 DEF ExpectVersion
  <2> QED
    BY <1>1, <1>2, <2>1, <2>2, MoveInv DEF MayCollapse
<1> QED
  BY <1>4, <1>5, <1>6

LEMMA OpenInv == ASSUME MarksInv, NEW p \in Opener, Open(p) PROVE MarksInv'
<1>1. PICK place \in {"failed", "fresh", "extend", "script"} :
          Goto(p, place) /\ (place = "script" => version \in 1 .. 22)
  BY DEF Open, MarksInv, LadderTypeOK, SchemaVersion
<1>2. pc' = [q \in Opener |-> IF q = p THEN place ELSE pc[q]]
  BY <1>1 DEF Goto, MarksInv, LadderTypeOK
<1>3. /\ cur' = [q \in Opener |-> IF q = p THEN version ELSE cur[q]]
      /\ next' = [q \in Opener |-> IF q = p THEN 1 ELSE next[q]]
      /\ seen' = [q \in Opener |-> IF q = p THEN NothingSeen ELSE seen[q]]
      /\ UNCHANGED <<version, schema, home, receipts, policies, sync, begun>>
  BY DEF Open, database, MarksInv, LadderTypeOK, NotesTypeOK
<1>4. place \in Rung => place = "script"
  BY DEF Rung
<1>5. LadderTypeOK'
  BY <1>1, <1>2, <1>3, <1>4 DEF MarksInv, LadderTypeOK
<1>6. NotesTypeOK'
  BY <1>3 DEF MarksInv, NotesTypeOK, NothingSeen
<1>7. Marked => AboveRefill'
  BY <1>2, <1>3, <1>4 DEF MarksInv, AboveRefill
<1>8. \A q \in Opener : MayCollapse(q)' => MayCollapse(q) /\ seen'[q].tables = seen[q].tables
  <2>1. ~MayCollapse(p)'
    BY <1>2, <1>4 DEF MayCollapse, Looked
  <2> QED
    BY <2>1, <1>2, <1>3 DEF MayCollapse
<1>9. Marked' => AboveRefill' /\ (Before \/ After)'
  BY <1>3, <1>7, <1>8, MarksStay
<1> QED
  BY <1>3, <1>5, <1>6, <1>9 DEF MarksInv

\* The schema only grows, and the opener stays where it is or ends.
LEMMA GrowInv ==
    ASSUME MarksInv, NEW p \in Opener, NEW place,
           Goto(p, place) \/ UNCHANGED pc,
           place \notin Rung, schema \subseteq schema',
           version' = version \/ version' = 23,
           UNCHANGED <<home, receipts, policies, sync, begun, cur, seen>>,
           next' = next
    PROVE  MarksInv'
<1>1. pc' = [q \in Opener |-> pc'[q]] /\ \A q \in Opener : pc'[q] \in {pc[q], place}
  BY DEF Goto, MarksInv, LadderTypeOK
<1>2. LadderTypeOK'
  BY <1>1 DEF MarksInv, LadderTypeOK
<1>3. NotesTypeOK'
  BY DEF MarksInv, NotesTypeOK
<1>4. Marked => AboveRefill'
  BY <1>1 DEF MarksInv, AboveRefill, LadderTypeOK
<1>5. \A q \in Opener : MayCollapse(q)' => MayCollapse(q)
  <2>1. place \notin Looked /\ place \notin {"columns", "adding"}
    BY DEF Looked, Rung
  <2> QED
    BY <1>1, <2>1 DEF MayCollapse
<1>6. Marked' => AboveRefill' /\ (Before \/ After)'
  BY <1>4, <1>5, MarksStay
<1> QED
  BY <1>2, <1>3, <1>6 DEF MarksInv

LEMMA ServeInv ==
    ASSUME MarksInv, NEW p \in Opener, InitialiseFresh(p) \/ Extend(p) PROVE MarksInv'
<1>1. /\ schema \subseteq schema'
      /\ version' = version \/ version' = 23
      /\ UNCHANGED <<home, receipts, policies, sync, begun, cur, seen, next>>
  BY DEF InitialiseFresh, Extend, counters, SchemaVersion
<1>2. \E place \in {"fresh_bump", "opened"} : Goto(p, place) \/ UNCHANGED pc
  BY DEF InitialiseFresh, Extend
<1>3. \A place \in {"fresh_bump", "opened"} : place \notin Rung
  BY DEF Rung
<1> QED
  BY <1>1, <1>2, <1>3, GrowInv

\* A statement of a later script adds to the schema and moves no row.
LEMMA AdditiveStatement ==
    ASSUME NEW s, s.op \in Additive
    PROVE  schema \subseteq SchemaAfter(s) /\ HomeAfter(s) = home
<1>1. schema \subseteq SchemaAfter(s)
  BY DEF SchemaAfter, Additive
<1>2. HomeAfter(s) = home
  BY DEF HomeAfter, Additive
<1> QED
  BY <1>1, <1>2

LEMMA StatementInv == ASSUME MarksInv, NEW p \in Opener, Statement(p) PROVE MarksInv'
<1> DEFINE s == Script(cur[p] + 1)[next[p]]
<1>1. pc[p] = "script" /\ pc[p] \in Rung /\ cur[p] \in 1 .. 22
  BY DEF Statement, Rung, MarksInv, LadderTypeOK
<1>2. UNCHANGED <<version, receipts, policies, sync, cur, seen, begun>>
  BY DEF Statement, counters
<1>3. pc' = [q \in Opener |-> pc'[q]] /\ \A q \in Opener : pc'[q] \in {pc[q], "failed"}
  BY DEF Statement, Goto, MarksInv, LadderTypeOK
<1>4. next' \in [Opener -> Nat \ {0}]
  BY DEF Statement, MarksInv, LadderTypeOK
<1>5. "failed" \notin Rung
  BY DEF Rung
<1>6. LadderTypeOK'
  BY <1>2, <1>3, <1>4, <1>5 DEF MarksInv, LadderTypeOK
<1>7. NotesTypeOK'
  BY <1>2 DEF MarksInv, NotesTypeOK
<1>8. Marked => schema \subseteq schema' /\ home' = home
  <2> SUFFICES ASSUME Marked PROVE schema \subseteq schema' /\ home' = home
    OBVIOUS
  <2>1. cur[p] \in 4 .. 22
    BY <1>1 DEF MarksInv, AboveRefill
  <2>2. next[p] <= Len(Script(cur[p] + 1)) /\ next[p] \in Nat \ {0}
    BY DEF Statement, MarksInv, LadderTypeOK
  <2>3. Script(cur[p] + 1) \in LaterScripts
    BY <2>1, LaterScriptsListed
  <2>4. Len(Script(cur[p] + 1)) \in Nat
    BY <2>3, LaterScriptsLength
  <2>5. s.op \in Additive
    <3>1. cur[p] + 1 \in 3 .. 23
      BY <2>1
    <3>2. next[p] \in 1 .. Len(Script(cur[p] + 1))
      BY <2>2, <2>4
    <3> HIDE DEF s
    <3>3. \A i \in 1 .. Len(Script(cur[p] + 1)) : Script(cur[p] + 1)[i].op \in Additive
      BY <3>1, LaterScriptsAdd
    <3> QED
      BY <3>2, <3>3 DEF s
  <2>6. schema \subseteq SchemaAfter(s) /\ HomeAfter(s) = home
    BY <2>5, AdditiveStatement
  <2> QED
    BY <2>6 DEF Statement
<1>9. Marked' => AboveRefill' /\ (Before \/ After)'
  <2> SUFFICES ASSUME Marked PROVE AboveRefill' /\ (Before \/ After)'
    BY <1>2 DEF Marked
  <2>1. AboveRefill'
    BY <1>2, <1>3, <1>5, <1>8 DEF MarksInv, AboveRefill
  <2>2. \A q \in Opener : MayCollapse(q)' => MayCollapse(q)
    <3>1. "failed" \notin Looked
      BY DEF Looked, Rung
    <3> QED
      BY <1>2, <1>3, <3>1 DEF MayCollapse
  <2> QED
    <3>1. schema \subseteq schema' /\ home' = home /\ Marked'
      BY <1>2, <1>8 DEF Marked
    <3> QED
      BY <1>2, <2>1, <2>2, <3>1, MarksStay
<1> QED
  BY <1>2, <1>6, <1>7, <1>9 DEF MarksInv

\* The next rung, with the marks where they are.
LEMMA ClimbKeeps ==
    ASSUME MarksInv, NEW p \in Opener, NEW place \in {"extend", "script"},
           pc[p] \in Rung, cur[p] \in 1 .. 22, place = "script" => cur[p] # 22,
           pc' = [q \in Opener |-> IF q = p THEN place ELSE pc[q]],
           cur' = [q \in Opener |-> IF q = p THEN cur[p] + 1 ELSE cur[q]],
           next' = [q \in Opener |-> IF q = p THEN 1 ELSE next[q]],
           version' = cur[p] + 1,
           UNCHANGED <<schema, home, receipts, policies, sync, seen, begun>>
    PROVE  MarksInv'
<1>1. "extend" \notin Rung /\ place \notin Looked /\ place \notin {"columns", "adding"}
  BY DEF Rung, Looked
<1>2. LadderTypeOK'
  BY <1>1 DEF MarksInv, LadderTypeOK
<1>3. NotesTypeOK'
  BY DEF MarksInv, NotesTypeOK
<1>4. Marked => AboveRefill'
  BY <1>1 DEF MarksInv, AboveRefill
<1>5. \A q \in Opener : MayCollapse(q)' => MayCollapse(q)
  BY <1>1 DEF MayCollapse
<1>6. Marked' => AboveRefill' /\ (Before \/ After)'
  BY <1>4, <1>5, MarksStay
<1> QED
  BY <1>2, <1>3, <1>6 DEF MarksInv

LEMMA BumpInv == ASSUME MarksInv, NEW p \in Opener, Bump(p) PROVE MarksInv'
<1>1. pc[p] = "bump" /\ pc[p] \in Rung /\ cur[p] \in 1 .. 22
  BY DEF Bump, Rung, MarksInv, LadderTypeOK
<1>2. PICK place \in {"extend", "script"} :
          Goto(p, place) /\ (place = "script" => cur[p] # 22)
  BY <1>1 DEF Bump, ClimbOn, SchemaVersion
<1>3. /\ version' = cur[p] + 1
      /\ cur' = [q \in Opener |-> IF q = p THEN cur[p] + 1 ELSE cur[q]]
      /\ next' = [q \in Opener |-> IF q = p THEN 1 ELSE next[q]]
      /\ UNCHANGED <<schema, home, receipts, policies, sync, seen, begun>>
  BY DEF Bump, ClimbOn, counters, MarksInv, LadderTypeOK
<1>4. pc' = [q \in Opener |-> IF q = p THEN place ELSE pc[q]]
  BY <1>2 DEF Goto, MarksInv, LadderTypeOK
<1> QED
  BY <1>1, <1>2, <1>3, <1>4, ClimbKeeps

LEMMA LookInv ==
    ASSUME MarksInv, NEW p \in Opener, LookForLegacy(p) \/ LookForColumns(p)
    PROVE  MarksInv'
<1>1. PICK place \in {"columns", "expect", "adding"} :
          Goto(p, place) /\ (LookForColumns(p) => place = "adding")
  BY DEF LookForLegacy, LookForColumns
<1>2. pc' = [q \in Opener |-> IF q = p THEN place ELSE pc[q]]
  BY <1>1 DEF Goto, MarksInv, LadderTypeOK
<1>3. pc[p] \in {"legacy", "columns"} /\ pc[p] \in Rung
  BY DEF LookForLegacy, LookForColumns, Rung
<1>4. UNCHANGED <<version, schema, home, receipts, policies, sync, begun, cur>>
  BY DEF LookForLegacy, LookForColumns, database, counters
<1>5. next' \in [Opener -> Nat \ {0}]
  BY DEF LookForLegacy, LookForColumns, MarksInv, LadderTypeOK
<1>6. LadderTypeOK'
  BY <1>2, <1>3, <1>4, <1>5 DEF MarksInv, LadderTypeOK
<1>7. PICK columns, tables :
          /\ seen' = [q \in Opener |-> IF q = p
                 THEN [columns |-> columns, tables |-> tables, version |-> seen[p].version]
                 ELSE seen[q]]
          /\ \/ tables = {t \in Legacy : Exists(t)}
             \/ LookForColumns(p) /\ tables = seen[p].tables
  <2>1. CASE LookForLegacy(p)
    <3>1. PICK found : found = {t \in Legacy : Exists(t)}
      OBVIOUS
    <3>2. seen' = [seen EXCEPT ![p].tables = {t \in Legacy : Exists(t)}]
      BY <2>1, Zenon DEF LookForLegacy
    <3>3. seen' = [seen EXCEPT ![p].tables = found]
      BY <3>1, <3>2, Zenon
    <3>4. [seen[p] EXCEPT !.tables = found]
            = [columns |-> seen[p].columns, tables |-> found,
               version |-> seen[p].version]
      BY DEF MarksInv, NotesTypeOK
    <3>5. seen' = [q \in Opener |-> IF q = p
             THEN [seen[p] EXCEPT !.tables = found] ELSE seen[q]]
      BY <3>3 DEF MarksInv, NotesTypeOK
    <3> WITNESS seen[p].columns, found
    <3> QED
      BY <3>1, <3>4, <3>5
  <2>2. CASE LookForColumns(p)
    <3>1. [seen[p] EXCEPT !.columns = Columns(Hooked(p))]
            = [columns |-> Columns(Hooked(p)), tables |-> seen[p].tables,
               version |-> seen[p].version]
      BY DEF MarksInv, NotesTypeOK
    <3>2. seen' = [q \in Opener |-> IF q = p
             THEN [seen[p] EXCEPT !.columns = Columns(Hooked(p))] ELSE seen[q]]
      BY <2>2 DEF LookForColumns, MarksInv, NotesTypeOK
    <3> WITNESS Columns(Hooked(p)), seen[p].tables
    <3> QED
      BY <2>2, <3>1, <3>2
  <2> QED
    BY <2>1, <2>2
<1>8. NotesTypeOK'
  BY <1>4, <1>7 DEF MarksInv, NotesTypeOK
<1>9. \A q \in Opener : MayCollapse(q)' =>
            \/ MayCollapse(q) /\ seen'[q].tables = seen[q].tables
            \/ \A t \in Legacy : Exists(t) => t \in seen'[q].tables
  <2>1. ASSUME LookForColumns(p), MayCollapse(p)' PROVE MayCollapse(p)
    <3>1. pc[p] = "columns" /\ pc'[p] = "adding"
      BY <1>1, <1>2, <2>1 DEF LookForColumns
    <3>2. "adding" \notin Looked
      BY DEF Looked
    <3> QED
      BY <1>4, <2>1, <3>1, <3>2 DEF MayCollapse
  <2> QED
    BY <1>2, <1>4, <1>7, <2>1 DEF MayCollapse
<1>10. Marked => AboveRefill'
  BY <1>2, <1>3, <1>4 DEF MarksInv, AboveRefill
<1>11. Marked' => AboveRefill' /\ (Before \/ After)'
  BY <1>4, <1>9, <1>10, MarksStay
<1> QED
  BY <1>4, <1>6, <1>8, <1>11 DEF MarksInv

LEMMA AddColumnInv == ASSUME MarksInv, NEW p \in Opener, AddColumn(p) PROVE MarksInv'
<1>1. pc' = [q \in Opener |-> pc'[q]] /\ \A q \in Opener : pc'[q] \in {pc[q], "failed"}
  BY DEF AddColumn, Goto, MarksInv, LadderTypeOK
<1>2. UNCHANGED <<version, home, receipts, policies, sync, cur, seen, begun>>
  BY DEF AddColumn, counters
<1>3. schema \subseteq schema'
  BY DEF AddColumn, SchemaAfter, Add
<1>4. next' \in [Opener -> Nat \ {0}]
  BY DEF AddColumn, MarksInv, LadderTypeOK
<1>5. "failed" \notin Rung /\ "failed" \notin Looked
  BY DEF Rung, Looked
<1>6. LadderTypeOK'
  BY <1>1, <1>2, <1>4, <1>5 DEF MarksInv, LadderTypeOK
<1>7. NotesTypeOK'
  BY <1>2 DEF MarksInv, NotesTypeOK
<1>8. Marked => AboveRefill'
  BY <1>1, <1>2, <1>5 DEF MarksInv, AboveRefill
<1>9. \A q \in Opener : MayCollapse(q)' => MayCollapse(q)
  BY <1>1, <1>2, <1>5 DEF MayCollapse
<1>10. Marked' => AboveRefill' /\ (Before \/ After)'
  BY <1>2, <1>3, <1>8, <1>9, MarksStay
<1> QED
  BY <1>2, <1>6, <1>7, <1>10 DEF MarksInv

LEMMA CollapseInv == ASSUME MarksInv, NEW p \in Opener, Collapse(p) PROVE MarksInv'
<1>1. pc[p] = "collapse" /\ pc[p] \in Rung /\ MayCollapse(p)
  BY DEF Collapse, Rung, Looked, MayCollapse
<1>2. cur[p] \in 1 .. 22
  BY <1>1 DEF MarksInv, LadderTypeOK
<1>3. CASE Goto(p, "failed") /\ UNCHANGED <<version, schema, receipts, policies, sync, cur, next>>
  <2>1. "failed" \notin Rung /\ "failed" \notin Looked
    BY DEF Rung, Looked
  <2>2. UNCHANGED <<version, schema, home, receipts, policies, sync, begun, cur, next, seen>>
    BY <1>3 DEF Collapse, counters
  <2>3. NotesTypeOK'
    BY <2>2 DEF MarksInv, NotesTypeOK
  <2> QED
    BY <1>3, <2>1, <2>2, <2>3, MoveInv
<1>4. CASE /\ sync' = [r \in Row |-> Collapsed(r, seen[p].tables)]
           /\ receipts' = {} /\ policies' = {}
           /\ version' = 14
           /\ ClimbOn(p)
  <2>1. UNCHANGED <<home, seen, begun>>
    BY DEF Collapse, counters
  <2>2. PICK place \in {"extend", "script"} :
            Goto(p, place) /\ (place = "script" => cur[p] # 22)
    BY <1>2, <1>4 DEF ClimbOn, SchemaVersion
  <2>3. pc' = [q \in Opener |-> IF q = p THEN place ELSE pc[q]]
    BY <2>2 DEF Goto, MarksInv, LadderTypeOK
  <2>4. /\ cur' = [q \in Opener |-> IF q = p THEN cur[p] + 1 ELSE cur[q]]
        /\ next' = [q \in Opener |-> IF q = p THEN 1 ELSE next[q]]
    BY <1>4 DEF ClimbOn, MarksInv, LadderTypeOK
  <2>5. "extend" \notin Rung
    BY DEF Rung
  <2>6. LadderTypeOK'
    BY <1>1, <1>2, <1>4, <2>2, <2>3, <2>4, <2>5 DEF MarksInv, LadderTypeOK
  <2>7. NotesTypeOK'
    BY <1>4, <2>1 DEF MarksInv, NotesTypeOK
  <2>8. Marked => AboveRefill'
    BY <1>1, <1>2, <1>4, <2>1, <2>2, <2>3, <2>4, <2>5 DEF MarksInv, AboveRefill
  <2>9. Marked => After'
    <3> SUFFICES ASSUME Marked PROVE After'
      OBVIOUS
    <3>1. \A r \in Row : sync'[r] = Collapsed(r, seen[p].tables) /\ "activity_log" \in home[r]
      BY <1>4 DEF MarksInv, AboveRefill
    <3>2. CASE After
      <4>1. \A r \in Row : sync'[r] = sync[r]
        BY <3>1, <3>2 DEF After, Collapsed
      <4> QED
        BY <1>4, <2>1, <3>2, <4>1 DEF MarksInv, After
    <3>3. CASE Before
      <4>1. \A r \in begun.receipts : sync'[r] = "synced"
        BY <1>1, <3>1, <3>3 DEF MarksInv, Before, Noticed, Collapsed
      <4>2. \A r \in begun.policies \ begun.receipts : sync'[r] = "policy"
        BY <1>1, <3>1, <3>3 DEF MarksInv, Before, Noticed, Collapsed
      <4> QED
        BY <1>4, <2>1, <4>1, <4>2 DEF After
    <3> QED
      BY <3>2, <3>3 DEF MarksInv
  <2> QED
    BY <2>1, <2>6, <2>7, <2>8, <2>9 DEF MarksInv, Marked
<1> QED
  BY <1>3, <1>4 DEF Collapse

\* The served database: a receipt on a row is final, a decision may be settled.
LEMMA RecordInv ==
    ASSUME MarksInv, NEW p \in Opener, NEW r \in Row, RecordDisposition(p, r)
    PROVE  MarksInv'
<1>1. /\ sync[r] \in {"none", "policy"}
      /\ sync' = [s \in Row |-> IF s = r THEN "recorded" ELSE sync[s]]
      /\ UNCHANGED <<version, schema, home, receipts, policies, begun, pc, cur, next, seen>>
  BY DEF RecordDisposition, MarksInv, NotesTypeOK, local, counters
<1>2. LadderTypeOK' /\ NotesTypeOK'
  BY <1>1 DEF MarksInv, LadderTypeOK, NotesTypeOK
<1>3. Marked => AboveRefill'
  BY <1>1 DEF MarksInv, AboveRefill
<1>4. Before => Before'
  BY <1>1 DEF Before, Noticed, MayCollapse, Exists
<1>5. After => After'
  BY <1>1 DEF MarksInv, After
<1> QED
  BY <1>1, <1>2, <1>3, <1>4, <1>5 DEF MarksInv, Marked

LEMMA SameInv ==
    ASSUME MarksInv,
           UNCHANGED <<version, schema, home, receipts, policies, sync, begun, pc, cur, next, seen>>
    PROVE  MarksInv'
<1>1. LadderTypeOK' /\ NotesTypeOK'
  BY DEF MarksInv, LadderTypeOK, NotesTypeOK
<1>2. (Before <=> Before') /\ (After <=> After') /\ (AboveRefill <=> AboveRefill')
  BY DEF Before, After, AboveRefill, Noticed, MayCollapse, Exists
<1> QED
  BY <1>1, <1>2 DEF MarksInv, Marked

LEMMA MarksNext == ASSUME MarksInv, [Next]_vars PROVE MarksInv'
<1>1. CASE UNCHANGED vars
  BY <1>1, SameInv DEF vars, database, local, counters
<1>2. ASSUME NEW p \in Opener, Open(p) \/ Close(p) \/ Crash(p) PROVE MarksInv'
  BY <1>2, OpenInv, RestInv
<1>3. ASSUME NEW p \in Opener, Climb(p) PROVE MarksInv'
  BY <1>3, ServeInv, StatementInv, TurnInv, BumpInv, LookInv, AddColumnInv, CollapseInv, BackupInv
     DEF Climb
<1>4. ASSUME NEW p \in Opener, NEW r \in Row, RecordDisposition(p, r) PROVE MarksInv'
  BY <1>4, RecordInv
<1>5. ASSUME NEW p \in Opener, NEW t \in DOMAIN trust, Promote(p, t) PROVE MarksInv'
  BY <1>5, SameInv DEF Promote, local, counters
<1> QED
  BY <1>1, <1>2, <1>3, <1>4, <1>5 DEF Next

(***************************************************************************)
(* Theorems.                                                               *)
(***************************************************************************)
\* The inductive invariant of the migration: before the collapse the marks are
\* in their tables, which whoever may collapse has seen; after it on the rows.
THEOREM MarksInvariant == Spec => []MarksInv
<1>1. Init => MarksInv
  BY MarksInit
<1>2. MarksInv /\ [Next]_vars => MarksInv'
  BY MarksNext
<1> QED
  BY <1>1, <1>2, PTL DEF Spec

\* The collapse loses no receipt and no policy decision, however many openers
\* run ensure_schema, are refused, killed and started again.
THEOREM CollapseLosesNothing == Spec => []MarksAreKept
<1>1. MarksInv => MarksAreKept
  <2> SUFFICES ASSUME MarksInv PROVE MarksAreKept
    OBVIOUS
  <2>1. CASE Marked
    BY <2>1 DEF MarksInv, Before, After, MarksAreKept
  <2>2. CASE ~Marked
    BY <2>2 DEF Marked, MarksAreKept
  <2> QED
    BY <2>1, <2>2
<1> QED
  BY <1>1, MarksInvariant, PTL
(***************************************************************************)
(* Openers that repeat what others have done.                              *)
(***************************************************************************)
OldLog == "activity_log_v1"
TrustColumn == <<"pending_handoffs", "source_trust">>

\* The opener has put activity_log aside and not yet dropped the old one.
Shifting(p) == pc[p] = "script" /\ cur[p] = 1 /\ next[p] \in 2 .. 4

\* The opener has added the trust columns and not yet left the rung.
Labelling(p) ==
    cur[p] = 6 /\ (pc[p] = "bump" \/ (pc[p] = "script" /\ next[p] # 1))

PastLabels(p) == pc[p] \in {"extend", "opened"} \/ (pc[p] \in Rung /\ cur[p] >= 7)

\* Nobody is through the rung that labels the rows, so nobody has promoted one.
Unlabelled ==
    /\ version <= 6
    /\ \A p \in Opener : ~PastLabels(p)
    /\ \A t \in DOMAIN trust : trust[t] # "operator"

HooksInv == \A p \in Opener : pc[p] \in Rung \ {"script", "bump"} => cur[p] \in {13, 20}

\* The table that is put aside lets one opener at a time move the rows.
RowsInv ==
    /\ home = [r \in Row |-> home[r]]
    /\ \A r \in Row : home[r] \subseteq {"activity_log", OldLog}
    /\ begun.version > 0 => \A r \in Row : home[r] # {}
    /\ \A p \in Opener : Shifting(p) =>
          /\ Exists(OldLog)
          /\ \A q \in Opener : Shifting(q) => q = p
          /\ \A r \in Row : home[r] # {} =>
                (IF next[p] = 4 THEN "activity_log" ELSE OldLog) \in home[r]

\* The trust column can be added once, so one opener labels, before anybody serves.
LabelsInv ==
    /\ trust = [t \in DOMAIN trust |-> trust[t]]
    /\ begun.version \in 0 .. 24
    /\ begun.version = 0 => version \in {0, 23} /\ \A p \in Opener : pc[p] \notin Rung
    /\ begun.version # 0 =>
          /\ version # 0 /\ \A p \in Opener : pc[p] \notin {"fresh", "fresh_bump"}
          /\ TrustColumn \notin schema =>
                Unlabelled /\ \A p \in Opener : ~Labelling(p)
          /\ \A p \in Opener : Labelling(p) =>
                Unlabelled /\ \A q \in Opener : Labelling(q) => q = p

LateInv == MarksInv /\ HooksInv /\ RowsInv /\ LabelsInv

LEMMA TrustColumnThere == \A v \in 7 .. 24 : TrustColumn \in SchemaAt(v)
<1>1. Script(7) = V6_TO_V7
  BY DEF Script, Ladder
<1>2. 1 \in DOMAIN V6_TO_V7 /\ V6_TO_V7[1] = Add("pending_handoffs", "source_trust")
  BY DEF V6_TO_V7
<1>3. TrustColumn \in Created(Script(7))
  BY <1>1, <1>2 DEF Created, Add, TrustColumn
<1>4. ASSUME NEW v \in 7 .. 24 PROVE TrustColumn \in SchemaAt(v)
  <2>1. TrustColumn \notin {<<t, "id">> : t \in {t \in Legacy : v >= 14}}
    BY DEF TrustColumn
  <2> QED
    BY <1>3, <2>1 DEF SchemaAt, SchemaVersion
<1> QED
  BY <1>4

LEMMA LateInit == ASSUME Init PROVE LateInv
<1>1. MarksInv
  BY MarksInit
<1>2. \A p \in Opener : pc[p] = "closed"
  BY DEF Init
<1>3. "closed" \notin Rung
  BY DEF Rung
<1>4. begun.version \in 0 .. 24 /\ version = begun.version
  BY MigrationAssumption DEF Init, MigrationAssumption, SchemaVersion
<1>5. HooksInv
  BY <1>2, <1>3 DEF HooksInv
<1>6. RowsInv
  BY <1>2, <1>4 DEF Init, RowsInv, Shifting
<1>7. \A p \in Opener : ~PastLabels(p) /\ ~Labelling(p)
  BY <1>2, <1>3 DEF PastLabels, Labelling
<1>8. trust = [t \in DOMAIN trust |-> trust[t]] /\ \A t \in DOMAIN trust : trust[t] # "operator"
  BY DEF Init
<1>9. ASSUME begun.version # 0, TrustColumn \notin schema PROVE version <= 6
  BY <1>4, <1>9, TrustColumnThere DEF Init
<1>10. LabelsInv
  BY <1>2, <1>3, <1>4, <1>7, <1>8, <1>9 DEF LabelsInv, Unlabelled
<1> QED
  BY <1>1, <1>5, <1>6, <1>10 DEF LateInv

\* Steps that move no row and put no opener among those that do.
LEMMA RowsFrame ==
    ASSUME RowsInv, home' = home, begun' = begun, Exists(OldLog) => Exists(OldLog)',
           \A q \in Opener : Shifting(q)' => Shifting(q) /\ next'[q] = next[q]
    PROVE  RowsInv'
BY DEF RowsInv

\* Steps that promote nothing and bring nobody to the labels or past them.
LEMMA LabelsFrame ==
    ASSUME LabelsInv, begun' = begun, trust' = trust, version' = version,
           TrustColumn \in schema => TrustColumn \in schema',
           \A q \in Opener : /\ Labelling(q)' => Labelling(q)
                             /\ PastLabels(q)' => PastLabels(q)
                             /\ pc'[q] \in Rung => pc[q] \in Rung
                             /\ pc'[q] \in {"fresh", "fresh_bump"} => pc[q] \in {"fresh", "fresh_bump"}
    PROVE  LabelsInv'
<1>1. Unlabelled => Unlabelled'
  BY DEF Unlabelled
<1>2. begun.version = 0 => \A q \in Opener : pc'[q] \notin Rung
  BY DEF LabelsInv
<1>3. begun.version # 0 => \A q \in Opener : pc'[q] \notin {"fresh", "fresh_bump"}
  BY DEF LabelsInv
<1> QED
  BY <1>1, <1>2, <1>3 DEF LabelsInv

\* Columns of tables that no script moves.
Fixed == {<<OldLog, "id">>, TrustColumn}

\* One opener moves on, without changing a row, a label or the version.
LEMMA QuietStep ==
    ASSUME LateInv, NEW p \in Opener, NEW place, Goto(p, place),
           UNCHANGED <<home, trust, version, cur, begun>>,
           \A c \in Fixed : c \in schema => c \in schema',
           \A q \in Opener : q # p => next'[q] = next[q],
           place = "script" => pc[p] = "script" /\ next'[p] = next[p],
           place = "bump" => Labelling(p) \/ cur[p] # 6,
           place \in Rung => pc[p] \in Rung,
           place \in Rung \ {"script", "bump"} => cur[p] \in {13, 20},
           place \in {"extend", "opened"} => PastLabels(p),
           place \in {"fresh", "fresh_bump"} => pc[p] \in {"fresh", "fresh_bump"}
    PROVE  HooksInv' /\ RowsInv' /\ LabelsInv'
<1>1. pc' = [q \in Opener |-> IF q = p THEN place ELSE pc[q]]
  BY DEF Goto, LateInv, MarksInv, LadderTypeOK
<1>2. HooksInv'
  BY <1>1 DEF LateInv, HooksInv
<1>3. \A q \in Opener : Shifting(q)' => Shifting(q) /\ next'[q] = next[q]
  BY <1>1 DEF Shifting
<1>4. RowsInv'
  BY <1>3, RowsFrame DEF LateInv, Exists, Fixed
<1>5. \A q \in Opener : Labelling(q)' => Labelling(q)
  BY <1>1 DEF Labelling
<1>6. \A q \in Opener : PastLabels(q)' => PastLabels(q)
  BY <1>1 DEF PastLabels
<1>7. LabelsInv'
  BY <1>1, <1>5, <1>6, LabelsFrame DEF LateInv, Fixed
<1> QED
  BY <1>2, <1>4, <1>7

LEMMA LateMoves ==
    ASSUME LateInv, NEW p \in Opener,
           \/ EndScript(p) \/ EndColumns(p) \/ LookForLegacy(p) \/ LookForColumns(p)
           \/ AddColumn(p) \/ ExpectVersion(p) \/ FindBackup(p) \/ ClearTemporaries(p)
           \/ CopyDatabase(p) \/ WriteManifest(p) \/ ValidateCopy(p) \/ PlaceBackup(p)
    PROVE  HooksInv' /\ RowsInv' /\ LabelsInv'
<1>1. UNCHANGED <<home, trust, version, cur, begun>>
  BY DEF EndScript, EndColumns, LookForLegacy, LookForColumns, AddColumn, ExpectVersion,
         FindBackup, ClearTemporaries, CopyDatabase, WriteManifest, ValidateCopy, PlaceBackup,
         database, counters
<1>2. \A c \in Fixed : c \in schema => c \in schema'
  BY DEF EndScript, EndColumns, LookForLegacy, LookForColumns, AddColumn, ExpectVersion,
         FindBackup, ClearTemporaries, CopyDatabase, WriteManifest, ValidateCopy, PlaceBackup,
         database, SchemaAfter, Add
<1>3. \A q \in Opener : q # p => next'[q] = next[q]
  BY DEF EndScript, EndColumns, LookForLegacy, LookForColumns, AddColumn, ExpectVersion,
         FindBackup, ClearTemporaries, CopyDatabase, WriteManifest, ValidateCopy, PlaceBackup,
         LateInv, MarksInv, LadderTypeOK
<1>4. pc[p] \in Rung /\ cur[p] \in 1 .. 22
  BY DEF EndScript, EndColumns, LookForLegacy, LookForColumns, AddColumn, ExpectVersion,
         FindBackup, ClearTemporaries, CopyDatabase, WriteManifest, ValidateCopy, PlaceBackup,
         Rung, LateInv, MarksInv, LadderTypeOK
<1>5. CASE EndScript(p)
  <2> DEFINE turn == CASE cur[p] + 1 = 14 -> "legacy"
                       [] cur[p] + 1 = 21 -> "columns"
                       [] OTHER -> "bump"
  <2>4. Goto(p, turn)
    BY <1>5, Zenon DEF EndScript
  <2>5. turn \in {"legacy", "columns", "bump"} /\ (turn # "bump" => cur[p] \in {13, 20})
    BY <1>4
  <2> HIDE DEF turn
  <2>1. PICK place \in {"legacy", "columns", "bump"} :
           /\ Goto(p, place)
           /\ place # "bump" => cur[p] \in {13, 20}
    BY <2>4, <2>5
  <2>2. cur[p] = 6 => next[p] # 1
    <3>1. Script(7) = V6_TO_V7 /\ Len(V6_TO_V7) = 6
      BY DEF Script, Ladder, V6_TO_V7
    <3>2. next[p] > Len(Script(cur[p] + 1))
      BY <1>5 DEF EndScript
    <3>3. cur[p] = 6 => Script(cur[p] + 1) = V6_TO_V7
      BY <3>1
    <3>4. next[p] \in Nat
      BY DEF LateInv, MarksInv, LadderTypeOK
    <3>5. cur[p] = 6 => Len(Script(cur[p] + 1)) = 6
      BY <3>1, <3>3
    <3>6. cur[p] = 6 => next[p] > 6
      BY <3>2, <3>5
    <3> QED
      BY <3>4, <3>6
  <2>3. place = "bump" => Labelling(p) \/ cur[p] # 6
    BY <1>5, <2>2 DEF EndScript, Labelling
  <2> QED
    BY <1>1, <1>2, <1>3, <1>4, <2>1, <2>3, QuietStep
<1>6. ASSUME ~EndScript(p) PROVE HooksInv' /\ RowsInv' /\ LabelsInv'
  <2>1. pc[p] \in Rung \ {"script", "bump"}
    BY <1>6 DEF EndScript, EndColumns, LookForLegacy, LookForColumns, AddColumn, ExpectVersion,
         FindBackup, ClearTemporaries, CopyDatabase, WriteManifest, ValidateCopy, PlaceBackup,
         Rung
  <2>2. cur[p] \in {13, 20}
    BY <2>1 DEF LateInv, HooksInv
  <2>3. \E place : Goto(p, place) /\ place \notin {"script", "extend", "opened", "fresh", "fresh_bump"}
    <3>1. CASE AddColumn(p)
      <4>1. pc[p] = "adding"
        BY <3>1 DEF AddColumn
      <4>2. CASE UNCHANGED pc
        <5>1. Goto(p, "adding")
          BY <4>1, <4>2 DEF Goto, LateInv, MarksInv, LadderTypeOK
        <5> QED
          BY <5>1
      <4> QED
        BY <3>1, <4>2 DEF AddColumn
    <3> QED
      BY <1>6, <3>1 DEF EndColumns, LookForLegacy, LookForColumns, ExpectVersion,
         FindBackup, ClearTemporaries, CopyDatabase, WriteManifest, ValidateCopy, PlaceBackup,
         Rename
  <2>4. PICK place : Goto(p, place) /\ place \notin {"script", "extend", "opened", "fresh", "fresh_bump"}
    BY <2>3
  <2> QED
    BY <1>1, <1>2, <1>3, <1>4, <2>2, <2>4, QuietStep
<1> QED
  BY <1>5, <1>6


LEMMA LateOpen ==
    ASSUME LateInv, NEW p \in Opener, Open(p) PROVE HooksInv' /\ RowsInv' /\ LabelsInv'
<1>1. UNCHANGED <<version, schema, home, trust, begun>>
  BY DEF Open, database
<1>2. PICK place \in {"failed", "fresh", "extend", "script"} :
          /\ Goto(p, place)
          /\ place = "script" => version \in 1 .. 22
          /\ place = "fresh" => version = 0
          /\ place = "extend" => version = 23
  BY DEF Open, LateInv, MarksInv, LadderTypeOK, SchemaVersion
<1>3. pc' = [q \in Opener |-> IF q = p THEN place ELSE pc[q]]
  BY <1>2 DEF Goto, LateInv, MarksInv, LadderTypeOK
<1>4. /\ cur' = [q \in Opener |-> IF q = p THEN version ELSE cur[q]]
      /\ next' = [q \in Opener |-> IF q = p THEN 1 ELSE next[q]]
  BY DEF Open, LateInv, MarksInv, LadderTypeOK
<1>5. place \in Rung => place = "script"
  BY DEF Rung
<1>6. HooksInv'
  BY <1>3, <1>4, <1>5 DEF LateInv, HooksInv
<1>7. \A q \in Opener : Shifting(q)' => Shifting(q) /\ next'[q] = next[q]
  BY <1>3, <1>4 DEF Shifting
<1>8. RowsInv'
  BY <1>1, <1>7, RowsFrame DEF LateInv, Exists
<1>9. \A q \in Opener : Labelling(q)' => Labelling(q)
  BY <1>2, <1>3, <1>4 DEF Labelling
<1>10. version <= 6 => \A q \in Opener : PastLabels(q)' => PastLabels(q)
  BY <1>2, <1>3, <1>4, <1>5 DEF PastLabels
<1>11. Unlabelled => Unlabelled'
  BY <1>1, <1>10 DEF Unlabelled
<1>12. begun.version = 0 => \A q \in Opener : pc'[q] \notin Rung
  BY <1>2, <1>3, <1>5 DEF LateInv, LabelsInv
<1>13. begun.version # 0 => \A q \in Opener : pc'[q] \notin {"fresh", "fresh_bump"}
  BY <1>2, <1>3 DEF LateInv, LabelsInv
<1>14. LabelsInv'
  BY <1>1, <1>9, <1>11, <1>12, <1>13 DEF LateInv, LabelsInv
<1> QED
  BY <1>6, <1>8, <1>14

\* The next rung.  Who leaves the labels is the only one who was there.
LEMMA LateClimb ==
    ASSUME LateInv, NEW p \in Opener, Bump(p) \/ (Collapse(p) /\ ~Goto(p, "failed"))
    PROVE  HooksInv' /\ RowsInv' /\ LabelsInv'
<1>1. /\ UNCHANGED <<home, trust, begun>> /\ ClimbOn(p)
      /\ version' = (IF pc[p] = "bump" THEN cur[p] + 1 ELSE 14)
      /\ pc[p] \in {"bump", "collapse"}
  BY DEF Bump, Collapse, counters
<1>2. \A c \in Fixed : c \in schema => c \in schema'
  BY DEF Bump, Collapse, Fixed, OldLog, TrustColumn, Legacy
<1>3. cur[p] \in 1 .. 22 /\ pc[p] \in Rung /\ (pc[p] = "collapse" => cur[p] \in {13, 20})
  BY <1>1 DEF Rung, LateInv, MarksInv, LadderTypeOK, HooksInv
<1>4. PICK place \in {"extend", "script"} :
            Goto(p, place) /\ (place = "extend" => cur[p] = 22)
  BY <1>1, <1>3 DEF ClimbOn, SchemaVersion
<1>5. pc' = [q \in Opener |-> IF q = p THEN place ELSE pc[q]]
  BY <1>4 DEF Goto, LateInv, MarksInv, LadderTypeOK
<1>6. /\ cur' = [q \in Opener |-> IF q = p THEN cur[p] + 1 ELSE cur[q]]
      /\ next' = [q \in Opener |-> IF q = p THEN 1 ELSE next[q]]
  BY <1>1 DEF ClimbOn, LateInv, MarksInv, LadderTypeOK
<1>7. "extend" \notin Rung
  BY DEF Rung
<1>8. HooksInv'
  BY <1>4, <1>5, <1>6, <1>7 DEF LateInv, HooksInv
<1>9. \A q \in Opener : Shifting(q)' => Shifting(q) /\ next'[q] = next[q]
  BY <1>5, <1>6 DEF Shifting
<1>10. RowsInv'
  BY <1>1, <1>2, <1>9, RowsFrame DEF LateInv, Exists, Fixed
<1>11. \A q \in Opener : Labelling(q)' => Labelling(q) /\ q # p
  BY <1>4, <1>5, <1>6 DEF Labelling
<1>12. ASSUME Unlabelled, ~Labelling(p) PROVE Unlabelled'
  <2>1. cur[p] <= 5
    <3>1. ~PastLabels(p)
      BY <1>12 DEF Unlabelled
    <3>2. cur[p] < 7
      BY <1>3, <3>1 DEF PastLabels
    <3>3. pc[p] = "bump" \/ cur[p] \in {13, 20}
      BY <1>1, <1>3
    <3>4. cur[p] # 6
      BY <1>12, <3>3 DEF Labelling
    <3> QED
      BY <1>3, <3>2, <3>4
  <2>2. version' <= 6
    BY <1>1, <1>3, <2>1
  <2>3. \A q \in Opener : PastLabels(q)' => PastLabels(q)
    BY <1>3, <1>4, <1>5, <1>6, <1>7, <2>1 DEF PastLabels
  <2> QED
    BY <1>1, <1>12, <2>2, <2>3 DEF Unlabelled
<1>13. begun.version # 0 /\ version' \in 1 .. 24
  BY <1>1, <1>3 DEF LateInv, LabelsInv
<1>14. LabelsInv'
  <2>1. \A q \in Opener : pc'[q] \notin {"fresh", "fresh_bump"}
    BY <1>5, <1>13 DEF LateInv, LabelsInv
  <2>2. ASSUME TrustColumn \notin schema' PROVE Unlabelled' /\ \A q \in Opener : ~Labelling(q)'
    BY <1>2, <1>11, <1>12, <1>13, <2>2 DEF LateInv, LabelsInv, Fixed
  <2>3. ASSUME NEW q \in Opener, Labelling(q)'
        PROVE  Unlabelled' /\ \A o \in Opener : Labelling(o)' => o = q
    BY <1>11, <1>12, <1>13, <2>3 DEF LateInv, LabelsInv
  <2> QED
    BY <1>1, <1>13, <2>1, <2>2, <2>3 DEF LateInv, LabelsInv
<1> QED
  BY <1>8, <1>10, <1>14


\* Only the script to version 7 labels rows.
LEMMA ScriptsLabelNothing ==
    \A v \in 2 .. 23 : v # 7 => \A i \in 1 .. Len(Script(v)) : Script(v)[i].column # "source_trust"
<1> DEFINE others == {V1_TO_V2, V2_TO_V3, V3_TO_V4, V4_TO_V5, V5_TO_V6, V7_TO_V8, V8_TO_V9,
       V9_TO_V10, DataOnly, V11_TO_V12, V12_TO_V13, V14_TO_V15, V15_TO_V16, V16_TO_V17,
       V17_TO_V18, V18_TO_V19, V19_TO_V20, V21_TO_V22, V22_TO_V23}
<1>4. \A i \in 1 .. Len(V1_TO_V2) : V1_TO_V2[i].column # "source_trust"
  BY SMT DEF V1_TO_V2, Create, Retire, Recreate, Refill, DropRetired
<1>5. \A s \in others \ {V1_TO_V2} : \A i \in 1 .. Len(s) : s[i].column # "source_trust"
  BY SMT DEF Create, Add, V2_TO_V3,
     V3_TO_V4, V4_TO_V5, V5_TO_V6, V7_TO_V8, V8_TO_V9, V9_TO_V10, DataOnly, V11_TO_V12,
     V12_TO_V13, V14_TO_V15, V15_TO_V16, V16_TO_V17, V17_TO_V18, V18_TO_V19, V19_TO_V20,
     V21_TO_V22, V22_TO_V23
<1>1. \A s \in others : \A i \in 1 .. Len(s) : s[i].column # "source_trust"
  BY <1>4, <1>5
<1>2. \A k \in 1 .. 22 : k # 6 => Ladder[k] \in others
  BY SMT DEF Ladder
<1> HIDE DEF others
<1>3. \A v \in 2 .. 23 : v # 7 => Script(v) \in others
  BY <1>2 DEF Script
<1> QED
  BY <1>1, <1>3

\* The script to version 2, statement by statement: rows move in the first four.
LEMMA FirstScript ==
    /\ Script(2) = V1_TO_V2 /\ Len(V1_TO_V2) = 11
    /\ V1_TO_V2[1] = Retire("activity_log") /\ V1_TO_V2[2] = Recreate("activity_log")
    /\ V1_TO_V2[3] = Refill("activity_log") /\ V1_TO_V2[4] = DropRetired("activity_log")
    /\ \A i \in 5 .. 11 : V1_TO_V2[i].op \in Additive \/ V1_TO_V2[i].table = "cost_records"
    /\ \A i \in 1 .. 11 : V1_TO_V2[i].op \in
           {"create", "retire", "recreate", "refill", "drop"}
<1>1. Script(2) = V1_TO_V2
  BY DEF Script, Ladder
<1> QED
  BY <1>1, SMT DEF V1_TO_V2, Create, Retire, Recreate, Refill, DropRetired, Additive


LEMMA ScriptsLength == \A v \in 2 .. 23 : Len(Script(v)) \in Nat
<1>1. Script(2) = V1_TO_V2 /\ Len(V1_TO_V2) = 11
  BY FirstScript
<1>2. \A v \in 3 .. 23 : Len(Script(v)) \in Nat
  BY LaterScriptsListed, LaterScriptsLength
<1> QED
  BY <1>1, <1>2

LEMMA LateStatementFails ==
    ASSUME LateInv, NEW p \in Opener, Statement(p), Goto(p, "failed"), UNCHANGED <<schema, home, trust, next>>
    PROVE  HooksInv' /\ RowsInv' /\ LabelsInv'
<1>1. UNCHANGED <<version, cur, begun>>
  BY DEF Statement, counters
<1>2. "failed" \notin Rung
  BY DEF Rung
<1> QED
  BY <1>1, <1>2, QuietStep

\* A statement that runs moves rows in the first script only, alone among openers.
LEMMA LateStatementRows ==
    ASSUME LateInv, NEW p \in Opener, Statement(p), UNCHANGED pc, cur[p] = 1,
           NEW s, s = V1_TO_V2[next[p]], CanRun(s),
           schema' = SchemaAfter(s), home' = HomeAfter(s),
           next' = [q \in Opener |-> IF q = p THEN next[p] + 1 ELSE next[q]]
    PROVE  RowsInv'
<1>1. UNCHANGED <<cur, begun>> /\ pc[p] = "script"
  BY DEF Statement, counters
<1>2. next[p] \in 1 .. 11
  <2>1. next[p] <= Len(Script(cur[p] + 1)) /\ next[p] \in Nat \ {0}
    BY DEF Statement, LateInv, MarksInv, LadderTypeOK
  <2>2. Len(Script(cur[p] + 1)) = 11
    <3>1. Script(cur[p] + 1) = V1_TO_V2
      BY FirstScript
    <3>2. Len(V1_TO_V2) = 11
      BY FirstScript
    <3> QED
      BY <3>1, <3>2, Zenon
  <2>3. next[p] <= 11
    BY <2>1, <2>2, Zenon
  <2> QED
    BY <2>1, <2>3
<1>3. \A q \in Opener : q # p => (Shifting(q)' <=> Shifting(q)) /\ next'[q] = next[q]
  BY <1>1 DEF Shifting
<1>4. Shifting(p) <=> next[p] \in 2 .. 4
  BY <1>1 DEF Shifting
<1>5. Shifting(p)' <=> next[p] \in 1 .. 3
  BY <1>1, <1>2 DEF Shifting
<1> HIDE DEF SchemaAfter
<1>6. CASE next[p] = 1
  <2>1. s.op = "retire" /\ s.table = "activity_log" /\ s.column = "id"
    BY <1>6, FirstScript DEF Retire
  <2>2. Exists("activity_log") /\ ~Exists(OldLog)
    BY <2>1 DEF CanRun, Retired, OldLog
  <2>3. Exists(OldLog)'
    BY <2>1, <2>2 DEF SchemaAfter, Moved, Retired, Exists, OldLog
  <2>4. \A r \in Row : home'[r] = {Moved("activity_log", t) : t \in home[r]}
    BY <2>1 DEF HomeAfter
  <2>5. \A r \in Row : home'[r] \subseteq {OldLog} /\ (home[r] # {} => OldLog \in home'[r])
    BY <2>4 DEF LateInv, RowsInv, Moved, Retired, OldLog
  <2>6. home' = [r \in Row |-> home'[r]]
    BY <2>1 DEF HomeAfter
  <2>7. \A q \in Opener : ~Shifting(q)
    BY <2>2 DEF LateInv, RowsInv
  <2>8. \A r \in Row : home'[r] # {} => OldLog \in home'[r]
    BY <2>5
  <2>9. begun.version > 0 => \A r \in Row : home'[r] # {}
    BY <2>5 DEF LateInv, RowsInv
  <2> QED
    BY <1>1, <1>3, <1>6, <2>3, <2>5, <2>6, <2>7, <2>8, <2>9 DEF RowsInv

<1>7. CASE next[p] \in 2 .. 4
  <2>1. /\ Exists(OldLog)
        /\ \A q \in Opener : Shifting(q) => q = p
        /\ \A r \in Row : home[r] # {} =>
              (IF next[p] = 4 THEN "activity_log" ELSE OldLog) \in home[r]
    BY <1>4, <1>7 DEF LateInv, RowsInv
  <2>2. \A q \in Opener : Shifting(q)' => q = p
    BY <1>3, <2>1
  <2>3. CASE next[p] = 2
    <3>1. s.op = "recreate"
      BY <2>3, FirstScript DEF Recreate
    <3>2. home' = home /\ Exists(OldLog)'
      BY <2>1, <3>1 DEF HomeAfter, SchemaAfter, Exists
    <3>3. next'[p] = 3
      BY <2>3
    <3> QED
      BY <1>1, <2>1, <2>2, <2>3, <3>2, <3>3 DEF LateInv, RowsInv
  <2>4. CASE next[p] = 3
    <3>1. s.op = "refill" /\ s.table = "activity_log"
      BY <2>4, FirstScript DEF Refill
    <3>2. Exists(OldLog)'
      BY <2>1, <3>1 DEF SchemaAfter, Exists
    <3>3. home' = [r \in Row |-> IF OldLog \in home[r] THEN home[r] \cup {"activity_log"} ELSE home[r]]
      BY <3>1 DEF HomeAfter, Retired, OldLog
    <3>4. next'[p] = 4
      BY <2>4
    <3>5. \A r \in Row : /\ home'[r] \subseteq {"activity_log", OldLog}
                         /\ home'[r] # {} => home[r] # {} /\ "activity_log" \in home'[r]
                         /\ home[r] # {} => home'[r] # {}
      BY <2>1, <2>4, <3>3 DEF LateInv, RowsInv
    <3>6. home' = [r \in Row |-> home'[r]]
      BY <3>3
    <3> QED
      BY <1>1, <2>2, <3>2, <3>4, <3>5, <3>6 DEF LateInv, RowsInv
  <2>5. CASE next[p] = 4
    <3>1. s.op = "drop" /\ s.table = "activity_log"
      BY <2>5, FirstScript DEF DropRetired
    <3>2. home' = [r \in Row |-> home[r] \ {OldLog}]
      BY <3>1 DEF HomeAfter, Retired, OldLog
    <3>3. \A q \in Opener : ~Shifting(q)'
      BY <1>5, <2>2, <2>5
    <3>4. \A r \in Row : /\ home'[r] \subseteq {"activity_log", OldLog}
                         /\ home[r] # {} => home'[r] # {}
      BY <2>1, <2>5, <3>2 DEF LateInv, RowsInv, OldLog
    <3> QED
      BY <1>1, <3>2, <3>3, <3>4 DEF LateInv, RowsInv
  <2> QED
    BY <1>7, <2>3, <2>4, <2>5
<1>8. CASE next[p] \in 5 .. 11
  <2>1. s.op \in Additive \/ s.table = "cost_records"
    BY <1>8, FirstScript
  <2>2. home' = home
    <3>1. CASE s.op \in Additive
      BY <3>1, AdditiveStatement
    <3>2. CASE s.table = "cost_records"
      <4>1. Retired(s.table) = "cost_records_v1"
        BY <3>2 DEF Retired
      <4>2. \A r \in Row : /\ {Moved(s.table, t) : t \in home[r]} = home[r]
                           /\ home[r] \ {Retired(s.table)} = home[r]
                           /\ Retired(s.table) \notin home[r]
        BY <3>2, <4>1 DEF LateInv, RowsInv, Moved, OldLog
      <4>3. HomeAfter(s) = [r \in Row |-> home[r]] \/ HomeAfter(s) = home
        BY <4>2 DEF HomeAfter
      <4> QED
        BY <4>3 DEF LateInv, RowsInv
    <3> QED
      BY <2>1, <3>1, <3>2
  <2>3. Exists(OldLog) => Exists(OldLog)'
    <3>1. CASE s.op \in Additive
      BY <3>1, AdditiveStatement DEF Exists
    <3>2. CASE s.table = "cost_records"
      BY <3>2 DEF SchemaAfter, Moved, Retired, Exists, OldLog
    <3> QED
      BY <2>1, <3>1, <3>2
  <2>4. \A q \in Opener : Shifting(q)' => Shifting(q) /\ next'[q] = next[q]
    BY <1>3, <1>5, <1>8
  <2> QED
    BY <1>1, <2>2, <2>3, <2>4, RowsFrame DEF LateInv
<1> QED
  BY <1>2, <1>6, <1>7, <1>8


LEMMA LateStatementRuns ==
    ASSUME LateInv, NEW p \in Opener, Statement(p), UNCHANGED pc,
           NEW s, s = Script(cur[p] + 1)[next[p]], CanRun(s),
           schema' = SchemaAfter(s), home' = HomeAfter(s), trust' = TrustAfter(s),
           next' = [q \in Opener |-> IF q = p THEN next[p] + 1 ELSE next[q]]
    PROVE  HooksInv' /\ RowsInv' /\ LabelsInv'
<1>1. UNCHANGED <<version, cur, begun>> /\ pc[p] = "script"
  BY DEF Statement, counters
<1>2. pc[p] \in Rung /\ cur[p] \in 1 .. 22 /\ next[p] \in Nat \ {0}
  BY <1>1 DEF Rung, LateInv, MarksInv, LadderTypeOK
<1>3. next[p] \in 1 .. Len(Script(cur[p] + 1))
  <2>1. next[p] <= Len(Script(cur[p] + 1))
    BY DEF Statement
  <2>2. Len(Script(cur[p] + 1)) \in Nat
    BY <1>2, ScriptsLength
  <2> QED
    BY <1>2, <2>1, <2>2
<1>4. HooksInv'
  BY <1>1 DEF LateInv, HooksInv
<1>5. cur[p] # 1 => s.op \in Additive
  <2> SUFFICES ASSUME cur[p] # 1 PROVE s.op \in Additive
    OBVIOUS
  <2>1. cur[p] + 1 \in 3 .. 23
    BY <1>2
  <2>2. \A i \in 1 .. Len(Script(cur[p] + 1)) : Script(cur[p] + 1)[i].op \in Additive
    BY <2>1, LaterScriptsAdd
  <2> QED
    BY <1>3, <2>2
<1>6. RowsInv'
  <2>1. CASE cur[p] = 1
    <3>1. s = V1_TO_V2[next[p]]
      BY <2>1, FirstScript
    <3> QED
      BY <2>1, <3>1, LateStatementRows
  <2>2. CASE cur[p] # 1
    <3>1. schema \subseteq schema' /\ home' = home
      BY <1>5, <2>2, AdditiveStatement
    <3>2. \A q \in Opener : Shifting(q)' => Shifting(q) /\ next'[q] = next[q]
      BY <1>1, <2>2 DEF Shifting
    <3> QED
      BY <1>1, <3>1, <3>2, RowsFrame DEF LateInv, Exists
  <2> QED
    BY <2>1, <2>2
<1>7. TrustColumn \in schema => TrustColumn \in schema'
  <2>1. CASE s.op \in Additive
    BY <2>1, AdditiveStatement
  <2>2. CASE cur[p] = 1
    <3>1. s.table \in {"activity_log", "cost_records"} \/ s.op \in Additive
      <4>1. s = V1_TO_V2[next[p]] /\ next[p] \in 1 .. 11
        <5>1. Script(cur[p] + 1) = V1_TO_V2 /\ Len(V1_TO_V2) = 11
          BY <2>2, FirstScript
        <5> QED
          BY <1>3, <5>1
      <4> QED
        BY <4>1, FirstScript DEF Retire, Recreate, Refill, DropRetired
    <3>2. CASE s.table \in {"activity_log", "cost_records"}
      BY <3>2 DEF SchemaAfter, Moved, Retired, TrustColumn
    <3> QED
      BY <2>1, <3>1, <3>2
  <2> QED
    BY <1>5, <2>1, <2>2
<1>8. begun.version # 0
  BY <1>2 DEF LateInv, LabelsInv
<1>9. trust' = [t \in DOMAIN trust |-> trust'[t]] /\ DOMAIN trust' = DOMAIN trust
  BY DEF TrustAfter
<1>10. \A t \in DOMAIN trust : trust'[t] # trust[t] => cur[p] = 6 /\ trust'[t] # "operator"
  <2>1. cur[p] # 6 => s.column # "source_trust"
    <3>1. ASSUME cur[p] # 6
          PROVE  \A i \in 1 .. Len(Script(cur[p] + 1)) : Script(cur[p] + 1)[i].column # "source_trust"
      <4>1. cur[p] + 1 \in 2 .. 23 /\ cur[p] + 1 # 7
        BY <1>2, <3>1
      <4> QED
        BY <4>1, ScriptsLabelNothing
    <3> QED
      BY <1>3, <3>1
  <2> QED
    BY <2>1 DEF TrustAfter
<1>11. Unlabelled => Unlabelled'
  <2>1. \A q \in Opener : PastLabels(q)' => PastLabels(q)
    BY <1>1 DEF PastLabels
  <2> QED
    BY <1>1, <1>9, <1>10, <2>1 DEF Unlabelled
<1>12. \A q \in Opener : q # p => (Labelling(q)' <=> Labelling(q))
  BY <1>1 DEF Labelling
<1>13. Labelling(p)' => cur[p] = 6
  BY <1>1 DEF Labelling
<1>14. ASSUME cur[p] = 6, ~Labelling(p)
       PROVE  TrustColumn \notin schema /\ TrustColumn \in schema'
  <2>1. next[p] = 1
    BY <1>1, <1>14 DEF Labelling
  <2>2. s = Add("pending_handoffs", "source_trust")
    <3>1. Script(7) = V6_TO_V7
      BY DEF Script, Ladder
    <3>2. V6_TO_V7[1] = Add("pending_handoffs", "source_trust")
      BY DEF V6_TO_V7
    <3>3. cur[p] + 1 = 7
      BY <1>14
    <3>4. s = Script(7)[1]
      BY <2>1, <3>3, Zenon
    <3> QED
      BY <3>1, <3>2, <3>4, Zenon
  <2>3. s.op = "add" /\ s.table = "pending_handoffs" /\ s.column = "source_trust"
    BY <2>2 DEF Add
  <2> QED
    BY <2>3 DEF CanRun, SchemaAfter, TrustColumn
<1>15. ASSUME TrustColumn \notin schema' PROVE Unlabelled' /\ \A q \in Opener : ~Labelling(q)'
  BY <1>7, <1>8, <1>11, <1>12, <1>13, <1>14, <1>15 DEF LateInv, LabelsInv
<1>16. ASSUME NEW q \in Opener, Labelling(q)'
       PROVE  Unlabelled' /\ \A o \in Opener : Labelling(o)' => o = q
  BY <1>8, <1>11, <1>12, <1>13, <1>14, <1>16 DEF LateInv, LabelsInv
<1>17. LabelsInv'
  BY <1>1, <1>8, <1>9, <1>15, <1>16 DEF LateInv, LabelsInv
<1> QED
  BY <1>4, <1>6, <1>17


LEMMA LateStatement ==
    ASSUME LateInv, NEW p \in Opener, Statement(p) PROVE HooksInv' /\ RowsInv' /\ LabelsInv'
<1>1. PICK s : s = Script(cur[p] + 1)[next[p]]
  OBVIOUS
<1>2. CASE Goto(p, "failed") /\ UNCHANGED <<schema, home, trust, next>>
  BY <1>2, LateStatementFails
<1>3. CASE /\ CanRun(s) /\ schema' = SchemaAfter(s) /\ home' = HomeAfter(s)
           /\ trust' = TrustAfter(s) /\ next' = [next EXCEPT ![p] = @ + 1] /\ UNCHANGED pc
  <2>1. next' = [q \in Opener |-> IF q = p THEN next[p] + 1 ELSE next[q]]
    BY <1>3 DEF LateInv, MarksInv, LadderTypeOK
  <2> QED
    BY <1>1, <1>3, <2>1, LateStatementRuns
<1> QED
  BY <1>1, <1>2, <1>3, Zenon DEF Statement

LEMMA LateServe ==
    ASSUME LateInv, NEW p \in Opener,
           \/ InitialiseFresh(p) \/ Extend(p) \/ Close(p) \/ Crash(p)
           \/ Collapse(p) /\ Goto(p, "failed")
    PROVE  HooksInv' /\ RowsInv' /\ LabelsInv'
<1>1. UNCHANGED <<home, trust, begun, cur, next>> \/ Collapse(p)
  BY DEF InitialiseFresh, Extend, Close, Crash, database, counters
<1>2. CASE InitialiseFresh(p)
  <2>1. pc[p] \in {"fresh", "fresh_bump"} /\ pc[p] \notin Rung
    BY <1>2 DEF InitialiseFresh, Rung
  <2>2. begun.version = 0
    BY <2>1 DEF LateInv, LabelsInv
  <2>3. PICK place \in {"fresh_bump", "opened"} : Goto(p, place)
    BY <1>2 DEF InitialiseFresh
  <2>4. pc' = [q \in Opener |-> IF q = p THEN place ELSE pc[q]]
    BY <2>3 DEF Goto, LateInv, MarksInv, LadderTypeOK
  <2>5. /\ UNCHANGED <<home, trust, begun, cur, next>>
        /\ schema \subseteq schema' /\ version' \in {version, 23}
    BY <1>2 DEF InitialiseFresh, counters, SchemaVersion
  <2>6. place \notin Rung /\ "script" \in Rung
    BY <2>3 DEF Rung
  <2>7. HooksInv'
    BY <2>4, <2>5, <2>6 DEF LateInv, HooksInv
  <2>8. \A q \in Opener : Shifting(q)' => Shifting(q) /\ next'[q] = next[q]
    BY <2>3, <2>4, <2>5 DEF Shifting
  <2>9. RowsInv'
    BY <2>5, <2>8, RowsFrame DEF LateInv, Exists
  <2>10. LabelsInv'
    BY <2>2, <2>4, <2>5, <2>6 DEF LateInv, LabelsInv
  <2> QED
    BY <2>7, <2>9, <2>10
<1>3. CASE Close(p) \/ Crash(p)
  <2>1. Goto(p, "closed") /\ UNCHANGED <<version, schema, home, trust, begun, cur, next>>
    BY <1>3 DEF Close, Crash, database, counters
  <2>2. "closed" \notin Rung
    BY DEF Rung
  <2> QED
    BY <2>1, <2>2, QuietStep
<1>4. CASE Collapse(p) /\ Goto(p, "failed")
  <2>1. pc'[p] = "failed" /\ pc[p] = "collapse"
    BY <1>4 DEF Goto, Collapse, LateInv, MarksInv, LadderTypeOK
  <2>2. UNCHANGED <<version, schema, home, trust, begun, cur, next>>
    <3>1. ~ClimbOn(p)
      BY <2>1 DEF ClimbOn, Goto, LateInv, MarksInv, LadderTypeOK
    <3> QED
      BY <1>4, <3>1 DEF Collapse, counters
  <2>3. "failed" \notin Rung
    BY DEF Rung
  <2> QED
    BY <1>4, <2>2, <2>3, QuietStep
<1>5. CASE Extend(p)
  <2>1. pc[p] = "extend" /\ "extend" \notin Rung /\ "opened" \notin Rung
    BY <1>5 DEF Extend, Rung
  <2>2. \E place \in {"extend", "opened"} : Goto(p, place)
    BY <1>5, <2>1 DEF Extend, Goto, LateInv, MarksInv, LadderTypeOK
  <2>3. UNCHANGED <<version, home, trust, begun, cur, next>> /\ schema \subseteq schema'
    BY <1>5 DEF Extend, counters
  <2>4. PastLabels(p)
    BY <2>1 DEF PastLabels
  <2> QED
    BY <2>1, <2>2, <2>3, <2>4, QuietStep
<1> QED
  BY <1>2, <1>3, <1>4, <1>5

LEMMA LatePromote ==
    ASSUME LateInv, NEW p \in Opener,
           \/ \E r \in Row : RecordDisposition(p, r)
           \/ \E t \in DOMAIN trust : Promote(p, t)
    PROVE  HooksInv' /\ RowsInv' /\ LabelsInv'
<1>1. UNCHANGED <<version, schema, home, begun, pc, cur, next>>
  BY DEF RecordDisposition, Promote, local, counters
<1>2. HooksInv'
  BY <1>1 DEF LateInv, HooksInv
<1>3. RowsInv'
  BY <1>1, RowsFrame DEF LateInv, Exists, Shifting
<1>4. CASE UNCHANGED trust
  BY <1>1, <1>2, <1>3, <1>4, LabelsFrame DEF LateInv, Labelling, PastLabels
<1>5. CASE \E t \in DOMAIN trust : Promote(p, t)
  <2>1. PastLabels(p)
    BY <1>5 DEF Promote, PastLabels
  <2>2. ~Unlabelled
    BY <2>1 DEF Unlabelled
  <2>3. trust' = [t \in DOMAIN trust |-> trust'[t]] /\ DOMAIN trust' = DOMAIN trust
    BY <1>5 DEF Promote, LateInv, LabelsInv
  <2>4. \A q \in Opener : Labelling(q)' <=> Labelling(q)
    BY <1>1 DEF Labelling
  <2>5. LabelsInv'
    BY <1>1, <2>2, <2>3, <2>4 DEF LateInv, LabelsInv
  <2> QED
    BY <1>2, <1>3, <2>5
<1> QED
  BY <1>4, <1>5 DEF RecordDisposition

LEMMA LateNext == ASSUME LateInv, [Next]_vars PROVE LateInv'
<1>1. MarksInv'
  BY MarksNext DEF LateInv
<1>2. ASSUME NEW p \in Opener, Climb(p) PROVE HooksInv' /\ RowsInv' /\ LabelsInv'
  <2>1. CASE Collapse(p)
    BY <2>1, LateServe, LateClimb
  <2> QED
    BY <1>2, <2>1, LateServe, LateStatement, LateMoves, LateClimb DEF Climb
<1>3. ASSUME NEW p \in Opener, Open(p) \/ Close(p) \/ Crash(p)
      PROVE  HooksInv' /\ RowsInv' /\ LabelsInv'
  BY <1>3, LateOpen, LateServe
<1>4. ASSUME NEW p \in Opener, \/ \E r \in Row : RecordDisposition(p, r)
                               \/ \E t \in DOMAIN trust : Promote(p, t)
      PROVE  HooksInv' /\ RowsInv' /\ LabelsInv'
  BY <1>4, LatePromote
<1>5. CASE UNCHANGED vars
  <2>1. UNCHANGED <<version, schema, home, trust, begun, pc, cur, next>>
    BY <1>5 DEF vars, database, local, counters
  <2>2. HooksInv'
    BY <2>1 DEF LateInv, HooksInv
  <2>3. RowsInv'
    BY <2>1, RowsFrame DEF LateInv, Exists, Shifting
  <2>4. LabelsInv'
    BY <2>1, LabelsFrame DEF LateInv, Labelling, PastLabels
  <2> QED
    BY <1>1, <2>2, <2>3, <2>4 DEF LateInv
<1> QED
  BY <1>1, <1>2, <1>3, <1>4, <1>5 DEF Next, LateInv


\* The inductive invariant of late openers: one at a time moves rows, and one
\* alone labels them, before anybody serves and can promote one.
THEOREM LateInvariant == Spec => []LateInv
<1>1. Init => LateInv
  BY LateInit
<1>2. LateInv /\ [Next]_vars => LateInv'
  BY LateNext
<1> QED
  BY <1>1, <1>2, PTL DEF Spec

\* An opener that repeats what others have done loses no row and takes back
\* nothing an operator vouched for, for any number of openers, openings and kills.
THEOREM LateOpenersLoseNothing == Spec => OpenersLoseNothing
<1>1. LateInv => RowsAreKept
  BY DEF LateInv, RowsInv, RowsAreKept
<1>2. ASSUME LateInv, [Next]_vars, NEW t \in DOMAIN trust, trust[t] = "operator"
      PROVE  trust'[t] = "operator"
  <2>1. ASSUME NEW p \in Opener, Statement(p) PROVE trust'[t] = "operator"
    <3>1. PICK s : s = Script(cur[p] + 1)[next[p]]
      OBVIOUS
    <3>2. CASE UNCHANGED trust
      BY <1>2, <3>2
    <3>3. CASE /\ CanRun(s) /\ trust' = TrustAfter(s) /\ UNCHANGED pc
      <4>1. begun.version # 0 /\ pc[p] = "script" /\ cur[p] \in 1 .. 22 /\ next[p] \in Nat \ {0}
        <5>1. pc[p] = "script" /\ pc[p] \in Rung
          BY <2>1 DEF Statement, Rung
        <5> QED
          BY <1>2, <5>1 DEF LateInv, LabelsInv, MarksInv, LadderTypeOK
      <4>2. ~Unlabelled
        BY <1>2 DEF Unlabelled
      <4>3. ~Labelling(p) /\ TrustColumn \in schema
        BY <1>2, <4>1, <4>2 DEF LateInv, LabelsInv
      <4>4. cur[p] # 6
        <5> SUFFICES ASSUME cur[p] = 6 PROVE FALSE
          OBVIOUS
        <5>1. next[p] = 1 /\ cur[p] + 1 = 7
          BY <4>1, <4>3 DEF Labelling
        <5>2. Script(7) = V6_TO_V7 /\ V6_TO_V7[1] = Add("pending_handoffs", "source_trust")
          BY DEF Script, Ladder, V6_TO_V7
        <5>3. s = Add("pending_handoffs", "source_trust")
          BY <3>1, <5>1, <5>2, Zenon
        <5> QED
          BY <3>3, <4>3, <5>3 DEF CanRun, Add, TrustColumn
      <4>5. s.column # "source_trust"
        <5>1. next[p] <= Len(Script(cur[p] + 1))
          BY <2>1 DEF Statement
        <5>2. Len(Script(cur[p] + 1)) \in Nat
          BY <4>1, ScriptsLength
        <5>3. next[p] \in 1 .. Len(Script(cur[p] + 1))
          BY <4>1, <5>1, <5>2
        <5>4. cur[p] + 1 \in 2 .. 23 /\ cur[p] + 1 # 7
          BY <4>1, <4>4
        <5>5. \A i \in 1 .. Len(Script(cur[p] + 1)) : Script(cur[p] + 1)[i].column # "source_trust"
          BY <5>4, ScriptsLabelNothing
        <5> QED
          BY <3>1, <5>3, <5>5
      <4> QED
        BY <1>2, <3>3, <4>5 DEF TrustAfter
    <3> QED
      BY <2>1, <3>1, <3>2, <3>3, Zenon DEF Statement
  <2>2. ASSUME NEW p \in Opener, NEW u \in DOMAIN trust, Promote(p, u)
        PROVE  trust'[t] = "operator"
    BY <1>2, <2>2 DEF Promote, LateInv, LabelsInv
  <2>3. ASSUME NEW p \in Opener, Climb(p), ~Statement(p) PROVE UNCHANGED trust
    BY <2>3 DEF Climb, InitialiseFresh, EndScript, Bump, Extend, LookForLegacy, LookForColumns,
       AddColumn, EndColumns, Collapse, ExpectVersion, FindBackup, ClearTemporaries, CopyDatabase,
       WriteManifest, ValidateCopy, PlaceBackup, database
  <2>4. ASSUME NEW p \in Opener, Open(p) \/ Close(p) \/ Crash(p)
                                 \/ \E r \in Row : RecordDisposition(p, r)
        PROVE  UNCHANGED trust
    BY <2>4 DEF Open, Close, Crash, RecordDisposition, database
  <2> QED
    BY <1>2, <2>1, <2>2, <2>3, <2>4 DEF Next, vars, database
<1>3. LateInv /\ [Next]_vars =>
        [/\ RowsAreKept'
         /\ \A t \in DOMAIN trust : trust[t] = "operator" => trust'[t] = "operator"]_vars
  <2>1. LateInv /\ [Next]_vars => RowsAreKept'
    BY LateNext DEF LateInv, RowsInv, RowsAreKept
  <2> QED
    BY <1>2, <2>1
<1> QED
  BY <1>3, LateInvariant, PTL DEF Spec, OpenersLoseNothing


(***************************************************************************)
(* An opened database has the whole schema.                                *)
(***************************************************************************)
LegacyIds == Legacy \X {"id"}

\* The tables and columns of version v that stay.
Upto(v) == SchemaAt(v) \ LegacyIds

\* What the statements of a script before the n-th have created.
Done(script, n) ==
    {<<script[i].table, script[i].column>> :
        i \in {i \in 1 .. n - 1 : script[i].op \in {"create", "add"}}}

HookDone(p, n) == \A i \in 1 .. 2 : i < n => <<Hooked(p), HookColumns(p)[i]>> \in schema

VersionWhole == version # 1 /\ (version # 0 => Upto(version) \subseteq schema)

PairsInv == \A c \in schema : c = <<c[1], c[2]>>

\* What an opener has seen to by the place where it stands.
WholeFor(p) ==
    /\ pc[p] \in Rung => cur[p] # 1 /\ Upto(cur[p]) \subseteq schema
    /\ pc[p] = "script" => Done(Script(cur[p] + 1), next[p]) \subseteq schema \cup LegacyIds
    /\ pc[p] \in Rung \ {"script"} => Created(Script(cur[p] + 1)) \subseteq schema \cup LegacyIds
    /\ pc[p] = "adding" => /\ \A c \in seen[p].columns : <<Hooked(p), c>> \in schema
                           /\ HookDone(p, next[p])
    /\ pc[p] = "collapse" => cur[p] = 13
    /\ pc[p] \in {"collapse", "bump"} /\ cur[p] \in {13, 20} => HookDone(p, 3)
    /\ pc[p] = "extend" => Upto(23) \subseteq schema
    /\ pc[p] \in {"opened", "fresh_bump"} => ServedSchema \subseteq schema

WholeInv == begun.version # 1 => VersionWhole /\ \A p \in Opener : WholeFor(p)

LEMMA ClimbSchema ==
    ASSUME NEW v \in 2 .. 22, NEW s, Upto(v) \subseteq s,
           Created(Script(v + 1)) \subseteq s \cup LegacyIds,
           v = 13 => \A i \in 1 .. 2 : <<"activity_log", SyncColumns[i]>> \in s,
           v = 20 => \A i \in 1 .. 2 : <<"write_conflicts", ConflictColumns[i]>> \in s
    PROVE  Upto(v + 1) \subseteq s
<1> SUFFICES ASSUME NEW c \in Upto(v + 1) PROVE c \in s
  OBVIOUS
<1>1. c \in SchemaAt(v + 1) /\ c \notin LegacyIds
  BY DEF Upto
<1>2. {<<t, "id">> : t \in {t \in Legacy : v >= 14}} \subseteq LegacyIds
  BY DEF LegacyIds
<1>3. CASE c \in {<<"activity_log", "id">>, <<"cost_records", "id">>}
  BY <1>1, <1>2, <1>3 DEF Upto, SchemaAt
<1>4. CASE c \in UNION {Created(Script(t)) : t \in {t \in 2 .. SchemaVersion : t <= v + 1}}
  <2>1. PICK t \in 2 .. SchemaVersion : t <= v + 1 /\ c \in Created(Script(t))
    BY <1>4
  <2>2. CASE t = v + 1
    BY <1>1, <2>1, <2>2
  <2>3. CASE t <= v
    BY <1>1, <1>2, <2>1, <2>3 DEF Upto, SchemaAt
  <2> QED
    BY <2>1, <2>2, <2>3 DEF SchemaVersion
<1>5. CASE c \in {<<"activity_log", SyncColumns[i]>> : i \in {i \in 1 .. 2 : v + 1 >= 14}}
  <2>1. CASE v = 13
    BY <1>5, <2>1
  <2>2. CASE v >= 14
    BY <1>1, <1>2, <1>5, <2>2 DEF Upto, SchemaAt
  <2> QED
    BY <1>5, <2>1, <2>2
<1>6. CASE c \in {<<"write_conflicts", ConflictColumns[i]>> : i \in {i \in 1 .. 2 : v + 1 >= 21}}
  <2>1. CASE v = 20
    BY <1>6, <2>1
  <2>2. CASE v >= 21
    BY <1>1, <1>2, <1>6, <2>2 DEF Upto, SchemaAt
  <2> QED
    BY <1>6, <2>1, <2>2
<1> QED
  BY <1>1, <1>3, <1>4, <1>5, <1>6 DEF SchemaAt

LEMMA ServedIsUpto ==
    /\ ServedSchema \cap LegacyIds = {}
    /\ Upto(23) \subseteq ServedSchema
    /\ \A s : Upto(23) \subseteq s /\ {<<t, "id">> : t \in Extension} \subseteq s
            => ServedSchema \subseteq s
<1>1. SchemaAt(23) \cap LegacyIds = {}
  <2>1. LegacyIds = {<<t, "id">> : t \in {t \in Legacy : 23 >= 14}}
    BY DEF LegacyIds
  <2> QED
    BY <2>1 DEF SchemaAt
<1>2. {<<t, "id">> : t \in Extension} \cap LegacyIds = {}
  BY DEF Extension, LegacyIds, Legacy
<1> QED
  BY <1>1, <1>2 DEF Upto, ServedSchema, SchemaVersion

\* Whoever does not move keeps what it has seen to: only the legacy tables go.
LEMMA WholeFrame ==
    ASSUME NEW p \in Opener, WholeFor(p), schema \ LegacyIds \subseteq schema',
           pc'[p] = pc[p], cur'[p] = cur[p], next'[p] = next[p], seen'[p] = seen[p]
    PROVE  WholeFor(p)'
<1>1. \A v : Upto(v) \subseteq schema => Upto(v) \subseteq schema'
  BY DEF Upto
<1>2. \A s : s \subseteq schema \cup LegacyIds => s \subseteq schema' \cup LegacyIds
  OBVIOUS
<1>3. \A c : <<Hooked(p), c>> \in schema => <<Hooked(p), c>> \in schema'
  BY DEF Hooked, LegacyIds, Legacy
<1>4. Hooked(p)' = Hooked(p) /\ HookColumns(p)' = HookColumns(p)
  BY DEF Hooked, HookColumns
<1>5. \A n : HookDone(p, n) => HookDone(p, n)'
  BY <1>3, <1>4 DEF HookDone
<1>6. ServedSchema \subseteq schema => ServedSchema \subseteq schema'
  BY ServedIsUpto
<1> QED
  BY <1>1, <1>2, <1>3, <1>4, <1>5, <1>6 DEF WholeFor


LEMMA SchemasArePairs ==
    /\ \A v : \A c \in SchemaAt(v) : c = <<c[1], c[2]>>
    /\ \A c \in ServedSchema : c = <<c[1], c[2]>>
<1>1. \A s : \A c \in Created(s) : c = <<c[1], c[2]>>
  BY DEF Created
<1>2. ASSUME NEW v, NEW c \in SchemaAt(v) PROVE c = <<c[1], c[2]>>
  BY <1>1, <1>2 DEF SchemaAt
<1> QED
  BY <1>2 DEF ServedSchema

LEMMA PairsNext == ASSUME PairsInv, [Next]_vars PROVE PairsInv'
<1>1. ASSUME NEW s, schema' = SchemaAfter(s) PROVE PairsInv'
  BY <1>1 DEF PairsInv, SchemaAfter
<1>2. ASSUME NEW p \in Opener, InitialiseFresh(p) \/ Extend(p) PROVE PairsInv'
  BY <1>2, SchemasArePairs DEF PairsInv, InitialiseFresh, Extend
<1>3. ASSUME NEW p \in Opener, Collapse(p) PROVE PairsInv'
  BY <1>3 DEF PairsInv, Collapse
<1>4. CASE UNCHANGED schema
  BY <1>4 DEF PairsInv
<1>5. ASSUME NEW p \in Opener, AddColumn(p) \/ Statement(p)
      PROVE  UNCHANGED schema \/ \E s : schema' = SchemaAfter(s)
  BY <1>5 DEF AddColumn, Statement
<1>6. ASSUME NEW p \in Opener,
             \/ EndScript(p) \/ Bump(p) \/ LookForLegacy(p) \/ LookForColumns(p) \/ EndColumns(p)
             \/ ExpectVersion(p) \/ FindBackup(p) \/ ClearTemporaries(p) \/ CopyDatabase(p)
             \/ WriteManifest(p) \/ ValidateCopy(p) \/ PlaceBackup(p)
             \/ Open(p) \/ Close(p) \/ Crash(p)
      PROVE  UNCHANGED schema
  BY <1>6 DEF EndScript, Bump, LookForLegacy, LookForColumns, EndColumns, ExpectVersion,
     FindBackup, ClearTemporaries, CopyDatabase, WriteManifest, ValidateCopy, PlaceBackup,
     Open, Close, Crash, database
<1>7. ASSUME NEW p \in Opener, (\E r \in Row : RecordDisposition(p, r))
                                \/ \E t \in DOMAIN trust : Promote(p, t)
      PROVE  UNCHANGED schema
  BY <1>7 DEF RecordDisposition, Promote
<1> QED
  BY <1>1, <1>2, <1>3, <1>4, <1>5, <1>6, <1>7 DEF Next, Climb, vars, database

LEMMA WholeInit == ASSUME Init PROVE WholeInv
<1>1. version = begun.version /\ \A p \in Opener : pc[p] = "closed"
  BY DEF Init
<1>2. "closed" \notin Rung
  BY DEF Rung
<1>3. version # 0 => Upto(version) \subseteq schema
  BY DEF Init, Upto
<1> QED
  BY <1>1, <1>2, <1>3 DEF WholeInv, VersionWhole, WholeFor

\* One opener moves.
LEMMA WholeStep ==
    ASSUME WholeInv, begun' = begun, NEW p \in Opener, schema \ LegacyIds \subseteq schema',
           \A q \in Opener : q # p => /\ pc'[q] = pc[q] /\ cur'[q] = cur[q]
                                      /\ next'[q] = next[q] /\ seen'[q] = seen[q],
           begun.version # 1 /\ VersionWhole /\ WholeFor(p) => VersionWhole' /\ WholeFor(p)'
    PROVE  WholeInv'
<1> SUFFICES ASSUME begun.version # 1 PROVE VersionWhole' /\ \A q \in Opener : WholeFor(q)'
  BY DEF WholeInv
<1>1. VersionWhole /\ \A q \in Opener : WholeFor(q)
  BY DEF WholeInv
<1>2. ASSUME NEW q \in Opener, q # p PROVE WholeFor(q)'
  BY <1>1, <1>2, WholeFrame
<1>3. VersionWhole' /\ WholeFor(p)'
  BY <1>1
<1> QED
  BY <1>2, <1>3

\* The opener goes on, or ends, and nothing is created.
LEMMA WholeMove ==
    ASSUME LateInv, WholeInv, NEW p \in Opener, NEW place, Goto(p, place),
           UNCHANGED <<version, schema, begun, cur>>,
           \A q \in Opener : q # p => next'[q] = next[q] /\ seen'[q] = seen[q],
           \/ place \in {"failed", "closed"}
           \/ /\ pc[p] \in Rung \ {"script"} /\ place \in Rung \ {"script"}
              /\ place \notin {"adding", "collapse", "bump"}
    PROVE  WholeInv'
<1>1. pc' = [q \in Opener |-> IF q = p THEN place ELSE pc[q]]
  BY DEF Goto, LateInv, MarksInv, LadderTypeOK
<1>2. {"failed", "closed", "extend", "opened", "fresh_bump"} \cap Rung = {} /\ "script" \in Rung
      /\ {"adding", "collapse", "bump"} \subseteq Rung
  BY DEF Rung
<1>3. ASSUME begun.version # 1, VersionWhole, WholeFor(p) PROVE VersionWhole' /\ WholeFor(p)'
  <2>1. VersionWhole'
    BY <1>3 DEF VersionWhole
  <2>2. CASE place \in {"failed", "closed"}
    <3>1. pc'[p] \notin Rung /\ pc'[p] \notin {"extend", "opened", "fresh_bump"}
      BY <1>1, <1>2, <2>2
    <3>2. pc'[p] \notin {"script", "adding", "collapse", "bump"}
      BY <1>2, <3>1
    <3> QED
      BY <2>1, <3>1, <3>2 DEF WholeFor
  <2>3. CASE place \notin {"failed", "closed"}
    <3>1. pc[p] \in Rung \ {"script"} /\ place \in Rung
          /\ place \notin {"script", "adding", "collapse", "bump"}
      BY <2>3
    <3>2. Upto(cur[p]) \subseteq schema /\ cur[p] # 1
          /\ Created(Script(cur[p] + 1)) \subseteq schema \cup LegacyIds
      BY <1>3, <3>1 DEF WholeFor
    <3>3. place \notin {"extend", "opened", "fresh_bump"}
      BY <1>2, <3>1
    <3>4. pc'[p] = place /\ schema' = schema /\ cur'[p] = cur[p]
      BY <1>1
    <3>5. pc'[p] \notin {"script", "adding", "collapse", "bump", "extend", "opened", "fresh_bump"}
      BY <3>1, <3>3, <3>4
    <3>6. Upto(cur'[p]) \subseteq schema' /\ cur'[p] # 1
          /\ Created(Script(cur'[p] + 1)) \subseteq schema' \cup LegacyIds
      BY <3>2, <3>4
    <3> QED
      BY <2>1, <3>5, <3>6 DEF WholeFor
  <2> QED
    BY <2>1, <2>2, <2>3
<1> QED
  BY <1>1, <1>3, WholeStep

LEMMA WholeRest ==
    ASSUME LateInv, WholeInv, NEW p \in Opener,
           \/ Close(p) \/ Crash(p) \/ LookForLegacy(p) \/ ExpectVersion(p) \/ FindBackup(p)
           \/ ClearTemporaries(p) \/ CopyDatabase(p) \/ WriteManifest(p) \/ ValidateCopy(p)
           \/ PlaceBackup(p)
    PROVE  WholeInv'
<1>1. UNCHANGED <<version, schema, begun, cur, next>>
  BY DEF Close, Crash, LookForLegacy, ExpectVersion, FindBackup, ClearTemporaries, CopyDatabase,
         WriteManifest, ValidateCopy, PlaceBackup, database, counters
<1>2. \A q \in Opener : q # p => seen'[q] = seen[q]
  BY DEF Close, Crash, LookForLegacy, ExpectVersion, FindBackup, ClearTemporaries, CopyDatabase,
         WriteManifest, ValidateCopy, PlaceBackup, LateInv, MarksInv, NotesTypeOK
<1>3. CASE Close(p) \/ Crash(p)
  BY <1>1, <1>2, <1>3, WholeMove DEF Close, Crash
<1>4. CASE ~(Close(p) \/ Crash(p))
  <2>1. pc[p] \in Rung \ {"script"}
    BY <1>4 DEF LookForLegacy, ExpectVersion, FindBackup, ClearTemporaries, CopyDatabase,
         WriteManifest, ValidateCopy, PlaceBackup, Rung
  <2> DEFINE places == {"columns", "expect", "backup", "clear", "clear_manifest",
         "clear_metadata", "copy", "copying", "digest", "record", "validate", "place",
         "place_manifest", "place_metadata", "failed"}
  <2>2. \E place \in places : Goto(p, place)
    BY <1>4 DEF LookForLegacy, ExpectVersion, FindBackup, ClearTemporaries, CopyDatabase,
         WriteManifest, ValidateCopy, PlaceBackup, Rename
  <2>3. PICK place \in places : Goto(p, place)
    BY <2>2
  <2>4. place = "failed" \/ (place \in Rung /\ place \notin {"script", "adding", "collapse", "bump"})
    BY DEF Rung
  <2> QED
    BY <1>1, <1>2, <2>1, <2>3, <2>4, WholeMove
<1> QED
  BY <1>3, <1>4

LEMMA WholeOpen == ASSUME LateInv, WholeInv, NEW p \in Opener, Open(p) PROVE WholeInv'
<1>1. UNCHANGED <<version, schema, begun>>
  BY DEF Open, database
<1>2. PICK place \in {"failed", "fresh", "extend", "script"} :
          Goto(p, place) /\ (place = "script" => version \in 1 .. 22)
                         /\ (place = "extend" => version = 23)
  BY DEF Open, LateInv, MarksInv, LadderTypeOK, SchemaVersion
<1>3. pc' = [q \in Opener |-> IF q = p THEN place ELSE pc[q]]
  BY <1>2 DEF Goto, LateInv, MarksInv, LadderTypeOK
<1>4. /\ cur' = [q \in Opener |-> IF q = p THEN version ELSE cur[q]]
      /\ next' = [q \in Opener |-> IF q = p THEN 1 ELSE next[q]]
      /\ seen' = [q \in Opener |-> IF q = p THEN NothingSeen ELSE seen[q]]
  BY DEF Open, LateInv, MarksInv, LadderTypeOK, NotesTypeOK
<1>5. {"failed", "fresh", "extend"} \cap Rung = {}
  BY DEF Rung
<1>6. \A s : Done(s, 1) = {}
  BY DEF Done
<1>7. ASSUME VersionWhole PROVE VersionWhole' /\ WholeFor(p)'
  <2>1. VersionWhole'
    BY <1>1, <1>7 DEF VersionWhole
  <2>2. CASE place = "script"
    BY <1>1, <1>2, <1>3, <1>4, <1>6, <1>7, <2>2 DEF WholeFor, VersionWhole
  <2>3. CASE place # "script"
    BY <1>1, <1>2, <1>3, <1>4, <1>5, <1>7, <2>3 DEF WholeFor, VersionWhole
  <2> QED
    BY <2>1, <2>2, <2>3
<1> QED
  BY <1>1, <1>3, <1>4, <1>7, WholeStep


LEMMA WholeStatement == ASSUME LateInv, WholeInv, NEW p \in Opener, Statement(p) PROVE WholeInv'
<1>1. PICK s : s = Script(cur[p] + 1)[next[p]]
  OBVIOUS
<1>2. UNCHANGED <<version, begun, cur, seen>> /\ pc[p] = "script"
  BY DEF Statement, counters
<1>3. CASE Goto(p, "failed") /\ UNCHANGED <<schema, next>>
  BY <1>2, <1>3, WholeMove
<1>4. CASE /\ CanRun(s) /\ schema' = SchemaAfter(s) /\ next' = [next EXCEPT ![p] = @ + 1]
           /\ UNCHANGED pc
  <2> SUFFICES ASSUME begun.version # 1, VersionWhole, WholeFor(p),
                      \A q \in Opener : WholeFor(q)
               PROVE  VersionWhole' /\ \A q \in Opener : WholeFor(q)'
    BY <1>2 DEF WholeInv
  <2>1. next' = [q \in Opener |-> IF q = p THEN next[p] + 1 ELSE next[q]]
    BY <1>4 DEF LateInv, MarksInv, LadderTypeOK
  <2>2. pc[p] \in Rung /\ cur[p] \in 2 .. 22 /\ next[p] \in Nat \ {0}
    BY <1>2 DEF Rung, WholeFor, LateInv, MarksInv, LadderTypeOK
  <2>3. s.op \in Additive
    <3>1. cur[p] + 1 \in 3 .. 23
      BY <2>2
    <3>2. next[p] <= Len(Script(cur[p] + 1))
      BY DEF Statement
    <3>3. Len(Script(cur[p] + 1)) \in Nat
      BY <3>1, ScriptsLength
    <3>4. next[p] \in 1 .. Len(Script(cur[p] + 1))
      BY <2>2, <3>2, <3>3
    <3>5. \A i \in 1 .. Len(Script(cur[p] + 1)) : Script(cur[p] + 1)[i].op \in Additive
      BY <3>1, LaterScriptsAdd
    <3> QED
      BY <1>1, <3>4, <3>5
  <2>4. schema \subseteq schema'
    BY <1>4, <2>3, AdditiveStatement
  <2>5. s.op \in {"create", "add"} => <<s.table, s.column>> \in schema'
    BY <1>4 DEF SchemaAfter
  <2>6. Done(Script(cur[p] + 1), next[p] + 1) \subseteq schema' \cup LegacyIds
    <3> SUFFICES ASSUME NEW i \in 1 .. next[p],
                        Script(cur[p] + 1)[i].op \in {"create", "add"}
                 PROVE  <<Script(cur[p] + 1)[i].table, Script(cur[p] + 1)[i].column>>
                            \in schema' \cup LegacyIds
      BY <2>2 DEF Done
    <3>1. CASE i = next[p]
      BY <1>1, <2>5, <3>1
    <3>2. CASE i # next[p]
      <4>1. i \in 1 .. next[p] - 1
        BY <2>2, <3>2
      <4>2. <<Script(cur[p] + 1)[i].table, Script(cur[p] + 1)[i].column>>
              \in Done(Script(cur[p] + 1), next[p])
        BY <4>1 DEF Done
      <4> QED
        BY <1>2, <2>4, <4>2 DEF WholeFor
    <3> QED
      BY <3>1, <3>2
  <2>7. VersionWhole'
    BY <1>2, <2>4 DEF VersionWhole
  <2>8. WholeFor(p)'
    <3>1. pc'[p] = "script" /\ cur'[p] = cur[p] /\ next'[p] = next[p] + 1
      BY <1>2, <1>4, <2>1
    <3>2. Upto(cur[p]) \subseteq schema' /\ cur[p] # 1
      BY <2>2, <2>4 DEF WholeFor
    <3> QED
      BY <2>6, <3>1, <3>2 DEF WholeFor
  <2>9. ASSUME NEW q \in Opener, q # p PROVE WholeFor(q)'
    BY <1>2, <1>4, <2>1, <2>4, <2>9, WholeFrame
  <2> QED
    BY <2>7, <2>8, <2>9
<1> QED
  BY <1>1, <1>3, <1>4, Zenon DEF Statement

LEMMA ScriptDomain == \A v \in 3 .. 23 : DOMAIN Script(v) = 1 .. Len(Script(v))
<1>1. \A s \in LaterScripts : DOMAIN s = 1 .. Len(s)
  BY SMT DEF LaterScripts, V2_TO_V3, V3_TO_V4, V4_TO_V5, V5_TO_V6,
     V6_TO_V7, V7_TO_V8, V8_TO_V9, V9_TO_V10, DataOnly, V11_TO_V12, V12_TO_V13,
     V14_TO_V15, V15_TO_V16, V16_TO_V17, V17_TO_V18, V18_TO_V19, V19_TO_V20,
     V21_TO_V22, V22_TO_V23
<1> QED
  BY <1>1, LaterScriptsListed

LEMMA WholeEndScript == ASSUME LateInv, WholeInv, NEW p \in Opener, EndScript(p) PROVE WholeInv'
<1>1. UNCHANGED <<version, schema, begun, cur, next, seen>> /\ pc[p] = "script"
      /\ next[p] > Len(Script(cur[p] + 1))
  BY DEF EndScript, database, counters
<1> DEFINE turn == CASE cur[p] + 1 = 14 -> "legacy"
                     [] cur[p] + 1 = 21 -> "columns"
                     [] OTHER -> "bump"
<1>2. Goto(p, turn)
  BY Zenon DEF EndScript
<1>3. pc[p] \in Rung /\ cur[p] \in 1 .. 22 /\ next[p] \in Nat
  BY <1>1 DEF Rung, LateInv, MarksInv, LadderTypeOK
<1>4. turn \in {"legacy", "columns", "bump"} /\ (turn = "bump" => cur[p] \notin {13, 20})
  BY <1>3
<1> HIDE DEF turn
<1>5. pc' = [q \in Opener |-> IF q = p THEN turn ELSE pc[q]]
  BY <1>2 DEF Goto, LateInv, MarksInv, LadderTypeOK
<1>6. ASSUME begun.version # 1, VersionWhole, WholeFor(p) PROVE VersionWhole' /\ WholeFor(p)'
  <2>1. VersionWhole'
    BY <1>1, <1>6 DEF VersionWhole
  <2>2. cur[p] # 1 /\ Upto(cur[p]) \subseteq schema
        /\ Done(Script(cur[p] + 1), next[p]) \subseteq schema \cup LegacyIds
    BY <1>1, <1>3, <1>6 DEF WholeFor
  <2>3. Created(Script(cur[p] + 1)) \subseteq schema \cup LegacyIds
    <3>1. cur[p] + 1 \in 3 .. 23
      BY <1>3, <2>2
    <3>2. DOMAIN Script(cur[p] + 1) = 1 .. Len(Script(cur[p] + 1))
          /\ Len(Script(cur[p] + 1)) \in Nat
      <4>1. cur[p] + 1 \in 2 .. 23
        BY <3>1
      <4>2. DOMAIN Script(cur[p] + 1) = 1 .. Len(Script(cur[p] + 1))
        BY <3>1, ScriptDomain, Zenon
      <4>3. Len(Script(cur[p] + 1)) \in Nat
        BY <4>1, ScriptsLength, Zenon
      <4> QED
        BY <4>2, <4>3
    <3>3. \A n \in Nat : next[p] > n => 1 .. n \subseteq 1 .. next[p] - 1
      BY <1>3
    <3>4. DOMAIN Script(cur[p] + 1) \subseteq 1 .. next[p] - 1
      BY <1>1, <3>2, <3>3, Zenon
    <3>5. Created(Script(cur[p] + 1)) \subseteq Done(Script(cur[p] + 1), next[p])
      BY <3>4 DEF Created, Done
    <3> QED
      BY <2>2, <3>5
  <2>4. pc'[p] \in {"legacy", "columns", "bump"}
        /\ (pc'[p] = "bump" => cur'[p] \notin {13, 20})
    BY <1>1, <1>4, <1>5
  <2>5. Upto(cur'[p]) \subseteq schema' /\ cur'[p] # 1
        /\ Created(Script(cur'[p] + 1)) \subseteq schema' \cup LegacyIds
    BY <1>1, <2>2, <2>3
  <2> QED
    BY <2>1, <2>4, <2>5 DEF WholeFor
<1> QED
  BY <1>1, <1>5, <1>6, WholeStep

LEMMA WholeLookForColumns ==
    ASSUME LateInv, PairsInv, WholeInv, NEW p \in Opener, LookForColumns(p) PROVE WholeInv'
<1>1. UNCHANGED <<version, schema, begun, cur>> /\ pc[p] = "columns" /\ Goto(p, "adding")
  BY DEF LookForColumns, database, counters
<1>2. pc' = [q \in Opener |-> IF q = p THEN "adding" ELSE pc[q]]
  BY <1>1 DEF Goto, LateInv, MarksInv, LadderTypeOK
<1>3. next' = [q \in Opener |-> IF q = p THEN 1 ELSE next[q]]
  BY DEF LookForColumns, LateInv, MarksInv, LadderTypeOK
<1>4. /\ \A q \in Opener : q # p => seen'[q] = seen[q]
      /\ seen'[p].columns = Columns(Hooked(p))
  BY DEF LookForColumns, LateInv, MarksInv, NotesTypeOK
<1>5. ASSUME begun.version # 1, VersionWhole, WholeFor(p) PROVE VersionWhole' /\ WholeFor(p)'
  <2>1. VersionWhole'
    BY <1>1, <1>5 DEF VersionWhole
  <2>2. pc[p] \in Rung \ {"script"}
    BY <1>1 DEF Rung
  <2>3. Upto(cur[p]) \subseteq schema /\ cur[p] # 1
        /\ Created(Script(cur[p] + 1)) \subseteq schema \cup LegacyIds
    BY <1>5, <2>2 DEF WholeFor
  <2>4. Hooked(p)' = Hooked(p)
    BY <1>1 DEF Hooked
  <2>6. \A c \in seen'[p].columns : <<Hooked(p), c>> \in schema
    BY <1>4 DEF Columns, PairsInv
  <2>7. HookDone(p, next[p])'
    BY <1>3 DEF HookDone
  <2>8. pc'[p] = "adding" /\ schema' = schema /\ cur'[p] = cur[p]
    BY <1>1, <1>2
  <2> QED
    BY <2>1, <2>3, <2>4, <2>6, <2>7, <2>8 DEF WholeFor
<1> QED
  BY <1>1, <1>2, <1>3, <1>4, <1>5, WholeStep


LEMMA WholeAddColumn == ASSUME LateInv, WholeInv, NEW p \in Opener, AddColumn(p) PROVE WholeInv'
<1>1. UNCHANGED <<version, begun, cur, seen>> /\ pc[p] = "adding" /\ next[p] \in Nat
      /\ next[p] <= 2
  BY DEF AddColumn, counters, LateInv, MarksInv, LadderTypeOK
<1> DEFINE add == Add(Hooked(p), HookColumns(p)[next[p]])
<1>2. CASE Goto(p, "failed") /\ UNCHANGED <<schema, next>>
  BY <1>1, <1>2, WholeMove
<1>3. CASE /\ \/ add.column \in seen[p].columns /\ UNCHANGED schema
              \/ schema' = SchemaAfter(add)
           /\ next' = [next EXCEPT ![p] = @ + 1] /\ UNCHANGED pc
  <2>1. next' = [q \in Opener |-> IF q = p THEN next[p] + 1 ELSE next[q]]
    BY <1>3 DEF LateInv, MarksInv, LadderTypeOK
  <2>2. schema \subseteq schema'
    BY <1>3 DEF SchemaAfter, Add
  <2>3. ASSUME begun.version # 1, VersionWhole, WholeFor(p) PROVE VersionWhole' /\ WholeFor(p)'
    <3>1. VersionWhole'
      BY <1>1, <2>2, <2>3 DEF VersionWhole
    <3>2. pc[p] \in Rung \ {"script"}
      BY <1>1 DEF Rung
    <3>3. Upto(cur[p]) \subseteq schema' /\ cur[p] # 1
          /\ Created(Script(cur[p] + 1)) \subseteq schema' \cup LegacyIds
      BY <2>2, <2>3, <3>2 DEF WholeFor
    <3>4. \A c \in seen[p].columns : <<Hooked(p), c>> \in schema'
      BY <1>1, <2>2, <2>3 DEF WholeFor
    <3>5. <<Hooked(p), HookColumns(p)[next[p]]>> \in schema'
      BY <1>3, <2>2, <3>4 DEF SchemaAfter, Add
    <3>6. HookDone(p, next[p])
      BY <1>1, <2>3 DEF WholeFor
    <3>7. \A i \in 1 .. 2 : i < next[p] + 1 => <<Hooked(p), HookColumns(p)[i]>> \in schema'
      BY <1>1, <2>2, <3>5, <3>6 DEF HookDone
    <3>8. Hooked(p)' = Hooked(p) /\ HookColumns(p)' = HookColumns(p)
      BY <1>1 DEF Hooked, HookColumns
    <3>9. HookDone(p, next[p])' /\ \A c \in seen'[p].columns : <<Hooked(p)', c>> \in schema'
      BY <1>1, <2>1, <3>4, <3>7, <3>8 DEF HookDone
    <3>10. pc'[p] = "adding" /\ cur'[p] = cur[p]
      BY <1>1, <1>3
    <3> QED
      BY <3>1, <3>3, <3>9, <3>10 DEF WholeFor
  <2> QED
    BY <1>1, <1>3, <2>1, <2>2, <2>3, WholeStep
<1> QED
  BY <1>2, <1>3, Zenon DEF AddColumn

LEMMA WholeEndColumns == ASSUME LateInv, WholeInv, NEW p \in Opener, EndColumns(p) PROVE WholeInv'
<1>1. UNCHANGED <<version, schema, begun, cur, next, seen>> /\ pc[p] = "adding" /\ next[p] > 2
      /\ pc[p] \in Rung \ {"script", "bump"} /\ next[p] \in Nat
  BY DEF EndColumns, database, counters, Rung, LateInv, MarksInv, LadderTypeOK
<1>2. cur[p] \in {13, 20}
  BY <1>1 DEF LateInv, HooksInv
<1>3. PICK place \in {"collapse", "bump"} : Goto(p, place) /\ (place = "collapse" => cur[p] = 13)
  BY <1>2 DEF EndColumns
<1>4. pc' = [q \in Opener |-> IF q = p THEN place ELSE pc[q]]
  BY <1>3 DEF Goto, LateInv, MarksInv, LadderTypeOK
<1>5. ASSUME begun.version # 1, VersionWhole, WholeFor(p) PROVE VersionWhole' /\ WholeFor(p)'
  <2>1. VersionWhole'
    BY <1>1, <1>5 DEF VersionWhole
  <2>2. Upto(cur[p]) \subseteq schema /\ cur[p] # 1
        /\ Created(Script(cur[p] + 1)) \subseteq schema \cup LegacyIds /\ HookDone(p, next[p])
    BY <1>1, <1>5 DEF WholeFor
  <2>3. HookDone(p, 3)'
    BY <1>1, <2>2 DEF HookDone, Hooked, HookColumns
  <2>4. pc'[p] = place
    BY <1>4
  <2> QED
    BY <1>1, <1>3, <2>1, <2>2, <2>3, <2>4 DEF WholeFor
<1> QED
  BY <1>1, <1>4, <1>5, WholeStep


LEMMA WholeBump == ASSUME LateInv, WholeInv, NEW p \in Opener, Bump(p) PROVE WholeInv'
<1>1. UNCHANGED <<schema, begun, seen>> /\ pc[p] = "bump" /\ pc[p] \in Rung \ {"script"}
      /\ version' = cur[p] + 1 /\ ClimbOn(p) /\ cur[p] \in 1 .. 22
  BY DEF Bump, counters, Rung, LateInv, MarksInv, LadderTypeOK
<1>2. PICK place \in {"extend", "script"} :
            Goto(p, place) /\ (place = "extend" => cur[p] = 22)
  BY <1>1 DEF ClimbOn, SchemaVersion
<1>3. pc' = [q \in Opener |-> IF q = p THEN place ELSE pc[q]]
  BY <1>2 DEF Goto, LateInv, MarksInv, LadderTypeOK
<1>4. /\ cur' = [q \in Opener |-> IF q = p THEN cur[p] + 1 ELSE cur[q]]
      /\ next' = [q \in Opener |-> IF q = p THEN 1 ELSE next[q]]
  BY <1>1 DEF ClimbOn, LateInv, MarksInv, LadderTypeOK
<1>5. ASSUME begun.version # 1, VersionWhole, WholeFor(p) PROVE VersionWhole' /\ WholeFor(p)'
  <2>1. /\ cur[p] \in 2 .. 22 /\ Upto(cur[p]) \subseteq schema
        /\ Created(Script(cur[p] + 1)) \subseteq schema \cup LegacyIds
        /\ cur[p] \in {13, 20} => HookDone(p, 3)
    BY <1>1, <1>5 DEF WholeFor
  <2>2. /\ cur[p] = 13 => \A i \in 1 .. 2 : <<"activity_log", SyncColumns[i]>> \in schema
        /\ cur[p] = 20 => \A i \in 1 .. 2 : <<"write_conflicts", ConflictColumns[i]>> \in schema
    BY <2>1 DEF HookDone, Hooked, HookColumns
  <2>3. Upto(cur[p] + 1) \subseteq schema
    BY <2>1, <2>2, ClimbSchema
  <2>4. VersionWhole'
    BY <1>1, <2>1, <2>3 DEF VersionWhole
  <2>5. Done(Script(cur[p] + 2), 1) = {}
    BY DEF Done
  <2>6. pc'[p] = place /\ cur'[p] = cur[p] + 1 /\ next'[p] = 1
    BY <1>3, <1>4
  <2>7. CASE place = "script"
    <3>1. Done(Script(cur'[p] + 1), next'[p]) = {}
      BY <2>6 DEF Done
    <3>2. cur'[p] # 1 /\ Upto(cur'[p]) \subseteq schema'
      BY <1>1, <2>1, <2>3, <2>6
    <3>3. pc'[p] = "script"
      BY <2>6, <2>7
    <3> QED
      BY <2>4, <3>1, <3>2, <3>3 DEF WholeFor
  <2>8. CASE place = "extend"
    <3>1. pc'[p] = "extend" /\ "extend" \notin Rung
      BY <2>6, <2>8 DEF Rung
    <3>2. Upto(23) \subseteq schema'
      <4>1. cur[p] + 1 = 23
        BY <1>2, <2>8
      <4> QED
        BY <1>1, <2>3, <4>1
    <3> QED
      BY <2>4, <3>1, <3>2 DEF WholeFor
  <2> QED
    BY <1>2, <2>7, <2>8
<1> QED
  BY <1>1, <1>3, <1>4, <1>5, WholeStep

LEMMA WholeCollapse == ASSUME LateInv, WholeInv, NEW p \in Opener, Collapse(p) PROVE WholeInv'
<1>1. UNCHANGED <<begun, seen>> /\ pc[p] = "collapse"
      /\ pc[p] \in Rung \ {"script"} /\ cur[p] \in 1 .. 22
  BY DEF Collapse, counters, Rung, LateInv, MarksInv, LadderTypeOK
<1>2. CASE Goto(p, "failed") /\ UNCHANGED <<version, schema, cur, next>>
  BY <1>1, <1>2, WholeMove
<1>3. CASE ClimbOn(p) /\ schema' = schema \ (Legacy \X {"id"}) /\ version' = 14
  <2>1. PICK place \in {"extend", "script"} :
              Goto(p, place) /\ (place = "extend" => cur[p] = 22)
    BY <1>1, <1>3 DEF ClimbOn, SchemaVersion
  <2>2. pc' = [q \in Opener |-> IF q = p THEN place ELSE pc[q]]
    BY <2>1 DEF Goto, LateInv, MarksInv, LadderTypeOK
  <2>3. /\ cur' = [q \in Opener |-> IF q = p THEN cur[p] + 1 ELSE cur[q]]
        /\ next' = [q \in Opener |-> IF q = p THEN 1 ELSE next[q]]
    BY <1>3 DEF ClimbOn, LateInv, MarksInv, LadderTypeOK
  <2>4. schema' = schema \ LegacyIds
    BY <1>3 DEF LegacyIds
  <2>5. ASSUME begun.version # 1, VersionWhole, WholeFor(p) PROVE VersionWhole' /\ WholeFor(p)'
    <3>1. /\ cur[p] = 13 /\ Upto(13) \subseteq schema
          /\ Created(Script(14)) \subseteq schema \cup LegacyIds /\ HookDone(p, 3)
      BY <1>1, <2>5 DEF WholeFor
    <3>2. \A i \in 1 .. 2 : <<"activity_log", SyncColumns[i]>> \in schema
      BY <3>1 DEF HookDone, Hooked, HookColumns
    <3>3. Upto(14) \subseteq schema
      BY <3>1, <3>2, ClimbSchema
    <3>4. Upto(14) \subseteq schema'
      BY <2>4, <3>3 DEF Upto
    <3>5. VersionWhole'
      BY <1>3, <3>4 DEF VersionWhole
    <3>6. pc'[p] = "script" /\ cur'[p] = 14 /\ next'[p] = 1
      BY <2>1, <2>2, <2>3, <3>1
    <3>7. Done(Script(cur'[p] + 1), next'[p]) = {}
      BY <3>6 DEF Done
    <3> QED
      BY <3>4, <3>5, <3>6, <3>7 DEF WholeFor
  <2> QED
    BY <1>1, <2>2, <2>3, <2>4, <2>5, WholeStep
<1> QED
  BY <1>2, <1>3 DEF Collapse

LEMMA WholeServe ==
    ASSUME LateInv, WholeInv, NEW p \in Opener, InitialiseFresh(p) \/ Extend(p) PROVE WholeInv'
<1>1. /\ UNCHANGED <<begun, cur, next, seen>> /\ schema \subseteq schema'
      /\ pc[p] \in {"fresh", "fresh_bump", "extend"}
  BY DEF InitialiseFresh, Extend, counters
<1>2. PICK place \in {"fresh_bump", "opened", "extend"} : Goto(p, place)
  BY DEF InitialiseFresh, Extend, Goto, LateInv, MarksInv, LadderTypeOK
<1>3. pc' = [q \in Opener |-> IF q = p THEN place ELSE pc[q]]
  BY <1>2 DEF Goto, LateInv, MarksInv, LadderTypeOK
<1>4. place \notin Rung
  BY <1>2 DEF Rung
<1>5. ASSUME begun.version # 1, VersionWhole, WholeFor(p) PROVE VersionWhole' /\ WholeFor(p)'
  <2>1. CASE InitialiseFresh(p)
    <3>1. ServedSchema \subseteq schema' /\ version' \in {version, 23}
      BY <1>5, <2>1 DEF InitialiseFresh, WholeFor, SchemaVersion
    <3>2. Upto(23) \subseteq schema'
      BY <3>1, ServedIsUpto
    <3>3. VersionWhole'
      BY <1>1, <1>5, <3>1, <3>2 DEF VersionWhole
    <3>4. pc'[p] = place
      BY <1>3
    <3> QED
      BY <1>4, <3>1, <3>2, <3>3, <3>4 DEF WholeFor, Rung
  <2>2. CASE Extend(p)
    <3>1. version' = version /\ pc[p] = "extend"
      BY <2>2 DEF Extend
    <3>2. VersionWhole'
      BY <1>1, <1>5, <3>1 DEF VersionWhole
    <3>3. Upto(23) \subseteq schema'
      BY <1>1, <1>5, <3>1 DEF WholeFor
    <3>4. pc'[p] \in {"extend", "opened"}
      BY <1>3, <2>2, <3>1 DEF Extend, Goto
    <3>5. pc'[p] = "opened" => {<<t, "id">> : t \in Extension} \subseteq schema'
      BY <2>2, <3>1 DEF Extend, Exists
    <3>6. pc'[p] = "opened" => ServedSchema \subseteq schema'
      BY <3>3, <3>5, ServedIsUpto
    <3>7. pc'[p] \notin Rung
      BY <1>3, <1>4
    <3> QED
      BY <3>2, <3>3, <3>4, <3>6, <3>7 DEF WholeFor, Rung
  <2> QED
    BY <2>1, <2>2
<1> QED
  BY <1>1, <1>3, <1>5, WholeStep

LEMMA WholeNext == ASSUME LateInv, PairsInv, WholeInv, [Next]_vars PROVE WholeInv'
<1>1. ASSUME NEW p \in Opener, Open(p) \/ Close(p) \/ Crash(p) PROVE WholeInv'
  BY <1>1, WholeOpen, WholeRest
<1>2. ASSUME NEW p \in Opener, Climb(p) PROVE WholeInv'
  BY <1>2, WholeServe, WholeStatement, WholeEndScript, WholeBump, WholeRest, WholeLookForColumns,
     WholeAddColumn, WholeEndColumns, WholeCollapse DEF Climb
<1>3. ASSUME UNCHANGED <<version, schema, begun, pc, cur, next, seen>> PROVE WholeInv'
  BY <1>3, WholeFrame DEF WholeInv, VersionWhole
<1>4. ASSUME NEW p \in Opener, (\E r \in Row : RecordDisposition(p, r))
                                \/ \E t \in DOMAIN trust : Promote(p, t)
      PROVE  UNCHANGED <<version, schema, begun, pc, cur, next, seen>>
  BY <1>4 DEF RecordDisposition, Promote, local, counters
<1> QED
  BY <1>1, <1>2, <1>3, <1>4 DEF Next, vars, database, local, counters

\* Whoever opens the database finds every table and column this build uses,
\* whatever late openers, failures and kills there are.
THEOREM OpenedDatabaseIsWhole == Spec => []OpenedIsWhole
<1>1. Init => PairsInv /\ WholeInv
  <2> SUFFICES ASSUME Init PROVE PairsInv /\ WholeInv
    OBVIOUS
  <2>1. PairsInv
    BY SchemasArePairs DEF Init, PairsInv
  <2> QED
    BY <2>1, WholeInit
<1>2. LateInv /\ PairsInv /\ WholeInv /\ [Next]_vars => PairsInv' /\ WholeInv'
  BY PairsNext, WholeNext
<1>3. WholeInv => OpenedIsWhole
  BY DEF WholeInv, WholeFor, OpenedIsWhole
<1> QED
  BY <1>1, <1>2, <1>3, LateInvariant, PTL DEF Spec
=============================================================================

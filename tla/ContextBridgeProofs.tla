------------------------- MODULE ContextBridgeProofs -------------------------
(***************************************************************************)
(* The sections, the fallback file and the ledger of refused writes.       *)
(*                                                                         *)
(* About ContextBridge: whatever a client, an operator, an export or the   *)
(* file remembers of a section stays a true memory of it, for any number   *)
(* of processes, operators, sections and versions.  The ground is that     *)
(* sections only move forward (Rewritten), and that nothing durable moves  *)
(* while another connection has the write lock.                            *)
(*                                                                         *)
(* About WriteConflicts, where the refusals of a section write end up: the *)
(* ledger is bounded and tells the truth for any number of writers,        *)
(* identities, surfaces and reports, and counts every one of them once.    *)
(***************************************************************************)
EXTENDS ContextBridge, WriteConflicts, FiniteSetTheorems, TLAPS

-----------------------------------------------------------------------------
(* The inductive invariant of ContextBridge *)

\* Between two states of the table each section stays as it is or gets a new
\* version, which nobody has approved yet.
Rewritten(old, new) ==
    \A s \in Sections :
        \/ new[s] = old[s]
        \/ new[s].version > old[s].version /\ new[s].trust # "operator"

\* The same, when an operator may have approved a version.
Grows(old, new) ==
    \A s \in Sections :
        /\ new[s].version >= old[s].version
        /\ new[s].version = old[s].version => new[s].content = old[s].content

\* A row somebody read or recorded is a version the table had.
Remembers(table, s, row) ==
    /\ row.version <= table[s].version
    /\ row.version = table[s].version => row.content = table[s].content

\* A section has a text from its first version on.
TableSound(table) ==
    \A s \in Sections : table[s].version = 0 <=> table[s].content = NoText

\* What is staged moves the tables forward, and replaces what is exported.
TxnSound ==
    txn # NoTxn =>
        /\ TableSound(txn.sec) /\ Rewritten(sec, txn.sec)
        /\ imports \subseteq txn.imports /\ refusals \subseteq txn.refusals
        /\ \A r \in txn.imports \ imports :
              r.previous > 0 => base[r.section].version = r.previous

BaseSound == \A s \in FileSections : Remembers(sec, s, base[s])

FileSound ==
    file # NoFile /\ file.origin = "exported" =>
        \A s \in FileSections :
            /\ file.from[s] <= sec[s].version
            /\ file.from[s] > 0 /\ file.from[s] = sec[s].version
                  => file.image.body[s] = sec[s].content

ReviewsSound ==
    \A o \in Operators :
        review[o] # Idle => Remembers(sec, review[o].section, review[o].row)

\* A client that reads while its connection has a transaction open reads that
\* transaction.
EditSound(p) ==
    call[p].op = "editing" =>
        IF txn.by = p THEN call[p].row = txn.sec[call[p].section]
                      ELSE Remembers(sec, call[p].section, call[p].row)

\* There is a receipt for the text of the file, and the version it names.
Imported(read, s, receipts, table) ==
    \E r \in receipts : /\ r.section = s /\ r.content = read.image.body[s]
                        /\ table[s].version >= r.imported

\* The sections the batch is done with are settled, and what it reports of them
\* is stored or staged.
SyncSound(p) ==
    call[p].op \in {"syncing", "synced"} =>
        /\ \A i \in 1 .. Len(FileOrder) :
              i < call[p].at => call[p].outcome[FileOrder[i]] # "pending"
        /\ \A s \in FileSections :
              /\ call[p].outcome[s] = "imported" =>
                    Imported(call[p].file, s, Staged(p).imports, View(p))
              /\ call[p].outcome[s] = "refused" => s \in Staged(p).refusals

\* What is about to be replaced was exported at the version that was seen, or
\* at a later one.
PlanSound(p) ==
    call[p].op = "syncing" /\ call[p].plan # "look" =>
        /\ call[p].at <= Len(FileOrder)
        /\ call[p].plan = "replace" =>
              base[SyncSection(p)].version >= call[p].version

SyncedIsOver(p) ==
    call[p].op = "synced" => txn.by # p /\ call[p].at > Len(FileOrder)

\* An export has the write lock, so that nothing it rendered has changed since;
\* the file it compared may have been edited.
ExportSound(p) ==
    call[p].op \in {"compared", "replaced"} =>
        /\ txn.by = p /\ txn.sec = sec
        /\ call[p].image = RenderOf(sec) /\ call[p].versions = VersionsOf(sec)
        /\ call[p].op = "compared" =>
              /\ file = call[p].saw \/ (file # NoFile /\ file.origin = "edited")
              /\ (call[p].saw # NoFile /\ published # NoFile) =>
                    \/ call[p].saw.image = published
                    \/ AlreadyRendered(p)
        /\ call[p].op = "replaced" =>
              file # NoFile /\ (file.origin = "exported" => file.image = call[p].image)

CallSound(p) ==
    EditSound(p) /\ SyncSound(p) /\ PlanSound(p) /\ SyncedIsOver(p) /\ ExportSound(p)

ContextInv ==
    /\ TypeOK
    /\ TableSound(sec) /\ TxnSound /\ BaseSound /\ FileSound /\ ReviewsSound
    /\ \A p \in Processes : CallSound(p)
    /\ TrackedUnlessEdited

-----------------------------------------------------------------------------
(* Types *)

LEMMA Order ==
    /\ FileSections \subseteq Sections /\ Len(FileOrder) \in Nat
    /\ \A i \in 1 .. Len(FileOrder) : FileOrder[i] \in FileSections
    /\ \A s \in FileSections : \E i \in 1 .. Len(FileOrder) : FileOrder[i] = s
<1>1. /\ Len(FileOrder) \in Nat /\ DOMAIN FileOrder = 1 .. Len(FileOrder)
      /\ \A i \in 1 .. Len(FileOrder) : FileOrder[i] \in Sections
  BY ContextAssumption DEF ContextAssumption
<1> QED
  BY <1>1 DEF FileSections, ToSet

LEMMA Kinds ==
    ASSUME TypeOK, NEW p \in Processes
    PROVE  /\ call[p].op = "editing" => call[p].section \in Sections /\ call[p].row \in Section
           /\ call[p].op \in {"creating", "blind"} => call[p].section \in Sections
           /\ call[p].op \in {"syncing", "synced"} => call[p] \in SyncCall
           /\ call[p].op \in {"compared", "replaced"} => call[p] \in ExportCall
           /\ call[p] = Idle \/ call[p] \in OwnerCall \cup SyncCall \cup ExportCall
BY DEF TypeOK, Idle, OwnerCall, SyncCall, ExportCall

Txns == [by : Processes, sec : [Sections -> Section],
         imports : SUBSET ImportReceipt, refusals : SUBSET Sections]

\* What a connection sees and has staged is well formed.
LEMMA ViewType ==
    ASSUME TypeOK, NEW p \in Processes
    PROVE  View(p) \in [Sections -> Section] /\ Staged(p) \in Txns
           /\ Staged(p).sec = View(p) /\ Staged(p).by = p
BY ContextAssumption DEF TypeOK, ContextAssumption, View, Staged, Txns, NoTxn

LEMMA TextTypes ==
    /\ Payloads \subseteq Texts /\ NoText \notin Texts /\ 0 \in 0 .. MaxVersion
    /\ MaxVersion \in Nat \ {0}
BY ContextAssumption DEF ContextAssumption, Payloads, Texts

LEMMA WrittenType ==
    ASSUME NEW row \in Section, row.version < MaxVersion, NEW text \in Texts,
           NEW trust \in Trusts
    PROVE  /\ Written(row, text, trust) \in Section
           /\ Written(row, text, trust).version = row.version + 1
           /\ Written(row, text, trust).content = text
           /\ Written(row, text, trust).trust = trust
BY TextTypes DEF Written, Section

LEMMA ClampType ==
    ASSUME NEW trust \in Asked PROVE Clamp(trust) \in Trusts \ {"operator"}
BY ContextAssumption DEF ContextAssumption, Clamp, Trusts

LEMMA RenderType ==
    ASSUME TypeOK, TableSound(sec)
    PROVE  RenderOf(sec) \in Image /\ VersionsOf(sec) \in [FileSections -> 0 .. MaxVersion]
<1>1. \A s \in FileSections : sec[s] \in Section /\ (sec[s].version > 0 => sec[s].content \in Texts)
  BY Order, TextTypes DEF TypeOK, Section, TableSound
<1>2. world \in -1 .. MaxWorld
  BY ContextAssumption DEF ContextAssumption, TypeOK
<1>3. [s \in FileSections |-> IF sec[s].version > 0 THEN sec[s].content ELSE Placeholder]
          \in [FileSections -> Texts]
  BY <1>1 DEF Texts
<1>4. [s \in FileSections |-> sec[s].trust] \in [FileSections -> Trusts \cup {"unknown"}]
  BY <1>1 DEF Section
<1>5. VersionsOf(sec) \in [FileSections -> 0 .. MaxVersion]
  BY <1>1 DEF Section, VersionsOf
<1> QED
  BY <1>2, <1>3, <1>4, <1>5 DEF RenderOf, Image

-----------------------------------------------------------------------------
(* What a step leaves alone *)

LEMMA GrowsFacts ==
    ASSUME NEW old \in [Sections -> Section]
    PROVE  /\ Grows(old, old) /\ Rewritten(old, old)
           /\ \A new \in [Sections -> Section] : Rewritten(old, new) => Grows(old, new)
BY DEF Rewritten, Grows, Section

LEMMA Remembered ==
    ASSUME NEW old \in [Sections -> Section], NEW new \in [Sections -> Section],
           Grows(old, new), NEW s \in Sections, NEW row, row.version \in Nat,
           Remembers(old, s, row)
    PROVE  Remembers(new, s, row)
BY DEF Grows, Remembers, Section

\* A connection that has the write lock sees what is stored, or newer.
LEMMA ViewGrows ==
    ASSUME ContextInv, NEW p \in Processes
    PROVE  /\ Rewritten(sec, View(p)) /\ Grows(sec, View(p)) /\ TableSound(View(p))
           /\ imports \subseteq Staged(p).imports /\ refusals \subseteq Staged(p).refusals
           /\ \A r \in Staged(p).imports \ imports :
                 r.previous > 0 => base[r.section].version = r.previous
<1>1. CASE txn.by = p
  <2>1. txn # NoTxn
    BY <1>1, ContextAssumption DEF ContextAssumption, NoTxn
  <2> QED
    BY <1>1, <2>1, GrowsFacts DEF ContextInv, TypeOK, TxnSound, View, Staged
<1>2. CASE txn.by # p
  BY <1>2, GrowsFacts DEF ContextInv, TypeOK, View, Staged
<1> QED
  BY <1>1, <1>2

\* What the call of q relies on while another process takes a step.
Frame(q) ==
    /\ call'[q] = call[q]
    /\ txn.by = q =>
          /\ txn' = txn /\ UNCHANGED <<sec, base, published, imports, refusals, world>>
          /\ file' = file \/ (file' # NoFile /\ file'.origin = "edited")
    /\ txn.by # q =>
          /\ txn'.by # q /\ Grows(sec, sec') /\ sec' \in [Sections -> Section]
          /\ imports \subseteq imports' /\ refusals \subseteq refusals'
          /\ \A s \in FileSections : base[s].version <= base'[s].version

LEMMA FrameEdit ==
    ASSUME ContextInv, NEW q \in Processes, Frame(q) PROVE EditSound(q)'
<1> SUFFICES ASSUME call[q].op = "editing" PROVE EditSound(q)'
  BY DEF Frame, EditSound
<1>1. call[q].section \in Sections /\ call[q].row \in Section
  BY Kinds DEF ContextInv
<1>2. CASE txn.by = q
  BY <1>2 DEF Frame, ContextInv, CallSound, EditSound
<1>3. CASE txn.by # q
  <2>1. Remembers(sec, call[q].section, call[q].row)
    BY <1>3 DEF ContextInv, CallSound, EditSound
  <2>2. Remembers(sec', call[q].section, call[q].row)
    BY <1>1, <1>3, <2>1, Remembered DEF Frame, ContextInv, TypeOK, Section
  <2> QED
    BY <1>3, <2>2 DEF Frame, EditSound, Remembers
<1> QED
  BY <1>2, <1>3

LEMMA ImportedGrows ==
    ASSUME NEW read, NEW s \in Sections,
           NEW receipts \in SUBSET ImportReceipt, NEW more, receipts \subseteq more,
           NEW old \in [Sections -> Section], NEW new \in [Sections -> Section],
           old[s].version <= new[s].version, Imported(read, s, receipts, old)
    PROVE  Imported(read, s, more, new)
<1>1. PICK r \in receipts : /\ r.section = s /\ r.content = read.image.body[s]
                           /\ old[s].version >= r.imported
  BY DEF Imported
<1>2. new[s].version >= r.imported
  BY <1>1 DEF Section, ImportReceipt
<1> QED
  BY <1>1, <1>2 DEF Imported

LEMMA FrameSync ==
    ASSUME ContextInv, NEW q \in Processes, Frame(q) PROVE SyncSound(q)'
<1> SUFFICES ASSUME call[q].op \in {"syncing", "synced"} PROVE SyncSound(q)'
  BY DEF Frame, SyncSound
<1>1. call'[q] = call[q] /\ SyncSound(q)
  BY DEF Frame, ContextInv, CallSound
<1>2. View(q) \in [Sections -> Section] /\ Staged(q).imports \subseteq ImportReceipt
  BY ViewType DEF ContextInv, Txns
<1>3. /\ \A s \in FileSections : View(q)'[s].version >= View(q)[s].version
      /\ Staged(q).imports \subseteq Staged(q)'.imports
      /\ Staged(q).refusals \subseteq Staged(q)'.refusals
      /\ View(q)' \in [Sections -> Section]
  <2>1. CASE txn.by = q
    <3>1. \A s \in FileSections : txn.sec[s].version \in Nat
      BY <1>2, <2>1, Order DEF View, Section
    <3> QED
      BY <1>2, <2>1, <3>1 DEF Frame, View, Staged
  <2>2. CASE txn.by # q
    BY <2>2, Order DEF Frame, View, Staged, Grows
  <2> QED
    BY <2>1, <2>2
<1>4. ASSUME NEW s \in FileSections,
             Imported(call[q].file, s, Staged(q).imports, View(q))
      PROVE  Imported(call[q].file, s, Staged(q)'.imports, View(q)')
  <2>1. View(q)[s].version <= View(q)'[s].version /\ s \in Sections
    BY <1>2, <1>3, Order DEF Section
  <2> QED
    BY <1>2, <1>3, <1>4, <2>1, ImportedGrows
<1> QED
  BY <1>1, <1>3, <1>4 DEF SyncSound, Imported

LEMMA FrameSound ==
    ASSUME ContextInv, NEW q \in Processes, Frame(q),
           base' \in [FileSections -> Base]
    PROVE  CallSound(q)'
<1>1. PlanSound(q)'
  <2> SUFFICES ASSUME call[q].op = "syncing", call[q].plan # "look"
               PROVE  PlanSound(q)'
    BY DEF Frame, PlanSound
  <2>1. call[q] \in SyncCall /\ call'[q] = call[q] /\ PlanSound(q)
    BY Kinds DEF Frame, ContextInv, CallSound
  <2>2. SyncSection(q) \in FileSections /\ call[q].at \in 1 .. Len(FileOrder)
    BY <2>1, Order DEF PlanSound, SyncCall, SyncSection
  <2>3. base[SyncSection(q)].version <= base'[SyncSection(q)].version
    BY <2>2 DEF Frame, ContextInv, TypeOK, Base
  <2>4. /\ base[SyncSection(q)].version \in Nat /\ base'[SyncSection(q)].version \in Nat
        /\ call[q].version \in Nat
    BY <2>1, <2>2 DEF ContextInv, TypeOK, Base, SyncCall
  <2> QED
    BY <2>1, <2>3, <2>4 DEF PlanSound, SyncSection
<1>2. SyncedIsOver(q)'
  BY DEF Frame, ContextInv, CallSound, SyncedIsOver
<1>3. ExportSound(q)'
  BY DEF Frame, ContextInv, CallSound, ExportSound, RenderOf, VersionsOf, AlreadyRendered, Rendered
<1> QED
  BY <1>1, <1>2, <1>3, FrameEdit, FrameSync DEF CallSound

-----------------------------------------------------------------------------
(* Steps of a process that leave the file and its records alone *)

StoreTyped ==
    /\ sec \in [Sections -> Section]
    /\ imports \subseteq ImportReceipt /\ refusals \subseteq Sections
    /\ txn = NoTxn \/ txn \in Txns

Calls == {Idle} \cup OwnerCall \cup SyncCall \cup ExportCall

Steady(p) ==
    /\ UNCHANGED <<base, published, job, file, review, world>>
    /\ call' = [call EXCEPT ![p] = call'[p]]
    /\ call[p].op # "replaced" /\ call'[p].op # "replaced"
    /\ Rewritten(sec, sec') /\ imports \subseteq imports' /\ refusals \subseteq refusals'
    /\ txn.by \notin {Nobody, p} => UNCHANGED <<sec, imports, refusals, txn>>
    /\ txn.by \in {Nobody, p} => txn'.by \in {Nobody, p}

\* What a step that takes the tables forward leaves true of what is recorded.
LEMMA RecordsKept ==
    ASSUME ContextInv, sec' \in [Sections -> Section], Grows(sec, sec')
    PROVE  /\ base' = base => BaseSound'
           /\ file' = file => FileSound'
           /\ review' = review => ReviewsSound'
<1>1. ASSUME base' = base PROVE BaseSound'
  <2> SUFFICES ASSUME NEW s \in FileSections PROVE Remembers(sec', s, base[s])
    BY <1>1 DEF BaseSound, Remembers
  <2>1. Remembers(sec, s, base[s]) /\ base[s].version \in Nat /\ s \in Sections
    BY Order DEF ContextInv, BaseSound, TypeOK, Base
  <2> QED
    BY <2>1, Remembered DEF ContextInv, TypeOK
<1>2. ASSUME file' = file PROVE FileSound'
  <2> SUFFICES ASSUME file # NoFile, file.origin = "exported", NEW s \in FileSections
               PROVE  /\ file.from[s] <= sec'[s].version
                      /\ file.from[s] > 0 /\ file.from[s] = sec'[s].version
                            => file.image.body[s] = sec'[s].content
    BY <1>2 DEF FileSound
  <2>1. /\ file.from[s] \in Nat /\ s \in Sections
        /\ sec[s].version \in Nat /\ sec'[s].version \in Nat
    BY Order DEF ContextInv, TypeOK, File, Section
  <2>2. /\ file.from[s] <= sec[s].version
        /\ file.from[s] > 0 /\ file.from[s] = sec[s].version
              => file.image.body[s] = sec[s].content
    BY DEF ContextInv, FileSound
  <2>3. sec[s].version <= sec'[s].version
        /\ (sec'[s].version = sec[s].version => sec'[s].content = sec[s].content)
    BY <2>1 DEF Grows
  <2> QED
    BY <2>1, <2>2, <2>3
<1>3. ASSUME review' = review PROVE ReviewsSound'
  <2> SUFFICES ASSUME NEW o \in Operators, review[o] # Idle
               PROVE  Remembers(sec', review[o].section, review[o].row)
    BY <1>3 DEF ReviewsSound, Remembers
  <2>1. /\ Remembers(sec, review[o].section, review[o].row)
        /\ review[o].row.version \in Nat /\ review[o].section \in Sections
    BY DEF ContextInv, ReviewsSound, TypeOK, Review, Section
  <2> QED
    BY <2>1, Remembered DEF ContextInv, TypeOK
<1> QED
  BY <1>1, <1>2, <1>3

LEMMA SteadyInv ==
    ASSUME ContextInv, NEW p \in Processes, Steady(p), StoreTyped', call'[p] \in Calls,
           TableSound(sec)', TxnSound', CallSound(p)'
    PROVE  ContextInv'
<1>1. Grows(sec, sec') /\ sec' \in [Sections -> Section]
  BY GrowsFacts DEF Steady, StoreTyped, ContextInv, TypeOK
<1>2. TypeOK'
  <2>1. call' \in [Processes -> {Idle} \cup OwnerCall \cup SyncCall \cup ExportCall]
    BY DEF Steady, Calls, ContextInv, TypeOK
  <2> QED
    BY <2>1 DEF Steady, StoreTyped, Txns, ContextInv, TypeOK
<1>3. BaseSound' /\ FileSound' /\ ReviewsSound'
  BY <1>1, RecordsKept DEF Steady
<1>4. ASSUME NEW q \in Processes PROVE CallSound(q)'
  <2>1. CASE q = p
    BY <2>1
  <2>2. CASE q # p
    <3>1. call'[q] = call[q]
      BY <2>2 DEF Steady, ContextInv, TypeOK
    <3>2. q # Nobody
      BY ContextAssumption DEF ContextAssumption
    <3>3. Frame(q)
      <4>1. txn.by = q => Frame(q)
        BY <3>1, <3>2, <2>2 DEF Steady, Frame
      <4>2. txn.by # q => Frame(q)
        <5> SUFFICES ASSUME txn.by # q PROVE Frame(q)
          OBVIOUS
        <5>1. txn'.by # q
          BY <3>2, <2>2 DEF Steady
        <5>2. \A s \in FileSections : base[s].version <= base'[s].version
          BY DEF Steady, ContextInv, TypeOK, Base
        <5> QED
          BY <1>1, <3>1, <5>1, <5>2 DEF Steady, Frame
      <4> QED
        BY <4>1, <4>2
    <3> QED
      BY <3>3, FrameSound, <1>2 DEF TypeOK
  <2> QED
    BY <2>1, <2>2
<1>5. TrackedUnlessEdited'
  <2> SUFFICES ASSUME file # NoFile, file.origin = "exported",
                      \A q \in Processes : call'[q].op # "replaced"
               PROVE  published = file.image
    BY DEF Steady, TrackedUnlessEdited
  <2>1. \A q \in Processes : call[q].op # "replaced"
    BY DEF Steady, ContextInv, TypeOK
  <2> QED
    BY <2>1 DEF ContextInv, TrackedUnlessEdited
<1> QED
  BY <1>2, <1>3, <1>4, <1>5 DEF ContextInv

-----------------------------------------------------------------------------
(* Owners *)

LEMMA IdleSound ==
    ASSUME NEW p \in Processes, call'[p] = Idle PROVE CallSound(p)'
BY DEF CallSound, EditSound, SyncSound, PlanSound, SyncedIsOver, ExportSound, Idle

LEMMA Returned ==
    ASSUME TypeOK, NEW p \in Processes, Return(p)
    PROVE  call'[p] = Idle /\ call' = [call EXCEPT ![p] = call'[p]] /\ call'[p] \in Calls
           /\ call'[p].op # "replaced"
BY DEF TypeOK, Return, Calls, Idle

\* A new text in a table: a version nobody has approved.
LEMMA RewriteOne ==
    ASSUME NEW old \in [Sections -> Section], NEW table \in [Sections -> Section],
           Rewritten(old, table), TableSound(table), NEW s \in Sections,
           table[s].version < MaxVersion,
           NEW text \in Texts, NEW trust \in Trusts \ {"operator"}
    PROVE  LET new == [table EXCEPT ![s] = Written(table[s], text, trust)]
           IN  new \in [Sections -> Section] /\ Rewritten(old, new) /\ TableSound(new)
<1> DEFINE row == Written(table[s], text, trust)
           new == [table EXCEPT ![s] = row]
<1>1. /\ row \in Section /\ row.version = table[s].version + 1
      /\ row.content = text /\ row.trust # "operator"
  BY WrittenType
<1>2. \A t \in Sections : new[t] = IF t = s THEN row ELSE table[t]
  OBVIOUS
<1>3. old[s].version <= table[s].version /\ old[s].version \in Nat /\ table[s].version \in Nat
  BY DEF Rewritten, Section
<1> HIDE DEF row
<1>4. new \in [Sections -> Section]
  BY <1>1
<1> HIDE DEF new
<1>5. Rewritten(old, new)
  BY <1>1, <1>2, <1>3 DEF Rewritten
<1>6. TableSound(new)
  BY <1>1, <1>2, <1>3, TextTypes DEF TableSound
<1> QED
  BY <1>4, <1>5, <1>6 DEF new, row

\* One call writes, commits and returns.
LEMMA CommitSound ==
    ASSUME ContextInv, NEW p \in Processes, Writable(p), call[p].op # "replaced",
           sec' \in [Sections -> Section], Rewritten(sec, sec'), TableSound(sec'),
           imports' = Staged(p).imports,
           refusals' \subseteq Sections, Staged(p).refusals \subseteq refusals',
           txn' = NoTxn, call'[p] \in Calls, call'[p].op # "replaced",
           call' = [call EXCEPT ![p] = call'[p]], CallSound(p)',
           UNCHANGED <<base, published, job, file, review, world>>
    PROVE  ContextInv'
<1>1. StoreTyped'
  BY ViewType DEF ContextInv, StoreTyped, Txns
<1>2. Steady(p)
  BY ViewGrows DEF Steady, Writable, NoTxn
<1>3. TxnSound'
  BY DEF TxnSound
<1> QED
  BY <1>1, <1>2, <1>3, SteadyInv DEF TableSound

LEMMA UpdateWinsInv ==
    ASSUME ContextInv, NEW p \in Processes, NEW token, NEW text \in Payloads,
           NEW trust \in Asked, UpdateWins(p, token, text, trust)
    PROVE  ContextInv'
<1> DEFINE s == call[p].section
           new == Written(View(p)[s], text, Clamp(trust))
<1>1. /\ call[p].op = "editing" /\ Writable(p) /\ View(p)[s].version < MaxVersion
      /\ sec' = [View(p) EXCEPT ![s] = new]
      /\ imports' = Staged(p).imports /\ refusals' = Staged(p).refusals
      /\ txn' = NoTxn /\ Return(p)
      /\ UNCHANGED <<base, published, job, file, review, world>>
  BY DEF UpdateWins, CommitSection
<1>2. s \in Sections
  BY <1>1, Kinds DEF ContextInv
<1>3. sec' \in [Sections -> Section] /\ Rewritten(sec, sec') /\ TableSound(sec')
  BY <1>1, <1>2, RewriteOne, ViewType, ViewGrows, TextTypes, ClampType DEF ContextInv, TypeOK
<1>4. Staged(p).refusals \subseteq Sections
  BY ViewType DEF ContextInv, Txns
<1> HIDE DEF new, s
<1> QED
  BY <1>1, <1>3, <1>4, CommitSound, Returned, IdleSound DEF ContextInv

LEMMA RefusalInv ==
    ASSUME ContextInv, NEW p \in Processes, UpdateLoses(p) \/ CreateBlind(p)
    PROVE  ContextInv'
<1>1. /\ call[p].op \in {"editing", "blind"} /\ Writable(p)
      /\ sec' = View(p) /\ imports' = Staged(p).imports
      /\ refusals' = Staged(p).refusals \cup {call[p].section}
      /\ txn' = NoTxn /\ Return(p)
      /\ UNCHANGED <<base, published, job, file, review, world>>
  BY DEF UpdateLoses, CreateBlind, CommitRefusal
<1>2. call[p].section \in Sections
  BY <1>1, Kinds DEF ContextInv
<1>3. Staged(p).refusals \subseteq Sections
  BY ViewType DEF ContextInv, Txns
<1> QED
  BY <1>1, <1>2, <1>3, CommitSound, Returned, IdleSound, ViewType, ViewGrows DEF ContextInv

\* A call ends and what its connection had staged is rolled back.
LEMMA DropInv ==
    ASSUME ContextInv, NEW p \in Processes, call[p].op # "replaced",
           txn' = IF txn.by = p THEN NoTxn ELSE txn,
           call'[p] = Idle, call' = [call EXCEPT ![p] = call'[p]],
           UNCHANGED <<sec, imports, refusals, base, published, job, file, review, world>>
    PROVE  ContextInv'
<1>1. StoreTyped' /\ TableSound(sec)'
  BY DEF ContextInv, TypeOK, StoreTyped, Txns, TableSound
<1>2. Steady(p) /\ call'[p] \in Calls
  BY GrowsFacts DEF Steady, ContextInv, TypeOK, NoTxn, Calls, Idle
<1>3. TxnSound'
  BY DEF ContextInv, TxnSound, TableSound, Rewritten
<1> QED
  BY <1>1, <1>2, <1>3, SteadyInv, IdleSound

LEMMA CreateInsertInv ==
    ASSUME ContextInv, NEW p \in Processes, NEW text \in Payloads, NEW trust \in Asked,
           CreateInsert(p, text, trust)
    PROVE  ContextInv'
<1> DEFINE s == call[p].section
<1>1. /\ call[p].op = "creating" /\ Writable(p) /\ View(p)[s].version = 0
      /\ txn' = NoTxn /\ Return(p)
      /\ UNCHANGED <<base, published, job, file, review, world>>
  BY DEF CreateInsert
<1>2. s \in Sections
  BY <1>1, Kinds DEF ContextInv
<1>3. CASE Fits(View(p), s, text)
  <2>1. /\ sec' = [View(p) EXCEPT ![s] = Written(Absent, text, Clamp(trust))]
        /\ imports' = Staged(p).imports /\ refusals' = Staged(p).refusals
    BY <1>3 DEF CreateInsert, CommitSection
  <2>2. Written(Absent, text, Clamp(trust)) = Written(View(p)[s], text, Clamp(trust))
    BY <1>1 DEF Written, Absent
  <2>3. sec' \in [Sections -> Section] /\ Rewritten(sec, sec') /\ TableSound(sec')
    <3>1. View(p)[s].version < MaxVersion
      BY <1>1, TextTypes
    <3>2. sec' = [View(p) EXCEPT ![s] = Written(View(p)[s], text, Clamp(trust))]
      BY <2>1, <2>2
    <3> HIDE DEF s
    <3> QED
      BY <1>2, <3>1, <3>2, RewriteOne, ViewType, ViewGrows, TextTypes, ClampType
         DEF ContextInv, TypeOK
  <2>4. Staged(p).refusals \subseteq Sections
    BY ViewType DEF ContextInv, Txns
  <2> QED
    BY <1>1, <2>1, <2>3, <2>4, CommitSound, Returned, IdleSound DEF ContextInv
<1>4. CASE ~Fits(View(p), s, text)
  <2>1. UNCHANGED <<sec, imports, refusals>>
    BY <1>4 DEF CreateInsert
  <2>2. txn' = IF txn.by = p THEN NoTxn ELSE txn
    BY <1>1, ContextAssumption DEF ContextAssumption, Writable, ContextInv, TypeOK
  <2> QED
    BY <1>1, <2>1, <2>2, DropInv, Returned DEF ContextInv
<1> QED
  BY <1>3, <1>4

\* Only what a call remembers changes.
LEMMA ReadInv ==
    ASSUME ContextInv, NEW p \in Processes,
           call[p].op # "replaced", call'[p].op # "replaced", call'[p] \in Calls,
           call' = [call EXCEPT ![p] = call'[p]], CallSound(p)',
           UNCHANGED <<db, txn, file, review, world>>
    PROVE  ContextInv'
<1>1. StoreTyped' /\ TableSound(sec)' /\ TxnSound'
  BY DEF ContextInv, TypeOK, StoreTyped, Txns, TableSound, TxnSound, Rewritten, db
<1>2. Steady(p)
  BY GrowsFacts DEF Steady, ContextInv, TypeOK, db
<1> QED
  BY <1>1, <1>2, SteadyInv

\* A connection that has the write lock stages something.
LEMMA StageInv ==
    ASSUME ContextInv, NEW p \in Processes, Writable(p),
           call[p].op # "replaced", call'[p].op # "replaced", call'[p] \in Calls,
           call' = [call EXCEPT ![p] = call'[p]], CallSound(p)',
           txn' \in Txns, txn'.by = p, TxnSound',
           UNCHANGED <<db, file, review, world>>
    PROVE  ContextInv'
<1>1. StoreTyped' /\ TableSound(sec)'
  BY DEF ContextInv, TypeOK, StoreTyped, TableSound, db
<1>2. Steady(p)
  BY GrowsFacts DEF Steady, ContextInv, TypeOK, db, Writable
<1> QED
  BY <1>1, <1>2, SteadyInv

LEMMA GetSectionInv ==
    ASSUME ContextInv, NEW p \in Processes, NEW s \in Sections, GetSection(p, s)
    PROVE  ContextInv'
<1> DEFINE c == [op |-> "editing", section |-> s, row |-> View(p)[s]]
<1>1. /\ call[p] = Idle /\ call' = [call EXCEPT ![p] = c]
      /\ UNCHANGED <<db, txn, file, review, world>>
  BY DEF GetSection
<1>2. View(p)[s] \in Section /\ call'[p] = c
  BY <1>1, ViewType DEF ContextInv, TypeOK
<1>3. c \in Calls /\ c.op = "editing" /\ c.section = s /\ c.row = View(p)[s]
  BY <1>2 DEF Calls, OwnerCall
<1> HIDE DEF c
<1>4. EditSound(p)'
  BY <1>1, <1>2, <1>3 DEF EditSound, View, Remembers, Section, db
<1>5. CallSound(p)'
  BY <1>2, <1>3, <1>4 DEF CallSound, SyncSound, PlanSound, SyncedIsOver, ExportSound
<1>6. call[p].op # "replaced" /\ call'[p].op # "replaced"
  BY <1>1, <1>2, <1>3 DEF Idle
<1> QED
  BY <1>1, <1>2, <1>3, <1>5, <1>6, ReadInv

LEMMA CreateReadInv ==
    ASSUME ContextInv, NEW p \in Processes, NEW s \in Sections, CreateRead(p, s)
    PROVE  ContextInv'
<1> DEFINE c == [op |-> IF View(p)[s].version > 0 THEN "blind" ELSE "creating",
                 section |-> s]
<1>1. /\ call[p] = Idle /\ call' = [call EXCEPT ![p] = c]
      /\ UNCHANGED <<db, txn, file, review, world>>
  BY DEF CreateRead
<1>2. c \in Calls /\ c.op \in {"blind", "creating"}
  BY DEF Calls, OwnerCall
<1>3. call'[p] = c
  BY <1>1 DEF ContextInv, TypeOK
<1> HIDE DEF c
<1>4. CallSound(p)'
  BY <1>2, <1>3 DEF CallSound, EditSound, SyncSound, PlanSound, SyncedIsOver, ExportSound
<1>5. call[p].op # "replaced" /\ call'[p].op # "replaced"
  BY <1>1, <1>2, <1>3 DEF Idle
<1> QED
  BY <1>1, <1>2, <1>3, <1>4, <1>5, ReadInv

LEMMA UpdateTooLargeInv ==
    ASSUME ContextInv, NEW p \in Processes, NEW token, NEW text, UpdateTooLarge(p, token, text)
    PROVE  ContextInv'
<1>1. /\ call[p].op = "editing" /\ Writable(p) /\ txn' = NoTxn /\ Return(p)
      /\ UNCHANGED <<sec, imports, refusals, base, published, job, file, review, world>>
  BY DEF UpdateTooLarge, db
<1>2. txn' = IF txn.by = p THEN NoTxn ELSE txn
  BY <1>1, ContextAssumption DEF ContextAssumption, Writable, ContextInv, TypeOK
<1> QED
  BY <1>1, <1>2, DropInv, Returned DEF ContextInv

\* A connection keeps its transaction open without a call.
LEMMA LeakInv ==
    ASSUME ContextInv, NEW p \in Processes, Writable(p), call[p].op # "replaced",
           txn' = Staged(p), Return(p), UNCHANGED <<db, file, review, world>>
    PROVE  ContextInv'
<1>1. txn' \in Txns /\ txn'.by = p /\ txn'.sec = View(p)
  BY ViewType DEF ContextInv
<1>2. TxnSound'
  BY <1>1, ViewGrows DEF TxnSound, TableSound, Rewritten, db
<1> QED
  BY <1>1, <1>2, StageInv, Returned, IdleSound DEF ContextInv

-----------------------------------------------------------------------------
(* sync_from_file *)

LEMMA SyncOpenInv ==
    ASSUME ContextInv, NEW p \in Processes, SyncOpen(p) PROVE ContextInv'
<1> DEFINE c == [op |-> "syncing", file |-> file, at |-> 1, plan |-> "look",
                 version |-> 0, outcome |-> [s \in FileSections |-> "pending"]]
<1>1. /\ call[p] = Idle /\ file # NoFile /\ call' = [call EXCEPT ![p] = c]
      /\ UNCHANGED <<db, txn, file, review, world>>
  BY DEF SyncOpen
<1>2. call'[p] = c /\ file \in File
  BY <1>1 DEF ContextInv, TypeOK
<1>3. c \in SyncCall
  BY <1>2, Order, TextTypes DEF SyncCall, Outcome
<1>4. /\ c.op = "syncing" /\ c.at = 1 /\ c.plan = "look"
      /\ \A s \in FileSections : c.outcome[s] = "pending"
  OBVIOUS
<1> HIDE DEF c
<1>5. CallSound(p)'
  BY <1>2, <1>4, Order DEF CallSound, EditSound, SyncSound, PlanSound, SyncedIsOver, ExportSound
<1>6. call[p].op # "replaced" /\ call'[p].op # "replaced" /\ call'[p] \in Calls
  BY <1>1, <1>2, <1>3, <1>4 DEF Idle, Calls
<1> QED
  BY <1>1, <1>2, <1>5, <1>6, ReadInv

\* The fields of a sync's record after a step.
LEMMA SettledRecord ==
    ASSUME NEW c \in SyncCall, NEW s \in FileSections, c.at \in 1 .. Len(FileOrder),
           NEW outcome \in {"unchanged", "imported", "refused"}
    PROVE  /\ SettledCall(c, s, outcome) \in SyncCall
           /\ SettledCall(c, s, outcome).op = c.op
           /\ SettledCall(c, s, outcome).file = c.file
           /\ SettledCall(c, s, outcome).at = c.at + 1
           /\ SettledCall(c, s, outcome).plan = "look"
           /\ \A t \in FileSections :
                 SettledCall(c, s, outcome).outcome[t] = IF t = s THEN outcome ELSE c.outcome[t]
<1> DEFINE d == SettledCall(c, s, outcome)
<1>1. c.at + 1 \in 1 .. Len(FileOrder) + 1
  BY Order
<1>2. /\ [c.outcome EXCEPT ![s] = outcome] \in Outcome
      /\ \A t \in FileSections : [c.outcome EXCEPT ![s] = outcome][t]
                                     = IF t = s THEN outcome ELSE c.outcome[t]
  BY DEF SyncCall, Outcome
<1>3. 0 \in 0 .. MaxVersion
  BY TextTypes
<1>4. d \in SyncCall
  BY <1>1, <1>2, <1>3 DEF SyncCall, SettledCall
<1>5. /\ d.op = c.op /\ d.file = c.file /\ d.at = c.at + 1
      /\ d.plan = "look" /\ d.outcome = [c.outcome EXCEPT ![s] = outcome]
  BY DEF SyncCall, SettledCall
<1> QED
  BY <1>2, <1>4, <1>5

LEMMA PlannedRecord ==
    ASSUME NEW c \in SyncCall, NEW plan \in {"look", "replace", "insert", "refuse"},
           NEW version \in 0 .. MaxVersion
    PROVE  PlannedCall(c, plan, version) \in SyncCall
BY DEF SyncCall, PlannedCall

\* One section of the batch is settled, with the evidence its outcome claims.
LEMMA SettleSound ==
    ASSUME ContextInv, NEW p \in Processes, call[p].op = "syncing",
           call[p].at <= Len(FileOrder),
           NEW outcome \in {"unchanged", "imported", "refused"}, Settle(p, outcome),
           View(p)' \in [Sections -> Section],
           \A s \in FileSections : View(p)[s].version <= View(p)'[s].version,
           Staged(p).imports \subseteq Staged(p)'.imports,
           Staged(p).refusals \subseteq Staged(p)'.refusals,
           outcome = "imported" =>
               Imported(call[p].file, SyncSection(p), Staged(p)'.imports, View(p)'),
           outcome = "refused" => SyncSection(p) \in Staged(p)'.refusals
    PROVE  /\ call'[p] \in Calls /\ call'[p].op = "syncing" /\ CallSound(p)'
           /\ call' = [call EXCEPT ![p] = call'[p]]
<1> DEFINE c == SettledCall(call[p], SyncSection(p), outcome)
<1>1. call[p] \in SyncCall /\ call[p].at \in 1 .. Len(FileOrder)
  BY Kinds DEF ContextInv, SyncCall
<1>2. SyncSection(p) \in FileSections
  BY <1>1, Order DEF SyncSection
<1>3. call' = [call EXCEPT ![p] = c] /\ call'[p] = c
  BY DEF Settle, ContextInv, TypeOK
<1>4. /\ c \in SyncCall /\ c.op = call[p].op /\ c.file = call[p].file
      /\ c.at = call[p].at + 1 /\ c.plan = "look"
      /\ \A s \in FileSections :
            c.outcome[s] = IF s = SyncSection(p) THEN outcome ELSE call[p].outcome[s]
  BY <1>1, <1>2, SettledRecord
<1> HIDE DEF c
<1>5. /\ c \in SyncCall /\ c.op = "syncing" /\ c.file = call[p].file
      /\ c.at = call[p].at + 1 /\ c.plan = "look"
  BY <1>4
<1>6. \A s \in FileSections :
         c.outcome[s] = IF s = SyncSection(p) THEN outcome ELSE call[p].outcome[s]
  BY <1>4
<1>7. ASSUME NEW i \in 1 .. Len(FileOrder), i < c.at
      PROVE  c.outcome[FileOrder[i]] # "pending"
  <2>1. FileOrder[i] \in FileSections
    BY Order
  <2>2. i < call[p].at \/ FileOrder[i] = SyncSection(p)
    BY <1>1, <1>5, <1>7 DEF SyncSection
  <2>3. i < call[p].at => call[p].outcome[FileOrder[i]] # "pending"
    BY DEF ContextInv, CallSound, SyncSound
  <2> QED
    BY <1>6, <2>1, <2>2, <2>3
<1>8. ASSUME NEW s \in FileSections
      PROVE  /\ c.outcome[s] = "imported" =>
                    Imported(c.file, s, Staged(p)'.imports, View(p)')
             /\ c.outcome[s] = "refused" => s \in Staged(p)'.refusals
  <2>1. CASE s = SyncSection(p)
    BY <1>5, <1>6, <2>1
  <2>2. CASE s # SyncSection(p)
    <3>1. /\ call[p].outcome[s] = "imported" =>
                 Imported(call[p].file, s, Staged(p).imports, View(p))
          /\ call[p].outcome[s] = "refused" => s \in Staged(p).refusals
      BY DEF ContextInv, CallSound, SyncSound
    <3>2. View(p) \in [Sections -> Section] /\ Staged(p).imports \in SUBSET ImportReceipt
      BY ViewType DEF ContextInv, Txns
    <3>3. s \in Sections
      BY Order
    <3> QED
      BY <1>5, <1>6, <2>2, <3>1, <3>2, <3>3, ImportedGrows
  <2> QED
    BY <2>1, <2>2
<1>9. SyncSound(p)'
  BY <1>3, <1>5, <1>7, <1>8 DEF SyncSound, Imported
<1>10. CallSound(p)'
  BY <1>3, <1>5, <1>9 DEF CallSound, EditSound, PlanSound, SyncedIsOver, ExportSound
<1> QED
  BY <1>3, <1>5, <1>10 DEF Calls

LEMMA SyncLookInv ==
    ASSUME ContextInv, NEW p \in Processes, SyncLook(p) PROVE ContextInv'
<1> DEFINE S == SyncSection(p)
           row == View(p)[S]
           plan == PlanFor(row, base[S])
<1>1. /\ call[p].op = "syncing" /\ call[p].at <= Len(FileOrder)
      /\ UNCHANGED <<db, txn, file, review, world>>
  BY DEF SyncLook
<1>2. call[p] \in SyncCall /\ call[p].at \in 1 .. Len(FileOrder) /\ call[p].op # "replaced"
  BY <1>1, Kinds DEF ContextInv, SyncCall
<1>3. S \in FileSections /\ S \in Sections /\ row \in Section /\ base[S] \in Base
  BY <1>2, Order, ViewType DEF SyncSection, ContextInv, TypeOK
<1>4. /\ View(p)' = View(p) /\ Staged(p)' = Staged(p)
      /\ View(p) \in [Sections -> Section]
  BY <1>1, ViewType DEF View, Staged, db, ContextInv
<1>5. CASE Settle(p, "unchanged")
  <2>1. \A s \in FileSections : View(p)[s].version <= View(p)'[s].version
    BY <1>4, Order DEF Section
  <2>2. /\ call'[p] \in Calls /\ call'[p].op = "syncing" /\ CallSound(p)'
        /\ call' = [call EXCEPT ![p] = call'[p]]
    BY <1>1, <1>4, <1>5, <2>1, SettleSound
  <2> QED
    BY <1>1, <1>2, <2>2, ReadInv
<1>6. CASE call' = [call EXCEPT ![p] = PlannedCall(@, plan, row.version)]
  <2> DEFINE c == PlannedCall(call[p], plan, row.version)
  <2>1. plan \in {"insert", "refuse", "replace"}
        /\ (plan = "replace" => row.version = base[S].version)
    BY <1>3 DEF PlanFor, Section
  <2>2. call' = [call EXCEPT ![p] = c] /\ call'[p] = c
    BY <1>6 DEF ContextInv, TypeOK
  <2> HIDE DEF plan
  <2>3. /\ c.op = "syncing" /\ c.file = call[p].file /\ c.at = call[p].at
        /\ c.plan = plan /\ c.version = row.version /\ c.outcome = call[p].outcome
        /\ c \in SyncCall
    <3>1. row.version \in 0 .. MaxVersion
      BY <1>3 DEF Section
    <3>2. plan \in {"look", "replace", "insert", "refuse"}
      BY <2>1
    <3> HIDE DEF row
    <3>3. /\ c \in SyncCall /\ c.op = call[p].op /\ c.file = call[p].file
          /\ c.at = call[p].at /\ c.plan = plan /\ c.version = row.version
          /\ c.outcome = call[p].outcome
      <4>1. call[p] \in SyncCall
        BY <1>2
      <4>2. c \in SyncCall
        BY <4>1, <3>1, <3>2, PlannedRecord
      <4> QED
        BY <4>1, <4>2 DEF SyncCall, PlannedCall
    <3> QED
      BY <1>1, <3>3
  <2> HIDE DEF c
  <2>4. SyncSound(p)'
    <3>1. SyncSound(p)
      BY DEF ContextInv, CallSound
    <3> QED
      BY <1>1, <1>4, <2>2, <2>3, <3>1 DEF SyncSound, Imported
  <2>5. PlanSound(p)'
    BY <1>1, <1>2, <1>3, <2>1, <2>2, <2>3 DEF PlanSound, SyncSection, db, Base
  <2>6. CallSound(p)'
    BY <2>2, <2>3, <2>4, <2>5 DEF CallSound, EditSound, SyncedIsOver, ExportSound
  <2>7. call'[p].op # "replaced" /\ call'[p] \in Calls
    BY <2>2, <2>3 DEF Calls
  <2> QED
    BY <1>1, <1>2, <2>2, <2>6, <2>7, ReadInv
<1> QED
  BY <1>5, <1>6 DEF SyncLook

LEMMA SyncEndsInv ==
    ASSUME ContextInv, NEW p \in Processes,
           SyncOversized(p) \/ SyncRaced(p) \/ SyncReturn(p) \/ CreateRaced(p)
    PROVE  ContextInv'
<1>1. CASE SyncOversized(p) \/ SyncReturn(p)
  <2>1. /\ call[p].op \in {"syncing", "synced"} /\ Return(p)
        /\ UNCHANGED <<db, txn, file, review, world>>
    BY <1>1 DEF SyncOversized, SyncReturn
  <2> QED
    BY <2>1, ReadInv, Returned, IdleSound DEF ContextInv
<1>2. CASE SyncRaced(p) \/ CreateRaced(p)
  <2>1. /\ call[p].op \in {"syncing", "creating"} /\ Return(p) /\ Writable(p)
        /\ txn' = Staged(p) /\ UNCHANGED <<db, file, review, world>>
    BY <1>2 DEF SyncRaced, CreateRaced
  <2> QED
    BY <2>1, LeakInv
<1> QED
  BY <1>1, <1>2

LEMMA StageRefusalInv ==
    ASSUME ContextInv, NEW p \in Processes, call[p].op = "syncing", call[p].plan # "look",
           Writable(p), StageRefusal(p), UNCHANGED <<db, file, review, world>>
    PROVE  ContextInv'
<1> DEFINE S == SyncSection(p)
<1>1. /\ txn' = [Staged(p) EXCEPT !.refusals = @ \cup {S}] /\ Settle(p, "refused")
      /\ call[p].at <= Len(FileOrder)
  BY DEF StageRefusal, ContextInv, CallSound, PlanSound
<1>2. S \in FileSections /\ S \in Sections
  BY <1>1, Kinds, Order DEF SyncSection, ContextInv, SyncCall
<1>3. View(p) \in [Sections -> Section] /\ Staged(p) \in Txns /\ Staged(p).sec = View(p)
      /\ Staged(p).by = p
  BY ViewType DEF ContextInv
<1> DEFINE t == [Staged(p) EXCEPT !.refusals = @ \cup {S}]
<1>4. /\ t \in Txns /\ t.by = p /\ t.sec = View(p) /\ t.imports = Staged(p).imports
      /\ t.refusals = Staged(p).refusals \cup {S}
  BY <1>2, <1>3 DEF Txns
<1> HIDE DEF t, S
<1>5. View(p)' = View(p) /\ Staged(p)' = t
  BY <1>1, <1>4 DEF View, Staged, t
<1>6. TxnSound'
  BY <1>1, <1>4, ViewGrows DEF TxnSound, TableSound, Rewritten, db, t
<1>7. \A s \in FileSections : View(p)[s].version <= View(p)'[s].version
  BY <1>3, <1>5, Order DEF Section
<1>8. /\ call'[p] \in Calls /\ call'[p].op = "syncing" /\ CallSound(p)'
      /\ call' = [call EXCEPT ![p] = call'[p]]
  <2>1. Staged(p).imports \subseteq Staged(p)'.imports
        /\ Staged(p).refusals \subseteq Staged(p)'.refusals /\ S \in Staged(p)'.refusals
    BY <1>4, <1>5
  <2> QED
    BY <1>1, <1>3, <1>5, <1>7, <2>1, SettleSound DEF S
<1> QED
  BY <1>1, <1>4, <1>6, <1>8, StageInv DEF t

LEMMA StageImportInv ==
    ASSUME ContextInv, NEW p \in Processes, call[p].op = "syncing", call[p].plan # "look",
           Writable(p), StageImport(p), UNCHANGED <<db, file, review, world>>,
           View(p)[SyncSection(p)].version > 0 =>
               call[p].plan = "replace" /\ View(p)[SyncSection(p)].version = call[p].version
    PROVE  ContextInv'
<1> DEFINE S == SyncSection(p)
           old == View(p)[S]
           receipt == ReceiptFor(p, old)
<1>1. CASE ~Fits(View(p), S, SyncText(p))
  <2>1. txn' = NoTxn /\ Return(p)
    BY <1>1 DEF StageImport
  <2>2. txn' = IF txn.by = p THEN NoTxn ELSE txn
    BY <2>1, ContextAssumption DEF ContextAssumption, Writable, ContextInv, TypeOK
  <2>3. UNCHANGED <<sec, imports, refusals, base, published, job, file, review, world>>
    BY DEF db
  <2> QED
    BY <2>1, <2>2, <2>3, DropInv, Returned DEF ContextInv
<1>2. CASE Fits(View(p), S, SyncText(p))
  <2> DEFINE t == [Staged(p) EXCEPT !.sec[S] = Written(old, SyncText(p), "ingested"),
                                    !.imports = @ \cup {receipt}]
             table == [View(p) EXCEPT ![S] = Written(old, SyncText(p), "ingested")]
  <2>1. /\ old.version < MaxVersion /\ txn' = t /\ Settle(p, "imported")
        /\ call[p].at <= Len(FileOrder)
    BY <1>2 DEF StageImport, ContextInv, CallSound, PlanSound
  <2>2. call[p] \in SyncCall /\ S \in FileSections /\ S \in Sections
    BY <2>1, Kinds, Order DEF SyncSection, ContextInv, SyncCall
  <2>3. SyncText(p) \in Texts /\ call[p].file.from[S] \in 0 .. MaxVersion
        /\ SyncText(p) = call[p].file.image.body[S]
    BY <2>2 DEF SyncCall, File, Image, SyncText
  <2>4. /\ View(p) \in [Sections -> Section] /\ old \in Section /\ Staged(p) \in Txns
        /\ Staged(p).sec = View(p) /\ Staged(p).by = p
    BY <2>2, ViewType DEF ContextInv
  <2>5. receipt \in ImportReceipt /\ receipt.section = S /\ receipt.content = SyncText(p)
        /\ receipt.previous = old.version /\ receipt.imported = old.version + 1
    BY <2>1, <2>2, <2>3, <2>4, TextTypes DEF ReceiptFor, ImportReceipt, Section
  <2> HIDE DEF receipt
  <2>6. /\ t.by = p /\ t.sec = table /\ t.imports = Staged(p).imports \cup {receipt}
        /\ t.refusals = Staged(p).refusals
        /\ (table \in [Sections -> Section] => t \in Txns)
    BY <2>4, <2>5 DEF Txns
  <2>7. /\ table \in [Sections -> Section] /\ Rewritten(sec, table) /\ TableSound(table)
        /\ table[S].version = old.version + 1
        /\ \A s \in Sections : View(p)[s].version <= table[s].version
    <3>1. "ingested" \in Trusts \ {"operator"} /\ sec \in [Sections -> Section]
      BY DEF Trusts, ContextInv, TypeOK
    <3>2. Rewritten(sec, View(p)) /\ TableSound(View(p))
      BY ViewGrows
    <3>3. /\ table \in [Sections -> Section] /\ Rewritten(sec, table) /\ TableSound(table)
      BY <2>1, <2>2, <2>3, <2>4, <3>1, <3>2, RewriteOne
    <3>4. Written(old, SyncText(p), "ingested").version = old.version + 1
      BY DEF Written
    <3>5. \A s \in Sections : table[s].version = IF s = S THEN old.version + 1
                                                ELSE View(p)[s].version
      BY <2>4, <3>4
    <3> QED
      BY <2>2, <2>4, <3>3, <3>5 DEF Section
  <2> HIDE DEF t, table, old, S
  <2>8. txn'.by = p /\ View(p)' = table /\ Staged(p)' = t
    BY <2>1, <2>6 DEF View, Staged
  <2>9. receipt.previous > 0 => base[S].version = receipt.previous
    <3> SUFFICES ASSUME old.version > 0 PROVE base[S].version = old.version
      BY <2>5
    <3>1. call[p].plan = "replace" /\ old.version = call[p].version
      BY DEF old, S
    <3>2. base[S].version >= old.version
      BY <3>1 DEF ContextInv, CallSound, PlanSound, S
    <3>3. base[S].version <= sec[S].version
      BY <2>2 DEF ContextInv, BaseSound, Remembers
    <3>4. sec[S].version <= old.version
      BY <2>2, ViewGrows DEF Grows, old
    <3>5. base[S].version \in Nat /\ sec[S].version \in Nat /\ old.version \in Nat
      BY <2>2, <2>4 DEF ContextInv, TypeOK, Base, Section
    <3> QED
      BY <3>2, <3>3, <3>4, <3>5
  <2>10. TxnSound'
    <3>1. /\ imports \subseteq t.imports /\ refusals \subseteq t.refusals
          /\ \A r \in t.imports \ imports : r.previous > 0 => base[r.section].version = r.previous
      BY <2>5, <2>6, <2>9, ViewGrows
    <3> QED
      BY <2>1, <2>6, <2>7, <3>1 DEF TxnSound, TableSound, Rewritten, db
  <2>11. Imported(call[p].file, S, Staged(p)'.imports, View(p)')
    <3>1. View(p)'[S].version >= receipt.imported
      BY <2>4, <2>5, <2>7, <2>8 DEF Section
    <3> QED
      BY <2>3, <2>5, <2>6, <2>8, <3>1 DEF Imported
  <2>12. /\ call'[p] \in Calls /\ call'[p].op = "syncing" /\ CallSound(p)'
         /\ call' = [call EXCEPT ![p] = call'[p]]
    <3>1. /\ View(p)' \in [Sections -> Section]
          /\ \A s \in FileSections : View(p)[s].version <= View(p)'[s].version
          /\ Staged(p).imports \subseteq Staged(p)'.imports
          /\ Staged(p).refusals \subseteq Staged(p)'.refusals
      BY <2>6, <2>7, <2>8, Order
    <3> QED
      BY <2>1, <2>11, <3>1, SettleSound DEF S
  <2> QED
    BY <2>1, <2>6, <2>7, <2>8, <2>10, <2>12, StageInv
<1> QED
  BY <1>1, <1>2

LEMMA SyncStageInv ==
    ASSUME ContextInv, NEW p \in Processes, SyncStage(p) PROVE ContextInv'
<1>1. /\ call[p].op = "syncing" /\ call[p].plan # "look" /\ Writable(p)
      /\ UNCHANGED <<db, file, review, world>>
  BY DEF SyncStage
<1>2. CASE StageRefusal(p)
  BY <1>1, <1>2, StageRefusalInv
<1>3. CASE StageImport(p) /\ (View(p)[SyncSection(p)].version > 0 =>
             call[p].plan = "replace" /\ View(p)[SyncSection(p)].version = call[p].version)
  BY <1>1, <1>3, StageImportInv
<1>4. StageRefusal(p) \/ (StageImport(p) /\ (View(p)[SyncSection(p)].version > 0 =>
             call[p].plan = "replace" /\ View(p)[SyncSection(p)].version = call[p].version))
  BY DEF SyncStage
<1> QED
  BY <1>2, <1>3, <1>4

LEMMA SyncCommitInv ==
    ASSUME ContextInv, NEW p \in Processes, SyncCommit(p) PROVE ContextInv'
<1>1. /\ call[p].op = "syncing" /\ call[p].at > Len(FileOrder)
      /\ call' = [call EXCEPT ![p].op = "synced"]
      /\ UNCHANGED <<base, published, job, file, review, world>>
  BY DEF SyncCommit
<1>2. call[p] \in SyncCall
  BY <1>1, Kinds DEF ContextInv
<1> DEFINE c == [call[p] EXCEPT !.op = "synced"]
<1>3. call' = [call EXCEPT ![p] = c] /\ call'[p] = c
  BY <1>1 DEF ContextInv, TypeOK
<1>4. c \in SyncCall /\ c.op = "synced" /\ c.file = call[p].file /\ c.at = call[p].at
      /\ c.outcome = call[p].outcome
  BY <1>2 DEF SyncCall
<1> HIDE DEF c
<1>5. sec' = View(p) /\ imports' = Staged(p).imports /\ refusals' = Staged(p).refusals
      /\ txn' = IF txn.by = p THEN NoTxn ELSE txn
  BY DEF SyncCommit, View, Staged
<1>6. txn'.by # p
  BY <1>5, ContextAssumption DEF ContextAssumption, NoTxn
<1>7. View(p)' = View(p) /\ Staged(p)'.imports = Staged(p).imports
      /\ Staged(p)'.refusals = Staged(p).refusals
  BY <1>5, <1>6 DEF View, Staged
<1>8. CallSound(p)'
  <2>1. SyncSound(p)'
    <3>1. SyncSound(p)
      BY DEF ContextInv, CallSound
    <3> QED
      BY <1>1, <1>3, <1>4, <1>7, <3>1 DEF SyncSound, Imported
  <2> QED
    BY <1>1, <1>3, <1>4, <1>6, <2>1 DEF CallSound, EditSound, PlanSound, SyncedIsOver, ExportSound
<1>9. StoreTyped'
  BY <1>5, ViewType DEF ContextInv, TypeOK, StoreTyped, Txns
<1>10. TableSound(sec)' /\ TxnSound'
  <2>1. TableSound(sec')
    BY <1>5, ViewGrows
  <2>2. CASE txn.by = p
    BY <1>5, <2>1, <2>2 DEF TxnSound, TableSound
  <2>3. CASE txn.by # p
    <3>1. UNCHANGED <<sec, imports, refusals, txn, base>>
      BY <1>1, <1>5, <2>3 DEF View, Staged
    <3> QED
      BY <2>1, <3>1 DEF ContextInv, TxnSound, TableSound, Rewritten
  <2> QED
    BY <2>2, <2>3
<1>11. Steady(p) /\ call'[p] \in Calls
  <2>1. call[p].op # "replaced" /\ call'[p].op # "replaced" /\ call'[p] \in Calls
        /\ call' = [call EXCEPT ![p] = call'[p]]
    BY <1>1, <1>3, <1>4 DEF Calls
  <2>2. Rewritten(sec, sec') /\ imports \subseteq imports' /\ refusals \subseteq refusals'
    BY <1>5, ViewGrows
  <2>3. txn.by \notin {Nobody, p} => UNCHANGED <<sec, imports, refusals, txn>>
    BY <1>5 DEF View, Staged
  <2>4. txn.by \in {Nobody, p} => txn'.by \in {Nobody, p}
    BY <1>5 DEF NoTxn
  <2> QED
    BY <1>1, <2>1, <2>2, <2>3, <2>4 DEF Steady
<1> QED
  BY <1>8, <1>9, <1>10, <1>11, SteadyInv

-----------------------------------------------------------------------------
(* Exports *)

LEMMA ExportCompareInv ==
    ASSUME ContextInv, NEW p \in Processes, NEW j \in {NoJob, "the_job"},
           ExportCompare(p, j)
    PROVE  ContextInv'
<1> DEFINE c == [op |-> "compared", saw |-> file, image |-> RenderOf(sec),
                 versions |-> VersionsOf(sec), job |-> j]
<1>1. /\ call[p] = Idle /\ txn.by = Nobody /\ Admits(RenderOf(sec), j)
      /\ call' = [call EXCEPT ![p] = c] /\ txn' = Staged(p)
      /\ UNCHANGED <<db, file, review, world>>
  BY DEF ExportCompare
<1>2. call'[p] = c
  BY <1>1 DEF ContextInv, TypeOK
<1>3. c \in ExportCall
  BY RenderType DEF ExportCall, ContextInv, TypeOK
<1>4. /\ c.op = "compared" /\ c.saw = file /\ c.image = RenderOf(sec)
      /\ c.versions = VersionsOf(sec) /\ c.job = j
  OBVIOUS
<1> HIDE DEF c
<1>5. /\ txn' \in Txns /\ txn'.by = p /\ txn'.sec = sec
      /\ txn'.imports = imports /\ txn'.refusals = refusals
  <2>1. txn.by # p
    BY <1>1, ContextAssumption DEF ContextAssumption
  <2> QED
    BY <1>1, <2>1, ViewType DEF Staged, ContextInv
<1>6. TxnSound'
  BY <1>1, <1>5, GrowsFacts DEF TxnSound, TableSound, Rewritten, ContextInv, TypeOK, db
<1>7. ExportSound(p)'
  <2>1. RenderOf(sec)' = RenderOf(sec) /\ VersionsOf(sec)' = VersionsOf(sec)
    BY <1>1 DEF RenderOf, VersionsOf, db
  <2>2. file # NoFile /\ published # NoFile =>
            file.image = published \/ Rendered(file, RenderOf(sec), j)
    BY <1>1 DEF Admits
  <2>3. AlreadyRendered(p)' <=> Rendered(file, RenderOf(sec), j)
    BY <1>2, <1>4 DEF AlreadyRendered, Rendered
  <2> QED
    BY <1>1, <1>2, <1>4, <1>5, <2>1, <2>2, <2>3 DEF ExportSound, db
<1>8. CallSound(p)'
  BY <1>2, <1>4, <1>7 DEF CallSound, EditSound, SyncSound, PlanSound, SyncedIsOver
<1>9. /\ Writable(p) /\ call[p].op # "replaced" /\ call'[p].op # "replaced"
      /\ call'[p] \in Calls
  BY <1>1, <1>2, <1>3, <1>4 DEF Writable, Idle, Calls
<1> QED
  BY <1>1, <1>2, <1>5, <1>6, <1>8, <1>9, StageInv

\* Under the write lock of p no other call is disturbed, and none is an export.
LEMMA Locked ==
    ASSUME ContextInv, NEW p \in Processes, txn.by = p, txn'.by \in {p, Nobody},
           call' = [call EXCEPT ![p] = call'[p]], base' \in [FileSections -> Base],
           \A s \in FileSections : base[s].version <= base'[s].version,
           UNCHANGED <<sec, imports, refusals>>,
           NEW q \in Processes \ {p}
    PROVE  CallSound(q)' /\ call'[q] = call[q] /\ call[q].op \notin {"compared", "replaced"}
<1>1. call'[q] = call[q] /\ txn.by # q /\ txn'.by # q
  BY ContextAssumption DEF ContextAssumption, ContextInv, TypeOK
<1>2. Frame(q)
  BY <1>1, GrowsFacts DEF Frame, ContextInv, TypeOK
<1>3. call[q].op \notin {"compared", "replaced"}
  BY <1>1 DEF ContextInv, CallSound, ExportSound
<1> QED
  BY <1>1, <1>2, <1>3, FrameSound

LEMMA ExportReplaceInv ==
    ASSUME ContextInv, NEW p \in Processes, ExportReplace(p) PROVE ContextInv'
<1> DEFINE c == [call[p] EXCEPT !.op = "replaced"]
           new == [image |-> call[p].image, origin |-> "exported", from |-> call[p].versions]
<1>1. /\ call[p].op = "compared" /\ call' = [call EXCEPT ![p].op = "replaced"]
      /\ file' = IF AlreadyRendered(p) THEN file ELSE new
      /\ UNCHANGED <<db, txn, review, world>>
  BY DEF ExportReplace
<1>2. call[p] \in ExportCall /\ ExportSound(p)
  BY <1>1, Kinds DEF ContextInv, CallSound
<1>3. call' = [call EXCEPT ![p] = c] /\ call'[p] = c
  BY <1>1 DEF ContextInv, TypeOK
<1>4. /\ c \in ExportCall /\ c.op = "replaced" /\ c.saw = call[p].saw
      /\ c.image = call[p].image /\ c.versions = call[p].versions /\ c.job = call[p].job
  BY <1>2 DEF ExportCall
<1>5. new \in File /\ new.image = call[p].image /\ new.origin = "exported"
      /\ new.from = call[p].versions
  BY <1>2 DEF ExportCall, File
<1> HIDE DEF c, new
<1>6. /\ txn.by = p /\ txn.sec = sec
      /\ call[p].image = RenderOf(sec) /\ call[p].versions = VersionsOf(sec)
      /\ file = call[p].saw \/ (file # NoFile /\ file.origin = "edited")
  BY <1>1, <1>2 DEF ExportSound
<1>7. TypeOK' /\ TxnSound' /\ TableSound(sec)' /\ BaseSound' /\ ReviewsSound'
  <2>1. TypeOK'
    BY <1>1, <1>3, <1>4, <1>5 DEF ContextInv, TypeOK, db
  <2> QED
    BY <1>1, <2>1 DEF ContextInv, db, TxnSound, TableSound, BaseSound, ReviewsSound,
                      Rewritten, Remembers
<1>8. FileSound'
  <2>1. CASE AlreadyRendered(p)
    BY <1>1, <2>1 DEF ContextInv, FileSound, db
  <2>2. CASE ~AlreadyRendered(p)
    <3>1. \A s \in FileSections :
             /\ new.from[s] = sec[s].version /\ sec[s].version \in Nat
             /\ sec[s].version > 0 => new.image.body[s] = sec[s].content
      BY <1>5, <1>6, Order DEF RenderOf, VersionsOf, ContextInv, TypeOK, Section
    <3> QED
      BY <1>1, <2>2, <3>1 DEF FileSound, db
  <2> QED
    BY <2>1, <2>2
<1>9. file' # NoFile /\ (file'.origin = "exported" => file'.image = call[p].image)
  BY <1>1, <1>5, <1>6, NoFileAssumption DEF AlreadyRendered, Rendered
<1>10. CallSound(p)'
  <2>1. RenderOf(sec)' = RenderOf(sec) /\ VersionsOf(sec)' = VersionsOf(sec)
    BY <1>1 DEF RenderOf, VersionsOf, db
  <2>2. ExportSound(p)'
    BY <1>1, <1>3, <1>4, <1>6, <1>9, <2>1 DEF ExportSound, db
  <2> QED
    BY <1>3, <1>4, <2>2 DEF CallSound, EditSound, SyncSound, PlanSound, SyncedIsOver
<1>11. ASSUME NEW q \in Processes PROVE CallSound(q)'
  <2>1. /\ txn'.by \in {p, Nobody} /\ base' \in [FileSections -> Base]
        /\ \A s \in FileSections : base[s].version <= base'[s].version
        /\ UNCHANGED <<sec, imports, refusals>>
    BY <1>1, <1>6 DEF db, ContextInv, TypeOK, Base
  <2> QED
    BY <1>3, <1>6, <1>10, <2>1, Locked
<1>12. TrackedUnlessEdited'
  BY <1>3, <1>4 DEF TrackedUnlessEdited
<1> QED
  BY <1>7, <1>8, <1>11, <1>12 DEF ContextInv

\* The commit records what is in the file.
LEMMA ExportCommitInv ==
    ASSUME ContextInv, NEW p \in Processes, ExportCommit(p) PROVE ContextInv'
<1> DEFINE kept == [file EXCEPT !.origin = "exported", !.from = call[p].versions]
<1>1. /\ call[p].op = "replaced" /\ base' = Exported(p) /\ published' = call[p].image
      /\ job' \in {job, "completed"} /\ txn' = NoTxn /\ Return(p)
      /\ file' = IF AlreadyRendered(p) /\ file.image = call[p].image THEN kept ELSE file
      /\ UNCHANGED <<sec, imports, refusals, review, world>>
  BY DEF ExportCommit
<1>2. call[p] \in ExportCall /\ ExportSound(p)
  BY <1>1, Kinds DEF ContextInv, CallSound
<1>3. /\ txn.by = p /\ txn.sec = sec
      /\ call[p].image = RenderOf(sec) /\ call[p].versions = VersionsOf(sec)
      /\ file # NoFile /\ (file.origin = "exported" => file.image = call[p].image)
  BY <1>1, <1>2 DEF ExportSound
<1>4. ASSUME NEW s \in FileSections
      PROVE  /\ base'[s] \in Base /\ base[s].version <= base'[s].version
             /\ Remembers(sec, s, base'[s])
  <2>1. /\ sec[s] \in Section /\ base[s] \in Base /\ Remembers(sec, s, base[s])
        /\ call[p].versions[s] = sec[s].version
        /\ call[p].image.body[s] = IF sec[s].version > 0 THEN sec[s].content ELSE Placeholder
    BY <1>3, Order DEF ContextInv, TypeOK, BaseSound, RenderOf, VersionsOf
  <2>2. CASE sec[s].version > 0
    <3>1. base'[s] = [version |-> sec[s].version, content |-> sec[s].content]
      BY <1>1, <2>1, <2>2 DEF Exported
    <3>2. base'[s].version = sec[s].version /\ base'[s].content = sec[s].content
      BY <3>1
    <3>3. base'[s] \in Base
      BY <2>1, <3>1 DEF Base, Section
    <3> QED
      BY <2>1, <3>2, <3>3 DEF Remembers, Section, Base
  <2>3. CASE ~(sec[s].version > 0)
    <3>1. base'[s] = base[s]
      BY <1>1, <2>1, <2>3 DEF Exported
    <3> QED
      BY <2>1, <3>1 DEF Remembers, Base
  <2> QED
    BY <2>2, <2>3
<1>5. base' \in [FileSections -> Base]
  BY <1>1, <1>4 DEF Exported
<1>6. call'[p] = Idle /\ call' = [call EXCEPT ![p] = call'[p]] /\ call'[p] \in Calls
  BY <1>1, Returned DEF ContextInv
<1>7. file' = file \/ (file' = kept /\ file.image = call[p].image /\ file \in File)
  BY <1>1, <1>3 DEF ContextInv, TypeOK
<1>8. file \in File => /\ kept \in File /\ kept.image = file.image
                       /\ kept.from = call[p].versions
  BY <1>2 DEF File, ExportCall
<1> HIDE DEF kept
<1>9. TypeOK'
  <2>1. published' \in Image /\ job' \in {"none", "pending", "completed"}
    BY <1>1, <1>2 DEF ExportCall, ContextInv, TypeOK
  <2>2. file' = NoFile \/ file' \in File
    BY <1>7, <1>8 DEF ContextInv, TypeOK
  <2>3. call' \in [Processes -> {Idle} \cup OwnerCall \cup SyncCall \cup ExportCall]
    BY <1>6 DEF Calls, ContextInv, TypeOK
  <2> QED
    BY <1>1, <1>5, <2>1, <2>2, <2>3 DEF ContextInv, TypeOK
<1>10. /\ TxnSound' /\ TableSound(sec)' /\ ReviewsSound' /\ BaseSound'
  BY <1>1, <1>4 DEF ContextInv, TxnSound, TableSound, ReviewsSound, BaseSound, Remembers
<1>11. FileSound'
  <2>1. CASE file' = file
    BY <1>1, <2>1 DEF ContextInv, FileSound
  <2>2. CASE file' = kept /\ file.image = call[p].image /\ file \in File
    <3>1. \A s \in FileSections :
             /\ kept.from[s] = sec[s].version /\ sec[s].version \in Nat
             /\ sec[s].version > 0 => kept.image.body[s] = sec[s].content
      BY <1>3, <1>8, <2>2, Order DEF RenderOf, VersionsOf, ContextInv, TypeOK, Section
    <3> QED
      BY <1>1, <2>2, <3>1 DEF FileSound
  <2> QED
    BY <1>7, <2>1, <2>2
<1>12. ASSUME NEW q \in Processes PROVE CallSound(q)'
  <2>1. txn'.by = Nobody
    BY <1>1 DEF NoTxn
  <2> QED
    BY <1>1, <1>3, <1>4, <1>5, <1>6, <2>1, Locked, IdleSound
<1>13. TrackedUnlessEdited'
  BY <1>1, <1>3, <1>7, <1>8 DEF TrackedUnlessEdited
<1> QED
  BY <1>9, <1>10, <1>11, <1>12, <1>13 DEF ContextInv

\* A call fails or its process dies; a file replaced without the commit is
\* not what the tables say.
LEMMA FailInv ==
    ASSUME ContextInv, NEW p \in Processes, Fail(p) PROVE ContextInv'
<1>1. /\ txn' = IF txn.by = p THEN NoTxn ELSE txn
      /\ Return(p) /\ UNCHANGED <<sec, imports, refusals, base, published, job, review, world>>
      /\ file' = IF call[p].op = "replaced" /\ file.origin = "exported"
                 THEN [file EXCEPT !.origin = "torn"] ELSE file
  BY DEF Fail, db
<1>2. call'[p] = Idle /\ call' = [call EXCEPT ![p] = call'[p]] /\ call'[p] \in Calls
  BY <1>1, Returned DEF ContextInv
<1>3. CASE call[p].op # "replaced"
  BY <1>1, <1>2, <1>3, DropInv
<1>4. CASE call[p].op = "replaced"
  <2> DEFINE torn == [file EXCEPT !.origin = "torn"]
  <2>1. txn.by = p /\ file # NoFile /\ file \in File
    BY <1>4 DEF ContextInv, CallSound, ExportSound, TypeOK
  <2>2. torn \in File /\ torn.origin = "torn"
    BY <2>1 DEF File
  <2>3. file' = (IF file.origin = "exported" THEN torn ELSE file) /\ txn' = NoTxn
    BY <1>1, <1>4, <2>1
  <2> HIDE DEF torn
  <2>4. file'.origin # "exported" /\ (file' = NoFile \/ file' \in File)
    BY <2>1, <2>2, <2>3
  <2>5. TypeOK'
    <3>1. call' \in [Processes -> {Idle} \cup OwnerCall \cup SyncCall \cup ExportCall]
      BY <1>2 DEF Calls, ContextInv, TypeOK
    <3> QED
      BY <1>1, <2>3, <2>4, <3>1 DEF ContextInv, TypeOK
  <2>6. /\ TxnSound' /\ TableSound(sec)' /\ ReviewsSound' /\ BaseSound'
    BY <1>1, <2>3 DEF ContextInv, TxnSound, TableSound, ReviewsSound, BaseSound, Remembers
  <2>7. FileSound' /\ TrackedUnlessEdited'
    BY <2>4 DEF FileSound, TrackedUnlessEdited
  <2>8. ASSUME NEW q \in Processes PROVE CallSound(q)'
    <3>1. txn'.by = Nobody /\ base' = base
      BY <1>1, <2>3 DEF NoTxn
    <3>2. \A s \in FileSections : base[s].version <= base'[s].version
      BY <3>1 DEF ContextInv, TypeOK, Base
    <3> QED
      BY <1>1, <1>2, <2>1, <3>1, <3>2, Locked, IdleSound DEF ContextInv, TypeOK
  <2> QED
    BY <2>5, <2>6, <2>7, <2>8 DEF ContextInv
<1> QED
  BY <1>3, <1>4

-----------------------------------------------------------------------------
(* Operators, the editor and the rest *)

\* A step outside the processes: it may approve a version when nobody writes,
\* or edit the file.
LEMMA OutsideInv ==
    ASSUME ContextInv, UNCHANGED <<txn, imports, refusals, base, published, call>>,
           txn.by # Nobody => UNCHANGED <<sec, world>>,
           sec' \in [Sections -> Section], Grows(sec, sec'), TableSound(sec'),
           file' = file \/ (file' \in File /\ file' # NoFile /\ file'.origin = "edited"),
           job' \in {"none", "pending", "completed"}, world' \in 0 .. MaxWorld,
           review' \in [Operators -> {Idle} \cup Review],
           \A o \in Operators : review'[o] # Idle =>
               review'[o] = review[o]
                   \/ (Remembers(sec, review'[o].section, review'[o].row) /\ sec' = sec)
    PROVE  ContextInv'
<1>1. TypeOK' /\ TableSound(sec)'
  BY DEF ContextInv, TypeOK, TableSound
<1>2. TxnSound'
  <2>1. txn # NoTxn => txn.by # Nobody
    BY ContextAssumption DEF ContextAssumption, ContextInv, TypeOK, NoTxn
  <2> QED
    BY <2>1 DEF ContextInv, TxnSound, TableSound, Rewritten
<1>3. BaseSound'
  BY RecordsKept
<1>4. FileSound'
  BY RecordsKept DEF FileSound
<1>5. ReviewsSound'
  <2> SUFFICES ASSUME NEW o \in Operators, review'[o] # Idle
               PROVE  Remembers(sec', review'[o].section, review'[o].row)
    BY DEF ReviewsSound, Remembers
  <2>1. CASE review'[o] = review[o]
    <3>1. /\ Remembers(sec, review[o].section, review[o].row)
          /\ review[o].row.version \in Nat /\ review[o].section \in Sections
      BY <2>1 DEF ContextInv, ReviewsSound, TypeOK, Review, Section
    <3> QED
      BY <2>1, <3>1, Remembered DEF ContextInv, TypeOK
  <2>2. CASE Remembers(sec, review'[o].section, review'[o].row) /\ sec' = sec
    BY <2>2
  <2> QED
    BY <2>1, <2>2
<1>6. ASSUME NEW q \in Processes PROVE CallSound(q)'
  <2>1. \A s \in FileSections : base[s].version <= base'[s].version
    BY DEF ContextInv, TypeOK, Base
  <2>2. Frame(q)
    BY <2>1, ContextAssumption DEF ContextAssumption, Frame
  <2> QED
    BY <1>1, <2>2, FrameSound DEF TypeOK
<1>7. TrackedUnlessEdited'
  BY DEF ContextInv, TrackedUnlessEdited
<1> QED
  BY <1>1, <1>2, <1>3, <1>4, <1>5, <1>6, <1>7 DEF ContextInv

LEMMA OperatorInv ==
    ASSUME ContextInv, NEW o \in Operators, OperatorNext(o) PROVE ContextInv'
<1>1. sec \in [Sections -> Section] /\ review \in [Operators -> {Idle} \cup Review]
      /\ TableSound(sec) /\ job \in {"none", "pending", "completed"}
      /\ world \in 0 .. MaxWorld /\ Grows(sec, sec)
  BY GrowsFacts DEF ContextInv, TypeOK
<1>2. ASSUME NEW s \in Sections, ReviewSection(o, s) PROVE ContextInv'
  <2> DEFINE shown == [op |-> "promote", section |-> s, row |-> sec[s]]
  <2>1. /\ review' = [review EXCEPT ![o] = shown]
        /\ UNCHANGED <<sec, base, published, job, imports, refusals, txn, file, call, world>>
    BY <1>2 DEF ReviewSection, db
  <2>2. shown \in Review /\ Remembers(sec, shown.section, shown.row)
    BY <1>1 DEF Review, Remembers, Section
  <2> HIDE DEF shown
  <2>3. /\ review' \in [Operators -> {Idle} \cup Review]
        /\ \A u \in Operators : review'[u] = review[u] \/ review'[u] = shown
    BY <1>1, <2>1, <2>2
  <2> QED
    BY <1>1, <2>1, <2>2, <2>3, OutsideInv
<1>3. CASE PromoteSection(o) \/ EndReview(o)
  <2>1. /\ review' = [review EXCEPT ![o] = Idle]
        /\ UNCHANGED <<base, published, job, imports, refusals, txn, file, call, world>>
    BY <1>3 DEF PromoteSection, EndReview, db
  <2>2. /\ review' \in [Operators -> {Idle} \cup Review]
        /\ \A u \in Operators : review'[u] = review[u] \/ review'[u] = Idle
    BY <1>1, <2>1
  <2>3. CASE EndReview(o)
    <3>1. sec' = sec
      BY <2>3 DEF EndReview, db
    <3> QED
      BY <1>1, <2>1, <2>2, <3>1, OutsideInv
  <2>4. CASE PromoteSection(o)
    <3> DEFINE s == review[o].section
    <3>1. review[o] # Idle /\ txn.by = Nobody /\ sec' = [sec EXCEPT ![s].trust = "operator"]
      BY <2>4 DEF PromoteSection
    <3>2. s \in Sections
      BY <1>1, <3>1 DEF Review
    <3> DEFINE row == [sec[s] EXCEPT !.trust = "operator"]
    <3>3. row \in Section /\ row.version = sec[s].version /\ row.content = sec[s].content
      BY <1>1, <3>2 DEF Section, Trusts
    <3>4. sec' = [sec EXCEPT ![s] = row]
      BY <1>1, <3>1, <3>2
    <3> HIDE DEF row, s
    <3>5. sec' \in [Sections -> Section] /\ Grows(sec, sec') /\ TableSound(sec')
      BY <1>1, <3>2, <3>3, <3>4 DEF Grows, TableSound, Section
    <3> QED
      BY <1>1, <2>1, <2>2, <3>1, <3>5, OutsideInv
  <2> QED
    BY <1>3, <2>3, <2>4
<1> QED
  BY <1>2, <1>3 DEF OperatorNext

LEMMA ElsewhereInv ==
    ASSUME ContextInv,
           \/ \E s \in FileSections, text \in Contents : EditFile(s, text)
           \/ EnqueueProjection \/ RestChanges
    PROVE  ContextInv'
<1>1. sec \in [Sections -> Section] /\ review \in [Operators -> {Idle} \cup Review]
      /\ TableSound(sec) /\ job \in {"none", "pending", "completed"}
      /\ world \in 0 .. MaxWorld /\ Grows(sec, sec)
  BY GrowsFacts DEF ContextInv, TypeOK
<1>2. ASSUME NEW s \in FileSections, NEW text \in Contents, EditFile(s, text)
      PROVE  ContextInv'
  <2>1. /\ file # NoFile /\ file \in File
        /\ file' = [file EXCEPT !.image.body[s] = text, !.origin = "edited"]
        /\ UNCHANGED <<sec, base, published, job, imports, refusals, txn, call, review, world>>
    BY <1>2 DEF EditFile, db, ContextInv, TypeOK
  <2>2. file' \in File /\ file'.origin = "edited"
    BY <2>1 DEF File, Image, Texts
  <2> QED
    BY <1>1, <2>1, <2>2, NoFileAssumption, OutsideInv
<1>3. CASE EnqueueProjection \/ RestChanges
  <2>1. /\ txn.by = Nobody /\ job' \in {job, "pending"} /\ world < MaxWorld
        /\ world' = world + 1
        /\ UNCHANGED <<sec, base, published, imports, refusals, txn, file, call, review>>
    BY <1>3 DEF EnqueueProjection, RestChanges, db
  <2>2. world' \in 0 .. MaxWorld
    BY <1>1, <2>1, ContextAssumption DEF ContextAssumption
  <2> QED
    BY <1>1, <2>1, <2>2, OutsideInv
<1> QED
  BY <1>2, <1>3

-----------------------------------------------------------------------------
(* The theorems about ContextBridge *)

LEMMA ContextInit == Init => ContextInv
<1> SUFFICES ASSUME Init PROVE ContextInv
  OBVIOUS
<1>1. /\ \A s \in Sections : /\ sec[s] \in Section
                             /\ sec[s].version = 0 <=> sec[s].content = NoText
      /\ sec \in [Sections -> Section]
  <2>1. Absent \in Section /\ Absent.version = 0 /\ Absent.content = NoText
    BY TextTypes DEF Absent, Section
  <2>2. ASSUME NEW row \in [version : {1}, content : Payloads, trust : Asked]
        PROVE  row \in Section /\ row.version = 1 /\ row.content # NoText
    <3>1. row.version = 1 /\ row.content \in Payloads /\ row.trust \in Asked
          /\ row = [version |-> row.version, content |-> row.content, trust |-> row.trust]
      BY <2>2
    <3>2. row.version \in 0 .. MaxVersion /\ row.content \in Texts
      BY <3>1, TextTypes
    <3>3. row.trust \in Trusts
      BY <3>1, ContextAssumption DEF ContextAssumption, Trusts
    <3> QED
      BY <3>1, <3>2, <3>3, TextTypes DEF Section
  <2>3. sec \in [Sections -> {Absent} \cup
                     [version : {1}, content : Payloads, trust : Asked]]
    BY DEF Init
  <2>4. ASSUME NEW s \in Sections
        PROVE  sec[s] \in Section /\ (sec[s].version = 0 <=> sec[s].content = NoText)
    <3>1. CASE sec[s] = Absent
      BY <2>1, <3>1
    <3>2. CASE sec[s] # Absent
      BY <2>2, <2>3, <3>2
    <3> QED
      BY <3>1, <3>2
  <2> QED
    BY <2>3, <2>4
<1>2. base \in [FileSections -> Base]
      /\ \A s \in FileSections : base[s] = NoBase
             \/ (base[s].version = 1 /\ base[s].content \in Payloads
                  /\ base[s].content = sec[s].content)
  <2>1. NoBase \in Base
    BY TextTypes DEF NoBase, Base
  <2>2. ASSUME NEW row \in [version : {1}, content : Payloads]
        PROVE  row \in Base /\ row.version = 1 /\ row.content \in Payloads
    BY <2>2, TextTypes DEF Base
  <2>3. /\ base \in [FileSections -> {NoBase} \cup [version : {1}, content : Payloads]]
        /\ \A s \in FileSections : base[s] # NoBase => base[s].content = sec[s].content
    BY DEF Init
  <2> QED
    BY <2>1, <2>2, <2>3
<1>3. BaseSound
  <2> SUFFICES ASSUME NEW s \in FileSections PROVE Remembers(sec, s, base[s])
    BY DEF BaseSound
  <2>1. sec[s] \in Section /\ (sec[s].version = 0 <=> sec[s].content = NoText)
    BY <1>1, Order
  <2>2. CASE base[s] = NoBase
    BY <2>1, <2>2 DEF NoBase, Remembers, Section
  <2>3. CASE base[s] # NoBase
    BY <1>2, <2>1, <2>3, TextTypes DEF Remembers, Section
  <2> QED
    BY <2>2, <2>3
<1>4. file = NoFile \/ (file \in File /\ file.origin = "legacy")
  <2>1. \/ file = NoFile
        \/ \E body \in [FileSections -> Texts] :
              file = [image |-> [body |-> body,
                                 rest |-> <<-1, [s \in FileSections |-> "unknown"]>>],
                      origin |-> "legacy", from |-> [s \in FileSections |-> base[s].version]]
    BY DEF Init
  <2>2. -1 \in -1 .. MaxWorld /\ [s \in FileSections |-> base[s].version]
                                    \in [FileSections -> 0 .. MaxVersion]
    BY <1>2, ContextAssumption DEF ContextAssumption, Base
  <2> QED
    BY <2>1, <2>2 DEF File, Image
<1>5. TypeOK
  BY <1>1, <1>2, <1>4, ContextAssumption DEF ContextAssumption, Init, TypeOK
<1>6. ASSUME NEW p \in Processes PROVE CallSound(p)
  BY DEF Init, CallSound, EditSound, SyncSound, PlanSound, SyncedIsOver, ExportSound, Idle
<1>7. TableSound(sec) /\ TxnSound /\ FileSound /\ ReviewsSound /\ TrackedUnlessEdited
  BY <1>1, <1>4 DEF Init, TableSound, TxnSound, FileSound, ReviewsSound, TrackedUnlessEdited
<1> QED
  BY <1>3, <1>5, <1>6, <1>7 DEF ContextInv

LEMMA ContextNext == ASSUME ContextInv, [Next]_vars PROVE ContextInv'
<1>1. ASSUME NEW p \in Processes, OwnerNext(p) PROVE ContextInv'
  BY <1>1, GetSectionInv, CreateReadInv, UpdateWinsInv, UpdateTooLargeInv, RefusalInv,
     CreateInsertInv, SyncEndsInv DEF OwnerNext
<1>2. ASSUME NEW p \in Processes, SyncNext(p) PROVE ContextInv'
  BY <1>2, SyncOpenInv, SyncLookInv, SyncStageInv, SyncCommitInv, SyncEndsInv DEF SyncNext
<1>3. ASSUME NEW p \in Processes, ExportNext(p) PROVE ContextInv'
  <2>1. CASE ExportClearsLeak(p)
    <3>1. /\ call[p] = Idle /\ txn.by = p /\ txn' = NoTxn /\ call' = call
          /\ UNCHANGED <<sec, imports, refusals, base, published, job, file, review, world>>
      BY <2>1 DEF ExportClearsLeak, db
    <3>2. call[p].op # "replaced" /\ call' = [call EXCEPT ![p] = call'[p]]
      BY <3>1 DEF Idle, ContextInv, TypeOK
    <3> QED
      BY <3>1, <3>2, DropInv
  <2> QED
    BY <1>3, <2>1, ExportCompareInv, ExportReplaceInv, ExportCommitInv DEF ExportNext
<1>4. CASE UNCHANGED vars
  <2>1. sec \in [Sections -> Section] /\ review \in [Operators -> {Idle} \cup Review]
        /\ TableSound(sec) /\ job \in {"none", "pending", "completed"}
        /\ world \in 0 .. MaxWorld /\ Grows(sec, sec)
    BY GrowsFacts DEF ContextInv, TypeOK
  <2> QED
    BY <1>4, <2>1, OutsideInv DEF vars, db
<1> QED
  BY <1>1, <1>2, <1>3, <1>4, FailInv, OperatorInv, ElsewhereInv DEF Next

\* The invariant of sections, syncs and exports (tools/context.py,
\* tools/export.py), whoever writes, edits, fails or dies.
THEOREM ContextInvariant == Spec => []ContextInv
BY ContextInit, ContextNext, PTL DEF Spec

\* Everything a session, an operator, an export or the file holds is of its kind.
THEOREM ContextTypes == Spec => []TypeOK
BY ContextInvariant, PTL DEF ContextInv

\* INV-4 (update_section's compare-and-swap, --promote-section, sync_from_file):
\* whoever remembers a section by its version remembers its text.
THEOREM VersionIsOneText == Spec => []VersionNamesText
<1>1. ASSUME ContextInv PROVE VersionNamesText
  <2> SUFFICES ASSUME NEW s \in Sections
               PROVE  /\ \A p \in Processes :
                            (call[p].op = "editing" /\ call[p].section = s
                                /\ call[p].row.version = sec[s].version)
                            => call[p].row.content = sec[s].content
                      /\ \A o \in Operators :
                            (review[o] # Idle /\ review[o].section = s
                                /\ review[o].row.version = sec[s].version)
                            => review[o].row.content = sec[s].content
                      /\ s \in FileSections =>
                            /\ base[s].version = sec[s].version
                                  => base[s].content = sec[s].content
                            /\ (file # NoFile /\ file.origin = "exported" /\ Stored(s)
                                  /\ file.from[s] = sec[s].version)
                               => file.image.body[s] = sec[s].content
    BY DEF VersionNamesText
  <2>1. ASSUME NEW p \in Processes, call[p].op = "editing", call[p].section = s,
               call[p].row.version = sec[s].version
        PROVE  call[p].row.content = sec[s].content
    <3>1. EditSound(p)
      BY <1>1 DEF ContextInv, CallSound
    <3>2. CASE txn.by = p
      <4>1. Grows(sec, View(p)) /\ call[p].row = View(p)[s]
        BY <1>1, <2>1, <3>1, <3>2, ViewGrows DEF EditSound, View
      <4> QED
        BY <2>1, <4>1 DEF Grows
    <3>3. CASE txn.by # p
      BY <2>1, <3>1, <3>3 DEF EditSound, Remembers
    <3> QED
      BY <3>2, <3>3
  <2>2. ASSUME NEW o \in Operators, review[o] # Idle, review[o].section = s,
               review[o].row.version = sec[s].version
        PROVE  review[o].row.content = sec[s].content
    BY <1>1, <2>2 DEF ContextInv, ReviewsSound, Remembers
  <2>3. ASSUME s \in FileSections
        PROVE  /\ base[s].version = sec[s].version => base[s].content = sec[s].content
               /\ (file # NoFile /\ file.origin = "exported" /\ Stored(s)
                     /\ file.from[s] = sec[s].version)
                  => file.image.body[s] = sec[s].content
    BY <1>1, <2>3 DEF ContextInv, BaseSound, Remembers, FileSound, Stored
  <2> QED
    BY <2>1, <2>2, <2>3
<1> QED
  BY <1>1, ContextInvariant, PTL

\* export_bridge_markdown: the database knows the file as long as nobody edits
\* it and no export died between its os.replace and its commit.
THEOREM ExportedFileIsTracked == Spec => []TrackedUnlessEdited
BY ContextInvariant, PTL DEF ContextInv

\* INV-5 (sync_from_file): what a sync reports is stored.
THEOREM SyncTellsTheTruth == Spec => []SyncReportIsDurable
<1>1. ASSUME ContextInv PROVE SyncReportIsDurable
  <2> SUFFICES ASSUME NEW p \in Processes, call[p].op = "synced", NEW s \in FileSections
               PROVE  /\ call[p].outcome[s] # "pending"
                      /\ call[p].outcome[s] = "imported" =>
                            \E r \in imports : /\ r.section = s
                                               /\ r.content = call[p].file.image.body[s]
                                               /\ sec[s].version >= r.imported
                      /\ call[p].outcome[s] = "refused" => s \in refusals
    BY DEF SyncReportIsDurable
  <2>1. SyncSound(p) /\ txn.by # p /\ call[p].at > Len(FileOrder) /\ call[p] \in SyncCall
    BY <1>1, Kinds DEF ContextInv, CallSound, SyncedIsOver
  <2>2. View(p) = sec /\ Staged(p).imports = imports /\ Staged(p).refusals = refusals
    BY <2>1 DEF View, Staged
  <2>3. call[p].outcome[s] # "pending"
    <3>1. PICK i \in 1 .. Len(FileOrder) : FileOrder[i] = s
      BY Order
    <3>2. i < call[p].at
      BY <2>1, <3>1, Order DEF SyncCall
    <3> QED
      BY <2>1, <3>1, <3>2 DEF SyncSound
  <2> QED
    BY <2>1, <2>2, <2>3 DEF SyncSound, Imported
<1> QED
  BY <1>1, ContextInvariant, PTL

\* The steps that change what is stored of a section: a commit of what its
\* connection saw, with at most one more row that nobody has approved; or an
\* operator's promotion.
LEMMA SectionSteps ==
    ASSUME ContextInv, [Next]_vars
    PROVE  \/ UNCHANGED <<sec, imports>>
           \/ \E p \in Processes : Rewritten(sec, sec') /\ imports' = Staged(p).imports
           \/ imports' = imports /\ \E o \in Operators : PromoteSection(o)
<1> DEFINE Moves(p) == Rewritten(sec, sec') /\ imports' = Staged(p).imports
<1>1. ASSUME NEW p \in Processes, OwnerNext(p) PROVE UNCHANGED <<sec, imports>> \/ Moves(p)
  <2>1. ASSUME NEW token, NEW text \in Payloads, NEW trust \in Asked,
               UpdateWins(p, token, text, trust)
        PROVE  Moves(p)
    <3>1. /\ call[p].op = "editing" /\ View(p)[call[p].section].version < MaxVersion
          /\ sec' = [View(p) EXCEPT ![call[p].section] =
                        Written(View(p)[call[p].section], text, Clamp(trust))]
          /\ imports' = Staged(p).imports
      BY <2>1 DEF UpdateWins, CommitSection
    <3>2. call[p].section \in Sections /\ Clamp(trust) \in Trusts \ {"operator"}
      BY <3>1, Kinds, ClampType DEF ContextInv
    <3> QED
      BY <3>1, <3>2, RewriteOne, ViewType, ViewGrows, TextTypes DEF ContextInv, TypeOK
  <2>2. ASSUME NEW text \in Payloads, NEW trust \in Asked, CreateInsert(p, text, trust)
        PROVE  UNCHANGED <<sec, imports>> \/ Moves(p)
    <3> SUFFICES ASSUME ~UNCHANGED <<sec, imports>> PROVE Moves(p)
      OBVIOUS
    <3>1. /\ call[p].op = "creating" /\ View(p)[call[p].section].version = 0
          /\ sec' = [View(p) EXCEPT ![call[p].section] = Written(Absent, text, Clamp(trust))]
          /\ imports' = Staged(p).imports
      BY <2>2 DEF CreateInsert, CommitSection
    <3>2. Written(Absent, text, Clamp(trust)) =
              Written(View(p)[call[p].section], text, Clamp(trust))
      BY <3>1 DEF Written, Absent
    <3>3. /\ call[p].section \in Sections /\ Clamp(trust) \in Trusts \ {"operator"}
          /\ View(p)[call[p].section].version < MaxVersion
      BY <3>1, Kinds, ClampType, TextTypes DEF ContextInv
    <3>4. sec' = [View(p) EXCEPT ![call[p].section] =
                     Written(View(p)[call[p].section], text, Clamp(trust))]
      BY <3>1, <3>2
    <3>5. text \in Texts /\ sec \in [Sections -> Section] /\ View(p) \in [Sections -> Section]
          /\ Rewritten(sec, View(p)) /\ TableSound(View(p))
      BY ViewType, ViewGrows, TextTypes DEF ContextInv, TypeOK
    <3>6. Rewritten(sec, sec')
      BY <3>3, <3>4, <3>5, RewriteOne
    <3> QED
      BY <3>1, <3>6
  <2>3. ASSUME UpdateLoses(p) \/ CreateBlind(p) PROVE Moves(p)
    BY <2>3, ViewGrows DEF UpdateLoses, CreateBlind, CommitRefusal
  <2> QED
    BY <1>1, <2>1, <2>2, <2>3
       DEF OwnerNext, GetSection, CreateRead, UpdateTooLarge, CreateRaced, db
<1>2. ASSUME NEW p \in Processes, SyncNext(p) PROVE UNCHANGED <<sec, imports>> \/ Moves(p)
  <2>1. CASE SyncCommit(p)
    BY <2>1, ViewGrows DEF SyncCommit, View, Staged
  <2> QED
    BY <1>2, <2>1
       DEF SyncNext, SyncOpen, SyncLook, SyncOversized, SyncStage, SyncRaced, SyncReturn, db
<1>3. ASSUME NEW p \in Processes, ExportNext(p) \/ Fail(p) PROVE UNCHANGED <<sec, imports>>
  BY <1>3 DEF ExportNext, ExportCompare, ExportReplace, ExportCommit, ExportClearsLeak, Fail, db
<1>4. ASSUME NEW o \in Operators, OperatorNext(o)
      PROVE  UNCHANGED <<sec, imports>> \/ (imports' = imports /\ PromoteSection(o))
  BY <1>4 DEF OperatorNext, ReviewSection, PromoteSection, EndReview, db
<1>5. ASSUME NEW s, NEW text, EditFile(s, text) PROVE UNCHANGED <<sec, imports>>
  BY <1>5 DEF EditFile, db
<1>6. ASSUME EnqueueProjection \/ RestChanges \/ UNCHANGED vars PROVE UNCHANGED <<sec, imports>>
  BY <1>6 DEF EnqueueProjection, RestChanges, vars, db
<1> HIDE DEF Moves
<1>7. \/ UNCHANGED <<sec, imports>> \/ \E p \in Processes : Moves(p)
      \/ imports' = imports /\ \E o \in Operators : PromoteSection(o)
  BY <1>1, <1>2, <1>3, <1>4, <1>5, <1>6 DEF Next
<1> QED
  BY <1>7 DEF Moves

\* update_section, sync_from_file, --promote-section: operator trust belongs to
\* one text, the one an operator had before them.
THEOREM OperatorTrustIsReviewed == Spec => OperatorTrustFollowsReview
<1>1. ASSUME ContextInv, [Next]_vars, NEW s \in Sections, sec'[s] # sec[s]
      PROVE  \/ sec'[s].version > sec[s].version /\ sec'[s].trust # "operator"
             \/ /\ sec'[s] = [sec[s] EXCEPT !.trust = "operator"]
                /\ \E o \in Operators :
                      /\ review[o] # Idle /\ review[o].section = s
                      /\ review[o].row.version = sec[s].version
                      /\ review[o].row.content = sec[s].content
  <2>1. CASE Rewritten(sec, sec')
    BY <1>1, <2>1 DEF Rewritten
  <2>2. ASSUME NEW o \in Operators, PromoteSection(o)
        PROVE  /\ sec'[s] = [sec[s] EXCEPT !.trust = "operator"]
               /\ review[o] # Idle /\ review[o].section = s
               /\ review[o].row.version = sec[s].version
               /\ review[o].row.content = sec[s].content
    <3>1. /\ review[o] # Idle
          /\ sec[review[o].section].version = review[o].row.version
          /\ sec[review[o].section].content = review[o].row.content
          /\ sec' = [sec EXCEPT ![review[o].section].trust = "operator"]
      BY <2>2 DEF PromoteSection
    <3>2. review[o].section = s
      BY <1>1, <3>1 DEF ContextInv, TypeOK
    <3> QED
      BY <1>1, <3>1, <3>2 DEF ContextInv, TypeOK
  <2> QED
    BY <1>1, <2>1, <2>2, SectionSteps
<1>2. ASSUME ContextInv, [Next]_vars
      PROVE  [\A s \in Sections : sec'[s] # sec[s] =>
                \/ sec'[s].version > sec[s].version /\ sec'[s].trust # "operator"
                \/ /\ sec'[s] = [sec[s] EXCEPT !.trust = "operator"]
                   /\ \E o \in Operators :
                         /\ review[o] # Idle /\ review[o].section = s
                         /\ review[o].row.version = sec[s].version
                         /\ review[o].row.content = sec[s].content]_vars
  BY <1>1, <1>2
<1> QED
  BY <1>2, ContextInvariant, PTL DEF Spec, OperatorTrustFollowsReview

\* sync_from_file: the row that an import replaces is the exported one, whatever
\* happened between its SELECTs and its commit.
THEOREM ImportReplacesExport == Spec => ImportReplacesExportedVersion
<1>1. ASSUME ContextInv, [Next]_vars
      PROVE  [\A r \in imports' \ imports :
                 r.previous > 0 => base[r.section].version = r.previous]_vars
  BY <1>1, SectionSteps, ViewGrows
<1> QED
  BY <1>1, ContextInvariant, PTL DEF Spec, ImportReplacesExportedVersion

\* The steps that put new text in the file: an export's os.replace, an edit.
LEMMA FileSteps ==
    ASSUME ContextInv, [Next]_vars, file' # file
    PROVE  \/ \E p \in Processes : ExportReplace(p)
           \/ file'.image = file.image \/ file'.origin # "exported"
<1>1. ASSUME NEW p \in Processes, ExportCommit(p) PROVE file'.image = file.image
  <2>1. file' = [file EXCEPT !.origin = "exported", !.from = call[p].versions]
        /\ call[p].op = "replaced"
    BY <1>1 DEF ExportCommit
  <2>2. file \in File
    BY <2>1 DEF ContextInv, TypeOK, CallSound, ExportSound
  <2> QED
    BY <2>1, <2>2 DEF File
<1>2. ASSUME NEW p \in Processes, Fail(p) PROVE file'.image = file.image
  <2>1. file' = [file EXCEPT !.origin = "torn"] /\ call[p].op = "replaced"
    BY <1>2 DEF Fail
  <2>2. file \in File
    BY <2>1 DEF ContextInv, TypeOK, CallSound, ExportSound
  <2> QED
    BY <2>1, <2>2 DEF File
<1>3. ASSUME NEW s \in FileSections, NEW text, EditFile(s, text)
      PROVE  file'.origin = "edited"
  BY <1>3 DEF EditFile, ContextInv, TypeOK, File
<1>4. ASSUME NEW p \in Processes, OwnerNext(p) \/ SyncNext(p) PROVE file' = file
  BY <1>4 DEF OwnerNext, GetSection, CreateRead, UpdateWins, UpdateTooLarge, UpdateLoses,
     CreateInsert, CreateBlind, CreateRaced, SyncNext, SyncOpen, SyncLook, SyncOversized,
     SyncStage, SyncRaced, SyncCommit, SyncReturn
<1>5. ASSUME NEW p \in Processes, ExportNext(p), file'.image # file.image
      PROVE  ExportReplace(p)
  BY <1>1, <1>5 DEF ExportNext, ExportCompare, ExportClearsLeak
<1>6. ASSUME NEW o \in Operators, OperatorNext(o) PROVE file' = file
  BY <1>6 DEF OperatorNext, ReviewSection, PromoteSection, EndReview
<1>7. ASSUME EnqueueProjection \/ RestChanges \/ UNCHANGED vars PROVE file' = file
  BY <1>7 DEF EnqueueProjection, RestChanges, vars
<1> QED
  BY <1>2, <1>3, <1>4, <1>5, <1>6, <1>7 DEF Next

\* export_bridge_markdown: the edits that an export of a tracked file destroys
\* came between its comparison and its os.replace.
THEOREM ExportKeepsSeenEdits == Spec => SeenEditsSurviveExport
<1>1. ASSUME ContextInv, [Next]_vars, file # NoFile,
             file.origin = "edited", file'.origin = "exported",
             published # NoFile, file.image # published, file'.image # file.image
      PROVE  \E p \in Processes : call[p].op = "compared" /\ call[p].saw # file
  <2>1. PICK p \in Processes : ExportReplace(p)
    BY <1>1, FileSteps
  <2>2. call[p].op = "compared" /\ ~AlreadyRendered(p)
    BY <1>1, <2>1 DEF ExportReplace
  <2>3. call[p].saw # NoFile => call[p].saw.image = published
    BY <1>1, <2>2 DEF ContextInv, CallSound, ExportSound
  <2> QED
    BY <1>1, <2>2, <2>3
<1>2. ASSUME ContextInv, [Next]_vars
      PROVE  [(/\ file # NoFile /\ file.origin = "edited" /\ file'.origin = "exported"
               /\ published # NoFile /\ file.image # published
               /\ file'.image # file.image)
                 => \E p \in Processes : call[p].op = "compared" /\ call[p].saw # file]_vars
  BY <1>1, <1>2
<1> QED
  BY <1>2, ContextInvariant, PTL DEF Spec, SeenEditsSurviveExport

-----------------------------------------------------------------------------
(* The ledger of refused writes.  The transaction that is open was staged    *)
(* against the ledger as it still is, since the write lock belongs to it; so *)
(* a commit is one upsert, which adds one row at most, and an identity's own *)
(* row only below the quota.                                                 *)

OverflowKeys == {Overflow(s) : s \in Surfaces}

\* The row of an upsert: an identity's own, with room for it, or its
\* surface's overflow row.
StagedIsUpsert ==
    staged = NothingStaged \/
    /\ staged.open
    /\ staged.id \in Identities
    /\ staged.key = KeyFor(ledger, staged.id)
    /\ staged.image = Upsert(ledger, staged.key)

IdentityRowsBounded ==
    /\ IsFiniteSet(Rows(ledger))
    /\ Cardinality(Rows(ledger) \cap ExactKeys) <= MaxIdentities

ConflictsInv ==
    /\ ledger \in Ledgers
    /\ StagedIsUpsert
    /\ IdentityRowsBounded
    /\ ToldReceiptsAreDurable

LEMMA KeyForType ==
    ASSUME NEW id \in Identities
    PROVE  /\ KeyFor(ledger, id) \in RowKeys
           /\ KeyFor(ledger, id) \in {Exact(id), Overflow(SurfaceOf[id])}
           /\ KeyFor(ledger, id) \in ExactKeys => HasRoom(ledger, id)
BY ConflictAssumption DEF KeyFor, RowKeys, ExactKeys, Exact, Overflow

\* An upsert adds its row and keeps the others.
LEMMA UpsertRows ==
    ASSUME ledger \in Ledgers, NEW k \in RowKeys
    PROVE  /\ Upsert(ledger, k) \in Ledgers
           /\ Rows(Upsert(ledger, k)) = Rows(ledger) \cup {k}
BY DEF Ledgers, Upsert, Rows

LEMMA ConflictInitInv == ASSUME ConflictInit PROVE ConflictsInv
<1>1. ledger \in Ledgers
  BY DEF ConflictInit, EmptyLedger, Ledgers
<1>2. Rows(ledger) = {}
  BY DEF ConflictInit, EmptyLedger, Rows
<1>3. IdentityRowsBounded
  <2>1. Rows(ledger) \cap ExactKeys = {}
    BY <1>2
  <2> QED
    BY <1>2, <2>1, FS_EmptySet, ConflictAssumption DEF IdentityRowsBounded
<1> QED
  BY <1>1, <1>3 DEF ConflictInit, ConflictsInv, StagedIsUpsert, ToldReceiptsAreDurable

LEMMA ConflictStageInv ==
    ASSUME ConflictsInv, NEW w, NEW id \in Identities, Stage(w, id)
    PROVE  ConflictsInv'
<1>1. UNCHANGED <<ledger, told>>
  BY DEF Stage
<1>2. StagedIsUpsert'
  BY <1>1 DEF Stage, StagedIsUpsert, RecordConflict, KeyFor, HasRoom, Rows
<1> QED
  BY <1>1, <1>2 DEF ConflictsInv, IdentityRowsBounded, ToldReceiptsAreDurable, Rows, Ledgers

\* The quota: below it there is room for one row more.
LEMMA CommitBounded ==
    ASSUME ConflictsInv, NEW w, Commit(w)
    PROVE  IdentityRowsBounded'
<1>1. /\ staged.id \in Identities
      /\ staged.key = KeyFor(ledger, staged.id)
      /\ ledger' = Upsert(ledger, staged.key)
  BY DEF Commit, ConflictsInv, StagedIsUpsert, NothingStaged
<1> DEFINE k == staged.key
           R == Rows(ledger)
<1>2. k \in RowKeys /\ (k \in ExactKeys => HasRoom(ledger, staged.id)) /\ k \in {Exact(staged.id), Overflow(SurfaceOf[staged.id])}
  BY <1>1, KeyForType
<1>3. Rows(ledger') = R \cup {k}
  BY <1>1, <1>2, UpsertRows DEF ConflictsInv
<1>4. IsFiniteSet(R) /\ Cardinality(R) \in Nat /\ MaxIdentities \in Nat
  BY FS_CardinalityType, ConflictAssumption DEF ConflictsInv, IdentityRowsBounded
<1>5. IsFiniteSet(Rows(ledger'))
  BY <1>3, <1>4, FS_AddElement
<1>6. IsFiniteSet(R \cap ExactKeys) /\ Cardinality(R \cap ExactKeys) \in Nat
  BY <1>4, FS_Subset, FS_CardinalityType
<1>7. CASE k \in R \/ k \notin ExactKeys
  <2>1. (R \cup {k}) \cap ExactKeys = R \cap ExactKeys
    BY <1>7
  <2> QED
    BY <1>3, <1>5, <2>1 DEF ConflictsInv, IdentityRowsBounded
<1>8. CASE k \notin R /\ k \in ExactKeys
  <2>1. k = Exact(staged.id)
    BY <1>2, <1>8 DEF ExactKeys, Exact, Overflow
  <2>2. Cardinality(R) < MaxIdentities
    BY <1>2, <1>8, <2>1 DEF HasRoom, Rows
  <2>3. Cardinality(R \cap ExactKeys) <= Cardinality(R)
    BY <1>4, FS_Subset
  <2>4. (R \cup {k}) \cap ExactKeys = (R \cap ExactKeys) \cup {k}
    BY <1>8
  <2>5. Cardinality((R \cap ExactKeys) \cup {k}) = Cardinality(R \cap ExactKeys) + 1
    BY <1>6, <1>8, FS_AddElement
  <2>6. Cardinality(R \cap ExactKeys) + 1 <= MaxIdentities
    <3> HIDE DEF k, R
    <3> QED
      BY <1>4, <1>6, <2>2, <2>3
  <2>7. Cardinality(Rows(ledger') \cap ExactKeys) <= MaxIdentities
    BY <1>3, <2>4, <2>5, <2>6
  <2> QED
    BY <1>5, <2>7 DEF IdentityRowsBounded, Rows
<1> QED
  BY <1>7, <1>8

LEMMA ConflictCommitInv ==
    ASSUME ConflictsInv, NEW w, Commit(w)
    PROVE  ConflictsInv'
<1>1. /\ staged.id \in Identities
      /\ staged.key = KeyFor(ledger, staged.id)
      /\ ledger' = Upsert(ledger, staged.key)
      /\ told' = told \cup {<<staged.id, staged.key>>}
      /\ staged' = NothingStaged
  BY DEF Commit, ConflictsInv, StagedIsUpsert, NothingStaged
<1>2. staged.key \in RowKeys /\ staged.key \in {Exact(staged.id), Overflow(SurfaceOf[staged.id])}
  BY <1>1, KeyForType
<1>3. ledger' \in Ledgers /\ Rows(ledger') = Rows(ledger) \cup {staged.key}
  BY <1>1, <1>2, UpsertRows DEF ConflictsInv
<1>4. ToldReceiptsAreDurable'
  <2> SUFFICES ASSUME NEW t \in told'
               PROVE  ledger'[t[2]] > 0 /\ t[2] \in {Exact(t[1]), Overflow(SurfaceOf[t[1]])}
    BY DEF ToldReceiptsAreDurable
  <2>1. CASE t = <<staged.id, staged.key>>
    BY <2>1, <1>2, <1>3 DEF Rows
  <2>2. CASE t \in told
    <3>1. ledger[t[2]] > 0 /\ t[2] \in {Exact(t[1]), Overflow(SurfaceOf[t[1]])}
      BY <2>2 DEF ConflictsInv, ToldReceiptsAreDurable
    <3>2. ledger'[t[2]] > 0
      BY <3>1, <1>1, <1>2 DEF Upsert, ConflictsInv, Ledgers
    <3> QED
      BY <3>1, <3>2
  <2> QED
    BY <1>1, <2>1, <2>2
<1> QED
  BY <1>1, <1>3, <1>4, CommitBounded DEF ConflictsInv, StagedIsUpsert

LEMMA ConflictStepInv ==
    ASSUME ConflictsInv, [ConflictNext]_conflictVars PROVE ConflictsInv'
<1>1. ASSUME NEW w \in Writers, NEW id \in Identities, Stage(w, id) PROVE ConflictsInv'
  BY <1>1, ConflictStageInv
<1>2. ASSUME NEW w \in Writers, Commit(w) PROVE ConflictsInv'
  BY <1>2, ConflictCommitInv
<1>3. ASSUME NEW w \in Writers, RollBack(w) PROVE ConflictsInv'
  BY <1>3 DEF RollBack, ConflictsInv, StagedIsUpsert, IdentityRowsBounded, ToldReceiptsAreDurable, Rows, Ledgers
<1>4. CASE UNCHANGED conflictVars
  BY <1>4 DEF conflictVars, ConflictsInv, StagedIsUpsert, IdentityRowsBounded, ToldReceiptsAreDurable,
              Rows, Ledgers, KeyFor, HasRoom, Upsert
<1> QED
  BY <1>1, <1>2, <1>3, <1>4 DEF ConflictNext

\* The invariant of _upsert_write_conflict (db.py:1321-1359) in transactions
\* that commit and roll back.
THEOREM ConflictsInvariant == ConflictSpec => []ConflictsInv
<1>1. ConflictInit => ConflictsInv
  BY ConflictInitInv
<1>2. ConflictsInv /\ [ConflictNext]_conflictVars => ConflictsInv'
  BY ConflictStepInv
<1> QED
  BY <1>1, <1>2, PTL DEF ConflictSpec

\* There is one overflow row per surface.
LEMMA OverflowRows ==
    /\ IsFiniteSet(Surfaces) /\ IsFiniteSet(OverflowKeys)
    /\ Cardinality(OverflowKeys) <= Cardinality(Surfaces)
<1> DEFINE f == [s \in Surfaces |-> Overflow(s)]
<1>1. f \in Surjection(Surfaces, OverflowKeys)
  BY DEF OverflowKeys, Surjection
<1> QED
  BY <1>1, FS_Surjection, ConflictAssumption

LEMMA BoundFollows ==
    ASSUME ConflictsInv PROVE LedgerBounded
<1> DEFINE E == Rows(ledger) \cap ExactKeys
           O == Rows(ledger) \cap OverflowKeys
<1>1. Rows(ledger) = E \cup O
  BY DEF Rows, RowKeys, OverflowKeys
<1>2. IsFiniteSet(E) /\ Cardinality(E) \in Nat /\ Cardinality(E) <= MaxIdentities
  BY FS_Subset, FS_CardinalityType DEF ConflictsInv, IdentityRowsBounded
<1>3. /\ IsFiniteSet(O) /\ Cardinality(O) \in Nat
      /\ Cardinality(O) <= Cardinality(OverflowKeys)
      /\ Cardinality(OverflowKeys) \in Nat /\ Cardinality(Surfaces) \in Nat
  BY OverflowRows, FS_Subset, FS_CardinalityType
<1>4. IsFiniteSet(E \cap O) /\ Cardinality(E \cap O) \in Nat
  BY <1>2, FS_Subset, FS_CardinalityType
<1>5. Cardinality(Rows(ledger)) = Cardinality(E) + Cardinality(O) - Cardinality(E \cap O)
  BY <1>1, <1>2, <1>3, FS_Union
<1>6. MaxIdentities \in Nat
  BY ConflictAssumption
<1>7. Cardinality(Rows(ledger)) <= MaxIdentities + Cardinality(Surfaces)
  BY <1>2, <1>3, <1>4, <1>5, <1>6, OverflowRows
<1> QED
  BY <1>2, <1>7 DEF LedgerBounded

\* The table cannot outgrow its quota by more than one row per surface.
THEOREM LedgerStaysBounded == ConflictSpec => []LedgerBounded
<1>1. ConflictsInv => LedgerBounded
  BY BoundFollows
<1> QED
  BY <1>1, ConflictsInvariant, PTL

\* A receipt a caller was told of is durable, and is evidence of its conflict.
THEOREM ToldReceiptsStay == ConflictSpec => []ToldReceiptsAreDurable
<1>1. ConflictsInv => ToldReceiptsAreDurable
  BY DEF ConflictsInv
<1> QED
  BY <1>1, ConflictsInvariant, PTL

-----------------------------------------------------------------------------

(***************************************************************************)
(* Sums.  MapThenSumSet is a recursive function over the subsets of its    *)
(* set.  The finite sets are well-founded under inclusion, so a smallest   *)
(* counterexample takes the place of an induction.                         *)
(***************************************************************************)

SumOver(f, S) == MapThenSumSet(LAMBDA k : f[k], S)

Pick(s) == CHOOSE x \in s : TRUE

\* Among the subsets of a finite set that are counterexamples, one is smallest.
LEMMA LeastSubset ==
    ASSUME NEW S, IsFiniteSet(S), NEW B, B \subseteq SUBSET S, B # {}
    PROVE  \E s \in B : \A t \in B : t \subseteq s => t = s
<1> DEFINE R == StrictSubsetOrdering(S)
           F == FiniteSubsetsOf(S)
<1>1. IsWellFoundedOn(R, F)
  BY FS_StrictSubsetOrderingWellFounded
<1>2. B \subseteq F
  BY FS_Subset DEF FiniteSubsetsOf
<1>3. \E s \in B : \A t \in B : ~ (<<t, s>> \in R)
  <2> HIDE DEF R, F
  <2> QED BY <1>1, <1>2, WFMin
<1>4. ASSUME NEW s \in B, NEW t \in B, ~ (<<t, s>> \in R), t \subseteq s
      PROVE  t = s
  BY <1>4 DEF StrictSubsetOrdering
<1>5. PICK s \in B : \A t \in B : ~ (<<t, s>> \in R)
  BY <1>3, Zenon
<1>6. \A t \in B : t \subseteq s => t = s
  BY <1>4, <1>5, Zenon
<1> QED
  BY <1>6

\* The recursive equation of the fold: g has the sums of f.
SumStep(g, f, s) == IF s = {} THEN 0 ELSE f[Pick(s)] + g[s \ {Pick(s)}]

IsSum(g, f, S) == g = [s \in SUBSET S |-> SumStep(g, f, s)]

\* The sum is a solution of its equation, if there is one.
LEMMA SumDef ==
    ASSUME NEW f, NEW S, NEW g, IsSum(g, f, S)
    PROVE  \E h : IsSum(h, f, S) /\ SumOver(f, S) = h[S]
<1> DEFINE it == CHOOSE h : IsSum(h, f, S)
<1>1. IsSum(it, f, S)
  OBVIOUS
<1>2. SumOver(f, S) = it[S]
  BY DEF SumOver, MapThenSumSet, MapThenFoldSet, IsSum, SumStep, Pick
<1> QED BY <1>1, <1>2

\* The equation has a solution as far as the sets of at most n elements.
Solved(f, S, n) ==
    \E g : \A t \in SUBSET S : Cardinality(t) <= n => g[t] = SumStep(g, f, t)

LEMMA SolvedStep ==
    ASSUME NEW f, NEW S, IsFiniteSet(S), NEW n \in Nat, n > 0, Solved(f, S, n - 1)
    PROVE  Solved(f, S, n)
<1>1. PICK g : \A t \in SUBSET S : Cardinality(t) <= n - 1 => g[t] = SumStep(g, f, t)
  BY DEF Solved
<1> DEFINE h == [t \in SUBSET S |-> SumStep(g, f, t)]
<1>2. ASSUME NEW t \in SUBSET S, Cardinality(t) <= n PROVE h[t] = SumStep(h, f, t)
  <2>1. CASE t = {}
    BY <2>1 DEF SumStep
  <2>2. CASE t # {}
    <3>1. Pick(t) \in t
      BY <2>2 DEF Pick
    <3> DEFINE u == t \ {Pick(t)}
    <3>2. u \in SUBSET S
      OBVIOUS
    <3>3. Cardinality(u) <= n - 1
      BY <1>2, <3>1, FS_Subset, FS_CardinalityType, FS_RemoveElement
    <3>4. g[u] = SumStep(g, f, u)
      BY <1>1, <3>2, <3>3
    <3>5. h[u] = g[u]
      BY <3>2, <3>4
    <3>6. h[t] = f[Pick(t)] + g[u]
      BY <2>2 DEF SumStep
    <3> HIDE DEF h
    <3> QED
      BY <3>5, <3>6, <2>2 DEF SumStep
  <2> QED
    BY <2>1, <2>2
<1> QED
  BY <1>2 DEF Solved

LEMMA AllSolved ==
    ASSUME NEW f, NEW S, IsFiniteSet(S)
    PROVE  Solved(f, S, Cardinality(S))
<1> DEFINE B == {s \in SUBSET S : ~ Solved(f, S, Cardinality(s))}
<1>1. SUFFICES ASSUME B # {} PROVE FALSE
  BY DEF B
<1>2. PICK s \in B : \A t \in B : t \subseteq s => t = s
  <2> HIDE DEF B
  <2>1. B \subseteq SUBSET S
    BY DEF B
  <2> QED
    BY <1>1, <2>1, LeastSubset
<1>3. s \in SUBSET S /\ ~ Solved(f, S, Cardinality(s)) /\ IsFiniteSet(s)
  BY FS_Subset
<1>4. CASE s = {}
  <2> DEFINE h == [t \in SUBSET S |-> 0]
  <2>1. ASSUME NEW t \in SUBSET S, Cardinality(t) <= Cardinality(s) PROVE h[t] = SumStep(h, f, t)
    <3>1. t = {}
      BY <2>1, <1>4, FS_EmptySet, FS_Subset, FS_CardinalityType
    <3> QED
      BY <3>1 DEF SumStep
  <2>2. Solved(f, S, Cardinality(s))
    BY <2>1 DEF Solved
  <2> QED
    BY <1>3, <2>2
<1>5. CASE s # {}
  <2>1. PICK x : x \in s
    BY <1>5
  <2> DEFINE u == s \ {x}
  <2>2. Cardinality(u) = Cardinality(s) - 1 /\ Cardinality(s) \in Nat /\ Cardinality(u) \in Nat
    BY <1>3, <2>1, FS_RemoveElement, FS_CardinalityType
  <2>3. u \notin B
    <3> HIDE DEF B
    <3> QED
      BY <1>2, <2>1
  <2>4. Solved(f, S, Cardinality(s) - 1)
    BY <2>2, <2>3, <1>3
  <2>5. Solved(f, S, Cardinality(s))
    BY <2>4, <2>2, SolvedStep
  <2> QED
    BY <1>3, <2>5
<1> QED
  BY <1>4, <1>5

\* The sum is defined.
LEMMA SumOfSubsets ==
    ASSUME NEW f, NEW S, IsFiniteSet(S)
    PROVE  \E h : IsSum(h, f, S) /\ SumOver(f, S) = h[S]
<1>1. PICK g : \A t \in SUBSET S : Cardinality(t) <= Cardinality(S) => g[t] = SumStep(g, f, t)
  BY AllSolved DEF Solved
<1> DEFINE h == [t \in SUBSET S |-> g[t]]
<1>2. ASSUME NEW t \in SUBSET S PROVE g[t] = SumStep(h, f, t)
  <2>1. g[t] = SumStep(g, f, t)
    BY <1>1, FS_Subset
  <2>2. CASE t = {}
    BY <2>1, <2>2 DEF SumStep
  <2>3. CASE t # {}
    <3>1. t \ {Pick(t)} \in SUBSET S
      OBVIOUS
    <3> QED
      BY <2>1, <2>3, <3>1 DEF SumStep
  <2> QED
    BY <2>2, <2>3
<1>3. h = [t \in SUBSET S |-> SumStep(h, f, t)]
  <2> DEFINE k == [t \in SUBSET S |-> SumStep(h, f, t)]
  <2> QED BY <1>2, Zenon
<1>4. IsSum(h, f, S)
  BY <1>3 DEF IsSum
<1> QED
  BY <1>4, SumDef

\* Sums of naturals are naturals, and sums of zeros are zero.
LEMMA SumInNat ==
    ASSUME NEW S, IsFiniteSet(S), NEW f, \A x \in S : f[x] \in Nat,
           NEW h, IsSum(h, f, S), NEW t \in SUBSET S
    PROVE  h[t] \in Nat
<1> DEFINE B == {s \in SUBSET S : h[s] \notin Nat}
<1>1. SUFFICES ASSUME B # {} PROVE FALSE
  BY DEF B
<1>2. PICK s \in B : \A u \in B : u \subseteq s => u = s
  <2> HIDE DEF B
  <2>1. B \subseteq SUBSET S
    BY DEF B
  <2> QED
    BY <1>1, <2>1, LeastSubset
<1>3. h[s] = SumStep(h, f, s)
  BY DEF IsSum
<1>4. s # {}
  BY <1>3 DEF SumStep
<1>5. Pick(s) \in s
  BY <1>4 DEF Pick
<1>6. h[s \ {Pick(s)}] \in Nat
  BY <1>2, <1>5
<1> QED
  BY <1>3, <1>4, <1>5, <1>6 DEF SumStep

\* g is f with one more at k.
OneMore(f, g, k, S) ==
    /\ \A x \in S : f[x] \in Nat
    /\ \A x \in S : g[x] = IF x = k THEN f[x] + 1 ELSE f[x]

\* One entry grows by one: the sums over the sets it is in grow by one.
LEMMA SumGrows ==
    ASSUME NEW S, IsFiniteSet(S), NEW f, NEW g, NEW k,
           OneMore(f, g, k, S), NEW h, IsSum(h, f, S), NEW j, IsSum(j, g, S), NEW t \in SUBSET S
    PROVE  j[t] = IF k \in t THEN h[t] + 1 ELSE h[t]
<1> DEFINE B == {s \in SUBSET S : j[s] # IF k \in s THEN h[s] + 1 ELSE h[s]}
<1>1. SUFFICES ASSUME B # {} PROVE FALSE
  BY DEF B
<1>2. PICK s \in B : \A u \in B : u \subseteq s => u = s
  <2> HIDE DEF B
  <2>1. B \subseteq SUBSET S
    BY DEF B
  <2> QED
    BY <1>1, <2>1, LeastSubset
<1>3. h[s] = SumStep(h, f, s) /\ j[s] = SumStep(j, g, s)
  BY DEF IsSum
<1>4. s # {}
  BY <1>3 DEF SumStep
<1>5. Pick(s) \in s /\ f[Pick(s)] \in Nat
  BY <1>4 DEF Pick, OneMore
<1> DEFINE p == Pick(s)
           u == s \ {p}
<1>6. u \in SUBSET S /\ h[u] \in Nat
  BY SumInNat DEF OneMore
<1>7. j[u] = IF k \in u THEN h[u] + 1 ELSE h[u]
  BY <1>2, <1>5
<1>8. h[s] = f[p] + h[u] /\ j[s] = g[p] + j[u]
  BY <1>3, <1>4 DEF SumStep
<1>9. g[p] = IF p = k THEN f[p] + 1 ELSE f[p]
  BY <1>5 DEF OneMore
<1>10. j[s] = IF k \in s THEN h[s] + 1 ELSE h[s]
  <2> HIDE DEF u, p
  <2>1. k \in s <=> (k \in u \/ k = p)
    BY <1>5 DEF u, p
  <2>2. ~ (k \in u /\ k = p)
    BY DEF u
  <2>3. f[p] \in Nat
    BY <1>5 DEF p
  <2> QED
    BY <1>6, <1>7, <1>8, <1>9, <2>1, <2>2, <2>3
<1> QED
  BY <1>10

LEMMA SumOfZeros ==
    ASSUME NEW S, IsFiniteSet(S), NEW f, \A x \in S : f[x] = 0,
           NEW h, IsSum(h, f, S), NEW t \in SUBSET S
    PROVE  h[t] = 0
<1> DEFINE B == {s \in SUBSET S : h[s] # 0}
<1>1. SUFFICES ASSUME B # {} PROVE FALSE
  BY DEF B
<1>2. PICK s \in B : \A u \in B : u \subseteq s => u = s
  <2> HIDE DEF B
  <2>1. B \subseteq SUBSET S
    BY DEF B
  <2> QED
    BY <1>1, <2>1, LeastSubset
<1>3. h[s] = SumStep(h, f, s)
  BY DEF IsSum
<1>4. s # {}
  BY <1>3 DEF SumStep
<1>5. Pick(s) \in s
  BY <1>4 DEF Pick
<1>6. h[s \ {Pick(s)}] = 0
  BY <1>2, <1>5
<1> QED
  BY <1>3, <1>4, <1>5, <1>6 DEF SumStep

LEMMA SumOverOfZeros ==
    ASSUME NEW S, IsFiniteSet(S), NEW f, \A x \in S : f[x] = 0
    PROVE  SumOver(f, S) = 0
<1>1. PICK h : IsSum(h, f, S) /\ SumOver(f, S) = h[S]
  BY SumOfSubsets
<1> QED
  BY <1>1, SumOfZeros

LEMMA SumOverGrows ==
    ASSUME NEW S, IsFiniteSet(S), NEW f, NEW g, NEW k,
           OneMore(f, g, k, S)
    PROVE  SumOver(g, S) = IF k \in S THEN SumOver(f, S) + 1 ELSE SumOver(f, S)
<1>1. PICK h : IsSum(h, f, S) /\ SumOver(f, S) = h[S]
  BY SumOfSubsets
<1>2. PICK j : IsSum(j, g, S) /\ SumOver(g, S) = j[S]
  BY SumOfSubsets
<1>3. j[S] = IF k \in S THEN h[S] + 1 ELSE h[S]
  BY <1>1, <1>2, SumGrows
<1> QED
  BY <1>1, <1>2, <1>3

-----------------------------------------------------------------------------

IdentitiesOf(s) == {i \in Identities : SurfaceOf[i] = s}

\* What a commit needs to count once in each of the two sums.
CountedInv ==
    /\ ConflictsInv
    /\ reported \in [Identities -> Nat]
    /\ EveryConflictCounted

LEMMA SurfaceIsFinite ==
    ASSUME NEW s
    PROVE  /\ IsFiniteSet(IdentitiesOf(s)) /\ IsFiniteSet(KeysOf(s))
           /\ IdentitiesOf(s) \subseteq Identities
           /\ s \in Surfaces => KeysOf(s) \subseteq RowKeys
<1>1. IsFiniteSet(IdentitiesOf(s))
  BY FS_Subset, ConflictAssumption DEF IdentitiesOf
<1> DEFINE E == {Exact(id) : id \in IdentitiesOf(s)}
           f == [id \in IdentitiesOf(s) |-> Exact(id)]
<1>2. f \in Surjection(IdentitiesOf(s), E)
  BY DEF Surjection
<1>3. IsFiniteSet(E)
  BY <1>1, <1>2, FS_Surjection
<1>4. KeysOf(s) = E \cup {Overflow(s)}
  BY DEF KeysOf, IdentitiesOf
<1>5. IsFiniteSet(KeysOf(s))
  <2> HIDE DEF E
  <2> QED
    BY <1>3, <1>4, FS_AddElement
<1> QED
  BY <1>1, <1>5 DEF IdentitiesOf, KeysOf, RowKeys, ExactKeys

\* EveryConflictCounted of the ledger l and the reports r.
Counted(l, r) ==
    \A s \in Surfaces : SumOver(l, KeysOf(s)) = SumOver(r, IdentitiesOf(s))

LEMMA CountedAsSums ==
    /\ EveryConflictCounted <=> Counted(ledger, reported)
    /\ EveryConflictCounted' <=> Counted(ledger', reported')
<1>1. EveryConflictCounted <=> Counted(ledger, reported)
  BY DEF Counted, EveryConflictCounted, ReportsOf, SumOver, IdentitiesOf
<1>2. EveryConflictCounted' <=> Counted(ledger', reported')
  BY DEF Counted, EveryConflictCounted, ReportsOf, SumOver, IdentitiesOf, KeysOf, MapThenSumSet, MapThenFoldSet
<1> QED
  BY <1>1, <1>2

LEMMA CountedInitInv == ASSUME ConflictInit PROVE CountedInv
<1>1. reported \in [Identities -> Nat]
  BY DEF ConflictInit
<1>2. ASSUME NEW s \in Surfaces
      PROVE  SumOver(ledger, KeysOf(s)) = 0 /\ SumOver(reported, IdentitiesOf(s)) = 0
  <2>1. \A k \in KeysOf(s) : ledger[k] = 0
    BY SurfaceIsFinite DEF ConflictInit, EmptyLedger
  <2>2. \A i \in IdentitiesOf(s) : reported[i] = 0
    BY SurfaceIsFinite DEF ConflictInit
  <2> QED
    BY <2>1, <2>2, SurfaceIsFinite, SumOverOfZeros
<1> QED
  BY <1>1, <1>2, CountedAsSums, ConflictInitInv DEF CountedInv, Counted

\* The row a conflict is written to is a row of the surface of its identity,
\* and of no other.
LEMMA RowOfSurface ==
    ASSUME NEW id \in Identities, NEW s \in Surfaces
    PROVE  KeyFor(ledger, id) \in KeysOf(s) <=> id \in IdentitiesOf(s)
<1>1. KeyFor(ledger, id) \in {Exact(id), Overflow(SurfaceOf[id])}
  BY KeyForType
<1>2. Exact(id) \in KeysOf(s) <=> SurfaceOf[id] = s
  BY DEF KeysOf, Exact, Overflow
<1>3. Overflow(SurfaceOf[id]) \in KeysOf(s) <=> SurfaceOf[id] = s
  BY DEF KeysOf, Exact, Overflow
<1> QED
  BY <1>1, <1>2, <1>3 DEF IdentitiesOf

LEMMA CommitCounts ==
    ASSUME CountedInv, NEW w, Commit(w)
    PROVE  CountedInv'
<1>1. /\ staged.id \in Identities
      /\ staged.key = KeyFor(ledger, staged.id)
      /\ ledger' = Upsert(ledger, staged.key)
      /\ reported' = [reported EXCEPT ![staged.id] = @ + 1]
  BY DEF Commit, CountedInv, ConflictsInv, StagedIsUpsert, NothingStaged
<1>2. ledger \in [RowKeys -> Nat] /\ reported \in [Identities -> Nat] /\ EveryConflictCounted
  BY DEF CountedInv, ConflictsInv, Ledgers
<1>3. staged.key \in RowKeys
  BY <1>1, KeyForType
<1>4. reported' \in [Identities -> Nat]
  BY <1>1, <1>2
<1>5. ASSUME NEW s \in Surfaces
      PROVE  SumOver(ledger', KeysOf(s)) = SumOver(reported', IdentitiesOf(s))
  <2>1. OneMore(ledger, ledger', staged.key, KeysOf(s))
    BY <1>1, <1>2, <1>3, SurfaceIsFinite DEF Upsert, OneMore
  <2>2. SumOver(ledger', KeysOf(s)) = IF staged.key \in KeysOf(s)
                                      THEN SumOver(ledger, KeysOf(s)) + 1
                                      ELSE SumOver(ledger, KeysOf(s))
    BY <2>1, SurfaceIsFinite, SumOverGrows
  <2>3. OneMore(reported, reported', staged.id, IdentitiesOf(s))
    BY <1>1, <1>2, SurfaceIsFinite DEF OneMore
  <2>4. SumOver(reported', IdentitiesOf(s)) = IF staged.id \in IdentitiesOf(s)
                                              THEN SumOver(reported, IdentitiesOf(s)) + 1
                                              ELSE SumOver(reported, IdentitiesOf(s))
    BY <2>3, SurfaceIsFinite, SumOverGrows
  <2>5. staged.key \in KeysOf(s) <=> staged.id \in IdentitiesOf(s)
    BY <1>1, RowOfSurface
  <2>6. SumOver(ledger, KeysOf(s)) = SumOver(reported, IdentitiesOf(s))
    BY <1>2, CountedAsSums DEF Counted
  <2> QED
    BY <2>2, <2>4, <2>5, <2>6
<1>6. EveryConflictCounted'
  BY <1>5, CountedAsSums DEF Counted
<1> QED
  BY <1>4, <1>6, ConflictCommitInv DEF CountedInv

LEMMA CountedStepInv ==
    ASSUME CountedInv, [ConflictNext]_conflictVars PROVE CountedInv'
<1>1. ConflictsInv'
  BY ConflictStepInv DEF CountedInv
<1>2. CASE UNCHANGED <<ledger, reported>>
  <2>1. Counted(ledger', reported')
    BY <1>2, CountedAsSums DEF CountedInv
  <2> QED
    BY <1>1, <1>2, <2>1, CountedAsSums DEF CountedInv
<1>3. ASSUME NEW w \in Writers, Commit(w) PROVE CountedInv'
  BY <1>3, CommitCounts
<1>4. ASSUME NEW w \in Writers, NEW id \in Identities, Stage(w, id)
      PROVE  UNCHANGED <<ledger, reported>>
  BY <1>4 DEF Stage
<1>5. ASSUME NEW w \in Writers, RollBack(w) PROVE UNCHANGED <<ledger, reported>>
  BY <1>5 DEF RollBack
<1> QED
  BY <1>2, <1>3, <1>4, <1>5 DEF ConflictNext, conflictVars

\* No conflict is lost or counted twice: per surface, the occurrence counts of
\* the ledger add up to the conflicts committed, those in the overflow row of
\* record_write_conflict (db.py:1426-1461) included.
THEOREM ConflictsAreCounted == ConflictSpec => []EveryConflictCounted
<1>1. ConflictInit => CountedInv
  BY CountedInitInv
<1>2. CountedInv /\ [ConflictNext]_conflictVars => CountedInv'
  BY CountedStepInv
<1>3. CountedInv => EveryConflictCounted
  BY DEF CountedInv
<1> QED
  BY <1>1, <1>2, <1>3, PTL DEF ConflictSpec

=============================================================================

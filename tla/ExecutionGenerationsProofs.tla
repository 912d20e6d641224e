--------------------- MODULE ExecutionGenerationsProofs ---------------------
(***************************************************************************)
(* The map of generations is whole whenever no journal is pending, and     *)
(* the files implement an atomic switch, for any set of generations and    *)
(* any number of failed file operations, kills and retries.                *)
(*                                                                         *)
(* Three facts carry the proof.  Before the commit point, and as long as   *)
(* a command undoes, the map to go back to is still whole: its receipt     *)
(* and its drain request are untouched, because these two are written only *)
(* after the commit.  From the commit on nothing is undone, but by the     *)
(* very command whose last write raised after it took effect.  And a step  *)
(* stands only where the writes before it are on disk.                     *)
(***************************************************************************)
EXTENDS ExecutionGenerations, TLAPS

MapWhole(cur, prev, state) ==
    /\ cur = None => prev = None /\ state = NoState
    /\ cur # None =>
         /\ state.op # "none"
         /\ state.current = cur
         /\ state.previous = prev
         /\ state.evidence \in {None, cur}
         /\ state.op # "restored" => receipt = Receipt(state.op, cur, prev)
         /\ state.op \in {"activate", "rollback"} /\ prev \notin Legacy \cup {None}
              => drain[prev] = cur

FilesType ==
    /\ current \in Target /\ previous \in Target
    /\ drain \in [Generations -> Target]

\* What a journal says was asked for.
Intended ==
    Pending =>
        /\ journal.op \in Operations
        /\ journal.newCurrent \in Generations
        /\ {journal.oldCurrent, journal.oldPrevious, journal.newPrevious} \subseteq Target
        /\ journal.newCurrent # journal.oldCurrent
        /\ journal.newEvidence \in {None, journal.newCurrent}
        /\ journal.op = "bootstrap_adopt" =>
              /\ journal.newPrevious \in Generations \ {journal.newCurrent}
              /\ {journal.newCurrent, journal.newPrevious}
                    \cap {journal.oldCurrent, journal.oldPrevious} = {}
        /\ journal.op # "bootstrap_adopt" => journal.newPrevious = journal.oldCurrent

OnDisk(cur, prev) == current = cur /\ previous = prev

Placed ==
    /\ step \in {"idle"} \cup SwitchSteps \cup FinishSteps \cup RestoreSteps
    /\ step # "idle" => Pending
    /\ step \in SwitchSteps => actstate.current # journal.newCurrent
    /\ step = "swap_current" => OnDisk(journal.oldCurrent, journal.oldPrevious)
    /\ step = "swap_previous" => OnDisk(journal.newCurrent, journal.oldPrevious)
    /\ step = "write_state" => OnDisk(journal.newCurrent, journal.newPrevious)
    /\ step \in FinishSteps => Committed
    /\ step = "mark" => journal.op # "bootstrap_adopt"
    /\ step \in {"receipt", "forget"} /\ journal.op # "bootstrap_adopt"
          /\ journal.oldCurrent # None => drain[journal.oldCurrent] = journal.newCurrent
    /\ step = "forget" => receipt = Receipt(journal.op, current, previous)
    /\ step = "restore_previous" => current = journal.oldCurrent
    /\ step \in {"restore_state", "restore_forget"} =>
          OnDisk(journal.oldCurrent, journal.oldPrevious)
    /\ step = "restore_forget" => actstate = StateBefore

Undoable == Pending /\ (~Committed \/ step \in SwitchSteps \cup RestoreSteps)

WayBack == Undoable => MapWhole(journal.oldCurrent, journal.oldPrevious, StateBefore)

GenerationsInv == FilesType /\ Intended /\ Placed /\ WayBack /\ SettledMapIsWhole

\* The property of the runs, in the invariant's words.
LEMMA WholeIsSettled ==
    SettledMapIsWhole <=> (~Pending => MapWhole(current, previous, actstate))
BY DEF SettledMapIsWhole, MapWhole, Active

LEMMA InitGenerationsInv == Init => GenerationsInv
<1> SUFFICES ASSUME Init PROVE GenerationsInv
  OBVIOUS
<1>1. ~Pending /\ step = "idle"
  BY DEF Init, Pending, NoJournal
<1>2. MapWhole(current, previous, actstate)
  BY GenerationsAssumption DEF Init, MapWhole, NoState, Receipt
<1>3. FilesType
  BY GenerationsAssumption DEF Init, FilesType, Target
<1> QED
  BY <1>1, <1>2, <1>3, WholeIsSettled
  DEF GenerationsInv, Intended, Placed, WayBack, Undoable,
      SwitchSteps, FinishSteps, RestoreSteps

(***************************************************************************)
(* A command begins: the journal names the map of now as the way back.     *)
(***************************************************************************)
LEMMA BeginInv ==
    ASSUME GenerationsInv, NEW op \in Operations, NEW g \in Generations, NEW back \in Target,
           NEW evidence \in {None, g}, NEW restoredOp,
           step = "idle", ~Pending,
           g # current,
           op = "bootstrap_adopt" =>
              current # None /\ back \in Generations \ {g} /\ {g, back} \cap {current, previous} = {},
           op # "bootstrap_adopt" => back = current,
           restoredOp \in {"restored", actstate.op},
           current # None => restoredOp # "none",
           WriteJournal(op, g, back, evidence, actstate.evidence, restoredOp),
           UNCHANGED <<releases, current, previous, actstate, drain, receipt>>
    PROVE  GenerationsInv'
<1>1. MapWhole(current, previous, actstate)
  BY WholeIsSettled DEF GenerationsInv
<1>2. CASE journal' = journal
  <2>1. step' = "idle" \/ (step' = "swap_current" /\ Pending')
    BY <1>2 DEF WriteJournal, Continue, Effective, Pending, Operations
  <2>2. step' = "idle"
    BY <1>2, <2>1 DEF Pending
  <2> QED
    BY <1>2, <2>2
    DEF GenerationsInv, FilesType, Intended, Placed, WayBack, Undoable, SettledMapIsWhole,
        Pending, Active, Committed, MapWhole, StateBefore, SwitchSteps, FinishSteps, RestoreSteps
<1>3. CASE journal' = [op |-> op, oldCurrent |-> current, oldPrevious |-> previous,
                       newCurrent |-> g, newPrevious |-> back,
                       oldEvidence |-> actstate.evidence, newEvidence |-> evidence,
                       restoredOp |-> restoredOp]
  <2>1. /\ journal'.op = op /\ journal'.oldCurrent = current /\ journal'.oldPrevious = previous
        /\ journal'.newCurrent = g /\ journal'.newPrevious = back
        /\ journal'.oldEvidence = actstate.evidence /\ journal'.newEvidence = evidence
        /\ journal'.restoredOp = restoredOp
    BY <1>3
  <2>2. Pending' /\ ~Committed' /\ step' \in {"idle", "swap_current"}
    BY <2>1 DEF Pending, Committed, Operations, WriteJournal, Continue
  <2>3. Intended' /\ FilesType'
    BY <2>1 DEF GenerationsInv, FilesType, Intended, Target
  <2>4. actstate.current # g
    BY <1>1, GenerationsAssumption DEF MapWhole, NoState
  <2>5. Placed'
    BY <2>1, <2>2, <2>4 DEF Placed, OnDisk, SwitchSteps, FinishSteps, RestoreSteps
  <2>6. WayBack'
    BY <1>1, <2>1 DEF WayBack, MapWhole, StateBefore
  <2> QED
    BY <2>2, <2>3, <2>5, <2>6 DEF GenerationsInv, SettledMapIsWhole
<1> QED
  BY <1>2, <1>3 DEF WriteJournal

LEMMA BeginsInv ==
    ASSUME GenerationsInv,
           \/ \E g \in Generations : Activate(g)
           \/ Rollback
           \/ \E g, back \in Generations : BootstrapAdopt(g, back)
    PROVE  GenerationsInv'
<1>1. current \in Target /\ previous \in Target
  BY DEF GenerationsInv, FilesType
<1>2. ASSUME NEW op \in {"activate", "rollback"}, NEW g \in Generations,
             NEW evidence \in {None, g}, BeginSwitch(op, g, evidence)
      PROVE  GenerationsInv'
  BY <1>1, <1>2, BeginInv DEF BeginSwitch, Operations
<1>3. CASE \E g \in Generations : Activate(g)
  BY <1>2, <1>3 DEF Activate
<1>4. CASE Rollback
  BY <1>1, <1>2, <1>4 DEF Rollback, Target
<1>5. ASSUME NEW g \in Generations, NEW back \in Generations, BootstrapAdopt(g, back)
      PROVE  GenerationsInv'
  <2>1. "bootstrap_adopt" \in Operations /\ back \in Target /\ g # current
    BY <1>5 DEF Operations, Target, BootstrapAdopt
  <2>2. actstate.op # "none"
    BY <1>5 DEF BootstrapAdopt, Active
  <2> QED
    BY <1>5, <2>1, <2>2, BeginInv DEF BootstrapAdopt
<1> QED
  BY <1>3, <1>4, <1>5

(***************************************************************************)
(* The switch, up to its last write.                                       *)
(***************************************************************************)
\* A step of a command whose journal stays, and what is left to show of it.
LEMMA JournalStays ==
    ASSUME GenerationsInv, Pending, UNCHANGED journal,
           FilesType', Placed', WayBack'
    PROVE  GenerationsInv'
BY DEF GenerationsInv, Intended, SettledMapIsWhole, Pending

LEMMA SwitchInv ==
    ASSUME GenerationsInv, SwapCurrent \/ SwapPrevious PROVE GenerationsInv'
<1>1. Pending /\ step \in {"swap_current", "swap_previous"} /\ UNCHANGED <<journal, actstate, receipt, drain>>
  BY DEF GenerationsInv, Placed, SwapCurrent, SwapPrevious
<1>2. ~Committed' /\ Undoable
  BY <1>1 DEF GenerationsInv, Placed, SwitchSteps, Committed, Undoable
<1>3. FilesType'
  BY <1>1 DEF GenerationsInv, FilesType, Intended, SwapCurrent, SwapPrevious, Target
<1>4. Placed'
  <2>1. CASE SwapCurrent
    BY <1>1, <2>1 DEF SwapCurrent, Continue, Effective, GenerationsInv, Placed, OnDisk, Pending,
                      SwitchSteps, FinishSteps, RestoreSteps
  <2>2. CASE SwapPrevious
    BY <1>1, <2>2 DEF SwapPrevious, Continue, Effective, GenerationsInv, Placed, OnDisk, Pending,
                      SwitchSteps, FinishSteps, RestoreSteps
  <2> QED
    BY <2>1, <2>2
<1>5. WayBack'
  BY <1>1, <1>2 DEF GenerationsInv, WayBack, MapWhole, StateBefore
<1> QED
  BY <1>1, <1>3, <1>4, <1>5, JournalStays

\* The commit point.
LEMMA WriteStateInv ==
    ASSUME GenerationsInv, WriteState PROVE GenerationsInv'
<1>1. Pending /\ step = "write_state" /\ UNCHANGED <<journal, current, previous, receipt, drain>>
  BY DEF GenerationsInv, Placed, WriteState
<1>2. Undoable /\ OnDisk(journal.newCurrent, journal.newPrevious)
  BY <1>1 DEF GenerationsInv, Placed, SwitchSteps, Undoable
<1>3. step' = "restore_current" \/ Committed'
  BY <1>1, <1>2 DEF WriteState, Effective, Continue, OnDisk, Committed, Pending
<1>4. Placed'
  BY <1>1, <1>3 DEF WriteState, Continue, GenerationsInv, Placed, OnDisk, Pending,
                    SwitchSteps, FinishSteps, RestoreSteps
<1>5. WayBack'
  BY <1>1, <1>2 DEF GenerationsInv, WayBack, MapWhole, StateBefore
<1>6. FilesType'
  BY <1>1 DEF GenerationsInv, FilesType
<1> QED
  BY <1>1, <1>4, <1>5, <1>6, JournalStays

(***************************************************************************)
(* After the commit nothing can be undone.                                 *)
(***************************************************************************)
LEMMA MarkInv ==
    ASSUME GenerationsInv, MarkDraining PROVE GenerationsInv'
<1>1. /\ Pending /\ Committed /\ step = "mark" /\ journal.op # "bootstrap_adopt"
      /\ UNCHANGED <<journal, current, previous, receipt, actstate>>
  BY DEF GenerationsInv, Placed, FinishSteps, MarkDraining
<1>2. Committed' /\ Pending' /\ step' \in {"idle", "receipt"}
  BY <1>1 DEF MarkDraining, Continue, Committed, Pending
<1>3. drain' \in [Generations -> Target]
  BY <1>1 DEF GenerationsInv, FilesType, Intended, MarkDraining, Target
<1>4. step' = "receipt" /\ journal.oldCurrent # None =>
          drain'[journal.oldCurrent] = journal.newCurrent
  <2> SUFFICES ASSUME step' = "receipt", journal.oldCurrent # None
               PROVE  drain'[journal.oldCurrent] = journal.newCurrent
    OBVIOUS
  <2>1. journal.oldCurrent \in Generations /\ journal.oldCurrent # journal.newCurrent
    BY <1>1 DEF GenerationsInv, Intended, Target
  <2>2. drain' = [drain EXCEPT ![journal.oldCurrent] = journal.newCurrent]
    BY <1>1, <2>1 DEF MarkDraining, Continue, Effective
  <2> QED
    BY <2>1, <2>2 DEF GenerationsInv, FilesType
<1>5. Placed'
  BY <1>1, <1>2, <1>4 DEF Placed, OnDisk, SwitchSteps, FinishSteps, RestoreSteps
<1>6. WayBack'
  BY <1>2 DEF WayBack, Undoable, SwitchSteps, RestoreSteps
<1>7. FilesType'
  BY <1>1, <1>3 DEF GenerationsInv, FilesType
<1> QED
  BY <1>1, <1>5, <1>6, <1>7, JournalStays

LEMMA ReceiptInv ==
    ASSUME GenerationsInv, WriteReceipt PROVE GenerationsInv'
<1>1. /\ Pending /\ Committed /\ step = "receipt"
      /\ UNCHANGED <<journal, current, previous, drain, actstate>>
  BY DEF GenerationsInv, Placed, FinishSteps, WriteReceipt
<1>2. Committed' /\ Pending' /\ step' \in {"idle", "forget"}
  BY <1>1 DEF WriteReceipt, Continue, Committed, Pending
<1>3. step' = "forget" => receipt' = Receipt(journal.op, current, previous)
  BY DEF WriteReceipt, Continue, Effective
<1>4. Placed'
  BY <1>1, <1>2, <1>3 DEF GenerationsInv, Placed, OnDisk, Receipt, SwitchSteps, FinishSteps, RestoreSteps
<1>5. WayBack'
  BY <1>2 DEF WayBack, Undoable, SwitchSteps, RestoreSteps
<1>6. FilesType'
  BY <1>1 DEF GenerationsInv, FilesType
<1> QED
  BY <1>1, <1>4, <1>5, <1>6, JournalStays

(***************************************************************************)
(* Undoing, and the removal of the journal.                                *)
(***************************************************************************)
LEMMA RestoreInv ==
    ASSUME GenerationsInv, RestoreCurrent \/ RestorePrevious \/ RestoreState
    PROVE  GenerationsInv'
<1>1. Pending /\ step \in RestoreSteps /\ UNCHANGED <<journal, receipt, drain>>
  BY DEF GenerationsInv, Placed, RestoreSteps, RestoreCurrent, RestorePrevious, RestoreState
<1>2. Undoable
  BY <1>1 DEF Undoable
<1>3. FilesType'
  BY <1>1 DEF GenerationsInv, FilesType, Intended, Target,
              RestoreCurrent, RestorePrevious, RestoreState
<1>4. Placed'
  <2>1. CASE RestoreCurrent
    BY <1>1, <2>1 DEF RestoreCurrent, Continue, Effective, GenerationsInv, Placed, OnDisk, Pending,
                      SwitchSteps, FinishSteps, RestoreSteps
  <2>2. CASE RestorePrevious
    BY <1>1, <2>2 DEF RestorePrevious, Continue, Effective, GenerationsInv, Placed, OnDisk, Pending,
                      SwitchSteps, FinishSteps, RestoreSteps
  <2>3. CASE RestoreState
    BY <1>1, <2>3 DEF RestoreState, StateBefore, Continue, Effective, GenerationsInv, Placed, OnDisk,
                      Pending, SwitchSteps, FinishSteps, RestoreSteps
  <2> QED
    BY <2>1, <2>2, <2>3
<1>5. WayBack'
  BY <1>1, <1>2 DEF GenerationsInv, WayBack, MapWhole, StateBefore
<1> QED
  BY <1>1, <1>3, <1>4, <1>5, JournalStays

LEMMA RemoveInv ==
    ASSUME GenerationsInv, RemoveJournal PROVE GenerationsInv'
<1>1. /\ Pending /\ step \in {"forget", "restore_forget"} /\ step' = "idle"
      /\ UNCHANGED <<current, previous, receipt, drain, actstate>>
  BY DEF GenerationsInv, Placed, RemoveJournal, Continue
<1>2. CASE journal' = journal
  <2>1. Placed'
    BY <1>1, <1>2 DEF Placed, SwitchSteps, FinishSteps, RestoreSteps
  <2>2. WayBack'
    BY <1>1, <1>2 DEF GenerationsInv, WayBack, Undoable, Pending, Committed, MapWhole, StateBefore,
                      SwitchSteps, RestoreSteps
  <2> QED
    BY <1>1, <1>2, <2>1, <2>2, JournalStays DEF GenerationsInv, FilesType
<1>3. CASE journal' = NoJournal
  <2>1. ~Pending'
    BY <1>3 DEF Pending, NoJournal
  <2>2. MapWhole(current, previous, actstate)
    <3>1. CASE step = "restore_forget"
      BY <1>1, <3>1 DEF GenerationsInv, Placed, WayBack, Undoable, OnDisk, RestoreSteps
    <3>2. CASE step = "forget"
      <4>1. /\ Committed
            /\ receipt = Receipt(journal.op, current, previous)
            /\ journal.op # "bootstrap_adopt" /\ journal.oldCurrent # None
                 => drain[journal.oldCurrent] = journal.newCurrent
        BY <3>2 DEF GenerationsInv, Placed, FinishSteps
      <4>2. /\ actstate.op = journal.op /\ actstate.current = current
            /\ actstate.previous = previous /\ actstate.evidence = journal.newEvidence
            /\ current = journal.newCurrent /\ previous = journal.newPrevious
        BY <4>1 DEF Committed
      <4> QED
        BY <1>1, <4>1, <4>2, GenerationsAssumption
        DEF GenerationsInv, Intended, MapWhole, Operations
    <3> QED
      BY <1>1, <3>1, <3>2
  <2>3. MapWhole(current, previous, actstate)'
    BY <1>1, <2>2 DEF MapWhole
  <2> QED
    BY <1>1, <2>1, <2>3, WholeIsSettled
    DEF GenerationsInv, FilesType, Intended, Placed, WayBack, Undoable, SettledMapIsWhole,
        MapWhole, Active, SwitchSteps, FinishSteps, RestoreSteps
<1> QED
  BY <1>2, <1>3 DEF RemoveJournal

(***************************************************************************)
(* A retry takes a journal up where its commit says, and a kill leaves it. *)
(***************************************************************************)
LEMMA PickUpInv ==
    ASSUME GenerationsInv, UNCHANGED disk,
           RecoverActivation \/ RecoverAdoption \/ Crash
    PROVE  GenerationsInv'
<1>1. /\ Pending
      /\ UNCHANGED <<journal, current, previous, receipt, drain, actstate>>
      /\ UNCHANGED <<Pending, Committed, StateBefore>>
  BY DEF disk, RecoverActivation, RecoverAdoption, Settles, Crash, GenerationsInv, Placed,
         Pending, Committed, StateBefore
<1>2. \/ step' = "idle"
      \/ step' = "mark" /\ Committed /\ journal.op # "bootstrap_adopt"
      \/ step' = "receipt" /\ Committed /\ journal.op = "bootstrap_adopt"
      \/ step' = "restore_current" /\ ~Committed
  BY DEF RecoverActivation, RecoverAdoption, Settles, Crash
<1>3. Placed'
  BY <1>1, <1>2 DEF Placed, SwitchSteps, FinishSteps, RestoreSteps
<1>4. WayBack'
  BY <1>1, <1>2 DEF GenerationsInv, WayBack, Undoable, MapWhole, SwitchSteps, RestoreSteps
<1> QED
  BY <1>1, <1>3, <1>4, JournalStays DEF GenerationsInv, FilesType

LEMMA QuietInv ==
    ASSUME GenerationsInv, UNCHANGED <<current, previous, actstate, journal, drain, receipt, step>>
    PROVE  GenerationsInv'
BY DEF GenerationsInv, FilesType, Intended, Placed, OnDisk, WayBack, Undoable, SettledMapIsWhole,
       MapWhole, StateBefore, Active, Pending, Committed

LEMMA StepGenerationsInv ==
    ASSUME GenerationsInv, [Next]_vars PROVE GenerationsInv'
<1>1. CASE CommandStep
  <2>1. CASE RecoverActivation \/ RecoverAdoption
    BY <2>1, PickUpInv DEF RecoverActivation, RecoverAdoption, Settles
  <2> QED
    BY <1>1, <2>1, SwitchInv, WriteStateInv, MarkInv, ReceiptInv, RestoreInv, RemoveInv
    DEF CommandStep
<1>2. CASE Crash
  BY <1>2, PickUpInv DEF Crash
<1>3. ASSUME NEW g \in Generations, Stage(g) PROVE GenerationsInv'
  BY <1>3, QuietInv DEF Stage
<1>4. CASE UNCHANGED <<disk, step, faults>>
  BY <1>4, QuietInv DEF disk
<1>5. CASE UNCHANGED vars
  BY <1>4, <1>5 DEF vars
<1> QED
  BY <1>1, <1>2, <1>3, <1>4, <1>5, BeginsInv DEF Next, Command

\* The invariant of the journalled switch, its undoing and its retry
\* (execution_generation.py:2246-2447).
THEOREM GenerationsInvariant == Spec => []GenerationsInv
<1>1. Init => GenerationsInv
  BY InitGenerationsInv
<1>2. GenerationsInv /\ [Next]_vars => GenerationsInv'
  BY StepGenerationsInv
<1> QED
  BY <1>1, <1>2, PTL DEF Spec

\* Without a pending journal the map is whole: pointers, state, evidence,
\* receipt and drain request agree, whatever failed before
\* (execution_generation.py:2339-2447).
THEOREM MapsAreWhole == Spec => []SettledMapIsWhole
<1>1. GenerationsInv => SettledMapIsWhole
  BY DEF GenerationsInv
<1> QED
  BY <1>1, GenerationsInvariant, PTL

(***************************************************************************)
(* The files implement the atomic switch.  The map that readers are to     *)
(* trust is the journal's old one until the commit, and its new one from   *)
(* then on.                                                                *)
(***************************************************************************)
Switched == Committed /\ ~Undoing

TrustedCurrent ==
    IF ~Pending THEN current ELSE IF Switched THEN journal.newCurrent ELSE journal.oldCurrent
TrustedPrevious ==
    IF ~Pending THEN previous ELSE IF Switched THEN journal.newPrevious ELSE journal.oldPrevious
Draining == {g \in Generations : drain[g] # None}

\* The map that is trusted stays, and who is to drain.
Stutters ==
    /\ TrustedCurrent' = TrustedCurrent /\ TrustedPrevious' = TrustedPrevious
    /\ Draining' = Draining

LEMMA StutterIsStutter == ASSUME Stutters PROVE UNCHANGED Switch!vars
BY DEF Stutters, TrustedCurrent, TrustedPrevious, Draining, Switched, Switch!vars

\* Only the commit changes the map that is trusted, and it does it at once.
LEMMA CommitIsSwitch ==
    ASSUME GenerationsInv, Pending, UNCHANGED <<journal, drain>>, Switched => Switched'
    PROVE  [Switch!Next]_(Switch!vars)
<1>1. Pending' /\ Draining' = Draining
  BY DEF Pending, Draining
<1>2. CASE Switched' <=> Switched
  BY <1>1, <1>2, StutterIsStutter DEF Stutters, TrustedCurrent, TrustedPrevious
<1>3. CASE ~Switched /\ Switched'
  <2>1. /\ TrustedCurrent = journal.oldCurrent /\ TrustedCurrent' = journal.newCurrent
        /\ TrustedPrevious = journal.oldPrevious /\ TrustedPrevious' = journal.newPrevious
    BY <1>1, <1>3 DEF TrustedCurrent, TrustedPrevious
  <2>2. CASE journal.op # "bootstrap_adopt"
    <3>1. Switch!Switch(journal.newCurrent)
      BY <1>1, <2>1, <2>2
      DEF GenerationsInv, Intended, Switch!Switch, TrustedCurrent, TrustedPrevious, Draining,
          Switched
    <3> QED
      BY <3>1 DEF GenerationsInv, Intended, Switch!Next
  <2>3. CASE journal.op = "bootstrap_adopt"
    <3>1. journal.newPrevious \in Generations
      BY <2>3 DEF GenerationsInv, Intended, Target
    <3>2. Switch!Adopt(journal.newCurrent, journal.newPrevious)
      BY <1>1, <2>1, <2>3
      DEF GenerationsInv, Intended, Switch!Adopt, TrustedCurrent, TrustedPrevious, Draining,
          Switched
    <3> QED
      BY <3>1, <3>2 DEF GenerationsInv, Intended, Switch!Next
  <2> QED
    BY <2>2, <2>3
<1> QED
  BY <1>2, <1>3
LEMMA InitIsSwitch == Init => Switch!Init
BY DEF Init, Switch!Init, Pending, NoJournal

\* Only a request to drain adds to those who drain, and only after a switch.
LEMMA MarkIsDrain ==
    ASSUME GenerationsInv, MarkDraining PROVE [Switch!Next]_(Switch!vars)
<1>1. /\ Pending /\ Committed /\ step = "mark" /\ journal.op # "bootstrap_adopt"
      /\ UNCHANGED <<journal, current, previous, actstate>>
      /\ step' \in {"idle", "receipt"}
  BY DEF GenerationsInv, Placed, FinishSteps, MarkDraining, Continue
<1>2. Pending' /\ Switched /\ Switched'
  BY <1>1 DEF Pending, Switched, Committed, Undoing, RestoreSteps
<1>3. CASE UNCHANGED drain
  BY <1>1, <1>2, <1>3, CommitIsSwitch
<1>4. CASE /\ journal.oldCurrent \notin {None, journal.newCurrent}
           /\ drain' = [drain EXCEPT ![journal.oldCurrent] = journal.newCurrent]
  <2>1. /\ journal.oldCurrent \in Generations /\ journal.newCurrent # None
        /\ journal.newPrevious = journal.oldCurrent
        /\ drain \in [Generations -> Target]
    BY <1>1, <1>4, GenerationsAssumption DEF GenerationsInv, FilesType, Intended, Target
  <2>2. Draining' = Draining \cup {journal.oldCurrent}
    BY <1>4, <2>1 DEF Draining
  <2>3. /\ TrustedCurrent = journal.newCurrent /\ TrustedCurrent' = TrustedCurrent
        /\ TrustedPrevious = journal.oldCurrent /\ TrustedPrevious' = TrustedPrevious
    BY <1>1, <1>2, <2>1 DEF TrustedCurrent, TrustedPrevious
  <2>4. Switch!RequestDrain
    BY <1>4, <2>2, <2>3
    DEF Switch!RequestDrain, TrustedCurrent, TrustedPrevious, Draining, Switched
  <2> QED
    BY <2>4 DEF Switch!Next
<1> QED
  BY <1>1, <1>3, <1>4 DEF MarkDraining

\* Where the journal is removed, the map it leads to is on disk.
LEMMA RemoveStutters ==
    ASSUME GenerationsInv, RemoveJournal PROVE [Switch!Next]_(Switch!vars)
<1>1. /\ Pending /\ step \in {"forget", "restore_forget"} /\ step' = "idle"
      /\ UNCHANGED <<current, previous, drain, actstate>>
  BY DEF GenerationsInv, Placed, RemoveJournal, Continue
<1>2. CASE journal' = journal
  <2>1. Switched => Switched'
    BY <1>1, <1>2 DEF Switched, Committed, Undoing, Pending, RestoreSteps
  <2> QED
    BY <1>1, <1>2, <2>1, CommitIsSwitch
<1>3. CASE journal' = NoJournal
  <2>1. ~Pending' /\ Draining' = Draining
    BY <1>1, <1>3 DEF Pending, NoJournal, Draining
  <2>2. CASE step = "forget"
    BY <1>1, <2>1, <2>2, StutterIsStutter
    DEF GenerationsInv, Placed, FinishSteps, RestoreSteps, Switched, Committed, Undoing,
        Stutters, TrustedCurrent, TrustedPrevious
  <2>3. CASE step = "restore_forget"
    BY <1>1, <2>1, <2>3, StutterIsStutter
    DEF GenerationsInv, Placed, OnDisk, RestoreSteps, Switched, Undoing,
        Stutters, TrustedCurrent, TrustedPrevious
  <2> QED
    BY <1>1, <2>2, <2>3
<1> QED
  BY <1>2, <1>3 DEF RemoveJournal

\* A command begins with nothing switched.
LEMMA BeginStutters ==
    ASSUME GenerationsInv, ~Pending,
           \/ UNCHANGED journal
           \/ /\ journal'.op # "none" /\ journal'.newCurrent # current
              /\ journal'.oldCurrent = current /\ journal'.oldPrevious = previous,
           UNCHANGED <<current, previous, drain>>
    PROVE  [Switch!Next]_(Switch!vars)
<1>1. ~Pending' \/ (~Switched' /\ journal'.oldCurrent = current /\ journal'.oldPrevious = previous)
  BY DEF Pending, Switched, Committed
<1>2. Stutters
  BY <1>1 DEF Stutters, TrustedCurrent, TrustedPrevious, Draining
<1> QED
  BY <1>2, StutterIsStutter
LEMMA BeginsStutter ==
    ASSUME GenerationsInv,
           \/ \E g \in Generations : Activate(g)
           \/ Rollback
           \/ \E g, back \in Generations : BootstrapAdopt(g, back)
    PROVE  [Switch!Next]_(Switch!vars)
<1>1. ASSUME NEW op \in Operations, NEW g, NEW back, NEW evidence, NEW restoredOp, g # current,
             WriteJournal(op, g, back, evidence, actstate.evidence, restoredOp)
      PROVE  \/ UNCHANGED journal
             \/ /\ journal'.op # "none" /\ journal'.newCurrent # current
                /\ journal'.oldCurrent = current /\ journal'.oldPrevious = previous
  BY <1>1 DEF WriteJournal, Operations
<1>2. ASSUME NEW op \in {"activate", "rollback"}, NEW g, NEW evidence, BeginSwitch(op, g, evidence)
      PROVE  [Switch!Next]_(Switch!vars)
  BY <1>1, <1>2, BeginStutters DEF BeginSwitch, Operations
<1>3. ASSUME NEW g, NEW back, BootstrapAdopt(g, back) PROVE [Switch!Next]_(Switch!vars)
  <2>1. g # current /\ "bootstrap_adopt" \in Operations
    BY <1>3 DEF BootstrapAdopt, Operations
  <2> QED
    BY <1>1, <1>3, <2>1, BeginStutters DEF BootstrapAdopt
<1> QED
  BY <1>2, <1>3 DEF Activate, Rollback

\* No step takes a commit back, unless it is undoing already.
LEMMA CommitStands ==
    ASSUME GenerationsInv, Pending,
           \/ SwapCurrent \/ SwapPrevious \/ WriteState \/ WriteReceipt
           \/ RestoreCurrent \/ RestorePrevious \/ RestoreState
           \/ RecoverActivation \/ RecoverAdoption \/ Crash
    PROVE  (Switched => Switched') /\ UNCHANGED <<journal, drain>>
<1>1. ASSUME step \in SwitchSteps \cup RestoreSteps PROVE ~Switched
  BY <1>1 DEF GenerationsInv, Placed, Switched, Committed, Undoing, SwitchSteps
<1>2. CASE \/ SwapCurrent \/ SwapPrevious \/ WriteState
           \/ RestoreCurrent \/ RestorePrevious \/ RestoreState
  BY <1>1, <1>2 DEF SwapCurrent, SwapPrevious, WriteState, RestoreCurrent, RestorePrevious,
                    RestoreState, SwitchSteps, RestoreSteps
<1>3. CASE WriteReceipt \/ RecoverActivation \/ RecoverAdoption \/ Crash
  BY <1>3 DEF WriteReceipt, Continue, RecoverActivation, RecoverAdoption, Settles, Crash, disk,
              Switched, Undoing, Committed, Pending, RestoreSteps
<1> QED
  BY <1>2, <1>3

LEMMA StepIsSwitch ==
    ASSUME GenerationsInv, [Next]_vars PROVE [Switch!Next]_(Switch!vars)
<1>1. ASSUME \/ SwapCurrent \/ SwapPrevious \/ WriteState \/ WriteReceipt
             \/ RestoreCurrent \/ RestorePrevious \/ RestoreState
             \/ RecoverActivation \/ RecoverAdoption \/ Crash
      PROVE  [Switch!Next]_(Switch!vars)
  <2>1. Pending
    BY <1>1 DEF GenerationsInv, Placed, SwapCurrent, SwapPrevious, WriteState, WriteReceipt,
                RestoreCurrent, RestorePrevious, RestoreState, RecoverActivation,
                RecoverAdoption, Settles, Crash
  <2> QED
    BY <1>1, <2>1, CommitStands, CommitIsSwitch
<1>2. ASSUME UNCHANGED <<current, previous, actstate, journal, drain, step>>
      PROVE  [Switch!Next]_(Switch!vars)
  BY <1>2, StutterIsStutter
  DEF Stutters, TrustedCurrent, TrustedPrevious, Draining, Switched, Committed, Pending, Undoing
<1>3. ASSUME NEW g \in Generations, Stage(g) PROVE [Switch!Next]_(Switch!vars)
  BY <1>2, <1>3 DEF Stage
<1>4. CASE UNCHANGED <<disk, step, faults>> \/ UNCHANGED vars
  BY <1>2, <1>4 DEF vars, disk
<1>5. ASSUME \/ \E g \in Generations : Activate(g)
             \/ Rollback
             \/ \E g, back \in Generations : BootstrapAdopt(g, back)
      PROVE  [Switch!Next]_(Switch!vars)
  BY <1>5, BeginsStutter
<1> QED
  BY <1>1, <1>3, <1>4, <1>5, MarkIsDrain, RemoveStutters DEF Next, Command, CommandStep

\* The execution root behaves as a switch of both pointers in one step, and
\* only a generation that was replaced is asked to drain: nothing that fails
\* in between shows (execution_generation.py:2246-2447).
THEOREM SwitchIsAtomic == Spec => ImplementsSwitch
<1>1. Init => Switch!Init
  BY InitIsSwitch
<1>2. GenerationsInv /\ [Next]_vars => [Switch!Next]_(Switch!vars)
  BY StepIsSwitch
<1> QED
  BY <1>1, <1>2, GenerationsInvariant, PTL DEF Spec, ImplementsSwitch, Switch!Spec

(***************************************************************************)
(* The lock-free readback.  A state file is written where both pointers    *)
(* already say what it says, so the map it names could be read as a whole  *)
(* when it was written; and a reader starts where no journal is pending,   *)
(* so the state file it starts from names a map that could be read as a    *)
(* whole then.  A reader that finds its two pointers in the state file has *)
(* therefore found such a map, however many switches it overlapped.        *)
(***************************************************************************)
Held == releases \cup Legacy \cup {None}

\* Every pointer that is or was on disk names a release that was verified once.
MapsHeld ==
    /\ releases \cap Legacy = {}
    /\ current \in Held /\ previous \in Held
    /\ journal.oldCurrent \in Held /\ journal.oldPrevious \in Held
    /\ journal.newCurrent \in Held /\ journal.newPrevious \in Held

\* What the state file names could be read as a whole since the reader began.
StatePublished ==
    actstate.op # "none" /\ actstate.current \notin Legacy /\ actstate.previous \notin Legacy
        => <<actstate.current, actstate.previous>> \in published

ReaderAtState ==
    /\ reader \in [at : {"idle", "current", "previous", "state", "active"},
                   current : Target, previous : Target]
    /\ reader.at \in {"previous", "state", "active"} => reader.current \in releases \cup {None}
    /\ reader.at \in {"state", "active"} => reader.previous \in releases \cup {None}

ReadbackInv ==
    /\ MapsHeld
    /\ ReaderAtState
    /\ reader.at # "idle" => StatePublished
    /\ ActiveReadbackWasPublished

LEMMA InitReadbackInv == Init => ReadbackInv
<1> SUFFICES ASSUME Init PROVE ReadbackInv
  OBVIOUS
<1>1. MapsHeld
  BY DEF Init, MapsHeld, Held, NoJournal
<1>2. reader.at = "idle" /\ ReaderAtState
  BY DEF Init, ReaderAtState, Target
<1> QED
  BY <1>1, <1>2 DEF ReadbackInv, ActiveReadbackWasPublished

\* A journal names maps of releases that verify now, or that were on disk before.
LEMMA JournalHeld ==
    ASSUME MapsHeld, NEW op, NEW g \in Held, NEW back \in Held, NEW evidence, NEW restoredOp,
           WriteJournal(op, g, back, evidence, actstate.evidence, restoredOp),
           UNCHANGED <<releases, current, previous>>
    PROVE  MapsHeld'
<1>1. Held' = Held
  BY DEF Held
<1>2. CASE journal' = journal
  BY <1>1, <1>2 DEF MapsHeld
<1>3. CASE journal' = [op |-> op, oldCurrent |-> current, oldPrevious |-> previous,
                       newCurrent |-> g, newPrevious |-> back,
                       oldEvidence |-> actstate.evidence, newEvidence |-> evidence,
                       restoredOp |-> restoredOp]
  <2>1. /\ journal'.oldCurrent = current /\ journal'.oldPrevious = previous
        /\ journal'.newCurrent = g /\ journal'.newPrevious = back
    BY <1>3
  <2> QED
    BY <1>1, <2>1 DEF MapsHeld
<1> QED
  BY <1>2, <1>3 DEF WriteJournal

LEMMA CommandHeld ==
    ASSUME GenerationsInv, MapsHeld, Command PROVE MapsHeld' /\ releases \subseteq releases'
<1>1. ASSUME NEW g \in Generations, Stage(g) PROVE MapsHeld' /\ releases \subseteq releases'
  <2>1. Held' = Held \cup {g} /\ releases' \cap Legacy = {}
    BY <1>1 DEF Stage, Held, MapsHeld
  <2> QED
    BY <1>1, <2>1 DEF Stage, MapsHeld
<1>2. ASSUME NEW op, NEW g \in Held, NEW evidence, BeginSwitch(op, g, evidence)
      PROVE  MapsHeld' /\ releases \subseteq releases'
  <2>1. current \in Held
    BY DEF MapsHeld
  <2> QED
    BY <1>2, <2>1, JournalHeld DEF BeginSwitch
<1>3. ASSUME NEW g \in Generations, Activate(g) PROVE MapsHeld' /\ releases \subseteq releases'
  <2>1. g \in Held
    BY <1>3 DEF Activate, BeginSwitch, Verified, Held
  <2> QED
    BY <1>2, <1>3, <2>1 DEF Activate
<1>4. CASE Rollback
  <2>1. previous \in Held
    BY DEF MapsHeld
  <2> QED
    BY <1>2, <1>4, <2>1 DEF Rollback
<1>5. ASSUME NEW g \in Generations, NEW back \in Generations, BootstrapAdopt(g, back)
      PROVE  MapsHeld' /\ releases \subseteq releases'
  <2>1. g \in Held /\ back \in Held
    BY <1>5 DEF BootstrapAdopt, Verified, Held
  <2> QED
    BY <1>5, <2>1, JournalHeld DEF BootstrapAdopt
<1>6. CASE CommandStep
  <2>1. releases' = releases /\ Held' = Held
    BY <1>6 DEF CommandStep, SwapCurrent, SwapPrevious, WriteState, MarkDraining, WriteReceipt,
                RemoveJournal, RestoreCurrent, RestorePrevious, RestoreState,
                RecoverActivation, RecoverAdoption, Settles, disk, Held
  <2>2. journal' = journal \/ journal' = NoJournal
    BY <1>6 DEF CommandStep, SwapCurrent, SwapPrevious, WriteState, MarkDraining, WriteReceipt,
                RemoveJournal, RestoreCurrent, RestorePrevious, RestoreState,
                RecoverActivation, RecoverAdoption, Settles, disk
  <2>3. current' \in {current, journal.newCurrent, journal.oldCurrent}
    BY <1>6 DEF CommandStep, SwapCurrent, SwapPrevious, WriteState, MarkDraining, WriteReceipt,
                RemoveJournal, RestoreCurrent, RestorePrevious, RestoreState,
                RecoverActivation, RecoverAdoption, Settles, disk
  <2>4. previous' \in {previous, journal.newPrevious, journal.oldPrevious}
    BY <1>6 DEF CommandStep, SwapCurrent, SwapPrevious, WriteState, MarkDraining, WriteReceipt,
                RemoveJournal, RestoreCurrent, RestorePrevious, RestoreState,
                RecoverActivation, RecoverAdoption, Settles, disk
  <2>5. /\ journal'.oldCurrent \in Held /\ journal'.oldPrevious \in Held
        /\ journal'.newCurrent \in Held /\ journal'.newPrevious \in Held
    BY <2>2 DEF MapsHeld, NoJournal, Held
  <2> QED
    BY <2>1, <2>3, <2>4, <2>5 DEF MapsHeld
<1>7. CASE Crash
  BY <1>7 DEF Crash, disk, MapsHeld, Held
<1> QED
  BY <1>1, <1>3, <1>4, <1>5, <1>6, <1>7 DEF Command

\* What is read as active is a map of releases that verify.
LEMMA WhatIsReadable ==
    ASSUME MapsHeld, current # None, actstate.op # "none",
           actstate.current = current, actstate.previous = previous,
           actstate.current \notin Legacy, actstate.previous \notin Legacy
    PROVE  <<actstate.current, actstate.previous>> \in Readable
<1>1. Active /\ PointersVerified
  BY DEF MapsHeld, Held, Active, PointersVerified
<1> QED
  BY <1>1 DEF Readable

\* The state file is written only where both pointers agree with it.
LEMMA StateIsWrittenLast ==
    ASSUME GenerationsInv, Command, actstate' # actstate, actstate'.op # "none"
    PROVE  current' # None /\ actstate'.current = current' /\ actstate'.previous = previous'
<1>1. WriteState \/ RestoreState
  BY DEF Command, Stage, Activate, Rollback, BeginSwitch, BootstrapAdopt, CommandStep, Crash,
         SwapCurrent, SwapPrevious, MarkDraining, WriteReceipt, RemoveJournal,
         RestoreCurrent, RestorePrevious, RecoverActivation, RecoverAdoption, Settles, disk
<1>2. CASE WriteState
  <2>1. Pending /\ current = journal.newCurrent /\ previous = journal.newPrevious
    BY <1>2 DEF GenerationsInv, Placed, OnDisk, WriteState
  <2>2. actstate'.current = journal.newCurrent /\ actstate'.previous = journal.newPrevious
    BY <1>2 DEF WriteState
  <2>3. journal.newCurrent # None
    BY <2>1, GenerationsAssumption DEF GenerationsInv, Intended
  <2> QED
    BY <1>2, <2>1, <2>2, <2>3 DEF WriteState
<1>3. CASE RestoreState
  <2>1. current = journal.oldCurrent /\ previous = journal.oldPrevious
    BY <1>3 DEF GenerationsInv, Placed, OnDisk, RestoreState
  <2>2. actstate' = StateBefore
    BY <1>3 DEF RestoreState
  <2>3. journal.oldCurrent # None
    BY <2>2 DEF StateBefore, NoState
  <2> QED
    BY <1>3, <2>1, <2>2, <2>3 DEF RestoreState, StateBefore
<1> QED
  BY <1>1, <1>2, <1>3

\* A command that overlaps a reader publishes what it writes.
LEMMA CommandReadback ==
    ASSUME GenerationsInv, ReadbackInv, Command, UNCHANGED reader, Observe PROVE ReadbackInv'
<1>1. MapsHeld' /\ releases \subseteq releases'
  BY CommandHeld DEF ReadbackInv
<1>2. ReaderAtState'
  BY <1>1 DEF ReadbackInv, ReaderAtState
<1>3. ASSUME reader.at # "idle" PROVE published' = published \cup Readable'
  BY <1>3 DEF Observe
<1>4. ASSUME reader.at # "idle" PROVE StatePublished'
  <2>1. CASE actstate' = actstate
    BY <1>3, <1>4, <2>1 DEF ReadbackInv, StatePublished
  <2>2. ASSUME actstate' # actstate, actstate'.op # "none",
               actstate'.current \notin Legacy, actstate'.previous \notin Legacy
        PROVE  <<actstate'.current, actstate'.previous>> \in Readable'
    <3>1. current' # None /\ actstate'.current = current' /\ actstate'.previous = previous'
      BY <2>2, StateIsWrittenLast
    <3>2. Active' /\ PointersVerified'
      BY <1>1, <2>2, <3>1 DEF MapsHeld, Held, Active, PointersVerified
    <3> QED
      BY <3>1, <3>2 DEF Readable
  <2> QED
    BY <1>3, <1>4, <2>1, <2>2 DEF StatePublished
<1>5. ActiveReadbackWasPublished'
  BY <1>3 DEF ReadbackInv, ActiveReadbackWasPublished
<1> QED
  BY <1>1, <1>2, <1>4, <1>5 DEF ReadbackInv

\* A reader trusts the state file only where it names what it read before.
LEMMA ReaderReadback ==
    ASSUME GenerationsInv, ReadbackInv, Readback, UNCHANGED <<disk, step, faults>>, Observe
    PROVE  ReadbackInv'
<1>1. /\ MapsHeld /\ ReaderAtState /\ MapsHeld'
      /\ UNCHANGED <<releases, current, previous, actstate, journal>>
  BY DEF ReadbackInv, disk, MapsHeld, Held
<1>2. Readable' = Readable
  BY <1>1 DEF Readable, Active, PointersVerified
<1>3. current \in Generations \cup {None} /\ previous \in Generations \cup {None}
  BY DEF GenerationsInv, FilesType, Target
<1>4. CASE ReadPending
  <2>1. reader.at = "idle" /\ reader'.at = "current" /\ ReaderAtState'
    BY <1>1, <1>4 DEF ReadPending, ReaderAtState
  <2>2. published' = Readable
    BY <1>2, <2>1 DEF Observe
  <2>3. MapWhole(current, previous, actstate)
    BY <1>4, WholeIsSettled DEF GenerationsInv, ReadPending
  <2>4. StatePublished'
    <3>1. CASE actstate.op = "none"
      BY <1>1, <3>1 DEF StatePublished
    <3>2. CASE actstate.op # "none"
      <4>1. current # None /\ actstate.current = current /\ actstate.previous = previous
        BY <2>3, <3>2 DEF MapWhole, NoState
      <4> QED
        BY <1>1, <2>2, <4>1, WhatIsReadable DEF StatePublished
    <3> QED
      BY <3>1, <3>2
  <2> QED
    BY <1>1, <2>1, <2>4 DEF ReadbackInv, ActiveReadbackWasPublished
<1>5. CASE reader'.at = "idle" /\ ReaderAtState'
  BY <1>1, <1>5 DEF ReadbackInv, ActiveReadbackWasPublished
<1>6. ASSUME reader.at # "idle", reader'.at # "idle" PROVE StatePublished'
  <2>1. published \subseteq published'
    BY <1>6 DEF Observe
  <2> QED
    BY <1>1, <1>6, <2>1 DEF ReadbackInv, StatePublished
<1>7. ReadCurrent \/ ReadPrevious \/ ReadState \/ EndReadback => ReaderAtState'
  <2>1. IdleReader.at = "idle" /\ IdleReader \in [at : {"idle"}, current : Target, previous : Target]
    BY DEF IdleReader, Target
  <2>2. CASE ReadCurrent
    BY <1>1, <1>3, <2>1, <2>2 DEF ReadCurrent, ReaderAtState, Target
  <2>3. CASE ReadPrevious
    BY <1>1, <1>3, <2>1, <2>3 DEF ReadPrevious, ReaderAtState, Target
  <2>4. CASE ReadState
    BY <1>1, <2>1, <2>4 DEF ReadState, ReaderAtState
  <2>5. CASE EndReadback
    BY <2>1, <2>5 DEF EndReadback, ReaderAtState
  <2> QED
    BY <2>2, <2>3, <2>4, <2>5
<1>8. CASE (ReadCurrent \/ ReadPrevious) /\ reader'.at # "idle"
  <2>1. reader.at # "idle" /\ reader'.at # "active"
    <3>1. reader \in [at : {"idle", "current", "previous", "state", "active"},
                      current : Target, previous : Target]
      BY <1>1 DEF ReaderAtState
    <3>2. CASE ReadCurrent
      BY <1>8, <3>1, <3>2 DEF ReadCurrent, IdleReader
    <3>3. CASE ReadPrevious
      BY <1>8, <3>1, <3>3 DEF ReadPrevious, IdleReader
    <3> QED
      BY <1>8, <3>2, <3>3
  <2> QED
    BY <1>1, <1>6, <1>7, <1>8, <2>1 DEF ReadbackInv, ActiveReadbackWasPublished
<1>9. CASE ReadState /\ reader'.at # "idle"
  <2>1. /\ reader.at = "state" /\ actstate.op # "none"
        /\ actstate.current = reader.current /\ actstate.previous = reader.previous
        /\ reader'.current = reader.current /\ reader'.previous = reader.previous
    BY <1>9 DEF ReadState, IdleReader
  <2>2. actstate.current \notin Legacy /\ actstate.previous \notin Legacy
    BY <1>1, <2>1, GenerationsAssumption DEF ReaderAtState, MapsHeld
  <2>3. StatePublished'
    BY <1>6, <1>9, <2>1
  <2>4. <<reader'.current, reader'.previous>> \in published'
    BY <1>1, <2>1, <2>2, <2>3 DEF StatePublished
  <2> QED
    BY <1>1, <1>7, <1>9, <2>3, <2>4 DEF ReadbackInv, ActiveReadbackWasPublished
<1>10. CASE EndReadback
  BY <1>5, <1>7, <1>10 DEF EndReadback, IdleReader
<1> QED
  BY <1>4, <1>5, <1>7, <1>8, <1>9, <1>10 DEF Readback

LEMMA StepReadbackInv ==
    ASSUME GenerationsInv, ReadbackInv, [Next]_vars PROVE ReadbackInv'
<1>1. CASE UNCHANGED vars
  BY <1>1
  DEF vars, disk, ReadbackInv, MapsHeld, Held, ReaderAtState, StatePublished,
      ActiveReadbackWasPublished
<1> QED
  BY <1>1, CommandReadback, ReaderReadback DEF Next

\* The invariant of the lock-free readback against commands that run, fail,
\* are killed and are undone (execution_generation.py:2634-2680).
THEOREM ReadbackInvariant == Spec => []ReadbackInv
<1>1. GenerationsInv /\ ReadbackInv /\ [Next]_vars => ReadbackInv'
  BY StepReadbackInv
<1> QED
  BY <1>1, InitReadbackInv, GenerationsInvariant, PTL DEF Spec

\* A readback that says "active" names a map that could be read as a whole at
\* some moment since it began (execution_generation.py:2634-2680).
THEOREM ActiveReadbackIsTrue == Spec => []ActiveReadbackWasPublished
<1>1. ReadbackInv => ActiveReadbackWasPublished
  BY DEF ReadbackInv
<1> QED
  BY <1>1, ReadbackInvariant, PTL
=============================================================================

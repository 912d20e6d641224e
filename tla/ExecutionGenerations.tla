------------------------ MODULE ExecutionGenerations ------------------------
(***************************************************************************)
(* The execution root of bridge_db/execution_generation.py: immutable      *)
(* generations, the `current` and `previous` symlinks, the activation      *)
(* state file, the pending journal, drain requests and receipt.           *)
(*                                                                         *)
(* Commands (activate, rollback, bootstrap-adopt) hold an flock, so one at *)
(* a time takes steps; `step` is where it stands.  Each step is one        *)
(* durable file operation.  The process may die between two of them, and   *)
(* an operation may raise before or after it took effect.  A reader        *)
(* (`readback`, health) takes no lock and reads file by file.              *)
(***************************************************************************)
EXTENDS FiniteSets, Naturals

CONSTANTS
    Generations,    \* generation ids
    Legacy,         \* generations whose releases fail the current verifier
    None,           \* no generation, no evidence
    MaxFaults       \* bound on crashes and failed file operations

ASSUME GenerationsAssumption ==
    /\ None \notin Generations
    /\ Legacy \subseteq Generations
    /\ MaxFaults \in Nat

VARIABLES
    releases,       \* generations staged and intact
    current,        \* target of the `current` symlink
    previous,       \* target of the `previous` symlink
    actstate,       \* activation-state.json
    journal,        \* .activation.pending.json
    drain,          \* drain/<generation>.json: superseded_by
    receipt,        \* the newest file of receipts/: the readback it binds
    step,           \* where the running command stands
    reader,         \* a readback in progress
    published,      \* the maps that were readable since the reader began
    faults          \* crashes and failures so far

disk == <<releases, current, previous, actstate, journal, drain, receipt>>
vars == <<disk, step, reader, published, faults>>

Target == Generations \cup {None}
Operations == {"activate", "rollback", "bootstrap_adopt"}

\* Activation-state.json absent, and the journal absent.
NoState == [op |-> "none", current |-> None, previous |-> None, evidence |-> None]
NoJournal ==
    [op |-> "none", oldCurrent |-> None, oldPrevious |-> None,
     newCurrent |-> None, newPrevious |-> None,
     oldEvidence |-> None, newEvidence |-> None, restoredOp |-> "none"]

Pending == journal.op # "none"

(***************************************************************************)
(* What the files say.                                                     *)
(***************************************************************************)
\* verify_generation: an integrity check of the whole release tree.
Verified(g) == g \in releases

\* _pointer_generation: a pointer may be absent, or its target must verify.
PointersVerified == {current, previous} \subseteq releases \cup {None}

\* _read_activation_without_pending: state "active".
Active ==
    /\ current # None
    /\ actstate.op # "none"
    /\ actstate.current = current
    /\ actstate.previous = previous

\* _activation_state_matches and both pointers: the commit point is passed.
Committed ==
    /\ Pending
    /\ current = journal.newCurrent
    /\ previous = journal.newPrevious
    /\ actstate = [op |-> journal.op, current |-> journal.newCurrent,
                   previous |-> journal.newPrevious,
                   evidence |-> journal.newEvidence]

\* Mutant: the in-order partial map is not expected.
AllowedMaps_NotPartial ==
    { <<journal.oldCurrent, journal.oldPrevious>>,
      <<journal.newCurrent, journal.newPrevious>> }
\* Maps from which a retry restores the one before.
AllowedMaps ==
    { <<journal.oldCurrent, journal.oldPrevious>>,
      <<journal.newCurrent, journal.oldPrevious>>,
      <<journal.newCurrent, journal.newPrevious>> }

Receipt(op, cur, prev) == [op |-> op, current |-> cur, previous |-> prev]
NoReceipt == Receipt("none", None, None)

Init ==
    /\ releases = {}
    /\ \/ /\ current = None
          /\ previous = None
          /\ actstate = NoState
          /\ receipt = NoReceipt
       \/ /\ current \in Legacy
          /\ previous \in Legacy \ {current}
          /\ actstate = [op |-> "activate", current |-> current,
                         previous |-> previous, evidence |-> None]
          /\ receipt = Receipt("activate", current, previous)
    /\ journal = NoJournal
    /\ drain = [g \in Generations |-> None]
    /\ step = "idle"
    /\ reader = [at |-> "idle", current |-> None, previous |-> None]
    /\ published = {}
    /\ faults = 0

(***************************************************************************)
(* A file operation returns, or raises before ("lost") or after ("late")   *)
(* it took effect.                                                         *)
(***************************************************************************)
Outcomes == {"ok", "late", "lost"}

Effective(outcome) == outcome # "lost"

\* The command goes on at `next`, or at `handler` when the operation raised.
Continue(outcome, next, handler) ==
    /\ outcome # "ok" => faults < MaxFaults
    /\ step' = IF outcome = "ok" THEN next ELSE handler
    /\ faults' = IF outcome = "ok" THEN faults ELSE faults + 1

(***************************************************************************)
(* Staging takes no lock and ends in one rename.                           *)
(***************************************************************************)
Stage(g) ==
    /\ g \notin releases \cup Legacy
    /\ releases' = releases \cup {g}
    /\ UNCHANGED <<current, previous, actstate, journal, drain, receipt, step, faults>>

(***************************************************************************)
(* The three commands up to the journal, which is the first thing written. *)
(***************************************************************************)
WriteJournal(op, cur, prev, evidence, oldEvidence, restoredOp) ==
    \E outcome \in Outcomes :
        /\ journal' = IF Effective(outcome)
                      THEN [op |-> op,
                            oldCurrent |-> current, oldPrevious |-> previous,
                            newCurrent |-> cur, newPrevious |-> prev,
                            oldEvidence |-> oldEvidence, newEvidence |-> evidence,
                            restoredOp |-> restoredOp]
                      ELSE journal
        /\ Continue(outcome, "swap_current", "idle")

BeginSwitch(op, g, evidence) ==
    /\ step = "idle" /\ ~Pending
    /\ Verified(g)
    /\ PointersVerified
    /\ current = None \/ Active
    /\ g # current
    /\ WriteJournal(op, g, current, evidence, actstate.evidence, "restored")
    /\ UNCHANGED <<releases, current, previous, actstate, drain, receipt>>

Activate(g) == BeginSwitch("activate", g, g)

Rollback == previous # None /\ BeginSwitch("rollback", previous, None)

BootstrapAdopt(g, back) ==
    /\ step = "idle" /\ ~Pending
    /\ g # back
    /\ Verified(g) /\ Verified(back)
    /\ current # None /\ previous # None
    /\ {g, back} \cap {current, previous} = {}
    /\ Active
    /\ WriteJournal("bootstrap_adopt", g, back, g, actstate.evidence, actstate.op)
    /\ UNCHANGED <<releases, current, previous, actstate, drain, receipt>>

(***************************************************************************)
(* The switch itself.  The last of its writes is the commit point; when    *)
(* one raises, the command undoes what it did.                             *)
(***************************************************************************)
SwapCurrent ==
    /\ step = "swap_current"
    /\ \E outcome \in Outcomes :
        /\ current' = IF Effective(outcome) THEN journal.newCurrent ELSE current
        /\ Continue(outcome, "swap_previous", "restore_current")
    /\ UNCHANGED <<releases, previous, actstate, journal, drain, receipt>>

SwapPrevious ==
    /\ step = "swap_previous"
    /\ \E outcome \in Outcomes :
        /\ previous' = IF Effective(outcome) THEN journal.newPrevious ELSE previous
        /\ Continue(outcome, "write_state", "restore_current")
    /\ UNCHANGED <<releases, current, actstate, journal, drain, receipt>>

\* Bootstrap adoption asks nobody to drain.
WriteState ==
    /\ step = "write_state"
    /\ \E outcome \in Outcomes :
        /\ actstate' =
             IF Effective(outcome)
             THEN [op |-> journal.op, current |-> journal.newCurrent,
                   previous |-> journal.newPrevious, evidence |-> journal.newEvidence]
             ELSE actstate
        /\ Continue(outcome,
                    IF journal.op = "bootstrap_adopt" THEN "receipt" ELSE "mark",
                    "restore_current")
    /\ UNCHANGED <<releases, current, previous, journal, drain, receipt>>

(***************************************************************************)
(* After the commit point: drain request, receipt, removal of the journal. *)
(* The running command and a retry that finds the commit do the same.      *)
(***************************************************************************)
\* An existing request has to name the same successor.
MarkerClash ==
    /\ journal.oldCurrent \notin {None, journal.newCurrent}
    /\ drain[journal.oldCurrent] \notin {None, journal.newCurrent}

MarkDraining ==
    /\ step = "mark"
    /\ IF journal.oldCurrent \in {None, journal.newCurrent}
       THEN step' = "receipt" /\ UNCHANGED <<drain, faults>>
       ELSE IF MarkerClash
       THEN step' = "idle" /\ UNCHANGED <<drain, faults>>
       ELSE \E outcome \in Outcomes :
              /\ drain' = IF Effective(outcome)
                          THEN [drain EXCEPT ![journal.oldCurrent] = journal.newCurrent]
                          ELSE drain
              /\ Continue(outcome, "receipt", "idle")
    /\ UNCHANGED <<releases, current, previous, actstate, journal, receipt>>

\* The receipt binds the readback, which has to be active.
WriteReceipt ==
    /\ step = "receipt"
    /\ Active
    /\ \E outcome \in Outcomes :
        /\ receipt' = IF Effective(outcome)
                      THEN Receipt(journal.op, current, previous)
                      ELSE receipt
        /\ Continue(outcome, "forget", "idle")
    /\ UNCHANGED <<releases, current, previous, actstate, journal, drain>>

\* An unlink whose fsync fails is reported, and ends the command as well.
RemoveJournal ==
    /\ step \in {"forget", "restore_forget"}
    /\ \E outcome \in Outcomes :
        /\ journal' = IF Effective(outcome) THEN NoJournal ELSE journal
        /\ Continue(outcome, "idle", "idle")
    /\ UNCHANGED <<releases, current, previous, actstate, drain, receipt>>

(***************************************************************************)
(* Restoring the map before the switch: by the handler of a failed switch, *)
(* and by a retry that finds a journal without the commit.  A retry then   *)
(* begins its own operation, which is a command of its own here.           *)
(***************************************************************************)
RestoreCurrent ==
    /\ step = "restore_current"
    /\ \E outcome \in Outcomes :
        /\ current' = IF Effective(outcome) THEN journal.oldCurrent ELSE current
        /\ Continue(outcome, "restore_previous", "idle")
    /\ UNCHANGED <<releases, previous, actstate, journal, drain, receipt>>

\* Mutant: the handler of a failed switch restores `current` only.
RestorePrevious_Skipped ==
    /\ step = "restore_previous"
    /\ step' = "restore_state"
    /\ UNCHANGED <<releases, current, previous, actstate, journal, drain, receipt, faults>>

RestorePrevious ==
    /\ step = "restore_previous"
    /\ \E outcome \in Outcomes :
        /\ previous' = IF Effective(outcome) THEN journal.oldPrevious ELSE previous
        /\ Continue(outcome, "restore_state", "idle")
    /\ UNCHANGED <<releases, current, actstate, journal, drain, receipt>>

\* With no generation before, the state file is removed.
StateBefore ==
    IF journal.oldCurrent = None
    THEN NoState
    ELSE [op |-> journal.restoredOp, current |-> journal.oldCurrent,
          previous |-> journal.oldPrevious, evidence |-> journal.oldEvidence]

RestoreState ==
    /\ step = "restore_state"
    /\ \E outcome \in Outcomes :
        /\ actstate' = IF Effective(outcome) THEN StateBefore ELSE actstate
        /\ Continue(outcome, "restore_forget", "idle")
    /\ UNCHANGED <<releases, current, previous, journal, drain, receipt>>

(***************************************************************************)
(* Every command first settles a journal it finds: a commit is finished    *)
(* from `after` on, an allowed map is undone.  A map that is neither is    *)
(* refused, and the journal stays.                                         *)
(***************************************************************************)
\* Mutant: a retry finds the commit and only removes the journal.
Settles_Forgets(after) ==
    /\ step = "idle" /\ Pending
    /\ \/ Committed /\ step' = "forget"
       \/ /\ ~Committed
          /\ <<current, previous>> \in AllowedMaps
          /\ step' = "restore_current"
    /\ UNCHANGED <<disk, faults>>

Settles(after) ==
    /\ step = "idle" /\ Pending
    /\ \/ Committed /\ step' = after
       \/ /\ ~Committed
          /\ <<current, previous>> \in AllowedMaps
          /\ step' = "restore_current"
    /\ UNCHANGED <<disk, faults>>

RecoverActivation ==
    /\ journal.op \in {"activate", "rollback"}
    /\ PointersVerified
    /\ Settles("mark")

RecoverAdoption == journal.op = "bootstrap_adopt" /\ Settles("receipt")

Crash ==
    /\ step # "idle"
    /\ faults < MaxFaults
    /\ step' = "idle"
    /\ faults' = faults + 1
    /\ UNCHANGED disk

CommandStep ==
    \/ SwapCurrent \/ SwapPrevious \/ WriteState
    \/ MarkDraining \/ WriteReceipt \/ RemoveJournal
    \/ RestoreCurrent \/ RestorePrevious \/ RestoreState
    \/ RecoverActivation \/ RecoverAdoption

Command ==
    \/ \E g \in Generations : Stage(g) \/ Activate(g)
    \/ Rollback
    \/ \E g, back \in Generations : BootstrapAdopt(g, back)
    \/ CommandStep
    \/ Crash

(***************************************************************************)
(* read_activation: no lock, and four files read one after the other.  A   *)
(* pending journal and a map that does not match are reported as such and  *)
(* end the readback.                                                       *)
(***************************************************************************)
IdleReader == [at |-> "idle", current |-> None, previous |-> None]

ReadPending ==
    /\ reader.at = "idle" /\ ~Pending
    /\ reader' = [reader EXCEPT !.at = "current"]

\* A pointer to a release that does not verify raises.
ReadCurrent ==
    /\ reader.at = "current"
    /\ reader' = IF current \in Generations \ releases
                 THEN IdleReader
                 ELSE [reader EXCEPT !.at = "previous", !.current = current]

ReadPrevious ==
    /\ reader.at = "previous"
    /\ reader' = IF reader.current = None \/ previous \in Generations \ releases
                 THEN IdleReader
                 ELSE [reader EXCEPT !.at = "state", !.previous = previous]

\* Mutant: the state file is read and not compared with `previous`.
ReadState_CurrentOnly ==
    /\ reader.at = "state"
    /\ reader' = IF actstate.op # "none" /\ actstate.current = reader.current
                 THEN [reader EXCEPT !.at = "active"]
                 ELSE IdleReader

ReadState ==
    /\ reader.at = "state"
    /\ reader' = IF /\ actstate.op # "none"
                    /\ actstate.current = reader.current
                    /\ actstate.previous = reader.previous
                 THEN [reader EXCEPT !.at = "active"]
                 ELSE IdleReader

EndReadback ==
    /\ reader.at = "active"
    /\ reader' = IdleReader

Readback == ReadPending \/ ReadCurrent \/ ReadPrevious \/ ReadState \/ EndReadback

\* The map that a reader of all files at once would be given.
Readable == IF Active /\ PointersVerified THEN {<<current, previous>>} ELSE {}

\* History: what the reader could have been given since it began.
Observe ==
    published' = IF reader'.at = "idle" THEN {}
                 ELSE IF reader.at = "idle" THEN Readable'
                 ELSE published \cup Readable'

Next ==
    \/ Command /\ UNCHANGED reader /\ Observe
    \/ Readback /\ UNCHANGED <<disk, step, faults>> /\ Observe

Spec == Init /\ [][Next]_vars

\* An operator who retries, and a process that is scheduled.
FairSpec == Spec /\ WF_vars(CommandStep /\ UNCHANGED reader /\ Observe)

-----------------------------------------------------------------------------
State == [op : Operations \cup {"none", "restored"}, current : Target,
          previous : Target, evidence : Target]
Journal ==
    [op : Operations \cup {"none"}, oldCurrent : Target, oldPrevious : Target,
     newCurrent : Target, newPrevious : Target, oldEvidence : Target,
     newEvidence : Target, restoredOp : Operations \cup {"none", "restored"}]
SwitchSteps == {"swap_current", "swap_previous", "write_state"}
FinishSteps == {"mark", "receipt", "forget"}
RestoreSteps == {"restore_current", "restore_previous", "restore_state", "restore_forget"}

TypeOK ==
    /\ releases \subseteq Generations
    /\ current \in Target /\ previous \in Target
    /\ actstate \in State
    /\ journal \in Journal
    /\ drain \in [Generations -> Target]
    /\ receipt \in [op : Operations \cup {"none"}, current : Target, previous : Target]
    /\ step \in {"idle"} \cup SwitchSteps \cup FinishSteps \cup RestoreSteps
    /\ reader \in [at : {"idle", "current", "previous", "state", "active"},
                   current : Target, previous : Target]
    /\ published \subseteq Target \X Target
    /\ faults \in 0 .. MaxFaults

\* The map between the two restores, which no retry recognises.
Torn ==
    /\ Pending
    /\ <<current, previous>> = <<journal.oldCurrent, journal.newPrevious>>
    /\ <<current, previous>> \notin AllowedMaps

(***************************************************************************)
(* Once no journal is pending, pointers and state agree, evidence is that  *)
(* of the current generation, and a switch that was committed has its      *)
(* receipt and, if it replaced a generation, the request to drain it.      *)
(* execution_generation.py:2339-2447 against any crash and any retry.      *)
(***************************************************************************)
SettledMapIsWhole ==
    ~Pending =>
        /\ current = None => previous = None /\ actstate = NoState
        /\ current # None =>
             /\ Active
             /\ actstate.evidence \in {None, current}
             /\ actstate.op # "restored" => receipt = Receipt(actstate.op, current, previous)
             /\ actstate.op \in {"activate", "rollback"} /\ previous \notin Legacy \cup {None}
                  => drain[previous] = current

(***************************************************************************)
(* A readback that says "active" names a map that could be read as a whole *)
(* at some moment since it began, although it reads file by file with no   *)
(* lock while commands run, fail and are undone.                           *)
(***************************************************************************)
ActiveReadbackWasPublished ==
    reader.at = "active" => <<reader.current, reader.previous>> \in published

(***************************************************************************)
(* To a reader that trusts no pending journal, the files implement the     *)
(* atomic switch: nothing is half switched, whatever fails.                *)
(***************************************************************************)
Undoing == step \in RestoreSteps

Switch ==
    INSTANCE GenerationSwitch WITH
        current <- IF ~Pending THEN current
                   ELSE IF Committed /\ ~Undoing THEN journal.newCurrent
                   ELSE journal.oldCurrent,
        previous <- IF ~Pending THEN previous
                    ELSE IF Committed /\ ~Undoing THEN journal.newPrevious
                    ELSE journal.oldPrevious,
        draining <- {g \in Generations : drain[g] # None}

ImplementsSwitch == Switch!Spec

(***************************************************************************)
(* A pending journal is settled in the end, if operators retry, unless the *)
(* map is torn or the replaced generation was drained for another one.     *)
(***************************************************************************)
JournalSettles ==
    Pending ~> (~Pending \/ Torn \/ (Committed /\ MarkerClash))

(***************************************************************************)
(* docs/internal/EXECUTION-GENERATIONS.md: obsolete generations drain.  The *)
(* active one is not obsolete.                                             *)
(***************************************************************************)
ActiveGenerationIsNotDrained ==
    ~Pending /\ current # None => drain[current] = None
=============================================================================

------------------------------- MODULE Tenancy -------------------------------
(***************************************************************************)
(* Leases of server processes, bridge_db/tenancy.py: each server keeps a   *)
(* private lease file with its count of running calls; an operator plans   *)
(* from the files and applies the plan later, to retire the lease of a     *)
(* process that is gone or to ask a live one to close.  Nothing here kills *)
(* a process: a server that is asked refuses new calls and leaves when its *)
(* last one has ended.                                                     *)
(*                                                                         *)
(* A lease id contains the start time of the process, so a server here is  *)
(* one process and never comes back.                                       *)
(***************************************************************************)
EXTENDS Naturals

CONSTANTS
    Servers,        \* server processes of one owner and one generation
    None,
    MaxCalls        \* bound on the calls a server ever starts

TenancyAssumption == MaxCalls \in Nat

VARIABLES
    process,        \* "unborn", "alive" or "dead"
    tracker,        \* what a live server holds in memory of its lease
    lease,          \* active/<id>.json
    closing,        \* servers in the middle of closing their lease
    history,        \* history/: why leases were closed
    marker,         \* retire/<id>.json: servers asked to close
    obsolete,       \* another generation is current
    drained,        \* drain/<generation>.json exists
    plan,           \* the one decision of a plan an operator holds
    applying        \* how far the plan's application has come

vars == <<process, tracker, lease, closing, history, marker, obsolete, drained, plan, applying>>

NoLease == [kept |-> FALSE, active |-> 0, calls |-> 0]
NoPlan == [server |-> None, decision |-> "none", seen |-> NoLease]

Init ==
    /\ process = [s \in Servers |-> "unborn"]
    /\ tracker = [s \in Servers |-> NoLease]
    /\ lease = [s \in Servers |-> NoLease]
    /\ closing = {}
    /\ history = [s \in Servers |-> {}]
    /\ marker = {}
    /\ obsolete = FALSE
    /\ drained = FALSE
    /\ plan = NoPlan
    /\ applying = "none"

Alive(s) == process[s] = "alive"

\* The server reads two files: its own request and its generation's.
Requested(s) == s \in marker \/ drained

\* A change of the record in memory is written to the file at once.  That a
\* request to close was seen is in the record, too, and left out here: it
\* says no more than the files it was read from, which stay.
Persist(s, record) ==
    /\ tracker' = [tracker EXCEPT ![s] = record]
    /\ lease' = [lease EXCEPT ![s] = record]

operatorVars == <<obsolete, drained, plan, applying>>

(***************************************************************************)
(* The server.  A process that ends, by itself or not, loses what it held  *)
(* in memory.                                                              *)
(***************************************************************************)
Birth(s) ==
    /\ process[s] = "unborn"
    /\ process' = [process EXCEPT ![s] = "alive"]
    /\ UNCHANGED <<tracker, lease, closing, history, marker, operatorVars>>

Forget(s) ==
    /\ tracker' = [tracker EXCEPT ![s] = NoLease]
    /\ closing' = closing \ {s}
    /\ UNCHANGED <<lease, history, marker, operatorVars>>

Death(s) ==
    /\ Alive(s)
    /\ process' = [process EXCEPT ![s] = "dead"]
    /\ Forget(s)

Start(s) ==
    /\ Alive(s) /\ ~tracker[s].kept
    /\ ~lease[s].kept
    /\ Persist(s, [NoLease EXCEPT !.kept = TRUE])
    /\ UNCHANGED <<process, closing, history, marker, operatorVars>>

\* The tracker's lock: nothing else happens while the lease is closed.
Open(s) == Alive(s) /\ tracker[s].kept /\ s \notin closing

\* request_started: a refusal is persisted, too.
RefuseCall(s) ==
    /\ Open(s)
    /\ Requested(s)
    /\ Persist(s, tracker[s])
    /\ UNCHANGED <<process, closing, history, marker, operatorVars>>

StartCall(s) ==
    /\ Open(s)
    /\ ~Requested(s)
    /\ tracker[s].calls < MaxCalls
    /\ Persist(s, [tracker[s] EXCEPT !.active = @ + 1, !.calls = @ + 1])
    /\ UNCHANGED <<process, closing, history, marker, operatorVars>>

EndCall(s) ==
    /\ Open(s)
    /\ tracker[s].active > 0
    /\ Persist(s, [tracker[s] EXCEPT !.active = @ - 1])
    /\ UNCHANGED <<process, closing, history, marker, operatorVars>>

\* Mutant: a request makes the server ready, whatever it runs.
Poll_Hasty(s, ready) ==
    /\ Open(s)
    /\ Requested(s)
    /\ ready
    /\ Persist(s, tracker[s])
    /\ UNCHANGED <<process, closing, history, marker, operatorVars>>

\* retirement_ready, polled every second; `ready` tells the server to stop.
Poll(s, ready) ==
    /\ Open(s)
    /\ Requested(s)
    /\ ready = (tracker[s].active = 0)
    /\ Persist(s, tracker[s])
    /\ UNCHANGED <<process, closing, history, marker, operatorVars>>

\* close: history first, then the lease, then the request.  The process may
\* die in between; a server with a running call leaves its lease behind.
CloseHistory(s) ==
    /\ Open(s)
    /\ tracker[s].active = 0
    /\ history' = [history EXCEPT ![s] = @ \cup {"close"}]
    /\ closing' = closing \cup {s}
    /\ UNCHANGED <<process, tracker, lease, marker, operatorVars>>

CloseLease(s) ==
    /\ s \in closing
    /\ lease[s].kept
    /\ lease' = [lease EXCEPT ![s] = NoLease]
    /\ UNCHANGED <<process, tracker, closing, history, marker, operatorVars>>

CloseMarker(s) ==
    /\ s \in closing
    /\ ~lease[s].kept
    /\ marker' = marker \ {s}
    /\ tracker' = [tracker EXCEPT ![s] = NoLease]
    /\ closing' = closing \ {s}
    /\ UNCHANGED <<process, lease, history, operatorVars>>

Serve(s) ==
    \/ Birth(s) \/ Death(s)
    \/ Start(s)
    \/ RefuseCall(s) \/ StartCall(s) \/ EndCall(s)
    \/ \E ready \in BOOLEAN : Poll(s, ready)
    \/ CloseHistory(s) \/ CloseLease(s) \/ CloseMarker(s)

(***************************************************************************)
(* The operator.  A plan names leases by the digest of their file; a probe *)
(* tells whether the process lives, and when it cannot tell nothing is     *)
(* planned.                                                                *)
(***************************************************************************)
Decision(s) ==
    IF process[s] = "dead" THEN "retire_orphan"
    ELSE IF lease[s].active > 0 THEN "keep_active_request"
    ELSE IF s \in marker \/ obsolete THEN "request_close"
    ELSE "keep"

PlanLifecycle(s) ==
    /\ applying = "none"
    /\ lease[s].kept
    /\ Decision(s) \in {"retire_orphan", "request_close"}
    /\ plan' = [server |-> s, decision |-> Decision(s), seen |-> lease[s]]
    /\ UNCHANGED <<process, tracker, lease, closing, history, marker, obsolete, drained, applying>>

\* Apply: the file is still the planned one and the process in the planned
\* state.  Everybody may move before the effect.
CheckPlan ==
    /\ applying = "none"
    /\ plan # NoPlan
    /\ lease[plan.server] = plan.seen
    /\ \/ plan.decision = "retire_orphan" /\ process[plan.server] = "dead"
       \/ plan.decision = "request_close" /\ plan.seen.active = 0 /\ Alive(plan.server)
    /\ applying' = "checked"
    /\ UNCHANGED <<process, tracker, lease, closing, history, marker, obsolete, drained, plan>>

RequestClose ==
    /\ applying = "checked" /\ plan.decision = "request_close"
    /\ marker' = marker \cup {plan.server}
    /\ applying' = "none"
    /\ plan' = NoPlan
    /\ UNCHANGED <<process, tracker, lease, closing, history, obsolete, drained>>

RetireHistory ==
    /\ applying = "checked" /\ plan.decision = "retire_orphan"
    /\ history' = [history EXCEPT ![plan.server] = @ \cup {"retire_orphan"}]
    /\ applying' = "history"
    /\ UNCHANGED <<process, tracker, lease, closing, marker, obsolete, drained, plan>>

RetireLease ==
    /\ applying = "history"
    /\ lease' = [lease EXCEPT ![plan.server] = NoLease]
    /\ applying' = "none"
    /\ plan' = NoPlan
    /\ UNCHANGED <<process, tracker, closing, history, marker, obsolete, drained>>

\* The operator's command dies; the plan is a file and can be applied again.
Interrupt ==
    /\ applying # "none"
    /\ applying' = "none"
    /\ UNCHANGED <<process, tracker, lease, closing, history, marker, obsolete, drained, plan>>

\* Activation of another generation, then its drain request.
Supersede ==
    /\ ~drained
    /\ IF obsolete THEN drained' = TRUE /\ UNCHANGED obsolete
                   ELSE obsolete' = TRUE /\ UNCHANGED drained
    /\ UNCHANGED <<process, tracker, lease, closing, history, marker, plan, applying>>

Operate ==
    \/ \E s \in Servers : PlanLifecycle(s)
    \/ CheckPlan \/ RequestClose \/ RetireHistory \/ RetireLease
    \/ Interrupt
    \/ Supersede

Next == Operate \/ \E s \in Servers : Serve(s)

Spec == Init /\ [][Next]_vars

-----------------------------------------------------------------------------
LeaseRecord == [kept : BOOLEAN, active : 0 .. MaxCalls, calls : 0 .. MaxCalls]
Reasons == {"close", "retire_orphan"}

TenancyTypeOK ==
    /\ process \in [Servers -> {"unborn", "alive", "dead"}]
    /\ tracker \in [Servers -> LeaseRecord]
    /\ lease \in [Servers -> LeaseRecord]
    /\ closing \subseteq Servers
    /\ history \in [Servers -> SUBSET Reasons]
    /\ marker \subseteq Servers
    /\ obsolete \in BOOLEAN /\ drained \in BOOLEAN
    /\ plan \in [server : Servers \cup {None}, decision : {"none", "retire_orphan", "request_close"},
                 seen : LeaseRecord]
    /\ applying \in {"none", "checked", "history"}

(***************************************************************************)
(* A running call is on file: whoever plans from the lease of a live       *)
(* server sees it, and no plan, however old, takes that lease away.        *)
(***************************************************************************)
RunningCallsAreOnFile ==
    \A s \in Servers :
        Alive(s) /\ tracker[s].active > 0 =>
            lease[s].kept /\ lease[s].active = tracker[s].active

(***************************************************************************)
(* A lease leaves the active directory only with a record in the history,  *)
(* also when the server or the operator dies between the two.              *)
(***************************************************************************)
NoLeaseIsLost ==
    [][\A s \in Servers : lease[s].kept /\ ~lease'[s].kept => history[s] # {}]_vars
=============================================================================

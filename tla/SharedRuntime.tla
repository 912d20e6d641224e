---------------------------- MODULE SharedRuntime ----------------------------
(***************************************************************************)
(* The shared runtime of bridge_db/shared_runtime.py: relays of one        *)
(* credential group register a lease, find or start the group's broker and *)
(* send it their requests; the broker stops when no live relay is left, or *)
(* when its tenancy lease is asked to retire (module Tenancy).             *)
(*                                                                         *)
(* What the processes share are files: the lifecycle lock (ensure.lock),   *)
(* the run lock, the relays' leases, the broker's socket and its receipt.  *)
(* Locks belong to processes and are free once they have died.             *)
(***************************************************************************)
EXTENDS Naturals

CONSTANTS
    Relays,         \* relay processes
    Brokers,        \* broker processes, numbered in the order they start
    None,
    MaxCalls        \* bound on the calls a broker ever starts

ASSUME SharedRuntimeAssumption ==
    /\ Brokers \subseteq Nat
    /\ None \notin Brokers \cup Relays
    /\ MaxCalls \in Nat

VARIABLES
    relay,          \* where a relay stands, its MCP session, its request's broker,
                    \* and whether it left off waiting for the answer
    client,         \* clients/: relays with a lease file
    lock,           \* who holds the lifecycle lock across steps
    runlock,        \* who holds broker.run.lock
    socket,         \* the broker whose socket the path names
    receipt,        \* the broker receipt
    broker,         \* where a broker stands
    empty,          \* brokers whose last count found no live relay
    tracker, lease, closing, history, marker, obsolete, drained, plan, applying

tenancyVars == <<tracker, lease, closing, history, marker, obsolete, drained, plan, applying>>
vars == <<relay, client, lock, runlock, socket, receipt, broker, empty, tenancyVars>>

NoReceipt == [broker |-> None, state |-> "none"]

AliveBroker(b) == broker[b] \notin {"unborn", "dead"}

\* To the leases a broker is a process that lives or not.
Life == [b \in Brokers |-> IF AliveBroker(b) THEN "alive" ELSE broker[b]]

Leases == INSTANCE Tenancy WITH Servers <- Brokers, process <- Life

Init ==
    /\ relay = [r \in Relays |->
                  [at |-> "new", alive |-> TRUE, left |-> FALSE, session |-> None, to |-> None]]
    /\ client = {}
    /\ lock = None /\ runlock = None
    /\ socket = None
    /\ receipt = NoReceipt
    /\ broker = [b \in Brokers |-> "unborn"]
    /\ empty = {}
    /\ Leases!Init

\* A relay on its way out, and one that has ended: what it held is forgotten.
Closing == [at |-> "closing", alive |-> TRUE, left |-> FALSE, session |-> None, to |-> None]
Gone == [Closing EXCEPT !.at = "gone", !.alive = FALSE]

At(r, places) == relay[r].alive /\ relay[r].at \in places
Becomes(r, record) == relay' = [relay EXCEPT ![r] = record]
Goes(r, place) == Becomes(r, [relay[r] EXCEPT !.at = place])
BrokerGoes(b, place) == broker' = [broker EXCEPT ![b] = place]

\* Mutant: every lease on file counts.
LiveClients_OnFile == client
LiveClients == {r \in client : relay[r].alive}

\* A connection is made, and its peer is the process of the receipt.
Listening(b) == b = socket /\ broker[b] \in {"bound", "serving", "exiting"}

(***************************************************************************)
(* A relay: ensure_shared_broker.                                          *)
(***************************************************************************)
\* The lease is written without the lock, before anything is looked at.
Register(r) ==
    /\ At(r, {"new"})
    /\ client' = client \cup {r}
    /\ Goes(r, "registered")
    /\ UNCHANGED <<lock, runlock, socket, receipt, broker, empty, tenancyVars>>

\* The relay raises and lets the lock go.
GivesUp(r) == Becomes(r, Closing) /\ lock' = None /\ UNCHANGED broker

\* Start the next process and wait for its receipt, holding the lock; or the
\* launcher cannot be run.
Spawn(r) ==
    \/ \E b \in Brokers :
        /\ broker[b] = "unborn"
        /\ \A c \in Brokers : broker[c] = "unborn" => b <= c
        /\ BrokerGoes(b, "spawned")
        /\ Becomes(r, [relay[r] EXCEPT !.at = "starting", !.to = b])
        /\ lock' = r
    \/ GivesUp(r)

\* The broker of the receipt is gone: archive the receipt.
Archive(r) ==
    /\ receipt # NoReceipt /\ ~AliveBroker(receipt.broker)
    /\ receipt' = NoReceipt
    /\ Goes(r, "clearing") /\ lock' = r
    /\ UNCHANGED <<broker, socket>>

Look(r) ==
    /\ At(r, {"registered"})
    /\ lock = None
    /\ \/ receipt = NoReceipt /\ Spawn(r) /\ UNCHANGED <<receipt, socket>>
       \/ Archive(r)
       \/ /\ receipt.state = "draining"
          /\ AliveBroker(receipt.broker)
          /\ Goes(r, "waiting") /\ lock' = r
          /\ UNCHANGED <<broker, receipt, socket>>
       \/ /\ receipt.state = "ready"
          /\ Listening(receipt.broker)
          /\ Goes(r, "bound")
          /\ UNCHANGED <<lock, broker, receipt, socket>>
       \/ /\ receipt.state = "ready"
          /\ AliveBroker(receipt.broker) /\ ~Listening(receipt.broker)
          /\ GivesUp(r) /\ UNCHANGED <<receipt, socket>>
    /\ UNCHANGED <<client, runlock, empty, tenancyVars>>

\* The wait for a draining broker ends: it is gone, it stopped listening, or
\* five seconds are over.
WaitEnds(r) ==
    /\ At(r, {"waiting"})
    /\ \/ receipt = NoReceipt /\ Spawn(r) /\ UNCHANGED <<receipt, socket>>
       \/ Archive(r)
       \/ /\ receipt # NoReceipt
          /\ AliveBroker(receipt.broker)
          /\ GivesUp(r) /\ UNCHANGED <<receipt, socket>>
    /\ UNCHANGED <<client, runlock, empty, tenancyVars>>

\* The socket is unlinked, whoever has bound it by then.
ClearSocket(r) ==
    /\ At(r, {"clearing"})
    /\ socket' = None
    /\ Spawn(r)
    /\ UNCHANGED <<client, runlock, receipt, empty, tenancyVars>>

StartOk(r) ==
    /\ At(r, {"starting"})
    /\ receipt = [broker |-> relay[r].to, state |-> "ready"]
    /\ Listening(relay[r].to)
    /\ Becomes(r, [relay[r] EXCEPT !.at = "bound", !.to = None])
    /\ lock' = None
    /\ UNCHANGED <<client, runlock, socket, receipt, broker, empty, tenancyVars>>

\* Its process ended, another receipt appeared, or the time is over.  The
\* process that was started is left alone.
StartFails(r) ==
    /\ At(r, {"starting"})
    /\ GivesUp(r)
    /\ UNCHANGED <<client, runlock, socket, receipt, empty, tenancyVars>>

\* After a failure, and at the relay's end.  A relay whose request is still
\* with the broker ends here, and the request goes on without it.
RetireClient(r) ==
    /\ lock = None
    /\ client' = client \ {r}
    /\ \/ At(r, {"closing"}) /\ Becomes(r, Gone)
       \/ relay[r].left /\ Becomes(r, [relay[r] EXCEPT !.alive = FALSE, !.left = FALSE])
    /\ UNCHANGED <<lock, runlock, socket, receipt, broker, empty, tenancyVars>>

(***************************************************************************)
(* A relay's requests.  For every one of them a new capability is minted   *)
(* under the lock, and then the receipt is read.                           *)
(***************************************************************************)
Renew(r) ==
    /\ At(r, {"bound"})
    /\ lock = None
    /\ IF r \in client THEN Goes(r, "renewed") ELSE Becomes(r, Closing)
    /\ UNCHANGED <<client, lock, runlock, socket, receipt, broker, empty, tenancyVars>>

Send(r) ==
    /\ At(r, {"renewed"})
    /\ Becomes(r, IF receipt.state = "ready" /\ Listening(receipt.broker)
                  THEN [relay[r] EXCEPT !.at = "sent", !.to = receipt.broker]
                  ELSE Closing)
    /\ UNCHANGED <<client, lock, runlock, socket, receipt, broker, empty, tenancyVars>>

Hangup(r) ==
    /\ At(r, {"bound"})
    /\ Becomes(r, Closing)
    /\ UNCHANGED <<client, lock, runlock, socket, receipt, broker, empty, tenancyVars>>

\* A request is over: its relay goes on, or is on its way out, or has ended.
After(r, record) ==
    IF ~relay[r].alive THEN Gone ELSE IF relay[r].left THEN Closing ELSE record

\* The broker's middleware, blocking on the lock: the lease is on file, its
\* relay alive and the capability fresh.  A new broker knows no old session.
Authorize(r) ==
    /\ relay[r].at = "sent"
    /\ broker[relay[r].to] \in {"serving", "exiting"}
    /\ lock = None
    /\ \/ /\ r \in LiveClients
          /\ relay[r].session \in {None, relay[r].to}
          /\ Goes(r, "queued")
       \/ Becomes(r, After(r, Closing))
    /\ UNCHANGED <<client, lock, runlock, socket, receipt, broker, empty, tenancyVars>>

Answered(r) ==
    Becomes(r, After(r, [relay[r] EXCEPT !.at = "bound", !.session = relay[r].to, !.to = None]))

\* Tool calls of a broker run one at a time.
Begin(r) ==
    /\ relay[r].at = "queued"
    /\ broker[relay[r].to] \in {"serving", "exiting"}
    /\ tracker[relay[r].to].active = 0
    /\ UNCHANGED <<client, lock, runlock, socket, receipt, broker, empty>>
    /\ \/ Leases!StartCall(relay[r].to) /\ Goes(r, "calling")
       \/ Leases!RefuseCall(relay[r].to) /\ Answered(r)

Finish(r) ==
    /\ relay[r].at = "calling"
    /\ broker[relay[r].to] \in {"serving", "exiting"}
    /\ UNCHANGED <<client, lock, runlock, socket, receipt, broker, empty>>
    /\ Leases!EndCall(relay[r].to)
    /\ Answered(r)

\* The connection broke.
LoseAnswer(r) ==
    /\ relay[r].at \in {"sent", "queued", "calling"}
    /\ broker[relay[r].to] \notin {"bound", "serving", "exiting"}
    /\ Becomes(r, After(r, Closing))
    /\ UNCHANGED <<client, lock, runlock, socket, receipt, broker, empty, tenancyVars>>

\* Ten seconds without an answer.  The broker hears nothing of it.
TimeOut(r) ==
    /\ At(r, {"sent", "queued", "calling"}) /\ ~relay[r].left
    /\ Becomes(r, [relay[r] EXCEPT !.left = TRUE])
    /\ UNCHANGED <<client, lock, runlock, socket, receipt, broker, empty, tenancyVars>>

\* A request that is with the broker goes on without its relay.
RelayDies(r) ==
    /\ relay[r].alive /\ relay[r].at \notin {"new", "gone"}
    /\ Becomes(r, IF relay[r].at \in {"sent", "queued", "calling"}
                  THEN [relay[r] EXCEPT !.alive = FALSE, !.left = FALSE]
                  ELSE Gone)
    /\ lock' = IF lock = r THEN None ELSE lock
    /\ UNCHANGED <<client, runlock, socket, receipt, broker, empty, tenancyVars>>

RelayStep(r) ==
    \/ Register(r) \/ Look(r) \/ WaitEnds(r) \/ ClearSocket(r) \/ StartOk(r) \/ StartFails(r)
    \/ RetireClient(r)
    \/ Renew(r) \/ Send(r) \/ Hangup(r) \/ LoseAnswer(r) \/ TimeOut(r)
    \/ RelayDies(r)

Request(r) == Authorize(r) \/ Begin(r) \/ Finish(r)

(***************************************************************************)
(* A broker: run_shared_broker.                                            *)
(***************************************************************************)
TakeRunLock(b) ==
    /\ broker[b] = "spawned"
    /\ IF runlock = None
       THEN runlock' = b /\ BrokerGoes(b, "locked")
       ELSE BrokerGoes(b, "ending") /\ UNCHANGED runlock
    /\ UNCHANGED <<relay, client, lock, socket, receipt, empty, tenancyVars>>

\* A socket of an earlier broker is an error; otherwise the lease is opened.
OpenLease(b) ==
    /\ broker[b] = "locked"
    /\ IF socket = None
       THEN BrokerGoes(b, "starting") /\ Leases!Start(b)
       ELSE BrokerGoes(b, "ending") /\ UNCHANGED tenancyVars
    /\ UNCHANGED <<relay, client, lock, runlock, socket, receipt, empty>>

Bind(b) ==
    /\ broker[b] = "starting"
    /\ socket' = b
    /\ BrokerGoes(b, "bound")
    /\ UNCHANGED <<relay, client, lock, runlock, receipt, empty, tenancyVars>>

\* The receipt names the socket and is never written over another one.
Publish(b) ==
    /\ broker[b] = "bound"
    /\ IF receipt = NoReceipt /\ socket # None
       THEN receipt' = [broker |-> b, state |-> "ready"] /\ BrokerGoes(b, "serving")
       ELSE BrokerGoes(b, "exiting") /\ UNCHANGED receipt
    /\ UNCHANGED <<relay, client, lock, runlock, socket, empty, tenancyVars>>

StartTimeout(b) ==
    /\ broker[b] \in {"starting", "bound"}
    /\ BrokerGoes(b, "exiting")
    /\ UNCHANGED <<relay, client, lock, runlock, socket, receipt, empty, tenancyVars>>

\* The idle monitor, when it gets the lock at once: leases of dead relays are
\* retired, and an empty group is remembered.
CountClients(b) ==
    /\ broker[b] = "serving"
    /\ lock = None
    /\ client' = LiveClients
    /\ empty' = IF LiveClients = {} THEN empty \cup {b} ELSE empty \ {b}
    /\ UNCHANGED <<relay, lock, runlock, socket, receipt, broker, tenancyVars>>

\* Mutant: the last count is trusted, and not repeated under the lock.
StopIdle_LastCount(b) ==
    /\ broker[b] = "serving" /\ b \in empty
    /\ BrokerGoes(b, "exiting")
    /\ receipt' = IF receipt = [broker |-> b, state |-> "ready"]
                  THEN [broker |-> b, state |-> "draining"]
                  ELSE receipt
    /\ UNCHANGED <<relay, client, lock, runlock, socket, empty, tenancyVars>>

\* The idle time is over: count again under the lock, announce, stop.
StopIdle(b) ==
    /\ broker[b] = "serving" /\ b \in empty
    /\ lock = None
    /\ client' = LiveClients
    /\ IF LiveClients # {}
       THEN empty' = empty \ {b} /\ UNCHANGED <<receipt, broker>>
       ELSE /\ BrokerGoes(b, "exiting")
            /\ receipt' = IF receipt = [broker |-> b, state |-> "ready"]
                          THEN [broker |-> b, state |-> "draining"]
                          ELSE receipt
            /\ UNCHANGED empty
    /\ UNCHANGED <<relay, lock, runlock, socket, tenancyVars>>

PollRetirement(b) ==
    /\ broker[b] = "serving"
    /\ \E ready \in BOOLEAN :
        /\ broker' = IF ready THEN [broker EXCEPT ![b] = "exiting"] ELSE broker
        /\ Leases!Poll(b, ready)
    /\ UNCHANGED <<relay, client, lock, runlock, socket, receipt, empty>>

\* The server has ten seconds to finish what it runs.
StopListening(b) ==
    /\ broker[b] = "exiting"
    /\ BrokerGoes(b, "closing")
    /\ UNCHANGED <<relay, client, lock, runlock, socket, receipt, empty, tenancyVars>>

\* The lease of a server with a call is not closed; the call is cancelled.
CloseLease(b) ==
    /\ broker[b] = "closing"
    /\ \/ UNCHANGED broker /\ Leases!CloseHistory(b)
       \/ UNCHANGED broker /\ Leases!CloseLease(b)
       \/ BrokerGoes(b, "ending") /\ Leases!CloseMarker(b)
       \/ BrokerGoes(b, "ending") /\ Leases!EndCall(b)
    /\ UNCHANGED <<relay, client, lock, runlock, socket, receipt, empty>>

\* Also in a broker that never got the run lock, and whoever bound the socket.
UnlinkSocket(b) ==
    /\ broker[b] = "ending"
    /\ socket' = None
    /\ BrokerGoes(b, "unlinked")
    /\ UNCHANGED <<relay, client, lock, runlock, receipt, empty, tenancyVars>>

ArchiveReceipt(b) ==
    /\ broker[b] = "unlinked"
    /\ receipt' = IF receipt.broker = b THEN NoReceipt ELSE receipt
    /\ BrokerGoes(b, "archived")
    /\ UNCHANGED <<relay, client, lock, runlock, socket, empty, tenancyVars>>

\* Mutant: whatever ends the process removes its lease.
Die_DropsLease(b) ==
    /\ BrokerGoes(b, "dead")
    /\ tracker' = [tracker EXCEPT ![b] = Leases!NoLease]
    /\ lease' = [lease EXCEPT ![b] = Leases!NoLease]
    /\ runlock' = IF runlock = b THEN None ELSE runlock
    /\ empty' = empty \ {b}
    /\ UNCHANGED <<relay, client, lock, socket, receipt, closing, history, marker,
                   obsolete, drained, plan, applying>>

Die(b) ==
    /\ BrokerGoes(b, "dead")
    /\ Leases!Forget(b)
    /\ runlock' = IF runlock = b THEN None ELSE runlock
    /\ empty' = empty \ {b}
    /\ UNCHANGED <<relay, client, lock, socket, receipt>>

Exit(b) == broker[b] = "archived" /\ Die(b)

BrokerDies(b) == AliveBroker(b) /\ Die(b)

BrokerStep(b) ==
    \/ TakeRunLock(b) \/ OpenLease(b) \/ Bind(b) \/ Publish(b) \/ StartTimeout(b)
    \/ CountClients(b) \/ StopIdle(b) \/ PollRetirement(b)
    \/ StopListening(b) \/ CloseLease(b) \/ UnlinkSocket(b) \/ ArchiveReceipt(b)
    \/ Exit(b)

\* Another generation is activated, and this one's servers are to drain.
GenerationSuperseded ==
    /\ UNCHANGED <<relay, client, lock, runlock, socket, receipt, broker, empty>>
    /\ Leases!Supersede

Next ==
    \/ \E r \in Relays : RelayStep(r) \/ Request(r)
    \/ \E b \in Brokers : BrokerStep(b) \/ BrokerDies(b)
    \/ GenerationSuperseded

Spec == Init /\ [][Next]_vars

\* Processes are scheduled; relays and operators need not do anything.
FairSpec ==
    /\ Spec
    /\ \A b \in Brokers : WF_vars(BrokerStep(b))
    /\ \A r \in Relays : WF_vars(Request(r))

-----------------------------------------------------------------------------
RelayPlaces == {"new", "registered", "waiting", "clearing", "starting", "bound",
                "renewed", "sent", "queued", "calling", "closing", "gone"}
BrokerPlaces == {"unborn", "spawned", "locked", "starting", "bound", "serving", "exiting",
                 "closing", "ending", "unlinked", "archived", "dead"}

SharedRuntimeTypeOK ==
    /\ relay \in [Relays -> [at : RelayPlaces, alive : BOOLEAN, left : BOOLEAN,
                             session : Brokers \cup {None}, to : Brokers \cup {None}]]
    /\ client \subseteq Relays
    /\ lock \in Relays \cup {None}
    /\ runlock \in Brokers \cup {None}
    /\ socket \in Brokers \cup {None}
    /\ receipt \in [broker : Brokers \cup {None}, state : {"none", "ready", "draining"}]
    /\ broker \in [Brokers -> BrokerPlaces]
    /\ empty \subseteq Brokers
    /\ Leases!TenancyTypeOK

(***************************************************************************)
(* A relay that was told its broker is ready keeps it: no broker announces *)
(* an idle stop while such a relay lives, whenever the relay registered,   *)
(* the broker counted, or the relay's starter gave up on it.               *)
(***************************************************************************)
BoundRelayKeepsItsBroker ==
    \A r \in Relays :
        At(r, {"bound", "renewed", "sent", "queued", "calling"}) =>
            r \in client /\ receipt.state # "draining"

(***************************************************************************)
(* A running call of a living relay is not cut off by the broker's own     *)
(* stop, whether the group is idle or the lease is asked to retire, and    *)
(* also when the relay no longer waits but still has its lease on file.    *)
(***************************************************************************)
NoCallIsCutOff ==
    \A r \in Relays :
        At(r, {"calling"}) => broker[relay[r].to] \in {"serving", "dead"}

RunningCallsAreOnFile == Leases!RunningCallsAreOnFile

(***************************************************************************)
(* The brokers use their leases as the tenancy contract says.              *)
(***************************************************************************)
ImplementsTenancy == Leases!Spec

(***************************************************************************)
(* README: the broker is idle-bounded.  When every relay has gone, brokers *)
(* end, also those no relay ever got to know.                              *)
(***************************************************************************)
IdleBrokerStops ==
    (\A r \in Relays : relay[r].at = "gone")
        ~> (\A b \in Brokers : broker[b] \in {"unborn", "dead"})

=============================================================================

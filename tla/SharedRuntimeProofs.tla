------------------------- MODULE SharedRuntimeProofs -------------------------
(***************************************************************************)
(* The shared runtime implements the tenancy contract (Tenancy, here the   *)
(* instance Leases), for any number of relays, brokers and calls, and so   *)
(* what the contract gives holds of the brokers.  With it, no broker stops *)
(* under a living relay that was told to use it.                           *)
(***************************************************************************)
EXTENDS SharedRuntime, TLAPS

(***************************************************************************)
(* What the simulation rests on: the places of relays and brokers, and     *)
(* that a receipt and a request name a broker.                             *)
(***************************************************************************)
RelayRecord == [at : RelayPlaces, alive : BOOLEAN, left : BOOLEAN,
                session : Brokers \cup {None}, to : Brokers \cup {None}]

PlacesTyped ==
    /\ relay \in [Relays -> RelayRecord]
    /\ broker \in [Brokers -> BrokerPlaces]

ReceiptNamesBroker == receipt.state # "none" => receipt.broker \in Brokers

RequestNamesBroker ==
    \A r \in Relays : relay[r].at \in {"starting", "sent", "queued", "calling"} =>
        relay[r].to \in Brokers

PlacesInv == PlacesTyped /\ ReceiptNamesBroker /\ RequestNamesBroker

LEMMA PlacesInit == Init => PlacesInv
BY DEF Init, PlacesInv, PlacesTyped, ReceiptNamesBroker, RequestNamesBroker, RelayRecord,
       RelayPlaces, BrokerPlaces, NoReceipt

NeedsBroker == {"starting", "sent", "queued", "calling"}

(***************************************************************************)
(* The invariant.                                                          *)
(***************************************************************************)
\* One relay's record changes.
LEMMA RelayChange ==
    ASSUME PlacesInv, NEW r \in Relays, NEW record \in RelayRecord, Becomes(r, record),
           record.at \in NeedsBroker => record.to \in Brokers
    PROVE  relay' \in [Relays -> RelayRecord] /\ RequestNamesBroker'
BY DEF Becomes, PlacesInv, PlacesTyped, RequestNamesBroker, NeedsBroker

LEMMA RelayTyped == ASSUME PlacesInv, NEW r \in Relays PROVE relay[r] \in RelayRecord
BY DEF PlacesInv, PlacesTyped

LEMMA Leaving ==
    /\ Closing \in RelayRecord /\ Closing.at = "closing" /\ Closing.alive
    /\ Gone \in RelayRecord /\ Gone.at = "gone" /\ ~Gone.alive
BY DEF Closing, Gone, RelayRecord, RelayPlaces

LEMMA GoesInv ==
    ASSUME PlacesInv, NEW r \in Relays, NEW place \in RelayPlaces, Goes(r, place),
           place \in NeedsBroker => relay[r].to \in Brokers
    PROVE  relay' \in [Relays -> RelayRecord] /\ RequestNamesBroker'
<1> DEFINE record == [relay[r] EXCEPT !.at = place]
<1>1. record \in RelayRecord /\ record.at = place /\ record.to = relay[r].to
  BY RelayTyped DEF RelayRecord
<1>2. Becomes(r, record)
  BY DEF Goes
<1> HIDE DEF record
<1> QED
  BY <1>1, <1>2, RelayChange

\* A process is started, or the launcher fails.
LEMMA SpawnCases ==
    ASSUME NEW r \in Relays, Spawn(r)
    PROVE  \/ GivesUp(r)
           \/ \E b \in Brokers : /\ broker[b] = "unborn" /\ BrokerGoes(b, "spawned")
                                 /\ Becomes(r, [relay[r] EXCEPT !.at = "starting", !.to = b])
BY DEF Spawn

LEMMA SpawnInv ==
    ASSUME PlacesInv, NEW r \in Relays, Spawn(r)
    PROVE  PlacesTyped' /\ RequestNamesBroker'
<1>1. CASE GivesUp(r)
  BY <1>1, RelayChange, Leaving DEF GivesUp, NeedsBroker, PlacesInv, PlacesTyped
<1>2. ASSUME NEW b \in Brokers, BrokerGoes(b, "spawned"),
             Becomes(r, [relay[r] EXCEPT !.at = "starting", !.to = b])
      PROVE  PlacesTyped' /\ RequestNamesBroker'
  <2> DEFINE record == [relay[r] EXCEPT !.at = "starting", !.to = b]
  <2>1. record \in RelayRecord /\ record.to \in Brokers
    BY RelayTyped DEF RelayRecord, RelayPlaces
  <2>2. broker' \in [Brokers -> BrokerPlaces]
    BY <1>2 DEF BrokerGoes, PlacesInv, PlacesTyped, BrokerPlaces
  <2>3. Becomes(r, record)
    BY <1>2
  <2> HIDE DEF record
  <2> QED
    BY <2>1, <2>2, <2>3, RelayChange DEF PlacesTyped
<1> QED
  BY <1>1, <1>2, SpawnCases

\* A request is over, and its relay needs no broker for it any more.
LEMMA AfterInv ==
    ASSUME PlacesInv, NEW r \in Relays, NEW record \in RelayRecord, record.at \notin NeedsBroker,
           Becomes(r, After(r, record))
    PROVE  relay' \in [Relays -> RelayRecord] /\ RequestNamesBroker'
<1>1. After(r, record) \in RelayRecord /\ After(r, record).at \notin NeedsBroker
  BY Leaving DEF After, NeedsBroker
<1> QED
  BY <1>1, RelayChange

\* The record of a relay with its answer.
Bound(r) == [relay[r] EXCEPT !.at = "bound", !.session = relay[r].to, !.to = None]

LEMMA BoundTyped ==
    ASSUME PlacesInv, NEW r \in Relays, relay[r].to \in Brokers
    PROVE  Bound(r) \in RelayRecord /\ Bound(r).at = "bound" /\ Bound(r).alive = relay[r].alive
BY RelayTyped DEF Bound, RelayRecord, RelayPlaces

LEMMA AnsweredInv ==
    ASSUME PlacesInv, NEW r \in Relays, relay[r].to \in Brokers, Answered(r)
    PROVE  relay' \in [Relays -> RelayRecord] /\ RequestNamesBroker'
<1>1. Becomes(r, After(r, Bound(r)))
  BY DEF Answered, Bound
<1> QED
  BY <1>1, BoundTyped, AfterInv DEF NeedsBroker

LEMMA RelayStepInv ==
    ASSUME PlacesInv, NEW r \in Relays, RelayStep(r)
    PROVE  PlacesInv'
<1>0. relay[r] \in RelayRecord
  BY RelayTyped
<1>1. CASE Look(r) \/ WaitEnds(r) \/ ClearSocket(r) \/ StartFails(r)
  <2>1. receipt' \in {receipt, NoReceipt}
    BY <1>1 DEF Look, WaitEnds, ClearSocket, StartFails, GivesUp, Archive
  <2>2. \/ Spawn(r)
        \/ /\ broker' = broker
           /\ \/ \E place \in RelayPlaces \ NeedsBroker : Goes(r, place)
              \/ Becomes(r, Closing)
    BY <1>1 DEF Look, WaitEnds, ClearSocket, StartFails, GivesUp, Archive, RelayPlaces, NeedsBroker
  <2>3. ReceiptNamesBroker'
    BY <2>1 DEF PlacesInv, ReceiptNamesBroker, NoReceipt
  <2>4. PlacesTyped' /\ RequestNamesBroker'
    BY <2>2, SpawnInv, GoesInv, RelayChange, Leaving DEF PlacesInv, PlacesTyped, NeedsBroker
  <2> QED
    BY <2>3, <2>4 DEF PlacesInv
<1>2. CASE ~(Look(r) \/ WaitEnds(r) \/ ClearSocket(r) \/ StartFails(r))
  <2>1. broker' = broker /\ receipt' = receipt
    BY <1>2 DEF RelayStep, Register, StartOk, RetireClient, Renew, Send, Hangup, LoseAnswer,
                TimeOut, RelayDies
  <2>2. relay' \in [Relays -> RelayRecord] /\ RequestNamesBroker'
    <3>1. CASE Register(r) \/ Renew(r) \/ Hangup(r)
      <4>1. \/ \E place \in RelayPlaces \ NeedsBroker : Goes(r, place)
            \/ Becomes(r, Closing)
        BY <3>1 DEF Register, Renew, Hangup, RelayPlaces, NeedsBroker
      <4> QED
        BY <4>1, GoesInv, RelayChange, Leaving DEF NeedsBroker
    <3>2. CASE StartOk(r)
      <4> DEFINE record == [relay[r] EXCEPT !.at = "bound", !.to = None]
      <4>1. record \in RelayRecord /\ record.at = "bound"
        BY <1>0 DEF RelayRecord, RelayPlaces
      <4>2. Becomes(r, record)
        BY <3>2 DEF StartOk
      <4> HIDE DEF record
      <4> QED
        BY <4>1, <4>2, RelayChange DEF NeedsBroker
    <3>3. CASE Send(r)
      <4>1. CASE Becomes(r, Closing)
        BY <4>1, RelayChange, Leaving DEF NeedsBroker
      <4>2. CASE /\ receipt.state = "ready"
                 /\ Becomes(r, [relay[r] EXCEPT !.at = "sent", !.to = receipt.broker])
        <5> DEFINE record == [relay[r] EXCEPT !.at = "sent", !.to = receipt.broker]
        <5>1. receipt.broker \in Brokers
          BY <4>2 DEF PlacesInv, ReceiptNamesBroker
        <5>2. record \in RelayRecord /\ record.to \in Brokers
          BY <1>0, <5>1 DEF RelayRecord, RelayPlaces
        <5>3. Becomes(r, record)
          BY <4>2
        <5> HIDE DEF record
        <5> QED
          BY <5>2, <5>3, RelayChange
      <4> QED
        BY <3>3, <4>1, <4>2 DEF Send
    <3>4. CASE LoseAnswer(r)
      BY <3>4, AfterInv, Leaving DEF LoseAnswer, NeedsBroker
    <3>5. CASE TimeOut(r)
      <4> DEFINE record == [relay[r] EXCEPT !.left = TRUE]
      <4>1. record \in RelayRecord /\ record.at = relay[r].at /\ record.to = relay[r].to
        BY <1>0 DEF RelayRecord
      <4>2. Becomes(r, record)
        BY <3>5 DEF TimeOut
      <4> HIDE DEF record
      <4> QED
        BY <4>1, <4>2, RelayChange DEF PlacesInv, RequestNamesBroker, NeedsBroker
    <3>6. CASE RetireClient(r) \/ RelayDies(r)
      <4> DEFINE record == [relay[r] EXCEPT !.alive = FALSE, !.left = FALSE]
      <4>1. record \in RelayRecord /\ record.at = relay[r].at /\ record.to = relay[r].to
        BY <1>0 DEF RelayRecord
      <4>2. Becomes(r, record) \/ Becomes(r, Gone)
        BY <3>6 DEF RetireClient, RelayDies
      <4> HIDE DEF record
      <4> QED
        BY <4>1, <4>2, RelayChange, Leaving DEF PlacesInv, RequestNamesBroker, NeedsBroker
    <3> QED
      BY <1>2, <3>1, <3>2, <3>3, <3>4, <3>5, <3>6 DEF RelayStep
  <2> QED
    BY <2>1, <2>2 DEF PlacesInv, PlacesTyped, ReceiptNamesBroker
<1> QED
  BY <1>1, <1>2

LEMMA RequestInv ==
    ASSUME PlacesInv, NEW r \in Relays, Request(r)
    PROVE  PlacesInv'
<1>1. broker' = broker /\ receipt' = receipt
  BY DEF Request, Authorize, Begin, Finish
<1>2. relay[r].to \in Brokers
  BY DEF Request, Authorize, Begin, Finish, PlacesInv, RequestNamesBroker
<1>3. \/ \E place \in RelayPlaces : Goes(r, place)
      \/ Answered(r)
      \/ Becomes(r, After(r, Closing))
  BY DEF Request, Authorize, Begin, Finish, RelayPlaces
<1>4. relay' \in [Relays -> RelayRecord] /\ RequestNamesBroker'
  BY <1>2, <1>3, GoesInv, AnsweredInv, AfterInv, Leaving DEF NeedsBroker
<1> QED
  BY <1>1, <1>4 DEF PlacesInv, PlacesTyped, ReceiptNamesBroker

LEMMA BrokerInv ==
    ASSUME PlacesInv, NEW b \in Brokers, BrokerStep(b) \/ BrokerDies(b)
    PROVE  PlacesInv'
<1>1. relay' = relay
  BY DEF BrokerStep, BrokerDies, TakeRunLock, OpenLease, Bind, Publish, StartTimeout,
         CountClients, StopIdle, PollRetirement, StopListening, CloseLease, UnlinkSocket,
         ArchiveReceipt, Exit, Die
<1>2. broker' = broker \/ \E place \in BrokerPlaces : BrokerGoes(b, place)
  BY DEF BrokerStep, BrokerDies, TakeRunLock, OpenLease, Bind, Publish, StartTimeout,
         CountClients, StopIdle, PollRetirement, StopListening, CloseLease, UnlinkSocket,
         ArchiveReceipt, Exit, Die, BrokerGoes, BrokerPlaces
<1>3. receipt' \in {receipt, NoReceipt} \/ receipt'.broker = b
  BY DEF BrokerStep, BrokerDies, TakeRunLock, OpenLease, Bind, Publish, StartTimeout,
         CountClients, StopIdle, PollRetirement, StopListening, CloseLease, UnlinkSocket,
         ArchiveReceipt, Exit, Die
<1> QED
  BY <1>1, <1>2, <1>3 DEF PlacesInv, PlacesTyped, ReceiptNamesBroker, RequestNamesBroker,
                          BrokerGoes, NoReceipt

LEMMA PlacesNext == ASSUME PlacesInv, [Next]_vars PROVE PlacesInv'
<1>1. CASE GenerationSuperseded \/ UNCHANGED vars
  BY <1>1 DEF GenerationSuperseded, vars, PlacesInv, PlacesTyped, ReceiptNamesBroker,
              RequestNamesBroker
<1> QED
  BY <1>1, RelayStepInv, RequestInv, BrokerInv DEF Next

\* Relays, brokers and receipts are in the places the program has for them.
THEOREM PlacesInvariant == Spec => []PlacesInv
  BY PlacesInit, PlacesNext, PTL DEF Spec

(***************************************************************************)
(* The simulation.  To the tenancy contract a broker is unborn, alive or   *)
(* dead.                                                                   *)
(***************************************************************************)
\* Where a live broker stands is no concern of the contract.
LEMMA SameLife ==
    ASSUME PlacesInv, NEW b \in Brokers, AliveBroker(b),
           NEW place \in BrokerPlaces \ {"unborn", "dead"}, BrokerGoes(b, place)
    PROVE  Life' = Life
<1>1. broker' = [broker EXCEPT ![b] = place] /\ broker \in [Brokers -> BrokerPlaces]
  BY DEF BrokerGoes, PlacesInv, PlacesTyped
<1>2. ASSUME NEW c \in Brokers PROVE Life'[c] = Life[c]
  BY <1>1 DEF Life, AliveBroker
<1> QED
  BY <1>2 DEF Life

\* What only moves relays, locks and files is a stuttering step.
LEMMA Stutters ==
    ASSUME Life' = Life, UNCHANGED tenancyVars
    PROVE  UNCHANGED Leases!vars
BY DEF Leases!vars, tenancyVars, Life

LEMMA SpawnSimulates ==
    ASSUME PlacesInv, NEW r \in Relays, NEW b \in Brokers, broker[b] = "unborn",
           BrokerGoes(b, "spawned"), UNCHANGED tenancyVars
    PROVE  Leases!Next
<1>1. broker[b] = "unborn" /\ BrokerGoes(b, "spawned")
  OBVIOUS
<1>2. broker' = [broker EXCEPT ![b] = "spawned"] /\ broker \in [Brokers -> BrokerPlaces]
  BY <1>1 DEF BrokerGoes, PlacesInv, PlacesTyped
<1>3. Life[b] = "unborn" /\ Life' = [Life EXCEPT ![b] = "alive"]
  <2>1. ASSUME NEW c \in Brokers PROVE Life'[c] = [Life EXCEPT ![b] = "alive"][c]
    BY <1>2 DEF Life, AliveBroker
  <2> QED
    BY <1>1, <2>1 DEF Life, AliveBroker
<1>4. Leases!Birth(b)
  BY <1>3 DEF Leases!Birth, Leases!operatorVars, tenancyVars, Life
<1> QED
  BY <1>4 DEF Leases!Next, Leases!Serve

LEMMA RelaySimulates ==
    ASSUME PlacesInv, NEW r \in Relays, RelayStep(r)
    PROVE  [Leases!Next]_(Leases!vars)
<1>1. UNCHANGED tenancyVars
  BY DEF RelayStep, Register, Look, WaitEnds, ClearSocket, StartOk, StartFails, RetireClient,
         Renew, Send, Hangup, LoseAnswer, TimeOut, RelayDies
<1>2. broker' = broker \/ Spawn(r)
  BY DEF RelayStep, Register, Look, WaitEnds, ClearSocket, StartOk, StartFails, RetireClient,
         Renew, Send, Hangup, LoseAnswer, TimeOut, RelayDies, GivesUp, Archive
<1>3. broker' = broker => Life' = Life
  BY DEF Life, AliveBroker
<1> QED
  BY <1>1, <1>2, <1>3, SpawnCases, SpawnSimulates, Stutters DEF GivesUp

LEMMA RequestSimulates ==
    ASSUME PlacesInv, NEW r \in Relays, Request(r)
    PROVE  [Leases!Next]_(Leases!vars)
<1>1. relay[r].to \in Brokers
  BY DEF Request, Authorize, Begin, Finish, PlacesInv, RequestNamesBroker
<1>2. CASE Authorize(r)
  <2>1. Life' = Life /\ UNCHANGED tenancyVars
    BY <1>2 DEF Authorize, Life, AliveBroker
  <2> QED
    BY <2>1, Stutters
<1>3. CASE Begin(r) \/ Finish(r)
  <2>1. \E b \in Brokers : Leases!StartCall(b) \/ Leases!RefuseCall(b) \/ Leases!EndCall(b)
    BY <1>1, <1>3 DEF Begin, Finish
  <2> QED
    BY <2>1 DEF Leases!Next, Leases!Serve
<1> QED
  BY <1>2, <1>3 DEF Request

LEMMA DeathSimulates ==
    ASSUME PlacesInv, NEW b \in Brokers, AliveBroker(b), Die(b)
    PROVE  Leases!Next
<1>1. broker' = [broker EXCEPT ![b] = "dead"] /\ broker \in [Brokers -> BrokerPlaces]
  BY DEF Die, BrokerGoes, PlacesInv, PlacesTyped
<1>2. ASSUME NEW c \in Brokers PROVE Life'[c] = [Life EXCEPT ![b] = "dead"][c]
  BY <1>1 DEF Life, AliveBroker
<1>3. Life[b] = "alive" /\ Life' = [Life EXCEPT ![b] = "dead"]
  BY <1>2 DEF Life
<1>4. Leases!Death(b)
  BY <1>3 DEF Leases!Death, Leases!Alive, Die, Life
<1> QED
  BY <1>4 DEF Leases!Next, Leases!Serve

LEMMA BrokerSimulates ==
    ASSUME PlacesInv, NEW b \in Brokers, BrokerStep(b) \/ BrokerDies(b)
    PROVE  [Leases!Next]_(Leases!vars)
<1>1. CASE TakeRunLock(b) \/ Bind(b) \/ Publish(b) \/ StartTimeout(b) \/ CountClients(b)
           \/ StopIdle(b) \/ StopListening(b) \/ UnlinkSocket(b) \/ ArchiveReceipt(b)
  <2>1. UNCHANGED tenancyVars
    BY <1>1 DEF TakeRunLock, Bind, Publish, StartTimeout, CountClients, StopIdle, StopListening,
                UnlinkSocket, ArchiveReceipt
  <2>2. \/ broker' = broker
        \/ /\ AliveBroker(b)
           /\ \E place \in BrokerPlaces \ {"unborn", "dead"} : BrokerGoes(b, place)
    BY <1>1 DEF TakeRunLock, Bind, Publish, StartTimeout, CountClients, StopIdle, StopListening,
                UnlinkSocket, ArchiveReceipt, AliveBroker, BrokerPlaces
  <2>3. Life' = Life
    BY <2>2, SameLife DEF Life, AliveBroker
  <2> QED
    BY <2>1, <2>3, Stutters
<1>2. CASE OpenLease(b)
  <2>1. CASE Leases!Start(b)
    BY <2>1 DEF Leases!Next, Leases!Serve
  <2>2. CASE BrokerGoes(b, "ending") /\ UNCHANGED tenancyVars
    BY <1>2, <2>2, SameLife, Stutters DEF OpenLease, AliveBroker, BrokerPlaces
  <2> QED
    BY <1>2, <2>1, <2>2 DEF OpenLease
<1>3. CASE PollRetirement(b)
  BY <1>3 DEF PollRetirement, Leases!Next, Leases!Serve
<1>4. CASE CloseLease(b)
  BY <1>4 DEF CloseLease, Leases!Next, Leases!Serve
<1>5. CASE Exit(b) \/ BrokerDies(b)
  BY <1>5, DeathSimulates DEF Exit, BrokerDies, AliveBroker
<1> QED
  BY <1>1, <1>2, <1>3, <1>4, <1>5 DEF BrokerStep

LEMMA StepSimulates ==
    ASSUME PlacesInv, [Next]_vars
    PROVE  [Leases!Next]_(Leases!vars)
<1>1. CASE GenerationSuperseded
  BY <1>1 DEF GenerationSuperseded, Leases!Next, Leases!Operate
<1>2. CASE UNCHANGED vars
  <2>1. Life' = Life /\ UNCHANGED tenancyVars
    BY <1>2 DEF vars, Life, AliveBroker
  <2> QED
    BY <2>1, Stutters
<1> QED
  BY <1>1, <1>2, RelaySimulates, RequestSimulates, BrokerSimulates DEF Next

\* Whatever relays and brokers do, the leases change as tenancy.py has them
\* change: shared_runtime.py implements its contract.
THEOREM SharedRuntimeImplements == Spec => ImplementsTenancy
<1>1. Init => Leases!Init
  BY DEF Init
<1>2. PlacesInv /\ [Next]_vars => [Leases!Next]_(Leases!vars)
  BY StepSimulates
<1> QED
  BY <1>1, <1>2, PlacesInvariant, PTL DEF Spec, ImplementsTenancy, Leases!Spec

(***************************************************************************)
(* What the contract gives: an operator's plan, however old, neither hides *)
(* a running call nor loses a lease.  The lemmas speak of the steps of     *)
(* Leases, the contract of tenancy.py, whoever takes them.                 *)
(*                                                                         *)
(* The inductive invariant.  What a live server holds in memory is what    *)
(* its file says, except while it closes the lease; and a retirement that  *)
(* passed its check is of a process that stays dead.                       *)
(***************************************************************************)
CallsBounded ==
    \A s \in Brokers :
        /\ tracker[s].active \leq tracker[s].calls
        /\ ~tracker[s].kept => tracker[s].active = 0

HeldByTheLiving == \A s \in Brokers : tracker[s].kept => Leases!Alive(s)

FileAgrees ==
    \A s \in Brokers : tracker[s].kept => lease[s] = tracker[s] \/ s \in closing

ClosesWhenIdle ==
    \A s \in closing :
        tracker[s].kept /\ tracker[s].active = 0 /\ "close" \in history[s]

PlanNamesServer == plan.decision # "none" => plan.server \in Brokers

OrphansAreDead ==
    /\ applying # "none" => plan.decision # "none"
    /\ applying # "none" /\ plan.decision = "retire_orphan" => Life[plan.server] = "dead"
    /\ applying = "history" =>
           plan.decision = "retire_orphan" /\ "retire_orphan" \in history[plan.server]

ServerInv == CallsBounded /\ HeldByTheLiving /\ FileAgrees /\ ClosesWhenIdle
OperatorInv == PlanNamesServer /\ OrphansAreDead
TenancyInv == Leases!TenancyTypeOK /\ ServerInv /\ OperatorInv

LEMMA TenancyBound == Leases!TenancyAssumption
BY SharedRuntimeAssumption DEF Leases!TenancyAssumption

LEMMA NoLeaseType ==
    ASSUME Leases!TenancyAssumption PROVE Leases!NoLease \in Leases!LeaseRecord
<1>1. 0 \in 0 .. MaxCalls
  BY DEF Leases!TenancyAssumption
<1> QED
  BY <1>1 DEF Leases!NoLease, Leases!LeaseRecord

LEMMA TenancyInit == ASSUME Leases!TenancyAssumption, Leases!Init PROVE TenancyInv
<1>1. Leases!TenancyTypeOK
  BY NoLeaseType DEF Leases!Init, Leases!TenancyTypeOK, Leases!NoPlan, Leases!Reasons
<1>2. ServerInv
  BY DEF Leases!Init, ServerInv, CallsBounded, HeldByTheLiving, FileAgrees, ClosesWhenIdle,
         Leases!NoLease
<1>3. OperatorInv
  BY DEF Leases!Init, OperatorInv, PlanNamesServer, OrphansAreDead, Leases!NoPlan
<1> QED
  BY <1>1, <1>2, <1>3 DEF TenancyInv

(***************************************************************************)
(* Types.                                                                  *)
(***************************************************************************)
\* Writing a lease record keeps the types of memory and file.
LEMMA PersistType ==
    ASSUME Leases!TenancyTypeOK, NEW s \in Brokers, NEW record \in Leases!LeaseRecord,
           Leases!Persist(s, record)
    PROVE  tracker' \in [Brokers -> Leases!LeaseRecord]
           /\ lease' \in [Brokers -> Leases!LeaseRecord]
BY DEF Leases!TenancyTypeOK, Leases!Persist

\* One more call, or one less, is still a record of a lease.
LEMMA CallRecords ==
    ASSUME Leases!TenancyAssumption, Leases!TenancyTypeOK, CallsBounded, NEW s \in Brokers
    PROVE  /\ tracker[s].calls < MaxCalls =>
                  [tracker[s] EXCEPT !.active = @ + 1, !.calls = @ + 1] \in Leases!LeaseRecord
           /\ tracker[s].active > 0 => [tracker[s] EXCEPT !.active = @ - 1] \in Leases!LeaseRecord
<1>1. tracker[s] \in Leases!LeaseRecord
  BY DEF Leases!TenancyTypeOK
<1>2. tracker[s].active \in 0 .. MaxCalls /\ tracker[s].calls \in 0 .. MaxCalls
  BY <1>1 DEF Leases!LeaseRecord
<1>3. tracker[s].active \leq tracker[s].calls
  BY DEF CallsBounded
<1>4. tracker[s].calls < MaxCalls =>
          tracker[s].active + 1 \in 0 .. MaxCalls /\ tracker[s].calls + 1 \in 0 .. MaxCalls
  BY <1>2, <1>3 DEF Leases!TenancyAssumption
<1>5. tracker[s].active > 0 => tracker[s].active - 1 \in 0 .. MaxCalls
  BY <1>2 DEF Leases!TenancyAssumption
<1> QED
  BY <1>1, <1>4, <1>5 DEF Leases!LeaseRecord

LEMMA ServeType ==
    ASSUME Leases!TenancyAssumption, Leases!TenancyTypeOK, CallsBounded, NEW s \in Brokers,
           Leases!Serve(s)
    PROVE  Leases!TenancyTypeOK'
<1>0. tracker[s] \in Leases!LeaseRecord /\ Leases!NoLease \in Leases!LeaseRecord
  BY NoLeaseType DEF Leases!TenancyTypeOK
<1>1. CASE Leases!Birth(s)
  BY <1>1 DEF Leases!TenancyTypeOK, Leases!Birth, Leases!operatorVars
<1>2. CASE Leases!Death(s)
  BY <1>0, <1>2 DEF Leases!TenancyTypeOK, Leases!Death, Leases!Forget, Leases!operatorVars
<1>3. CASE Leases!Start(s)
  <2>1. [Leases!NoLease EXCEPT !.kept = TRUE] \in Leases!LeaseRecord
    BY <1>0 DEF Leases!LeaseRecord
  <2> QED
    BY <2>1, <1>3, PersistType DEF Leases!TenancyTypeOK, Leases!Start, Leases!operatorVars
<1>4. CASE Leases!RefuseCall(s)
  BY <1>0, <1>4, PersistType DEF Leases!TenancyTypeOK, Leases!RefuseCall, Leases!operatorVars
<1>5. CASE Leases!StartCall(s)
  BY <1>5, CallRecords, PersistType DEF Leases!TenancyTypeOK, Leases!StartCall,
         Leases!operatorVars
<1>6. CASE Leases!EndCall(s)
  BY <1>6, CallRecords, PersistType DEF Leases!TenancyTypeOK, Leases!EndCall,
         Leases!operatorVars
<1>7. CASE \E ready \in BOOLEAN : Leases!Poll(s, ready)
  BY <1>0, <1>7, PersistType DEF Leases!TenancyTypeOK, Leases!Poll, Leases!operatorVars
<1>8. CASE Leases!CloseHistory(s)
  BY <1>8 DEF Leases!TenancyTypeOK, Leases!CloseHistory, Leases!operatorVars, Leases!Reasons
<1>9. CASE Leases!CloseLease(s)
  BY <1>0, <1>9 DEF Leases!TenancyTypeOK, Leases!CloseLease, Leases!operatorVars
<1>10. CASE Leases!CloseMarker(s)
  BY <1>0, <1>10 DEF Leases!TenancyTypeOK, Leases!CloseMarker, Leases!operatorVars
<1> QED
  BY <1>1, <1>2, <1>3, <1>4, <1>5, <1>6, <1>7, <1>8, <1>9, <1>10 DEF Leases!Serve

LEMMA OperateType ==
    ASSUME Leases!TenancyAssumption, Leases!TenancyTypeOK, PlanNamesServer, OrphansAreDead,
           Leases!Operate
    PROVE  Leases!TenancyTypeOK'
<1>0. Leases!NoLease \in Leases!LeaseRecord
  BY NoLeaseType
<1>1. ASSUME NEW s \in Brokers, Leases!PlanLifecycle(s) PROVE Leases!TenancyTypeOK'
  BY <1>1 DEF Leases!TenancyTypeOK, Leases!PlanLifecycle
<1>2. CASE Leases!CheckPlan
  BY <1>2 DEF Leases!TenancyTypeOK, Leases!CheckPlan
<1>3. CASE Leases!RequestClose
  BY <1>0, <1>3 DEF Leases!TenancyTypeOK, Leases!RequestClose, Leases!NoPlan, PlanNamesServer
<1>4. CASE Leases!RetireHistory
  BY <1>4 DEF Leases!TenancyTypeOK, Leases!RetireHistory, Leases!Reasons
<1>5. CASE Leases!RetireLease
  BY <1>0, <1>5 DEF Leases!TenancyTypeOK, Leases!RetireLease, Leases!NoPlan
<1>6. CASE Leases!Interrupt
  BY <1>6 DEF Leases!TenancyTypeOK, Leases!Interrupt
<1>7. CASE Leases!Supersede
  BY <1>7 DEF Leases!TenancyTypeOK, Leases!Supersede
<1> QED
  BY <1>1, <1>2, <1>3, <1>4, <1>5, <1>6, <1>7 DEF Leases!Operate

(***************************************************************************)
(* The server: memory and file.                                            *)
(***************************************************************************)
\* A record that a live server writes to its open lease keeps them agreed.
LEMMA PersistInv ==
    ASSUME Leases!TenancyTypeOK, ServerInv, NEW s \in Brokers, s \notin closing,
           Leases!Alive(s),
           NEW record, record.kept, record.active \leq record.calls,
           Leases!Persist(s, record), UNCHANGED <<Life, closing, history>>
    PROVE  ServerInv'
<1>1. tracker' = [tracker EXCEPT ![s] = record] /\ lease' = [lease EXCEPT ![s] = record]
  BY DEF Leases!Persist
<1>2. tracker \in [Brokers -> Leases!LeaseRecord] /\ lease \in [Brokers -> Leases!LeaseRecord]
      /\ closing \subseteq Brokers
  BY DEF Leases!TenancyTypeOK
<1>3. tracker'[s] = record /\ lease'[s] = record
      /\ \A t \in Brokers \ {s} : tracker'[t] = tracker[t] /\ lease'[t] = lease[t]
  BY <1>1, <1>2
<1>4. CallsBounded'
  BY <1>3 DEF ServerInv, CallsBounded
<1>5. HeldByTheLiving'
  BY <1>3 DEF ServerInv, HeldByTheLiving, Leases!Alive
<1>6. FileAgrees'
  BY <1>3 DEF ServerInv, FileAgrees
<1>7. ClosesWhenIdle'
  BY <1>2, <1>3 DEF ServerInv, ClosesWhenIdle
<1> QED
  BY <1>4, <1>5, <1>6, <1>7 DEF ServerInv

\* A server that holds nothing any more has nothing to agree with.
LEMMA ForgetInv ==
    ASSUME Leases!TenancyTypeOK, ServerInv, NEW s \in Brokers,
           tracker' = [tracker EXCEPT ![s] = Leases!NoLease], closing' = closing \ {s},
           \A t \in Brokers \ {s} : Life'[t] = Life[t],
           UNCHANGED <<lease, history>>
    PROVE  ServerInv'
<1>1. tracker'[s] = Leases!NoLease /\ \A t \in Brokers \ {s} : tracker'[t] = tracker[t]
  BY DEF Leases!TenancyTypeOK
<1>2. CallsBounded'
  BY <1>1 DEF ServerInv, CallsBounded, Leases!NoLease
<1>3. HeldByTheLiving'
  BY <1>1 DEF ServerInv, HeldByTheLiving, Leases!Alive, Leases!NoLease
<1>4. FileAgrees'
  BY <1>1 DEF ServerInv, FileAgrees, Leases!NoLease
<1>5. ClosesWhenIdle'
  BY <1>1 DEF ServerInv, ClosesWhenIdle, Leases!TenancyTypeOK
<1> QED
  BY <1>2, <1>3, <1>4, <1>5 DEF ServerInv

LEMMA ServeInv ==
    ASSUME Leases!TenancyAssumption, Leases!TenancyTypeOK, ServerInv, NEW s \in Brokers,
           Leases!Serve(s)
    PROVE  ServerInv'
<1>0. /\ tracker[s].active \in Nat /\ tracker[s].calls \in Nat
      /\ tracker[s].active \leq tracker[s].calls
      /\ tracker[s] \in Leases!LeaseRecord
  BY DEF Leases!TenancyTypeOK, Leases!LeaseRecord, Leases!TenancyAssumption, ServerInv,
         CallsBounded
<1>1. CASE Leases!Birth(s)
  <2>1. \A t \in Brokers : Leases!Alive(t) => Leases!Alive(t)'
    BY <1>1 DEF Leases!Birth, Leases!Alive, Leases!TenancyTypeOK
  <2> QED
    BY <2>1, <1>1 DEF Leases!Birth, ServerInv, CallsBounded, HeldByTheLiving, FileAgrees,
                      ClosesWhenIdle
<1>2. CASE Leases!Death(s)
  BY <1>2, ForgetInv DEF Leases!Death, Leases!Forget, Leases!TenancyTypeOK
<1>3. CASE Leases!Start(s)
  <2>1. s \notin closing
    BY <1>3 DEF Leases!Start, ServerInv, ClosesWhenIdle
  <2>2. [Leases!NoLease EXCEPT !.kept = TRUE].kept
        /\ [Leases!NoLease EXCEPT !.kept = TRUE].active
              \leq [Leases!NoLease EXCEPT !.kept = TRUE].calls
    BY DEF Leases!NoLease
  <2> QED
    BY <2>1, <2>2, <1>3, PersistInv DEF Leases!Start
<1>4. CASE Leases!RefuseCall(s)
  BY <1>0, <1>4, PersistInv DEF Leases!RefuseCall, Leases!Open
<1>5. CASE Leases!StartCall(s)
  <2> DEFINE r == [tracker[s] EXCEPT !.active = @ + 1, !.calls = @ + 1]
  <2>1. r.kept = tracker[s].kept /\ r.active = tracker[s].active + 1
        /\ r.calls = tracker[s].calls + 1
    BY <1>0 DEF Leases!LeaseRecord
  <2>2. r.kept /\ r.active \leq r.calls
    BY <1>0, <1>5, <2>1 DEF Leases!StartCall, Leases!Open
  <2>3. /\ s \notin closing /\ Leases!Alive(s) /\ Leases!Persist(s, r)
        /\ UNCHANGED <<Life, closing, history>>
    BY <1>5 DEF Leases!StartCall, Leases!Open
  <2> HIDE DEF r
  <2> QED
    BY <2>2, <2>3, PersistInv
<1>6. CASE Leases!EndCall(s)
  <2> DEFINE r == [tracker[s] EXCEPT !.active = @ - 1]
  <2>1. r.kept = tracker[s].kept /\ r.active = tracker[s].active - 1
         /\ r.calls = tracker[s].calls
    BY <1>0 DEF Leases!LeaseRecord
  <2>2. r.kept /\ r.active \leq r.calls
    BY <1>0, <1>6, <2>1 DEF Leases!EndCall, Leases!Open
  <2>3. /\ s \notin closing /\ Leases!Alive(s) /\ Leases!Persist(s, r)
        /\ UNCHANGED <<Life, closing, history>>
    BY <1>6 DEF Leases!EndCall, Leases!Open
  <2> HIDE DEF r
  <2> QED
    BY <2>2, <2>3, PersistInv
<1>7. CASE \E ready \in BOOLEAN : Leases!Poll(s, ready)
  BY <1>0, <1>7, PersistInv DEF Leases!Poll, Leases!Open
<1>8. CASE Leases!CloseHistory(s)
  <2>1. /\ tracker' = tracker /\ lease' = lease /\ Life' = Life
        /\ closing' = closing \cup {s}
        /\ tracker[s].kept /\ tracker[s].active = 0
    BY <1>8 DEF Leases!CloseHistory, Leases!Open
  <2>2. "close" \in history'[s] /\ \A t \in Brokers : history[t] \subseteq history'[t]
    BY <1>8 DEF Leases!CloseHistory, Leases!TenancyTypeOK
  <2> QED
    BY <2>1, <2>2 DEF ServerInv, CallsBounded, HeldByTheLiving, FileAgrees, ClosesWhenIdle,
                      Leases!Alive, Leases!TenancyTypeOK
<1>9. CASE Leases!CloseLease(s)
  BY <1>9 DEF Leases!CloseLease, ServerInv, CallsBounded, HeldByTheLiving, FileAgrees,
              ClosesWhenIdle, Leases!Alive, Leases!TenancyTypeOK
<1>10. CASE Leases!CloseMarker(s)
  BY <1>10, ForgetInv DEF Leases!CloseMarker
<1> QED
  BY <1>1, <1>2, <1>3, <1>4, <1>5, <1>6, <1>7, <1>8, <1>9, <1>10 DEF Leases!Serve

(***************************************************************************)
(* The operator.  Only a retirement touches a lease, and then of a dead    *)
(* Life, which holds nothing in memory.                                 *)
(***************************************************************************)
LEMMA OperateInv ==
    ASSUME Leases!TenancyTypeOK, ServerInv, OperatorInv, Leases!Operate
    PROVE  ServerInv' /\ OperatorInv'
<1>0. \A t \in Brokers : Life[t] = "dead" => ~tracker[t].kept
  BY DEF ServerInv, HeldByTheLiving, Leases!Alive
<1>1. ASSUME UNCHANGED <<Life, tracker, lease, closing, history>> PROVE ServerInv'
  BY <1>1 DEF ServerInv, CallsBounded, HeldByTheLiving, FileAgrees, ClosesWhenIdle,
         Leases!Alive
<1>2. ASSUME NEW s \in Brokers, Leases!PlanLifecycle(s) PROVE ServerInv' /\ OperatorInv'
  BY <1>1, <1>2 DEF Leases!PlanLifecycle, OperatorInv, PlanNamesServer, OrphansAreDead
<1>3. CASE Leases!CheckPlan
  <2>1. plan.decision # "none" /\ plan.server \in Brokers
    BY <1>3 DEF Leases!CheckPlan, OperatorInv, PlanNamesServer
  <2> QED
    BY <1>1, <1>3, <2>1 DEF Leases!CheckPlan, OperatorInv, PlanNamesServer, OrphansAreDead
<1>4. CASE Leases!RequestClose
  BY <1>1, <1>4 DEF Leases!RequestClose, OperatorInv, PlanNamesServer, OrphansAreDead,
         Leases!NoPlan
<1>5. CASE Leases!RetireHistory
  <2>1. plan.server \in Brokers
    BY <1>5 DEF Leases!RetireHistory, OperatorInv, PlanNamesServer
  <2>2. "retire_orphan" \in history'[plan.server]
        /\ \A t \in Brokers : history[t] \subseteq history'[t]
    BY <1>5, <2>1 DEF Leases!RetireHistory, Leases!TenancyTypeOK
  <2>3. ServerInv'
    BY <1>5, <2>2 DEF Leases!RetireHistory, ServerInv, CallsBounded, HeldByTheLiving,
           FileAgrees,
                      ClosesWhenIdle, Leases!Alive, Leases!TenancyTypeOK
  <2>4. OperatorInv'
    BY <1>5, <2>2 DEF Leases!RetireHistory, OperatorInv, PlanNamesServer, OrphansAreDead
  <2> QED
    BY <2>3, <2>4
<1>6. CASE Leases!RetireLease
  <2>1. plan.server \in Brokers /\ Life[plan.server] = "dead"
    BY <1>6 DEF Leases!RetireLease, OperatorInv, PlanNamesServer, OrphansAreDead
  <2>2. ~tracker[plan.server].kept
    BY <1>0, <2>1
  <2>3. \A t \in Brokers : tracker[t].kept => lease'[t] = lease[t]
    BY <1>6, <2>2 DEF Leases!RetireLease, Leases!TenancyTypeOK
  <2>4. ServerInv'
    BY <1>6, <2>3 DEF Leases!RetireLease, ServerInv, CallsBounded, HeldByTheLiving, FileAgrees,
                      ClosesWhenIdle, Leases!Alive, Leases!TenancyTypeOK
  <2>5. OperatorInv'
    BY <1>6 DEF Leases!RetireLease, OperatorInv, PlanNamesServer, OrphansAreDead, Leases!NoPlan
  <2> QED
    BY <2>4, <2>5
<1>7. CASE Leases!Interrupt
  BY <1>1, <1>7 DEF Leases!Interrupt, OperatorInv, PlanNamesServer, OrphansAreDead
<1>8. CASE Leases!Supersede
  BY <1>1, <1>8 DEF Leases!Supersede, OperatorInv, PlanNamesServer, OrphansAreDead
<1> QED
  BY <1>2, <1>3, <1>4, <1>5, <1>6, <1>7, <1>8 DEF Leases!Operate

\* No step of a server brings a dead Life back or takes from the history.
LEMMA ServeOperator ==
    ASSUME Leases!TenancyTypeOK, OperatorInv, NEW s \in Brokers, Leases!Serve(s)
    PROVE  OperatorInv'
<1>1. plan' = plan /\ applying' = applying
  BY DEF Leases!Serve, Leases!Birth, Leases!Death, Leases!Forget, Leases!Start,
         Leases!RefuseCall, Leases!StartCall, Leases!EndCall, Leases!Poll,
         Leases!CloseHistory, Leases!CloseLease, Leases!CloseMarker, Leases!operatorVars
<1>2. \A t \in Brokers : Life[t] = "dead" => Life'[t] = "dead"
  BY DEF Leases!TenancyTypeOK, Leases!Serve, Leases!Birth, Leases!Death, Leases!Alive,
         Leases!Start, Leases!RefuseCall, Leases!StartCall, Leases!EndCall, Leases!Poll,
         Leases!CloseHistory, Leases!CloseLease, Leases!CloseMarker
<1>3. \A t \in Brokers : history[t] \subseteq history'[t]
  BY DEF Leases!TenancyTypeOK, Leases!Serve, Leases!Birth, Leases!Death, Leases!Forget,
         Leases!Start, Leases!RefuseCall, Leases!StartCall, Leases!EndCall, Leases!Poll,
         Leases!CloseHistory, Leases!CloseLease, Leases!CloseMarker
<1> QED
  BY <1>1, <1>2, <1>3 DEF OperatorInv, PlanNamesServer, OrphansAreDead

LEMMA TenancyNext ==
    ASSUME Leases!TenancyAssumption, TenancyInv, [Leases!Next]_(Leases!vars)
    PROVE  TenancyInv'
<1>1. CASE Leases!Operate
  BY <1>1, OperateType, OperateInv DEF TenancyInv, ServerInv, OperatorInv
<1>2. ASSUME NEW s \in Brokers, Leases!Serve(s) PROVE TenancyInv'
  BY <1>2, ServeType, ServeInv, ServeOperator DEF TenancyInv, ServerInv
<1>3. CASE UNCHANGED Leases!vars
  BY <1>3 DEF Leases!vars, TenancyInv, Leases!TenancyTypeOK, ServerInv, OperatorInv,
         CallsBounded,
              HeldByTheLiving, FileAgrees, ClosesWhenIdle, PlanNamesServer, OrphansAreDead,
                     Leases!Alive
<1> QED
  BY <1>1, <1>2, <1>3 DEF Leases!Next

\* Types, memory and file, and the operator's plan are as stated, always.
THEOREM TenancyInvariant == Leases!Spec => []TenancyInv
<1>1. Leases!Init => TenancyInv
  BY TenancyInit, TenancyBound
<1>2. TenancyInv /\ [Leases!Next]_(Leases!vars) => TenancyInv'
  BY TenancyNext, TenancyBound
<1> QED
  BY <1>1, <1>2, PTL DEF Leases!Spec

\* Every call that a live server runs is in its lease file, with the count
\* the server holds in memory (tenancy.py:499-532).
THEOREM CallsAreOnFile == Leases!Spec => []Leases!RunningCallsAreOnFile
<1>1. TenancyInv => Leases!RunningCallsAreOnFile
  <2> SUFFICES ASSUME TenancyInv, NEW s \in Brokers, Leases!Alive(s), tracker[s].active > 0
               PROVE  lease[s].kept /\ lease[s].active = tracker[s].active
    BY DEF Leases!RunningCallsAreOnFile
  <2>1. tracker[s].kept /\ s \notin closing
    BY DEF TenancyInv, ServerInv, CallsBounded, ClosesWhenIdle
  <2> QED
    BY <2>1 DEF TenancyInv, ServerInv, FileAgrees
<1> QED
  BY <1>1, TenancyInvariant, PTL

\* A lease file disappears only when its history is written, whoever dies
\* between the two (tenancy.py:563-604, 931-1110).
THEOREM LeasesAreAccountedFor == Leases!Spec => Leases!NoLeaseIsLost
<1>1. ASSUME TenancyInv, [Leases!Next]_(Leases!vars), NEW s \in Brokers, lease[s].kept,
       ~lease'[s].kept
      PROVE  history[s] # {}
  <2>1. CASE Leases!RetireLease
    BY <1>1, <2>1 DEF Leases!RetireLease, TenancyInv, Leases!TenancyTypeOK, OperatorInv,
           PlanNamesServer,
                      OrphansAreDead
  <2>2. CASE Leases!Operate /\ ~Leases!RetireLease
    BY <1>1, <2>2 DEF Leases!Operate, Leases!PlanLifecycle, Leases!CheckPlan,
           Leases!RequestClose, Leases!RetireHistory, Leases!Interrupt,
                      Leases!Supersede
  <2>3. ASSUME NEW t \in Brokers, Leases!Serve(t) PROVE history[s] # {}
    <3>1. CASE Leases!CloseLease(t)
      BY <1>1, <3>1 DEF Leases!CloseLease, TenancyInv, Leases!TenancyTypeOK, ServerInv,
             ClosesWhenIdle
    <3>2. ASSUME NEW record, record.kept, Leases!Persist(t, record) PROVE FALSE
      BY <1>1, <3>2 DEF Leases!Persist, TenancyInv, Leases!TenancyTypeOK
    <3>3. CASE Leases!Start(t)
      BY <3>2, <3>3 DEF Leases!Start, Leases!NoLease
    <3>4. CASE Leases!RefuseCall(t) \/ \E ready \in BOOLEAN : Leases!Poll(t, ready)
      BY <3>2, <3>4 DEF Leases!RefuseCall, Leases!Poll, Leases!Open
    <3>5. tracker[t] \in Leases!LeaseRecord
      BY <1>1 DEF TenancyInv, Leases!TenancyTypeOK
    <3>6. CASE Leases!StartCall(t)
      <4>1. tracker[t].kept /\ Leases!Persist(t, [tracker[t] EXCEPT !.active = @ + 1,
             !.calls = @ + 1])
        BY <3>6 DEF Leases!StartCall, Leases!Open
      <4>2. [tracker[t] EXCEPT !.active = @ + 1, !.calls = @ + 1].kept
        BY <3>5, <4>1 DEF Leases!LeaseRecord
      <4> QED
        BY <3>2, <4>1, <4>2
    <3>7. CASE Leases!EndCall(t)
      <4>1. tracker[t].kept /\ Leases!Persist(t, [tracker[t] EXCEPT !.active = @ - 1])
        BY <3>7 DEF Leases!EndCall, Leases!Open
      <4>2. [tracker[t] EXCEPT !.active = @ - 1].kept
        BY <3>5, <4>1 DEF Leases!LeaseRecord
      <4> QED
        BY <3>2, <4>1, <4>2
    <3>8. CASE Leases!Birth(t) \/ Leases!Death(t) \/ Leases!CloseHistory(t)
           \/ Leases!CloseMarker(t)
      BY <1>1, <3>8 DEF Leases!Birth, Leases!Death, Leases!Forget, Leases!CloseHistory,
             Leases!CloseMarker
    <3> QED
      BY <2>3, <3>1, <3>3, <3>4, <3>6, <3>7, <3>8 DEF Leases!Serve
  <2>4. CASE UNCHANGED Leases!vars
    BY <1>1, <2>4 DEF Leases!vars
  <2> QED
    BY <1>1, <2>1, <2>2, <2>3, <2>4 DEF Leases!Next
<1>2. TenancyInv /\ [Leases!Next]_(Leases!vars) =>
          [\A s \in Brokers : lease[s].kept
                 /\ ~lease'[s].kept => history[s] # {}]_(Leases!vars)
  BY <1>1
<1> QED
  BY <1>2, TenancyInvariant, PTL DEF Leases!Spec, Leases!NoLeaseIsLost

\* A broker's running call is in its lease file, whoever plans from it.
THEOREM BrokerCallsAreOnFile == Spec => []RunningCallsAreOnFile
BY CallsAreOnFile, SharedRuntimeImplements, PTL DEF ImplementsTenancy, RunningCallsAreOnFile

\* A broker's lease file disappears only when its history is written.
THEOREM BrokerLeasesAreAccountedFor == Spec => Leases!NoLeaseIsLost
BY LeasesAreAccountedFor, SharedRuntimeImplements, PTL DEF ImplementsTenancy

(***************************************************************************)
(* Stopping brokers and the calls of living relays.  A relay is registered *)
(* before it looks for a broker, and stays so while it lives; so no broker *)
(* finds the group empty under it, and what else stops a broker stops its  *)
(* calls from starting first.                                              *)
(***************************************************************************)
\* A broker that has published its receipt.
Published == {"serving", "exiting", "closing", "ending", "unlinked", "archived", "dead"}
Runs(b) == broker[b] \in {"serving", "exiting"}

Registered(r) == relay[r].alive /\ relay[r].at \notin {"new", "gone"} => r \in client

Ready(r) ==
    At(r, {"bound", "renewed", "sent", "queued", "calling"}) => receipt.state # "draining"

\* Requests go to a broker that published; one that still listens although it
\* is stopping takes no new calls.
Requests(r) ==
    relay[r].at \in {"sent", "queued", "calling"} =>
        /\ broker[relay[r].to] \in Published
        /\ relay[r].alive /\ broker[relay[r].to] = "exiting" => Leases!Requested(relay[r].to)

\* A call that runs is in its broker's count.
Calls(r) ==
    relay[r].at = "calling" =>
        /\ Runs(relay[r].to) => tracker[relay[r].to].active > 0
        /\ relay[r].alive => broker[relay[r].to] \in {"serving", "dead"}

OneCall(r, q) ==
    relay[r].at = "calling" /\ relay[q].at = "calling" /\ Runs(relay[r].to) =>
        relay[r].to # relay[q].to

Receipts ==
    /\ \A b \in Brokers : broker[b] = "serving" => receipt = [broker |-> b, state |-> "ready"]
    /\ receipt.state # "none" => broker[receipt.broker] \in Published
    /\ receipt.state = "ready" /\ broker[receipt.broker] = "exiting" =>
          Leases!Requested(receipt.broker)

CallsInv ==
    /\ Receipts
    /\ \A r \in Relays : Registered(r) /\ Ready(r) /\ Requests(r) /\ Calls(r)
    /\ \A r, q \in Relays : r # q => OneCall(r, q)

LEMMA InitCalls == Init => CallsInv
<1> SUFFICES ASSUME Init PROVE CallsInv
  OBVIOUS
<1>1. \A r \in Relays : relay[r].at = "new"
  BY DEF Init
<1>2. Receipts
  BY DEF Init, Receipts, NoReceipt
<1> QED
  BY <1>1, <1>2 DEF CallsInv, Registered, Ready, Requests, Calls, OneCall, At

(***************************************************************************)
(* A relay moves: record is what it becomes.                               *)
(***************************************************************************)
Fits(r, record) ==
    /\ record.alive /\ record.at \notin {"new", "gone"} => r \in client'
    /\ record.alive /\ record.at \in {"bound", "renewed", "sent", "queued", "calling"} =>
          receipt.state # "draining"
    /\ record.at \in {"sent", "queued"} =>
          /\ broker[record.to] \in Published
          /\ record.alive /\ broker[record.to] = "exiting" => Leases!Requested(record.to)
    /\ record.at = "calling" =>
          relay[r].at = "calling" /\ relay[r].to = record.to /\ (record.alive => relay[r].alive)

LEMMA RelayMoves ==
    ASSUME PlacesInv, CallsInv, NEW r \in Relays, NEW record, Fits(r, record),
           Becomes(r, record),
           client \ {r} \subseteq client',
           UNCHANGED <<broker, receipt, tracker, marker, drained>>
    PROVE  CallsInv'
<1>1. relay'[r] = record /\ \A q \in Relays \ {r} : relay'[q] = relay[q]
  BY DEF Becomes, PlacesInv, PlacesTyped
<1>2. Receipts'
  BY DEF CallsInv, Receipts, Leases!Requested
<1>3. ASSUME NEW q \in Relays, q # r
      PROVE  Registered(q)' /\ Ready(q)' /\ Requests(q)' /\ Calls(q)'
  BY <1>1, <1>3
  DEF CallsInv, Registered, Ready, At, Requests, Calls, Runs, Leases!Requested
<1>4. Registered(r)' /\ Ready(r)'
  BY <1>1 DEF Fits, Registered, Ready, At
<1>5. Requests(r)' /\ Calls(r)'
  BY <1>1 DEF Fits, CallsInv, Requests, Calls, Runs, Leases!Requested
<1>6. ASSUME NEW p \in Relays, NEW q \in Relays, p # q PROVE OneCall(p, q)'
  <2>1. \A s \in Relays : relay'[s].at = "calling" =>
                             relay[s].at = "calling" /\ relay'[s].to = relay[s].to
    BY <1>1 DEF Fits
  <2> QED
    BY <1>6, <2>1 DEF CallsInv, OneCall, Runs
<1> QED
  BY <1>2, <1>3, <1>4, <1>5, <1>6 DEF CallsInv

\* To a place without a request.
LEMMA RelayGoes ==
    ASSUME PlacesInv, CallsInv, NEW r \in Relays,
           NEW place \in RelayPlaces \ {"sent", "queued", "calling"}, Goes(r, place),
           relay[r].alive /\ place \notin {"new", "gone"} => r \in client',
           relay[r].alive /\ place \in {"bound", "renewed"} => receipt.state # "draining",
           client \ {r} \subseteq client',
           UNCHANGED <<broker, receipt, tenancyVars>>
    PROVE  CallsInv'
<1> DEFINE record == [relay[r] EXCEPT !.at = place]
<1>1. Becomes(r, record)
  BY DEF Goes
<1>2. record.at = place /\ record.alive = relay[r].alive
  BY RelayTyped DEF RelayRecord
<1> HIDE DEF record
<1>3. Fits(r, record)
  BY <1>2 DEF Fits
<1> QED
  BY <1>1, <1>3, RelayMoves DEF tenancyVars

\* Out of the group: on the way while the lease is on file, or gone.
LEMMA LeavingFits ==
    ASSUME NEW r \in Relays
    PROVE  (r \in client' => Fits(r, Closing)) /\ Fits(r, Gone)
BY Leaving DEF Fits

LEMMA RelayLeaves ==
    ASSUME PlacesInv, CallsInv, NEW r \in Relays,
           (Becomes(r, Closing) /\ r \in client') \/ Becomes(r, Gone),
           client \ {r} \subseteq client',
           UNCHANGED <<broker, receipt, tenancyVars>>
    PROVE  CallsInv'
BY LeavingFits, RelayMoves DEF tenancyVars

\* Where it stood, with the request it had, and alive only if it was.
LEMMA StaysFits ==
    ASSUME CallsInv, NEW r \in Relays, NEW record,
           record.at = relay[r].at, record.to = relay[r].to,
           record.alive => relay[r].alive /\ client' = client
    PROVE  Fits(r, record)
BY DEF CallsInv, Fits, Registered, Ready, Requests, At

\* The process a relay starts has neither receipt nor requests.
LEMMA SpawnCalls ==
    ASSUME PlacesInv, CallsInv, NEW r \in Relays,
           relay[r].at \in {"registered", "waiting", "clearing"}, receipt' = receipt,
           NEW b \in Brokers, broker[b] = "unborn", BrokerGoes(b, "spawned"),
           Becomes(r, [relay[r] EXCEPT !.at = "starting", !.to = b]),
           UNCHANGED <<client, tenancyVars>>
    PROVE  CallsInv'
<1>1. /\ broker[b] = "unborn" /\ BrokerGoes(b, "spawned")
      /\ Becomes(r, [relay[r] EXCEPT !.at = "starting", !.to = b])
  OBVIOUS
<1>2. /\ broker'[b] = "spawned" /\ \A c \in Brokers \ {b} : broker'[c] = broker[c]
  BY <1>1 DEF BrokerGoes, PlacesInv, PlacesTyped
<1>3. /\ relay'[r].at = "starting" /\ relay'[r].alive = relay[r].alive
      /\ \A q \in Relays \ {r} : relay'[q] = relay[q]
  BY <1>1 DEF Becomes, PlacesInv, PlacesTyped, RelayRecord
<1>4. UNCHANGED <<tracker, marker, drained>>
  BY DEF tenancyVars
<1>5. b \notin {c \in Brokers : broker[c] \in Published}
  BY <1>1 DEF Published
<1>6. Receipts'
  BY <1>1, <1>2, <1>4, <1>5
  DEF CallsInv, Receipts, PlacesInv, ReceiptNamesBroker, Leases!Requested
<1>7. ASSUME NEW q \in Relays PROVE Registered(q)' /\ Ready(q)' /\ Requests(q)' /\ Calls(q)'
  <2>1. CASE q = r
    BY <1>3, <2>1 DEF CallsInv, Registered, Ready, At, Requests, Calls
  <2>2. CASE q # r
    <3>1. relay'[q] = relay[q]
      BY <1>3, <2>2
    <3>2. Registered(q)' /\ Ready(q)'
      BY <3>1 DEF CallsInv, Registered, Ready, At
    <3>3. relay[q].at \in {"sent", "queued", "calling"} =>
             broker[relay[q].to] \in Published /\ broker'[relay[q].to] = broker[relay[q].to]
      BY <1>2, <1>5 DEF CallsInv, Requests, PlacesInv, RequestNamesBroker
    <3>4. Requests(q)' /\ Calls(q)'
      BY <1>4, <3>1, <3>3 DEF CallsInv, Requests, Calls, Runs, Leases!Requested
    <3> QED
      BY <3>2, <3>4
  <2> QED
    BY <2>1, <2>2
<1>8. ASSUME NEW p \in Relays, NEW q \in Relays, p # q PROVE OneCall(p, q)'
  <2>1. \A s \in Relays : relay'[s].at = "calling" => relay'[s] = relay[s]
    BY <1>3
  <2>2. ASSUME relay[p].at = "calling" PROVE broker'[relay[p].to] = broker[relay[p].to]
    BY <1>2, <1>5, <2>2 DEF CallsInv, Requests, PlacesInv, RequestNamesBroker
  <2> QED
    BY <1>8, <2>1, <2>2 DEF CallsInv, OneCall, Runs
<1> QED
  BY <1>6, <1>7, <1>8 DEF CallsInv

\* The receipt of a dead broker is archived: nobody serves.
LEMMA ArchiveCalls ==
    ASSUME PlacesInv, CallsInv, NEW r \in Relays, At(r, {"registered", "waiting"}), Archive(r),
           UNCHANGED <<client, tenancyVars>>
    PROVE  CallsInv'
<1>1. /\ relay'[r].at = "clearing" /\ relay'[r].alive = relay[r].alive
      /\ \A q \in Relays \ {r} : relay'[q] = relay[q]
  BY DEF Archive, Goes, Becomes, PlacesInv, PlacesTyped, RelayRecord
<1>2. ~AliveBroker(receipt.broker) /\ receipt' = NoReceipt /\ broker' = broker
  BY DEF Archive
<1>3. UNCHANGED <<tracker, marker, drained>>
  BY DEF tenancyVars
<1>4. Receipts'
  BY <1>2 DEF CallsInv, Receipts, AliveBroker, NoReceipt
<1>5. ASSUME NEW q \in Relays PROVE Registered(q)' /\ Ready(q)' /\ Requests(q)' /\ Calls(q)'
  <2>1. CASE q = r
    BY <1>1, <2>1 DEF CallsInv, Registered, Ready, At, Requests, Calls
  <2>2. CASE q # r
    BY <1>1, <1>2, <1>3, <2>2
    DEF CallsInv, Registered, Ready, At, Requests, Calls, Runs, Leases!Requested, NoReceipt
  <2> QED
    BY <2>1, <2>2
<1>6. ASSUME NEW p \in Relays, NEW q \in Relays, p # q PROVE OneCall(p, q)'
  BY <1>1, <1>2, <1>6 DEF CallsInv, OneCall, Runs
<1> QED
  BY <1>4, <1>5, <1>6 DEF CallsInv

LEMMA RelayStepCalls ==
    ASSUME PlacesInv, CallsInv, NEW r \in Relays, RelayStep(r) PROVE CallsInv'
<1>0. /\ relay[r] \in RelayRecord
      /\ Registered(r) /\ Ready(r) /\ Requests(r) /\ Calls(r)
  BY DEF PlacesInv, PlacesTyped, CallsInv
<1>1. CASE Register(r)
  BY <1>1, RelayGoes DEF Register, RelayPlaces
<1>2. CASE Look(r) \/ WaitEnds(r) \/ ClearSocket(r)
  <2>0. /\ r \in client /\ At(r, {"registered", "waiting", "clearing"})
        /\ UNCHANGED <<client, tenancyVars>>
    BY <1>0, <1>2 DEF Look, WaitEnds, ClearSocket, At, Registered
  <2>1. CASE Spawn(r) /\ receipt' = receipt
    BY <2>0, <2>1, SpawnCases, SpawnCalls, RelayLeaves DEF At, GivesUp
  <2>2. CASE Archive(r) /\ At(r, {"registered", "waiting"})
    BY <2>0, <2>2, ArchiveCalls
  <2>3. CASE Goes(r, "waiting") /\ UNCHANGED <<broker, receipt>>
    BY <2>0, <2>3, RelayGoes DEF RelayPlaces
  <2>4. CASE receipt.state = "ready" /\ Goes(r, "bound") /\ UNCHANGED <<broker, receipt>>
    BY <2>0, <2>4, RelayGoes DEF RelayPlaces
  <2>5. CASE Becomes(r, Closing) /\ UNCHANGED <<broker, receipt>>
    BY <2>0, <2>5, RelayLeaves
  <2> QED
    BY <1>2, <2>1, <2>2, <2>3, <2>4, <2>5 DEF Look, WaitEnds, ClearSocket, GivesUp, At
<1>3. CASE StartOk(r)
  <2> DEFINE record == [relay[r] EXCEPT !.at = "bound", !.to = None]
  <2>1. record.at = "bound" /\ record.alive = relay[r].alive
    BY <1>0 DEF RelayRecord
  <2>2. Becomes(r, record)
    BY <1>3 DEF StartOk
  <2> HIDE DEF record
  <2>3. Fits(r, record)
    BY <1>0, <1>3, <2>1 DEF StartOk, Fits, Registered, At
  <2> QED
    BY <1>3, <2>2, <2>3, RelayMoves DEF StartOk, tenancyVars
<1>4. CASE StartFails(r)
  BY <1>0, <1>4, RelayLeaves DEF StartFails, GivesUp, Registered, At
<1>5. CASE RetireClient(r)
  <2>1. CASE Becomes(r, Gone)
    BY <1>5, <2>1, RelayLeaves DEF RetireClient
  <2>2. CASE Becomes(r, [relay[r] EXCEPT !.alive = FALSE, !.left = FALSE])
    <3> DEFINE record == [relay[r] EXCEPT !.alive = FALSE, !.left = FALSE]
    <3>1. record.at = relay[r].at /\ record.to = relay[r].to /\ ~record.alive
      BY <1>0 DEF RelayRecord
    <3>2. Becomes(r, record)
      BY <2>2
    <3> HIDE DEF record
    <3> QED
      BY <1>5, <3>1, <3>2, StaysFits, RelayMoves DEF RetireClient, tenancyVars
  <2> QED
    BY <1>5, <2>1, <2>2 DEF RetireClient
<1>6. CASE Renew(r)
  <2>1. At(r, {"bound"}) /\ UNCHANGED <<client, broker, receipt, tenancyVars>>
    BY <1>6 DEF Renew
  <2> QED
    BY <1>0, <1>6, <2>1, RelayGoes DEF Renew, Registered, Ready, At, RelayPlaces
<1>7. CASE Send(r)
  <2>0. r \in client /\ UNCHANGED <<client, broker, receipt, tenancyVars>>
    BY <1>0, <1>7 DEF Send, Registered, At
  <2>1. CASE /\ receipt.state = "ready" /\ Listening(receipt.broker)
             /\ Becomes(r, [relay[r] EXCEPT !.at = "sent", !.to = receipt.broker])
    <3> DEFINE record == [relay[r] EXCEPT !.at = "sent", !.to = receipt.broker]
    <3>1. record.at = "sent" /\ record.to = receipt.broker
      BY <1>0 DEF RelayRecord
    <3>2. Becomes(r, record)
      BY <2>1
    <3> HIDE DEF record
    <3>3. Fits(r, record)
      BY <2>0, <2>1, <3>1 DEF Fits, CallsInv, Receipts
    <3> QED
      BY <2>0, <3>2, <3>3, RelayMoves DEF tenancyVars
  <2>2. CASE Becomes(r, Closing)
    BY <2>0, <2>2, RelayLeaves
  <2> QED
    BY <1>7, <2>1, <2>2 DEF Send
<1>8. CASE Hangup(r)
  BY <1>0, <1>8, RelayLeaves DEF Hangup, Registered, At
<1>9. CASE LoseAnswer(r)
  <2>1. relay[r].alive => r \in client
    BY <1>0, <1>9 DEF LoseAnswer, Registered
  <2> QED
    BY <1>9, <2>1, RelayLeaves DEF LoseAnswer, After
<1>10. CASE TimeOut(r)
  <2> DEFINE record == [relay[r] EXCEPT !.left = TRUE]
  <2>1. record.at = relay[r].at /\ record.to = relay[r].to /\ record.alive = relay[r].alive
    BY <1>0 DEF RelayRecord
  <2>2. Becomes(r, record)
    BY <1>10 DEF TimeOut
  <2> HIDE DEF record
  <2> QED
    BY <1>10, <2>1, <2>2, StaysFits, RelayMoves DEF TimeOut, tenancyVars
<1>11. CASE RelayDies(r)
  <2>1. CASE Becomes(r, Gone)
    BY <1>11, <2>1, RelayLeaves DEF RelayDies
  <2>2. CASE Becomes(r, [relay[r] EXCEPT !.alive = FALSE, !.left = FALSE])
    <3> DEFINE record == [relay[r] EXCEPT !.alive = FALSE, !.left = FALSE]
    <3>1. record.at = relay[r].at /\ record.to = relay[r].to /\ ~record.alive
      BY <1>0 DEF RelayRecord
    <3>2. Becomes(r, record)
      BY <2>2
    <3> HIDE DEF record
    <3> QED
      BY <1>11, <3>1, <3>2, StaysFits, RelayMoves DEF RelayDies, tenancyVars
  <2> QED
    BY <1>11, <2>1, <2>2 DEF RelayDies
<1> QED
  BY <1>1, <1>2, <1>3, <1>4, <1>5, <1>6, <1>7, <1>8, <1>9, <1>10, <1>11 DEF RelayStep

(***************************************************************************)
(* Requests.  A broker that stops because it was asked to is still asked   *)
(* when the next call would start.                                         *)
(***************************************************************************)
Types == PlacesInv /\ Leases!TenancyTypeOK

LEMMA AuthorizeCalls ==
    ASSUME PlacesInv, CallsInv, NEW r \in Relays, Authorize(r) PROVE CallsInv'
<1>1. UNCHANGED <<client, broker, receipt, tenancyVars>> /\ relay[r].at = "sent"
  BY DEF Authorize
<1>2. /\ relay[r] \in RelayRecord
      /\ Registered(r) /\ Ready(r) /\ Requests(r)
  BY DEF PlacesInv, PlacesTyped, CallsInv
<1>3. CASE Goes(r, "queued")
  <2> DEFINE record == [relay[r] EXCEPT !.at = "queued"]
  <2>1. Becomes(r, record)
    BY <1>3 DEF Goes
  <2>2. record.at = "queued" /\ record.alive = relay[r].alive /\ record.to = relay[r].to
    BY <1>2 DEF RelayRecord
  <2> HIDE DEF record
  <2>3. Fits(r, record)
    BY <1>1, <1>2, <2>2 DEF Fits, Registered, Ready, Requests, At
  <2> QED
    BY <1>1, <2>1, <2>3, RelayMoves DEF tenancyVars
<1>4. CASE Becomes(r, After(r, Closing))
  BY <1>1, <1>2, <1>4, RelayLeaves DEF After, Registered
<1> QED
  BY <1>3, <1>4 DEF Authorize

\* The answer is there: the relay is bound again, or leaves, or is gone.
LEMMA AnswerFits ==
    ASSUME PlacesInv, CallsInv, NEW r \in Relays, relay[r].at \in {"queued", "calling"},
           Answered(r), client' = client
    PROVE  \E record : /\ Becomes(r, record) /\ Fits(r, record)
                       /\ record.at \in {"bound", "closing", "gone"}
<1>1. relay[r] \in RelayRecord /\ Registered(r) /\ Ready(r) /\ relay[r].to \in Brokers
  BY DEF PlacesInv, PlacesTyped, CallsInv, RequestNamesBroker
<1> DEFINE record == After(r, Bound(r))
<1>2. Becomes(r, record)
  BY DEF Answered, Bound
<1>3. Fits(r, record) /\ record.at \in {"bound", "closing", "gone"}
  <2>1. CASE ~relay[r].alive \/ relay[r].left
    BY <1>1, <2>1, Leaving, LeavingFits DEF After, Registered
  <2>2. CASE relay[r].alive /\ ~relay[r].left
    <3>1. record = Bound(r)
      BY <2>2 DEF After
    <3>2. r \in client' /\ receipt.state # "draining"
      BY <1>1, <2>2 DEF Registered, Ready, At
    <3>3. Bound(r).at = "bound"
      BY <1>1, BoundTyped
    <3> HIDE DEF record
    <3> QED
      BY <3>1, <3>2, <3>3 DEF Fits
  <2> QED
    BY <2>1, <2>2
<1> HIDE DEF record
<1> QED
  BY <1>2, <1>3

LEMMA RefuseCalls ==
    ASSUME Types, CallsInv, NEW r \in Relays, relay[r].at = "queued", Answered(r),
           Leases!RefuseCall(relay[r].to), UNCHANGED <<client, broker, receipt>>
    PROVE  CallsInv'
<1>1. PICK record : Becomes(r, record) /\ Fits(r, record)
  BY AnswerFits DEF Types
<1>2. relay[r].to \in Brokers
  BY DEF Types, PlacesInv, RequestNamesBroker
<1>3. tracker' = tracker
  BY <1>2 DEF Leases!RefuseCall, Leases!Persist, Types, Leases!TenancyTypeOK
<1>4. UNCHANGED <<marker, drained>>
  BY DEF Leases!RefuseCall, Leases!operatorVars
<1> QED
  BY <1>1, <1>3, <1>4, RelayMoves DEF Types

LEMMA BeginCalls ==
    ASSUME Types, CallsInv, NEW r \in Relays, Begin(r), Leases!StartCall(relay[r].to),
           Goes(r, "calling")
    PROVE  CallsInv'
<1> DEFINE b == relay[r].to
<1>1. /\ relay[r].at = "queued" /\ Runs(b) /\ tracker[b].active = 0
      /\ UNCHANGED <<client, broker, receipt>>
  BY DEF Begin, Runs
<1>2. b \in Brokers
  BY <1>1 DEF Types, PlacesInv, RequestNamesBroker
<1>3. tracker[b] \in Leases!LeaseRecord
  BY <1>2 DEF Types, Leases!TenancyTypeOK
<1>4. ~Leases!Requested(b) /\ UNCHANGED <<marker, drained>>
  BY DEF Leases!StartCall, Leases!operatorVars
<1>5. /\ tracker'[b].active > 0
      /\ \A c \in Brokers \ {b} : tracker'[c] = tracker[c]
  <2> DEFINE t == [tracker[b] EXCEPT !.active = @ + 1, !.calls = @ + 1]
  <2>1. tracker' = [tracker EXCEPT ![b] = t]
    BY DEF Leases!StartCall, Leases!Persist
  <2>2. t.active = tracker[b].active + 1
    BY <1>3 DEF Leases!LeaseRecord
  <2> HIDE DEF t, b
  <2> QED
    BY <1>1, <1>2, <2>1, <2>2 DEF Types, Leases!TenancyTypeOK
<1>6. /\ relay'[r].at = "calling" /\ relay'[r].to = b /\ relay'[r].alive = relay[r].alive
      /\ \A q \in Relays \ {r} : relay'[q] = relay[q]
  BY DEF Goes, Becomes, Types, PlacesInv, PlacesTyped, RelayRecord
<1>7. Registered(r) /\ Ready(r) /\ Requests(r)
  BY DEF CallsInv
<1> HIDE DEF b
<1>8. \A q \in Relays : relay[q].at = "calling" => relay[q].to # b
  BY <1>1, <1>2 DEF CallsInv, Calls
<1>9. Receipts'
  BY <1>1, <1>4 DEF CallsInv, Receipts, Leases!Requested
<1>10. ASSUME NEW q \in Relays PROVE Registered(q)' /\ Ready(q)' /\ Requests(q)' /\ Calls(q)'
  <2>1. CASE q = r
    <3>1. Registered(r)' /\ Ready(r)'
      BY <1>1, <1>6, <1>7 DEF Registered, Ready, At
    <3>2. broker[b] \in Published /\ (relay[r].alive => broker[b] # "exiting")
      BY <1>1, <1>4, <1>7 DEF Requests, b
    <3>3. Requests(r)' /\ Calls(r)'
      BY <1>1, <1>5, <1>6, <3>2 DEF Requests, Calls, Runs
    <3> QED
      BY <2>1, <3>1, <3>3
  <2>2. CASE q # r
    <3>1. relay'[q] = relay[q]
      BY <1>6, <2>2
    <3>2. relay[q].at = "calling" => relay[q].to \in Brokers \ {b}
      BY <1>8 DEF Types, PlacesInv, RequestNamesBroker
    <3>3. Registered(q)' /\ Ready(q)' /\ Requests(q)'
      BY <1>1, <1>4, <3>1 DEF CallsInv, Registered, Ready, At, Requests, Leases!Requested
    <3>4. Calls(q)'
      BY <1>1, <1>5, <3>1, <3>2 DEF CallsInv, Calls, Runs
    <3> QED
      BY <3>3, <3>4
  <2> QED
    BY <2>1, <2>2
<1>11. ASSUME NEW p \in Relays, NEW q \in Relays, p # q PROVE OneCall(p, q)'
  BY <1>1, <1>6, <1>8, <1>11 DEF CallsInv, OneCall, Runs
<1> QED
  BY <1>9, <1>10, <1>11 DEF CallsInv

LEMMA FinishCalls ==
    ASSUME Types, CallsInv, NEW r \in Relays, Finish(r) PROVE CallsInv'
<1> DEFINE b == relay[r].to
<1>1. /\ relay[r].at = "calling" /\ Runs(b) /\ UNCHANGED <<client, broker, receipt>>
  BY DEF Finish, Runs
<1>2. PICK record : /\ Becomes(r, record) /\ Fits(r, record)
                    /\ record.at \in {"bound", "closing", "gone"}
  BY <1>1, AnswerFits DEF Finish, Types
<1>3. b \in Brokers /\ UNCHANGED <<marker, drained>>
  BY <1>1 DEF Types, PlacesInv, RequestNamesBroker, Finish, Leases!EndCall, Leases!operatorVars
<1>4. \A c \in Brokers \ {b} : tracker'[c] = tracker[c]
  BY DEF Finish, Leases!EndCall, Leases!Persist, Types, Leases!TenancyTypeOK
<1> HIDE DEF b
<1>5. relay'[r] = record /\ \A q \in Relays \ {r} : relay'[q] = relay[q]
  BY <1>2 DEF Becomes, Types, PlacesInv, PlacesTyped
<1>6. Receipts'
  BY <1>1, <1>3 DEF CallsInv, Receipts, Leases!Requested
<1>7. ASSUME NEW q \in Relays PROVE Registered(q)' /\ Ready(q)' /\ Requests(q)' /\ Calls(q)'
  <2>1. CASE q = r
    BY <1>1, <1>2, <1>5, <2>1 DEF Fits, Registered, Ready, At, Requests, Calls
  <2>2. CASE q # r
    <3>1. relay'[q] = relay[q]
      BY <1>5, <2>2
    <3>2. relay[q].at = "calling" => relay[q].to \in Brokers \ {b}
      BY <1>1, <2>2 DEF CallsInv, OneCall, Types, PlacesInv, RequestNamesBroker, b
    <3>3. Registered(q)' /\ Ready(q)' /\ Requests(q)'
      BY <1>1, <1>3, <3>1 DEF CallsInv, Registered, Ready, At, Requests, Leases!Requested
    <3>4. Calls(q)'
      BY <1>1, <1>4, <3>1, <3>2 DEF CallsInv, Calls, Runs
    <3> QED
      BY <3>3, <3>4
  <2> QED
    BY <2>1, <2>2
<1>8. ASSUME NEW p \in Relays, NEW q \in Relays, p # q PROVE OneCall(p, q)'
  BY <1>1, <1>2, <1>5, <1>8 DEF CallsInv, OneCall, Runs
<1> QED
  BY <1>6, <1>7, <1>8 DEF CallsInv

LEMMA RequestCalls ==
    ASSUME Types, CallsInv, NEW r \in Relays, Request(r) PROVE CallsInv'
<1>1. CASE Authorize(r)
  BY <1>1, AuthorizeCalls DEF Types
<1>2. CASE Begin(r)
  BY <1>2, BeginCalls, RefuseCalls DEF Begin
<1>3. CASE Finish(r)
  BY <1>3, FinishCalls
<1> QED
  BY <1>1, <1>2, <1>3 DEF Request

(***************************************************************************)
(* A broker moves.                                                         *)
(***************************************************************************)
\* Not into service, out of it only to die, and to a stop only when nobody
\* can have heard of it.
LEMMA BrokerPasses ==
    ASSUME Types, CallsInv, NEW b \in Brokers, NEW place, BrokerGoes(b, place),
           AliveBroker(b), place # "serving", broker[b] = "serving" => place = "dead",
           broker[b] \in Published => place \in Published \ {"exiting"},
           receipt' = receipt \/ (receipt.broker = b /\ receipt' = NoReceipt),
           \A c \in Brokers \ {b} : tracker'[c] = tracker[c] /\ (c \in marker => c \in marker'),
           drained' = drained, UNCHANGED <<relay, client>>
    PROVE  CallsInv'
<1>1. broker'[b] = place /\ \A c \in Brokers \ {b} : broker'[c] = broker[c]
  BY DEF BrokerGoes, Types, PlacesInv, PlacesTyped
<1>2. receipt'.state # "none" => receipt' = receipt /\ receipt.broker \in Brokers
  BY DEF NoReceipt, Types, PlacesInv, ReceiptNamesBroker
<1>3. \A c \in Brokers : broker[c] \in Published => broker'[c] \in Published
  BY <1>1
<1>4. \A c \in Brokers : broker'[c] = "serving" => c # b /\ broker[c] = "serving"
  BY <1>1
<1>5. ASSUME NEW c \in Brokers, broker[c] \in Published, broker'[c] = "exiting"
      PROVE  c # b /\ broker[c] = "exiting" /\ (Leases!Requested(c) => c \in marker' \/ drained')
  BY <1>1, <1>5 DEF Leases!Requested
<1>6. Receipts'
  <2>1. \A c \in Brokers : broker'[c] = "serving" => receipt' = [broker |-> c, state |-> "ready"]
    BY <1>4 DEF CallsInv, Receipts
  <2>2. receipt'.state # "none" => broker'[receipt'.broker] \in Published
    BY <1>2, <1>3 DEF CallsInv, Receipts
  <2>3. ASSUME receipt'.state = "ready", broker'[receipt'.broker] = "exiting"
        PROVE  receipt'.broker \in marker' \/ drained'
    <3>1. receipt' = receipt /\ receipt.broker \in Brokers
      BY <1>2, <2>3
    <3>2. broker[receipt.broker] \in Published
      BY <2>3, <3>1 DEF CallsInv, Receipts
    <3>3. receipt.broker # b /\ Leases!Requested(receipt.broker)
      BY <1>5, <2>3, <3>1, <3>2 DEF CallsInv, Receipts
    <3> QED
      BY <1>5, <2>3, <3>1, <3>2, <3>3
  <2> QED
    BY <2>1, <2>2, <2>3 DEF Receipts, Leases!Requested
<1>7. ASSUME NEW q \in Relays PROVE Registered(q)' /\ Ready(q)' /\ Requests(q)' /\ Calls(q)'
  <2>1. Registered(q)' /\ Ready(q)'
    BY <1>2 DEF CallsInv, Registered, Ready, At
  <2>2. relay[q].at \in {"sent", "queued", "calling"} =>
           relay[q].to \in Brokers /\ broker[relay[q].to] \in Published
    BY DEF CallsInv, Requests, Types, PlacesInv, RequestNamesBroker
  <2>3. Requests(q)'
    <3> SUFFICES ASSUME relay[q].at \in {"sent", "queued", "calling"}
                 PROVE  /\ broker'[relay[q].to] \in Published
                        /\ relay[q].alive /\ broker'[relay[q].to] = "exiting" =>
                              relay[q].to \in marker' \/ drained'
      BY DEF Requests, Leases!Requested
    <3>1. broker'[relay[q].to] \in Published
      BY <1>3, <2>2
    <3>2. ASSUME relay[q].alive, broker'[relay[q].to] = "exiting"
          PROVE  relay[q].to \in marker' \/ drained'
      <4>1. broker[relay[q].to] = "exiting" => Leases!Requested(relay[q].to)
        BY <3>2 DEF CallsInv, Requests
      <4> QED
        BY <1>5, <2>2, <3>2, <4>1
    <3> QED
      BY <3>1, <3>2
  <2>4. Calls(q)'
    <3> SUFFICES ASSUME relay[q].at = "calling"
                 PROVE  /\ Runs(relay[q].to)' => tracker'[relay[q].to].active > 0
                        /\ relay[q].alive => broker'[relay[q].to] \in {"serving", "dead"}
      BY DEF Calls, Runs
    <3>1. Runs(relay[q].to)' => relay[q].to # b /\ Runs(relay[q].to)
      BY <1>4, <1>5, <2>2 DEF Runs
    <3>2. relay[q].to # b => tracker'[relay[q].to] = tracker[relay[q].to]
      BY <2>2
    <3>3. relay[q].alive => broker'[relay[q].to] \in {"serving", "dead"}
      BY <1>1, <2>2 DEF CallsInv, Calls, AliveBroker
    <3> QED
      BY <3>1, <3>2, <3>3 DEF CallsInv, Calls
  <2> QED
    BY <2>1, <2>3, <2>4
<1>8. ASSUME NEW p \in Relays, NEW q \in Relays, p # q PROVE OneCall(p, q)'
  <2>1. ASSUME relay[p].at = "calling", Runs(relay[p].to)' PROVE Runs(relay[p].to)
    BY <1>4, <1>5, <2>1 DEF CallsInv, Requests, Types, PlacesInv, RequestNamesBroker, Runs
  <2> QED
    BY <1>8, <2>1 DEF CallsInv, OneCall, Runs
<1> QED
  BY <1>6, <1>7, <1>8 DEF CallsInv

LEMMA PassingSteps ==
    ASSUME Types, CallsInv, NEW b \in Brokers,
           \/ TakeRunLock(b) \/ OpenLease(b) \/ Bind(b) \/ StartTimeout(b)
           \/ StopListening(b) \/ CloseLease(b) \/ UnlinkSocket(b) \/ ArchiveReceipt(b)
           \/ Exit(b) \/ BrokerDies(b)
           \/ Publish(b) /\ BrokerGoes(b, "exiting")
    PROVE  CallsInv'
<1>1. broker = [broker EXCEPT ![b] = broker[b]]
  BY DEF Types, PlacesInv, PlacesTyped
<1>2. AliveBroker(b) /\ UNCHANGED <<relay, client>>
  BY DEF TakeRunLock, OpenLease, Bind, StartTimeout, StopListening, CloseLease, UnlinkSocket,
         ArchiveReceipt, Exit, BrokerDies, Die, Publish, AliveBroker
<1>3. receipt' = receipt \/ (receipt.broker = b /\ receipt' = NoReceipt)
  BY DEF TakeRunLock, OpenLease, Bind, StartTimeout, StopListening, CloseLease, UnlinkSocket,
         ArchiveReceipt, Exit, BrokerDies, Die, Publish, BrokerGoes, Types, PlacesInv, PlacesTyped
<1>4. ASSUME UNCHANGED tenancyVars
      PROVE  /\ \A c \in Brokers \ {b} : tracker'[c] = tracker[c] /\ (c \in marker => c \in marker')
             /\ drained' = drained
  BY <1>4 DEF tenancyVars
<1>5. /\ \A c \in Brokers \ {b} : tracker'[c] = tracker[c] /\ (c \in marker => c \in marker')
      /\ drained' = drained
  <2>1. CASE Leases!Forget(b) \/ Leases!Start(b) \/ Leases!EndCall(b) \/ Leases!CloseHistory(b)
             \/ Leases!CloseLease(b) \/ Leases!CloseMarker(b)
    BY <2>1 DEF Leases!Forget, Leases!Start, Leases!EndCall, Leases!CloseHistory,
           Leases!CloseLease, Leases!CloseMarker, Leases!Persist, Leases!operatorVars, Types,
           Leases!TenancyTypeOK
  <2> QED
    BY <1>4, <2>1 DEF TakeRunLock, OpenLease, Bind, StartTimeout, StopListening, CloseLease,
           UnlinkSocket, ArchiveReceipt, Exit, BrokerDies, Die, Publish
<1>6. \E place : /\ BrokerGoes(b, place)
                 /\ place # "serving" /\ (broker[b] = "serving" => place = "dead")
                 /\ broker[b] \in Published => place \in Published \ {"exiting"}
  BY <1>1 DEF TakeRunLock, OpenLease, Bind, StartTimeout, StopListening, CloseLease, UnlinkSocket,
         ArchiveReceipt, Exit, BrokerDies, Die, Publish, BrokerGoes, Published
<1> QED
  BY <1>2, <1>3, <1>5, <1>6, BrokerPasses

\* A receipt is published beside no other one, and nobody has heard of b.
LEMMA PublishCalls ==
    ASSUME Types, CallsInv, NEW b \in Brokers, Publish(b), BrokerGoes(b, "serving"),
           receipt = NoReceipt, receipt' = [broker |-> b, state |-> "ready"]
    PROVE  CallsInv'
<1>1. /\ broker[b] = "bound" /\ UNCHANGED <<relay, client, tracker, marker, drained>>
  BY DEF Publish, tenancyVars
<1>2. broker'[b] = "serving" /\ \A c \in Brokers \ {b} : broker'[c] = broker[c]
  BY DEF BrokerGoes, Types, PlacesInv, PlacesTyped
<1>3. \A c \in Brokers : broker[c] # "serving"
  BY DEF CallsInv, Receipts, NoReceipt
<1>4. Receipts'
  BY <1>2, <1>3 DEF Receipts, Published
<1>5. ASSUME NEW q \in Relays
      PROVE  relay[q].at \in {"sent", "queued", "calling"} =>
                 broker[relay[q].to] \in Published /\ broker'[relay[q].to] = broker[relay[q].to]
  BY <1>1, <1>2 DEF CallsInv, Requests, Types, PlacesInv, RequestNamesBroker, Published
<1>6. ASSUME NEW q \in Relays PROVE Registered(q)' /\ Ready(q)' /\ Requests(q)' /\ Calls(q)'
  <2>1. Registered(q)' /\ Ready(q)'
    BY <1>1 DEF CallsInv, Registered, Ready, At
  <2>2. Requests(q)' /\ Calls(q)'
    BY <1>1, <1>5 DEF CallsInv, Requests, Calls, Runs, Leases!Requested
  <2> QED
    BY <2>1, <2>2
<1>7. ASSUME NEW p \in Relays, NEW q \in Relays, p # q PROVE OneCall(p, q)'
  BY <1>1, <1>5, <1>7 DEF CallsInv, OneCall, Runs
<1> QED
  BY <1>4, <1>6, <1>7 DEF CallsInv

\* Broker b stops to serve, and its receipt may say so.
LEMMA StopCalls ==
    ASSUME Types, CallsInv, NEW b \in Brokers, broker[b] = "serving", BrokerGoes(b, "exiting"),
           UNCHANGED <<relay, marker, drained>>, client' = LiveClients \/ client' = client,
           \A c \in Brokers : tracker'[c].active = tracker[c].active,
           \/ receipt' = receipt /\ Leases!Requested(b)
           \/ receipt' = [broker |-> b, state |-> "draining"] /\ LiveClients = {},
           LiveClients = {} \/ (Leases!Requested(b) /\ tracker[b].active = 0)
    PROVE  CallsInv'
<1>1. broker'[b] = "exiting" /\ \A c \in Brokers \ {b} : broker'[c] = broker[c]
  BY DEF BrokerGoes, Types, PlacesInv, PlacesTyped
<1>2. receipt = [broker |-> b, state |-> "ready"]
  BY DEF CallsInv, Receipts
<1>3. \A c \in Brokers \ {b} : broker[c] # "serving"
  BY <1>2 DEF CallsInv, Receipts
<1>4. Receipts'
  BY <1>1, <1>2, <1>3 DEF Receipts, Published, Leases!Requested
<1>5. ASSUME NEW q \in Relays PROVE Registered(q)' /\ Ready(q)'
  <2>1. Registered(q)'
    BY DEF CallsInv, Registered, LiveClients
  <2>2. At(q, {"bound", "renewed", "sent", "queued", "calling"}) => q \in LiveClients
    BY DEF CallsInv, Registered, At, LiveClients
  <2>3. Ready(q)'
    BY <1>2, <2>2 DEF Ready, At
  <2> QED
    BY <2>1, <2>3
<1>6. ASSUME NEW q \in Relays, relay[q].at \in {"sent", "queued", "calling"}
      PROVE  /\ relay[q].to \in Brokers /\ broker[relay[q].to] \in Published
             /\ broker'[relay[q].to] \in Published
             /\ Runs(relay[q].to)' => Runs(relay[q].to)
             /\ relay[q].alive => q \in LiveClients
  BY <1>1, <1>6
  DEF CallsInv, Requests, Types, PlacesInv, RequestNamesBroker, Published, Runs, Registered,
      LiveClients
<1>7. ASSUME NEW q \in Relays PROVE Requests(q)'
  <2> SUFFICES ASSUME relay[q].at \in {"sent", "queued", "calling"}, relay[q].alive,
                      broker'[relay[q].to] = "exiting"
               PROVE  Leases!Requested(relay[q].to)
    BY <1>6 DEF Requests, Leases!Requested
  <2>1. CASE relay[q].to = b
    BY <1>6, <2>1
  <2>2. CASE relay[q].to # b
    BY <1>1, <1>6, <2>2 DEF CallsInv, Requests
  <2> QED
    BY <2>1, <2>2
<1>8. ASSUME NEW q \in Relays PROVE Calls(q)'
  <2> SUFFICES ASSUME relay[q].at = "calling"
               PROVE  /\ Runs(relay[q].to)' => tracker'[relay[q].to].active > 0
                      /\ relay[q].alive => broker'[relay[q].to] \in {"serving", "dead"}
    BY DEF Calls, Runs
  <2>1. Runs(relay[q].to)' => tracker'[relay[q].to].active > 0
    BY <1>6 DEF CallsInv, Calls
  <2>2. relay[q].alive => relay[q].to # b
    BY <1>6 DEF CallsInv, Calls, Runs
  <2>3. relay[q].alive => broker'[relay[q].to] \in {"serving", "dead"}
    BY <1>1, <1>6, <2>2 DEF CallsInv, Calls
  <2> QED
    BY <2>1, <2>3
<1>9. ASSUME NEW p \in Relays, NEW q \in Relays, p # q PROVE OneCall(p, q)'
  BY <1>6, <1>9 DEF CallsInv, OneCall, Runs
<1> QED
  BY <1>4, <1>5, <1>7, <1>8, <1>9 DEF CallsInv

\* No process moves, and no live lease is lost.
LEMMA StillCalls ==
    ASSUME CallsInv, UNCHANGED <<relay, broker, receipt, marker>>,
           drained => drained', client' = LiveClients \/ client' = client,
           \A c \in Brokers : tracker'[c].active = tracker[c].active, Types
    PROVE  CallsInv'
<1>1. Receipts'
  BY DEF CallsInv, Receipts, Leases!Requested
<1>2. ASSUME NEW q \in Relays PROVE Registered(q)' /\ Ready(q)' /\ Requests(q)' /\ Calls(q)'
  <2>1. Registered(q)' /\ Ready(q)'
    BY DEF CallsInv, Registered, LiveClients, Ready, At
  <2>2. Requests(q)'
    BY DEF CallsInv, Requests, Leases!Requested
  <2>3. Calls(q)'
    BY DEF CallsInv, Calls, Runs, Types, PlacesInv, RequestNamesBroker
  <2> QED
    BY <2>1, <2>2, <2>3
<1>3. ASSUME NEW p \in Relays, NEW q \in Relays, p # q PROVE OneCall(p, q)'
  BY <1>3 DEF CallsInv, OneCall, Runs
<1> QED
  BY <1>1, <1>2, <1>3 DEF CallsInv

LEMMA PollCalls ==
    ASSUME Types, CallsInv, NEW b \in Brokers, PollRetirement(b) PROVE CallsInv'
<1>1. PICK ready \in BOOLEAN :
         /\ broker' = IF ready THEN [broker EXCEPT ![b] = "exiting"] ELSE broker
         /\ Leases!Poll(b, ready)
  BY DEF PollRetirement
<1>2. /\ Leases!Requested(b) /\ ready = (tracker[b].active = 0)
      /\ UNCHANGED <<marker, drained>>
  BY <1>1 DEF Leases!Poll, Leases!operatorVars
<1>3. tracker' = tracker
  BY <1>1 DEF Leases!Poll, Leases!Persist, Types, Leases!TenancyTypeOK
<1>4. broker[b] = "serving" /\ UNCHANGED <<relay, client, receipt>>
  BY DEF PollRetirement
<1>5. CASE ready
  BY <1>1, <1>2, <1>3, <1>4, <1>5, StopCalls DEF BrokerGoes
<1>6. CASE ~ready
  BY <1>1, <1>2, <1>3, <1>4, <1>6, StillCalls
<1> QED
  BY <1>5, <1>6

LEMMA BrokerStepCalls ==
    ASSUME Types, CallsInv, NEW b \in Brokers, BrokerStep(b) \/ BrokerDies(b) PROVE CallsInv'
<1>1. CASE Publish(b)
  BY <1>1, PublishCalls, PassingSteps DEF Publish
<1>2. CASE CountClients(b)
  BY <1>2, StillCalls DEF CountClients, tenancyVars
<1>3. CASE StopIdle(b)
  <2>1. /\ broker[b] = "serving" /\ client' = LiveClients
        /\ UNCHANGED <<relay, tracker, marker, drained>>
    BY <1>3 DEF StopIdle, tenancyVars
  <2>2. CASE LiveClients # {}
    BY <1>3, <2>1, <2>2, StillCalls DEF StopIdle
  <2>3. CASE LiveClients = {}
    <3>1. receipt = [broker |-> b, state |-> "ready"]
      BY <2>1 DEF CallsInv, Receipts
    <3>2. receipt' = [broker |-> b, state |-> "draining"] /\ BrokerGoes(b, "exiting")
      BY <1>3, <2>3, <3>1 DEF StopIdle
    <3> QED
      BY <2>1, <2>3, <3>2, StopCalls
  <2> QED
    BY <2>2, <2>3
<1>4. CASE PollRetirement(b)
  BY <1>4, PollCalls
<1> QED
  BY <1>1, <1>2, <1>3, <1>4, PassingSteps DEF BrokerStep

LEMMA NextCalls == ASSUME Types, CallsInv, [Next]_vars PROVE CallsInv'
<1>1. CASE GenerationSuperseded
  BY <1>1, StillCalls DEF GenerationSuperseded, Leases!Supersede
<1>2. CASE UNCHANGED vars
  BY <1>2, StillCalls DEF vars, tenancyVars
<1> QED
  BY <1>1, <1>2, RelayStepCalls, RequestCalls, BrokerStepCalls DEF Next, Types

\* A living relay is on file, its requests go to a broker that published its
\* receipt, and its running call is in that broker's count
\* (shared_runtime.py:968-1000, 1447-1475).
THEOREM CallsInvariant == Spec => []CallsInv
<1>1. Init => CallsInv
  BY InitCalls
<1>2. PlacesInv /\ TenancyInv /\ CallsInv /\ [Next]_vars => CallsInv'
  BY NextCalls DEF Types, TenancyInv
<1>3. Spec => []TenancyInv
  BY TenancyInvariant, SharedRuntimeImplements, PTL DEF ImplementsTenancy
<1> QED
  BY <1>1, <1>2, <1>3, PlacesInvariant, PTL DEF Spec

\* No broker announces an idle stop to a relay that lives and was told its
\* broker is ready (shared_runtime.py:1447-1475, 1681-1726).
THEOREM BoundRelaysAreServed == Spec => []BoundRelayKeepsItsBroker
<1>1. CallsInv => BoundRelayKeepsItsBroker
  BY DEF CallsInv, Registered, Ready, BoundRelayKeepsItsBroker, At
<1> QED
  BY <1>1, CallsInvariant, PTL

\* The broker's own stop cuts off no call of a living relay, whether the group
\* is idle or the lease is asked to retire (shared_runtime.py:1681-1735).
THEOREM CallsAreFinished == Spec => []NoCallIsCutOff
<1>1. CallsInv => NoCallIsCutOff
  BY DEF CallsInv, Calls, NoCallIsCutOff, At
<1> QED
  BY <1>1, CallsInvariant, PTL
=============================================================================

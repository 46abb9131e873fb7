-------------------------- MODULE ProviderDispatch --------------------------
(***************************************************************************)
(* From a provider command to fills: dispatchers lease the command that    *)
(* HumanGate creates, send it to the provider and complete it; the         *)
(* provider's events update command and lifecycle.                         *)
(*                                                                         *)
(* A lease that runs out hands the command to the next dispatcher, whether *)
(* the first one crashed or is only slow.  Claim and completion update the *)
(* command and then, in a statement of their own, the lifecycle.  Events   *)
(* come in any order and any number of times, also before the completion   *)
(* of the dispatch that caused them.                                       *)
(*                                                                         *)
(* The provider is external: it takes the first order it is sent for the   *)
(* command and reports cumulative quantities.                              *)
(***************************************************************************)
EXTENDS HumanGate

CONSTANTS
    Dispatchers,   \* adapter processes
    Quantity,      \* contracts of the intent
    MaxFaults      \* bound: crashes, and leases that run out under their holder

ASSUME DispatchAssumption ==
    /\ Quantity \in Nat \ {0}
    /\ MaxFaults \in Nat

VARIABLES
    token,       \* broker_provider_commands.lease_token; 0 is null
    leaseLive,   \* its lease_expires_at is still to come
    attempts,    \* its attempt_count
    dispatchers, \* what each dispatcher is doing, and with which token
    sent,        \* tokens under which an order reached the provider
    answered,    \* some completion or event has told the desk of the command
    order,       \* the order at the provider
    executed,    \* contracts it executed
    wire,        \* events the provider has emitted
    recorded,    \* broker_provider_events
    filled,      \* portfolio_order_intent_execution_states.filled_quantity
    faults       \* of those that MaxFaults bounds, so far

leaseVars    == <<token, leaseLive, attempts>>
providerVars == <<order, executed, wire>>
deskVars     == <<recorded, filled>>
dispatchVars == <<leaseVars, dispatchers, sent, answered, providerVars, deskVars, faults>>
vars == <<gateVars, dispatchVars>>

-----------------------------------------------------------------------------
\* Types.

\* What a dispatcher may say of its attempt; a timeout is stored as unknown.
Outcomes == {"sent", "acknowledged", "failed", "unknown"}

Resting == [phase |-> "idle", token |-> 0, outcome |-> "none"]
Dispatching == [phase : {"idle", "claimed", "leased", "tried", "completed"}, token : Nat,
                outcome : Outcomes \cup {"none"}]

EventTypes == {"ORDER_ACCEPTED", "ORDER_PARTIALLY_FILLED", "ORDER_FILLED",
               "ORDER_REJECTED", "ORDER_CANCELLED", "PROVIDER_ERROR"}
Events == [type : EventTypes, quantity : 0..Quantity]

OrderStates == {"none", "working", "filled", "rejected", "cancelled"}

Init ==
    /\ GateInit
    /\ token = 0 /\ leaseLive = FALSE /\ attempts = 0
    /\ dispatchers = [d \in Dispatchers |-> Resting]
    /\ sent = {} /\ answered = FALSE
    /\ order = "none" /\ executed = 0 /\ wire = {}
    /\ recorded = {} /\ filled = 0
    /\ faults = 0

-----------------------------------------------------------------------------
\* The lease.

GateRest == <<intent, gate, keys, applied, calls, runs, now>>

\* The claim's UPDATE: the token is the attempt's.
Lease(d) ==
    /\ dispatchers[d] = Resting
    /\ command' = "leased"
    /\ attempts' = attempts + 1
    /\ token' = attempts + 1
    /\ leaseLive' = TRUE
    /\ dispatchers' = [dispatchers EXCEPT ![d] =
                        [phase |-> "claimed", token |-> attempts + 1, outcome |-> "none"]]
    /\ UNCHANGED <<GateRest, lifecycle, sent, answered, providerVars, deskVars, faults>>

\* faulty: a lease that runs is no obstacle.
ClaimLeased(d) == command \in {"pending", "leased"} /\ Lease(d)

\* faulty: an attempt without answer is made again.
ClaimUnknown(d) ==
    (command \in {"pending", "unknown"} \/ (command = "leased" /\ ~leaseLive)) /\ Lease(d)

\* faulty: a lease that ran out is not taken over.
ClaimPending(d) == command = "pending" /\ Lease(d)

\* claimProviderCommand: neither the gate nor expires_at is looked at.
ClaimProviderCommand(d) ==
    (command = "pending" \/ (command = "leased" /\ ~leaseLive)) /\ Lease(d)

\* The claim's second statement; then the command goes to the dispatcher.
RecordLeased(d) ==
    /\ dispatchers[d].phase = "claimed"
    /\ lifecycle' = "LEASED"
    /\ dispatchers' = [dispatchers EXCEPT ![d].phase = "leased"]
    /\ UNCHANGED <<GateRest, command, leaseVars, sent, answered, providerVars, deskVars, faults>>

\* The dispatchers that still work under the command's token.
Holders == {d \in Dispatchers : dispatchers[d] # Resting /\ dispatchers[d].token = token}

\* lease_expires_at passes; in the end also when its holder has crashed.
LapseLease ==
    /\ command = "leased"
    /\ leaseLive
    /\ leaseLive' = FALSE
    /\ UNCHANGED <<gateVars, token, attempts, dispatchers, sent, answered, providerVars, deskVars>>

LapseAbandoned == Holders = {} /\ LapseLease /\ UNCHANGED faults

LapseUnderHolder ==
    Holders # {} /\ faults < MaxFaults /\ LapseLease /\ faults' = faults + 1

\* The attempt reaches the provider, or is turned down, or stays without answer.
TrySend(d) ==
    /\ dispatchers[d].phase = "leased"
    /\ \E o \in Outcomes :
          /\ dispatchers' = [dispatchers EXCEPT ![d] =
                               [phase |-> "tried", token |-> dispatchers[d].token, outcome |-> o]]
          /\ \/ o # "failed" /\ sent' = sent \cup {dispatchers[d].token}
             \/ o \in {"failed", "unknown"} /\ UNCHANGED sent
    /\ UNCHANGED <<gateVars, leaseVars, answered, providerVars, deskVars, faults>>

Crash(d) ==
    /\ dispatchers[d] # Resting
    /\ faults < MaxFaults
    /\ faults' = faults + 1
    /\ dispatchers' = [dispatchers EXCEPT ![d] = Resting]
    /\ UNCHANGED <<gateVars, leaseVars, sent, answered, providerVars, deskVars>>

\* completeProviderDispatch: the row must carry the dispatcher's token; what
\* its status has become meanwhile is not looked at.
CompleteProviderDispatch(d) ==
    LET s == dispatchers[d].outcome IN
    /\ dispatchers[d].phase = "tried"
    /\ dispatchers[d].token = token
    /\ command' = s
    /\ token' = IF s = "unknown" THEN token ELSE 0
    /\ leaseLive' = (s = "unknown" /\ leaseLive)
    /\ answered' = TRUE
    /\ dispatchers' = [dispatchers EXCEPT ![d].phase = "completed"]
    /\ UNCHANGED <<GateRest, lifecycle, attempts, sent, providerVars, deskVars, faults>>

\* PROVIDER_COMMAND_LEASE_CONFLICT: somebody else leased or completed it.
LeaseConflict(d) ==
    /\ dispatchers[d].phase = "tried"
    /\ dispatchers[d].token # token
    /\ dispatchers' = [dispatchers EXCEPT ![d] = Resting]
    /\ UNCHANGED <<gateVars, leaseVars, sent, answered, providerVars, deskVars, faults>>

LifecycleOfStatus ==
    [sent |-> "SENT", acknowledged |-> "ACKNOWLEDGED", failed |-> "REJECTED", unknown |-> "UNKNOWN"]

\* The completion's second statement.
RecordCompleted(d) ==
    /\ dispatchers[d].phase = "completed"
    /\ lifecycle' = LifecycleOfStatus[dispatchers[d].outcome]
    /\ dispatchers' = [dispatchers EXCEPT ![d] = Resting]
    /\ UNCHANGED <<GateRest, command, leaseVars, sent, answered, providerVars, deskVars, faults>>

-----------------------------------------------------------------------------
\* The provider.

Emit(type, quantity) == wire' = wire \cup {[type |-> type, quantity |-> quantity]}

Unmoved == UNCHANGED <<gateVars, leaseVars, dispatchers, sent, answered, deskVars, faults>>

TakeOrder ==
    /\ sent # {}
    /\ order = "none"
    /\ \/ order' = "working" /\ Emit("ORDER_ACCEPTED", 0)
       \/ order' = "rejected" /\ Emit("ORDER_REJECTED", 0)
    /\ UNCHANGED executed
    /\ Unmoved

Fill ==
    /\ order = "working"
    /\ \E q \in executed + 1..Quantity :
          /\ executed' = q
          /\ order' = IF q = Quantity THEN "filled" ELSE order
          /\ Emit(IF q = Quantity THEN "ORDER_FILLED" ELSE "ORDER_PARTIALLY_FILLED", q)
    /\ Unmoved

CancelOrder ==
    /\ order = "working"
    /\ order' = "cancelled"
    /\ Emit("ORDER_CANCELLED", 0)
    /\ UNCHANGED executed
    /\ Unmoved

ReportError ==
    /\ order # "none"
    /\ Emit("PROVIDER_ERROR", 0)
    /\ UNCHANGED <<order, executed>>
    /\ Unmoved

\* commandStatusForProviderEvent and lifecycleStatusForProviderEvent.
StatusOfEvent ==
    [t \in EventTypes |->
       CASE t = "ORDER_REJECTED" -> "failed"
         [] t = "ORDER_CANCELLED" -> "cancelled"
         [] t = "PROVIDER_ERROR" -> "unknown"
         [] OTHER -> "acknowledged"]

LifecycleOfEvent ==
    [ORDER_ACCEPTED |-> "ACKNOWLEDGED", ORDER_PARTIALLY_FILLED |-> "PARTIALLY_FILLED",
     ORDER_FILLED |-> "FILLED", ORDER_REJECTED |-> "REJECTED",
     ORDER_CANCELLED |-> "CANCELLED", PROVIDER_ERROR |-> "RECONCILIATION_REQUIRED"]

\* faulty: the last event counts.
GreatestLast(q, r) == r

\* GREATEST(filled_quantity, ...) of the upsert.
Greatest(q, r) == IF q < r THEN r ELSE q

\* recordBrokerProviderEvent, with the command locked; an event whose external
\* key is recorded changes nothing.
RecordBrokerProviderEvent(e) ==
    /\ e \notin recorded
    /\ recorded' = recorded \cup {e}
    /\ command' = StatusOfEvent[e.type]
    /\ lifecycle' = LifecycleOfEvent[e.type]
    /\ filled' = Greatest(filled, e.quantity)
    /\ answered' = TRUE
    /\ UNCHANGED <<GateRest, leaseVars, dispatchers, sent, providerVars, faults>>

-----------------------------------------------------------------------------
Dispatch(d) ==
    \/ ClaimProviderCommand(d)
    \/ RecordLeased(d)
    \/ TrySend(d)
    \/ CompleteProviderDispatch(d)
    \/ LeaseConflict(d)
    \/ RecordCompleted(d)

Next ==
    \/ GateNext /\ UNCHANGED dispatchVars
    \/ \E d \in Dispatchers : Dispatch(d) \/ Crash(d)
    \/ LapseAbandoned
    \/ LapseUnderHolder
    \/ TakeOrder \/ Fill \/ CancelOrder \/ ReportError
    \/ \E e \in wire : RecordBrokerProviderEvent(e)

\* The clock goes on, the API finishes what it began, the sweeper sweeps,
\* dispatchers poll and do not stay on one step, leases of the dead run out and
\* the provider repeats its events until they are recorded.
Fairness ==
    /\ WF_vars(Tick /\ UNCHANGED dispatchVars)
    /\ WF_vars(ExpireHumanGate /\ UNCHANGED dispatchVars)
    /\ \A d \in Dispatchers : WF_vars(Dispatch(d))
    /\ WF_vars(LapseAbandoned)
    /\ WF_vars(\E e \in wire : RecordBrokerProviderEvent(e))

Spec == Init /\ [][Next]_vars

FairSpec == Spec /\ Fairness

-----------------------------------------------------------------------------
\* Properties.

TypeOK ==
    /\ GateTypeOK
    /\ token \in Nat /\ token <= attempts
    /\ leaseLive \in BOOLEAN
    /\ attempts \in Nat
    /\ dispatchers \in [Dispatchers -> Dispatching]
    /\ sent \subseteq 1..attempts
    /\ answered \in BOOLEAN
    /\ order \in OrderStates
    /\ executed \in 0..Quantity
    /\ wire \subseteq Events
    /\ recorded \subseteq wire
    /\ filled \in 0..Quantity
    /\ faults \in 0..MaxFaults

\* Whatever the interleaving of operators, sweeper, materializers and
\* dispatchers, an order that reached the provider is one whose confirmation
\* stands: the dispatch does not look at the gate, the gate must not move.
SentIsConfirmed == sent # {} => gate.status = "CONFIRMED" /\ intent = "READY"

\* A second order of one command costs a crash, or a lease that ran out under
\* a dispatcher still at work; the n-th costs n - 1 of them.
SecondOrdersArePaid == \A t \in sent : t <= 1 + faults

\* Once a completion or an event has told the desk what became of the command
\* (a timeout included), it is not handed out again (LOT-005, "Timeout inconnu
\* sans blind resend").
AnsweredIsNotResent == [][answered => attempts' = attempts]_vars

\* Events may come late, twice and in any order: in the end the desk counts what
\* the provider executed.
FillsArrive == <>[](filled = executed)

\* The desk never counts a contract that the provider did not execute, and once
\* every event is recorded, in whatever order they came, it counts them all.
CountIsTold == filled <= executed /\ (recorded = wire => filled = executed)

\* A command does not stay with the desk: some dispatcher completes it, or the
\* provider's events tell what became of it.
CommandIsAnswered == command # "none" ~> answered
=============================================================================

----------------------- MODULE ProviderDispatchProofs -----------------------
(***************************************************************************)
(* Theorems about ProviderDispatch, for any number of dispatchers, any     *)
(* quantity and any number of faults.                                      *)
(*                                                                         *)
(* The gate's own invariant carries over: a dispatcher never makes or      *)
(* unmakes a command.  Of the lease the steps keep a balance: an attempt   *)
(* that nobody works on any more has been paid for with a fault.           *)
(***************************************************************************)
EXTENDS ProviderDispatch, HumanGateProofs

\* Nothing happens without a command.
Started ==
    /\ attempts # 0 => command # "none"
    /\ sent # {} => command # "none"
    /\ wire # {} => command # "none"
    /\ order # "none" => sent # {}
    /\ \A d \in Dispatchers : dispatchers[d] # Resting => command # "none"

\* A dispatcher completes what it tried and works under a token of its own.
AtWork ==
    \A d \in Dispatchers :
        /\ dispatchers[d].phase \in {"tried", "completed"} => dispatchers[d].outcome \in Outcomes
        /\ dispatchers[d].phase = "completed" => answered
        /\ dispatchers[d] # Resting =>
              dispatchers[d].token # 0 /\ dispatchers[d].token <= attempts

\* A command the desk heard of is neither waiting nor leased.
AnsweredIsClosed == answered => command \notin {"none", "pending", "leased"}

\* Attempts and faults: a command nobody holds has cost a fault an attempt.
Balance ==
    /\ command \in {"none", "pending"} => attempts = 0
    /\ command = "leased" /\ (~leaseLive \/ Holders = {}) => attempts <= faults
    /\ attempts <= faults + 1

IInv == TypeOK /\ GateInv /\ Started /\ AtWork /\ AnsweredIsClosed /\ Balance

\* Of numbers.
LEMMA OneMore ==
  ASSUME NEW a \in Nat, NEW e \in Nat, NEW f \in Nat, e <= f
  PROVE  (a <= f => a <= f + 1) /\ (a <= e + 1 => a <= f + 1)
  OBVIOUS

LEMMA InvInit == Init => IInv
  <1>1. SUFFICES ASSUME Init PROVE IInv
    OBVIOUS
  <1>2. GateInv
    BY <1>1, GateInvInit DEF Init
  <1>3. TypeOK
    <2>1. Resting \in Dispatching
      BY DEF Resting, Dispatching
    <2>2. dispatchers \in [Dispatchers -> Dispatching]
      BY <1>1, <2>1 DEF Init
    <2>3. /\ token \in Nat /\ token <= attempts /\ attempts \in Nat
          /\ executed \in 0..Quantity /\ filled \in 0..Quantity /\ faults \in 0..MaxFaults
      BY <1>1, DispatchAssumption DEF Init
    <2> QED
      BY <1>1, <1>2, <2>2, <2>3 DEF Init, TypeOK, GateInv, OrderStates
  <1>4. Started /\ AtWork /\ AnsweredIsClosed /\ Balance
    BY <1>1, DispatchAssumption
    DEF Init, GateInit, Started, AtWork, AnsweredIsClosed, Balance, Resting
  <1> QED
    BY <1>2, <1>3, <1>4 DEF IInv

\* The dispatch leaves everything of the gate but command and lifecycle alone.
LEMMA GateRests ==
  ASSUME GateInv, UNCHANGED GateRest, command # "none",
         command' \in CommandStatus, lifecycle' \in LifecycleStatus
  PROVE  GateInv'
  BY DEF GateInv, GateRest, GateTypeOK, CommandIsConfirmed, GateHasRevision, ExpiredTogether,
         LogIsPast, LogIsFunction

\* The gate's steps make a command and never touch one that was made.
LEMMA GateKeepsCommand ==
  ASSUME [GateNext]_gateVars
  PROVE  command' = command \/ (command = "none" /\ command' = "pending")
  BY DEF GateNext, gateVars, EnsureHumanGate, CheckDuplicate, LoseCall, Decide, ConfirmHumanGate,
         RejectHumanGate, UndoHumanGate, RefuseHumanGate, Answered, ExpireHumanGate, ListIntent,
         PlanCommand, PersistProviderCommand, Tick

LEMMA GateStep ==
  ASSUME IInv, [GateNext]_gateVars, UNCHANGED dispatchVars
  PROVE  IInv'
  <1>1. GateInv'
    BY GateInvStep DEF IInv
  <1>2. command' = command \/ (command = "none" /\ command' = "pending")
    BY GateKeepsCommand
  <1>3. UNCHANGED <<token, leaseLive, attempts, dispatchers, sent, answered, order, executed, wire,
                    recorded, filled, faults>>
    BY DEF dispatchVars, leaseVars, providerVars, deskVars
  <1>4. TypeOK'
    BY <1>1, <1>3 DEF IInv, TypeOK, GateInv
  <1>5. Started' /\ AtWork' /\ AnsweredIsClosed'
    BY <1>2, <1>3 DEF IInv, Started, AtWork, AnsweredIsClosed
  <1>6. Balance'
    BY <1>2, <1>3 DEF IInv, Balance, Holders
  <1> QED
    BY <1>1, <1>4, <1>5, <1>6 DEF IInv

-----------------------------------------------------------------------------
\* The dispatchers' steps.

\* What a step of dispatcher d may look like to the rest.
LEMMA DispatcherType ==
  ASSUME TypeOK, NEW d \in Dispatchers
  PROVE  dispatchers[d] \in Dispatching /\ dispatchers[d].token \in Nat
  BY DEF TypeOK, Dispatching

LEMMA ClaimStep ==
  ASSUME IInv, NEW d \in Dispatchers, ClaimProviderCommand(d)
  PROVE  IInv'
  <1> DEFINE row == [phase |-> "claimed", token |-> attempts + 1, outcome |-> "none"]
  <1>0. TypeOK /\ GateInv /\ Started /\ AtWork /\ AnsweredIsClosed /\ Balance
    BY DEF IInv
  <1>1. /\ command = "pending" \/ (command = "leased" /\ ~leaseLive)
        /\ command' = "leased" /\ attempts' = attempts + 1 /\ token' = attempts + 1
        /\ leaseLive' = TRUE /\ dispatchers' = [dispatchers EXCEPT ![d] = row]
        /\ UNCHANGED GateRest /\ UNCHANGED <<lifecycle, sent, answered, order, executed, wire,
                                             recorded, filled, faults>>
    BY DEF ClaimProviderCommand, Lease, providerVars, deskVars
  <1>2. attempts \in Nat /\ faults \in Nat
    BY <1>0, DispatchAssumption DEF TypeOK
  <1>3. row \in Dispatching
    BY <1>2 DEF Dispatching
  <1>4. GateInv'
    BY <1>0, <1>1, GateRests DEF CommandStatus, GateInv, GateTypeOK
  <1>5. TypeOK'
    BY <1>0, <1>1, <1>2, <1>3, <1>4 DEF TypeOK, GateInv
  <1>6. Started' /\ AnsweredIsClosed'
    BY <1>0, <1>1 DEF Started, AnsweredIsClosed, Resting
  <1>7. AtWork'
    <2>1. ASSUME NEW e \in Dispatchers, dispatchers'[e] # Resting, e # d
          PROVE  dispatchers'[e].token # 0 /\ dispatchers'[e].token <= attempts'
      BY <1>0, <1>1, <1>2, <2>1, DispatcherType DEF AtWork, TypeOK
    <2> QED
      BY <1>0, <1>1, <1>2, <2>1 DEF AtWork, TypeOK
  <1>8. Balance'
    <2>1. attempts <= faults
      BY <1>0, <1>1, <1>2 DEF Balance
    <2>2. d \in Holders'
      BY <1>0, <1>1, <1>2 DEF Holders, TypeOK, Resting
    <2> QED
      BY <1>1, <1>2, <2>1, <2>2 DEF Balance
  <1> QED
    BY <1>4, <1>5, <1>6, <1>7, <1>8 DEF IInv

LEMMA RecordLeasedStep ==
  ASSUME IInv, NEW d \in Dispatchers, RecordLeased(d)
  PROVE  IInv'
  <1>0. TypeOK /\ GateInv /\ Started /\ AtWork /\ AnsweredIsClosed /\ Balance
    BY DEF IInv
  <1>1. /\ dispatchers[d].phase = "claimed" /\ lifecycle' = "LEASED"
        /\ dispatchers' = [dispatchers EXCEPT ![d].phase = "leased"]
        /\ UNCHANGED GateRest /\ UNCHANGED <<command, token, leaseLive, attempts, sent, answered,
                                 order, executed, wire, recorded, filled, faults>>
    BY DEF RecordLeased, leaseVars, providerVars, deskVars
  <1>2. dispatchers[d] # Resting
    BY <1>1 DEF Resting
  <1>3. /\ dispatchers'[d] \in Dispatching /\ dispatchers'[d].phase = "leased"
        /\ dispatchers'[d].token = dispatchers[d].token
        /\ dispatchers' \in [Dispatchers -> Dispatching]
        /\ \A e \in Dispatchers : e # d => dispatchers'[e] = dispatchers[e]
    BY <1>0, <1>1 DEF TypeOK, Dispatching
  <1>4. dispatchers'[d] # Resting
    BY <1>3 DEF Resting
  <1>5. GateInv'
    BY <1>0, <1>1, <1>2, GateRests DEF GateInv, GateTypeOK, LifecycleStatus, Started
  <1>6. TypeOK'
    BY <1>0, <1>1, <1>3, <1>5 DEF TypeOK, GateInv
  <1>7. Started' /\ AnsweredIsClosed'
    BY <1>0, <1>1, <1>2, <1>3 DEF Started, AnsweredIsClosed
  <1>8. AtWork'
    BY <1>0, <1>1, <1>2, <1>3 DEF AtWork
  <1>9. Holders' = Holders
    BY <1>1, <1>2, <1>3, <1>4 DEF Holders
  <1> QED
    BY <1>0, <1>1, <1>5, <1>6, <1>7, <1>8, <1>9 DEF IInv, Balance

LEMMA TrySendStep ==
  ASSUME IInv, NEW d \in Dispatchers, TrySend(d)
  PROVE  IInv'
  <1>0. TypeOK /\ GateInv /\ Started /\ AtWork /\ AnsweredIsClosed /\ Balance
    BY DEF IInv
  <1>1. PICK o \in Outcomes :
          /\ dispatchers' = [dispatchers EXCEPT ![d] =
                               [phase |-> "tried", token |-> dispatchers[d].token, outcome |-> o]]
          /\ sent' = sent \cup {dispatchers[d].token} \/ sent' = sent
    BY DEF TrySend
  <1>2. /\ dispatchers[d].phase = "leased"
        /\ UNCHANGED gateVars /\ UNCHANGED <<token, leaseLive, attempts, answered, order, executed,
                                             wire, recorded, filled, faults>>
    BY DEF TrySend, leaseVars, providerVars, deskVars
  <1>3. dispatchers[d] # Resting
    BY <1>2 DEF Resting
  <1>4. /\ dispatchers[d].token \in Nat /\ attempts \in Nat
        /\ dispatchers[d].token # 0 /\ dispatchers[d].token <= attempts
    BY <1>0, <1>3, DispatcherType DEF AtWork, TypeOK
  <1>5. /\ dispatchers'[d] \in Dispatching /\ dispatchers'[d].phase = "tried"
        /\ dispatchers'[d].outcome \in Outcomes
        /\ dispatchers'[d].token = dispatchers[d].token
        /\ dispatchers' \in [Dispatchers -> Dispatching]
        /\ \A e \in Dispatchers : e # d => dispatchers'[e] = dispatchers[e]
    BY <1>0, <1>1, <1>4 DEF TypeOK, Dispatching
  <1>6. dispatchers'[d] # Resting
    BY <1>5 DEF Resting
  <1>7. GateInv'
    BY <1>0, <1>2, GateInvStep
  <1>8. sent' \subseteq 1..attempts'
    BY <1>0, <1>1, <1>2, <1>4 DEF TypeOK
  <1>9. TypeOK'
    BY <1>0, <1>2, <1>5, <1>7, <1>8 DEF TypeOK, GateInv
  <1>10. Started' /\ AnsweredIsClosed'
    BY <1>0, <1>1, <1>2, <1>3, <1>5 DEF Started, AnsweredIsClosed, gateVars
  <1>11. AtWork'
    BY <1>0, <1>2, <1>4, <1>5 DEF AtWork
  <1>12. Holders' = Holders
    BY <1>2, <1>3, <1>5, <1>6 DEF Holders
  <1>13. Balance'
    BY <1>0, <1>2, <1>12 DEF Balance, gateVars
  <1> QED
    BY <1>7, <1>9, <1>10, <1>11, <1>13 DEF IInv

\* A dispatcher that goes back to rest without touching the command: the
\* balance holds if the command is not leased, if it was not the holder or if
\* it paid.
LEMMA RestStep ==
  ASSUME IInv, NEW d \in Dispatchers, dispatchers' = [dispatchers EXCEPT ![d] = Resting],
         UNCHANGED GateRest, command # "none", lifecycle' \in LifecycleStatus,
         UNCHANGED <<command, token, leaseLive, attempts, sent, answered, order, executed, wire,
                     recorded, filled>>,
         faults' \in faults..MaxFaults,
         \/ command # "leased"
         \/ dispatchers[d].token # token /\ faults' = faults
         \/ faults' = faults + 1
  PROVE  IInv'
  <1>0. TypeOK /\ GateInv /\ Started /\ AtWork /\ AnsweredIsClosed /\ Balance
    BY DEF IInv
  <1>1. attempts \in Nat /\ faults \in Nat /\ faults' \in Nat /\ MaxFaults \in Nat
        /\ faults <= faults'
    BY <1>0, DispatchAssumption DEF TypeOK
  <1>2. Resting \in Dispatching
    BY DEF Resting, Dispatching
  <1>3. GateInv'
    BY <1>0, GateRests DEF GateInv, GateTypeOK
  <1>4. TypeOK'
    BY <1>0, <1>1, <1>2, <1>3 DEF TypeOK, GateInv
  <1>5. \A e \in Dispatchers : dispatchers'[e] = dispatchers[e] \/ dispatchers'[e] = Resting
    BY <1>0 DEF TypeOK
  <1>6. Started' /\ AnsweredIsClosed'
    BY <1>0, <1>5 DEF Started, AnsweredIsClosed
  <1>7. AtWork'
    BY <1>0, <1>5 DEF AtWork, Resting
  <1>8. Balance'
    <2>1. CASE command # "leased"
      <3>1. command' = command /\ attempts' = attempts
        OBVIOUS
      <3>2. attempts <= faults' + 1
        BY <1>0, <1>1, OneMore DEF Balance
      <3> QED
        BY <1>0, <2>1, <3>1, <3>2 DEF Balance
    <2>2. CASE dispatchers[d].token # token /\ faults' = faults
      <3>1. Holders' = Holders
        BY <1>0, <2>2 DEF Holders, TypeOK
      <3> QED
        BY <1>0, <2>2, <3>1 DEF Balance
    <2>3. CASE faults' = faults + 1
      BY <1>0, <1>1, <2>3 DEF Balance
    <2> QED
      BY <2>1, <2>2, <2>3
  <1> QED
    BY <1>3, <1>4, <1>6, <1>7, <1>8 DEF IInv

LEMMA CompleteStep ==
  ASSUME IInv, NEW d \in Dispatchers, CompleteProviderDispatch(d)
  PROVE  IInv'
  <1> DEFINE s == dispatchers[d].outcome
  <1>0. TypeOK /\ GateInv /\ Started /\ AtWork /\ AnsweredIsClosed /\ Balance
    BY DEF IInv
  <1>1. /\ dispatchers[d].phase = "tried" /\ command' = s /\ token' \in {token, 0}
        /\ leaseLive' \in BOOLEAN /\ answered' = TRUE
        /\ dispatchers' = [dispatchers EXCEPT ![d].phase = "completed"]
        /\ UNCHANGED GateRest /\ UNCHANGED <<lifecycle, attempts, sent, order, executed, wire,
                                             recorded, filled, faults>>
    BY <1>0 DEF CompleteProviderDispatch, providerVars, deskVars, TypeOK
  <1>2. s \in Outcomes /\ dispatchers[d] # Resting
    BY <1>0, <1>1 DEF AtWork, Resting
  <1>3. /\ dispatchers'[d].token = dispatchers[d].token
        /\ dispatchers'[d].outcome = s
        /\ dispatchers' \in [Dispatchers -> Dispatching]
        /\ \A e \in Dispatchers : e # d => dispatchers'[e] = dispatchers[e]
    BY <1>0, <1>1 DEF TypeOK, Dispatching
  <1>4. command' \in CommandStatus /\ command' \notin {"none", "pending", "leased"}
    BY <1>1, <1>2 DEF Outcomes, CommandStatus
  <1>5. command # "none"
    BY <1>0, <1>2 DEF Started
  <1>6. GateInv'
    BY <1>0, <1>1, <1>4, <1>5, GateRests DEF GateInv, GateTypeOK
  <1>7. token' \in Nat /\ token' <= attempts'
    BY <1>0, <1>1 DEF TypeOK
  <1>8. TypeOK'
    BY <1>0, <1>1, <1>3, <1>6, <1>7 DEF TypeOK, GateInv
  <1>9. Started' /\ AnsweredIsClosed' /\ Balance'
    BY <1>0, <1>1, <1>4 DEF Started, AnsweredIsClosed, Balance
  <1>10. AtWork'
    BY <1>0, <1>1, <1>2, <1>3 DEF AtWork
  <1> QED
    BY <1>6, <1>8, <1>9, <1>10 DEF IInv

LEMMA LapseStep ==
  ASSUME IInv, LapseAbandoned \/ LapseUnderHolder
  PROVE  IInv'
  <1>0. TypeOK /\ GateInv /\ Started /\ AtWork /\ AnsweredIsClosed /\ Balance
    BY DEF IInv
  <1>1. /\ command = "leased" /\ leaseLive' = FALSE
        /\ UNCHANGED gateVars /\ UNCHANGED <<token, attempts, dispatchers, sent, answered, order,
                                             executed, wire, recorded, filled>>
    BY DEF LapseAbandoned, LapseUnderHolder, LapseLease, providerVars, deskVars
  <1>2. attempts \in Nat /\ faults \in Nat /\ MaxFaults \in Nat
    BY <1>0, DispatchAssumption DEF TypeOK
  <1>3. /\ faults' \in 0..MaxFaults /\ attempts <= faults'
    BY <1>0, <1>1, <1>2 DEF Balance, TypeOK, LapseAbandoned, LapseUnderHolder
  <1>4. GateInv'
    BY <1>0, <1>1, GateInvStep
  <1>5. TypeOK'
    BY <1>0, <1>1, <1>3, <1>4 DEF TypeOK, GateInv
  <1>6. Started' /\ AtWork' /\ AnsweredIsClosed'
    BY <1>0, <1>1 DEF Started, AtWork, AnsweredIsClosed, gateVars
  <1>7. Balance'
    <2>1. command' = "leased" /\ attempts' = attempts
      BY <1>1 DEF gateVars
    <2>2. faults' \in Nat
      BY <1>3
    <2>3. attempts <= faults' + 1
      BY <1>2, <1>3, <2>2, OneMore
    <2> QED
      BY <1>3, <2>1, <2>3 DEF Balance
  <1> QED
    BY <1>4, <1>5, <1>6, <1>7 DEF IInv

-----------------------------------------------------------------------------
\* The provider's steps.

LEMMA ProviderStep ==
  ASSUME IInv, TakeOrder \/ Fill \/ CancelOrder \/ ReportError
  PROVE  IInv'
  <1>0. TypeOK /\ GateInv /\ Started /\ AtWork /\ AnsweredIsClosed /\ Balance
    BY DEF IInv
  <1>1. /\ UNCHANGED gateVars /\ UNCHANGED <<token, leaseLive, attempts, dispatchers, sent, answered,
                                             recorded, filled, faults>>
    BY DEF TakeOrder, Fill, CancelOrder, ReportError, Unmoved, leaseVars, deskVars
  <1>2. Quantity \in Nat /\ executed \in 0..Quantity
    BY <1>0, DispatchAssumption DEF TypeOK
  <1>3. /\ sent # {} /\ order' \in OrderStates /\ executed' \in 0..Quantity
        /\ wire' \subseteq Events /\ wire \subseteq wire'
    <2>1. CASE TakeOrder
      BY <1>0, <1>2, <2>1 DEF TakeOrder, Emit, TypeOK, OrderStates, Events, EventTypes
    <2>2. CASE Fill
      <3>1. PICK q \in executed + 1..Quantity :
              /\ executed' = q /\ order' = (IF q = Quantity THEN "filled" ELSE order)
              /\ Emit(IF q = Quantity THEN "ORDER_FILLED" ELSE "ORDER_PARTIALLY_FILLED", q)
        BY <2>2 DEF Fill
      <3>2. q \in 0..Quantity /\ order = "working"
        BY <1>2, <2>2, <3>1 DEF Fill
      <3> QED
        BY <1>0, <3>1, <3>2 DEF Started, Emit, TypeOK, OrderStates, Events, EventTypes
    <2>3. CASE CancelOrder
      BY <1>0, <1>2, <2>3 DEF CancelOrder, Emit, TypeOK, Started, OrderStates, Events, EventTypes
    <2>4. CASE ReportError
      BY <1>0, <1>2, <2>4 DEF ReportError, Emit, TypeOK, Started, OrderStates, Events, EventTypes
    <2> QED
      BY <2>1, <2>2, <2>3, <2>4
  <1>4. GateInv'
    BY <1>0, <1>1, GateInvStep
  <1>5. TypeOK'
    BY <1>0, <1>1, <1>3, <1>4 DEF TypeOK, GateInv
  <1>6. Started' /\ AtWork' /\ AnsweredIsClosed'
    BY <1>0, <1>1, <1>3 DEF Started, AtWork, AnsweredIsClosed, gateVars
  <1>7. Balance'
    BY <1>0, <1>1 DEF Balance, Holders, gateVars
  <1> QED
    BY <1>4, <1>5, <1>6, <1>7 DEF IInv

LEMMA EventStep ==
  ASSUME IInv, NEW e \in wire, RecordBrokerProviderEvent(e)
  PROVE  IInv'
  <1>0. TypeOK /\ GateInv /\ Started /\ AtWork /\ AnsweredIsClosed /\ Balance
    BY DEF IInv
  <1>1. /\ recorded' = recorded \cup {e} /\ command' = StatusOfEvent[e.type]
        /\ lifecycle' = LifecycleOfEvent[e.type] /\ filled' = Greatest(filled, e.quantity)
        /\ answered' = TRUE
        /\ UNCHANGED GateRest /\ UNCHANGED <<token, leaseLive, attempts, dispatchers, sent, order,
                                             executed, wire, faults>>
    BY DEF RecordBrokerProviderEvent, leaseVars, providerVars
  <1>2. e.type \in EventTypes /\ e.quantity \in 0..Quantity
    BY <1>0 DEF TypeOK, Events
  <1>3. command' \in {"failed", "cancelled", "unknown", "acknowledged"}
    BY <1>1, <1>2 DEF StatusOfEvent
  <1>4. lifecycle' \in LifecycleStatus
    BY <1>1, <1>2 DEF LifecycleOfEvent, LifecycleStatus, EventTypes
  <1>5. filled' \in 0..Quantity
    BY <1>0, <1>1, <1>2 DEF Greatest, TypeOK
  <1>6. command # "none"
    BY <1>0 DEF Started
  <1>7. GateInv'
    BY <1>0, <1>1, <1>3, <1>4, <1>6, GateRests DEF CommandStatus
  <1>8. TypeOK'
    BY <1>0, <1>1, <1>5, <1>7 DEF TypeOK, GateInv
  <1>9. Started' /\ AtWork' /\ AnsweredIsClosed' /\ Balance'
    BY <1>0, <1>1, <1>3 DEF Started, AtWork, AnsweredIsClosed, Balance
  <1> QED
    BY <1>7, <1>8, <1>9 DEF IInv

-----------------------------------------------------------------------------
\* The theorems.

LEMMA InvStep == IInv /\ [Next]_vars => IInv'
  <1>0. SUFFICES ASSUME IInv, [Next]_vars PROVE IInv'
    OBVIOUS
  <1>t. TypeOK /\ Started /\ AtWork /\ AnsweredIsClosed
    BY <1>0 DEF IInv
  <1>f. faults \in 0..MaxFaults /\ MaxFaults \in Nat /\ lifecycle \in LifecycleStatus
    BY <1>t, DispatchAssumption DEF TypeOK, GateTypeOK
  <1>1. CASE GateNext /\ UNCHANGED dispatchVars
    BY <1>0, <1>1, GateStep
  <1>2. ASSUME NEW d \in Dispatchers, ClaimProviderCommand(d) PROVE IInv'
    BY <1>0, <1>2, ClaimStep
  <1>3. ASSUME NEW d \in Dispatchers, RecordLeased(d) PROVE IInv'
    BY <1>0, <1>3, RecordLeasedStep
  <1>4. ASSUME NEW d \in Dispatchers, TrySend(d) PROVE IInv'
    BY <1>0, <1>4, TrySendStep
  <1>5. ASSUME NEW d \in Dispatchers, Crash(d) PROVE IInv'
    <2>1. /\ dispatchers[d] # Resting /\ faults' = faults + 1 /\ faults < MaxFaults
          /\ dispatchers' = [dispatchers EXCEPT ![d] = Resting]
          /\ UNCHANGED GateRest /\ UNCHANGED <<command, lifecycle>>
          /\ UNCHANGED <<token, leaseLive, attempts, sent, answered, order, executed, wire,
                         recorded, filled>>
      BY <1>5 DEF Crash, leaseVars, providerVars, deskVars, gateVars, GateRest
    <2>2. command # "none" /\ faults' \in faults..MaxFaults /\ lifecycle' \in LifecycleStatus
      BY <1>t, <1>f, <2>1 DEF Started
    <2> QED
      BY <1>0, <2>1, <2>2, RestStep
  <1>6. ASSUME NEW d \in Dispatchers, CompleteProviderDispatch(d) PROVE IInv'
    BY <1>0, <1>6, CompleteStep
  <1>7. ASSUME NEW d \in Dispatchers, LeaseConflict(d) PROVE IInv'
    <2>1. /\ dispatchers[d].phase = "tried" /\ dispatchers[d].token # token
          /\ dispatchers' = [dispatchers EXCEPT ![d] = Resting]
          /\ UNCHANGED GateRest /\ UNCHANGED <<command, lifecycle, faults>>
          /\ UNCHANGED <<token, leaseLive, attempts, sent, answered, order, executed, wire,
                         recorded, filled>>
      BY <1>7 DEF LeaseConflict, leaseVars, providerVars, deskVars, gateVars, GateRest
    <2>2. dispatchers[d] # Resting
      BY <2>1 DEF Resting
    <2>3. command # "none" /\ faults' \in faults..MaxFaults /\ lifecycle' \in LifecycleStatus
      BY <1>t, <1>f, <2>1, <2>2 DEF Started
    <2> QED
      BY <1>0, <2>1, <2>3, RestStep
  <1>8. ASSUME NEW d \in Dispatchers, RecordCompleted(d) PROVE IInv'
    <2>1. /\ dispatchers[d].phase = "completed"
          /\ lifecycle' = LifecycleOfStatus[dispatchers[d].outcome]
          /\ dispatchers' = [dispatchers EXCEPT ![d] = Resting]
          /\ UNCHANGED GateRest /\ UNCHANGED <<command, faults>>
          /\ UNCHANGED <<token, leaseLive, attempts, sent, answered, order, executed, wire,
                         recorded, filled>>
      BY <1>8 DEF RecordCompleted, leaseVars, providerVars, deskVars
    <2>2. dispatchers[d].outcome \in Outcomes /\ command \notin {"none", "leased"}
      BY <1>t, <2>1 DEF AtWork, AnsweredIsClosed
    <2>3. lifecycle' \in LifecycleStatus
      BY <2>1, <2>2 DEF Outcomes, LifecycleOfStatus, LifecycleStatus
    <2>4. faults' \in faults..MaxFaults
      BY <1>f, <2>1
    <2> QED
      BY <1>0, <2>1, <2>2, <2>3, <2>4, RestStep
  <1>9. CASE LapseAbandoned \/ LapseUnderHolder
    BY <1>0, <1>9, LapseStep
  <1>10. CASE TakeOrder \/ Fill \/ CancelOrder \/ ReportError
    BY <1>0, <1>10, ProviderStep
  <1>11. ASSUME NEW e \in wire, RecordBrokerProviderEvent(e) PROVE IInv'
    BY <1>0, <1>11, EventStep
  <1>12. CASE UNCHANGED vars
    <2>1. UNCHANGED gateVars /\ UNCHANGED dispatchVars
      BY <1>12 DEF vars
    <2> QED
      BY <1>0, <2>1, GateStep
  <1> QED
    BY <1>0, <1>1, <1>2, <1>3, <1>4, <1>5, <1>6, <1>7, <1>8, <1>9, <1>10, <1>11, <1>12
    DEF Next, Dispatch

LEMMA Invariant == Spec => []IInv
  BY InvInit, InvStep, PTL DEF Spec

\* The rows hold what the schema allows, and the desk counts no contract more
\* than the intent has.
THEOREM TypeCorrect == Spec => []TypeOK
  <1>1. IInv => TypeOK
    BY DEF IInv
  <1> QED
    BY <1>1, Invariant, PTL

\* Whatever reached the provider stands confirmed.
THEOREM SentIsConfirmedHolds == Spec => []SentIsConfirmed
  <1>1. IInv => SentIsConfirmed
    BY DEF IInv, Started, GateInv, CommandIsConfirmed, SentIsConfirmed
  <1> QED
    BY <1>1, Invariant, PTL

\* As many orders of one command as there were crashes and lapsed leases, and
\* one more, at the most.
THEOREM SecondOrdersArePaidHolds == Spec => []SecondOrdersArePaid
  <1>1. ASSUME IInv PROVE SecondOrdersArePaid
    <2>1. attempts \in Nat /\ faults \in Nat /\ sent \subseteq 1..attempts /\ attempts <= faults + 1
      BY <1>1, DispatchAssumption DEF IInv, TypeOK, Balance
    <2> QED
      BY <2>1 DEF SecondOrdersArePaid
  <1> QED
    BY <1>1, Invariant, PTL

\* A command the desk heard of is not handed out again.
THEOREM AnsweredIsNotResentHolds == Spec => AnsweredIsNotResent
  <1>1. ASSUME IInv, [Next]_vars PROVE [answered => attempts' = attempts]_vars
    <2>1. ASSUME answered, NEW d \in Dispatchers, ClaimProviderCommand(d) PROVE FALSE
      BY <1>1, <2>1 DEF IInv, AnsweredIsClosed, ClaimProviderCommand
    <2>2. CASE \E d \in Dispatchers : ClaimProviderCommand(d)
      BY <2>1, <2>2
    <2>3. CASE \A d \in Dispatchers : ~ClaimProviderCommand(d)
      BY <1>1, <2>3
      DEF Next, Dispatch, vars, dispatchVars, leaseVars, RecordLeased, TrySend, Crash,
          CompleteProviderDispatch, LeaseConflict, RecordCompleted, LapseAbandoned,
          LapseUnderHolder, LapseLease, TakeOrder, Fill, CancelOrder, ReportError, Unmoved,
          RecordBrokerProviderEvent
    <2> QED
      BY <2>2, <2>3
  <1> QED
    BY <1>1, Invariant, PTL DEF Spec, AnsweredIsNotResent

-----------------------------------------------------------------------------
\* What the desk counts.  Quantities are cumulative, so that the provider's
\* count is the greatest on the wire and the desk's the greatest recorded.
WireTells ==
    /\ \A e \in wire : e.quantity <= executed
    /\ executed # 0 => \E e \in wire : e.quantity = executed
RecordedTells ==
    /\ \A e \in recorded : e.quantity <= filled
    /\ filled # 0 => \E e \in recorded : e.quantity = filled
CountInv == WireTells /\ RecordedTells

\* Greatest is a maximum.
LEMMA GreatestIsMaximum ==
  ASSUME NEW q \in Nat, NEW r \in Nat
  PROVE  Greatest(q, r) \in {q, r} /\ q <= Greatest(q, r) /\ r <= Greatest(q, r)
  BY DEF Greatest

\* What an event on the wire is.
LEMMA EventShape ==
  ASSUME TypeOK
  PROVE  /\ \A e \in wire : e.quantity \in Nat
         /\ \A e \in recorded : e \in wire
         /\ executed \in Nat /\ filled \in Nat
  BY DispatchAssumption DEF TypeOK, Events

LEMMA CountStep ==
  ASSUME IInv, CountInv, [Next]_vars
  PROVE  CountInv'
  <1>0. TypeOK /\ WireTells /\ RecordedTells
    BY DEF IInv, CountInv
  <1>1. CASE UNCHANGED <<executed, wire, recorded, filled>>
    BY <1>1 DEF CountInv, WireTells, RecordedTells
  <1>2. CASE Fill
    <2>1. PICK q \in executed + 1..Quantity :
            /\ executed' = q
            /\ \E t : wire' = wire \cup {[type |-> t, quantity |-> q]}
      BY <1>2 DEF Fill, Emit
    <2>2. PICK t : wire' = wire \cup {[type |-> t, quantity |-> q]}
      BY <2>1
    <2>3. executed < executed' /\ executed' \in Nat
      BY <1>0, <2>1, EventShape, DispatchAssumption
    <2>4. \A e \in wire' : e \in wire \/ e = [type |-> t, quantity |-> q]
      BY <2>2
    <2>5. \A e \in wire' : e.quantity <= executed'
      BY <1>0, <2>1, <2>3, <2>4, EventShape DEF WireTells
    <2>6. [type |-> t, quantity |-> q] \in wire'
      BY <2>2
    <2>7. WireTells'
      BY <2>1, <2>5, <2>6 DEF WireTells
    <2>8. UNCHANGED <<recorded, filled>>
      BY <1>2 DEF Fill, Unmoved, deskVars
    <2> QED
      BY <1>0, <2>7, <2>8 DEF CountInv, RecordedTells
  <1>3. CASE TakeOrder \/ CancelOrder \/ ReportError
    <2>1. UNCHANGED <<executed, recorded, filled>>
      BY <1>3 DEF TakeOrder, CancelOrder, ReportError, Unmoved, deskVars
    <2>2. PICK t : wire' = wire \cup {[type |-> t, quantity |-> 0]}
      BY <1>3 DEF TakeOrder, CancelOrder, ReportError, Emit
    <2>3. \A e \in wire' : e \in wire \/ e.quantity = 0
      BY <2>2
    <2>4. WireTells'
      BY <1>0, <2>1, <2>2, <2>3, EventShape DEF WireTells
    <2> QED
      BY <1>0, <2>1, <2>4 DEF CountInv, RecordedTells
  <1>4. ASSUME NEW e \in wire, RecordBrokerProviderEvent(e) PROVE CountInv'
    <2>1. /\ UNCHANGED <<executed, wire>> /\ recorded' = recorded \cup {e}
          /\ filled' = Greatest(filled, e.quantity)
      BY <1>4 DEF RecordBrokerProviderEvent, providerVars
    <2>2. filled' \in {filled, e.quantity} /\ filled <= filled' /\ e.quantity <= filled' /\ filled' \in Nat
      BY <1>0, <2>1, EventShape, GreatestIsMaximum
    <2>3. \A f \in recorded' : f.quantity <= filled'
      BY <1>0, <2>1, <2>2, EventShape DEF RecordedTells
    <2>4. filled' # 0 => \E f \in recorded' : f.quantity = filled'
      BY <1>0, <2>1, <2>2 DEF RecordedTells
    <2> QED
      BY <1>0, <2>1, <2>3, <2>4 DEF CountInv, WireTells, RecordedTells
  <1>5. CASE GateNext /\ UNCHANGED dispatchVars
    BY <1>1, <1>5 DEF dispatchVars, providerVars, deskVars
  <1>6. ASSUME NEW d \in Dispatchers, Dispatch(d) \/ Crash(d) PROVE CountInv'
    BY <1>1, <1>6
    DEF Dispatch, ClaimProviderCommand, Lease, RecordLeased, TrySend, CompleteProviderDispatch,
        LeaseConflict, RecordCompleted, Crash, providerVars, deskVars
  <1>7. CASE LapseAbandoned \/ LapseUnderHolder
    BY <1>1, <1>7 DEF LapseAbandoned, LapseUnderHolder, LapseLease, providerVars, deskVars
  <1>8. CASE UNCHANGED vars
    BY <1>1, <1>8 DEF vars, dispatchVars, providerVars, deskVars
  <1> QED
    BY <1>2, <1>3, <1>4, <1>5, <1>6, <1>7, <1>8 DEF Next

\* Late, repeated and reordered events never make the desk count too much, nor
\* too little once they are all recorded: the safety part of FillsArrive.
THEOREM CountIsToldHolds == Spec => []CountIsTold
  <1>1. Init => CountInv
    BY DEF Init, CountInv, WireTells, RecordedTells
  <1>2. IInv /\ CountInv /\ [Next]_vars => CountInv'
    BY CountStep
  <1>3. ASSUME IInv, CountInv PROVE CountIsTold
    <2>1. TypeOK
      BY <1>3 DEF IInv
    <2>2. filled <= executed
      BY <1>3, <2>1, EventShape DEF CountInv, WireTells, RecordedTells
    <2>3. ASSUME recorded = wire PROVE executed <= filled
      BY <1>3, <2>1, <2>3, EventShape DEF CountInv, WireTells, RecordedTells
    <2> QED
      BY <2>1, <2>2, <2>3, EventShape DEF CountIsTold
  <1> QED
    BY <1>1, <1>2, <1>3, Invariant, PTL DEF Spec

-----------------------------------------------------------------------------
\* The gate's promise outlives the composition.

\* Dispatchers and events neither make nor unmake a command, and leave the gate.
LEMMA DispatchKeepsDecision ==
  ASSUME IInv, [Next]_vars
  PROVE  [GateNext]_gateVars \/ UNCHANGED Decision!vars
  <1> USE DEF Decision!vars
  <1>0. Started /\ AtWork
    BY DEF IInv
  <1>1. ASSUME NEW d \in Dispatchers, ClaimProviderCommand(d) PROVE UNCHANGED Decision!vars
    BY <1>1 DEF ClaimProviderCommand, Lease, GateRest
  <1>2. ASSUME NEW d \in Dispatchers, RecordLeased(d) \/ RecordCompleted(d)
        PROVE  UNCHANGED Decision!vars
    BY <1>2 DEF RecordLeased, RecordCompleted, GateRest
  <1>3. ASSUME NEW d \in Dispatchers, CompleteProviderDispatch(d) PROVE UNCHANGED Decision!vars
    <2>1. dispatchers[d] # Resting /\ dispatchers[d].phase = "tried"
      BY <1>3 DEF CompleteProviderDispatch, Resting
    <2>2. command # "none" /\ dispatchers[d].outcome # "none"
      BY <1>0, <2>1 DEF Started, AtWork, Outcomes
    <2> QED
      BY <1>3, <2>2 DEF CompleteProviderDispatch, GateRest
  <1>4. ASSUME NEW e \in wire, RecordBrokerProviderEvent(e) PROVE UNCHANGED Decision!vars
    <2>1. command # "none" /\ e.type \in EventTypes
      BY <1>0 DEF Started, IInv, TypeOK, Events
    <2>2. StatusOfEvent[e.type] # "none"
      BY <2>1 DEF StatusOfEvent
    <2> QED
      BY <1>4, <2>1, <2>2 DEF RecordBrokerProviderEvent, GateRest
  <1>5. CASE UNCHANGED gateVars
    BY <1>5
  <1>6. CASE UNCHANGED vars
    BY <1>5, <1>6 DEF vars
  <1> QED
    BY <1>1, <1>2, <1>3, <1>4, <1>5, <1>6
    DEF Next, Dispatch, TrySend, Crash, LeaseConflict, LapseAbandoned, LapseUnderHolder, LapseLease,
        TakeOrder, Fill, CancelOrder, ReportError, Unmoved

\* Gate and dispatch together implement GateDecision: a dispatcher, a crash or an
\* event that comes late or twice takes no decision back and orders nothing.
THEOREM DecisionRefinedInComposition == Spec => DecisionRefined
  <1>1. Init => Decision!Init
    BY DecisionInit DEF Init
  <1>2. IInv /\ [Next]_vars => [Decision!Next]_(Decision!vars)
    <2> SUFFICES ASSUME IInv, [Next]_vars PROVE [Decision!Next]_(Decision!vars)
      OBVIOUS
    <2>1. GateInv
      BY DEF IInv
    <2> QED
      BY <2>1, DispatchKeepsDecision, DecisionStep
  <1> QED
    BY <1>1, <1>2, Invariant, PTL DEF Spec, DecisionRefined, Decision!Spec
=============================================================================

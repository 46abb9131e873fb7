--------------------------- MODULE HumanGateProofs ---------------------------
(***************************************************************************)
(* Theorems about HumanGate, for any requests, calls, materializers,       *)
(* windows and expiries.                                                   *)
(*                                                                         *)
(* Every decision raises the revision, so the log never holds two          *)
(* decisions of one revision, and a decision with an expectation stands at *)
(* the revision it expected.                                               *)
(***************************************************************************)
EXTENDS HumanGate, TLAPS

\* A gate has a revision from the moment it is there.
GateHasRevision == gate.status = "none" <=> gate.revision = 0

\* The sweeper closes the intent with the gate.
ExpiredTogether == gate.status = "EXPIRED" => intent = "EXPIRED"

\* The log lies behind the gate's revision; an expectation was met.
LogIsPast ==
    \A a \in applied :
        /\ a.revision < gate.revision
        /\ a.request.expect # 0 => a.request.expect = a.revision

\* One decision a revision.
LogIsFunction == \A a, b \in applied : a.revision = b.revision => a = b

GateInv ==
    /\ GateTypeOK
    /\ CommandIsConfirmed
    /\ GateHasRevision
    /\ ExpiredTogether
    /\ LogIsPast
    /\ LogIsFunction

LEMMA GateInvInit == GateInit => GateInv
  BY ConstantsAssumption
  DEF GateInit, GateInv, GateTypeOK, CommandIsConfirmed, GateHasRevision, ExpiredTogether,
      LogIsPast, LogIsFunction, Gates, GateStatus, CommandStatus, LifecycleStatus, Times,
      CallStates, RunStates, Idle

\* What a decision finds is a gate with a revision; it is the row, or new.
LEMMA FoundGate ==
  ASSUME GateTypeOK, GateHasRevision
  PROVE  /\ Found \in Gates
         /\ Found.status # "none" /\ Found.revision # 0
         /\ gate.revision <= Found.revision
         /\ gate.status # "none" => Found = gate
  BY ConstantsAssumption
  DEF Found, Opened, GateTypeOK, GateHasRevision, Gates, GateStatus

\* A call that is being handled has a request and a time.
LEMMA CallHasRequest ==
  ASSUME GateTypeOK, NEW c \in Calls, calls[c] # NoCall
  PROVE  /\ calls[c].request \in Requests /\ calls[c].at \in Times
         /\ calls[c].request.expect \in Nat
  BY ConstantsAssumption DEF GateTypeOK, CallStates

\* An undo deadline is a time.
LEMMA UndoDeadlineIsTime ==
  ASSUME NEW g \in Gates, NEW at \in Times
  PROVE  UndoDeadline(g, at) \in Nat
  BY ConstantsAssumption DEF UndoDeadline, Gates, Times

\* What a decision at revision g.revision does to the log, where the gate it
\* found is g and the one it leaves has the next revision.
LEMMA LogStep ==
  ASSUME GateInv, NEW c \in Calls, calls[c] # NoCall, NEW g \in Gates,
         gate.revision <= g.revision,
         RevisionMatches(calls[c].request, g),
         gate'.revision = g.revision + 1,
         applied' = applied \cup {[request |-> calls[c].request, revision |-> g.revision]}
  PROVE  LogIsPast' /\ LogIsFunction' /\ applied' \subseteq [request : Requests, revision : Nat]
  <1> DEFINE r == calls[c].request
             new == [request |-> r, revision |-> g.revision]
  <1>1. /\ r \in Requests /\ r.expect \in Nat /\ g.revision \in Nat /\ gate.revision \in Nat
        /\ applied \subseteq [request : Requests, revision : Nat]
    BY CallHasRequest DEF GateInv, GateTypeOK, Gates
  <1>2. \A a \in applied : a.revision < gate.revision /\ a.revision \in Nat
    BY <1>1 DEF GateInv, LogIsPast
  <1>3. LogIsPast'
    BY <1>1, <1>2 DEF GateInv, LogIsPast, RevisionMatches
  <1>4. LogIsFunction'
    BY <1>1, <1>2 DEF GateInv, LogIsFunction
  <1> QED
    BY <1>1, <1>3, <1>4

-----------------------------------------------------------------------------
\* The steps.

LEMMA DecideStep ==
  ASSUME GateInv, NEW c \in Calls, Decide(c)
  PROVE  GateInv'
  <1> DEFINE r == calls[c].request  at == calls[c].at  g == Found
  <1>0. GateTypeOK /\ GateHasRevision /\ CommandIsConfirmed /\ ExpiredTogether
    BY DEF GateInv
  <1>1. /\ g \in Gates /\ g.status # "none" /\ g.revision # 0 /\ gate.revision <= g.revision
        /\ gate.status # "none" => g = gate
    BY <1>0, FoundGate
  <1>2. calls[c] # NoCall
    BY DEF Decide, ConfirmHumanGate, RejectHumanGate, UndoHumanGate, RefuseHumanGate
  <1>3. r \in Requests /\ at \in Times
    BY <1>0, <1>2, CallHasRequest
  <1>4. /\ calls' = [calls EXCEPT ![c] = NoCall]
        /\ keys' = keys \cup {r}
        /\ UNCHANGED <<intent, command, runs, now>>
    BY DEF Decide, ConfirmHumanGate, RejectHumanGate, UndoHumanGate, RefuseHumanGate, Answered
  <1>5. /\ calls' \in [Calls -> CallStates] /\ keys' \subseteq Requests
        /\ intent' \in {"READY", "EXPIRED"} /\ command' \in CommandStatus
        /\ runs' \in [Materializers -> RunStates] /\ now' \in Times
    BY <1>0, <1>3, <1>4 DEF GateTypeOK, CallStates
  <1>6. CASE ConfirmHumanGate(c)
    <2>1. /\ gate' = Turned(g, "CONFIRMED", UndoDeadline(g, at))
          /\ lifecycle' = "AWAITING_MANUAL_CONFIRMATION"
          /\ intent = "READY" /\ RevisionMatches(r, g)
          /\ applied' = applied \cup {[request |-> r, revision |-> g.revision]}
      BY <1>6 DEF ConfirmHumanGate, MayConfirm, Answered
    <2>2. UndoDeadline(g, at) \in Nat
      BY <1>1, <1>3, UndoDeadlineIsTime
    <2>3. gate' \in Gates /\ gate'.status = "CONFIRMED" /\ gate'.revision = g.revision + 1
      BY <1>1, <2>1, <2>2 DEF Turned, Gates, GateStatus
    <2>4. LogIsPast' /\ LogIsFunction' /\ applied' \subseteq [request : Requests, revision : Nat]
      BY <1>1, <1>2, <2>1, <2>3, LogStep
    <2>5. CommandIsConfirmed' /\ ExpiredTogether' /\ GateHasRevision'
      BY <1>1, <1>4, <2>1, <2>3
      DEF CommandIsConfirmed, ExpiredTogether, GateHasRevision, Gates
    <2> QED
      BY <1>5, <2>1, <2>3, <2>4, <2>5 DEF GateInv, GateTypeOK, LifecycleStatus
  <1>7. CASE RejectHumanGate(c)
    <2>1. /\ gate' = Turned(g, "REJECTED", UndoDeadline(g, at))
          /\ lifecycle' = "BLOCKED"
          /\ g.status = "AWAITING_MANUAL_CONFIRMATION" /\ RevisionMatches(r, g)
          /\ applied' = applied \cup {[request |-> r, revision |-> g.revision]}
      BY <1>7 DEF RejectHumanGate, MayReject, Answered
    <2>2. UndoDeadline(g, at) \in Nat
      BY <1>1, <1>3, UndoDeadlineIsTime
    <2>3. gate' \in Gates /\ gate'.status = "REJECTED" /\ gate'.revision = g.revision + 1
      BY <1>1, <2>1, <2>2 DEF Turned, Gates, GateStatus
    <2>4. LogIsPast' /\ LogIsFunction' /\ applied' \subseteq [request : Requests, revision : Nat]
      BY <1>1, <1>2, <2>1, <2>3, LogStep
    <2>5. CommandIsConfirmed' /\ ExpiredTogether' /\ GateHasRevision'
      BY <1>0, <1>1, <1>4, <2>1, <2>3
      DEF CommandIsConfirmed, ExpiredTogether, GateHasRevision, Gates
    <2> QED
      BY <1>5, <2>1, <2>3, <2>4, <2>5 DEF GateInv, GateTypeOK, LifecycleStatus
  <1>8. CASE UndoHumanGate(c)
    <2>1. /\ gate' = Turned(gate, "AWAITING_MANUAL_CONFIRMATION", 0)
          /\ lifecycle' = "AWAITING_MANUAL_CONFIRMATION"
          /\ command = "none" /\ RevisionMatches(r, gate)
          /\ applied' = applied \cup {[request |-> r, revision |-> gate.revision]}
      BY <1>8 DEF UndoHumanGate, MayUndo, Answered
    <2>2. /\ gate \in Gates /\ gate' \in Gates /\ gate'.revision = gate.revision + 1
          /\ gate'.status = "AWAITING_MANUAL_CONFIRMATION"
      BY <1>0, <2>1 DEF Turned, GateTypeOK, Gates, GateStatus
    <2>3. gate.revision <= gate.revision
      BY <2>2 DEF Gates
    <2>4. LogIsPast' /\ LogIsFunction' /\ applied' \subseteq [request : Requests, revision : Nat]
      BY <1>2, <2>1, <2>2, <2>3, LogStep
    <2>5. CommandIsConfirmed' /\ ExpiredTogether' /\ GateHasRevision'
      BY <1>4, <2>1, <2>2 DEF CommandIsConfirmed, ExpiredTogether, GateHasRevision, Gates
    <2> QED
      BY <1>5, <2>1, <2>2, <2>4, <2>5 DEF GateInv, GateTypeOK, LifecycleStatus
  <1>9. CASE RefuseHumanGate(c)
    <2>1. /\ gate' = g \/ gate' = (IF gate.status = "none" THEN Opened(0) ELSE gate)
          /\ UNCHANGED applied /\ (lifecycle' = lifecycle \/ lifecycle' = "BLOCKED")
      BY <1>9 DEF RefuseHumanGate
    <2>2. /\ gate' \in Gates /\ gate'.status # "none" /\ gate'.revision # 0
          /\ gate.revision <= gate'.revision
          /\ gate.status # "none" => gate' = gate
          /\ gate'.status # gate.status => gate'.status = "AWAITING_MANUAL_CONFIRMATION"
      BY <1>0, <1>1, <2>1
      DEF Opened, Found, GateTypeOK, GateHasRevision, Gates, GateStatus
    <2>3. /\ CommandIsConfirmed' /\ ExpiredTogether' /\ GateHasRevision'
          /\ LogIsPast' /\ LogIsFunction'
      BY <1>0, <1>4, <2>1, <2>2
      DEF GateInv, GateTypeOK, CommandIsConfirmed, ExpiredTogether, GateHasRevision, LogIsPast,
          LogIsFunction, Gates
    <2> QED
      BY <1>0, <1>5, <2>1, <2>2, <2>3 DEF GateInv, GateTypeOK, LifecycleStatus
  <1> QED
    BY <1>6, <1>7, <1>8, <1>9 DEF Decide

\* The steps that leave the log alone.
LEMMA OtherStep ==
  ASSUME GateInv, [GateNext]_gateVars, \A c \in Calls : ~Decide(c)
  PROVE  GateInv'
  <1>0. GateTypeOK /\ GateHasRevision /\ CommandIsConfirmed /\ ExpiredTogether
        /\ LogIsPast /\ LogIsFunction
    BY DEF GateInv
  <1> USE DEF GateInv, GateTypeOK, GateHasRevision, CommandIsConfirmed, ExpiredTogether,
              LogIsPast, LogIsFunction
  <1>1. CASE EnsureHumanGate
    <2>1. PICK e \in GateExpiries :
            \/ gate.status = "none" /\ gate' = Opened(e)
            \/ gate.status # "none" /\ gate.expires = 0 /\ gate' = [gate EXCEPT !.expires = e]
      BY <1>1 DEF EnsureHumanGate
    <2>2. e \in Nat
      BY ConstantsAssumption
    <2>3. /\ gate' \in Gates /\ gate'.status # "none" /\ gate'.revision # 0
          /\ gate.revision <= gate'.revision
          /\ gate.status # "none" => gate'.status = gate.status
          /\ gate.status = "none" => gate'.status = "AWAITING_MANUAL_CONFIRMATION"
      BY <1>0, <2>1, <2>2 DEF Opened, Gates, GateStatus
    <2>4. UNCHANGED <<intent, command, lifecycle, keys, applied, calls, runs, now>>
      BY <1>1 DEF EnsureHumanGate
    <2>5. LogIsPast' /\ LogIsFunction'
      BY <1>0, <2>3, <2>4 DEF Gates
    <2>6. CommandIsConfirmed' /\ ExpiredTogether' /\ GateHasRevision'
      BY <1>0, <2>3, <2>4
    <2> QED
      BY <1>0, <2>3, <2>4, <2>5, <2>6
  <1>2. ASSUME NEW c \in Calls, NEW r \in Requests, CheckDuplicate(c, r) PROVE GateInv'
    BY <1>0, <1>2 DEF CheckDuplicate, CallStates
  <1>3. ASSUME NEW c \in Calls, LoseCall(c) PROVE GateInv'
    BY <1>0, <1>3 DEF LoseCall, CallStates
  <1>4. CASE ExpireHumanGate
    <2>1. /\ gate' = Turned(gate, "EXPIRED", gate.undo)
          /\ gate.status = "AWAITING_MANUAL_CONFIRMATION"
          /\ intent' = "EXPIRED" /\ lifecycle' = "EXPIRED"
          /\ UNCHANGED <<command, keys, applied, calls, runs, now>>
      BY <1>4 DEF ExpireHumanGate
    <2>2. gate' \in Gates /\ gate'.status = "EXPIRED" /\ gate'.revision = gate.revision + 1
      BY <1>0, <2>1 DEF Turned, Gates, GateStatus
    <2>3. LogIsPast' /\ LogIsFunction'
      BY <1>0, <2>1, <2>2 DEF Gates
    <2>4. CommandIsConfirmed' /\ ExpiredTogether' /\ GateHasRevision'
      BY <1>0, <2>1, <2>2 DEF Gates
    <2> QED
      BY <1>0, <2>1, <2>2, <2>3, <2>4 DEF LifecycleStatus
  <1>5. ASSUME NEW m \in Materializers, ListIntent(m) PROVE GateInv'
    BY <1>0, <1>5 DEF ListIntent, RunStates
  <1>6. ASSUME NEW m \in Materializers, PlanCommand(m) PROVE GateInv'
    <2>1. runs' \in [Materializers -> RunStates]
      BY <1>0, <1>6, ConstantsAssumption DEF PlanCommand, RunStates, Idle, Times
    <2> QED
      BY <1>0, <1>6, <2>1 DEF PlanCommand
  <1>7. ASSUME NEW m \in Materializers, PersistProviderCommand(m) PROVE GateInv'
    <2>1. /\ UNCHANGED <<intent, gate, keys, applied, calls, now>>
          /\ runs' = [runs EXCEPT ![m] = Idle]
          /\ command' = command
             \/ (command' = "pending" /\ intent = "READY" /\ gate.status = "CONFIRMED")
          /\ lifecycle' \in {"PROVIDER_COMMAND_READY", "BLOCKED", lifecycle}
      BY <1>7 DEF PersistProviderCommand
    <2>2. Idle \in RunStates
      BY ConstantsAssumption DEF Idle, RunStates, Times
    <2>3. runs' \in [Materializers -> RunStates]
      BY <1>0, <2>1, <2>2
    <2> QED
      BY <1>0, <2>1, <2>3 DEF CommandStatus, LifecycleStatus
  <1>8. CASE Tick
    BY <1>0, <1>8, ConstantsAssumption DEF Tick, Times
  <1>9. CASE UNCHANGED gateVars
    BY <1>0, <1>9 DEF gateVars
  <1> QED
    BY <1>1, <1>2, <1>3, <1>4, <1>5, <1>6, <1>7, <1>8, <1>9 DEF GateNext

LEMMA GateInvStep == GateInv /\ [GateNext]_gateVars => GateInv'
  <1>1. SUFFICES ASSUME GateInv, [GateNext]_gateVars PROVE GateInv'
    OBVIOUS
  <1>2. CASE \E c \in Calls : Decide(c)
    BY <1>1, <1>2, DecideStep
  <1>3. CASE \A c \in Calls : ~Decide(c)
    BY <1>1, <1>3, OtherStep
  <1> QED
    BY <1>2, <1>3

LEMMA GateInvariant == GateSpec => []GateInv
  BY GateInvInit, GateInvStep, PTL DEF GateSpec

\* The rows hold what the schema allows.
THEOREM GateTypeCorrect == GateSpec => []GateTypeOK
  <1>1. GateInv => GateTypeOK
    BY DEF GateInv
  <1> QED
    BY <1>1, GateInvariant, PTL

\* Whatever operators, sweeper and materializers read and do in whatever order,
\* a provider command is one of a confirmed, submittable intent.
THEOREM CommandIsConfirmedHolds == GateSpec => []CommandIsConfirmed
  <1>1. GateInv => CommandIsConfirmed
    BY DEF GateInv
  <1> QED
    BY <1>1, GateInvariant, PTL

\* Of all who decide on one revision, one is heard.
THEOREM RevisionsDecideOnceHolds == GateSpec => []RevisionsDecideOnce
  <1>1. GateInv => RevisionsDecideOnce
    BY DEF GateInv, RevisionsDecideOnce, LogIsPast, LogIsFunction
  <1> QED
    BY <1>1, GateInvariant, PTL

-----------------------------------------------------------------------------
\* The refinement.

LEMMA DecisionInit == GateInit => Decision!Init
  BY DEF GateInit, Decision!Init

LEMMA DecisionStep ==
  ASSUME GateInv, [GateNext]_gateVars
  PROVE  [Decision!Next]_(Decision!vars)
  <1> USE DEF Decision!vars
  <1>0. GateTypeOK /\ GateHasRevision /\ CommandIsConfirmed /\ ExpiredTogether
    BY DEF GateInv
  <1>1. CASE EnsureHumanGate
    <2>1. CASE gate.status = "none"
      BY <1>1, <2>1 DEF EnsureHumanGate, Opened, Decision!Next, Decision!Open
    <2>2. CASE gate.status # "none"
      BY <1>0, <1>1, <2>2 DEF EnsureHumanGate, GateTypeOK, Gates
    <2> QED
      BY <2>1, <2>2
  <1>2. ASSUME NEW c \in Calls, NEW r \in Requests, CheckDuplicate(c, r)
        PROVE  UNCHANGED Decision!vars
    BY <1>2 DEF CheckDuplicate
  <1>3. ASSUME NEW c \in Calls, LoseCall(c)
        PROVE  UNCHANGED Decision!vars
    BY <1>3 DEF LoseCall
  <1>4. ASSUME NEW c \in Calls, Decide(c)
        PROVE  [Decision!Next]_(Decision!vars)
    <2> DEFINE g == Found
    <2>1. /\ g \in Gates /\ gate \in Gates /\ g.status # "none"
          /\ gate.status # "none" => g = gate
          /\ gate.status = "none" => g.status = "AWAITING_MANUAL_CONFIRMATION"
      BY <1>0, FoundGate DEF GateTypeOK, Found, Opened
    <2>2. CASE ConfirmHumanGate(c)
      <3>1. /\ gate'.status = "CONFIRMED" /\ intent = "READY" /\ g.status # "REJECTED"
            /\ UNCHANGED command
        BY <2>1, <2>2 DEF ConfirmHumanGate, MayConfirm, Answered, Turned, Gates
      <3>2. gate.status \in {"none", "AWAITING_MANUAL_CONFIRMATION", "CONFIRMED"}
        BY <1>0, <2>1, <3>1 DEF ExpiredTogether, Gates, GateStatus
      <3> QED
        BY <3>1, <3>2 DEF Decision!Next, Decision!Decide, Decision!Undecided, Decision!Decisions
    <2>3. CASE RejectHumanGate(c)
      <3>1. /\ gate'.status = "REJECTED" /\ g.status = "AWAITING_MANUAL_CONFIRMATION"
            /\ UNCHANGED command
        BY <2>1, <2>3 DEF RejectHumanGate, MayReject, Answered, Turned, Gates
      <3>2. gate.status \in {"none", "AWAITING_MANUAL_CONFIRMATION"}
        BY <2>1, <3>1
      <3> QED
        BY <3>1, <3>2 DEF Decision!Next, Decision!Decide, Decision!Undecided, Decision!Decisions
    <2>4. CASE UndoHumanGate(c)
      <3>1. /\ gate'.status = "AWAITING_MANUAL_CONFIRMATION" /\ command = "none"
            /\ gate.status \in {"CONFIRMED", "REJECTED"} /\ UNCHANGED command
        BY <2>1, <2>4 DEF UndoHumanGate, MayUndo, Answered, Turned, Gates
      <3> QED
        BY <3>1 DEF Decision!Next, Decision!Undo, Decision!Decisions
    <2>5. CASE RefuseHumanGate(c)
      <3>1. UNCHANGED command
        BY <2>5 DEF RefuseHumanGate
      <3>2. gate.status # "none" => gate' = gate
        BY <2>1, <2>5 DEF RefuseHumanGate
      <3>3. gate.status = "none" => gate'.status = "AWAITING_MANUAL_CONFIRMATION"
        BY <2>1, <2>5 DEF RefuseHumanGate, Opened
      <3> QED
        BY <3>1, <3>2, <3>3 DEF Decision!Next, Decision!Open
    <2> QED
      BY <1>4, <2>2, <2>3, <2>4, <2>5 DEF Decide
  <1>5. CASE ExpireHumanGate
    BY <1>0, <1>5 DEF ExpireHumanGate, Turned, GateTypeOK, Gates, Decision!Next, Decision!Expire
  <1>6. ASSUME NEW m \in Materializers, ListIntent(m)
        PROVE  UNCHANGED Decision!vars
    BY <1>6 DEF ListIntent
  <1>7. ASSUME NEW m \in Materializers, PlanCommand(m)
        PROVE  UNCHANGED Decision!vars
    BY <1>7 DEF PlanCommand
  <1>8. ASSUME NEW m \in Materializers, PersistProviderCommand(m)
        PROVE  [Decision!Next]_(Decision!vars)
    <2>1. /\ UNCHANGED gate
          /\ command' = command
             \/ (command = "none" /\ command' = "pending" /\ gate.status = "CONFIRMED")
      BY <1>8 DEF PersistProviderCommand
    <2> QED
      BY <2>1 DEF Decision!Next, Decision!Order
  <1>9. CASE Tick
    BY <1>9 DEF Tick
  <1>10. CASE UNCHANGED gateVars
    BY <1>10 DEF gateVars
  <1> QED
    BY <1>1, <1>2, <1>3, <1>4, <1>5, <1>6, <1>7, <1>8, <1>9, <1>10 DEF GateNext

\* The gate implements GateDecision: no decision is taken back once a command is
\* ordered, no command is ordered twice or of an undecided gate, and an expired
\* gate stays closed.
THEOREM DecisionRefinedHolds == GateSpec => DecisionRefined
  <1>1. GateInv /\ [GateNext]_gateVars => [Decision!Next]_(Decision!vars)
    BY DecisionStep
  <1> QED
    BY <1>1, DecisionInit, GateInvariant, PTL DEF GateSpec, DecisionRefined, Decision!Spec

-----------------------------------------------------------------------------
\* The idempotency key.  A request that is applied has an event under its key;
\* so a call that begins later finds it, and one that began before is a call
\* that overlaps.
Requested == {a.request : a \in applied}

AppliedHasKey == Requested \subseteq keys
CheckedIsNew ==
    \A c \in Calls :
        calls[c] # NoCall /\ calls[c].request.expect = 0 => calls[c].request \notin Requested
KeyInv == AppliedHasKey /\ CheckedIsNew /\ DecisionAppliedOnce

LEMMA KeyInit == GateInit => KeyInv
  BY DEF GateInit, KeyInv, AppliedHasKey, CheckedIsNew, DecisionAppliedOnce, Requested

\* A decision of a call whose repetitions, if they name no revision, are none.
LEMMA KeyDecided ==
  ASSUME GateInv, GateInv', KeyInv, NoOverlap, NEW c \in Calls, calls[c] # NoCall, NEW n \in Nat,
         keys' = keys \cup {calls[c].request},
         calls' = [calls EXCEPT ![c] = NoCall],
         applied' = applied \cup {[request |-> calls[c].request, revision |-> n]}
  PROVE  KeyInv'
  <1> DEFINE r == calls[c].request
             new == [request |-> r, revision |-> n]
  <1>1. calls \in [Calls -> CallStates] /\ r.expect \in Nat
    BY CallHasRequest DEF GateInv, GateTypeOK
  <1>2. Requested' = Requested \cup {r}
    <2>1. new.request = r
      OBVIOUS
    <2>2. QED
      BY <2>1 DEF Requested
  <1>3. AppliedHasKey'
    BY <1>2 DEF KeyInv, AppliedHasKey
  <1>4. CheckedIsNew'
    <2> SUFFICES ASSUME NEW d \in Calls, calls'[d] # NoCall, calls'[d].request.expect = 0
                 PROVE  calls'[d].request \notin Requested'
      BY DEF CheckedIsNew
    <2>1. d # c /\ calls'[d] = calls[d]
      BY <1>1
    <2>2. calls[d].request \notin Requested
      BY <2>1 DEF KeyInv, CheckedIsNew
    <2>3. calls[d].request # r
      BY <2>1 DEF NoOverlap
    <2>4. QED
      BY <1>2, <2>1, <2>2, <2>3
  <1>5. DecisionAppliedOnce'
    <2>1. CASE r.expect = 0
      <3>1. \A a \in applied : a.request # r
        BY <2>1 DEF KeyInv, CheckedIsNew, Requested
      <3>2. QED
        BY <3>1 DEF KeyInv, DecisionAppliedOnce
    <2>2. CASE r.expect # 0
      <3>1. \A a, b \in applied' : a.request = r /\ b.request = r => a = b
        BY <2>2 DEF GateInv, LogIsPast, LogIsFunction
      <3>2. QED
        BY <3>1 DEF KeyInv, DecisionAppliedOnce
    <2>3. QED
      BY <2>1, <2>2
  <1>6. QED
    BY <1>3, <1>4, <1>5 DEF KeyInv

\* Every step preserves it as long as no two calls overlap.
LEMMA KeyStep ==
  ASSUME GateInv, KeyInv, NoOverlap, [GateNext]_gateVars
  PROVE  KeyInv'
  <1>0. GateInv' /\ calls \in [Calls -> CallStates]
    BY GateInvStep DEF GateInv, GateTypeOK
  <1> USE DEF AppliedHasKey, CheckedIsNew, DecisionAppliedOnce, Requested, KeyInv
  <1>1. CASE UNCHANGED <<keys, applied, calls>>
    BY <1>1
  <1>2. ASSUME NEW c \in Calls, NEW r \in Requests, CheckDuplicate(c, r) PROVE KeyInv'
    <2>1. \A d \in Calls : calls'[d] = calls[d] \/ calls'[d].request = r
      BY <1>0, <1>2 DEF CheckDuplicate
    <2>2. r \notin Requested /\ UNCHANGED <<keys, applied>>
      BY <1>2 DEF CheckDuplicate
    <2>3. QED
      BY <2>1, <2>2
  <1>3. ASSUME NEW c \in Calls, LoseCall(c) PROVE KeyInv'
    <2>1. \A d \in Calls : calls'[d] = calls[d] \/ calls'[d] = NoCall
      BY <1>0, <1>3 DEF LoseCall
    <2>2. UNCHANGED <<keys, applied>>
      BY <1>3 DEF LoseCall
    <2>3. QED
      BY <2>1, <2>2
  <1>4. ASSUME NEW c \in Calls, RefuseHumanGate(c) PROVE KeyInv'
    <2>1. \A d \in Calls : calls'[d] = calls[d] \/ calls'[d] = NoCall
      BY <1>0, <1>4 DEF RefuseHumanGate
    <2>2. keys \subseteq keys' /\ UNCHANGED applied
      BY <1>4 DEF RefuseHumanGate
    <2>3. QED
      BY <2>1, <2>2
  <1>5. ASSUME NEW c \in Calls, ConfirmHumanGate(c) \/ RejectHumanGate(c) \/ UndoHumanGate(c)
        PROVE  KeyInv'
    <2>1. Found.revision \in Nat /\ gate.revision \in Nat
      BY FoundGate DEF GateInv, GateTypeOK, Gates
    <2>2. \E n \in Nat :
            /\ calls[c] # NoCall
            /\ keys' = keys \cup {calls[c].request}
            /\ calls' = [calls EXCEPT ![c] = NoCall]
            /\ applied' = applied \cup {[request |-> calls[c].request, revision |-> n]}
      BY <1>5, <2>1 DEF ConfirmHumanGate, RejectHumanGate, UndoHumanGate, Answered
    <2> HIDE DEF AppliedHasKey, CheckedIsNew, DecisionAppliedOnce, Requested, KeyInv
    <2>3. QED
      BY <1>0, <2>2, KeyDecided
  <1>6. CASE EnsureHumanGate \/ ExpireHumanGate \/ Tick
    BY <1>1, <1>6 DEF EnsureHumanGate, ExpireHumanGate, Tick
  <1>7. ASSUME NEW m \in Materializers, ListIntent(m) \/ PlanCommand(m) \/ PersistProviderCommand(m)
        PROVE  KeyInv'
    BY <1>1, <1>7 DEF ListIntent, PlanCommand, PersistProviderCommand
  <1>8. CASE UNCHANGED gateVars
    BY <1>1, <1>8 DEF gateVars
  <1> QED
    BY <1>2, <1>3, <1>4, <1>5, <1>6, <1>7, <1>8 DEF GateNext, Decide

\* A retry is idempotent unless it overlaps the call it repeats and names no
\* revision: the finding of the overlapping confirmations has no other cause.
THEOREM KeysSufficeHolds == GateSpec => KeysSuffice
  <1>1. GateInv /\ KeyInv /\ NoOverlap /\ [GateNext]_gateVars => KeyInv'
    BY KeyStep
  <1>2. KeyInv => DecisionAppliedOnce
    BY DEF KeyInv
  <1> QED
    BY <1>1, <1>2, KeyInit, GateInvariant, PTL DEF GateSpec, KeysSuffice
=============================================================================

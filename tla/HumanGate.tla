----------------------------- MODULE HumanGate ------------------------------
(***************************************************************************)
(* The human execution gate of one portfolio order intent.                 *)
(*                                                                         *)
(* An operator confirms or rejects the intent and may undo the decision    *)
(* for some seconds.  A materializer turns an intent whose gate is         *)
(* confirmed into a provider command; a sweeper expires gates nobody       *)
(* decided.  Intents do not touch each other's rows.                       *)
(*                                                                         *)
(* Every call takes its clock reading when it arrives and decides later:   *)
(* it first looks, without a lock, for an event under its idempotency key, *)
(* then locks intent and gate and decides in one transaction.  Calls are   *)
(* sent again, with the same key, when the client got no answer.           *)
(*                                                                         *)
(* The approved terms are left out: confirmHumanGate refuses others and    *)
(* nothing changes an intent's terms afterwards.  A call without a key is  *)
(* one whose key is new.                                                   *)
(***************************************************************************)
EXTENDS Integers

CONSTANTS
    Requests,       \* what operators ask for; a request is its idempotency key
    Calls,          \* API requests being handled
    Materializers,  \* runs of materializeReadyCommands
    UndoEnabled,    \* DESK_HUMAN_GATE_UNDO_ENABLED
    UndoWindow,     \* policy.windowSeconds
    IntentExpiry,   \* expires_at_utc of the intent
    GateExpiries,   \* what callers of ensureHumanGate give as expiry
    MaxNow          \* bound: the clock stops there

Operations == {"confirm", "reject", "undo"}

\* expect is the revision the operator saw; 0 when the caller gives none.
ASSUME ConstantsAssumption ==
    /\ Requests \subseteq [op : Operations, expect : Nat, id : Nat]
    /\ UndoEnabled \in BOOLEAN
    /\ UndoWindow \in Nat \ {0}
    /\ IntentExpiry \in Nat \ {0}
    /\ GateExpiries \subseteq Nat
    /\ MaxNow \in Nat \ {0}

VARIABLES
    intent,     \* portfolio_order_intent_lineage.status
    gate,       \* the row of human_execution_gates
    command,    \* broker_provider_commands.status
    lifecycle,  \* portfolio_order_intent_execution_states.lifecycle_status
    keys,       \* requests with an event in human_execution_gate_events
    applied,    \* decisions written, with the revision they were taken at
    calls,      \* per call: the request it checked and when it arrived
    runs,       \* per materializer: how far it is with the intent
    now         \* the clock

gateVars == <<intent, gate, command, lifecycle, keys, applied, calls, runs, now>>

-----------------------------------------------------------------------------
\* Types.  A time of 0 is a column that is null.

Times == 0..MaxNow

GateStatus == {"none", "AWAITING_MANUAL_CONFIRMATION", "CONFIRMED", "REJECTED", "EXPIRED"}

CommandStatus == {"none", "pending", "leased", "sent", "acknowledged", "failed",
                  "cancelled", "unknown"}

LifecycleStatus == {"none", "AWAITING_MANUAL_CONFIRMATION", "PROVIDER_COMMAND_READY",
                    "LEASED", "SENT", "ACKNOWLEDGED", "PARTIALLY_FILLED", "FILLED",
                    "REJECTED", "CANCELLED", "EXPIRED", "UNKNOWN",
                    "RECONCILIATION_REQUIRED", "BLOCKED"}

Gates == [status : GateStatus, revision : Nat, expires : Nat, undo : Nat]

\* A call that is not being handled.
NoCall == [phase |-> "idle"]
CallStates == {NoCall} \cup [phase : {"checked"}, request : Requests, at : Times]

RunStates == [phase : {"idle", "listed", "planned"}, at : Times]
Idle == [phase |-> "idle", at |-> 0]

GateInit ==
    /\ intent = "READY"
    /\ gate = [status |-> "none", revision |-> 0, expires |-> 0, undo |-> 0]
    /\ command = "none"
    /\ lifecycle = "none"
    /\ keys = {}
    /\ applied = {}
    /\ calls = [c \in Calls |-> NoCall]
    /\ runs = [m \in Materializers |-> Idle]
    /\ now = 1

-----------------------------------------------------------------------------
\* A definition marked "faulty" is not the code's: it is the operator after it
\* with a plausible bug, by which the properties are shown to notice that bug.

\* Expiry.

Passed(deadline, at) == deadline # 0 /\ deadline <= at

\* The deadline of confirmations and of commands; rejections and undos look at
\* the gate's own expiry only.
Deadline(g) == IF g.expires = 0 THEN IntentExpiry ELSE g.expires

UndoDeadline(g, at) ==
    IF ~UndoEnabled THEN 0
    ELSE IF g.expires # 0 /\ g.expires < at + UndoWindow THEN g.expires
    ELSE at + UndoWindow

Opened(expires) ==
    [status |-> "AWAITING_MANUAL_CONFIRMATION", revision |-> 1,
     expires |-> expires, undo |-> 0]

\* Every change of a gate's status raises its revision.
Turned(g, status, undo) ==
    [status |-> status, revision |-> g.revision + 1, expires |-> g.expires, undo |-> undo]

-----------------------------------------------------------------------------
\* The operator.

\* ensureHumanGate.  A call that looked before the row was there inserts into
\* the conflict and completes the expiry.
EnsureHumanGate ==
    /\ \E e \in GateExpiries :
          \/ gate.status = "none" /\ gate' = Opened(e)
          \/ gate.status # "none" /\ gate.expires = 0 /\ gate' = [gate EXCEPT !.expires = e]
    /\ UNCHANGED <<intent, command, lifecycle, keys, applied, calls, runs, now>>

\* faulty: compares the key with the latest decision's only.
CheckDuplicateLatest(c, r) ==
    /\ calls[c] = NoCall
    /\ [request |-> r, revision |-> gate.revision - 1] \notin applied
    /\ calls' = [calls EXCEPT ![c] = [phase |-> "checked", request |-> r, at |-> now]]
    /\ UNCHANGED <<intent, gate, command, lifecycle, keys, applied, runs, now>>

\* The service stamps the call and the transaction looks for its key; a key
\* that has an event is answered from it.
CheckDuplicate(c, r) ==
    /\ calls[c] = NoCall
    /\ r \notin keys
    /\ calls' = [calls EXCEPT ![c] = [phase |-> "checked", request |-> r, at |-> now]]
    /\ UNCHANGED <<intent, gate, command, lifecycle, keys, applied, runs, now>>

\* The client, or the API, gives the call up before its transaction decides.
LoseCall(c) ==
    /\ calls[c] # NoCall
    /\ calls' = [calls EXCEPT ![c] = NoCall]
    /\ UNCHANGED <<intent, gate, command, lifecycle, keys, applied, runs, now>>

\* faulty: refuses only a revision that does not exist yet.
RevisionMatchesOrPast(r, g) == r.expect <= g.revision

RevisionMatches(r, g) == r.expect = 0 \/ r.expect = g.revision

\* humanGateConfirmationIssue: a confirmed gate may be confirmed again.
MayConfirm(r, at, g) ==
    /\ intent = "READY"
    /\ g.status # "REJECTED"
    /\ ~Passed(Deadline(g), at)
    /\ RevisionMatches(r, g)

MayReject(r, at, g) ==
    /\ g.status = "AWAITING_MANUAL_CONFIRMATION"
    /\ ~Passed(g.expires, at)
    /\ RevisionMatches(r, g)

\* faulty: does not count the commands.
MayUndoOrdered(r, at, g) ==
    /\ UndoEnabled
    /\ g.status \in {"CONFIRMED", "REJECTED"}
    /\ RevisionMatches(r, g)
    /\ ~Passed(g.expires, at)
    /\ g.undo > at

\* evaluateHumanGateUndoV1, with the gate locked and the commands counted.
MayUndo(r, at, g) ==
    /\ UndoEnabled
    /\ g.status \in {"CONFIRMED", "REJECTED"}
    /\ RevisionMatches(r, g)
    /\ command = "none"
    /\ ~Passed(g.expires, at)
    /\ g.undo > at

\* The gate a decision finds: confirming and rejecting open a missing one.
Found == IF gate.status = "none" THEN Opened(IntentExpiry) ELSE gate

\* What every decision writes besides the gate: its event and the log.
Answered(c, r, g) ==
    /\ keys' = keys \cup {r}
    /\ applied' = applied \cup {[request |-> r, revision |-> g.revision]}
    /\ calls' = [calls EXCEPT ![c] = NoCall]
    /\ UNCHANGED <<intent, command, runs, now>>

ConfirmHumanGate(c) ==
    LET r == calls[c].request  at == calls[c].at  g == Found IN
    /\ calls[c] # NoCall /\ r.op = "confirm"
    /\ MayConfirm(r, at, g)
    /\ gate' = Turned(g, "CONFIRMED", UndoDeadline(g, at))
    /\ lifecycle' = "AWAITING_MANUAL_CONFIRMATION"
    /\ Answered(c, r, g)

RejectHumanGate(c) ==
    LET r == calls[c].request  at == calls[c].at  g == Found IN
    /\ calls[c] # NoCall /\ r.op = "reject"
    /\ MayReject(r, at, g)
    /\ gate' = Turned(g, "REJECTED", UndoDeadline(g, at))
    /\ lifecycle' = "BLOCKED"
    /\ Answered(c, r, g)

UndoHumanGate(c) ==
    LET r == calls[c].request  at == calls[c].at IN
    /\ calls[c] # NoCall /\ r.op = "undo"
    /\ MayUndo(r, at, gate)
    /\ gate' = Turned(gate, "AWAITING_MANUAL_CONFIRMATION", 0)
    /\ lifecycle' = "AWAITING_MANUAL_CONFIRMATION"
    /\ Answered(c, r, gate)

\* A refusal is an event under the key as well.  It blocks the intent's
\* lifecycle, whatever that had become; only a refused undo leaves it alone,
\* unless there is no gate: then one without expiry is opened.
RefuseHumanGate(c) ==
    LET r == calls[c].request  at == calls[c].at IN
    /\ calls[c] # NoCall
    /\ \/ r.op = "confirm" /\ ~MayConfirm(r, at, Found) /\ gate' = Found
       \/ r.op = "reject" /\ ~MayReject(r, at, Found) /\ gate' = Found
       \/ /\ r.op = "undo" /\ ~MayUndo(r, at, gate)
          /\ gate' = IF gate.status = "none" THEN Opened(0) ELSE gate
    /\ lifecycle' = IF r.op = "undo" /\ gate.status # "none" THEN lifecycle ELSE "BLOCKED"
    /\ keys' = keys \cup {r}
    /\ calls' = [calls EXCEPT ![c] = NoCall]
    /\ UNCHANGED <<intent, command, applied, runs, now>>

-----------------------------------------------------------------------------
\* Expiry and commands.

\* faulty: sweeps only where the lifecycle says the gate is waiting.
ExpireHumanGateAwaiting ==
    /\ intent = "READY" /\ lifecycle = "AWAITING_MANUAL_CONFIRMATION"
    /\ gate.status = "AWAITING_MANUAL_CONFIRMATION"
    /\ Passed(gate.expires, now)
    /\ gate' = Turned(gate, "EXPIRED", gate.undo)
    /\ intent' = "EXPIRED"
    /\ lifecycle' = "EXPIRED"
    /\ UNCHANGED <<command, keys, applied, calls, runs, now>>

\* The sweeper: gate, intent and lifecycle in one transaction.
ExpireHumanGate ==
    /\ intent = "READY"
    /\ gate.status = "AWAITING_MANUAL_CONFIRMATION"
    /\ Passed(gate.expires, now)
    /\ gate' = Turned(gate, "EXPIRED", gate.undo)
    /\ intent' = "EXPIRED"
    /\ lifecycle' = "EXPIRED"
    /\ UNCHANGED <<command, keys, applied, calls, runs, now>>

\* listSubmittablePortfolioOrderIntents and humanGateIssues, without a lock.
ListIntent(m) ==
    /\ runs[m] = Idle
    /\ intent = "READY"
    /\ gate.status = "CONFIRMED"
    /\ ~Passed(Deadline(gate), now)
    /\ runs' = [runs EXCEPT ![m] = [phase |-> "listed", at |-> now]]
    /\ UNCHANGED <<intent, gate, command, lifecycle, keys, applied, calls, now>>

\* listActiveProviderCommands and buildExecutionProviderCommandV1: an active
\* command that is not acknowledged makes the plan a duplicate.
PlanCommand(m) ==
    /\ runs[m].phase = "listed"
    /\ runs' = [runs EXCEPT ![m] =
         IF command \in {"pending", "leased", "sent", "unknown"} THEN Idle
         ELSE [phase |-> "planned", at |-> runs[m].at]]
    /\ UNCHANGED <<intent, gate, command, lifecycle, keys, applied, calls, now>>

\* faulty: trusts what was listed.
PersistProviderCommandAsListed(m) ==
    /\ runs[m].phase = "planned"
    /\ runs' = [runs EXCEPT ![m] = Idle]
    /\ command' = IF command = "none" THEN "pending" ELSE command
    /\ lifecycle' = IF command = "none" THEN "PROVIDER_COMMAND_READY" ELSE lifecycle
    /\ UNCHANGED <<intent, gate, keys, applied, calls, now>>

\* persistProviderCommand, with intent and gate locked: the gate must still be
\* confirmed and the command's idempotency key unused.
PersistProviderCommand(m) ==
    LET holds == gate.status = "CONFIRMED" /\ ~Passed(Deadline(gate), runs[m].at) IN
    /\ runs[m].phase = "planned"
    /\ runs' = [runs EXCEPT ![m] = Idle]
    /\ \/ /\ intent = "READY" /\ holds /\ command = "none"
          /\ command' = "pending" /\ lifecycle' = "PROVIDER_COMMAND_READY"
       \/ /\ intent = "READY" /\ ~holds
          /\ lifecycle' = "BLOCKED" /\ UNCHANGED command
       \/ /\ intent # "READY" \/ (holds /\ command # "none")
          /\ UNCHANGED <<command, lifecycle>>
    /\ UNCHANGED <<intent, gate, keys, applied, calls, now>>

Tick ==
    /\ now < MaxNow
    /\ now' = now + 1
    /\ UNCHANGED <<intent, gate, command, lifecycle, keys, applied, calls, runs>>

-----------------------------------------------------------------------------
Decide(c) ==
    \/ ConfirmHumanGate(c)
    \/ RejectHumanGate(c)
    \/ UndoHumanGate(c)
    \/ RefuseHumanGate(c)

GateNext ==
    \/ EnsureHumanGate
    \/ \E c \in Calls :
          \/ \E r \in Requests : CheckDuplicate(c, r)
          \/ LoseCall(c)
          \/ Decide(c)
    \/ ExpireHumanGate
    \/ \E m \in Materializers :
          ListIntent(m) \/ PlanCommand(m) \/ PersistProviderCommand(m)
    \/ Tick

\* The clock goes on, the sweeper comes round and a call ends one way or the
\* other.
GateFairness ==
    /\ WF_gateVars(Tick)
    /\ WF_gateVars(ExpireHumanGate)
    /\ \A c \in Calls : WF_gateVars(Decide(c) \/ LoseCall(c))

GateSpec == GateInit /\ [][GateNext]_gateVars /\ GateFairness

-----------------------------------------------------------------------------
\* Properties.

\* The columns hold what the schema lets them hold (050 and 045 of the
\* migrations), and the log holds requests and revisions.
GateTypeOK ==
    /\ intent \in {"READY", "EXPIRED"}
    /\ gate \in Gates
    /\ command \in CommandStatus
    /\ lifecycle \in LifecycleStatus
    /\ keys \subseteq Requests
    /\ applied \subseteq [request : Requests, revision : Nat]
    /\ calls \in [Calls -> CallStates]
    /\ runs \in [Materializers -> RunStates]
    /\ now \in Times

\* A provider command exists only of an intent that is still submittable and
\* whose confirmation stands: no undo, rejection or expiry gets past a
\* materializer that read the gate before, nor the other way round.
CommandIsConfirmed ==
    command # "none" => gate.status = "CONFIRMED" /\ intent = "READY"

\* Of all operators that decide on what they saw of one revision, one is heard:
\* expectedRevision is compared with the gate locked.
RevisionsDecideOnce ==
    \A a, b \in applied :
        a.request.expect # 0 /\ a.request.expect = b.request.expect => a = b

\* A gate that has an expiry does not wait for the operator for ever.
GatesEnd ==
    (gate.status = "AWAITING_MANUAL_CONFIRMATION" /\ gate.expires # 0)
        ~> gate.status # "AWAITING_MANUAL_CONFIRMATION"

\* The idempotency key makes a decision count once (LOT-005, "Double
\* confirmation idempotente").  The code looks for the key before it locks.
DecisionAppliedOnce ==
    \A a, b \in applied : a.request = b.request => a = b

\* What is missing for that is told apart here: a repetition counts twice only
\* if it overlaps the call it repeats and names no revision.  While no two such
\* calls are handled at one time, the key alone makes a decision count once.
NoOverlap ==
    \A c, d \in Calls :
        /\ c # d /\ calls[c] # NoCall /\ calls[d] # NoCall
        /\ calls[c].request = calls[d].request
        => calls[c].request.expect # 0

KeysSuffice == []NoOverlap => []DecisionAppliedOnce

\* The gate implements GateDecision.
Decision == INSTANCE GateDecision WITH
    decision <- gate.status,
    ordered <- command # "none"

DecisionRefined == Decision!Spec
=============================================================================

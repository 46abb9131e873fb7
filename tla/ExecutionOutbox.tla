-------------------------- MODULE ExecutionOutbox --------------------------
(***************************************************************************)
(* The entry path of the NinjaTrader gateway: an order intent is created   *)
(* by a passing risk check, approved or rejected by the operator, queued   *)
(* in broker_execution_outbox, leased to the AddOn over HTTP, submitted to *)
(* the broker and reported back.                                           *)
(*                                                                         *)
(* Actors: the API's operator actions, the API's claim requests            *)
(* (Handlers), the AddOn's transport loop, and the broker.  Each SQL       *)
(* transaction is one action; statements the code issues outside a         *)
(* transaction are separate actions, so that other actors run in between.  *)
(*                                                                         *)
(* approval_status is not a variable: every statement that makes an intent *)
(* queued writes 'approved' beside it and no intent becomes queued twice,  *)
(* so the test on it in peekOutbox follows from the test on the status.    *)
(* All intents are for one instrument and session of one account.          *)
(***************************************************************************)
EXTENDS Naturals, Sequences, FiniteSets

CONSTANTS
    Intents,       \* trade_order_intents
    Handlers,      \* claim requests the API may be serving at one time
    MaxRestarts,   \* bound: NinjaTrader restarts
    MaxFaults,     \* bound: lost or overdue HTTP exchanges, API restarts
    MaxToggles,    \* bound: kill switch operations
    UpdatesLate    \* order updates may be on their way when the AddOn polls

\* UpdatesLate covers an update the platform raises late, one that is left in
\* the queue because a request carries 100 updates at most, and one inside an
\* overdue request the API still serves.
ASSUME ConstantsAssumption ==
    /\ IsFiniteSet(Handlers)
    /\ UpdatesLate \in BOOLEAN
    /\ MaxRestarts \in Nat
    /\ MaxFaults \in Nat
    /\ MaxToggles \in Nat

VARIABLES
    locked,        \* broker_execution_locks holds an active global lock
    toggles,       \* kill switch operations so far
    expired,       \* intents whose expires_at has passed
    stale,         \* intents whose decision is past its valid_until
    intent,        \* trade_order_intents.status
    approvals,     \* rows <<intent, verdict>> of trade_approvals
    outbox,        \* broker_execution_outbox.status
    attempts,      \* broker_execution_outbox.attempt_count
    leaseLive,     \* lease_expires_at is in the future
    queue,         \* outbox rows in the order of created_at
    rejecting,     \* next statement of a rejectIntent in progress
    claim,         \* claim requests in progress in the API
    addonPc,       \* where the AddOn's transport loop stands
    waiting,       \* the claim request the AddOn waits for
    held,          \* the command the AddOn is executing or completing
    journal,       \* command ids in the AddOn's processed-commands file
    managed,       \* commands whose order this AddOn process follows
    events,        \* order updates in the AddOn's memory, not yet sent
    posts,         \* completions on their way to, or inside, the API
    placed,        \* orders the broker holds, named by their command
    filled,        \* orders that filled
    refused,       \* orders the broker rejected
    acked,         \* intents for which a live order status was recorded
    trades,        \* intents with an open row in trades
    seenFlat,      \* the latest stored AddOn snapshot shows no position
    restarts,      \* NinjaTrader restarts so far
    faults         \* faults so far

deskVars   == <<intent, approvals, outbox, attempts, leaseLive, queue, acked, trades, seenFlat>>
clockVars  == <<expired, stale>>
lockVars   == <<locked, toggles>>
addonVars  == <<addonPc, waiting, held, journal, managed, events>>
brokerVars == <<placed, filled, refused>>
countVars  == <<restarts, faults>>
vars == <<deskVars, clockVars, lockVars, addonVars, brokerVars, countVars,
          rejecting, claim, posts>>

-----------------------------------------------------------------------------
\* Types.

IntentStatus ==
    {"none", "pending_approval", "queued", "sent", "acknowledged", "rejected"}

\* "rendered" is written by the ATI file bridge's dry run only, which the
\* AddOn mode excludes; "expired" is never written.
OutboxStatus == {"none", "pending", "leased", "delivered", "failed", "acknowledged", "cancelled"}

\* A command is issued per lease: its id is a digest that covers issued_at,
\* so the command of lease n of intent i is <<i, n>>.
Commands == Intents \X (Nat \ {0})

OrderUpdates == [cmd : Commands, status : {"working", "filled", "rejected"}]

Completions == [cmd : Commands, status : {"delivered", "failed"}, phase : {"posted", "row_done"}]

Claims == [pc : {"idle", "peek"}] \cup [pc : {"check", "lease"}, intent : Intents]

TypeOK ==
    /\ locked \in BOOLEAN /\ toggles \in Nat
    /\ expired \subseteq Intents /\ stale \subseteq Intents
    /\ intent \in [Intents -> IntentStatus]
    /\ approvals \subseteq Intents \X {"approved", "rejected"}
    /\ outbox \in [Intents -> OutboxStatus]
    /\ attempts \in [Intents -> Nat]
    /\ leaseLive \in [Intents -> BOOLEAN]
    /\ queue \in Seq(Intents)
    /\ rejecting \in [Intents -> {"idle", "intent", "outbox"}]
    /\ claim \in [Handlers -> Claims]
    /\ addonPc \in {"flush", "ready", "polling", "holding", "marking", "completing"}
    /\ waiting \subseteq Handlers
    /\ held \subseteq Commands /\ journal \subseteq Commands /\ managed \subseteq Commands
    /\ events \subseteq OrderUpdates
    /\ posts \subseteq Completions
    /\ placed \subseteq Commands /\ filled \subseteq placed /\ refused \subseteq placed
    /\ acked \subseteq Intents /\ trades \subseteq Intents
    /\ seenFlat \in BOOLEAN
    /\ restarts \in Nat /\ faults \in Nat

Init ==
    /\ locked = FALSE /\ toggles = 0
    /\ expired = {} /\ stale = {}
    /\ intent = [i \in Intents |-> "none"]
    /\ approvals = {}
    /\ outbox = [i \in Intents |-> "none"]
    /\ attempts = [i \in Intents |-> 0]
    /\ leaseLive = [i \in Intents |-> FALSE]
    /\ queue = <<>>
    /\ rejecting = [i \in Intents |-> "idle"]
    /\ claim = [h \in Handlers |-> [pc |-> "idle"]]
    /\ addonPc = "flush"
    /\ waiting = {} /\ held = {} /\ journal = {} /\ managed = {}
    /\ events = {} /\ posts = {}
    /\ placed = {} /\ filled = {} /\ refused = {}
    /\ acked = {} /\ trades = {} /\ seenFlat = TRUE
    /\ restarts = 0 /\ faults = 0

\* A definition marked "faulty" is not the code's: it is the operator after it
\* with a plausible bug, by which the properties are shown to notice that bug.

Fault == faults < MaxFaults /\ faults' = faults + 1 /\ UNCHANGED restarts

-----------------------------------------------------------------------------
\* Operator actions and policy evaluation.

\* Faulty: the second evaluation, at the claim, does not read the locks.
RiskPassUnlocked(i) == i \notin stale /\ trades = {}

\* The gates of evaluateBrokerPolicy that this model's state can close:
\* NO_EXECUTION_LOCK, the decision's own validity, NO_DUPLICATE_POSITION.
RiskPass(i) == ~locked /\ i \notin stale /\ trades = {}

\* evaluateDecision: a passing check stores the intent; its idempotency key
\* makes a second evaluation return the stored row.
EvaluateDecision(i) ==
    /\ RiskPass(i)
    /\ intent[i] = "none"
    /\ intent' = [intent EXCEPT ![i] = "pending_approval"]
    /\ UNCHANGED <<approvals, outbox, attempts, leaseLive, queue, acked, trades, seenFlat,
                   clockVars, lockVars, addonVars, brokerVars, countVars, rejecting, claim, posts>>

\* approveIntent, one transaction.  The AUTO mode reaches it without another
\* look at the risk gates, so none guards it here.
ApproveIntent(i) ==
    /\ intent[i] = "pending_approval"
    /\ i \notin expired
    /\ approvals' = approvals \cup {<<i, "approved">>}
    /\ intent' = [intent EXCEPT ![i] = "queued"]
    /\ IF outbox[i] = "none"
         THEN /\ outbox' = [outbox EXCEPT ![i] = "pending"]
              /\ queue' = Append(queue, i)
         ELSE UNCHANGED <<outbox, queue>>
    /\ UNCHANGED <<attempts, leaseLive, acked, trades, seenFlat,
                   clockVars, lockVars, addonVars, brokerVars, countVars, rejecting, claim, posts>>

\* rejectIntent is three statements without a transaction around them.  An
\* operator may reject at any time, and again: the three are then issued again.
RejectIntent(i) ==
    /\ intent[i] # "none"
    /\ rejecting[i] = "idle"
    /\ approvals' = approvals \cup {<<i, "rejected">>}
    /\ rejecting' = [rejecting EXCEPT ![i] = "intent"]
    /\ UNCHANGED <<intent, outbox, attempts, leaseLive, queue, acked, trades, seenFlat,
                   clockVars, lockVars, addonVars, brokerVars, countVars, claim, posts>>

RejectIntentRow(i) ==
    /\ rejecting[i] = "intent"
    /\ intent' = [intent EXCEPT ![i] = IF @ \in {"pending_approval", "queued"} THEN "rejected" ELSE @]
    /\ rejecting' = [rejecting EXCEPT ![i] = "outbox"]
    /\ UNCHANGED <<approvals, outbox, attempts, leaseLive, queue, acked, trades, seenFlat,
                   clockVars, lockVars, addonVars, brokerVars, countVars, claim, posts>>

RejectOutboxRow(i) ==
    /\ rejecting[i] = "outbox"
    /\ outbox' = [outbox EXCEPT ![i] = IF @ \in {"pending", "leased"} THEN "cancelled" ELSE @]
    /\ rejecting' = [rejecting EXCEPT ![i] = "idle"]
    /\ UNCHANGED <<intent, approvals, attempts, leaseLive, queue, acked, trades, seenFlat,
                   clockVars, lockVars, addonVars, brokerVars, countVars, claim, posts>>

\* The API dies, or its connection to PostgreSQL does, between two of them.
RejectInterrupted(i) ==
    /\ rejecting[i] # "idle"
    /\ Fault
    /\ rejecting' = [rejecting EXCEPT ![i] = "idle"]
    /\ UNCHANGED <<deskVars, clockVars, lockVars, addonVars, brokerVars, claim, posts>>

\* kill_switch -> setExecutionLock.
SetExecutionLock ==
    /\ toggles < MaxToggles
    /\ toggles' = toggles + 1
    /\ locked' = ~locked
    /\ UNCHANGED <<deskVars, clockVars, addonVars, brokerVars, countVars, rejecting, claim, posts>>

-----------------------------------------------------------------------------
\* The clock.

IntentExpires(i) ==
    /\ i \notin expired /\ intent[i] # "none"
    /\ expired' = expired \cup {i}
    /\ UNCHANGED <<deskVars, stale, lockVars, addonVars, brokerVars, countVars, rejecting, claim, posts>>

\* DECISION_NOT_EXPIRED or DECISION_FRESH starts to fail.
DecisionExpires(i) ==
    /\ i \notin stale /\ intent[i] # "none"
    /\ stale' = stale \cup {i}
    /\ UNCHANGED <<deskVars, expired, lockVars, addonVars, brokerVars, countVars, rejecting, claim, posts>>

InExchange(i) == \/ \E c \in held : c[1] = i
                 \/ \E m \in posts : m.cmd[1] = i

\* A 30 s lease outlives an exchange on a local network: it running out while
\* the command is still being executed or completed counts as a fault.
LeaseExpires(i) ==
    /\ leaseLive[i]
    /\ IF InExchange(i) THEN Fault ELSE UNCHANGED countVars
    /\ leaseLive' = [leaseLive EXCEPT ![i] = FALSE]
    /\ UNCHANGED <<intent, approvals, outbox, attempts, queue, acked, trades, seenFlat,
                   clockVars, lockVars, addonVars, brokerVars, rejecting, claim, posts>>

-----------------------------------------------------------------------------
\* The AddOn's loop: snapshot, FlushEvents, PollOneCommand, again.

AddonSnapshot ==
    /\ addonPc = "flush"
    /\ seenFlat' = (filled = {})
    /\ UNCHANGED <<intent, approvals, outbox, attempts, leaseLive, queue, acked, trades,
                   clockVars, lockVars, addonVars, brokerVars, countVars, rejecting, claim, posts>>

\* Faulty: the statement that closes the outbox row is missing.
FlushEventRowOpen(e) ==
    /\ addonPc = "flush" \/ UpdatesLate
    /\ e \in events
    /\ events' = events \ {e}
    /\ intent' = [intent EXCEPT ![e.cmd[1]] =
                      IF e.status = "rejected" THEN "rejected" ELSE "acknowledged"]
    /\ acked' = IF e.status = "rejected" THEN acked ELSE acked \cup {e.cmd[1]}
    /\ trades' = IF e.status = "filled" THEN trades \cup {e.cmd[1]} ELSE trades
    /\ UNCHANGED <<approvals, outbox, attempts, leaseLive, queue, seenFlat, clockVars, lockVars,
                   addonPc, waiting, held, journal, managed, brokerVars, countVars,
                   rejecting, claim, posts>>

\* recordAddonEvents -> recordBrokerUpdate, one transaction per update.  A
\* failed batch goes back behind newer updates, so their order is not kept.
FlushEvent(e) ==
    LET i == e.cmd[1] IN
    /\ addonPc = "flush" \/ UpdatesLate
    /\ e \in events
    /\ events' = events \ {e}
    /\ IF e.status = "rejected"
         THEN /\ intent' = [intent EXCEPT ![i] = "rejected"]
              /\ UNCHANGED <<outbox, acked, trades>>
         ELSE /\ intent' = [intent EXCEPT ![i] = "acknowledged"]
              /\ outbox' = [outbox EXCEPT ![i] =
                                IF @ \in {"pending", "leased", "delivered"} THEN "acknowledged" ELSE @]
              /\ acked' = acked \cup {i}
              /\ trades' = IF e.status = "filled" THEN trades \cup {i} ELSE trades
    /\ UNCHANGED <<approvals, attempts, leaseLive, queue, seenFlat, clockVars, lockVars,
                   addonPc, waiting, held, journal, managed, brokerVars, countVars,
                   rejecting, claim, posts>>

\* Faulty: polls while updates are still in memory.
FlushSkipped ==
    /\ addonPc = "flush"
    /\ addonPc' = "ready"
    /\ UNCHANGED <<deskVars, clockVars, lockVars, waiting, held, journal, managed, events,
                   brokerVars, countVars, rejecting, claim, posts>>

FlushDone ==
    /\ addonPc = "flush"
    /\ UpdatesLate \/ events = {}
    /\ addonPc' = "ready"
    /\ UNCHANGED <<deskVars, clockVars, lockVars, waiting, held, journal, managed, events,
                   brokerVars, countVars, rejecting, claim, posts>>

\* POST /execution/addon/claim: the API serves it in a handler of its own.
AddonPoll(h) ==
    /\ addonPc = "ready" /\ claim[h].pc = "idle"
    /\ addonPc' = "polling"
    /\ waiting' = {h}
    /\ claim' = [claim EXCEPT ![h] = [pc |-> "peek"]]
    /\ UNCHANGED <<deskVars, clockVars, lockVars, held, journal, managed, events,
                   brokerVars, countVars, rejecting, posts>>

\* The 5 s HTTP timeout; the API goes on serving the request.
AddonTimeout ==
    /\ addonPc \in {"polling", "completing"}
    /\ Fault
    /\ addonPc' = "flush"
    /\ waiting' = {} /\ held' = {}
    /\ UNCHANGED <<deskVars, clockVars, lockVars, journal, managed, events, brokerVars,
                   rejecting, claim, posts>>

-----------------------------------------------------------------------------
\* claimAddonWork.

\* A reply without a command ends the request and the AddOn's poll.
ReplyEmpty(h) ==
    /\ claim' = [claim EXCEPT ![h] = [pc |-> "idle"]]
    /\ addonPc' = IF h \in waiting THEN "flush" ELSE addonPc
    /\ waiting' = waiting \ {h}
    /\ UNCHANGED <<deskVars, clockVars, lockVars, held, journal, managed, events,
                   brokerVars, countVars, rejecting, posts>>

Proceed(h, pc, i) ==
    /\ claim' = [claim EXCEPT ![h] = [pc |-> pc, intent |-> i]]
    /\ UNCHANGED <<deskVars, clockVars, lockVars, addonVars, brokerVars, countVars,
                   rejecting, posts>>

\* Faulty: a lease that ran out is not offered again; any row whose lease is
\* not running is.
LeasableOnce(i) == outbox[i] = "pending"
LeasableByClock(i) == outbox[i] # "none" /\ ~leaseLive[i]

Leasable(i) == outbox[i] = "pending" \/ (outbox[i] = "leased" /\ ~leaseLive[i])

\* Faulty: the expiry is left to the AddOn.
CandidateExpired(i) == Leasable(i) /\ intent[i] = "queued"

Candidate(i) == Leasable(i) /\ intent[i] = "queued" /\ i \notin expired

\* peekOutbox: the oldest candidate.
PeekOutbox(h) ==
    /\ claim[h].pc = "peek"
    /\ IF \A k \in DOMAIN queue : ~Candidate(queue[k])
         THEN ReplyEmpty(h)
         ELSE \E k \in DOMAIN queue :
                /\ Candidate(queue[k])
                /\ \A j \in 1 .. k - 1 : ~Candidate(queue[j])
                /\ Proceed(h, "check", queue[k])

\* decisionContext, the snapshot parity check and evaluateBrokerPolicy.
RecheckRisk(h) ==
    /\ claim[h].pc = "check"
    /\ IF RiskPass(claim[h].intent) /\ seenFlat
         THEN Proceed(h, "lease", claim[h].intent)
         ELSE ReplyEmpty(h)

\* leaseOutbox looks at the outbox row only; the intent's status and the
\* locks were read before.  createNinjaAddonCommand then throws for a decision
\* past its validity, and the lease stays taken.
LeaseOutbox(h) ==
    /\ claim[h].pc = "lease"
    /\ LET i == claim[h].intent IN
        IF ~Leasable(i)
          THEN ReplyEmpty(h)
          ELSE /\ outbox' = [outbox EXCEPT ![i] = "leased"]
               /\ attempts' = [attempts EXCEPT ![i] = @ + 1]
               /\ leaseLive' = [leaseLive EXCEPT ![i] = TRUE]
               /\ claim' = [claim EXCEPT ![h] = [pc |-> "idle"]]
               /\ waiting' = waiting \ {h}
               /\ IF h \in waiting /\ i \notin stale
                    THEN addonPc' = "holding" /\ held' = {<<i, attempts[i] + 1>>}
                    ELSE /\ addonPc' = IF h \in waiting THEN "flush" ELSE addonPc
                         /\ UNCHANGED held
               /\ UNCHANGED <<intent, approvals, queue, acked, trades, seenFlat, clockVars,
                              lockVars, journal, managed, events, brokerVars, countVars,
                              rejecting, posts>>

-----------------------------------------------------------------------------
\* ExecuteApprovedCommand and the completion it posts.

Complete(c, status) ==
    /\ addonPc' = "completing"
    /\ posts' = posts \cup {[cmd |-> c, status |-> status, phase |-> "posted"]}

\* PlaceAtmEntry; the order's first update is in the queue with it.  A command
\* already in the journal, or whose order name an order carries, is ignored.
PlaceEntry(c) ==
    /\ addonPc = "holding" /\ c \in held
    /\ c[1] \notin stale
    /\ IF c \in journal \cup placed
         THEN Complete(c, "delivered") /\ UNCHANGED <<placed, managed, events>>
         ELSE /\ placed' = placed \cup {c}
              /\ managed' = managed \cup {c}
              /\ events' = events \cup {[cmd |-> c, status |-> "working"]}
              /\ addonPc' = "marking"
              /\ UNCHANGED posts
    /\ UNCHANGED <<deskVars, clockVars, lockVars, waiting, held, journal, filled, refused,
                   countVars, rejecting, claim>>

\* Faulty: the completion says delivered unless the code gets to say otherwise.
ExecuteFailsAsDelivered(c) ==
    /\ addonPc = "holding" /\ c \in held
    /\ c[1] \in stale \/ c \notin journal \cup placed
    /\ Complete(c, "delivered")
    /\ UNCHANGED <<deskVars, clockVars, lockVars, waiting, held, journal, managed, events,
                   brokerVars, countVars, rejecting, claim>>

\* COMMAND_EXPIRED, ADDON_NOT_ARMED, INSTRUMENT_NOT_FOUND or an exception of
\* the platform: nothing is placed.
ExecuteFails(c) ==
    /\ addonPc = "holding" /\ c \in held
    /\ c[1] \in stale \/ c \notin journal \cup placed
    /\ Complete(c, "failed")
    /\ UNCHANGED <<deskVars, clockVars, lockVars, waiting, held, journal, managed, events,
                   brokerVars, countVars, rejecting, claim>>

MarkCommandProcessed(c) ==
    /\ addonPc = "marking" /\ c \in held
    /\ journal' = journal \cup {c}
    /\ Complete(c, "delivered")
    /\ UNCHANGED <<deskVars, clockVars, lockVars, waiting, held, managed, events,
                   brokerVars, countVars, rejecting, claim>>

\* File.AppendAllText throws: the order is placed and reported as failed.
JournalFails(c) ==
    /\ addonPc = "marking" /\ c \in held
    /\ Fault
    /\ Complete(c, "failed")
    /\ UNCHANGED <<deskVars, clockVars, lockVars, waiting, held, journal, managed, events,
                   brokerVars, rejecting, claim>>

\* The AddOn stops and starts: its queue and its map of orders are lost, the
\* journal and the broker's orders are not.
Restart ==
    /\ restarts < MaxRestarts
    /\ restarts' = restarts + 1
    /\ addonPc' = "flush"
    /\ waiting' = {} /\ held' = {} /\ managed' = {} /\ events' = {}
    /\ UNCHANGED <<deskVars, clockVars, lockVars, journal, brokerVars, faults,
                   rejecting, claim, posts>>

\* The reply to a completion, accepted or refused, ends the AddOn's turn.
Replied(m) ==
    IF addonPc = "completing" /\ m.cmd \in held
      THEN addonPc' = "flush" /\ held' = {}
      ELSE UNCHANGED <<addonPc, held>>

\* completeOutbox, first statement: the row is found by its lease token alone,
\* whatever its status; a superseded token is refused (OUTBOX_LEASE_CONFLICT).
CompleteRow(m) ==
    LET i == m.cmd[1] IN
    /\ m \in posts /\ m.phase = "posted"
    /\ IF m.cmd[2] = attempts[i]
         THEN /\ outbox' = [outbox EXCEPT ![i] = m.status]
              /\ leaseLive' = [leaseLive EXCEPT ![i] = FALSE]
         ELSE UNCHANGED <<outbox, leaseLive>>
    /\ IF m.cmd[2] = attempts[i] /\ m.status = "delivered"
         THEN /\ posts' = (posts \ {m}) \cup {[m EXCEPT !.phase = "row_done"]}
              /\ UNCHANGED <<addonPc, held>>
         ELSE posts' = posts \ {m} /\ Replied(m)
    /\ UNCHANGED <<intent, approvals, attempts, queue, acked, trades, seenFlat, clockVars,
                   lockVars, waiting, journal, managed, events, brokerVars, countVars,
                   rejecting, claim>>

\* Second statement, outside any transaction.
CompleteIntent(m) ==
    /\ m \in posts /\ m.phase = "row_done"
    /\ intent' = [intent EXCEPT ![m.cmd[1]] = "sent"]
    /\ posts' = posts \ {m}
    /\ Replied(m)
    /\ UNCHANGED <<approvals, outbox, attempts, leaseLive, queue, acked, trades, seenFlat,
                   clockVars, lockVars, waiting, journal, managed, events, brokerVars,
                   countVars, rejecting, claim>>

\* The request never arrives, or the API dies before or between the statements.
LosePost(m) ==
    /\ m \in posts
    /\ Fault
    /\ posts' = posts \ {m}
    /\ Replied(m)
    /\ UNCHANGED <<deskVars, clockVars, lockVars, waiting, journal, managed, events,
                   brokerVars, rejecting, claim>>

-----------------------------------------------------------------------------
\* The broker: an order fills or ends without a fill (rejected stands for
\* cancelled and expired too).  OnOrderUpdate forwards what it still follows.

Notify(c, status) ==
    events' = IF c \in managed THEN events \cup {[cmd |-> c, status |-> status]} ELSE events

BrokerFills(c) ==
    /\ c \in placed \ (filled \cup refused)
    /\ filled' = filled \cup {c}
    /\ Notify(c, "filled")
    /\ UNCHANGED <<deskVars, clockVars, lockVars, addonPc, waiting, held, journal, managed,
                   placed, refused, countVars, rejecting, claim, posts>>

BrokerRefuses(c) ==
    /\ c \in placed \ (filled \cup refused)
    /\ refused' = refused \cup {c}
    /\ Notify(c, "rejected")
    /\ UNCHANGED <<deskVars, clockVars, lockVars, addonPc, waiting, held, journal, managed,
                   placed, filled, countVars, rejecting, claim, posts>>

-----------------------------------------------------------------------------
Operator ==
    \/ SetExecutionLock
    \/ \E i \in Intents :
        \/ EvaluateDecision(i) \/ ApproveIntent(i)
        \/ RejectIntent(i) \/ RejectIntentRow(i) \/ RejectOutboxRow(i) \/ RejectInterrupted(i)

Clock == \E i \in Intents : IntentExpires(i) \/ DecisionExpires(i) \/ LeaseExpires(i)

Api == \/ \E h \in Handlers : PeekOutbox(h) \/ RecheckRisk(h) \/ LeaseOutbox(h)
       \/ \E m \in posts : CompleteRow(m) \/ CompleteIntent(m)

AddOn ==
    \/ FlushDone
    \/ \E e \in events : FlushEvent(e)
    \/ \E h \in Handlers : AddonPoll(h)
    \/ \E c \in held : PlaceEntry(c) \/ ExecuteFails(c) \/ MarkCommandProcessed(c)

Failure ==
    \/ AddonTimeout \/ Restart
    \/ \E c \in held : JournalFails(c)
    \/ \E m \in posts : LosePost(m)

Broker == \E c \in placed : BrokerFills(c) \/ BrokerRefuses(c)

Next == Operator \/ Clock \/ Api \/ AddonSnapshot \/ AddOn \/ Failure \/ Broker

Spec == Init /\ [][Next]_vars

\* The AddOn's loop never stops, a request the API serves comes to an end, a
\* lease's clock runs, and a started rejectIntent issues its next statement.
\* Nothing is assumed of the operator, the broker or a decision's validity.
Fairness ==
    /\ WF_vars(AddOn)
    /\ \A h \in Handlers : WF_vars(PeekOutbox(h) \/ RecheckRisk(h) \/ LeaseOutbox(h))
    /\ WF_vars(\E m \in posts : CompleteRow(m) \/ CompleteIntent(m))
    /\ \A i \in Intents : WF_vars(LeaseExpires(i)) /\ WF_vars(RejectIntentRow(i) \/ RejectOutboxRow(i))

FairSpec == Spec /\ Fairness

-----------------------------------------------------------------------------
\* Properties.

Orders(i) == {c \in placed : c[1] = i}

\* The broker holds no order that nobody authorised: operator approval, or the
\* AUTO policy's, leaves its row in trade_approvals before a command exists.
AuthorizedOrders == \A c \in placed : <<c[1], "approved">> \in approvals

\* What the desk reports did happen: an intent shown as sent or acknowledged
\* has an order, a trade has a fill.  completeOutbox writes the status without
\* looking at it, and lost, late or repeated messages must not mislead it.
NoPhantomOrder ==
    /\ \A i \in Intents : intent[i] \in {"sent", "acknowledged"} => Orders(i) # {}
    /\ \A i \in trades : Orders(i) \cap filled # {}

\* An outbox row that is no longer leasable never becomes leasable again,
\* although rejectIntent, completeOutbox and recordBrokerUpdate all write its
\* status and only the last two parts of them look at the old one.
RowsNeverReopen ==
    [][\A i \in Intents :
          outbox[i] \notin {"none", "pending", "leased"} =>
              outbox'[i] \notin {"none", "pending", "leased"}]_vars

\* No further command is issued for an intent once a live status of its order
\* was recorded, whatever completion or rejection arrives later.
AckStopsLeasing ==
    [][\A i \in acked : attempts'[i] = attempts[i]]_vars

\* The gateway is an order submission service as OrderSubmission promises.
Submission == INSTANCE OrderSubmission WITH
    authorized <- {i \in Intents : <<i, "approved">> \in approvals},
    issued <- attempts,
    submitted <- placed,
    known <- acked

Refinement == Submission!Spec

\* At most one order per intent: what the README of the gateway promises, and
\* true only while NinjaTrader does not restart and no update is late.
OneOrderPerIntent == \A c, d \in placed : c[1] = d[1] => c = d

Ordered == {c[1] : c \in placed}

\* While no update is late, a duplicate order costs a restart of NinjaTrader
\* each: however many rejected, lost or overdue exchanges there are, the orders
\* beyond one per intent are no more than the restarts.
DuplicatesCostRestarts == Cardinality(placed) <= Cardinality(Ordered) + restarts

\* Whatever the network, the API and the journal do, when the AddOn asks for
\* work the desk knows of the orders of all intents but one for each restart
\* (again, as long as no update is late).
KnownBeforePoll == addonPc = "polling" => Cardinality(Ordered \ acked) <= restarts

\* The orders the broker holds and those that may still come without another
\* look at the stops: the command in the AddOn's hands, and one for each
\* request that has passed the risk check.
PastCheck == {h \in Handlers : claim[h].pc = "lease"}
Underway == Cardinality(placed \cup held) + Cardinality(PastCheck)

\* leaseOutbox and PlaceEntry do not look at the locks.  So an engaged kill
\* switch does not stop every order, but it stops all that were not underway:
\* while it stays engaged, no step adds to them.
LockAddsNothing == [][locked /\ locked' => Underway' <= Underway]_vars

\* Nor does leaseOutbox look at expires_at, which peekOutbox compared: once an
\* intent has expired, its orders are those underway, and no step adds to them.
PastPeek(i) == {h \in Handlers : claim[h].pc \in {"check", "lease"} /\ claim[h].intent = i}
UnderwayFor(i) == Cardinality({c \in placed \cup held : c[1] = i}) + Cardinality(PastPeek(i))

ExpiryAddsNothing == [][\A i \in expired : UnderwayFor(i)' <= UnderwayFor(i)]_vars

\* An approved intent waits forever only behind a gate that stays closed: its
\* own or, as peekOutbox always takes the oldest candidate, an older one's.
Waiting(i) == outbox[i] \in {"pending", "leased"} /\ intent[i] = "queued" /\ i \notin expired
GateClosed == ~seenFlat \/ \E j \in Intents : Candidate(j) /\ ~RiskPass(j)
WorkIsServed == \A i \in Intents : <>[]Waiting(i) => <>[]GateClosed
=============================================================================

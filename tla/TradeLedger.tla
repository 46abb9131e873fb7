---------------------------- MODULE TradeLedger ----------------------------
(***************************************************************************)
(* How an open trade is managed, and how its exits reach the ledger.       *)
(*                                                                         *)
(* A monitor's decision becomes a management intent to reduce or to close  *)
(* the position or to move its stop to the entry price.  The intent is     *)
(* bound to the trade's revision; an approved one is queued for the AddOn, *)
(* which turns it into an order, a flatten or a change of the stop.        *)
(*                                                                         *)
(* Three paths write what left the position to the ledger, each with its   *)
(* own idea of what is new: order updates of the desk's exits              *)
(* (recordManagementBrokerUpdate), protective exits found in a snapshot    *)
(* (settleProtectiveExitsFromAddonSnapshot) and quantities found in a      *)
(* snapshot (settleManagementFromSnapshot).  The last two act on a trade   *)
(* they read before; a transaction that locks the trade is one step.       *)
(*                                                                         *)
(* The trade is long and its entry complete.  Updates reach the API in any *)
(* order and any number of times (EntryFills has the transport).  The      *)
(* management outbox has the leases of the entry outbox: ExecutionOutbox   *)
(* has lost replies, second leases and repeated commands, here a row is    *)
(* leased once.  One order stands for stop and target.  Of the risk policy *)
(* the model keeps what speaks of trade, revision, lock and quantities.    *)
(***************************************************************************)
EXTENDS Integers, Sequences

CONSTANTS
    Intents,       \* management intents
    Handlers,      \* API requests that may be working from a snapshot
    Quantity,      \* contracts of the trade
    Actions,       \* what the monitor's decisions ask for
    MaxFaults      \* bound: rejections, expiries, refusals, lost reports, restarts

ASSUME ConstantsAssumption ==
    /\ Quantity \in Nat \ {0}
    /\ Actions \subseteq {"reduce_position", "close_position", "move_stop"}
    /\ MaxFaults \in Nat

VARIABLES
    position,      \* the account's position at the broker; negative is short
    stop,          \* the protective order at the broker
    size,          \* per intent: contracts of its order at the broker
    executed,      \* per intent: contracts its order executed
    live,          \* intents whose order is working at the broker
    unseen,        \* a position update the AddOn has not handled
    held,          \* the command the AddOn works on
    result,        \* what the AddOn will report of it
    journal,       \* processedCommands: intents whose command went through
    tracked,       \* activeInstrumentContexts: the AddOn knows the stop's order
    managed,       \* deskOrders: intents whose order this process knows
    updates,       \* order updates posted, or queued to be posted
    claim,         \* a claim that has passed its checks and not leased yet
    completing,    \* completions whose second statement is still to come
    job,           \* per handler: what it is doing with which snapshot
    latest,        \* the position in the latest row of broker_addon_snapshots
    intents,       \* trade_management_intents
    rows,          \* broker_management_outbox.status
    line,          \* intents that have a row, oldest first
    expired,       \* intents whose expires_at has passed
    rejecting,     \* rejections whose last statement is still to come
    trade,         \* the row of trades
    fills,         \* per intent: contracts of its order in trade_fills
    stopFills,     \* contracts of the protective order in trade_fills
    recorded,      \* broker_order_events, by external_event_key
    locked,        \* the account's row in broker_execution_locks
    faults         \* of those that MaxFaults bounds, so far

brokerVars == <<position, stop, size, executed, live, unseen>>
addonVars  == <<held, result, journal, tracked, managed, updates>>
apiVars    == <<claim, completing, job, latest>>
deskVars   == <<intents, rows, line, expired, rejecting>>
ledgerVars == <<trade, fills, stopFills, recorded, locked>>
vars == <<brokerVars, addonVars, apiVars, deskVars, ledgerVars, faults>>

-----------------------------------------------------------------------------
\* Types.

Quantities == 0..Quantity

Stops == [state : {"working", "filled", "cancelled"}, quantity : Nat,
          moved : BOOLEAN]

Trades == [status : {"open", "protected", "closed"}, open : Quantities,
           closed : Nat, revision : Nat, stopMoved : BOOLEAN]

\* "working" stands for submitted and accepted too, "rejected" for cancelled,
\* expired and error.
Updates == [intent : Intents, filled : Quantities,
            status : {"working", "partially_filled", "filled", "rejected"}]

Commands == [intent : Intents, quantity : Quantities]

\* What a request working from a snapshot keeps of it, and of the trade as it
\* read it: the contracts the snapshot lacks, the revision, the verdict on the
\* stop; then the intents left to settle and the one half settled.
Jobs == [phase : {"idle", "exits", "persist", "confirm", "protect",
                  "settle", "intent", "row"},
         position : Int, stop : Stops,
         missing : Int, revision : Nat, confirmed : BOOLEAN,
         pending : SUBSET Intents, half : SUBSET Intents]

IntentStatus == {"none", "pending_approval", "queued", "leased", "delivered",
                 "acknowledged", "rejected", "failed"}

Intentions == [action : Actions \cup {"none"}, quantity : Quantities, revision : Nat,
               status : IntentStatus]

RowStatus == {"none", "pending", "leased", "delivered", "acknowledged", "failed",
              "cancelled"}

BrokerTypes ==
    /\ position \in Int /\ stop \in Stops
    /\ size \in [Intents -> Quantities] /\ executed \in [Intents -> Quantities]
    /\ live \subseteq Intents /\ unseen \in BOOLEAN

AddonTypes ==
    /\ held \subseteq Commands /\ result \in {"none", "delivered", "failed"}
    /\ journal \subseteq Intents /\ tracked \in BOOLEAN
    /\ managed \subseteq Intents /\ updates \subseteq Updates

ApiTypes ==
    /\ claim \subseteq Commands
    /\ completing \subseteq [intent : Intents, status : {"delivered", "failed"}]
    /\ job \in [Handlers -> Jobs] /\ latest \in Int

DeskTypes ==
    /\ intents \in [Intents -> Intentions] /\ rows \in [Intents -> RowStatus]
    /\ line \in Seq(Intents) /\ expired \subseteq Intents /\ rejecting \subseteq Intents

LedgerTypes ==
    /\ trade \in Trades
    /\ fills \in [Intents -> Nat] /\ stopFills \in Nat
    /\ recorded \subseteq Updates /\ locked \in BOOLEAN

TypeOK ==
    BrokerTypes /\ AddonTypes /\ ApiTypes /\ DeskTypes /\ LedgerTypes /\ faults \in Nat

-----------------------------------------------------------------------------
\* The trade as its entry leaves it, protected at the broker.

Opened == [status |-> "open", open |-> Quantity, closed |-> 0, revision |-> 0,
           stopMoved |-> FALSE]

Protection == [state |-> "working", quantity |-> Quantity, moved |-> FALSE]

Idle == [phase |-> "idle", position |-> Quantity, stop |-> Protection, missing |-> 0,
         revision |-> 0, confirmed |-> FALSE, pending |-> {}, half |-> {}]

Init ==
    /\ position = Quantity /\ stop = Protection
    /\ size = [i \in Intents |-> 0] /\ executed = [i \in Intents |-> 0]
    /\ live = {} /\ unseen = FALSE /\ tracked = TRUE
    /\ held = {} /\ result = "none" /\ journal = {} /\ managed = {} /\ updates = {}
    /\ claim = {} /\ completing = {}
    /\ job = [h \in Handlers |-> Idle] /\ latest = Quantity
    /\ intents = [i \in Intents |-> [action |-> "none", quantity |-> 0,
                                     revision |-> 0, status |-> "none"]]
    /\ rows = [i \in Intents |-> "none"] /\ line = <<>> /\ expired = {} /\ rejecting = {}
    /\ trade = Opened
    /\ fills = [i \in Intents |-> 0] /\ stopFills = 0 /\ recorded = {}
    /\ locked = FALSE
    /\ faults = 0

-----------------------------------------------------------------------------
\* The desk: from the monitor to the outbox.

IsOpen(t) == t.status # "closed" /\ t.open > 0

\* deriveBrokerManagementRequest: what an action may ask of the trade.
MayAsk(action, n) ==
    CASE action = "reduce_position" -> n >= 1 /\ n < trade.open
      [] action = "close_position"  -> n = trade.open
      [] action = "move_stop"       -> n = 0 /\ ~trade.stopMoved

\* materializeManagementFromMonitor, up to insertManagementIntent, when the
\* policy lets it pass.  (An intent that it blocks counts as not there yet.)
MaterializeManagement(i) ==
    /\ intents[i].status = "none" /\ IsOpen(trade) /\ ~locked
    /\ \E action \in Actions, n \in Quantities :
         /\ MayAsk(action, n)
         /\ intents' = [intents EXCEPT ![i] = [action |-> action, quantity |-> n,
                             revision |-> trade.revision, status |-> "pending_approval"]]
    /\ UNCHANGED <<brokerVars, addonVars, apiVars, rows, line, expired, rejecting, ledgerVars,
                   faults>>

\* One transaction, under the locks of intent and trade.  (The policy was asked
\* before; at the same revision only the lock can have changed since, and the
\* lock is looked at again before a lease.)
ApproveManagementIntent(i) ==
    /\ intents[i].status = "pending_approval"
    /\ intents[i].revision = trade.revision
    /\ intents' = [intents EXCEPT ![i].status = "queued"]
    /\ IF rows[i] = "none"
         THEN rows' = [rows EXCEPT ![i] = "pending"] /\ line' = Append(line, i)
         ELSE UNCHANGED <<rows, line>>
    /\ UNCHANGED <<brokerVars, addonVars, apiVars, expired, rejecting, ledgerVars, faults>>

\* rejectManagementIntent, by the operator: the intent if it is early enough,
\* then the row, if there is one.
RejectManagementIntent(i) ==
    /\ faults < MaxFaults /\ faults' = faults + 1
    /\ intents[i].status # "none" /\ i \notin rejecting
    /\ intents' = [intents EXCEPT ![i].status =
                      IF @ \in {"pending_approval", "queued"} THEN "rejected" ELSE @]
    /\ rejecting' = IF rows[i] = "none" THEN rejecting ELSE rejecting \cup {i}
    /\ UNCHANGED <<brokerVars, addonVars, apiVars, rows, line, expired, ledgerVars>>

CancelManagementRow(i) ==
    /\ i \in rejecting
    /\ rejecting' = rejecting \ {i}
    /\ rows' = [rows EXCEPT ![i] = IF @ \in {"pending", "leased"} THEN "cancelled" ELSE @]
    /\ UNCHANGED <<brokerVars, addonVars, apiVars, intents, line, expired, ledgerVars, faults>>

\* A queued intent's expires_at passes.
Expire(i) ==
    /\ faults < MaxFaults /\ faults' = faults + 1
    /\ rows[i] = "pending" /\ i \notin expired
    /\ expired' = expired \cup {i}
    /\ UNCHANGED <<brokerVars, addonVars, apiVars, intents, rows, line, rejecting, ledgerVars>>

-----------------------------------------------------------------------------
\* The AddOn asks for work: claimAddonWork, in two steps.

Leasable(i) == rows[i] = "pending" /\ intents[i].status = "queued" /\ i \notin expired

\* peekManagementOutbox: the oldest row that may be leased.
Candidate(i) ==
    \E k \in DOMAIN line :
        line[k] = i /\ Leasable(i) /\ \A j \in 1..(k - 1) : ~Leasable(line[j])

\* evaluateBrokerManagementPolicy.
PolicyAllows(i) ==
    /\ ~locked /\ IsOpen(trade)
    /\ trade.revision = intents[i].revision
    /\ intents[i].action = "reduce_position" => intents[i].quantity < trade.open
    /\ intents[i].action = "close_position" => intents[i].quantity = trade.open

\* #addonSnapshotParity: the latest snapshot shows the trade's quantity.
SnapshotAgrees == latest = trade.open

\* The checks, and the command drawn up from the trade they read.
CheckManagementWork(i) ==
    /\ held = {} /\ claim = {}
    /\ Candidate(i) /\ PolicyAllows(i) /\ SnapshotAgrees
    /\ claim' = {[intent |-> i,
                  quantity |-> IF intents[i].quantity > 0 THEN intents[i].quantity
                                                          ELSE trade.open]}
    /\ UNCHANGED <<brokerVars, addonVars, completing, job, latest, deskVars, ledgerVars, faults>>

\* leaseManagementOutbox; BUSY if the row is no longer pending.
LeaseManagementOutbox ==
    /\ \E c \in claim :
         IF rows[c.intent] = "pending"
           THEN /\ rows' = [rows EXCEPT ![c.intent] = "leased"]
                /\ intents' = [intents EXCEPT ![c.intent].status =
                                 IF @ = "queued" THEN "leased" ELSE @]
                /\ held' = {c}
           ELSE UNCHANGED <<rows, intents, held>>
    /\ claim' = {}
    /\ UNCHANGED <<brokerVars, result, journal, tracked, managed, updates, completing, job,
                   latest, line, expired, rejecting, ledgerVars, faults>>

-----------------------------------------------------------------------------
\* The AddOn: ExecuteApprovedCommand and PollOneCommand's report.

\* OnOrderUpdate queues an update of an order this process knows.
Raise(i, status, n) ==
    updates' = IF i \in managed'
                 THEN updates \cup {[intent |-> i, status |-> status, filled |-> n]}
                 ELSE updates

PlaceOrder(i, n) ==
    /\ size' = [size EXCEPT ![i] = n] /\ live' = live \cup {i}
    /\ managed' = managed \cup {i}
    /\ Raise(i, "working", 0)

\* SubmitReduction: a market order, whatever the position is by now.
SubmitReduction ==
    /\ result = "none"
    /\ \E c \in held :
         /\ intents[c.intent].action = "reduce_position"
         /\ PlaceOrder(c.intent, c.quantity)
         /\ journal' = journal \cup {c.intent}
    /\ result' = "delivered"
    /\ UNCHANGED <<position, stop, executed, unseen, tracked, held, apiVars, deskVars, ledgerVars, faults>>

\* ClosePosition: Flatten closes what the account holds.  A short is bought
\* back by an order that the AddOn does not take for the trade's.
ClosePosition ==
    /\ result = "none"
    /\ \E c \in held :
         /\ intents[c.intent].action = "close_position"
         /\ IF position > 0
              THEN PlaceOrder(c.intent, position) /\ UNCHANGED <<position, unseen>>
              ELSE /\ position' = 0 /\ unseen' = IF position = 0 THEN unseen ELSE tracked
                   /\ UNCHANGED <<size, live, managed, updates>>
         /\ journal' = journal \cup {c.intent}
    /\ result' = "delivered"
    /\ UNCHANGED <<stop, executed, tracked, held, apiVars, deskVars, ledgerVars, faults>>

\* MoveStop; the broker refuses to change an order that has ended.
MoveStop ==
    /\ result = "none"
    /\ \E c \in held :
         /\ intents[c.intent].action = "move_stop"
         /\ managed' = managed \cup {c.intent}
         /\ IF stop.state = "working"
              THEN /\ stop' = [stop EXCEPT !.moved = TRUE, !.quantity = c.quantity]
                   /\ Raise(c.intent, "working", 0)
              ELSE stop' = stop /\ Raise(c.intent, "rejected", 0)
         /\ journal' = journal \cup {c.intent}
    /\ result' = "delivered"
    /\ UNCHANGED <<position, size, executed, live, unseen, tracked, held, apiVars, deskVars, ledgerVars, faults>>

\* The command is refused: not armed, expired, no such order.
CommandFails ==
    /\ faults < MaxFaults /\ faults' = faults + 1
    /\ held # {} /\ result = "none"
    /\ result' = "failed"
    /\ UNCHANGED <<brokerVars, held, journal, tracked, managed, updates, apiVars, deskVars, ledgerVars>>

\* completeManagementOutbox, first statement: the row, by its lease token only.
CompleteManagementRow ==
    /\ result # "none"
    /\ \E c \in held :
         /\ rows' = [rows EXCEPT ![c.intent] = result]
         /\ completing' = completing \cup {[intent |-> c.intent, status |-> result]}
    /\ held' = {} /\ result' = "none"
    /\ UNCHANGED <<brokerVars, journal, tracked, managed, updates, claim, job, latest,
                   intents, line, expired, rejecting, ledgerVars, faults>>

\* Second statement: the intent, whatever its status has become.
CompleteManagementIntent ==
    /\ \E c \in completing :
         /\ intents' = [intents EXCEPT ![c.intent].status = c.status]
         /\ completing' = completing \ {c}
    /\ UNCHANGED <<brokerVars, addonVars, claim, job, latest, rows, line, expired, rejecting,
                   ledgerVars, faults>>

\* The report is lost.
CompletionLost ==
    /\ faults < MaxFaults /\ faults' = faults + 1
    /\ result # "none"
    /\ held' = {} /\ result' = "none"
    /\ UNCHANGED <<brokerVars, journal, tracked, managed, updates, apiVars, deskVars, ledgerVars>>

\* NinjaTrader restarts: commands, updates and known orders are forgotten.
Restart ==
    /\ faults < MaxFaults
    /\ held' = {} /\ result' = "none" /\ managed' = {} /\ updates' = {}
    /\ unseen' = FALSE /\ tracked' = FALSE
    /\ faults' = faults + 1
    /\ UNCHANGED <<position, stop, size, executed, live, journal, apiVars, deskVars, ledgerVars>>

-----------------------------------------------------------------------------
\* The broker, and the AddOn's answer to a changed position.

BrokerFills(i) ==
    /\ i \in live
    /\ \E n \in 1..(size[i] - executed[i]) :
         /\ position' = position - n
         /\ executed' = [executed EXCEPT ![i] = @ + n]
         /\ live' = IF executed'[i] = size[i] THEN live \ {i} ELSE live
         /\ UNCHANGED managed
         /\ Raise(i, IF i \in live' THEN "partially_filled" ELSE "filled", executed'[i])
    /\ unseen' = tracked
    /\ UNCHANGED <<stop, size, held, result, journal, tracked, apiVars, deskVars, ledgerVars, faults>>

OrderEnds(i) ==
    /\ faults < MaxFaults /\ faults' = faults + 1
    /\ i \in live
    /\ live' = live \ {i}
    /\ UNCHANGED managed
    /\ Raise(i, "rejected", executed[i])
    /\ UNCHANGED <<position, stop, size, executed, unseen, held, result, journal, tracked, apiVars,
                   deskVars, ledgerVars>>

StopFills ==
    /\ stop.state = "working"
    /\ position' = position - stop.quantity
    /\ stop' = [stop EXCEPT !.state = "filled"]
    /\ unseen' = tracked
    /\ UNCHANGED <<size, executed, live, addonVars, apiVars, deskVars, ledgerVars, faults>>

\* The ATM strategy cancels its orders when the position is gone or flattened.
ProtectionEnds ==
    /\ stop.state = "working"
    /\ position <= 0 \/ \E i \in live : intents[i].action = "close_position"
    /\ stop' = [stop EXCEPT !.state = "cancelled"]
    /\ UNCHANGED <<position, size, executed, live, unseen, addonVars, apiVars, deskVars,
                   ledgerVars, faults>>

Abs(n) == IF n < 0 THEN -n ELSE n

\* OnPositionUpdate: the stop takes the position's size.  Once flat, it is not
\* tracked any more.
ResizeActiveProtection ==
    /\ unseen
    /\ unseen' = FALSE
    /\ tracked' = (position # 0)
    /\ stop' = IF position # 0 /\ stop.state = "working"
                 THEN [stop EXCEPT !.quantity = Abs(position)]
                 ELSE stop
    /\ UNCHANGED <<position, size, executed, live, held, result, journal, managed, updates,
                   apiVars, deskVars, ledgerVars, faults>>

-----------------------------------------------------------------------------
\* The ledger: exits reported by order updates.

Least(a, b) == IF a < b THEN a ELSE b

\* The trade without n of its open contracts.
Reduced(t, n) == [t EXCEPT !.open = @ - n, !.closed = @ + n, !.revision = @ + 1,
                           !.status = IF t.open = n THEN "closed" ELSE "protected"]

\* Faulty: forgets what trade_fills has of the order.
PersistManagementFillAgain(u) ==
    LET delta == Least(trade.open, u.filled)
    IN  IF intents[u.intent].action # "move_stop" /\ delta > 0
          THEN /\ trade' = Reduced(trade, delta)
               /\ fills' = [fills EXCEPT ![u.intent] = @ + delta]
          ELSE UNCHANGED <<trade, fills>>

\* persistManagementFill: contracts of the update that are not in trade_fills.
PersistManagementFill(u) ==
    LET delta == Least(trade.open, u.filled - fills[u.intent])
    IN  IF intents[u.intent].action # "move_stop" /\ delta > 0
          THEN /\ trade' = Reduced(trade, delta)
               /\ fills' = [fills EXCEPT ![u.intent] = @ + delta]
          ELSE UNCHANGED <<trade, fills>>

\* The update's effect on a stop the trade still has at the same revision.
ConfirmStopMove(u) ==
    trade' = IF u.status = "working" /\ trade.revision = intents[u.intent].revision
               THEN [trade EXCEPT !.stopMoved = TRUE, !.revision = @ + 1]
               ELSE trade

\* recordManagementBrokerUpdate, under the lock of the trade.  A repeated
\* event only goes over the fills again.
RecordManagementBrokerUpdate(u) ==
    /\ u \in updates
    /\ IF u \in recorded
         THEN PersistManagementFill(u) /\ UNCHANGED <<recorded, intents, rows>>
         ELSE LET status == IF u.status = "rejected" THEN "failed" ELSE "acknowledged"
              IN  /\ recorded' = recorded \cup {u}
                  /\ IF intents[u.intent].action = "move_stop"
                       THEN ConfirmStopMove(u) /\ UNCHANGED fills
                       ELSE PersistManagementFill(u)
                  /\ intents' = [intents EXCEPT ![u.intent].status = status]
                  /\ rows' = [rows EXCEPT ![u.intent] =
                                IF @ \in {"pending", "leased", "delivered"} THEN status ELSE @]
    /\ UNCHANGED <<brokerVars, addonVars, apiVars, line, expired, rejecting, stopFills, locked, faults>>

-----------------------------------------------------------------------------
\* The ledger: exits found in a snapshot of the AddOn (recordAddonSnapshot).

\* The AddOn's next snapshot is stored; nothing else happens between the
\* capture and the insert that could tell them apart.
RecordAddonSnapshot(h) ==
    /\ job[h].phase = "idle"
    /\ latest' = position
    /\ job' = [job EXCEPT ![h] = [Idle EXCEPT !.phase = "exits", !.position = position,
                                              !.stop = stop]]
    /\ UNCHANGED <<brokerVars, addonVars, claim, completing, deskVars, ledgerVars, faults>>

\* Faulty: looks only at trades whose protection is not confirmed.
SettleOpenTradesOnly(h) ==
    LET missing   == trade.open - job[h].position
        candidate == /\ trade.status = "open" /\ job[h].position >= 0 /\ missing > 0
                     /\ job[h].stop.state = "filled"
    IN  /\ job[h].phase = "exits"
        /\ job' = [job EXCEPT ![h] = IF candidate
                       THEN [@ EXCEPT !.phase = "persist", !.missing = missing]
                       ELSE [@ EXCEPT !.phase = "confirm"]]
        /\ UNCHANGED <<brokerVars, addonVars, claim, completing, latest, deskVars, ledgerVars, faults>>

\* settleProtectiveExitsFromAddonSnapshot reads the trade, outside the
\* transaction that will change it.
SettleProtectiveExits(h) ==
    LET missing   == trade.open - job[h].position
        candidate == /\ IsOpen(trade) /\ job[h].position >= 0 /\ missing > 0
                     /\ job[h].stop.state = "filled"
    IN  /\ job[h].phase = "exits"
        /\ job' = [job EXCEPT ![h] = IF candidate
                       THEN [@ EXCEPT !.phase = "persist", !.missing = missing]
                       ELSE [@ EXCEPT !.phase = "confirm"]]
        /\ UNCHANGED <<brokerVars, addonVars, claim, completing, latest, deskVars, ledgerVars, faults>>

\* persistProtectiveSnapshotFill: bounded by the trade as it is now, by what
\* was missing when it was read, and by what trade_fills lacks of the order.
PersistProtectiveFill(h) ==
    LET delta == Least(trade.open, Least(job[h].missing, job[h].stop.quantity - stopFills))
    IN  /\ job[h].phase = "persist"
        /\ job' = [job EXCEPT ![h] = [@ EXCEPT !.phase = "confirm", !.missing = 0]]
        /\ IF IsOpen(trade) /\ delta > 0
             THEN trade' = Reduced(trade, delta) /\ stopFills' = stopFills + delta
             ELSE UNCHANGED <<trade, stopFills>>
        /\ UNCHANGED <<brokerVars, addonVars, claim, completing, latest, deskVars,
                       fills, recorded, locked, faults>>

\* evaluateBrokerProtectionSnapshot: the stop works, covers the trade and has
\* the trade's price.
Protected(t, order) ==
    order.state = "working" /\ order.quantity >= t.open /\ order.moved = t.stopMoved

\* confirmProtectionFromAddonSnapshot reads the trade and evaluates it ...
\* (A verdict found again is not stored; it would change nothing kept here.)
EvaluateProtection(h) ==
    /\ job[h].phase = "confirm"
    /\ job' = [job EXCEPT ![h] =
                 IF IsOpen(trade)
                   THEN [Idle EXCEPT !.phase = "protect",
                                     !.confirmed = Protected(trade, job[h].stop)]
                   ELSE Idle]
    /\ UNCHANGED <<brokerVars, addonVars, claim, completing, latest, deskVars, ledgerVars, faults>>

\* Faulty: does not look at the trade again under its lock.
ConfirmProtectionUnchecked(h) ==
    /\ job[h].phase = "protect"
    /\ job' = [job EXCEPT ![h] = Idle]
    /\ trade' = IF job[h].confirmed /\ trade.status # "protected"
                  THEN [trade EXCEPT !.status = "protected", !.revision = @ + 1]
                  ELSE trade
    /\ locked' = (locked \/ (IsOpen(trade) /\ ~job[h].confirmed))
    /\ UNCHANGED <<brokerVars, addonVars, claim, completing, latest, deskVars,
                   fills, stopFills, recorded, faults>>

\* ... and stores the verdict, unless the trade has been closed meanwhile.
ConfirmProtection(h) ==
    /\ job[h].phase = "protect"
    /\ job' = [job EXCEPT ![h] = Idle]
    /\ trade' = IF IsOpen(trade) /\ job[h].confirmed /\ trade.status # "protected"
                  THEN [trade EXCEPT !.status = "protected", !.revision = @ + 1]
                  ELSE trade
    /\ locked' = (locked \/ (IsOpen(trade) /\ ~job[h].confirmed))
    /\ UNCHANGED <<brokerVars, addonVars, claim, completing, latest, deskVars,
                   fills, stopFills, recorded, faults>>

-----------------------------------------------------------------------------
\* The ledger: a reconciliation, from the latest snapshot or from one sent
\* with the request.  No transaction spans its statements.

\* Faulty: settles intents whose command may not have been executed.
ReconcileLeased(h) ==
    /\ job[h].phase = "idle"
    /\ \E seen \in {latest, position}, listed \in BOOLEAN :
         LET missing == trade.open - Abs(seen)
         IN  /\ seen # 0 => listed
             /\ job' = [job EXCEPT ![h] =
                  IF trade.status # "closed" /\ listed /\ missing > 0
                    THEN [Idle EXCEPT !.phase = "settle", !.position = Abs(seen),
                            !.missing = missing, !.revision = trade.revision,
                            !.pending = {i \in Intents :
                               /\ intents[i].status \in {"leased", "delivered", "acknowledged"}
                               /\ intents[i].action # "move_stop"}]
                    ELSE [Idle EXCEPT !.phase = "settle"]]
    /\ UNCHANGED <<brokerVars, addonVars, claim, completing, latest, deskVars, ledgerVars, faults>>

\* settleManagementFromSnapshot's query; an instrument without a position may
\* be listed as flat or not at all.
Reconcile(h) ==
    /\ job[h].phase = "idle"
    /\ \E seen \in {latest, position}, listed \in BOOLEAN :
         LET missing == trade.open - Abs(seen)
         IN  /\ seen # 0 => listed
             /\ job' = [job EXCEPT ![h] =
                  IF trade.status # "closed" /\ listed /\ missing > 0
                    THEN [Idle EXCEPT !.phase = "settle", !.position = Abs(seen),
                            !.missing = missing, !.revision = trade.revision,
                            !.pending = {i \in Intents :
                               /\ intents[i].status \in {"delivered", "acknowledged"}
                               /\ intents[i].action # "move_stop"}]
                    ELSE [Idle EXCEPT !.phase = "settle"]]
    /\ UNCHANGED <<brokerVars, addonVars, claim, completing, latest, deskVars, ledgerVars, faults>>

\* Faulty: overwrites whatever happened to the trade since it was read.
SettleTradeUnguarded(h, i) ==
    LET left == job[h].position
    IN  /\ job[h].phase = "settle" /\ i \in job[h].pending
        /\ trade' = [trade EXCEPT
                        !.open = left, !.closed = @ + job[h].missing,
                        !.status = IF left = 0 THEN "closed" ELSE "protected",
                        !.revision = @ + 1]
        /\ job' = [job EXCEPT ![h] = [job[h] EXCEPT !.phase = "intent", !.pending = @ \ {i},
                                                  !.half = {i}]]
        /\ UNCHANGED <<brokerVars, addonVars, claim, completing, latest, deskVars,
                       fills, stopFills, recorded, locked, faults>>

\* The trade takes the broker's quantity if its revision is the one read.
SettleTrade(h, i) ==
    LET left == job[h].position
    IN  /\ job[h].phase = "settle" /\ i \in job[h].pending
        /\ trade' = IF trade.revision = job[h].revision
                      THEN [trade EXCEPT
                              !.open = left, !.closed = @ + job[h].missing,
                              !.status = IF left = 0 THEN "closed" ELSE "protected",
                              !.revision = @ + 1]
                      ELSE trade
        /\ job' = [job EXCEPT ![h] = [job[h] EXCEPT !.phase = "intent", !.pending = @ \ {i},
                                                  !.half = {i}]]
        /\ UNCHANGED <<brokerVars, addonVars, claim, completing, latest, deskVars,
                       fills, stopFills, recorded, locked, faults>>

\* The intent and then its row are acknowledged whether the trade changed or not.
SettleIntent(h) ==
    /\ job[h].phase = "intent"
    /\ intents' = [i \in Intents |-> IF i \in job[h].half
                       THEN [intents[i] EXCEPT !.status = "acknowledged"] ELSE intents[i]]
    /\ job' = [job EXCEPT ![h].phase = "row"]
    /\ UNCHANGED <<brokerVars, addonVars, claim, completing, latest, rows, line, expired, rejecting,
                   ledgerVars, faults>>

SettleRow(h) ==
    /\ job[h].phase = "row"
    /\ rows' = [i \in Intents |-> IF i \in job[h].half THEN "acknowledged" ELSE rows[i]]
    /\ job' = [job EXCEPT ![h] = [@ EXCEPT !.phase = "settle", !.half = {}]]
    /\ UNCHANGED <<brokerVars, addonVars, claim, completing, latest, intents, line, expired, rejecting,
                   ledgerVars, faults>>

\* compareSnapshots and storeReconciliation: a difference of positions or
\* orders locks the account when the policy says so.
CompareSnapshots(h) ==
    /\ job[h].phase = "settle" /\ job[h].pending = {}
    /\ locked' \in {locked, TRUE}
    /\ job' = [job EXCEPT ![h] = Idle]
    /\ UNCHANGED <<brokerVars, addonVars, claim, completing, latest, deskVars,
                   trade, fills, stopFills, recorded, faults>>

-----------------------------------------------------------------------------

Desk(i) ==
    \/ MaterializeManagement(i) \/ ApproveManagementIntent(i)
    \/ RejectManagementIntent(i) \/ CancelManagementRow(i)
    \/ Expire(i) \/ CheckManagementWork(i)

AddOn ==
    \/ LeaseManagementOutbox
    \/ SubmitReduction \/ ClosePosition \/ MoveStop \/ CommandFails
    \/ CompleteManagementRow \/ CompleteManagementIntent \/ CompletionLost
    \/ ResizeActiveProtection \/ Restart

Broker ==
    \/ StopFills \/ ProtectionEnds
    \/ \E i \in Intents : BrokerFills(i) \/ OrderEnds(i)

\* The steps of a request that has begun.
Working(h) ==
    \/ SettleProtectiveExits(h) \/ PersistProtectiveFill(h)
    \/ EvaluateProtection(h) \/ ConfirmProtection(h)
    \/ \E i \in Intents : SettleTrade(h, i)
    \/ SettleIntent(h) \/ SettleRow(h) \/ CompareSnapshots(h)

RecordAddonEvents == \E u \in updates : RecordManagementBrokerUpdate(u)

Next ==
    \/ \E i \in Intents : Desk(i)
    \/ AddOn
    \/ Broker
    \/ RecordAddonEvents
    \/ \E h \in Handlers : RecordAddonSnapshot(h) \/ Reconcile(h) \/ Working(h)

Spec == Init /\ [][Next]_vars

\* A request ends; the AddOn posts its queued events until they are stored,
\* and a snapshot again and again, whatever else the API is busy with.
FairSpec ==
    /\ Spec
    /\ WF_vars(RecordAddonEvents)
    /\ \A h \in Handlers : WF_vars(Working(h)) /\ SF_vars(RecordAddonSnapshot(h))

-----------------------------------------------------------------------------
\* Properties.

\* No path writes more contracts of an order to trade_fills than the order
\* executed, however often its updates and snapshots are gone over.
FillsExact ==
    /\ \A i \in Intents : fills[i] <= executed[i]
    /\ stopFills <= IF stop.state = "filled" THEN stop.quantity ELSE 0

\* quantity_open and quantity_closed of the trade sum to its size: a
\* settlement from quantities read earlier loses or invents none.
Conserved == trade.open + trade.closed = Quantity

\* No late update, snapshot, verdict or settlement reopens a closed trade or
\* counts more exits for it.
ClosedStaysClosed ==
    [][trade.status = "closed" =>
         trade'.status = "closed" /\ trade'.closed = trade.closed]_vars

\* What the ledger says was done was done: an acknowledged intent's command
\* went through, a stop the trade has as moved is moved at the broker.
NoPhantomExit ==
    /\ \A i \in Intents : intents[i].status = "acknowledged" => i \in journal
    /\ trade.stopMoved => stop.moved

\* A trade whose position is gone at the broker is closed in the ledger,
\* unless a late order turns the position short.  (A restart loses order
\* updates for good: the property is checked without faults.)
LedgerCatchesUp == position = 0 ~> (trade.open = 0 \/ position # 0)

\* The deduplication of events, fills and trade promises that an exit counts
\* once: the ledger never has fewer open contracts than the account.
NoExitTwice == trade.open >= position

\* No reconciliation has found an intent that it could settle.
NothingToSettle == \A h \in Handlers : job[h].pending = {}

\* Only the settlement of intents makes an exit count twice.  While there is none,
\* order updates and protective exits count each exited contract at most once
\* between them, whatever they race, repeat or lose.
SettlementsCountTwice == []NothingToSettle => []NoExitTwice
=============================================================================

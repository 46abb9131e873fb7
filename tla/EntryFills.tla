----------------------------- MODULE EntryFills -----------------------------
(***************************************************************************)
(* How the executions of one entry order reach the trade ledger.           *)
(*                                                                         *)
(* NinjaTrader raises an order update for every change of the order; the   *)
(* AddOn queues it in memory and its transport loop posts the queue in     *)
(* batches.  A batch whose request fails or is overdue goes back to the    *)
(* END of the queue, behind whatever arrived in the meantime.  The API     *)
(* records the updates of a batch one after the other; a request the AddOn *)
(* has given up on is still being served, so that several requests may     *)
(* record updates of the order at once.                                    *)
(*                                                                         *)
(* recordBrokerUpdate reads the order's last cumulative quantity without a *)
(* lock (ReadOrder); its upsert then takes the row lock and holds it until *)
(* the commit, so that the rest of the transaction is one step             *)
(* (WriteOrder).  An update reports a cumulative quantity; the ledger gets *)
(* the difference to the quantity read.                                    *)
(*                                                                         *)
(* An update stands for its external_event_key: the broker reports each    *)
(* pair of status and quantity once, and a repeated post repeats the key.  *)
(* "working" stands for submitted and accepted too.  Left out: a pending   *)
(* cancel, which the intent's status ignores, and orders that report a     *)
(* broker error and go on working.                                         *)
(***************************************************************************)
EXTENDS Naturals, Sequences

CONSTANTS
    Quantity,      \* contracts of the entry order
    Handlers,      \* event requests the API may be serving at one time
    BatchLimit,    \* updates per request (100 in the AddOn)
    MaxFaults,     \* bound: requests lost, failed or overdue
    MaxRestarts    \* bound: NinjaTrader restarts

ASSUME ConstantsAssumption ==
    /\ Quantity \in Nat \ {0}
    /\ BatchLimit \in Nat \ {0}
    /\ MaxFaults \in Nat
    /\ MaxRestarts \in Nat

VARIABLES
    state,         \* the order's state at the broker
    executed,      \* contracts executed at the broker
    managed,       \* this AddOn process knows the order as the desk's
    queue,         \* the AddOn's pendingEvents
    batch,         \* updates of the request the AddOn waits for
    waiting,       \* the request the AddOn waits for
    work,          \* per request: updates still to record
    phase,         \* per request: the next step of recordBrokerUpdate
    previous,      \* per request: the cumulative quantity it read
    orderStatus,   \* broker_orders.status
    orderFilled,   \* broker_orders.raw.filled_quantity
    recorded,      \* broker_order_events, by external_event_key
    intentStatus,  \* trade_order_intents.status
    fills,         \* contracts in trade_fills
    quantityOpen,  \* trades.quantity_open
    faults,        \* faults so far
    restarts       \* NinjaTrader restarts so far

brokerVars == <<state, executed>>
addonVars  == <<managed, queue, batch, waiting>>
apiVars    == <<work, phase, previous>>
ledgerVars == <<orderStatus, orderFilled, recorded, intentStatus, fills, quantityOpen>>
countVars  == <<faults, restarts>>
vars == <<brokerVars, addonVars, apiVars, ledgerVars, countVars>>

-----------------------------------------------------------------------------
\* Types.

Live == {"working", "partially_filled"}

\* "expired" is terminal in the schema too; NinjaTrader raises no such state.
Terminal == {"filled", "cancelled", "rejected"}

Updates == [status : Live \cup Terminal, filled : 0..Quantity]

TypeOK ==
    /\ state \in {"placed"} \cup Live \cup Terminal
    /\ executed \in 0..Quantity
    /\ managed \in BOOLEAN
    /\ queue \in Seq(Updates) /\ batch \in Seq(Updates)
    /\ waiting \subseteq Handlers
    /\ work \in [Handlers -> Seq(Updates)]
    /\ phase \in [Handlers -> {"read", "write"}]
    /\ previous \in [Handlers -> 0..Quantity]
    /\ orderStatus \in {"none"} \cup Live \cup Terminal
    /\ orderFilled \in 0..Quantity
    /\ recorded \subseteq Updates
    /\ intentStatus \in {"sent", "acknowledged", "cancelled", "rejected"}
    /\ fills \in Nat
    /\ quantityOpen \in 0..Quantity
    /\ faults \in Nat /\ restarts \in Nat

Init ==
    /\ state = "placed" /\ executed = 0
    /\ managed = TRUE
    /\ queue = <<>> /\ batch = <<>> /\ waiting = {}
    /\ work = [h \in Handlers |-> <<>>]
    /\ phase = [h \in Handlers |-> "read"]
    /\ previous = [h \in Handlers |-> 0]
    /\ orderStatus = "none" /\ orderFilled = 0 /\ recorded = {}
    /\ intentStatus = "sent"
    /\ fills = 0 /\ quantityOpen = 0
    /\ faults = 0 /\ restarts = 0

-----------------------------------------------------------------------------
\* The broker, and OnOrderUpdate.  After a restart the AddOn does not know
\* the order any more: its updates carry no intent and are never recorded.

OnOrderUpdate(status, filled) ==
    /\ state' = status /\ executed' = filled
    /\ queue' = IF managed
                  THEN Append(queue, [status |-> status, filled |-> filled])
                  ELSE queue
    /\ UNCHANGED <<managed, batch, waiting, apiVars, ledgerVars, countVars>>

BrokerAccepts == state = "placed" /\ OnOrderUpdate("working", 0)

BrokerRejects == state = "placed" /\ OnOrderUpdate("rejected", 0)

BrokerFills ==
    /\ state \in Live
    /\ \E filled \in (executed + 1)..Quantity :
         OnOrderUpdate(IF filled = Quantity THEN "filled" ELSE "partially_filled", filled)

BrokerCancels == state \in Live /\ OnOrderUpdate("cancelled", executed)

-----------------------------------------------------------------------------
\* The AddOn's transport loop.

\* FlushEvents posts the head of the queue; some request serves it.
Flush(h) ==
    /\ waiting = {} /\ queue # <<>>
    /\ work[h] = <<>>
    /\ LET n == IF Len(queue) < BatchLimit THEN Len(queue) ELSE BatchLimit IN
         /\ batch' = SubSeq(queue, 1, n)
         /\ queue' = SubSeq(queue, n + 1, Len(queue))
         /\ work' = [work EXCEPT ![h] = SubSeq(queue, 1, n)]
    /\ waiting' = {h}
    /\ UNCHANGED <<brokerVars, managed, phase, previous, ledgerVars, countVars>>

\* The response arrives.
FlushDone(h) ==
    /\ h \in waiting /\ work[h] = <<>>
    /\ waiting' = {} /\ batch' = <<>>
    /\ UNCHANGED <<brokerVars, managed, queue, apiVars, ledgerVars, countVars>>

\* The catch of FlushEvents: the batch goes back to the end of the queue.
Requeue == waiting' = {} /\ batch' = <<>> /\ queue' = queue \o batch

\* A definition marked "faulty" is not the code's: it is the operator after it
\* with a plausible bug, by which the properties are shown to notice that bug.

\* Faulty: an overdue batch is given up.
FlushOverdueDropped(h) ==
    /\ h \in waiting /\ faults < MaxFaults
    /\ waiting' = {} /\ batch' = <<>>
    /\ faults' = faults + 1
    /\ UNCHANGED <<brokerVars, managed, queue, apiVars, ledgerVars, restarts>>

\* The HTTP client's timeout of 5 s passes, or the response is lost.  The API
\* does not notice: it goes on with the request.
FlushOverdue(h) ==
    /\ h \in waiting /\ faults < MaxFaults
    /\ Requeue
    /\ faults' = faults + 1
    /\ UNCHANGED <<brokerVars, managed, apiVars, ledgerVars, restarts>>

\* The request never arrives, the API stops, or a statement throws: the open
\* transaction is rolled back, what was committed before it stays.
RequestFails(h) ==
    /\ work[h] # <<>> /\ faults < MaxFaults
    /\ work' = [work EXCEPT ![h] = <<>>]
    /\ phase' = [phase EXCEPT ![h] = "read"]
    /\ previous' = [previous EXCEPT ![h] = 0]
    /\ IF h \in waiting THEN Requeue ELSE UNCHANGED <<queue, batch, waiting>>
    /\ faults' = faults + 1
    /\ UNCHANGED <<brokerVars, managed, ledgerVars, restarts>>

\* NinjaTrader restarts: the AddOn's memory is gone.
Restart ==
    /\ restarts < MaxRestarts
    /\ managed' = FALSE
    /\ queue' = <<>> /\ batch' = <<>> /\ waiting' = {}
    /\ restarts' = restarts + 1
    /\ UNCHANGED <<brokerVars, apiVars, ledgerVars, faults>>

-----------------------------------------------------------------------------
\* The API: recordAddonEvents calls recordBrokerUpdate for each update.

NextUpdate(h) ==
    /\ work' = [work EXCEPT ![h] = Tail(work[h])]
    /\ phase' = [phase EXCEPT ![h] = "read"]
    /\ previous' = [previous EXCEPT ![h] = 0]

\* A known event key ends the transaction.
SkipDuplicate(h) ==
    /\ work[h] # <<>> /\ phase[h] = "read"
    /\ Head(work[h]) \in recorded
    /\ NextUpdate(h)
    /\ UNCHANGED <<brokerVars, addonVars, ledgerVars, countVars>>

\* previousOrder, read without FOR UPDATE.
ReadOrder(h) ==
    /\ work[h] # <<>> /\ phase[h] = "read"
    /\ Head(work[h]) \notin recorded
    /\ previous' = [previous EXCEPT ![h] = orderFilled]
    /\ phase' = [phase EXCEPT ![h] = "write"]
    /\ UNCHANGED <<brokerVars, addonVars, work, ledgerVars, countVars>>

\* The upsert of broker_orders: a terminal row keeps its status and raw.
UpsertOrder(u) ==
    IF orderStatus \in Terminal
      THEN UNCHANGED <<orderStatus, orderFilled>>
      ELSE orderStatus' = u.status /\ orderFilled' = u.filled

\* Faulty: the increment is added to the open quantity.
PersistEntryFillAdded(u, before) ==
    IF u.filled > before
      THEN /\ fills' = fills + (u.filled - before)
           /\ quantityOpen' = quantityOpen + (u.filled - before)
      ELSE UNCHANGED <<fills, quantityOpen>>

\* Faulty: the open quantity is the increment, not the cumulative quantity.
PersistEntryFillIncrement(u, before) ==
    IF u.filled > before
      THEN /\ fills' = fills + (u.filled - before)
           /\ quantityOpen' = u.filled - before
      ELSE UNCHANGED <<fills, quantityOpen>>

\* Faulty: only the update that completes the order is written to the ledger.
PersistEntryFillOnceFilled(u, before) ==
    IF u.filled > before /\ u.status = "filled"
      THEN fills' = fills + (u.filled - before) /\ quantityOpen' = u.filled
      ELSE UNCHANGED <<fills, quantityOpen>>

\* persistEntryFillAndTrade: the trade and one row of trade_fills.
PersistEntryFill(u, before) ==
    IF u.filled > before
      THEN fills' = fills + (u.filled - before) /\ quantityOpen' = u.filled
      ELSE UNCHANGED <<fills, quantityOpen>>

\* The rest of recordBrokerUpdate, from the upsert to the commit.
WriteOrder(h) ==
    LET u == Head(work[h]) IN
    /\ work[h] # <<>> /\ phase[h] = "write"
    /\ UpsertOrder(u)
    /\ recorded' = recorded \cup {u}
    /\ IF u \in recorded
         THEN UNCHANGED <<fills, quantityOpen>>
         ELSE PersistEntryFill(u, previous[h])
    /\ intentStatus' = IF u.status \in {"cancelled", "rejected"} THEN u.status ELSE "acknowledged"
    /\ NextUpdate(h)
    /\ UNCHANGED <<brokerVars, addonVars, countVars>>

-----------------------------------------------------------------------------
Broker == BrokerAccepts \/ BrokerRejects \/ BrokerFills \/ BrokerCancels

AddOn == \E h \in Handlers : Flush(h) \/ FlushDone(h)

Api == \E h \in Handlers : SkipDuplicate(h) \/ ReadOrder(h) \/ WriteOrder(h)

Failure == Restart \/ \E h \in Handlers : FlushOverdue(h) \/ RequestFails(h)

Next == Broker \/ AddOn \/ Api \/ Failure

Spec == Init /\ [][Next]_vars

\* The transport loop runs every second, and the API goes on with every
\* request it has; nothing is assumed of the broker, or of failures.
Fairness ==
    /\ WF_vars(AddOn)
    /\ \A h \in Handlers : WF_vars(SkipDuplicate(h) \/ ReadOrder(h) \/ WriteOrder(h))

FairSpec == Spec /\ Fairness

-----------------------------------------------------------------------------
\* Properties.

\* As long as no request fails or is overdue, the ledger is exact: the fills
\* in trade_fills, the trade's open quantity and the order row agree on what
\* was executed, and the intent is cancelled or rejected exactly if the order is.
InOrderExact ==
    faults = 0 =>
        /\ fills = orderFilled /\ quantityOpen = orderFilled
        /\ orderFilled <= executed
        /\ intentStatus = CASE orderStatus = "none" -> "sent"
                            [] orderStatus \in {"cancelled", "rejected"} -> orderStatus
                            [] OTHER -> "acknowledged"

\* No recorded execution is missing from the ledger, in whatever order and
\* however often the updates arrive, and whatever the requests that record
\* them at the same time have read: trade_fills holds at least the largest
\* cumulative quantity recorded.
NoFillLost == \A u \in recorded : u.filled <= fills

\* trade_fills may count a contract again when a late update has taken the order
\* row back; the trade and the order row never show more than was executed,
\* nor the trade more than trade_fills holds.
OpenWasExecuted ==
    quantityOpen <= executed /\ quantityOpen <= fills /\ orderFilled <= executed

\* A closed order row is final: it says how the order ended at the broker, and
\* every contract the order executed is in trade_fills by then, although late
\* updates may still be on their way.
ClosedIsComplete ==
    orderStatus \in Terminal => orderStatus = state /\ executed <= fills

\* Every executed contract reaches the ledger, and the end of the order its
\* row for good, once requests stop failing, unless a restart loses the
\* AddOn's queue.
ExecutionsAreRecorded ==
    /\ \A n \in 1..Quantity : executed >= n ~> (fills >= n \/ restarts > 0)
    /\ state \in Terminal ~> [](orderStatus = state \/ restarts > 0)
=============================================================================

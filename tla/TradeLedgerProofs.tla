------------------------- MODULE TradeLedgerProofs -------------------------
(***************************************************************************)
(* Theorems about TradeLedger, for any set of intents and of requests that *)
(* work from snapshots, and any quantity and bound.                        *)
(*                                                                         *)
(* Three inductive invariants.  IInv is about the ledger: what a request   *)
(* read of the trade still holds of it if the trade's revision is the one  *)
(* it read.  FillsInv is about trade_fills: no record anywhere claims more *)
(* than the broker executed.  DoneInv is about intents: whatever can make  *)
(* one acknowledged comes from a command that went through.                *)
(***************************************************************************)
EXTENDS TradeLedger, TLAPS

\* The job of a reconciliation that found p contracts in the snapshot and m
\* missing, when the trade was at revision r, and has the intents S to settle.
Settlement(p, m, r, S) ==
    [Idle EXCEPT !.phase = "settle", !.position = p, !.missing = m, !.revision = r, !.pending = S]

Settling(j) == j.phase \in {"settle", "intent", "row"} /\ j.pending # {}

\* A settlement that has intents left was computed from the trade at its
\* revision: it describes the trade unless the trade has moved on.
SettlementsFit ==
    \A h \in Handlers :
        /\ job[h].revision <= trade.revision
        /\ Settling(job[h]) =>
             /\ job[h].position \in Nat /\ job[h].missing \in Nat
             /\ job[h].missing > 0
             /\ job[h].position + job[h].missing <= Quantity
             /\ job[h].revision = trade.revision =>
                  trade.open = job[h].position + job[h].missing

\* A closed trade has nothing open, and the other way round.
ClosedIsEmpty == trade.status = "closed" <=> trade.open = 0

PositionBounded == position <= Quantity

IInv == TypeOK /\ PositionBounded /\ SettlementsFit /\ ClosedIsEmpty /\ Conserved

\* An update says no more than its order executed, a snapshot has the filled
\* stop as it was filled.
UpdatesAreExecuted == \A u \in updates \cup recorded : u.filled <= executed[u.intent]
SnapshotsKnowTheStop ==
    \A h \in Handlers :
        /\ job[h].phase = "persist" => job[h].stop.state = "filled"
        /\ job[h].stop.state = "filled" =>
             stop.state = "filled" /\ stop.quantity = job[h].stop.quantity

FillsInv == UpdatesAreExecuted /\ SnapshotsKnowTheStop /\ FillsExact

\* What the AddOn holds belongs to an intent; the AddOn holds nothing while a
\* claim is on its way, and reports only on what it holds.
CommandsHaveIntents ==
    \A c \in claim \cup held : intents[c.intent].status # "none"
OneAtATime ==
    /\ \A c, d \in held : c = d
    /\ claim = {} \/ held = {}
    /\ held = {} => result = "none"

\* What the journal says went through did not come from nowhere, and what is
\* reported, tracked or settled went through.
JournalHasIntents == \A i \in journal : intents[i].status # "none"
ReportsAreTrue == result = "delivered" => \A c \in held : c.intent \in journal
CompletionsAreTrue == \A c \in completing : c.status = "delivered" => c.intent \in journal
UpdatesAreTrue ==
    /\ managed \subseteq journal
    /\ \A u \in updates :
         /\ u.intent \in journal
         /\ (intents[u.intent].action = "move_stop" /\ u.status = "working") => stop.moved
SettlementsAreTrue == \A h \in Handlers : job[h].pending \cup job[h].half \subseteq journal
StatusesAreTrue ==
    \A i \in Intents : intents[i].status \in {"delivered", "acknowledged"} => i \in journal

DoneInv ==
    /\ CommandsHaveIntents /\ OneAtATime /\ JournalHasIntents /\ ReportsAreTrue
    /\ CompletionsAreTrue /\ UpdatesAreTrue /\ SettlementsAreTrue /\ StatusesAreTrue
    /\ (trade.stopMoved => stop.moved)

USE ConstantsAssumption
USE DEF vars, brokerVars, addonVars, apiVars, deskVars, ledgerVars, Quantities

-----------------------------------------------------------------------------
\* Types.

\* What a request that has ended is left with is a job; how a request's job,
\* an intent and the trade change, they stay what they are.
LEMMA JobChanges ==
    ASSUME NEW j \in Jobs
    PROVE  /\ [j EXCEPT !.phase = "confirm"] \in Jobs
           /\ [j EXCEPT !.phase = "row"] \in Jobs
           /\ \A n \in Int : [j EXCEPT !.phase = "persist", !.missing = n] \in Jobs
           /\ [j EXCEPT !.phase = "confirm", !.missing = 0] \in Jobs
           /\ \A i \in Intents :
                [j EXCEPT !.phase = "intent", !.pending = @ \ {i}, !.half = {i}] \in Jobs
           /\ [j EXCEPT !.phase = "settle", !.half = {}] \in Jobs
           /\ [j EXCEPT !.phase = "settle"] \in Jobs
           /\ \A v \in BOOLEAN : [j EXCEPT !.phase = "protect", !.confirmed = v] \in Jobs
           /\ \A p, m \in Int, r \in Nat, S \in SUBSET Intents :
                [j EXCEPT !.phase = "settle", !.position = p, !.missing = m,
                          !.revision = r, !.pending = S] \in Jobs
  <1> USE DEF Jobs
  <1>1. [j EXCEPT !.phase = "confirm"] \in Jobs /\ [j EXCEPT !.phase = "row"] \in Jobs
    OBVIOUS
  <1>2. \A n \in Int : [j EXCEPT !.phase = "persist", !.missing = n] \in Jobs
    OBVIOUS
  <1>3. [j EXCEPT !.phase = "confirm", !.missing = 0] \in Jobs
    <2>1. ASSUME NEW n \in Int PROVE [j EXCEPT !.phase = "confirm", !.missing = n] \in Jobs
      OBVIOUS
    <2>2. 0 \in Int
      OBVIOUS
    <2>3. QED
      BY <2>1, <2>2, Zenon
  <1>4. ASSUME NEW i \in Intents
        PROVE  [j EXCEPT !.phase = "intent", !.pending = j.pending \ {i}, !.half = {i}] \in Jobs
    <2>1. j.pending \ {i} \in SUBSET Intents /\ {i} \in SUBSET Intents
      OBVIOUS
    <2>2. QED
      BY <2>1
  <1>5. [j EXCEPT !.phase = "settle", !.half = {}] \in Jobs /\ [j EXCEPT !.phase = "settle"] \in Jobs
    OBVIOUS
  <1>6. \A v \in BOOLEAN : [j EXCEPT !.phase = "protect", !.confirmed = v] \in Jobs
    OBVIOUS
  <1>7. ASSUME NEW p \in Int, NEW m \in Int, NEW r \in Nat, NEW S \in SUBSET Intents
        PROVE  [j EXCEPT !.phase = "settle", !.position = p, !.missing = m,
                         !.revision = r, !.pending = S] \in Jobs
    OBVIOUS
  <1>8. QED
    BY <1>1, <1>2, <1>3, <1>4, <1>5, <1>6, <1>7

LEMMA IdleIsAJob == Idle \in Jobs /\ Opened \in Trades /\ Protection \in Stops
  BY DEF Idle, Jobs, Opened, Trades, Protection, Stops

LEMMA IntentionChanges ==
    ASSUME NEW m \in Intentions, NEW s \in IntentStatus
    PROVE  [m EXCEPT !.status = s] \in Intentions
  BY DEF Intentions

LEMMA TradeChanges ==
    ASSUME NEW t \in Trades
    PROVE  /\ \A n \in 1..t.open : Reduced(t, n) \in Trades
           /\ [t EXCEPT !.stopMoved = TRUE, !.revision = @ + 1] \in Trades
           /\ [t EXCEPT !.status = "protected", !.revision = @ + 1] \in Trades
           /\ \A n \in Quantities, m \in Nat, v \in {"closed", "protected"} :
                [t EXCEPT !.open = n, !.closed = @ + m, !.status = v, !.revision = @ + 1]
                  \in Trades
  <1>1. ASSUME NEW n \in 1..t.open PROVE Reduced(t, n) \in Trades
    <2>1. t.open - n \in Quantities /\ t.closed + n \in Nat /\ t.revision + 1 \in Nat
      BY DEF Trades
    <2>2. QED
      BY <2>1 DEF Trades, Reduced
  <1>2. /\ [t EXCEPT !.stopMoved = TRUE, !.revision = @ + 1] \in Trades
        /\ [t EXCEPT !.status = "protected", !.revision = @ + 1] \in Trades
    <2>1. t.revision + 1 \in Nat
      BY DEF Trades
    <2>2. QED
      BY <2>1 DEF Trades
  <1>3. ASSUME NEW n \in Quantities, NEW m \in Nat, NEW v \in {"closed", "protected"}
        PROVE  [t EXCEPT !.open = n, !.closed = @ + m, !.status = v, !.revision = @ + 1] \in Trades
    <2>1. t.closed + m \in Nat /\ t.revision + 1 \in Nat
      BY DEF Trades
    <2>2. QED
      BY <2>1 DEF Trades
  <1>4. QED
    BY <1>1, <1>2, <1>3

\* The desk starts well typed.
LEMMA TypeInit == Init => TypeOK
  <1> SUFFICES ASSUME Init PROVE TypeOK
    OBVIOUS
  <1>1. BrokerTypes /\ AddonTypes
    <2>1. 0 \in Quantities /\ Quantity \in Int
      OBVIOUS
    <2>2. QED
      BY <2>1, IdleIsAJob DEF Init, BrokerTypes, AddonTypes
  <1>2. ApiTypes /\ LedgerTypes
    <2>1. Quantity \in Int /\ 0 \in Nat
      OBVIOUS
    <2>2. QED
      BY <2>1, IdleIsAJob DEF Init, ApiTypes, LedgerTypes
  <1>3. DeskTypes
    <2>1. [action |-> "none", quantity |-> 0, revision |-> 0, status |-> "none"] \in Intentions
      BY DEF Intentions, IntentStatus
    <2>2. line \in Seq(Intents) /\ "none" \in RowStatus
      BY DEF Init, RowStatus
    <2>3. QED
      BY <2>1, <2>2 DEF Init, DeskTypes
  <1>4. QED
    BY <1>1, <1>2, <1>3 DEF Init, TypeOK

\* What a step leaves alone keeps its type.
LEMMA TypesStay ==
    ASSUME TypeOK
    PROVE  /\ UNCHANGED brokerVars => BrokerTypes'
           /\ UNCHANGED addonVars => AddonTypes'
           /\ UNCHANGED apiVars => ApiTypes'
           /\ UNCHANGED deskVars => DeskTypes'
           /\ UNCHANGED ledgerVars => LedgerTypes'
  BY DEF TypeOK, BrokerTypes, AddonTypes, ApiTypes, DeskTypes, LedgerTypes

\* An update's fill takes from the trade what it has, and what is new of it.
LEMMA FillShape ==
    ASSUME TypeOK, NEW u \in Updates, PersistManagementFill(u)
    PROVE  \/ UNCHANGED <<trade, fills>>
           \/ \E n \in 1..trade.open :
                /\ n <= u.filled - fills[u.intent]
                /\ trade' = Reduced(trade, n)
                /\ fills' = [fills EXCEPT ![u.intent] = @ + n]
  <1>1. trade.open \in Nat /\ u.filled - fills[u.intent] \in Int
    BY DEF TypeOK, LedgerTypes, Trades, Updates
  <1> DEFINE delta == Least(trade.open, u.filled - fills[u.intent])
  <1>2. delta \in Int /\ delta <= trade.open /\ delta <= u.filled - fills[u.intent]
    BY <1>1 DEF Least
  <1>3. CASE delta > 0
    BY <1>1, <1>2, <1>3 DEF PersistManagementFill
  <1>4. CASE ~(delta > 0)
    BY <1>4 DEF PersistManagementFill
  <1>5. QED
    BY <1>3, <1>4

LEMMA FillGrows ==
    ASSUME TypeOK, NEW u \in Updates, PersistManagementFill(u)
    PROVE  trade' \in Trades /\ fills' \in [Intents -> Nat]
  <1>1. /\ trade \in Trades /\ fills \in [Intents -> Nat] /\ trade.open \in Nat
        /\ u.intent \in Intents
    BY DEF TypeOK, LedgerTypes, Trades, Updates
  <1>2. CASE UNCHANGED <<trade, fills>>
    BY <1>1, <1>2
  <1>3. ASSUME NEW n \in 1..trade.open, trade' = Reduced(trade, n),
               fills' = [fills EXCEPT ![u.intent] = @ + n]
        PROVE  trade' \in Trades /\ fills' \in [Intents -> Nat]
    <2>1. trade' \in Trades
      BY <1>1, <1>3, TradeChanges
    <2>2. n \in Nat /\ fills[u.intent] + n \in Nat
      BY <1>1
    <2>3. QED
      BY <1>1, <1>3, <2>1, <2>2
  <1>4. QED
    BY <1>2, <1>3, FillShape

\* So does a protective exit, which looks at the trade again.
LEMMA ProtectiveShape ==
    ASSUME TypeOK, NEW h \in Handlers, PersistProtectiveFill(h)
    PROVE  \/ UNCHANGED <<trade, stopFills>>
           \/ \E n \in 1..trade.open :
                /\ IsOpen(trade)
                /\ n <= job[h].stop.quantity - stopFills
                /\ trade' = Reduced(trade, n)
                /\ stopFills' = stopFills + n
  <1>1. /\ trade.open \in Nat /\ job[h].missing \in Int
        /\ job[h].stop.quantity - stopFills \in Int
    BY DEF TypeOK, ApiTypes, Jobs, Stops, LedgerTypes, Trades
  <1> DEFINE rest  == Least(job[h].missing, job[h].stop.quantity - stopFills)
             delta == Least(trade.open, rest)
  <1>2. rest \in Int /\ rest <= job[h].stop.quantity - stopFills
    BY <1>1 DEF Least
  <1>3. delta \in Int /\ delta <= trade.open /\ delta <= rest
    BY <1>1, <1>2 DEF Least
  <1>4. CASE IsOpen(trade) /\ delta > 0
    BY <1>1, <1>2, <1>3, <1>4 DEF PersistProtectiveFill
  <1>5. CASE ~(IsOpen(trade) /\ delta > 0)
    BY <1>5 DEF PersistProtectiveFill
  <1>6. QED
    BY <1>4, <1>5

\* A reconciliation either has nothing to settle or keeps what it read: the
\* snapshot's quantity and the missing contracts sum to the trade's.
LEMMA ReconcileShape ==
    ASSUME TypeOK, NEW h \in Handlers, Reconcile(h)
    PROVE  \/ job' = [job EXCEPT ![h] = [Idle EXCEPT !.phase = "settle"]]
           \/ \E p \in Nat, m \in Nat \ {0}, S \in SUBSET Intents :
                /\ p + m = trade.open
                /\ \A i \in S : intents[i].status \in {"delivered", "acknowledged"}
                /\ job' = [job EXCEPT ![h] = Settlement(p, m, trade.revision, S)]
  <1> DEFINE S == {i \in Intents : /\ intents[i].status \in {"delivered", "acknowledged"}
                                   /\ intents[i].action # "move_stop"}
  <1>1. PICK seen \in {latest, position}, listed \in BOOLEAN :
          job' = [job EXCEPT ![h] =
            IF trade.status # "closed" /\ listed /\ trade.open - Abs(seen) > 0
              THEN [Idle EXCEPT !.phase = "settle", !.position = Abs(seen),
                      !.missing = trade.open - Abs(seen), !.revision = trade.revision,
                      !.pending = S]
              ELSE [Idle EXCEPT !.phase = "settle"]]
    BY DEF Reconcile
  <1>2. Abs(seen) \in Nat /\ trade.open \in Nat
    BY DEF TypeOK, BrokerTypes, ApiTypes, LedgerTypes, Trades, Abs
  <1>3. CASE trade.status # "closed" /\ listed /\ trade.open - Abs(seen) > 0
    <2>1. trade.open - Abs(seen) \in Nat \ {0} /\ Abs(seen) + (trade.open - Abs(seen)) = trade.open
      BY <1>2, <1>3
    <2>2. S \in SUBSET Intents /\ \A i \in S : intents[i].status \in {"delivered", "acknowledged"}
      OBVIOUS
    <2>3. job' = [job EXCEPT ![h] =
                    Settlement(Abs(seen), trade.open - Abs(seen), trade.revision, S)]
      BY <1>1, <1>3 DEF Settlement
    <2>4. QED
      BY <1>2, <2>1, <2>2, <2>3
  <1>4. CASE ~(trade.status # "closed" /\ listed /\ trade.open - Abs(seen) > 0)
    BY <1>1, <1>4
  <1>5. QED
    BY <1>3, <1>4

\* Every step keeps the types.
LEMMA TypeStep == IInv /\ [Next]_vars => TypeOK'
  <1> SUFFICES ASSUME TypeOK, PositionBounded, SettlementsFit, [Next]_vars PROVE TypeOK'
    BY DEF IInv
  <1> USE DEF TypeOK
  <1>1. ASSUME NEW i \in Intents, MaterializeManagement(i) PROVE TypeOK'
    <2>1. DeskTypes'
      <3>1. PICK action \in Actions, n \in Quantities :
              intents' = [intents EXCEPT ![i] = [action |-> action, quantity |-> n,
                              revision |-> trade.revision, status |-> "pending_approval"]]
        BY <1>1 DEF MaterializeManagement
      <3>2. trade.revision \in Nat
        BY DEF LedgerTypes, Trades
      <3>3. [action |-> action, quantity |-> n, revision |-> trade.revision,
             status |-> "pending_approval"] \in Intentions
        BY <3>2 DEF Intentions, IntentStatus
      <3>4. QED
        BY <1>1, <3>1, <3>3 DEF MaterializeManagement, DeskTypes
    <2>2. QED
      BY <1>1, <2>1, TypesStay DEF MaterializeManagement
  <1>2. ASSUME NEW i \in Intents, ApproveManagementIntent(i) PROVE TypeOK'
    <2>1. DeskTypes'
      <3>1. "queued" \in IntentStatus /\ "pending" \in RowStatus
        BY DEF IntentStatus, RowStatus
      <3>2. intents' \in [Intents -> Intentions]
        BY <1>2, <3>1, IntentionChanges DEF ApproveManagementIntent, DeskTypes
      <3>3. rows' \in [Intents -> RowStatus] /\ line' \in Seq(Intents)
        <4>1. Append(line, i) \in Seq(Intents)
          BY DEF DeskTypes
        <4>2. rows' \in {rows, [rows EXCEPT ![i] = "pending"]} /\ line' \in {line, Append(line, i)}
          BY <1>2 DEF ApproveManagementIntent
        <4>3. QED
          BY <3>1, <4>1, <4>2 DEF DeskTypes
      <3>4. QED
        BY <1>2, <3>2, <3>3 DEF ApproveManagementIntent, DeskTypes
    <2>2. QED
      BY <1>2, <2>1, TypesStay DEF ApproveManagementIntent
  <1>3. ASSUME NEW i \in Intents, RejectManagementIntent(i) PROVE TypeOK'
    <2>1. DeskTypes'
      <3>1. "rejected" \in IntentStatus
        BY DEF IntentStatus
      <3>2. intents[i] \in Intentions /\ intents[i].status \in IntentStatus
        BY DEF DeskTypes, Intentions
      <3>3. \E s \in IntentStatus : intents' = [intents EXCEPT ![i] = [intents[i] EXCEPT !.status = s]]
        <4>1. CASE intents[i].status \in {"pending_approval", "queued"}
          BY <1>3, <3>1, <4>1 DEF RejectManagementIntent
        <4>2. CASE intents[i].status \notin {"pending_approval", "queued"}
          BY <1>3, <3>2, <4>2 DEF RejectManagementIntent
        <4>3. QED
          BY <4>1, <4>2
      <3>4. PICK s \in IntentStatus : intents' = [intents EXCEPT ![i] = [intents[i] EXCEPT !.status = s]]
        BY <3>3
      <3>5. [intents[i] EXCEPT !.status = s] \in Intentions
        BY <3>2, IntentionChanges
      <3>6. intents' \in [Intents -> Intentions]
        BY <3>4, <3>5 DEF DeskTypes
      <3>7. QED
        BY <1>3, <3>6 DEF RejectManagementIntent, DeskTypes
    <2>2. QED
      BY <1>3, <2>1, TypesStay DEF RejectManagementIntent
  <1>4. ASSUME NEW i \in Intents, CancelManagementRow(i) PROVE TypeOK'
    <2>1. DeskTypes'
      BY <1>4 DEF CancelManagementRow, DeskTypes, Intentions, IntentStatus, RowStatus
    <2>2. QED
      BY <1>4, <2>1, TypesStay DEF CancelManagementRow
  <1>5. ASSUME NEW i \in Intents, Expire(i) PROVE TypeOK'
    <2>1. DeskTypes'
      BY <1>5 DEF Expire, DeskTypes, Intentions, IntentStatus, RowStatus
    <2>2. QED
      BY <1>5, <2>1, TypesStay DEF Expire
  <1>6. ASSUME NEW i \in Intents, CheckManagementWork(i) PROVE TypeOK'
    <2>1. ApiTypes'
      <3>1. trade.open \in Quantities /\ intents[i].quantity \in Quantities
        BY DEF LedgerTypes, Trades, DeskTypes, Intentions
      <3>2. claim' \subseteq Commands
        BY <1>6, <3>1 DEF CheckManagementWork, Commands
      <3>3. QED
        BY <1>6, <3>2 DEF CheckManagementWork, ApiTypes
    <2>2. QED
      BY <1>6, <2>1, TypesStay DEF CheckManagementWork
  <1>7. CASE LeaseManagementOutbox
    <2>1. AddonTypes'
      <3>1. held' \subseteq Commands
        BY <1>7 DEF LeaseManagementOutbox, AddonTypes, ApiTypes
      <3>2. QED
        BY <1>7, <3>1 DEF LeaseManagementOutbox, AddonTypes
    <2>2. ApiTypes'
      BY <1>7, IdleIsAJob DEF LeaseManagementOutbox, ApiTypes, BrokerTypes, LedgerTypes, Trades, Jobs, Commands
    <2>3. DeskTypes'
      <3>1. PICK c \in claim :
              \/ /\ rows' = [rows EXCEPT ![c.intent] = "leased"]
                 /\ intents' = [intents EXCEPT ![c.intent].status =
                                  IF @ = "queued" THEN "leased" ELSE @]
              \/ UNCHANGED <<rows, intents>>
        BY <1>7 DEF LeaseManagementOutbox
      <3>2. c.intent \in Intents
        BY DEF ApiTypes, Commands
      <3>3. intents[c.intent] \in Intentions /\ intents[c.intent].status \in IntentStatus
        BY <3>2 DEF DeskTypes, Intentions
      <3>4. "leased" \in IntentStatus /\ "leased" \in RowStatus
        BY DEF IntentStatus, RowStatus
      <3>5. intents' \in [Intents -> Intentions] /\ rows' \in [Intents -> RowStatus]
        BY <3>1, <3>2, <3>3, <3>4, IntentionChanges DEF DeskTypes
      <3>6. QED
        BY <1>7, <3>5 DEF LeaseManagementOutbox, DeskTypes
    <2>4. QED
      BY <1>7, <2>1, <2>2, <2>3, TypesStay DEF LeaseManagementOutbox
  <1>8. CASE SubmitReduction
    <2>1. BrokerTypes'
      BY <1>8 DEF SubmitReduction, PlaceOrder, Raise, BrokerTypes, Stops, Commands, AddonTypes
    <2>2. AddonTypes'
      BY <1>8 DEF SubmitReduction, PlaceOrder, Raise, AddonTypes, BrokerTypes, Commands, Updates
    <2>3. QED
      BY <1>8, <2>1, <2>2, TypesStay DEF SubmitReduction
  <1>9. CASE ClosePosition
    <2>1. BrokerTypes'
      <3>1. position > 0 => position \in Quantities
        BY DEF BrokerTypes, PositionBounded
      <3>2. PICK c \in held :
              \/ /\ position > 0
                 /\ size' = [size EXCEPT ![c.intent] = position] /\ live' = live \cup {c.intent}
                 /\ UNCHANGED <<position, unseen>>
              \/ /\ position' = 0 /\ unseen' = IF position = 0 THEN unseen ELSE tracked
                 /\ UNCHANGED <<size, live>>
        BY <1>9 DEF ClosePosition, PlaceOrder
      <3>3. c.intent \in Intents
        BY DEF AddonTypes, Commands
      <3>4. size' \in [Intents -> Quantities] /\ live' \subseteq Intents
        BY <3>1, <3>2, <3>3 DEF BrokerTypes
      <3>5. position' \in Int /\ unseen' \in BOOLEAN
        BY <3>2 DEF BrokerTypes, AddonTypes
      <3>6. QED
        BY <1>9, <3>4, <3>5 DEF ClosePosition, BrokerTypes
    <2>2. AddonTypes'
      BY <1>9 DEF ClosePosition, PlaceOrder, Raise, AddonTypes, BrokerTypes, Commands, Updates
    <2>3. QED
      BY <1>9, <2>1, <2>2, TypesStay DEF ClosePosition
  <1>10. CASE MoveStop
    <2>1. BrokerTypes'
      <3>1. PICK c \in held :
              stop' \in {stop, [stop EXCEPT !.moved = TRUE, !.quantity = c.quantity]}
        BY <1>10 DEF MoveStop
      <3>2. c.quantity \in Nat
        BY DEF AddonTypes, Commands
      <3>3. stop' \in Stops
        BY <3>1, <3>2 DEF BrokerTypes, Stops
      <3>4. QED
        BY <1>10, <3>3 DEF MoveStop, BrokerTypes
    <2>2. AddonTypes'
      BY <1>10 DEF MoveStop, Raise, AddonTypes, BrokerTypes, Commands, Updates
    <2>3. QED
      BY <1>10, <2>1, <2>2, TypesStay DEF MoveStop
  <1>11. CASE CommandFails
    <2>1. AddonTypes'
      BY <1>11 DEF CommandFails, AddonTypes, BrokerTypes, Commands, Updates
    <2>2. QED
      BY <1>11, <2>1, TypesStay DEF CommandFails
  <1>12. CASE CompleteManagementRow
    <2>1. AddonTypes'
      BY <1>12 DEF CompleteManagementRow, AddonTypes, BrokerTypes, Commands, Updates
    <2>2. ApiTypes'
      <3>1. PICK c \in held :
              completing' = completing \cup {[intent |-> c.intent, status |-> result]}
        BY <1>12 DEF CompleteManagementRow
      <3>2. c.intent \in Intents /\ result \in {"delivered", "failed"}
        BY <1>12 DEF CompleteManagementRow, AddonTypes, Commands
      <3>3. QED
        BY <1>12, <3>1, <3>2 DEF CompleteManagementRow, ApiTypes
    <2>3. DeskTypes'
      <3>1. PICK c \in held : rows' = [rows EXCEPT ![c.intent] = result]
        BY <1>12 DEF CompleteManagementRow
      <3>2. result \in RowStatus
        BY <1>12 DEF CompleteManagementRow, AddonTypes, RowStatus
      <3>3. QED
        BY <1>12, <3>1, <3>2 DEF CompleteManagementRow, DeskTypes
    <2>4. QED
      BY <1>12, <2>1, <2>2, <2>3, TypesStay DEF CompleteManagementRow
  <1>13. CASE CompleteManagementIntent
    <2>1. ApiTypes'
      BY <1>13 DEF CompleteManagementIntent, ApiTypes
    <2>2. DeskTypes'
      <3>1. PICK c \in completing : intents' = [intents EXCEPT ![c.intent].status = c.status]
        BY <1>13 DEF CompleteManagementIntent
      <3>2. c.intent \in Intents /\ c.status \in IntentStatus
        BY DEF ApiTypes, IntentStatus
      <3>3. intents' \in [Intents -> Intentions]
        BY <3>1, <3>2, IntentionChanges DEF DeskTypes
      <3>4. QED
        BY <1>13, <3>3 DEF CompleteManagementIntent, DeskTypes
    <2>3. QED
      BY <1>13, <2>1, <2>2, TypesStay DEF CompleteManagementIntent
  <1>14. CASE CompletionLost
    <2>1. AddonTypes'
      BY <1>14 DEF CompletionLost, AddonTypes, BrokerTypes, Commands, Updates
    <2>2. QED
      BY <1>14, <2>1, TypesStay DEF CompletionLost
  <1>15. CASE ResizeActiveProtection
    <2>1. BrokerTypes'
      <3>1. Abs(position) \in Nat
        BY DEF Abs, BrokerTypes
      <3>2. stop' \in {stop, [stop EXCEPT !.quantity = Abs(position)]}
        BY <1>15 DEF ResizeActiveProtection
      <3>3. stop' \in Stops
        BY <3>1, <3>2 DEF BrokerTypes, Stops
      <3>4. QED
        BY <1>15, <3>3 DEF ResizeActiveProtection, BrokerTypes
    <2>2. AddonTypes'
      BY <1>15 DEF ResizeActiveProtection, Abs, AddonTypes, BrokerTypes, Commands, Updates
    <2>3. QED
      BY <1>15, <2>1, <2>2, TypesStay DEF ResizeActiveProtection
  <1>16. CASE Restart
    <2>1. BrokerTypes'
      BY <1>16 DEF Restart, BrokerTypes, Stops, Commands, AddonTypes
    <2>2. AddonTypes'
      BY <1>16 DEF Restart, AddonTypes, BrokerTypes, Commands, Updates
    <2>3. QED
      BY <1>16, <2>1, <2>2, TypesStay DEF Restart
  <1>17. CASE StopFills
    <2>1. BrokerTypes'
      BY <1>17 DEF StopFills, BrokerTypes, Stops, Commands, AddonTypes
    <2>2. QED
      BY <1>17, <2>1, TypesStay DEF StopFills
  <1>18. CASE ProtectionEnds
    <2>1. BrokerTypes'
      BY <1>18 DEF ProtectionEnds, BrokerTypes, Stops, Commands, AddonTypes
    <2>2. QED
      BY <1>18, <2>1, TypesStay DEF ProtectionEnds
  <1>19. ASSUME NEW i \in Intents, BrokerFills(i) PROVE TypeOK'
    <2>1. BrokerTypes'
      BY <1>19 DEF BrokerFills, Raise, BrokerTypes, Stops, Commands, AddonTypes
    <2>2. AddonTypes'
      BY <1>19 DEF BrokerFills, Raise, AddonTypes, BrokerTypes, Commands, Updates
    <2>3. QED
      BY <1>19, <2>1, <2>2, TypesStay DEF BrokerFills
  <1>20. ASSUME NEW i \in Intents, OrderEnds(i) PROVE TypeOK'
    <2>1. BrokerTypes'
      BY <1>20 DEF OrderEnds, Raise, BrokerTypes, Stops, Commands, AddonTypes
    <2>2. AddonTypes'
      BY <1>20 DEF OrderEnds, Raise, AddonTypes, BrokerTypes, Commands, Updates
    <2>3. QED
      BY <1>20, <2>1, <2>2, TypesStay DEF OrderEnds
  <1>21. ASSUME NEW u \in updates, RecordManagementBrokerUpdate(u) PROVE TypeOK'
    <2>1. DeskTypes'
      <3>1. u.intent \in Intents
        BY DEF AddonTypes, Updates
      <3>2. \/ UNCHANGED <<intents, rows>>
            \/ \E s \in {"failed", "acknowledged"} :
                 /\ intents' = [intents EXCEPT ![u.intent].status = s]
                 /\ rows' = [rows EXCEPT ![u.intent] =
                               IF @ \in {"pending", "leased", "delivered"} THEN s ELSE @]
        BY <1>21 DEF RecordManagementBrokerUpdate
      <3>3. \A s \in {"failed", "acknowledged"} : s \in IntentStatus /\ s \in RowStatus
        BY DEF IntentStatus, RowStatus
      <3>4. intents' \in [Intents -> Intentions]
        BY <3>1, <3>2, <3>3, IntentionChanges DEF DeskTypes
      <3>5. rows' \in [Intents -> RowStatus]
        BY <3>1, <3>2, <3>3 DEF DeskTypes
      <3>6. QED
        BY <1>21, <3>4, <3>5 DEF RecordManagementBrokerUpdate, DeskTypes
    <2>2. LedgerTypes'
      <3>1. u \in Updates
        BY DEF AddonTypes, Updates
      <3>2. CASE PersistManagementFill(u)
        <4>1. trade \in Trades /\ fills \in [Intents -> Nat] /\ trade.open \in Nat
          BY DEF LedgerTypes, Trades
        <4>2. trade' \in Trades /\ fills' \in [Intents -> Nat]
          BY <1>21, <3>1, <3>2, <4>1, FillGrows
        <4>3. QED
          BY <1>21, <3>1, <3>2, <4>2 DEF RecordManagementBrokerUpdate, LedgerTypes
      <3>3. CASE ConfirmStopMove(u) /\ UNCHANGED fills
        <4>1. trade' \in Trades
          BY <3>3, TradeChanges DEF ConfirmStopMove, LedgerTypes
        <4>2. QED
          BY <1>21, <3>1, <3>3, <4>1 DEF RecordManagementBrokerUpdate, LedgerTypes
      <3>4. QED
        BY <1>21, <3>2, <3>3 DEF RecordManagementBrokerUpdate
    <2>3. QED
      BY <1>21, <2>1, <2>2, TypesStay DEF RecordManagementBrokerUpdate
  <1>22. ASSUME NEW h \in Handlers, RecordAddonSnapshot(h) PROVE TypeOK'
    <2>1. ApiTypes'
      BY <1>22, IdleIsAJob DEF RecordAddonSnapshot, ApiTypes, BrokerTypes, LedgerTypes, Trades, Jobs, Commands
    <2>2. QED
      BY <1>22, <2>1, TypesStay DEF RecordAddonSnapshot
  <1>23. ASSUME NEW h \in Handlers, Reconcile(h) PROVE TypeOK'
    <2>1. ApiTypes'
      <3>1. trade.revision \in Nat
        BY DEF LedgerTypes, Trades
      <3>2. PICK j \in Jobs : job' = [job EXCEPT ![h] = j]
        <4>1. CASE job' = [job EXCEPT ![h] = [Idle EXCEPT !.phase = "settle"]]
          BY <4>1, IdleIsAJob, JobChanges
        <4>2. ASSUME NEW p \in Nat, NEW m \in Nat \ {0}, NEW S \in SUBSET Intents
              PROVE  Settlement(p, m, trade.revision, S) \in Jobs
          <5>1. p \in Int /\ m \in Int
            OBVIOUS
          <5>2. QED
            BY <3>1, <5>1, IdleIsAJob, JobChanges DEF Settlement
        <4>3. QED
          BY <1>23, <4>1, <4>2, ReconcileShape
      <3>3. job' \in [Handlers -> Jobs]
        BY <3>2 DEF ApiTypes
      <3>4. QED
        BY <1>23, <3>3 DEF Reconcile, ApiTypes
    <2>2. QED
      BY <1>23, <2>1, TypesStay DEF Reconcile
  <1>24. ASSUME NEW h \in Handlers, SettleProtectiveExits(h) PROVE TypeOK'
    <2>1. ApiTypes'
      <3>1. job[h] \in Jobs
        BY DEF ApiTypes
      <3>2. trade.open - job[h].position \in Int
        BY <3>1 DEF LedgerTypes, Trades, Jobs
      <3>3. job' \in [Handlers -> Jobs]
        BY <1>24, <3>1, <3>2, JobChanges DEF SettleProtectiveExits, ApiTypes
      <3>4. QED
        BY <1>24, <3>3 DEF SettleProtectiveExits, ApiTypes
    <2>2. QED
      BY <1>24, <2>1, TypesStay DEF SettleProtectiveExits
  <1>25. ASSUME NEW h \in Handlers, PersistProtectiveFill(h) PROVE TypeOK'
    <2>1. ApiTypes'
      <3>1. job' \in [Handlers -> Jobs]
        BY <1>25, JobChanges DEF PersistProtectiveFill, ApiTypes
      <3>2. QED
        BY <1>25, <3>1 DEF PersistProtectiveFill, ApiTypes
    <2>2. LedgerTypes'
      <3>1. trade \in Trades /\ trade.open \in Nat /\ stopFills \in Nat
        BY DEF LedgerTypes, Trades
      <3>2. trade' \in Trades /\ stopFills' \in Nat
        <4>1. CASE UNCHANGED <<trade, stopFills>>
          BY <3>1, <4>1
        <4>2. ASSUME NEW n \in 1..trade.open, trade' = Reduced(trade, n), stopFills' = stopFills + n
              PROVE  trade' \in Trades /\ stopFills' \in Nat
          <5>1. trade' \in Trades
            BY <3>1, <4>2, TradeChanges
          <5>2. QED
            BY <3>1, <4>2, <5>1
        <4>3. QED
          BY <1>25, <4>1, <4>2, ProtectiveShape
      <3>3. QED
        BY <1>25, <3>2 DEF PersistProtectiveFill, LedgerTypes
    <2>3. QED
      BY <1>25, <2>1, <2>2, TypesStay DEF PersistProtectiveFill
  <1>26. ASSUME NEW h \in Handlers, EvaluateProtection(h) PROVE TypeOK'
    <2>1. ApiTypes'
      <3>1. Protected(trade, job[h].stop) \in BOOLEAN
        BY DEF Protected
      <3>2. [Idle EXCEPT !.phase = "protect", !.confirmed = Protected(trade, job[h].stop)] \in Jobs
        BY <3>1, IdleIsAJob, JobChanges
      <3>3. job' \in [Handlers -> Jobs]
        BY <1>26, <3>2, IdleIsAJob DEF EvaluateProtection, ApiTypes
      <3>4. QED
        BY <1>26, <3>3 DEF EvaluateProtection, ApiTypes
    <2>2. QED
      BY <1>26, <2>1, TypesStay DEF EvaluateProtection
  <1>27. ASSUME NEW h \in Handlers, ConfirmProtection(h) PROVE TypeOK'
    <2>1. ApiTypes'
      BY <1>27, IdleIsAJob DEF ConfirmProtection, IsOpen, ApiTypes, BrokerTypes, LedgerTypes, Trades, Jobs, Commands
    <2>2. LedgerTypes'
      <3>1. trade' \in Trades
        BY <1>27, TradeChanges DEF ConfirmProtection, LedgerTypes
      <3>2. locked' \in BOOLEAN
        BY <1>27 DEF ConfirmProtection, LedgerTypes
      <3>3. QED
        BY <1>27, <3>1, <3>2 DEF ConfirmProtection, LedgerTypes
    <2>3. QED
      BY <1>27, <2>1, <2>2, TypesStay DEF ConfirmProtection
  <1>28. ASSUME NEW h \in Handlers, NEW i \in Intents, SettleTrade(h, i) PROVE TypeOK'
    <2>1. ApiTypes'
      <3>1. job' \in [Handlers -> Jobs]
        <4>1. job[h] \in Jobs
          BY DEF ApiTypes
        <4>2. [job[h] EXCEPT !.phase = "intent", !.pending = @ \ {i}, !.half = {i}] \in Jobs
          BY <4>1, JobChanges
        <4>3. job' = [job EXCEPT ![h] = [job[h] EXCEPT !.phase = "intent", !.pending = @ \ {i},
                                                      !.half = {i}]]
          BY <1>28 DEF SettleTrade
        <4>4. QED
          BY <4>2, <4>3 DEF ApiTypes
      <3>2. QED
        BY <1>28, <3>1 DEF SettleTrade, ApiTypes
    <2>2. LedgerTypes'
      <3>1. job[h].position \in Quantities /\ job[h].missing \in Nat
        BY <1>28 DEF SettleTrade, SettlementsFit, Settling
      <3>2. trade' \in Trades
        BY <1>28, <3>1, TradeChanges DEF SettleTrade, LedgerTypes
      <3>3. QED
        BY <1>28, <3>2 DEF SettleTrade, LedgerTypes
    <2>3. QED
      BY <1>28, <2>1, <2>2, TypesStay DEF SettleTrade
  <1>29. ASSUME NEW h \in Handlers, SettleIntent(h) PROVE TypeOK'
    <2>1. ApiTypes'
      <3>1. job' \in [Handlers -> Jobs]
        BY <1>29, JobChanges DEF SettleIntent, ApiTypes
      <3>2. QED
        BY <1>29, <3>1 DEF SettleIntent, ApiTypes
    <2>2. DeskTypes'
      BY <1>29 DEF SettleIntent, DeskTypes, Intentions, IntentStatus, RowStatus
    <2>3. QED
      BY <1>29, <2>1, <2>2, TypesStay DEF SettleIntent
  <1>30. ASSUME NEW h \in Handlers, SettleRow(h) PROVE TypeOK'
    <2>1. ApiTypes'
      <3>1. job' \in [Handlers -> Jobs]
        BY <1>30, JobChanges DEF SettleRow, ApiTypes
      <3>2. QED
        BY <1>30, <3>1 DEF SettleRow, ApiTypes
    <2>2. DeskTypes'
      BY <1>30 DEF SettleRow, DeskTypes, Intentions, IntentStatus, RowStatus
    <2>3. QED
      BY <1>30, <2>1, <2>2, TypesStay DEF SettleRow
  <1>31. ASSUME NEW h \in Handlers, CompareSnapshots(h) PROVE TypeOK'
    <2>1. ApiTypes'
      BY <1>31, IdleIsAJob DEF CompareSnapshots, ApiTypes, BrokerTypes, LedgerTypes, Trades, Jobs, Commands
    <2>2. LedgerTypes'
      BY <1>31 DEF CompareSnapshots, LedgerTypes, Trades, ApiTypes, Jobs
    <2>3. QED
      BY <1>31, <2>1, <2>2, TypesStay DEF CompareSnapshots
  <1>32. CASE UNCHANGED vars
    BY <1>32, TypesStay
  <1> QED
    BY <1>1, <1>2, <1>3, <1>4, <1>5, <1>6, <1>7, <1>8, <1>9, <1>10, <1>11, <1>12, <1>13, <1>14, <1>15, <1>16, <1>17, <1>18, <1>19, <1>20, <1>21, <1>22, <1>23, <1>24, <1>25, <1>26, <1>27, <1>28, <1>29, <1>30, <1>31, <1>32
    DEF Next, Desk, AddOn, Broker, RecordAddonEvents, Working

-----------------------------------------------------------------------------
\* Which steps write to the trade, and which to the jobs.

TradeWriter ==
    \/ \E u \in updates : RecordManagementBrokerUpdate(u)
    \/ \E h \in Handlers : \/ PersistProtectiveFill(h) \/ ConfirmProtection(h)
                           \/ \E i \in Intents : SettleTrade(h, i)

\* The desk, the AddOn and the broker leave the ledger and the jobs alone.
LEMMA DeskRests == \A i \in Intents : Desk(i) => UNCHANGED <<ledgerVars, job>>
  BY DEF Desk, MaterializeManagement, ApproveManagementIntent, RejectManagementIntent,
         CancelManagementRow, Expire, CheckManagementWork

LEMMA AddOnRests == AddOn => UNCHANGED <<ledgerVars, job>>
  BY DEF AddOn, LeaseManagementOutbox, SubmitReduction, ClosePosition, MoveStop, CommandFails,
         CompleteManagementRow, CompleteManagementIntent, CompletionLost,
         ResizeActiveProtection, Restart

LEMMA BrokerRests == Broker => UNCHANGED <<ledgerVars, job>>
  BY DEF Broker, StopFills, ProtectionEnds, BrokerFills, OrderEnds

LEMMA Writers == [Next]_vars => UNCHANGED trade \/ TradeWriter
  <1> SUFFICES ASSUME [Next]_vars PROVE UNCHANGED trade \/ TradeWriter
    OBVIOUS
  <1>1. ASSUME NEW h \in Handlers, RecordAddonSnapshot(h) \/ Reconcile(h) \/ Working(h)
        PROVE  UNCHANGED trade \/ TradeWriter
    BY <1>1 DEF RecordAddonSnapshot, Reconcile, Working, SettleProtectiveExits,
                EvaluateProtection, SettleIntent, SettleRow, CompareSnapshots, TradeWriter
  <1>2. QED
    BY <1>1, DeskRests, AddOnRests, BrokerRests DEF Next, RecordAddonEvents, TradeWriter

-----------------------------------------------------------------------------
\* The ledger.

\* What any write does to the trade: a new revision, no contract lost, a
\* closed trade closed for good.
TradeMoves ==
    /\ trade'.revision = trade.revision + 1
    /\ trade'.open + trade'.closed = trade.open + trade.closed
    /\ trade'.status = "closed" <=> trade'.open = 0
    /\ trade.status = "closed" => trade'.status = "closed" /\ trade'.closed = trade.closed

LEMMA ReducedMoves ==
    ASSUME IInv, NEW n \in 1..trade.open, trade' = Reduced(trade, n)
    PROVE  TradeMoves
  <1>1. trade \in Trades /\ trade.open \in Nat /\ trade.closed \in Nat
    BY DEF IInv, TypeOK, LedgerTypes, Trades
  <1>2. /\ trade'.open = trade.open - n /\ trade'.closed = trade.closed + n
        /\ trade'.revision = trade.revision + 1
        /\ trade'.status = IF trade.open = n THEN "closed" ELSE "protected"
    BY <1>1 DEF Reduced, Trades
  <1>3. trade.status # "closed"
    BY <1>1 DEF IInv, ClosedIsEmpty
  <1>4. QED
    BY <1>1, <1>2, <1>3 DEF TradeMoves

\* Every write to the trade is one of those.
LEMMA TradeSteps == IInv /\ [Next]_vars => UNCHANGED trade \/ TradeMoves
  <1> SUFFICES ASSUME IInv, TradeWriter PROVE UNCHANGED trade \/ TradeMoves
    BY Writers
  <1>1. /\ TypeOK /\ trade \in Trades /\ trade.open \in Nat /\ trade.closed \in Nat
        /\ trade.revision \in Nat
    BY DEF IInv, TypeOK, LedgerTypes, Trades
  <1>2. ASSUME NEW u \in updates, RecordManagementBrokerUpdate(u)
        PROVE  UNCHANGED trade \/ TradeMoves
    <2>1. u \in Updates
      BY <1>1 DEF TypeOK, AddonTypes
    <2>2. CASE PersistManagementFill(u)
      BY <1>1, <2>1, <2>2, FillShape, ReducedMoves
    <2>3. CASE ConfirmStopMove(u)
      <3>1. trade' = trade \/ trade' = [trade EXCEPT !.stopMoved = TRUE, !.revision = @ + 1]
        BY <2>3 DEF ConfirmStopMove
      <3>2. QED
        BY <1>1, <3>1 DEF TradeMoves, Trades, IInv, ClosedIsEmpty
    <2>4. QED
      BY <1>2, <2>2, <2>3 DEF RecordManagementBrokerUpdate
  <1>3. ASSUME NEW h \in Handlers, PersistProtectiveFill(h)
        PROVE  UNCHANGED trade \/ TradeMoves
    BY <1>1, <1>3, ProtectiveShape, ReducedMoves
  <1>4. ASSUME NEW h \in Handlers, ConfirmProtection(h)
        PROVE  UNCHANGED trade \/ TradeMoves
    <2>1. \/ trade' = trade
          \/ /\ IsOpen(trade)
             /\ trade' = [trade EXCEPT !.status = "protected", !.revision = @ + 1]
      BY <1>4 DEF ConfirmProtection
    <2>2. CASE IsOpen(trade) /\ trade' = [trade EXCEPT !.status = "protected", !.revision = @ + 1]
      <3>1. /\ trade'.open = trade.open /\ trade'.closed = trade.closed
            /\ trade'.revision = trade.revision + 1 /\ trade'.status = "protected"
        BY <1>1, <2>2 DEF Trades
      <3>2. trade.open > 0 /\ trade.status # "closed"
        BY <2>2 DEF IsOpen
      <3>3. QED
        BY <1>1, <3>1, <3>2 DEF TradeMoves
    <2>3. QED
      BY <2>1, <2>2
  <1>5. ASSUME NEW h \in Handlers, NEW i \in Intents, SettleTrade(h, i)
        PROVE  UNCHANGED trade \/ TradeMoves
    <2>1. CASE trade.revision = job[h].revision
      <3>1. /\ job[h].position \in Nat /\ job[h].missing \in Nat /\ job[h].missing > 0
            /\ trade.open = job[h].position + job[h].missing
        BY <1>5, <2>1 DEF SettleTrade, IInv, SettlementsFit, Settling
      <3>2. trade' = [trade EXCEPT !.open = job[h].position, !.closed = @ + job[h].missing,
                        !.status = IF job[h].position = 0 THEN "closed" ELSE "protected",
                        !.revision = @ + 1]
        BY <1>5, <2>1 DEF SettleTrade
      <3>3. trade.status # "closed"
        BY <1>1, <3>1 DEF IInv, ClosedIsEmpty
      <3>4. QED
        BY <1>1, <3>1, <3>2, <3>3 DEF TradeMoves, Trades
    <2>2. CASE trade.revision # job[h].revision
      BY <1>5, <2>2 DEF SettleTrade
    <2>3. QED
      BY <2>1, <2>2
  <1>6. QED
    BY <1>2, <1>3, <1>4, <1>5 DEF TradeWriter

\* Every step leaves a request's settlement alone, ends it, carries it on, or
\* starts one from the trade as it is.
JobMoves(h) ==
    \/ job'[h] = job[h]
    \/ ~Settling(job'[h]) /\ job'[h].revision \in {0, job[h].revision}
    \/ /\ Settling(job[h]) /\ job'[h].position = job[h].position
       /\ job'[h].missing = job[h].missing /\ job'[h].revision = job[h].revision
    \/ /\ UNCHANGED trade
       /\ job'[h].revision = trade.revision
       /\ job'[h].position \in Nat /\ job'[h].missing \in Nat \ {0}
       /\ job'[h].position + job'[h].missing = trade.open

\* A step of one request leaves the others' jobs alone.
LEMMA OneJob ==
    ASSUME TypeOK, NEW h \in Handlers, NEW k \in Handlers, NEW j,
           job' = [job EXCEPT ![h] = j]
    PROVE  job'[k] = IF k = h THEN j ELSE job[k]
  BY DEF TypeOK, ApiTypes

LEMMA JobSteps ==
    ASSUME IInv, [Next]_vars, NEW k \in Handlers
    PROVE  JobMoves(k)
  <1> USE DEF JobMoves, Settling
  <1>1. TypeOK /\ job \in [Handlers -> Jobs] /\ job[k] \in Jobs
    BY DEF IInv, TypeOK, ApiTypes
  <1>2. Idle.pending = {} /\ Idle.revision = 0
    BY DEF Idle
  <1>3. ASSUME NEW h \in Handlers, RecordAddonSnapshot(h) PROVE JobMoves(k)
    <2>1. job' = [job EXCEPT ![h] = [Idle EXCEPT !.phase = "exits", !.position = position,
                                                 !.stop = stop]]
      BY <1>3 DEF RecordAddonSnapshot
    <2>2. QED
      BY <1>1, <2>1, OneJob DEF Idle
  <1>4. ASSUME NEW h \in Handlers, Reconcile(h) PROVE JobMoves(k)
    <2>1. CASE k # h
      BY <1>1, <1>4, <2>1, ReconcileShape
    <2>2. CASE k = h /\ job' = [job EXCEPT ![h] = [Idle EXCEPT !.phase = "settle"]]
      BY <1>1, <2>2, OneJob DEF Idle
    <2>3. ASSUME k = h, NEW p \in Nat, NEW m \in Nat \ {0}, NEW S \in SUBSET Intents,
                 p + m = trade.open, job' = [job EXCEPT ![h] = Settlement(p, m, trade.revision, S)]
          PROVE  JobMoves(k)
      <3>1. job'[k] = Settlement(p, m, trade.revision, S)
        BY <1>1, <2>3
      <3>2. /\ job'[k].revision = trade.revision /\ job'[k].position = p
            /\ job'[k].missing = m
        BY <3>1 DEF Settlement, Idle
      <3>3. UNCHANGED trade
        BY <1>4 DEF Reconcile
      <3>4. QED
        BY <2>3, <3>2, <3>3
    <2>4. QED
      BY <1>1, <1>4, <2>1, <2>2, <2>3, ReconcileShape
  <1>5. ASSUME NEW h \in Handlers, SettleProtectiveExits(h) PROVE JobMoves(k)
    <2>1. CASE \E n : job' = [job EXCEPT ![h] = [job[h] EXCEPT !.phase = "persist", !.missing = n]]
      <3>1. PICK n : job' = [job EXCEPT ![h] = [job[h] EXCEPT !.phase = "persist", !.missing = n]]
        BY <2>1
      <3>2. QED
        BY <1>1, <3>1 DEF Jobs
    <2>2. CASE job' = [job EXCEPT ![h] = [job[h] EXCEPT !.phase = "confirm"]]
      BY <1>1, <2>2 DEF Jobs
    <2>3. QED
      BY <1>5, <2>1, <2>2 DEF SettleProtectiveExits
  <1>6. ASSUME NEW h \in Handlers, PersistProtectiveFill(h) PROVE JobMoves(k)
    <2>1. job' = [job EXCEPT ![h] = [job[h] EXCEPT !.phase = "confirm", !.missing = 0]]
      BY <1>6 DEF PersistProtectiveFill
    <2>2. QED
      BY <1>1, <2>1 DEF Jobs
  <1>7. ASSUME NEW h \in Handlers, EvaluateProtection(h) PROVE JobMoves(k)
    <2>1. PICK j : job' = [job EXCEPT ![h] = j] /\ j.pending = {} /\ j.revision = 0
      <3>1. CASE IsOpen(trade)
        <4> DEFINE j == [Idle EXCEPT !.phase = "protect",
                                     !.confirmed = Protected(trade, job[h].stop)]
        <4>1. job' = [job EXCEPT ![h] = j]
          BY <1>7, <3>1 DEF EvaluateProtection
        <4>2. j.pending = {} /\ j.revision = 0
          BY DEF Idle
        <4>3. QED
          BY <4>1, <4>2
      <3>2. CASE ~IsOpen(trade)
        BY <1>2, <1>7, <3>2 DEF EvaluateProtection
      <3>3. QED
        BY <3>1, <3>2
    <2>2. QED
      BY <1>1, <2>1
  <1>8. ASSUME NEW h \in Handlers, ConfirmProtection(h) \/ CompareSnapshots(h) PROVE JobMoves(k)
    <2>1. job' = [job EXCEPT ![h] = Idle]
      BY <1>8 DEF ConfirmProtection, CompareSnapshots
    <2>2. QED
      BY <1>1, <1>2, <2>1
  <1>9. ASSUME NEW h \in Handlers, NEW i \in Intents, SettleTrade(h, i) PROVE JobMoves(k)
    <2>1. job' = [job EXCEPT ![h] = [job[h] EXCEPT !.phase = "intent", !.pending = @ \ {i},
                                                   !.half = {i}]]
      BY <1>9 DEF SettleTrade
    <2>2. Settling(job[h])
      BY <1>9 DEF SettleTrade
    <2>3. QED
      BY <1>1, <2>1, <2>2 DEF Jobs
  <1>10. ASSUME NEW h \in Handlers, SettleIntent(h) PROVE JobMoves(k)
    <2>1. job' = [job EXCEPT ![h] = [job[h] EXCEPT !.phase = "row"]]
      BY <1>10 DEF SettleIntent
    <2>2. job[h].phase = "intent"
      BY <1>10 DEF SettleIntent
    <2>3. QED
      BY <1>1, <2>1, <2>2 DEF Jobs
  <1>11. ASSUME NEW h \in Handlers, SettleRow(h) PROVE JobMoves(k)
    <2>1. job' = [job EXCEPT ![h] = [job[h] EXCEPT !.phase = "settle", !.half = {}]]
      BY <1>11 DEF SettleRow
    <2>2. job[h].phase = "row"
      BY <1>11 DEF SettleRow
    <2>3. QED
      BY <1>1, <2>1, <2>2 DEF Jobs
  <1>12. ASSUME NEW u \in updates, RecordManagementBrokerUpdate(u) PROVE JobMoves(k)
    BY <1>12 DEF RecordManagementBrokerUpdate
  <1>13. QED
    BY <1>3, <1>4, <1>5, <1>6, <1>7, <1>8, <1>9, <1>10, <1>11, <1>12,
       DeskRests, AddOnRests, BrokerRests
    DEF Next, Working, RecordAddonEvents

\* The broker has at most the trade's contracts: orders only sell.
LEMMA PositionStep == IInv /\ [Next]_vars => PositionBounded'
  <1> SUFFICES ASSUME TypeOK, PositionBounded, [Next]_vars PROVE PositionBounded'
    BY DEF IInv
  <1> USE DEF PositionBounded, TypeOK, BrokerTypes
  <1>1. ASSUME NEW i \in Intents, Desk(i) PROVE UNCHANGED position
    BY <1>1 DEF Desk, MaterializeManagement, ApproveManagementIntent, RejectManagementIntent,
         CancelManagementRow, Expire, CheckManagementWork
  <1>2. CASE AddOn
    <2>1. UNCHANGED position \/ position' = 0
      BY <1>2 DEF AddOn, LeaseManagementOutbox, SubmitReduction, ClosePosition, MoveStop,
         CommandFails, CompleteManagementRow, CompleteManagementIntent, CompletionLost,
         ResizeActiveProtection, Restart
    <2>2. QED
      BY <2>1
  <1>3. CASE Broker
    <2>1. \/ UNCHANGED position
          \/ \E n \in Nat : position' = position - n
      BY <1>3 DEF Broker, StopFills, ProtectionEnds, BrokerFills, OrderEnds, Stops
    <2>2. QED
      BY <2>1
  <1>4. ASSUME NEW h \in Handlers, RecordAddonSnapshot(h) \/ Reconcile(h) \/ Working(h)
        PROVE  UNCHANGED position
    BY <1>4 DEF RecordAddonSnapshot, Reconcile, Working, SettleProtectiveExits,
         PersistProtectiveFill, EvaluateProtection, ConfirmProtection, SettleTrade, SettleIntent,
         SettleRow, CompareSnapshots
  <1>5. CASE RecordAddonEvents
    BY <1>5 DEF RecordAddonEvents, RecordManagementBrokerUpdate
  <1>6. QED
    BY <1>1, <1>2, <1>3, <1>4, <1>5 DEF Next

\* The inductive invariant of the ledger holds at first, and in every step.
LEMMA LedgerInit == Init => IInv
  <1> SUFFICES ASSUME Init PROVE IInv
    OBVIOUS
  <1>1. PositionBounded /\ ClosedIsEmpty /\ Conserved
    BY DEF Init, PositionBounded, ClosedIsEmpty, Conserved, Opened
  <1>2. SettlementsFit
    BY DEF Init, SettlementsFit, Settling, Idle, Opened
  <1>3. QED
    BY <1>1, <1>2, TypeInit DEF IInv

LEMMA LedgerStep == IInv /\ [Next]_vars => IInv'
  <1> SUFFICES ASSUME IInv, [Next]_vars PROVE IInv'
    OBVIOUS
  <1>1. TypeOK /\ TypeOK' /\ PositionBounded'
    BY TypeStep, PositionStep DEF IInv
  <1>2. /\ trade.open \in Nat /\ trade.closed \in Nat /\ trade.revision \in Nat
        /\ trade'.revision \in Nat
    BY <1>1 DEF TypeOK, LedgerTypes, Trades
  <1>3. ClosedIsEmpty' /\ Conserved'
    BY TradeSteps DEF IInv, ClosedIsEmpty, Conserved, TradeMoves
  <1>4. SettlementsFit'
    <2> SUFFICES ASSUME NEW k \in Handlers
                 PROVE  /\ job'[k].revision <= trade'.revision
                        /\ Settling(job'[k]) =>
                             /\ job'[k].position \in Nat /\ job'[k].missing \in Nat
                             /\ job'[k].missing > 0
                             /\ job'[k].position + job'[k].missing <= Quantity
                             /\ job'[k].revision = trade'.revision =>
                                  trade'.open = job'[k].position + job'[k].missing
      BY DEF SettlementsFit, Settling
    <2>1. job[k].revision \in Nat /\ job'[k].revision \in Nat
      BY <1>1 DEF TypeOK, ApiTypes, Jobs
    <2>2. trade' = trade \/ trade'.revision = trade.revision + 1
      BY TradeSteps DEF TradeMoves
    <2>3. trade.open <= Quantity
      BY <1>1 DEF TypeOK, LedgerTypes, Trades
    <2>4. JobMoves(k)
      BY JobSteps
    <2>5. /\ job[k].revision <= trade.revision
          /\ Settling(job[k]) =>
               /\ job[k].position \in Nat /\ job[k].missing \in Nat
               /\ job[k].missing > 0
               /\ job[k].position + job[k].missing <= Quantity
               /\ job[k].revision = trade.revision =>
                    trade.open = job[k].position + job[k].missing
      BY DEF IInv, SettlementsFit
    <2>6. QED
      BY <1>2, <2>1, <2>2, <2>3, <2>4, <2>5 DEF JobMoves
  <1>5. QED
    BY <1>1, <1>3, <1>4 DEF IInv

LEMMA LedgerInvariant == Spec => []IInv
  BY LedgerInit, LedgerStep, PTL DEF Spec

\* TypeOK: whatever the events, snapshots and commands do, in particular the
\* trade never has fewer than no contracts or more than it was opened with.
THEOREM TypeCorrect == Spec => []TypeOK
  BY LedgerInvariant, PTL DEF IInv

\* Conserved: the ledger's open and closed contracts are the trade's.
THEOREM ConservedHolds == Spec => []Conserved
  BY LedgerInvariant, PTL DEF IInv

\* ClosedStaysClosed: nothing that was read while the trade was open changes
\* it once it is closed.
THEOREM ClosedStaysClosedHolds == Spec => ClosedStaysClosed
  <1>1. IInv /\ [Next]_vars =>
          [trade.status = "closed" => trade'.status = "closed" /\ trade'.closed = trade.closed]_vars
    BY TradeSteps DEF TradeMoves
  <1>2. QED
    BY <1>1, LedgerInvariant, PTL DEF Spec, ClosedStaysClosed

-----------------------------------------------------------------------------
\* trade_fills.

\* Nobody takes back what the broker executed, or what the stop did; an update
\* the AddOn raises says what its order has executed by then.
LEMMA BrokerIsFinal ==
    ASSUME TypeOK, [Next]_vars
    PROVE  /\ \A i \in Intents : executed[i] <= executed'[i]
           /\ stop.state = "filled" => stop' = stop
           /\ \A u \in updates' : u \in updates \/ u.filled <= executed'[u.intent]
  <1> DEFINE Final == /\ \A i \in Intents : executed[i] <= executed'[i]
                      /\ stop.state = "filled" => stop' = stop
                      /\ \A u \in updates' : u \in updates \/ u.filled <= executed'[u.intent]
  <1>0. \A i \in Intents : executed[i] \in Nat
    BY DEF TypeOK, BrokerTypes
  <1>1. ASSUME NEW i \in Intents, Desk(i) PROVE Final
    BY <1>0, <1>1 DEF Desk, MaterializeManagement, ApproveManagementIntent,
         RejectManagementIntent, CancelManagementRow, Expire, CheckManagementWork
  <1>2. CASE AddOn
    <2>1. UNCHANGED executed
      BY <1>2 DEF AddOn, LeaseManagementOutbox, SubmitReduction, ClosePosition, MoveStop,
         CommandFails, CompleteManagementRow, CompleteManagementIntent, CompletionLost,
         ResizeActiveProtection, Restart
    <2>2. stop.state = "filled" => stop' = stop
      BY <1>2 DEF AddOn, LeaseManagementOutbox, SubmitReduction, ClosePosition, MoveStop,
         CommandFails, CompleteManagementRow, CompleteManagementIntent, CompletionLost,
         ResizeActiveProtection, Restart
    <2>3. held \subseteq Commands
      BY DEF TypeOK, AddonTypes
    <2>4. \A u \in updates' : u \in updates \/ (u.filled = 0 /\ u.intent \in Intents)
      <3>1. CASE SubmitReduction
        BY <2>3, <3>1 DEF SubmitReduction, PlaceOrder, Raise, Commands
      <3>2. CASE ClosePosition
        BY <2>3, <3>2 DEF ClosePosition, PlaceOrder, Raise, Commands
      <3>3. CASE MoveStop
        BY <2>3, <3>3 DEF MoveStop, Raise, Commands
      <3>4. CASE Restart
        BY <3>4 DEF Restart
      <3>5. CASE UNCHANGED updates
        BY <3>5
      <3>6. QED
        BY <1>2, <3>1, <3>2, <3>3, <3>4, <3>5 DEF AddOn, LeaseManagementOutbox, CommandFails,
          CompleteManagementRow, CompleteManagementIntent, CompletionLost, ResizeActiveProtection
    <2>5. QED
      BY <1>0, <2>1, <2>2, <2>4
  <1>3. CASE Broker
    <2>1. CASE StopFills \/ ProtectionEnds
      BY <1>0, <2>1 DEF StopFills, ProtectionEnds
    <2>2. ASSUME NEW i \in Intents, BrokerFills(i) PROVE Final
      <3>1. PICK n \in 1..(size[i] - executed[i]) :
              /\ executed' = [executed EXCEPT ![i] = @ + n]
              /\ \E s : Raise(i, s, executed'[i])
        BY <2>2 DEF BrokerFills
      <3>2. size[i] \in Int /\ executed[i] \in Int /\ executed \in [Intents -> Quantities]
        BY DEF TypeOK, BrokerTypes
      <3>3. \A u \in updates' : u \in updates \/ (u.intent = i /\ u.filled = executed'[i])
        BY <3>1 DEF Raise
      <3>4. \A k \in Intents : executed[k] <= executed'[k]
        BY <1>0, <3>1, <3>2
      <3>5. stop' = stop /\ executed'[i] \in Int
        BY <2>2, <3>1, <3>2 DEF BrokerFills
      <3>6. QED
        BY <3>3, <3>4, <3>5
    <2>3. ASSUME NEW i \in Intents, OrderEnds(i) PROVE Final
      BY <1>0, <2>3 DEF OrderEnds, Raise
    <2>4. QED
      BY <1>3, <2>1, <2>2, <2>3 DEF Broker
  <1>4. ASSUME NEW h \in Handlers, RecordAddonSnapshot(h) \/ Reconcile(h) \/ Working(h)
        PROVE  Final
    <2>1. UNCHANGED <<brokerVars, addonVars>>
      BY <1>4 DEF RecordAddonSnapshot, Reconcile, Working, SettleProtectiveExits,
         PersistProtectiveFill, EvaluateProtection, ConfirmProtection, SettleTrade, SettleIntent,
         SettleRow, CompareSnapshots
    <2>2. QED
      BY <1>0, <2>1
  <1>5. CASE RecordAddonEvents
    BY <1>0, <1>5 DEF RecordAddonEvents, RecordManagementBrokerUpdate
  <1>6. CASE UNCHANGED vars
    BY <1>0, <1>6
  <1>7. QED
    BY <1>1, <1>2, <1>3, <1>4, <1>5, <1>6 DEF Next

\* A job keeps its snapshot's stop, takes the stop as it is, or forgets it; it
\* writes an exit only of a stop that it saw filled.
LEMMA JobStop ==
    ASSUME TypeOK, [Next]_vars, NEW k \in Handlers
    PROVE  /\ job'[k].stop = job[k].stop \/ (job'[k].stop = stop /\ stop' = stop)
              \/ job'[k].stop = Protection
           /\ job'[k].phase = "persist" =>
                job'[k].stop = job[k].stop /\ (job[k].phase = "persist" \/ job[k].stop.state = "filled")
  <1> DEFINE Kept == /\ job'[k].stop = job[k].stop \/ (job'[k].stop = stop /\ stop' = stop)
                        \/ job'[k].stop = Protection
                     /\ job'[k].phase = "persist" =>
                          /\ job'[k].stop = job[k].stop
                          /\ job[k].phase = "persist" \/ job[k].stop.state = "filled"
  <1>1. job \in [Handlers -> Jobs] /\ job[k] \in Jobs
    BY DEF TypeOK, ApiTypes
  <1>2. Idle.stop = Protection /\ Idle.phase = "idle"
    BY DEF Idle
  <1>3. ASSUME NEW h \in Handlers, RecordAddonSnapshot(h) PROVE Kept
    <2>1. job' = [job EXCEPT ![h] = [Idle EXCEPT !.phase = "exits", !.position = position,
                                                 !.stop = stop]]
      BY <1>3 DEF RecordAddonSnapshot
    <2>2. stop' = stop
      BY <1>3 DEF RecordAddonSnapshot
    <2>3. QED
      BY <1>1, <2>1, <2>2 DEF Idle
  <1>4. ASSUME NEW h \in Handlers, Reconcile(h) PROVE Kept
    <2>1. PICK j : job' = [job EXCEPT ![h] = j] /\ j.stop = Protection /\ j.phase = "settle"
      <3>1. CASE job' = [job EXCEPT ![h] = [Idle EXCEPT !.phase = "settle"]]
        <4> DEFINE j == [Idle EXCEPT !.phase = "settle"]
        <4>1. j.stop = Protection /\ j.phase = "settle"
          BY DEF Idle
        <4>2. QED
          BY <3>1, <4>1
      <3>2. ASSUME NEW p, NEW m, NEW S,
                   job' = [job EXCEPT ![h] = Settlement(p, m, trade.revision, S)]
            PROVE  \E j : job' = [job EXCEPT ![h] = j] /\ j.stop = Protection /\ j.phase = "settle"
        <4> DEFINE j == Settlement(p, m, trade.revision, S)
        <4>1. j.stop = Protection /\ j.phase = "settle"
          BY DEF Settlement, Idle
        <4>2. QED
          BY <3>2, <4>1
      <3>3. QED
        BY <1>4, <3>1, <3>2, ReconcileShape
    <2>2. QED
      BY <1>1, <2>1
  <1>5. ASSUME NEW h \in Handlers, SettleProtectiveExits(h) PROVE Kept
    <2>1. CASE \E n : job' = [job EXCEPT ![h] = [job[h] EXCEPT !.phase = "persist", !.missing = n]]
      <3>1. PICK n : job' = [job EXCEPT ![h] = [job[h] EXCEPT !.phase = "persist", !.missing = n]]
        BY <2>1
      <3>2. h = k => job[h].stop.state = "filled"
        <4>1. CASE job[h].stop.state = "filled"
          BY <4>1
        <4>2. CASE job[h].stop.state # "filled"
          <5>1. job' = [job EXCEPT ![h] = [job[h] EXCEPT !.phase = "confirm"]]
            BY <1>5, <4>2 DEF SettleProtectiveExits
          <5>2. job'[h].phase = "persist"
            BY <1>1, <3>1 DEF Jobs
          <5>3. job'[h].phase = "confirm"
            BY <1>1, <5>1 DEF Jobs
          <5>4. QED
            BY <5>2, <5>3
        <4>3. QED
          BY <4>1, <4>2
      <3>3. QED
        BY <1>1, <3>1, <3>2 DEF Jobs
    <2>2. CASE job' = [job EXCEPT ![h] = [job[h] EXCEPT !.phase = "confirm"]]
      BY <1>1, <2>2 DEF Jobs
    <2>3. QED
      BY <1>5, <2>1, <2>2 DEF SettleProtectiveExits
  <1>6. ASSUME NEW h \in Handlers, PersistProtectiveFill(h) PROVE Kept
    <2>1. job' = [job EXCEPT ![h] = [job[h] EXCEPT !.phase = "confirm", !.missing = 0]]
      BY <1>6 DEF PersistProtectiveFill
    <2>2. QED
      BY <1>1, <2>1 DEF Jobs
  <1>7. ASSUME NEW h \in Handlers, EvaluateProtection(h) PROVE Kept
    <2>1. PICK j : job' = [job EXCEPT ![h] = j] /\ j.stop = Protection /\ j.phase # "persist"
      <3>1. CASE IsOpen(trade)
        <4> DEFINE j == [Idle EXCEPT !.phase = "protect",
                                     !.confirmed = Protected(trade, job[h].stop)]
        <4>1. job' = [job EXCEPT ![h] = j]
          BY <1>7, <3>1 DEF EvaluateProtection
        <4>2. j.stop = Protection /\ j.phase # "persist"
          BY DEF Idle
        <4>3. QED
          BY <4>1, <4>2
      <3>2. CASE ~IsOpen(trade)
        BY <1>2, <1>7, <3>2 DEF EvaluateProtection
      <3>3. QED
        BY <3>1, <3>2
    <2>2. QED
      BY <1>1, <2>1
  <1>8. ASSUME NEW h \in Handlers, ConfirmProtection(h) \/ CompareSnapshots(h) PROVE Kept
    <2>1. job' = [job EXCEPT ![h] = Idle]
      BY <1>8 DEF ConfirmProtection, CompareSnapshots
    <2>2. QED
      BY <1>1, <1>2, <2>1
  <1>9. ASSUME NEW h \in Handlers, NEW i \in Intents, SettleTrade(h, i) PROVE Kept
    <2>1. job' = [job EXCEPT ![h] = [job[h] EXCEPT !.phase = "intent", !.pending = @ \ {i},
                                                   !.half = {i}]]
      BY <1>9 DEF SettleTrade
    <2>2. QED
      BY <1>1, <2>1 DEF Jobs
  <1>10. ASSUME NEW h \in Handlers, SettleIntent(h) PROVE Kept
    BY <1>1, <1>10 DEF SettleIntent, Jobs
  <1>11. ASSUME NEW h \in Handlers, SettleRow(h) PROVE Kept
    <2>1. job' = [job EXCEPT ![h] = [job[h] EXCEPT !.phase = "settle", !.half = {}]]
      BY <1>11 DEF SettleRow
    <2>2. QED
      BY <1>1, <2>1 DEF Jobs
  <1>12. ASSUME NEW u \in updates, RecordManagementBrokerUpdate(u) PROVE Kept
    BY <1>12 DEF RecordManagementBrokerUpdate
  <1>13. CASE UNCHANGED vars
    BY <1>13
  <1>14. QED
    BY <1>3, <1>4, <1>5, <1>6, <1>7, <1>8, <1>9, <1>10, <1>11, <1>12, <1>13,
       DeskRests, AddOnRests, BrokerRests
    DEF Next, Working, RecordAddonEvents

LEMMA FillsInit == Init => FillsInv
  <1> SUFFICES ASSUME Init PROVE FillsInv
    OBVIOUS
  <1>1. UpdatesAreExecuted
    BY DEF Init, UpdatesAreExecuted
  <1>2. SnapshotsKnowTheStop
    BY DEF Init, SnapshotsKnowTheStop, Idle, Protection
  <1>3. FillsExact
    BY DEF Init, FillsExact, Protection
  <1>4. QED
    BY <1>1, <1>2, <1>3 DEF FillsInv

\* What is recorded was posted.
LEMMA RecordedWasPosted ==
    ASSUME [Next]_vars
    PROVE  recorded' \subseteq recorded \cup updates
  <1>1. ASSUME NEW h \in Handlers, RecordAddonSnapshot(h) \/ Reconcile(h) \/ Working(h)
        PROVE  UNCHANGED recorded
    BY <1>1 DEF RecordAddonSnapshot, Reconcile, Working, SettleProtectiveExits,
         PersistProtectiveFill, EvaluateProtection, ConfirmProtection, SettleTrade, SettleIntent,
         SettleRow, CompareSnapshots
  <1>2. CASE RecordAddonEvents
    BY <1>2 DEF RecordAddonEvents, RecordManagementBrokerUpdate
  <1>3. QED
    BY <1>1, <1>2, DeskRests, AddOnRests, BrokerRests DEF Next

\* Which steps write to trade_fills.
LEMMA FillWriters ==
    ASSUME [Next]_vars
    PROVE  /\ UNCHANGED fills \/ \E u \in updates : PersistManagementFill(u)
           /\ UNCHANGED stopFills \/ \E h \in Handlers : PersistProtectiveFill(h)
  <1> DEFINE Goal == /\ UNCHANGED fills \/ \E u \in updates : PersistManagementFill(u)
                     /\ UNCHANGED stopFills \/ \E h \in Handlers : PersistProtectiveFill(h)
  <1>1. ASSUME NEW h \in Handlers, RecordAddonSnapshot(h) \/ Reconcile(h) \/ Working(h)
        PROVE  Goal
    <2>1. UNCHANGED fills
      BY <1>1 DEF RecordAddonSnapshot, Reconcile, Working, SettleProtectiveExits,
         PersistProtectiveFill, EvaluateProtection, ConfirmProtection, SettleTrade, SettleIntent,
         SettleRow, CompareSnapshots
    <2>2. UNCHANGED stopFills \/ PersistProtectiveFill(h)
      BY <1>1 DEF RecordAddonSnapshot, Reconcile, Working, SettleProtectiveExits,
         EvaluateProtection, ConfirmProtection, SettleTrade, SettleIntent,
         SettleRow, CompareSnapshots
    <2>3. QED
      BY <2>1, <2>2
  <1>2. CASE RecordAddonEvents
    BY <1>2 DEF RecordAddonEvents, RecordManagementBrokerUpdate
  <1>3. QED
    BY <1>1, <1>2, DeskRests, AddOnRests, BrokerRests DEF Next

\* Every step keeps trade_fills within what the broker executed.
LEMMA FillsStep == IInv /\ FillsInv /\ [Next]_vars => FillsInv'
  <1> SUFFICES ASSUME IInv, FillsInv, [Next]_vars PROVE FillsInv'
    OBVIOUS
  <1>1. TypeOK /\ TypeOK'
    BY TypeStep DEF IInv
  <1>2. /\ \A u \in Updates : u.filled \in Int /\ u.intent \in Intents
        /\ updates \subseteq Updates /\ recorded \subseteq Updates
        /\ updates' \subseteq Updates /\ recorded' \subseteq Updates
    BY <1>1 DEF TypeOK, AddonTypes, LedgerTypes, Updates
  <1>3. \A i \in Intents : /\ executed[i] \in Int /\ executed'[i] \in Int
                           /\ executed[i] <= executed'[i]
                           /\ fills[i] \in Int /\ fills'[i] \in Int
    BY <1>1, BrokerIsFinal DEF TypeOK, BrokerTypes, LedgerTypes
  <1>4. UpdatesAreExecuted'
    <2>1. \A u \in updates \cup recorded : u.filled <= executed'[u.intent]
      BY <1>2, <1>3 DEF FillsInv, UpdatesAreExecuted
    <2>2. \A u \in updates' : u \in updates \/ u.filled <= executed'[u.intent]
      BY <1>1, BrokerIsFinal
    <2>3. QED
      BY <2>1, <2>2, RecordedWasPosted DEF UpdatesAreExecuted
  <1>5. SnapshotsKnowTheStop'
    <2> SUFFICES ASSUME NEW k \in Handlers
                 PROVE  /\ job'[k].phase = "persist" => job'[k].stop.state = "filled"
                        /\ job'[k].stop.state = "filled" =>
                             stop'.state = "filled" /\ stop'.quantity = job'[k].stop.quantity
      BY DEF SnapshotsKnowTheStop
    <2>1. /\ job[k].phase = "persist" => job[k].stop.state = "filled"
          /\ job[k].stop.state = "filled" =>
               stop.state = "filled" /\ stop.quantity = job[k].stop.quantity
      BY DEF FillsInv, SnapshotsKnowTheStop
    <2>2. stop.state = "filled" => stop' = stop
      BY <1>1, BrokerIsFinal
    <2>3. Protection.state # "filled"
      BY DEF Protection
    <2>4. QED
      BY <1>1, <2>1, <2>2, <2>3, JobStop
  <1>6. FillsExact'
    <2>1. ASSUME NEW i \in Intents PROVE fills'[i] <= executed'[i]
      <3>1. fills[i] <= executed[i]
        BY DEF FillsInv, FillsExact
      <3>2. CASE UNCHANGED fills
        BY <1>3, <3>1, <3>2
      <3>3. ASSUME NEW u \in updates, NEW n \in 1..trade.open, n <= u.filled - fills[u.intent],
                   fills' = [fills EXCEPT ![u.intent] = @ + n]
            PROVE  fills'[i] <= executed'[i]
        <4>1. u.intent \in Intents /\ u.filled \in Int /\ u.filled <= executed[u.intent]
          BY <1>2 DEF FillsInv, UpdatesAreExecuted
        <4>2. fills \in [Intents -> Nat]
          BY <1>1 DEF TypeOK, LedgerTypes
        <4>3. fills'[i] = IF i = u.intent THEN fills[i] + n ELSE fills[i]
          BY <3>3, <4>1, <4>2
        <4>4. QED
          BY <1>3, <3>1, <3>3, <4>1, <4>3
      <3>4. QED
        BY <1>1, <1>2, <3>2, <3>3, FillWriters, FillShape
    <2>2. stopFills' <= IF stop'.state = "filled" THEN stop'.quantity ELSE 0
      <3>1. stopFills <= IF stop.state = "filled" THEN stop.quantity ELSE 0
        BY DEF FillsInv, FillsExact
      <3>2. stopFills \in Nat /\ stop.quantity \in Nat /\ stop'.quantity \in Nat
        BY <1>1 DEF TypeOK, LedgerTypes, BrokerTypes, Stops
      <3>3. stop.state = "filled" => stop' = stop
        BY <1>1, BrokerIsFinal
      <3>4. CASE UNCHANGED stopFills
        BY <3>1, <3>2, <3>3, <3>4
      <3>5. ASSUME NEW h \in Handlers, PersistProtectiveFill(h),
                   NEW n \in 1..trade.open, n <= job[h].stop.quantity - stopFills,
                   stopFills' = stopFills + n
            PROVE  stopFills' <= IF stop'.state = "filled" THEN stop'.quantity ELSE 0
        <4>1. job[h].phase = "persist"
          BY <3>5 DEF PersistProtectiveFill
        <4>2. stop.state = "filled" /\ stop.quantity = job[h].stop.quantity
          BY <4>1 DEF FillsInv, SnapshotsKnowTheStop
        <4>3. QED
          BY <3>2, <3>3, <3>5, <4>2
      <3>6. QED
        BY <1>1, <3>4, <3>5, FillWriters, ProtectiveShape
    <2>3. QED
      BY <2>1, <2>2 DEF FillsExact
  <1>7. QED
    BY <1>4, <1>5, <1>6 DEF FillsInv

\* FillsExact: trade_fills never has more of an order than it executed, in
\* whatever order, and however often, updates and snapshots are gone over.
THEOREM FillsExactHolds == Spec => []FillsExact
  <1>1. Spec => []FillsInv
    BY LedgerInvariant, FillsInit, FillsStep, PTL DEF Spec
  <1>2. FillsInv => FillsExact
    BY DEF FillsInv
  <1>3. QED
    BY <1>1, <1>2, PTL

-----------------------------------------------------------------------------
\* What was done.

\* An intent, once there, stays, with its action; it becomes delivered or
\* acknowledged by a completion, an order update or a settlement only.
IntentMoves(i) ==
    /\ intents[i].status # "none" =>
         intents'[i].status # "none" /\ intents'[i].action = intents[i].action
    /\ intents'[i].status \in {"delivered", "acknowledged"} =>
         \/ intents[i].status \in {"delivered", "acknowledged"}
         \/ \E c \in completing : c.intent = i /\ c.status = "delivered"
         \/ \E u \in updates : u.intent = i
         \/ \E h \in Handlers : i \in job[h].half

\* So it is when the status of one intent is set.
LEMMA StatusSet ==
    ASSUME TypeOK, NEW i \in Intents, NEW k \in Intents, NEW s,
           intents' = [intents EXCEPT ![k].status = s]
    PROVE  /\ intents'[i].action = intents[i].action
           /\ intents'[i].status = IF i = k THEN s ELSE intents[i].status
  BY DEF TypeOK, DeskTypes, Intentions

LEMMA IntentSteps ==
    ASSUME TypeOK, [Next]_vars, NEW i \in Intents
    PROVE  IntentMoves(i)
  <1>1. ASSUME NEW k \in Intents, Desk(k) PROVE IntentMoves(i)
    <2>1. CASE MaterializeManagement(k)
      <3>1. PICK m : intents' = [intents EXCEPT ![k] = m] /\ m.status = "pending_approval"
        <4>1. PICK a \in Actions, n \in Quantities :
                intents' = [intents EXCEPT ![k] = [action |-> a, quantity |-> n,
                               revision |-> trade.revision, status |-> "pending_approval"]]
          BY <2>1 DEF MaterializeManagement
        <4> DEFINE m == [action |-> a, quantity |-> n, revision |-> trade.revision,
                         status |-> "pending_approval"]
        <4>2. intents' = [intents EXCEPT ![k] = m] /\ m.status = "pending_approval"
          BY <4>1
        <4> HIDE DEF m
        <4>3. QED
          BY <4>2
      <3>2. intents[k].status = "none"
        BY <2>1 DEF MaterializeManagement
      <3>3. QED
        BY <3>1, <3>2 DEF TypeOK, DeskTypes, IntentMoves
    <2>2. CASE ApproveManagementIntent(k)
      <3>1. intents' = [intents EXCEPT ![k].status = "queued"]
        BY <2>2 DEF ApproveManagementIntent
      <3>2. QED
        BY <3>1, StatusSet DEF IntentMoves
    <2>3. CASE RejectManagementIntent(k)
      <3>1. PICK s : /\ intents' = [intents EXCEPT ![k].status = s]
                     /\ s = "rejected" \/ s = intents[k].status
        BY <2>3 DEF RejectManagementIntent
      <3>2. QED
        BY <3>1, StatusSet DEF IntentMoves
    <2>4. QED
      BY <1>1, <2>1, <2>2, <2>3
      DEF Desk, CancelManagementRow, Expire, CheckManagementWork, IntentMoves
  <1>2. CASE AddOn
    <2>1. CASE LeaseManagementOutbox
      <3>1. \/ UNCHANGED intents
            \/ \E c \in claim : \E s :
                 /\ intents' = [intents EXCEPT ![c.intent].status = s]
                 /\ s = "leased" \/ s = intents[c.intent].status
        BY <2>1 DEF LeaseManagementOutbox
      <3>2. \A c \in claim : c.intent \in Intents
        BY DEF TypeOK, ApiTypes, Commands
      <3>3. ASSUME NEW c \in claim, NEW s, intents' = [intents EXCEPT ![c.intent].status = s],
                   s = "leased" \/ s = intents[c.intent].status
            PROVE  IntentMoves(i)
        BY <3>2, <3>3, StatusSet DEF IntentMoves
      <3>4. QED
        BY <3>1, <3>3 DEF IntentMoves
    <2>2. CASE CompleteManagementIntent
      <3>1. PICK c \in completing : intents' = [intents EXCEPT ![c.intent].status = c.status]
        BY <2>2 DEF CompleteManagementIntent
      <3>2. c.intent \in Intents /\ c.status \in {"delivered", "failed"}
        BY DEF TypeOK, ApiTypes
      <3>3. QED
        BY <3>1, <3>2, StatusSet DEF IntentMoves
    <2>3. QED
      BY <1>2, <2>1, <2>2
      DEF AddOn, SubmitReduction, ClosePosition, MoveStop, CommandFails, CompleteManagementRow,
          CompletionLost, ResizeActiveProtection, Restart, IntentMoves
  <1>3. CASE Broker
    BY <1>3 DEF Broker, StopFills, ProtectionEnds, BrokerFills, OrderEnds, IntentMoves
  <1>4. ASSUME NEW u \in updates, RecordManagementBrokerUpdate(u) PROVE IntentMoves(i)
    <2>1. \/ UNCHANGED intents
          \/ \E s \in {"failed", "acknowledged"} : intents' = [intents EXCEPT ![u.intent].status = s]
      BY <1>4 DEF RecordManagementBrokerUpdate
    <2>2. u.intent \in Intents
      BY DEF TypeOK, AddonTypes, Updates
    <2>3. QED
      BY <2>1, <2>2, StatusSet DEF IntentMoves
  <1>5. ASSUME NEW h \in Handlers, RecordAddonSnapshot(h) \/ Reconcile(h) \/ Working(h)
        PROVE  IntentMoves(i)
    <2>1. CASE SettleIntent(h)
      <3>1. intents'[i] = IF i \in job[h].half THEN [intents[i] EXCEPT !.status = "acknowledged"]
                                                ELSE intents[i]
        BY <2>1 DEF SettleIntent
      <3>2. intents[i] \in Intentions
        BY DEF TypeOK, DeskTypes
      <3>3. QED
        BY <3>1, <3>2 DEF IntentMoves, Intentions
    <2>2. QED
      BY <1>5, <2>1
      DEF RecordAddonSnapshot, Reconcile, Working, SettleProtectiveExits, PersistProtectiveFill,
          EvaluateProtection, ConfirmProtection, SettleTrade, SettleRow, CompareSnapshots, IntentMoves
  <1>6. CASE UNCHANGED vars
    BY <1>6 DEF IntentMoves
  <1>7. QED
    BY <1>1, <1>2, <1>3, <1>4, <1>5, <1>6 DEF Next, RecordAddonEvents

\* A settlement's intents are those that it, or the query it starts from,
\* found delivered or acknowledged.
LEMMA SettlementSources ==
    ASSUME TypeOK, [Next]_vars, NEW k \in Handlers
    PROVE  \A i \in job'[k].pending \cup job'[k].half :
             \/ i \in job[k].pending \cup job[k].half
             \/ i \in Intents /\ intents[i].status \in {"delivered", "acknowledged"}
  <1> DEFINE Sources == \A i \in job'[k].pending \cup job'[k].half :
             \/ i \in job[k].pending \cup job[k].half
             \/ i \in Intents /\ intents[i].status \in {"delivered", "acknowledged"}
  <1>1. job \in [Handlers -> Jobs] /\ job[k] \in Jobs
    BY DEF TypeOK, ApiTypes
  <1>2. Idle.pending = {} /\ Idle.half = {}
    BY DEF Idle
  <1>3. ASSUME NEW h \in Handlers, RecordAddonSnapshot(h) PROVE Sources
    <2>1. job' = [job EXCEPT ![h] = [Idle EXCEPT !.phase = "exits", !.position = position,
                                                 !.stop = stop]]
      BY <1>3 DEF RecordAddonSnapshot
    <2>2. QED
      BY <1>1, <2>1 DEF Idle
  <1>4. ASSUME NEW h \in Handlers, Reconcile(h) PROVE Sources
    <2>1. PICK j : /\ job' = [job EXCEPT ![h] = j] /\ j.half = {}
                   /\ j.pending \subseteq Intents
                   /\ \A i \in j.pending : intents[i].status \in {"delivered", "acknowledged"}
      <3>1. CASE job' = [job EXCEPT ![h] = [Idle EXCEPT !.phase = "settle"]]
        <4> DEFINE j == [Idle EXCEPT !.phase = "settle"]
        <4>1. j.pending = {} /\ j.half = {}
          BY DEF Idle
        <4>2. QED
          BY <3>1, <4>1
      <3>2. ASSUME NEW p, NEW m, NEW S \in SUBSET Intents,
                   \A i \in S : intents[i].status \in {"delivered", "acknowledged"},
                   job' = [job EXCEPT ![h] = Settlement(p, m, trade.revision, S)]
            PROVE  \E j : /\ job' = [job EXCEPT ![h] = j] /\ j.half = {}
                          /\ j.pending \subseteq Intents
                          /\ \A i \in j.pending : intents[i].status \in {"delivered", "acknowledged"}
        <4> DEFINE j == Settlement(p, m, trade.revision, S)
        <4>1. j.pending = S /\ j.half = {}
          BY DEF Settlement, Idle
        <4>2. QED
          BY <3>2, <4>1
      <3>3. QED
        BY <1>4, <3>1, <3>2, ReconcileShape
    <2>2. QED
      BY <1>1, <2>1
  <1>5. ASSUME NEW h \in Handlers, SettleProtectiveExits(h) PROVE Sources
    <2>1. CASE \E n : job' = [job EXCEPT ![h] = [job[h] EXCEPT !.phase = "persist", !.missing = n]]
      <3>1. PICK n : job' = [job EXCEPT ![h] = [job[h] EXCEPT !.phase = "persist", !.missing = n]]
        BY <2>1
      <3>2. QED
        BY <1>1, <3>1 DEF Jobs
    <2>2. CASE job' = [job EXCEPT ![h] = [job[h] EXCEPT !.phase = "confirm"]]
      BY <1>1, <2>2 DEF Jobs
    <2>3. QED
      BY <1>5, <2>1, <2>2 DEF SettleProtectiveExits
  <1>6. ASSUME NEW h \in Handlers, PersistProtectiveFill(h) PROVE Sources
    <2>1. job' = [job EXCEPT ![h] = [job[h] EXCEPT !.phase = "confirm", !.missing = 0]]
      BY <1>6 DEF PersistProtectiveFill
    <2>2. QED
      BY <1>1, <2>1 DEF Jobs
  <1>7. ASSUME NEW h \in Handlers, EvaluateProtection(h) PROVE Sources
    <2>1. PICK j : job' = [job EXCEPT ![h] = j] /\ j.pending = {} /\ j.half = {}
      <3>1. CASE IsOpen(trade)
        <4> DEFINE j == [Idle EXCEPT !.phase = "protect",
                                     !.confirmed = Protected(trade, job[h].stop)]
        <4>1. job' = [job EXCEPT ![h] = j]
          BY <1>7, <3>1 DEF EvaluateProtection
        <4>2. j.pending = {} /\ j.half = {}
          BY DEF Idle
        <4>3. QED
          BY <4>1, <4>2
      <3>2. CASE ~IsOpen(trade)
        BY <1>2, <1>7, <3>2 DEF EvaluateProtection
      <3>3. QED
        BY <3>1, <3>2
    <2>2. QED
      BY <1>1, <2>1
  <1>8. ASSUME NEW h \in Handlers, ConfirmProtection(h) \/ CompareSnapshots(h) PROVE Sources
    <2>1. job' = [job EXCEPT ![h] = Idle]
      BY <1>8 DEF ConfirmProtection, CompareSnapshots
    <2>2. QED
      BY <1>1, <1>2, <2>1
  <1>9. ASSUME NEW h \in Handlers, NEW i \in Intents, SettleTrade(h, i) PROVE Sources
    <2>1. job' = [job EXCEPT ![h] = [job[h] EXCEPT !.phase = "intent", !.pending = @ \ {i},
                                                   !.half = {i}]]
      BY <1>9 DEF SettleTrade
    <2>2. i \in job[h].pending
      BY <1>9 DEF SettleTrade
    <2>3. QED
      BY <1>1, <2>1, <2>2 DEF Jobs
  <1>10. ASSUME NEW h \in Handlers, SettleIntent(h) PROVE Sources
    <2>1. job' = [job EXCEPT ![h] = [job[h] EXCEPT !.phase = "row"]]
      BY <1>10 DEF SettleIntent
    <2>2. QED
      BY <1>1, <2>1 DEF Jobs
  <1>11. ASSUME NEW h \in Handlers, SettleRow(h) PROVE Sources
    <2>1. job' = [job EXCEPT ![h] = [job[h] EXCEPT !.phase = "settle", !.half = {}]]
      BY <1>11 DEF SettleRow
    <2>2. QED
      BY <1>1, <2>1 DEF Jobs
  <1>12. ASSUME NEW u \in updates, RecordManagementBrokerUpdate(u) PROVE Sources
    BY <1>12 DEF RecordManagementBrokerUpdate
  <1>13. QED
    BY <1>3, <1>4, <1>5, <1>6, <1>7, <1>8, <1>9, <1>10, <1>11, <1>12,
       DeskRests, AddOnRests, BrokerRests
    DEF Next, Working, RecordAddonEvents

LEMMA DoneInit == Init => DoneInv
  <1> SUFFICES ASSUME Init PROVE DoneInv
    OBVIOUS
  <1>1. CommandsHaveIntents /\ OneAtATime /\ JournalHasIntents /\ ReportsAreTrue
    BY DEF Init, CommandsHaveIntents, OneAtATime, JournalHasIntents, ReportsAreTrue
  <1>2. CompletionsAreTrue /\ UpdatesAreTrue /\ StatusesAreTrue
    BY DEF Init, CompletionsAreTrue, UpdatesAreTrue, StatusesAreTrue
  <1>3. SettlementsAreTrue
    BY DEF Init, SettlementsAreTrue, Idle
  <1>4. ~trade.stopMoved
    BY DEF Init, Opened
  <1>5. QED
    BY <1>1, <1>2, <1>3, <1>4 DEF DoneInv

\* What the AddOn holds and says, as the part of the invariant that is not
\* about the desk; the journal only grows and a moved stop stays moved.
AddonInv ==
    /\ CommandsHaveIntents /\ OneAtATime /\ JournalHasIntents /\ ReportsAreTrue
    /\ CompletionsAreTrue /\ UpdatesAreTrue

Grows == journal \subseteq journal' /\ (stop.moved => stop'.moved)

\* Where nothing of the AddOn and the broker changes, it holds on.
LEMMA AddonRests ==
    ASSUME TypeOK, AddonInv, [Next]_vars,
           UNCHANGED <<addonVars, brokerVars>>,
           claim' \subseteq claim \/ (held = {} /\ \A c \in claim' : intents[c.intent].status # "none"),
           claim' \subseteq Commands, completing' \subseteq completing
    PROVE  AddonInv' /\ Grows
  <1>1. /\ held \subseteq Commands /\ claim \subseteq Commands /\ journal \subseteq Intents
        /\ updates \subseteq Updates
        /\ \A c \in Commands : c.intent \in Intents
        /\ \A u \in Updates : u.intent \in Intents
    BY DEF TypeOK, AddonTypes, ApiTypes, Commands, Updates
  <1>2. \A i \in Intents : intents[i].status # "none" =>
                             intents'[i].status # "none" /\ intents'[i].action = intents[i].action
    BY IntentSteps DEF IntentMoves
  <1>3. CommandsHaveIntents' /\ OneAtATime'
    BY <1>1, <1>2 DEF AddonInv, CommandsHaveIntents, OneAtATime
  <1>4. JournalHasIntents' /\ ReportsAreTrue' /\ CompletionsAreTrue'
    BY <1>1, <1>2 DEF AddonInv, JournalHasIntents, ReportsAreTrue, CompletionsAreTrue
  <1>5. UpdatesAreTrue'
    BY <1>1, <1>2 DEF AddonInv, JournalHasIntents, UpdatesAreTrue
  <1>6. QED
    BY <1>3, <1>4, <1>5 DEF AddonInv, Grows

\* An action of the AddOn or the broker that changes no intent.
LEMMA AddonActs ==
    ASSUME TypeOK, AddonInv,
           SubmitReduction \/ ClosePosition \/ MoveStop \/ CommandFails \/ CompleteManagementRow
             \/ CompletionLost \/ Restart \/ ResizeActiveProtection
             \/ StopFills \/ ProtectionEnds
             \/ (\E i \in Intents : BrokerFills(i) \/ OrderEnds(i))
    PROVE  AddonInv' /\ Grows
  <1> USE DEF AddonInv, CommandsHaveIntents, OneAtATime, JournalHasIntents, ReportsAreTrue,
              CompletionsAreTrue, UpdatesAreTrue, Grows
  <1>1. stop \in Stops
    BY DEF TypeOK, BrokerTypes
  <1>2. CASE SubmitReduction
    <2>1. PICK c \in held :
            /\ intents[c.intent].action = "reduce_position"
            /\ managed' = managed \cup {c.intent} /\ journal' = journal \cup {c.intent}
            /\ updates' = updates \cup {[intent |-> c.intent, status |-> "working", filled |-> 0]}
      BY <1>2 DEF SubmitReduction, PlaceOrder, Raise
    <2>2. result' = "delivered" /\ UNCHANGED <<held, claim, completing, stop, intents>>
      BY <1>2 DEF SubmitReduction
    <2>3. QED
      BY <2>1, <2>2
  <1>3. CASE ClosePosition
    <2>1. PICK c \in held :
            /\ intents[c.intent].action = "close_position"
            /\ journal' = journal \cup {c.intent}
            /\ \/ /\ managed' = managed \cup {c.intent}
                  /\ updates' = updates \cup {[intent |-> c.intent, status |-> "working", filled |-> 0]}
               \/ UNCHANGED <<managed, updates>>
      BY <1>3 DEF ClosePosition, PlaceOrder, Raise
    <2>2. result' = "delivered" /\ UNCHANGED <<held, claim, completing, stop, intents>>
      BY <1>3 DEF ClosePosition
    <2>3. QED
      BY <2>1, <2>2
  <1>4. CASE MoveStop
    <2>1. PICK c \in held :
            /\ managed' = managed \cup {c.intent} /\ journal' = journal \cup {c.intent}
            /\ \/ /\ stop' = [stop EXCEPT !.moved = TRUE, !.quantity = c.quantity]
                  /\ updates' = updates \cup {[intent |-> c.intent, status |-> "working", filled |-> 0]}
               \/ /\ stop' = stop
                  /\ updates' = updates \cup {[intent |-> c.intent, status |-> "rejected", filled |-> 0]}
      BY <1>4 DEF MoveStop, Raise
    <2>2. result' = "delivered" /\ UNCHANGED <<held, claim, completing, intents>>
      BY <1>4 DEF MoveStop
    <2>3. stop'.moved \/ (stop' = stop /\ \A u \in updates' : u \in updates \/ u.status = "rejected")
      <3>1. CASE stop' = [stop EXCEPT !.moved = TRUE, !.quantity = c.quantity]
        <4>1. stop'.moved = TRUE
          BY <1>1, <3>1 DEF Stops
        <4>2. QED
          BY <4>1
      <3>2. CASE /\ stop' = stop
                 /\ updates' = updates \cup {[intent |-> c.intent, status |-> "rejected", filled |-> 0]}
        BY <3>2
      <3>3. QED
        BY <2>1, <3>1, <3>2
    <2>4. \A u \in updates' : u \in updates \/ u.intent = c.intent
      BY <2>1
    <2>5. stop.moved => stop'.moved
      BY <1>1, <2>1, <2>3
    <2>6. QED
      BY <2>1, <2>2, <2>3, <2>4, <2>5
  <1>5. CASE CompleteManagementRow
    <2>1. PICK c \in held : completing' = completing \cup {[intent |-> c.intent, status |-> result]}
      BY <1>5 DEF CompleteManagementRow
    <2>2. /\ held' = {} /\ result' = "none"
          /\ UNCHANGED <<claim, journal, managed, updates, stop, intents>>
      BY <1>5 DEF CompleteManagementRow
    <2>3. QED
      BY <2>1, <2>2
  <1>6. CASE CommandFails
    BY <1>6 DEF CommandFails
  <1>7. CASE CompletionLost
    BY <1>7 DEF CompletionLost
  <1>8. CASE Restart
    BY <1>8 DEF Restart
  <1>9. CASE ResizeActiveProtection
    <2>1. stop'.moved = stop.moved
      BY <1>1, <1>9 DEF ResizeActiveProtection, Stops
    <2>2. UNCHANGED <<held, result, claim, completing, journal, managed, updates, intents>>
      BY <1>9 DEF ResizeActiveProtection
    <2>3. QED
      BY <2>1, <2>2
  <1>10. CASE StopFills \/ ProtectionEnds
    <2>1. stop'.moved = stop.moved
      BY <1>1, <1>10 DEF StopFills, ProtectionEnds, Stops
    <2>2. UNCHANGED <<held, result, claim, completing, journal, managed, updates, intents>>
      BY <1>10 DEF StopFills, ProtectionEnds
    <2>3. QED
      BY <2>1, <2>2
  <1>11. ASSUME NEW i \in Intents, BrokerFills(i) \/ OrderEnds(i) PROVE AddonInv' /\ Grows
    <2>1. \/ updates' = updates
          \/ /\ i \in managed
             /\ \E s \in {"partially_filled", "filled", "rejected"}, n \in {executed'[i], executed[i]} :
                  updates' = updates \cup {[intent |-> i, status |-> s, filled |-> n]}
      <3>1. CASE OrderEnds(i)
        BY <3>1 DEF OrderEnds, Raise
      <3>2. CASE BrokerFills(i)
        <4>1. \E s \in {"partially_filled", "filled"} : Raise(i, s, executed'[i])
          BY <3>2 DEF BrokerFills
        <4>2. managed' = managed
          BY <3>2 DEF BrokerFills
        <4>3. QED
          BY <4>1, <4>2 DEF Raise
      <3>3. QED
        BY <1>11, <3>1, <3>2
    <2>2. UNCHANGED <<held, result, claim, completing, journal, managed, stop, intents>>
      BY <1>11 DEF BrokerFills, OrderEnds
    <2>3. \A u \in updates' : u \in updates \/ (u.intent \in managed /\ u.status # "working")
      BY <2>1
    <2>4. QED
      BY <2>2, <2>3
  <1>12. QED
    BY <1>2, <1>3, <1>4, <1>5, <1>6, <1>7, <1>8, <1>9, <1>10, <1>11

\* A lease hands over the claim's command.
LEMMA LeaseActs ==
    ASSUME TypeOK, AddonInv, [Next]_vars, LeaseManagementOutbox
    PROVE  AddonInv' /\ Grows
  <1> USE DEF AddonInv, CommandsHaveIntents, OneAtATime, JournalHasIntents, ReportsAreTrue,
              CompletionsAreTrue, UpdatesAreTrue, Grows
  <1>1. /\ held \subseteq Commands /\ claim \subseteq Commands /\ journal \subseteq Intents
        /\ updates \subseteq Updates
        /\ \A c \in Commands : c.intent \in Intents
        /\ \A u \in Updates : u.intent \in Intents
    BY DEF TypeOK, AddonTypes, ApiTypes, Commands, Updates
  <1>2. \A i \in Intents : intents[i].status # "none" =>
                             intents'[i].status # "none" /\ intents'[i].action = intents[i].action
    BY IntentSteps DEF IntentMoves
  <1>3. PICK c \in claim : held' = {c} \/ held' = held
    BY DEF LeaseManagementOutbox
  <1>4. /\ claim' = {} /\ held = {} /\ result = "none"
        /\ UNCHANGED <<result, journal, managed, updates, completing, stop>>
    BY <1>3 DEF LeaseManagementOutbox
  <1>5. CommandsHaveIntents' /\ OneAtATime' /\ ReportsAreTrue' /\ CompletionsAreTrue'
    BY <1>1, <1>2, <1>3, <1>4
  <1>6. JournalHasIntents' /\ UpdatesAreTrue' /\ Grows
    BY <1>1, <1>2, <1>4
  <1>7. QED
    BY <1>5, <1>6

LEMMA AddonStep ==
    ASSUME TypeOK, TypeOK', AddonInv, [Next]_vars
    PROVE  AddonInv' /\ Grows
  <1>1. claim' \subseteq Commands
    BY DEF TypeOK, ApiTypes
  <1>2. ASSUME NEW i \in Intents, Desk(i) PROVE AddonInv' /\ Grows
    <2>1. UNCHANGED <<addonVars, brokerVars>> /\ completing' = completing
      BY <1>2 DEF Desk, MaterializeManagement, ApproveManagementIntent, RejectManagementIntent,
           CancelManagementRow, Expire, CheckManagementWork
    <2>2. CASE CheckManagementWork(i)
      <3>1. held = {} /\ intents[i].status = "queued" /\ \A c \in claim' : c.intent = i
        BY <2>2 DEF CheckManagementWork, Candidate, Leasable
      <3>2. QED
        BY <1>1, <2>1, <3>1, AddonRests
    <2>3. CASE claim' = claim
      BY <1>1, <2>1, <2>3, AddonRests
    <2>4. QED
      BY <1>2, <2>2, <2>3 DEF Desk, MaterializeManagement, ApproveManagementIntent,
           RejectManagementIntent, CancelManagementRow, Expire
  <1>3. CASE AddOn
    <2>1. CASE CompleteManagementIntent
      <3>1. UNCHANGED <<addonVars, brokerVars, claim>> /\ completing' \subseteq completing
        BY <2>1 DEF CompleteManagementIntent
      <3>2. QED
        BY <1>1, <3>1, AddonRests
    <2>2. QED
      BY <1>3, <2>1, AddonActs, LeaseActs DEF AddOn
  <1>4. CASE Broker
    BY <1>4, AddonActs DEF Broker
  <1>5. CASE RecordAddonEvents
    <2>1. UNCHANGED <<addonVars, brokerVars, claim, completing>>
      BY <1>5 DEF RecordAddonEvents, RecordManagementBrokerUpdate
    <2>2. QED
      BY <1>1, <2>1, AddonRests
  <1>6. ASSUME NEW h \in Handlers, RecordAddonSnapshot(h) \/ Reconcile(h) \/ Working(h)
        PROVE  AddonInv' /\ Grows
    <2>1. UNCHANGED <<addonVars, brokerVars, claim, completing>>
      BY <1>6 DEF RecordAddonSnapshot, Reconcile, Working, SettleProtectiveExits,
         PersistProtectiveFill, EvaluateProtection, ConfirmProtection, SettleTrade, SettleIntent,
         SettleRow, CompareSnapshots
    <2>2. QED
      BY <1>1, <2>1, AddonRests
  <1>7. CASE UNCHANGED vars
    BY <1>1, <1>7, AddonRests
  <1>8. QED
    BY <1>2, <1>3, <1>4, <1>5, <1>6, <1>7 DEF Next

\* The trade's stop becomes moved by an order update of a moved stop only.
LEMMA StopMovedBy ==
    ASSUME TypeOK, [Next]_vars, trade'.stopMoved
    PROVE  trade.stopMoved \/ \E u \in updates : /\ intents[u.intent].action = "move_stop"
                                                 /\ u.status = "working"
  <1> DEFINE Goal == trade.stopMoved \/ \E u \in updates : /\ intents[u.intent].action = "move_stop"
                                                            /\ u.status = "working"
  <1>1. trade \in Trades
    BY DEF TypeOK, LedgerTypes
  <1>2. \A n : trade' = Reduced(trade, n) => trade'.stopMoved = trade.stopMoved
    BY <1>1 DEF Reduced, Trades
  <1>3. ASSUME NEW u \in updates, RecordManagementBrokerUpdate(u) PROVE Goal
    <2>1. u \in Updates
      BY DEF TypeOK, AddonTypes
    <2>2. CASE PersistManagementFill(u)
      BY <1>2, <2>1, <2>2, FillShape
    <2>3. CASE ConfirmStopMove(u) /\ intents[u.intent].action = "move_stop"
      BY <2>3 DEF ConfirmStopMove
    <2>4. QED
      BY <1>3, <2>2, <2>3 DEF RecordManagementBrokerUpdate
  <1>4. ASSUME NEW h \in Handlers, PersistProtectiveFill(h) PROVE Goal
    BY <1>2, <1>4, ProtectiveShape
  <1>5. ASSUME NEW h \in Handlers, ConfirmProtection(h) PROVE Goal
    BY <1>1, <1>5 DEF ConfirmProtection, Trades
  <1>6. ASSUME NEW h \in Handlers, NEW i \in Intents, SettleTrade(h, i) PROVE Goal
    BY <1>1, <1>6 DEF SettleTrade, Trades
  <1>7. QED
    BY <1>3, <1>4, <1>5, <1>6, Writers DEF TradeWriter

LEMMA DoneStep == IInv /\ DoneInv /\ [Next]_vars => DoneInv'
  <1> SUFFICES ASSUME IInv, DoneInv, [Next]_vars PROVE DoneInv'
    OBVIOUS
  <1>1. TypeOK /\ TypeOK' /\ AddonInv
    BY TypeStep DEF IInv, DoneInv, AddonInv
  <1>2. AddonInv' /\ Grows
    BY <1>1, AddonStep
  <1>3. StatusesAreTrue'
    <2> SUFFICES ASSUME NEW i \in Intents, intents'[i].status \in {"delivered", "acknowledged"}
                 PROVE  i \in journal
      BY <1>2 DEF StatusesAreTrue, Grows
    <2>1. IntentMoves(i)
      BY <1>1, IntentSteps
    <2>2. QED
      BY <2>1 DEF IntentMoves, DoneInv, StatusesAreTrue, CompletionsAreTrue, UpdatesAreTrue,
                  SettlementsAreTrue
  <1>4. SettlementsAreTrue'
    BY <1>1, <1>2, SettlementSources DEF DoneInv, SettlementsAreTrue, StatusesAreTrue, Grows
  <1>5. trade'.stopMoved => stop'.moved
    BY <1>1, <1>2, StopMovedBy DEF DoneInv, UpdatesAreTrue, Grows
  <1>6. QED
    BY <1>2, <1>3, <1>4, <1>5 DEF DoneInv, AddonInv

\* NoPhantomExit: an acknowledged intent's command went through, whichever of
\* completion, order update and settlement acknowledged it; a stop the trade
\* has as moved is moved.
THEOREM NoPhantomExitHolds == Spec => []NoPhantomExit
  <1>1. Spec => []DoneInv
    BY LedgerInvariant, DoneInit, DoneStep, PTL DEF Spec
  <1>2. DoneInv => NoPhantomExit
    BY DEF DoneInv, StatusesAreTrue, NoPhantomExit
  <1>3. QED
    BY <1>1, <1>2, PTL

=============================================================================

-------------------------- MODULE TradeExitsProofs --------------------------
(***************************************************************************)
(* The exits of a trade, counted at the broker and in the ledger.          *)
(*                                                                         *)
(* Contracts are counted as elements of sets, so that a sum over all       *)
(* intents is a cardinality.  A long position and the exits at the broker  *)
(* make up the trade's size at most; what the ledger has as closed is what *)
(* trade_fills has, as long as nothing is settled; and trade_fills has no  *)
(* more than was executed (FillsInv).                                      *)
(***************************************************************************)
EXTENDS TradeLedgerProofs, FiniteSetTheorems

\* Contract by contract, what f says of each intent's order.
Contracts(f) == {c \in Intents \X (Nat \ {0}) : c[2] <= f[c[1]]}

StopExits == IF stop.state = "filled" THEN stop.quantity ELSE 0

\* An account that has gone short or flat never gets long again.
ExitsLeave ==
    /\ IsFiniteSet(Contracts(executed))
    /\ position <= 0 \/ position + Cardinality(Contracts(executed)) + StopExits <= Quantity

ClosedIsFilled ==
    /\ IsFiniteSet(Contracts(fills))
    /\ trade.closed = Cardinality(Contracts(fills)) + stopFills

-----------------------------------------------------------------------------
\* Counting.

\* Who executes n more contracts has n more.
LEMMA ContractsGrow ==
    ASSUME NEW f \in [Intents -> Nat], NEW i \in Intents, NEW n \in Nat,
           IsFiniteSet(Contracts(f)), NEW g, g = [f EXCEPT ![i] = @ + n]
    PROVE  /\ IsFiniteSet(Contracts(g))
           /\ Cardinality(Contracts(g)) = Cardinality(Contracts(f)) + n
  <1> DEFINE new == {i} \X ((f[i] + 1)..(f[i] + n))
  <1>1. f[i] \in Nat /\ g \in [Intents -> Nat]
        /\ \A k \in Intents : g[k] = IF k = i THEN f[i] + n ELSE f[k]
    OBVIOUS
  <1>2. IsFiniteSet(new) /\ Cardinality(new) = n
    <2>1. /\ IsFiniteSet((f[i] + 1)..(f[i] + n))
          /\ Cardinality((f[i] + 1)..(f[i] + n)) = n
      <3>1. f[i] + 1 \in Int /\ f[i] + n \in Int
        BY <1>1
      <3>2. (IF f[i] + 1 > f[i] + n THEN 0 ELSE (f[i] + n) - (f[i] + 1) + 1) = n
        BY <1>1
      <3>3. QED
        BY <3>1, <3>2, FS_Interval
    <2>2. IsFiniteSet({i}) /\ Cardinality({i}) = 1
      BY FS_Singleton
    <2>3. QED
      BY <2>1, <2>2, FS_Product
  <1>3. Contracts(g) = Contracts(f) \cup new
    <2>1. ASSUME NEW k \in Intents, NEW m \in Nat \ {0}
          PROVE  <<k, m>> \in Contracts(g) <=> <<k, m>> \in Contracts(f) \cup new
      <3>1. <<k, m>> \in Contracts(g) <=> m <= g[k]
        BY DEF Contracts
      <3>2. <<k, m>> \in Contracts(f) <=> m <= f[k]
        BY DEF Contracts
      <3>3. <<k, m>> \in new <=> k = i /\ m \in (f[i] + 1)..(f[i] + n)
        OBVIOUS
      <3>4. CASE k = i
        BY <1>1, <3>1, <3>2, <3>3, <3>4
      <3>5. CASE k # i
        BY <1>1, <3>1, <3>2, <3>3, <3>5
      <3>6. QED
        BY <3>4, <3>5
    <2>2. Contracts(g) \subseteq Intents \X (Nat \ {0})
      BY DEF Contracts
    <2>3. Contracts(f) \cup new \subseteq Intents \X (Nat \ {0})
      BY <1>1 DEF Contracts
    <2>4. QED
      <3> HIDE DEF new
      <3>1. ASSUME NEW c \in Intents \X (Nat \ {0})
            PROVE  c \in Contracts(g) <=> c \in Contracts(f) \cup new
        <4>1. PICK k \in Intents, m \in Nat \ {0} : c = <<k, m>>
          OBVIOUS
        <4>2. QED
          BY <2>1, <4>1, Zenon
      <3>2. \A c \in Intents \X (Nat \ {0}) : c \in Contracts(g) <=> c \in Contracts(f) \cup new
        BY <3>1
      <3>3. QED
        BY <2>2, <2>3, <3>2, Zenon
  <1>4. Contracts(f) \cap new = {}
    BY <1>1 DEF Contracts
  <1>5. QED
    <2> HIDE DEF new
    <2>1. /\ IsFiniteSet(Contracts(f) \cup new)
          /\ Cardinality(Contracts(f) \cup new) =
               Cardinality(Contracts(f)) + Cardinality(new) - Cardinality({})
      BY <1>2, <1>4, FS_Union
    <2>2. Cardinality({}) = 0 /\ Cardinality(Contracts(f)) \in Nat
      BY FS_EmptySet, FS_CardinalityType
    <2>3. Cardinality(Contracts(f)) + Cardinality(new) - Cardinality({})
            = Cardinality(Contracts(f)) + n
      BY <1>2, <2>2
    <2>4. QED
      BY <1>3, <2>1, <2>3, Zenon

\* At first there are none.
LEMMA NoContracts ==
    LET zero == [i \in Intents |-> 0]
    IN  IsFiniteSet(Contracts(zero)) /\ Cardinality(Contracts(zero)) = 0
  <1>1. Contracts([i \in Intents |-> 0]) = {}
    BY DEF Contracts
  <1>2. QED
    BY <1>1, FS_EmptySet

-----------------------------------------------------------------------------
\* At the broker.

\* What a step does to the position: nothing, a fill, the stop, or a flatten.
LEMMA PositionMoves ==
    ASSUME TypeOK, [Next]_vars
    PROVE  \/ UNCHANGED <<position, executed>> /\ StopExits' = StopExits
           \/ \E i \in Intents : BrokerFills(i)
           \/ StopFills
           \/ UNCHANGED <<executed, stop>> /\ position <= 0 /\ position' = 0
  <1> DEFINE Goal == \/ UNCHANGED <<position, executed>> /\ StopExits' = StopExits
                     \/ \E i \in Intents : BrokerFills(i)
                     \/ StopFills
                     \/ UNCHANGED <<executed, stop>> /\ position <= 0 /\ position' = 0
  <1>0. stop \in Stops /\ position \in Int
    BY DEF TypeOK, BrokerTypes
  <1>1. ASSUME UNCHANGED <<position, executed, stop>> PROVE Goal
    BY <1>1 DEF StopExits
  <1>2. ASSUME NEW i \in Intents, Desk(i) PROVE Goal
    BY <1>1, <1>2 DEF Desk, MaterializeManagement, ApproveManagementIntent,
         RejectManagementIntent, CancelManagementRow, Expire, CheckManagementWork, brokerVars
  <1>3. CASE AddOn
    <2>1. CASE ClosePosition
      <3>1. UNCHANGED <<stop, executed>>
        BY <2>1 DEF ClosePosition
      <3>2. UNCHANGED position \/ (position <= 0 /\ position' = 0)
        BY <1>0, <2>1 DEF ClosePosition
      <3>3. QED
        BY <1>1, <3>1, <3>2
    <2>2. CASE MoveStop
      <3>1. UNCHANGED <<position, executed>>
        BY <2>2 DEF MoveStop
      <3>2. StopExits' = StopExits
        BY <1>0, <2>2 DEF MoveStop, StopExits, Stops
      <3>3. QED
        BY <3>1, <3>2
    <2>3. CASE ResizeActiveProtection
      <3>1. UNCHANGED <<position, executed>>
        BY <2>3 DEF ResizeActiveProtection
      <3>2. StopExits' = StopExits
        BY <1>0, <2>3 DEF ResizeActiveProtection, StopExits, Stops
      <3>3. QED
        BY <3>1, <3>2
    <2>4. CASE UNCHANGED <<position, executed, stop>>
      BY <1>1, <2>4
    <2>5. QED
      BY <1>3, <2>1, <2>2, <2>3, <2>4 DEF AddOn, LeaseManagementOutbox, SubmitReduction,
         CommandFails, CompleteManagementRow, CompleteManagementIntent, CompletionLost, Restart,
         brokerVars
  <1>4. CASE Broker
    <2>1. CASE ProtectionEnds
      <3>1. UNCHANGED <<position, executed>>
        BY <2>1 DEF ProtectionEnds
      <3>2. StopExits' = StopExits
        BY <1>0, <2>1 DEF ProtectionEnds, StopExits, Stops
      <3>3. QED
        BY <3>1, <3>2
    <2>2. ASSUME NEW i \in Intents, OrderEnds(i) PROVE Goal
      BY <1>1, <2>2 DEF OrderEnds
    <2>3. QED
      BY <1>4, <2>1, <2>2 DEF Broker
  <1>5. ASSUME NEW h \in Handlers, RecordAddonSnapshot(h) \/ Reconcile(h) \/ Working(h)
        PROVE  Goal
    BY <1>1, <1>5 DEF RecordAddonSnapshot, Reconcile, Working, SettleProtectiveExits,
         PersistProtectiveFill, EvaluateProtection, ConfirmProtection, SettleTrade, SettleIntent,
         SettleRow, CompareSnapshots, brokerVars
  <1>6. CASE RecordAddonEvents
    BY <1>1, <1>6 DEF RecordAddonEvents, RecordManagementBrokerUpdate, brokerVars
  <1>7. CASE UNCHANGED vars
    BY <1>1, <1>7 DEF vars, brokerVars
  <1>8. QED
    BY <1>2, <1>3, <1>4, <1>5, <1>6, <1>7 DEF Next

LEMMA ExitsLeaveInit == Init => ExitsLeave
  <1> SUFFICES ASSUME Init PROVE ExitsLeave
    OBVIOUS
  <1>1. position = Quantity /\ executed = [i \in Intents |-> 0] /\ StopExits = 0
    BY DEF Init, StopExits, Protection
  <1>2. QED
    BY <1>1, NoContracts, ConstantsAssumption DEF ExitsLeave

LEMMA ExitsLeaveStep == TypeOK /\ ExitsLeave /\ [Next]_vars => ExitsLeave'
  <1> SUFFICES ASSUME TypeOK, ExitsLeave, [Next]_vars PROVE ExitsLeave'
    OBVIOUS
  <1>1. /\ position \in Int /\ executed \in [Intents -> Nat] /\ stop \in Stops
        /\ StopExits \in Nat /\ Cardinality(Contracts(executed)) \in Nat /\ Quantity \in Nat
    BY FS_CardinalityType, ConstantsAssumption
       DEF TypeOK, BrokerTypes, ExitsLeave, StopExits, Stops, Quantities
  <1>2. CASE UNCHANGED <<position, executed>> /\ StopExits' = StopExits
    BY <1>2 DEF ExitsLeave, Contracts
  <1>3. ASSUME NEW i \in Intents, BrokerFills(i) PROVE ExitsLeave'
    <2>1. PICK n \in 1..(size[i] - executed[i]) :
            /\ position' = position - n
            /\ executed' = [executed EXCEPT ![i] = @ + n]
      BY <1>3 DEF BrokerFills
    <2>2. n \in Nat
      BY DEF TypeOK, BrokerTypes, Quantities
    <2>3. /\ IsFiniteSet(Contracts(executed'))
          /\ Cardinality(Contracts(executed')) = Cardinality(Contracts(executed)) + n
      BY <1>1, <2>1, <2>2, ContractsGrow DEF ExitsLeave
    <2>4. StopExits' = StopExits
      BY <1>3 DEF BrokerFills, StopExits
    <2>5. position' <= 0 \/ position' + Cardinality(Contracts(executed')) + StopExits' <= Quantity
      BY <1>1, <2>1, <2>2, <2>3, <2>4 DEF ExitsLeave
    <2>6. Contracts(executed)' = Contracts(executed')
      BY DEF Contracts
    <2>7. QED
      BY <2>3, <2>5, <2>6 DEF ExitsLeave
  <1>4. CASE StopFills
    <2>1. executed' = executed /\ position' = position - stop.quantity /\ StopExits = 0
      BY <1>4 DEF StopFills, StopExits
    <2>2. StopExits' = stop.quantity /\ stop.quantity \in Nat
      BY <1>1, <1>4 DEF StopFills, StopExits, Stops
    <2>3. QED
      BY <1>1, <2>1, <2>2 DEF ExitsLeave, Contracts
  <1>5. CASE UNCHANGED <<executed, stop>> /\ position <= 0 /\ position' = 0
    BY <1>5 DEF ExitsLeave, Contracts
  <1>6. QED
    BY <1>2, <1>3, <1>4, <1>5, PositionMoves

-----------------------------------------------------------------------------
\* In the ledger.

LEMMA ClosedIsFilledInit == Init => ClosedIsFilled
  <1> SUFFICES ASSUME Init PROVE ClosedIsFilled
    OBVIOUS
  <1>1. trade.closed = 0 /\ fills = [i \in Intents |-> 0] /\ stopFills = 0
    BY DEF Init, Opened
  <1>2. QED
    BY <1>1, NoContracts DEF ClosedIsFilled

\* What a step does to the closed contracts, when nothing is settled: nothing,
\* or what it does to trade_fills.
LEMMA ClosedMoves ==
    ASSUME IInv, NothingToSettle, [Next]_vars
    PROVE  \/ UNCHANGED <<fills, stopFills>> /\ trade'.closed = trade.closed
           \/ \E i \in Intents, n \in Nat :
                /\ fills' = [fills EXCEPT ![i] = @ + n] /\ stopFills' = stopFills
                /\ trade'.closed = trade.closed + n
           \/ \E n \in Nat :
                /\ stopFills' = stopFills + n /\ fills' = fills
                /\ trade'.closed = trade.closed + n
  <1> DEFINE Goal == \/ UNCHANGED <<fills, stopFills>> /\ trade'.closed = trade.closed
                     \/ \E i \in Intents, n \in Nat :
                          /\ fills' = [fills EXCEPT ![i] = @ + n] /\ stopFills' = stopFills
                          /\ trade'.closed = trade.closed + n
                     \/ \E n \in Nat :
                          /\ stopFills' = stopFills + n /\ fills' = fills
                          /\ trade'.closed = trade.closed + n
  <1>1. TypeOK /\ trade \in Trades /\ trade.open \in Nat /\ trade.closed \in Nat
    BY DEF IInv, TypeOK, LedgerTypes, Trades, Quantities
  <1>2. ASSUME NEW n \in 1..trade.open, trade' = Reduced(trade, n)
        PROVE  n \in Nat /\ trade'.closed = trade.closed + n
    BY <1>1, <1>2 DEF Reduced, Trades
  <1>3. ASSUME NEW u \in updates, RecordManagementBrokerUpdate(u) PROVE Goal
    <2>1. u \in Updates /\ u.intent \in Intents /\ stopFills' = stopFills
      BY <1>1, <1>3 DEF TypeOK, AddonTypes, Updates, RecordManagementBrokerUpdate
    <2>2. CASE PersistManagementFill(u)
      <3>1. CASE UNCHANGED <<trade, fills>>
        BY <2>1, <3>1
      <3>2. ASSUME NEW n \in 1..trade.open, trade' = Reduced(trade, n),
                   fills' = [fills EXCEPT ![u.intent] = @ + n]
            PROVE  Goal
        BY <1>2, <2>1, <3>2
      <3>3. QED
        BY <1>1, <2>1, <2>2, <3>1, <3>2, FillShape
    <2>3. CASE ConfirmStopMove(u) /\ UNCHANGED fills
      BY <1>1, <2>1, <2>3 DEF ConfirmStopMove, Trades
    <2>4. QED
      BY <1>3, <2>2, <2>3 DEF RecordManagementBrokerUpdate
  <1>4. ASSUME NEW h \in Handlers, PersistProtectiveFill(h) PROVE Goal
    <2>1. fills' = fills
      BY <1>4 DEF PersistProtectiveFill
    <2>2. CASE UNCHANGED <<trade, stopFills>>
      BY <2>1, <2>2
    <2>3. ASSUME NEW n \in 1..trade.open, trade' = Reduced(trade, n), stopFills' = stopFills + n
          PROVE  Goal
      BY <1>2, <2>1, <2>3
    <2>4. QED
      BY <1>1, <1>4, <2>2, <2>3, ProtectiveShape
  <1>5. ASSUME NEW h \in Handlers, ConfirmProtection(h) PROVE Goal
    BY <1>1, <1>5 DEF ConfirmProtection, Trades
  <1>6. ASSUME NEW h \in Handlers, NEW i \in Intents, SettleTrade(h, i) PROVE Goal
    BY <1>6 DEF SettleTrade, NothingToSettle
  <1>7. CASE UNCHANGED <<trade, fills, stopFills>>
    BY <1>7
  <1>8. [Next]_vars => TradeWriter \/ UNCHANGED <<trade, fills, stopFills>>
    <2>1. ASSUME NEW h \in Handlers, RecordAddonSnapshot(h) \/ Reconcile(h) \/ Working(h)
          PROVE  TradeWriter \/ UNCHANGED <<trade, fills, stopFills>>
      BY <2>1 DEF RecordAddonSnapshot, Reconcile, Working, SettleProtectiveExits,
                  EvaluateProtection, SettleIntent, SettleRow, CompareSnapshots, TradeWriter,
                  ledgerVars
    <2>2. QED
      BY <2>1, DeskRests, AddOnRests, BrokerRests
         DEF Next, RecordAddonEvents, TradeWriter, vars, ledgerVars
  <1>9. QED
    BY <1>3, <1>4, <1>5, <1>6, <1>7, <1>8 DEF TradeWriter

LEMMA ClosedIsFilledStep ==
    IInv /\ NothingToSettle /\ ClosedIsFilled /\ [Next]_vars => ClosedIsFilled'
  <1> SUFFICES ASSUME IInv, NothingToSettle, ClosedIsFilled, [Next]_vars PROVE ClosedIsFilled'
    OBVIOUS
  <1>1. /\ fills \in [Intents -> Nat] /\ stopFills \in Nat
        /\ Cardinality(Contracts(fills)) \in Nat
    BY FS_CardinalityType DEF IInv, TypeOK, LedgerTypes, ClosedIsFilled
  <1>2. Contracts(fills)' = Contracts(fills')
    BY DEF Contracts
  <1>3. CASE UNCHANGED <<fills, stopFills>> /\ trade'.closed = trade.closed
    BY <1>3 DEF ClosedIsFilled, Contracts
  <1>4. ASSUME NEW i \in Intents, NEW n \in Nat,
               fills' = [fills EXCEPT ![i] = @ + n] /\ stopFills' = stopFills,
               trade'.closed = trade.closed + n
        PROVE  ClosedIsFilled'
    <2>1. /\ IsFiniteSet(Contracts(fills'))
          /\ Cardinality(Contracts(fills')) = Cardinality(Contracts(fills)) + n
      BY <1>1, <1>4, ContractsGrow DEF ClosedIsFilled
    <2>2. QED
      BY <1>1, <1>2, <1>4, <2>1 DEF ClosedIsFilled
  <1>5. ASSUME NEW n \in Nat, stopFills' = stopFills + n, fills' = fills,
               trade'.closed = trade.closed + n
        PROVE  ClosedIsFilled'
    BY <1>1, <1>2, <1>5 DEF ClosedIsFilled
  <1>6. QED
    BY <1>3, <1>4, <1>5, ClosedMoves

-----------------------------------------------------------------------------
\* trade_fills within what was executed, the ledger has what the account has.
LEMMA EachExitOnce ==
    ASSUME IInv, FillsInv, ExitsLeave, ClosedIsFilled
    PROVE  NoExitTwice
  <1>1. /\ position \in Int /\ trade.open \in Nat /\ trade.closed \in Nat
        /\ stopFills \in Nat /\ StopExits \in Nat /\ Quantity \in Nat
        /\ trade.open + trade.closed = Quantity
    BY ConstantsAssumption
       DEF IInv, TypeOK, BrokerTypes, LedgerTypes, Trades, Stops, StopExits, Quantities, Conserved
  <1>2. Contracts(fills) \subseteq Contracts(executed)
    <2>1. \A i \in Intents : fills[i] \in Nat /\ executed[i] \in Nat /\ fills[i] <= executed[i]
      <3>1. \A i \in Intents : fills[i] \in Nat /\ executed[i] \in Nat
        BY ConstantsAssumption DEF IInv, TypeOK, BrokerTypes, LedgerTypes, Quantities
      <3>2. QED
        BY <3>1 DEF FillsInv, FillsExact
    <2>2. QED
      BY <2>1 DEF Contracts
  <1>3. /\ Cardinality(Contracts(fills)) <= Cardinality(Contracts(executed))
        /\ Cardinality(Contracts(fills)) \in Nat /\ Cardinality(Contracts(executed)) \in Nat
    BY <1>2, FS_Subset, FS_CardinalityType DEF ExitsLeave, ClosedIsFilled
  <1>4. stopFills <= StopExits
    BY DEF FillsInv, FillsExact, StopExits
  <1>5. QED
    BY <1>1, <1>3, <1>4 DEF ExitsLeave, ClosedIsFilled, NoExitTwice

\* SettlementsCountTwice: the order updates of the desk's exits and the protective
\* exits of the snapshots together never close a contract that the account
\* still holds, for any number of intents, requests, faults and restarts; where
\* the ledger has fewer than the account, a reconciliation had an intent to settle.
THEOREM SettlementsCountTwiceHolds == Spec => SettlementsCountTwice
  <1>1. Spec => []FillsInv
    BY LedgerInvariant, FillsInit, FillsStep, PTL DEF Spec
  <1>2. IInv => TypeOK
    BY DEF IInv
  <1>3. Spec => []ExitsLeave
    BY <1>2, LedgerInvariant, ExitsLeaveInit, ExitsLeaveStep, PTL DEF Spec
  <1>4. Spec /\ []NothingToSettle => []ClosedIsFilled
    BY LedgerInvariant, ClosedIsFilledInit, ClosedIsFilledStep, PTL DEF Spec
  <1>5. QED
    BY <1>1, <1>3, <1>4, LedgerInvariant, EachExitOnce, PTL DEF SettlementsCountTwice
=============================================================================

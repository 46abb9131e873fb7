-------------------------- MODULE EntryFillsProofs --------------------------
(***************************************************************************)
(* Theorems about EntryFills, for any quantity, any set of handlers, any   *)
(* batch limit and any number of faults and restarts.                      *)
(*                                                                         *)
(* The updates on their way are those of the AddOn's queue, of the batch   *)
(* it waits for and of the requests being served.  Each of them, whatever  *)
(* the order they are recorded in, tells the truth about the broker: it    *)
(* reports no more than was executed, and a terminal status is the order's *)
(* own and reports all of it.  The ledger, for its part, is never behind   *)
(* a quantity the order row holds or a request has read.                   *)
(***************************************************************************)
EXTENDS EntryFills, SequenceTheorems, TLAPS

\* All updates on their way are in S.
Carried(S) ==
    /\ queue \in Seq(S) /\ batch \in Seq(S)
    /\ work \in [Handlers -> Seq(S)]

\* The updates that may be on their way once the order's state at the broker
\* is st and ex contracts have executed.
Truthful(st, ex) ==
    {u \in Updates : u.filled <= ex /\ (u.status \in Terminal => u.status = st /\ u.filled = ex)}

UpdatesAreTrue == Carried(Truthful(state, executed))

\* What the ledger must cover: the order row, and what the requests have read.
RowIsCovered == orderFilled <= fills
ReadsAreCovered == \A h \in Handlers : previous[h] <= fills

LedgerInv == NoFillLost /\ RowIsCovered /\ ReadsAreCovered

\* Executions come after the acceptance.
PlacedIsUnexecuted == state = "placed" => executed = 0

ClosedInv == UpdatesAreTrue /\ PlacedIsUnexecuted /\ ClosedIsComplete

IInv == TypeOK /\ LedgerInv /\ ClosedInv

\* As long as nothing has failed, the updates on their way form one line, in
\* the order the broker raised them: those of the one request being served,
\* then the queue.
Sorted(s) ==
    \A i, j \in 1..Len(s) : i < j => s[i].filled <= s[j].filled /\ s[i].status \notin Terminal
Before(s, t) ==
    \A i \in 1..Len(s), j \in 1..Len(t) :
       s[i].filled <= t[j].filled /\ s[i].status \notin Terminal
AtLeast(n, s) == \A i \in 1..Len(s) : n <= s[i].filled

OneRequest ==
    \A h \in Handlers : work[h] # <<>> =>
       /\ waiting = {h} \/ ~managed
       /\ \A g \in Handlers : work[g] # <<>> => g = h

UnmanagedIsSilent == ~managed => queue = <<>>

PendingInOrder ==
    /\ Sorted(queue) /\ AtLeast(orderFilled, queue)
    /\ \A h \in Handlers :
         Sorted(work[h]) /\ AtLeast(orderFilled, work[h]) /\ Before(work[h], queue)

ClosedIsLast ==
    orderStatus \in Terminal => queue = <<>> /\ \A h \in Handlers : work[h] = <<>>

\* What the request has read is still so.
ReadsAreFresh ==
    \A h \in Handlers : phase[h] = "write" =>
       work[h] # <<>> /\ previous[h] = orderFilled /\ Head(work[h]) \notin recorded

LineInv ==
    /\ OneRequest /\ UnmanagedIsSilent /\ PendingInOrder
    /\ ClosedIsLast /\ ReadsAreFresh /\ InOrderExact

InOrderInv == faults = 0 => LineInv

USE DEF vars, brokerVars, addonVars, apiVars, ledgerVars, countVars

-----------------------------------------------------------------------------
\* Sequences.

\* A batch and the rest of the queue consist of the queue's updates.
LEMMA SplitQueue ==
    ASSUME NEW S, NEW s \in Seq(S), NEW n \in Nat, n <= Len(s)
    PROVE  SubSeq(s, 1, n) \in Seq(S) /\ SubSeq(s, n + 1, Len(s)) \in Seq(S)
  <1>1. Len(s) \in Nat /\ \A k \in 1..Len(s) : s[k] \in S
    BY ElementOfSeq, LenProperties
  <1>2. \A k \in 1..n : s[k] \in S
    BY <1>1
  <1>3. \A k \in (n + 1)..Len(s) : s[k] \in S
    BY <1>1
  <1>4. QED
    BY <1>1, <1>2, <1>3, SubSeqProperties

\* A step of the AddOn or the API, or a failure, puts no new update on its way.
LEMMA NothingNewIsCarried ==
    ASSUME AddOn \/ Api \/ Failure \/ UNCHANGED vars
    PROVE  \A S : Carried(S) =>
             /\ queue' \in Seq(S) /\ batch' \in Seq(S)
             /\ work' \in [Handlers -> Seq(S)]
  <1> SUFFICES ASSUME NEW S, Carried(S)
               PROVE  /\ queue' \in Seq(S) /\ batch' \in Seq(S)
                      /\ work' \in [Handlers -> Seq(S)]
    OBVIOUS
  <1> USE DEF Carried
  <1>e. <<>> \in Seq(S)
    BY EmptySeq
  <1>r. Requeue => queue' \in Seq(S) /\ batch' \in Seq(S)
    BY <1>e, ConcatProperties DEF Requeue
  <1>n. ASSUME NEW h \in Handlers, work[h] # <<>>, NextUpdate(h)
        PROVE  work' \in [Handlers -> Seq(S)]
    BY <1>n, HeadTailProperties DEF NextUpdate
  <1>1. ASSUME NEW h \in Handlers, Flush(h)
        PROVE  /\ queue' \in Seq(S) /\ batch' \in Seq(S)
               /\ work' \in [Handlers -> Seq(S)]
    <2> DEFINE n == IF Len(queue) < BatchLimit THEN Len(queue) ELSE BatchLimit
    <2>1. n \in Nat /\ n <= Len(queue)
      BY LenProperties, ConstantsAssumption
    <2>2. SubSeq(queue, 1, n) \in Seq(S) /\ SubSeq(queue, n + 1, Len(queue)) \in Seq(S)
      BY <2>1, SplitQueue
    <2>3. /\ batch' = SubSeq(queue, 1, n)
          /\ queue' = SubSeq(queue, n + 1, Len(queue))
          /\ work' = [work EXCEPT ![h] = SubSeq(queue, 1, n)]
      BY <1>1 DEF Flush
    <2> HIDE DEF n
    <2>4. QED
      BY <2>2, <2>3
  <1>2. ASSUME NEW h \in Handlers, FlushDone(h)
        PROVE  /\ queue' \in Seq(S) /\ batch' \in Seq(S)
               /\ work' \in [Handlers -> Seq(S)]
    BY <1>2, <1>e DEF FlushDone
  <1>3. ASSUME NEW h \in Handlers, SkipDuplicate(h) \/ WriteOrder(h)
        PROVE  /\ queue' \in Seq(S) /\ batch' \in Seq(S)
               /\ work' \in [Handlers -> Seq(S)]
    BY <1>3, <1>n DEF SkipDuplicate, WriteOrder
  <1>4. ASSUME NEW h \in Handlers, ReadOrder(h)
        PROVE  /\ queue' \in Seq(S) /\ batch' \in Seq(S)
               /\ work' \in [Handlers -> Seq(S)]
    BY <1>4 DEF ReadOrder
  <1>5. ASSUME NEW h \in Handlers, FlushOverdue(h)
        PROVE  /\ queue' \in Seq(S) /\ batch' \in Seq(S)
               /\ work' \in [Handlers -> Seq(S)]
    BY <1>5, <1>r DEF FlushOverdue
  <1>6. ASSUME NEW h \in Handlers, RequestFails(h)
        PROVE  /\ queue' \in Seq(S) /\ batch' \in Seq(S)
               /\ work' \in [Handlers -> Seq(S)]
    BY <1>6, <1>e, <1>r DEF RequestFails
  <1>7. CASE Restart
    BY <1>7, <1>e DEF Restart
  <1>8. CASE UNCHANGED vars
    BY <1>8
  <1>9. QED
    BY <1>1, <1>2, <1>3, <1>4, <1>5, <1>6, <1>7, <1>8 DEF AddOn, Api, Failure

-----------------------------------------------------------------------------
\* The invariant holds initially.

\* Initially nothing is on its way, recorded or executed.
LEMMA InvInit == Init => IInv
  <1> SUFFICES ASSUME Init PROVE IInv
    OBVIOUS
  <1>1. \A S : Carried(S)
    BY EmptySeq DEF Init, Carried
  <1>2. TypeOK
    BY <1>1, ConstantsAssumption DEF Init, TypeOK, Carried
  <1>3. LedgerInv
    BY DEF Init, LedgerInv, NoFillLost, RowIsCovered, ReadsAreCovered
  <1>4. ClosedInv
    BY <1>1 DEF Init, ClosedInv, UpdatesAreTrue, PlacedIsUnexecuted, ClosedIsComplete, Terminal
  <1>5. QED
    BY <1>2, <1>3, <1>4 DEF IInv

-----------------------------------------------------------------------------
\* Steps of the broker.

\* An update the broker raises is true, and those on their way remain so: only
\* an order that has not ended moves, and no terminal status is out before.
LEMMA BrokerStep ==
    ASSUME TypeOK, UpdatesAreTrue, NEW st \in Live \cup Terminal, NEW ex \in 0..Quantity,
           OnOrderUpdate(st, ex), executed <= ex, state \notin Terminal
    PROVE  UpdatesAreTrue' /\ queue' \in Seq(Updates)
  <1> DEFINE S == Truthful(state, executed)
             T == Truthful(st, ex)
             u == [status |-> st, filled |-> ex]
  <1>1. T = Truthful(state', executed')
    BY DEF OnOrderUpdate
  <1>2. S \subseteq T
    BY DEF Truthful, Updates, TypeOK
  <1>3. u \in T
    BY DEF Truthful, Updates
  <1>4. T \subseteq Updates
    BY DEF Truthful
  <1> HIDE DEF S, T, u
  <1>5. Carried(T)
    <2>1. Carried(S)
      BY DEF UpdatesAreTrue, S
    <2>2. \A s \in Seq(S) : s \in Seq(T)
      BY <1>2, SeqMonotonic
    <2>3. QED
      BY <2>1, <2>2 DEF Carried
  <1>6. queue' \in Seq(T)
    <2>1. Append(queue, u) \in Seq(T)
      BY <1>3, <1>5, AppendProperties DEF Carried
    <2>2. QED
      BY <2>1, <1>5 DEF OnOrderUpdate, Carried, u
  <1>7. queue' \in Seq(T) /\ batch' \in Seq(T) /\ work' \in [Handlers -> Seq(T)]
    BY <1>5, <1>6 DEF OnOrderUpdate, Carried
  <1>8. queue' \in Seq(Updates)
    BY <1>4, <1>6, SeqMonotonic
  <1>9. QED
    BY <1>1, <1>7, <1>8 DEF UpdatesAreTrue, Carried

\* The broker reports an order that has not ended, never less than before.
LEMMA BrokerMoves ==
    ASSUME IInv, Broker
    PROVE  \E st \in Live \cup Terminal, ex \in 0..Quantity :
             OnOrderUpdate(st, ex) /\ executed <= ex /\ state \notin Terminal
  <1>1. CASE BrokerRejects
    <2>1. 0 \in 0..Quantity /\ executed <= 0
      BY <1>1, ConstantsAssumption DEF BrokerRejects, IInv, ClosedInv, PlacedIsUnexecuted
    <2>2. "rejected" \in Live \cup Terminal /\ state \notin Terminal
      BY <1>1 DEF BrokerRejects, Live, Terminal
    <2>3. QED
      BY <1>1, <2>1, <2>2 DEF BrokerRejects
  <1>2. CASE BrokerAccepts
    <2>1. 0 \in 0..Quantity /\ executed <= 0
      BY <1>2, ConstantsAssumption DEF BrokerAccepts, IInv, ClosedInv, PlacedIsUnexecuted
    <2>2. "working" \in Live \cup Terminal /\ state \notin Terminal
      BY <1>2 DEF BrokerAccepts, Live, Terminal
    <2>3. QED
      BY <1>2, <2>1, <2>2 DEF BrokerAccepts
  <1>3. CASE BrokerFills
    <2>1. PICK filled \in (executed + 1)..Quantity :
            OnOrderUpdate(IF filled = Quantity THEN "filled" ELSE "partially_filled", filled)
      BY <1>3 DEF BrokerFills
    <2>2. filled \in 0..Quantity /\ executed <= filled
      BY DEF IInv, TypeOK
    <2>3. state \notin Terminal
      BY <1>3 DEF BrokerFills, Live, Terminal
    <2>4. (IF filled = Quantity THEN "filled" ELSE "partially_filled") \in Live \cup Terminal
      BY DEF Live, Terminal
    <2> DEFINE st == IF filled = Quantity THEN "filled" ELSE "partially_filled"
    <2>5. st \in Live \cup Terminal /\ OnOrderUpdate(st, filled)
      BY <2>1, <2>4
    <2> HIDE DEF st
    <2>6. QED
      BY <2>2, <2>3, <2>5
  <1>4. CASE BrokerCancels
    BY <1>4 DEF BrokerCancels, IInv, TypeOK, Live, Terminal
  <1>5. QED
    BY <1>1, <1>2, <1>3, <1>4 DEF Broker

\* A step of the broker keeps the invariant.
LEMMA InvBroker == IInv /\ Broker => IInv'
  <1> SUFFICES ASSUME IInv, Broker PROVE IInv'
    OBVIOUS
  <1>1. PICK st \in Live \cup Terminal, ex \in 0..Quantity :
          OnOrderUpdate(st, ex) /\ executed <= ex /\ state \notin Terminal
    BY BrokerMoves
  <1>2. UpdatesAreTrue' /\ queue' \in Seq(Updates)
    BY <1>1, BrokerStep DEF IInv, ClosedInv
  <1>3. TypeOK'
    BY <1>1, <1>2 DEF IInv, TypeOK, OnOrderUpdate
  <1>4. LedgerInv'
    BY <1>1 DEF IInv, LedgerInv, NoFillLost, RowIsCovered, ReadsAreCovered, OnOrderUpdate
  <1>5. ClosedIsComplete' /\ PlacedIsUnexecuted'
    BY <1>1 DEF IInv, ClosedInv, ClosedIsComplete, PlacedIsUnexecuted, OnOrderUpdate, Live, Terminal
  <1>6. QED
    BY <1>2, <1>3, <1>4, <1>5 DEF IInv, ClosedInv

-----------------------------------------------------------------------------
\* Steps that leave the ledger alone.

\* What such a step changes: the updates on their way, what a request has read
\* (nothing, or the order row), and counters.
Quiet ==
    /\ UNCHANGED <<brokerVars, ledgerVars>>
    /\ managed' \in BOOLEAN /\ waiting' \subseteq Handlers
    /\ phase' \in [Handlers -> {"read", "write"}]
    /\ previous' \in [Handlers -> 0..Quantity]
    /\ \A h \in Handlers : previous'[h] \in {previous[h], 0, orderFilled}
    /\ faults' \in Nat /\ restarts' \in Nat

\* All steps are the broker's, a commit, or leave the ledger alone.
LEMMA StepKinds ==
    ASSUME TypeOK, [Next]_vars
    PROVE  \/ Broker
           \/ Quiet /\ (AddOn \/ Api \/ Failure \/ UNCHANGED vars)
           \/ \E h \in Handlers : WriteOrder(h)
  <1> USE DEF TypeOK
  <1>1. ASSUME NEW h \in Handlers, Flush(h) \/ FlushDone(h) PROVE Quiet
    BY <1>1 DEF Flush, FlushDone, Quiet
  <1>2. ASSUME NEW h \in Handlers, SkipDuplicate(h) PROVE Quiet
    BY <1>2, ConstantsAssumption DEF SkipDuplicate, NextUpdate, Quiet
  <1>3. ASSUME NEW h \in Handlers, ReadOrder(h) PROVE Quiet
    BY <1>3 DEF ReadOrder, Quiet
  <1>4. ASSUME NEW h \in Handlers, FlushOverdue(h) PROVE Quiet
    BY <1>4 DEF FlushOverdue, Requeue, Quiet
  <1>5. ASSUME NEW h \in Handlers, RequestFails(h) PROVE Quiet
    BY <1>5, ConstantsAssumption DEF RequestFails, Requeue, Quiet
  <1>6. ASSUME Restart PROVE Quiet
    <2>1. managed' \in BOOLEAN
      <3>1. managed' = FALSE
        BY <1>6 DEF Restart
      <3>2. QED
        BY <3>1
    <2>2. restarts' \in Nat
      BY <1>6 DEF Restart
    <2>3. UNCHANGED <<brokerVars, apiVars, ledgerVars, faults>> /\ waiting' = {}
      BY <1>6 DEF Restart
    <2>4. QED
      BY <2>1, <2>2, <2>3 DEF Quiet
  <1>7. ASSUME UNCHANGED vars PROVE Quiet
    BY <1>7 DEF Quiet
  <1>8. AddOn => Quiet
    BY <1>1 DEF AddOn
  <1>9. Api => Quiet \/ \E h \in Handlers : WriteOrder(h)
    BY <1>2, <1>3 DEF Api
  <1>10. Failure => Quiet
    BY <1>4, <1>5, <1>6 DEF Failure
  <1> HIDE DEF TypeOK
  <1>11. QED
    BY <1>7, <1>8, <1>9, <1>10 DEF Next

\* The updates on their way stay well typed and true when the broker rests.
LEMMA CarriedStays ==
    ASSUME TypeOK, UpdatesAreTrue, AddOn \/ Api \/ Failure \/ UNCHANGED vars,
           UNCHANGED brokerVars
    PROVE  UpdatesAreTrue' /\ Carried(Updates)'
  <1> DEFINE S == Truthful(state, executed)
  <1>1. state' = state /\ executed' = executed
    OBVIOUS
  <1>2. Carried(S) /\ Carried(Updates)
    BY DEF UpdatesAreTrue, TypeOK, Carried
  <1> HIDE DEF S
  <1>3. queue' \in Seq(S) /\ batch' \in Seq(S) /\ work' \in [Handlers -> Seq(S)]
    BY <1>2, NothingNewIsCarried
  <1>4. queue' \in Seq(Updates) /\ batch' \in Seq(Updates) /\ work' \in [Handlers -> Seq(Updates)]
    BY <1>2, NothingNewIsCarried
  <1>5. QED
    BY <1>1, <1>3, <1>4 DEF UpdatesAreTrue, Carried, Truthful, S

\* A step that leaves the ledger alone keeps the invariant.
LEMMA InvQuiet ==
    ASSUME IInv, Quiet, AddOn \/ Api \/ Failure \/ UNCHANGED vars
    PROVE  IInv'
  <1>1. UpdatesAreTrue' /\ Carried(Updates)'
    BY CarriedStays DEF IInv, ClosedInv, Quiet
  <1>2. TypeOK'
    BY <1>1 DEF IInv, TypeOK, Quiet, Carried
  <1>3. LedgerInv'
    <2>1. fills \in Nat /\ orderFilled \in Nat /\ UNCHANGED <<fills, orderFilled, recorded>>
      BY DEF IInv, TypeOK, Quiet
    <2>2. NoFillLost' /\ RowIsCovered'
      BY <2>1 DEF IInv, LedgerInv, NoFillLost, RowIsCovered
    <2>3. ReadsAreCovered'
      BY <2>1 DEF IInv, LedgerInv, RowIsCovered, ReadsAreCovered, Quiet
    <2>4. QED
      BY <2>2, <2>3 DEF LedgerInv
  <1>4. ClosedIsComplete' /\ PlacedIsUnexecuted'
    BY DEF IInv, ClosedInv, ClosedIsComplete, PlacedIsUnexecuted, Quiet
  <1>5. QED
    BY <1>1, <1>2, <1>3, <1>4 DEF IInv, ClosedInv

-----------------------------------------------------------------------------
\* The commit of recordBrokerUpdate.

\* After the commit the ledger covers the update, and is not behind what it
\* held before: the quantity the request has read was covered, and the ledger
\* gets the difference.
LEMMA CommitCovers ==
    ASSUME TypeOK, LedgerInv, NEW h \in Handlers, WriteOrder(h)
    PROVE  /\ fills' \in Nat /\ fills <= fills'
           /\ Head(work[h]).filled <= fills'
           /\ quantityOpen' \in 0..Quantity
  <1> DEFINE u == Head(work[h])
  <1>1. u \in Updates
    BY HeadTailProperties DEF WriteOrder, TypeOK
  <1>2. u.filled \in 0..Quantity /\ previous[h] \in 0..Quantity /\ fills \in Nat
    BY <1>1 DEF Updates, TypeOK
  <1>3. previous[h] <= fills
    BY DEF LedgerInv, ReadsAreCovered
  <1>4. CASE u \in recorded
    BY <1>2, <1>4 DEF WriteOrder, LedgerInv, NoFillLost, TypeOK
  <1>5. CASE u \notin recorded
    <2>1. PersistEntryFill(u, previous[h])
      BY <1>5 DEF WriteOrder
    <2> HIDE DEF u
    <2>2. QED
      BY <1>2, <1>3, <2>1, ConstantsAssumption DEF PersistEntryFill, TypeOK, u
  <1>6. QED
    BY <1>4, <1>5

\* The order row takes the update's status and quantity, unless it is closed.
LEMMA CommitTypes ==
    ASSUME TypeOK, LedgerInv, UpdatesAreTrue, NEW h \in Handlers, WriteOrder(h)
    PROVE  TypeOK' /\ UpdatesAreTrue'
  <1>1. UpdatesAreTrue' /\ Carried(Updates)'
    BY CarriedStays DEF Api, WriteOrder
  <1>2. Head(work[h]) \in Updates
    BY HeadTailProperties DEF WriteOrder, TypeOK
  <1>3. orderStatus' \in {"none"} \cup Live \cup Terminal /\ orderFilled' \in 0..Quantity
    BY <1>2 DEF WriteOrder, UpsertOrder, Updates, TypeOK
  <1>4. recorded' \subseteq Updates /\ intentStatus' \in {"sent", "acknowledged", "cancelled", "rejected"}
    BY <1>2 DEF WriteOrder, TypeOK
  <1>5. /\ phase' \in [Handlers -> {"read", "write"}]
        /\ previous' \in [Handlers -> 0..Quantity]
    BY ConstantsAssumption DEF WriteOrder, NextUpdate, TypeOK
  <1>6. UNCHANGED <<brokerVars, addonVars, countVars>>
    BY DEF WriteOrder
  <1>7. QED
    BY <1>1, <1>3, <1>4, <1>5, <1>6, CommitCovers DEF TypeOK, Carried

\* A commit keeps the invariant.
LEMMA InvWrite ==
    ASSUME IInv, NEW h \in Handlers, WriteOrder(h)
    PROVE  IInv'
  <1> DEFINE u == Head(work[h])
  <1>1. TypeOK' /\ UpdatesAreTrue'
    BY CommitTypes DEF IInv, ClosedInv
  <1>2. fills' \in Nat /\ fills \in Nat /\ fills <= fills' /\ u.filled <= fills'
    BY CommitCovers DEF IInv, TypeOK
  <1>3. u \in Truthful(state, executed)
    BY HeadTailProperties DEF WriteOrder, IInv, ClosedInv, UpdatesAreTrue, Carried
  <1> HIDE DEF u
  <1>4. NoFillLost'
    <2>1. recorded' = recorded \cup {u} /\ recorded \subseteq Updates
      BY DEF WriteOrder, IInv, TypeOK, u
    <2>2. \A v \in recorded : v.filled \in Nat /\ v.filled <= fills
      BY <2>1 DEF IInv, LedgerInv, NoFillLost, Updates
    <2>3. QED
      BY <1>2, <2>1, <2>2 DEF NoFillLost
  <1>5. RowIsCovered'
    <2>1. orderFilled' = orderFilled \/ orderFilled' = u.filled
      BY DEF WriteOrder, UpsertOrder, u
    <2>2. QED
      BY <1>2, <2>1 DEF IInv, TypeOK, LedgerInv, RowIsCovered
  <1>6. ReadsAreCovered'
    <2>1. \A g \in Handlers : previous'[g] = previous[g] \/ previous'[g] = 0
      BY DEF WriteOrder, NextUpdate, IInv, TypeOK
    <2>2. \A g \in Handlers : previous[g] \in Nat /\ previous[g] <= fills
      BY DEF IInv, TypeOK, LedgerInv, ReadsAreCovered
    <2>3. QED
      BY <1>2, <2>1, <2>2 DEF ReadsAreCovered
  <1>7. ClosedIsComplete' /\ PlacedIsUnexecuted'
    <2>1. UNCHANGED <<state, executed>> /\ executed \in Nat
      BY DEF WriteOrder, IInv, TypeOK
    <2>2. CASE orderStatus \in Terminal
      <3>1. orderStatus' = orderStatus
        BY <2>2 DEF WriteOrder, UpsertOrder
      <3>2. QED
        BY <1>2, <2>1, <2>2, <3>1 DEF IInv, ClosedInv, ClosedIsComplete, PlacedIsUnexecuted
    <2>3. CASE orderStatus \notin Terminal
      <3>1. orderStatus' = u.status
        BY <2>3 DEF WriteOrder, UpsertOrder, u
      <3>2. u.status \in Terminal => u.status = state /\ u.filled = executed
        BY <1>3 DEF Truthful
      <3>3. QED
        BY <1>2, <2>1, <3>1, <3>2 DEF IInv, ClosedInv, ClosedIsComplete, PlacedIsUnexecuted
    <2>4. QED
      BY <2>2, <2>3
  <1>8. QED
    BY <1>1, <1>4, <1>5, <1>6, <1>7 DEF IInv, LedgerInv, ClosedInv

-----------------------------------------------------------------------------
\* Every step keeps the invariant.
LEMMA InvStep == IInv /\ [Next]_vars => IInv'
  <1> SUFFICES ASSUME IInv, [Next]_vars PROVE IInv'
    OBVIOUS
  <1>1. TypeOK
    BY DEF IInv
  <1>2. QED
    BY <1>1, StepKinds, InvBroker, InvQuiet, InvWrite

\* The invariant holds in every reachable state.
LEMMA Invariant == Spec => []IInv
  BY InvInit, InvStep, PTL DEF Spec

\* Variables keep their types: the ledger never holds a negative number of
\* contracts, nor the order row or the trade more than were ordered.
THEOREM TypeCorrect == Spec => []TypeOK
  <1>1. IInv => TypeOK
    BY DEF IInv
  <1>2. QED
    BY <1>1, Invariant, PTL

\* No execution an update has reported is missing from trade_fills, however
\* the requests that record the updates overlap, repeat or overtake each other.
THEOREM NoFillLostHolds == Spec => []NoFillLost
  <1>1. IInv => NoFillLost
    BY DEF IInv, LedgerInv
  <1>2. QED
    BY <1>1, Invariant, PTL

\* A broker_orders row closes with the status the order ended with, and only
\* when all its executions are in trade_fills.
THEOREM ClosedIsCompleteHolds == Spec => []ClosedIsComplete
  <1>1. IInv => ClosedIsComplete
    BY DEF IInv, ClosedInv
  <1>2. QED
    BY <1>1, Invariant, PTL

-----------------------------------------------------------------------------
\* What the trade shows.

LEMMA OpenStep == IInv /\ OpenWasExecuted /\ [Next]_vars => OpenWasExecuted'
  <1> SUFFICES ASSUME IInv, OpenWasExecuted, [Next]_vars PROVE OpenWasExecuted'
    OBVIOUS
  <1>1. /\ TypeOK /\ LedgerInv /\ PlacedIsUnexecuted /\ UpdatesAreTrue
        /\ executed \in Nat /\ fills \in Nat /\ quantityOpen \in Nat /\ orderFilled \in Nat
    BY ConstantsAssumption DEF IInv, ClosedInv, TypeOK
  <1>2. CASE Broker
    <2>1. UNCHANGED ledgerVars /\ executed <= executed' /\ executed' \in Nat
      <3>1. PICK st \in Live \cup Terminal, ex \in 0..Quantity :
              OnOrderUpdate(st, ex) /\ executed <= ex
        BY <1>2, BrokerMoves
      <3>2. QED
        BY <3>1 DEF OnOrderUpdate
    <2>2. QED
      BY <1>1, <2>1 DEF OpenWasExecuted, ledgerVars
  <1>3. CASE Quiet
    BY <1>3 DEF Quiet, OpenWasExecuted, brokerVars, ledgerVars
  <1>4. ASSUME NEW h \in Handlers, WriteOrder(h) PROVE OpenWasExecuted'
    <2> DEFINE u == Head(work[h])
    <2>1. executed' = executed /\ fills' \in Nat /\ fills <= fills' /\ u.filled <= fills'
      BY <1>1, <1>4, CommitCovers DEF WriteOrder, brokerVars
    <2>2. u \in Truthful(state, executed)
      BY <1>1, <1>4, HeadTailProperties DEF WriteOrder, UpdatesAreTrue, Carried
    <2>3. u.filled \in Nat /\ u.filled <= executed
      BY <2>2 DEF Truthful, Updates
    <2>4. /\ orderFilled' \in {orderFilled, u.filled}
          /\ quantityOpen' \in {quantityOpen, u.filled}
      BY <1>4 DEF WriteOrder, UpsertOrder, PersistEntryFill
    <2> HIDE DEF u
    <2>5. QED
      BY <1>1, <2>1, <2>3, <2>4 DEF OpenWasExecuted
  <1>5. QED
    BY <1>1, <1>2, <1>3, <1>4, StepKinds

\* Whatever faults make trade_fills count twice, the trade's open quantity and the
\* order row's never exceed what the broker executed, nor the trade its fills.
THEOREM OpenWasExecutedHolds == Spec => []OpenWasExecuted
  <1>1. Init => OpenWasExecuted
    BY DEF Init, OpenWasExecuted
  <1>2. QED
    BY <1>1, OpenStep, Invariant, PTL DEF Spec

-----------------------------------------------------------------------------
\* Sequences in order.

\* What follows the head of an ordered sequence is ordered, not below it, and
\* empty after a terminal update; so is what the sequence comes before.
LEMMA TailInOrder ==
    ASSUME NEW s \in Seq(Updates), s # <<>>, Sorted(s), NEW t \in Seq(Updates), Before(s, t)
    PROVE  /\ Sorted(Tail(s)) /\ Before(Tail(s), t)
           /\ AtLeast(Head(s).filled, Tail(s)) /\ AtLeast(Head(s).filled, t)
           /\ Head(s).status \in Terminal => Tail(s) = <<>> /\ t = <<>>
  <1>1. /\ Len(s) \in Nat \ {0} /\ Len(t) \in Nat
        /\ Tail(s) \in Seq(Updates) /\ Len(Tail(s)) = Len(s) - 1
        /\ \A i \in 1..Len(Tail(s)) : Tail(s)[i] = s[i + 1]
        /\ Head(s) = s[1]
    BY HeadTailProperties, LenProperties, EmptySeq
  <1>2. Sorted(Tail(s)) /\ Before(Tail(s), t)
    BY <1>1 DEF Sorted, Before
  <1>3. AtLeast(Head(s).filled, Tail(s)) /\ AtLeast(Head(s).filled, t)
    BY <1>1 DEF Sorted, Before, AtLeast
  <1>4. ASSUME Head(s).status \in Terminal PROVE Tail(s) = <<>> /\ t = <<>>
    <2>1. Len(t) = 0
      BY <1>1, <1>4 DEF Before
    <2>2. Len(Tail(s)) = 0
      BY <1>1, <1>4 DEF Sorted
    <2>3. QED
      BY <1>1, <2>1, <2>2, EmptySeq
  <1>5. QED
    BY <1>2, <1>3, <1>4

\* The head of a sequence is no smaller than what bounds it, nor is its tail.
LEMMA TailAtLeast ==
    ASSUME NEW s \in Seq(Updates), s # <<>>, NEW n \in Nat, AtLeast(n, s)
    PROVE  n <= Head(s).filled /\ AtLeast(n, Tail(s))
  <1>1. /\ Len(s) \in Nat \ {0} /\ Len(Tail(s)) = Len(s) - 1
        /\ \A i \in 1..Len(Tail(s)) : Tail(s)[i] = s[i + 1]
        /\ Head(s) = s[1]
    BY HeadTailProperties, LenProperties, EmptySeq
  <1>2. QED
    BY <1>1 DEF AtLeast

\* Splitting an ordered queue gives a batch and a rest in order.
LEMMA SplitInOrder ==
    ASSUME NEW s \in Seq(Updates), NEW n \in Nat, n <= Len(s), NEW k \in Nat,
           Sorted(s), AtLeast(k, s)
    PROVE  LET b == SubSeq(s, 1, n)
               r == SubSeq(s, n + 1, Len(s))
           IN  /\ Sorted(b) /\ Sorted(r) /\ Before(b, r)
               /\ AtLeast(k, b) /\ AtLeast(k, r)
  <1> DEFINE b == SubSeq(s, 1, n)
             r == SubSeq(s, n + 1, Len(s))
  <1>1. Len(s) \in Nat /\ \A i \in 1..Len(s) : s[i] \in Updates
    BY ElementOfSeq, LenProperties
  <1>2. Len(b) = n /\ \A i \in 1..n : b[i] = s[i]
    <2>1. \A i \in 1..n : s[i] \in Updates
      BY <1>1
    <2>2. /\ Len(b) = IF 1 <= n THEN n - 1 + 1 ELSE 0
          /\ \A i \in 1..(n - 1 + 1) : b[i] = s[1 + i - 1]
      BY <2>1, SubSeqProperties
    <2> HIDE DEF b
    <2>3. QED
      BY <2>2
  <1>3. Len(r) = Len(s) - n /\ \A i \in 1..(Len(s) - n) : r[i] = s[n + i]
    <2>1. \A i \in (n + 1)..Len(s) : s[i] \in Updates
      BY <1>1
    <2>2. /\ Len(r) = IF n + 1 <= Len(s) THEN Len(s) - (n + 1) + 1 ELSE 0
          /\ \A i \in 1..(Len(s) - (n + 1) + 1) : r[i] = s[(n + 1) + i - 1]
      BY <1>1, <2>1, SubSeqProperties
    <2> HIDE DEF r
    <2>3. QED
      BY <1>1, <2>2
  <1> HIDE DEF b, r
  <1>4. Sorted(b) /\ AtLeast(k, b)
    BY <1>1, <1>2 DEF Sorted, AtLeast
  <1>r. \A i \in 1..Len(r) : n + i \in 1..Len(s) /\ r[i] = s[n + i]
    BY <1>1, <1>3
  <1>5. Sorted(r) /\ AtLeast(k, r)
    <2>1. SUFFICES ASSUME NEW i \in 1..Len(r)
                   PROVE  /\ k <= r[i].filled
                          /\ \A j \in 1..Len(r) : i < j =>
                               r[i].filled <= r[j].filled /\ r[i].status \notin Terminal
      BY DEF Sorted, AtLeast
    <2>2. k <= r[i].filled
      BY <1>r DEF AtLeast
    <2>3. ASSUME NEW j \in 1..Len(r), i < j
          PROVE  r[i].filled <= r[j].filled /\ r[i].status \notin Terminal
      <3>1. /\ n + i \in 1..Len(s) /\ n + j \in 1..Len(s) /\ n + i < n + j
            /\ r[i] = s[n + i] /\ r[j] = s[n + j]
        BY <1>3, <1>r, <2>3
      <3>2. QED
        BY <3>1 DEF Sorted
    <2>4. QED
      BY <2>2, <2>3
  <1>6. Before(b, r)
    <2>1. SUFFICES ASSUME NEW i \in 1..Len(b), NEW j \in 1..Len(r)
                   PROVE  b[i].filled <= r[j].filled /\ b[i].status \notin Terminal
      BY DEF Before
    <2>2. /\ i \in 1..Len(s) /\ n + j \in 1..Len(s) /\ i < n + j
          /\ b[i] = s[i] /\ r[j] = s[n + j]
      BY <1>1, <1>2, <1>3, <1>r
    <2>3. QED
      BY <2>2 DEF Sorted
  <1>7. QED
    BY <1>4, <1>5, <1>6 DEF b, r

\* A live order's updates, with one more from the broker, stay in order.
LEMMA AppendInOrder ==
    ASSUME NEW s \in Seq(Updates), NEW u \in Updates,
           \A i \in 1..Len(s) : s[i].filled <= u.filled /\ s[i].status \notin Terminal
    PROVE  /\ Sorted(s) => Sorted(Append(s, u))
           /\ \A n \in Nat : AtLeast(n, s) /\ n <= u.filled => AtLeast(n, Append(s, u))
           /\ \A w \in Seq(Updates) :
                /\ Before(w, s)
                /\ \A i \in 1..Len(w) : w[i].filled <= u.filled /\ w[i].status \notin Terminal
                => Before(w, Append(s, u))
  <1>1. /\ Len(s) \in Nat /\ Len(Append(s, u)) = Len(s) + 1
        /\ \A i \in 1..Len(s) : Append(s, u)[i] = s[i]
        /\ Append(s, u)[Len(s) + 1] = u
    BY AppendProperties, LenProperties
  <1>2. Sorted(s) => Sorted(Append(s, u))
    BY <1>1 DEF Sorted
  <1>3. \A n \in Nat : AtLeast(n, s) /\ n <= u.filled => AtLeast(n, Append(s, u))
    BY <1>1 DEF AtLeast
  <1>4. ASSUME NEW w \in Seq(Updates), Before(w, s),
               \A i \in 1..Len(w) : w[i].filled <= u.filled /\ w[i].status \notin Terminal
        PROVE  Before(w, Append(s, u))
    BY <1>1, <1>4 DEF Before
  <1>5. QED
    BY <1>2, <1>3, <1>4

-----------------------------------------------------------------------------
\* The line of updates, as long as nothing has failed.

\* It is empty and agrees with the empty ledger initially.
LEMMA LineInit == Init => LineInv
  <1> SUFFICES ASSUME Init PROVE LineInv
    OBVIOUS
  <1>1. Sorted(<<>>) /\ AtLeast(0, <<>>) /\ Before(<<>>, <<>>)
    BY EmptySeq DEF Sorted, AtLeast, Before
  <1>2. InOrderExact
    BY ConstantsAssumption DEF Init, InOrderExact
  <1>3. QED
    BY <1>1, <1>2 DEF Init, LineInv, OneRequest, UnmanagedIsSilent, PendingInOrder,
                      ClosedIsLast, ReadsAreFresh, Terminal

\* A true update of an order that has not ended reports at most what was
\* executed, and no end.
LEMMA LiveUpdates ==
    ASSUME NEW s \in Seq(Truthful(state, executed)), state \notin Terminal, NEW ex \in Nat,
           executed \in Nat, executed <= ex
    PROVE  /\ s \in Seq(Updates)
           /\ \A i \in 1..Len(s) : s[i].filled <= ex /\ s[i].status \notin Terminal
  <1>1. Truthful(state, executed) \subseteq Updates
    BY DEF Truthful
  <1>2. s \in Seq(Updates)
    BY <1>1, SeqMonotonic
  <1>3. ASSUME NEW i \in 1..Len(s) PROVE s[i].filled <= ex /\ s[i].status \notin Terminal
    <2>1. s[i] \in Truthful(state, executed)
      BY ElementOfSeq
    <2>2. QED
      BY <2>1 DEF Truthful, Updates
  <1>4. QED
    BY <1>2, <1>3

\* The broker's update takes its place at the end of the line.
LEMMA LineBroker ==
    ASSUME IInv, LineInv, faults = 0, Broker
    PROVE  LineInv'
  <1>1. PICK st \in Live \cup Terminal, ex \in 0..Quantity :
          OnOrderUpdate(st, ex) /\ executed <= ex /\ state \notin Terminal
    BY BrokerMoves
  <1> DEFINE u == [status |-> st, filled |-> ex]
  <1>2. u \in Updates /\ ex \in Nat /\ executed \in Nat /\ orderFilled \in Nat
    BY DEF Updates, IInv, TypeOK
  <1>3. orderFilled <= ex
    BY <1>1, <1>2 DEF LineInv, InOrderExact
  <1>4. UNCHANGED <<managed, batch, waiting, apiVars, ledgerVars, countVars>> /\ executed' = ex
    BY <1>1 DEF OnOrderUpdate
  <1>5. PendingInOrder'
    <2>1. CASE ~managed
      BY <1>1, <2>1 DEF OnOrderUpdate, LineInv, PendingInOrder, AtLeast, Before, Sorted
    <2>2. CASE managed
      <3>1. /\ queue \in Seq(Updates)
            /\ \A i \in 1..Len(queue) : queue[i].filled <= ex /\ queue[i].status \notin Terminal
        BY <1>1, <1>2, LiveUpdates DEF IInv, ClosedInv, UpdatesAreTrue, Carried
      <3>2. \A h \in Handlers :
              /\ work[h] \in Seq(Updates)
              /\ \A i \in 1..Len(work[h]) : work[h][i].filled <= ex /\ work[h][i].status \notin Terminal
        BY <1>1, <1>2, LiveUpdates DEF IInv, ClosedInv, UpdatesAreTrue, Carried
      <3>3. queue' = Append(queue, u)
        BY <1>1, <2>2 DEF OnOrderUpdate
      <3>4. u.filled = ex
        OBVIOUS
      <3> HIDE DEF u
      <3>5. Sorted(queue') /\ AtLeast(orderFilled, queue')
        BY <1>2, <1>3, <3>1, <3>3, <3>4, AppendInOrder DEF LineInv, PendingInOrder
      <3>6. \A h \in Handlers : Before(work[h], queue')
        BY <1>2, <3>1, <3>2, <3>3, <3>4, AppendInOrder DEF LineInv, PendingInOrder
      <3>7. QED
        BY <1>4, <3>5, <3>6 DEF LineInv, PendingInOrder, AtLeast
    <2>3. QED
      BY <2>1, <2>2 DEF IInv, TypeOK
  <1>6. OneRequest' /\ ReadsAreFresh'
    BY <1>4 DEF LineInv, OneRequest, ReadsAreFresh
  <1>7. UnmanagedIsSilent'
    BY <1>1 DEF OnOrderUpdate, LineInv, UnmanagedIsSilent
  <1>8. ClosedIsLast'
    BY <1>1, <1>4 DEF IInv, ClosedInv, ClosedIsComplete, ClosedIsLast
  <1>9. InOrderExact'
    BY <1>2, <1>3, <1>4 DEF LineInv, InOrderExact
  <1>10. QED
    BY <1>5, <1>6, <1>7, <1>8, <1>9 DEF LineInv

\* A smaller bound bounds as well.
LEMMA AtLeastMonotonic ==
    ASSUME NEW s \in Seq(Updates), NEW m \in Nat, NEW n \in Nat, n <= m, AtLeast(m, s)
    PROVE  AtLeast(n, s)
  <1>1. ASSUME NEW i \in 1..Len(s) PROVE s[i].filled \in Nat
    <2>1. s[i] \in Updates
      BY ElementOfSeq
    <2>2. QED
      BY <2>1, ConstantsAssumption DEF Updates
  <1>2. QED
    BY <1>1 DEF AtLeast

\* When the request has dealt with an update, the rest of the line is in order
\* and starts no lower; nothing comes after a terminal update.
LEMMA LineAdvances ==
    ASSUME TypeOK, LineInv, NEW h \in Handlers, work[h] # <<>>, NextUpdate(h),
           UNCHANGED addonVars, orderFilled' \in Nat, orderFilled' <= Head(work[h]).filled
    PROVE  /\ OneRequest' /\ UnmanagedIsSilent' /\ PendingInOrder'
           /\ \A g \in Handlers : phase'[g] = "read"
           /\ Head(work[h]).status \in Terminal =>
                queue' = <<>> /\ \A g \in Handlers : work'[g] = <<>>
  <1> DEFINE s == work[h]
             n == Head(s).filled
  <1>1. s \in Seq(Updates) /\ queue \in Seq(Updates) /\ s # <<>>
    BY DEF TypeOK
  <1>2. Sorted(s) /\ Before(s, queue)
    BY DEF LineInv, PendingInOrder
  <1>3. n \in Nat /\ Tail(s) \in Seq(Updates)
    <2>1. Head(s) \in Updates /\ Tail(s) \in Seq(Updates)
      BY <1>1, HeadTailProperties
    <2>2. QED
      BY <2>1, ConstantsAssumption DEF Updates
  <1>4. \A g \in Handlers : g # h => work[g] = <<>>
    BY DEF LineInv, OneRequest
  <1>5. work' = [work EXCEPT ![h] = Tail(s)] /\ work \in [Handlers -> Seq(Updates)]
    BY DEF NextUpdate, TypeOK
  <1> HIDE DEF s
  <1>6. /\ Sorted(Tail(s)) /\ Before(Tail(s), queue)
        /\ AtLeast(n, Tail(s)) /\ AtLeast(n, queue)
        /\ Head(s).status \in Terminal => Tail(s) = <<>> /\ queue = <<>>
    BY <1>1, <1>2, TailInOrder
  <1> HIDE DEF n
  <1>n. orderFilled' <= n
    BY DEF n, s
  <1>7. AtLeast(orderFilled', Tail(s)) /\ AtLeast(orderFilled', queue)
    BY <1>1, <1>3, <1>6, <1>n, AtLeastMonotonic
  <1>8. /\ Sorted(<<>>) /\ AtLeast(orderFilled', <<>>) /\ Before(<<>>, queue)
    BY EmptySeq DEF Sorted, AtLeast, Before
  <1>9. PendingInOrder'
    <2>1. \A g \in Handlers :
            Sorted(work'[g]) /\ AtLeast(orderFilled', work'[g]) /\ Before(work'[g], queue)
      BY <1>4, <1>5, <1>6, <1>7, <1>8
    <2>2. Sorted(queue) /\ queue' = queue
      BY DEF LineInv, PendingInOrder
    <2>3. QED
      BY <1>7, <2>1, <2>2 DEF PendingInOrder, AtLeast
  <1>10. OneRequest'
    <2>1. \A g \in Handlers : work'[g] # <<>> => g = h
      BY <1>4, <1>5
    <2>2. waiting = {h} \/ ~managed
      BY DEF LineInv, OneRequest
    <2>3. UNCHANGED <<waiting, managed>>
      OBVIOUS
    <2>4. QED
      BY <2>1, <2>2, <2>3 DEF OneRequest
  <1>11. UnmanagedIsSilent'
    BY DEF LineInv, UnmanagedIsSilent
  <1>12. \A g \in Handlers : phase'[g] = "read"
    <2>1. \A g \in Handlers : g # h => phase[g] = "read"
      BY <1>4 DEF LineInv, ReadsAreFresh, TypeOK
    <2>2. QED
      BY <2>1 DEF NextUpdate, TypeOK
  <1>13. Head(s).status \in Terminal => queue' = <<>> /\ \A g \in Handlers : work'[g] = <<>>
    BY <1>4, <1>5, <1>6
  <1>14. QED
    BY <1>9, <1>10, <1>11, <1>12, <1>13 DEF s

\* A duplicate is dropped from the line.
LEMMA LineSkip ==
    ASSUME IInv, LineInv, faults = 0, NEW h \in Handlers, SkipDuplicate(h)
    PROVE  LineInv'
  <1>1. work[h] # <<>> /\ NextUpdate(h) /\ UNCHANGED <<brokerVars, addonVars, ledgerVars, countVars>>
    BY DEF SkipDuplicate
  <1>2. orderFilled' \in Nat /\ orderFilled' <= Head(work[h]).filled
    <2>1. orderFilled \in Nat /\ work[h] \in Seq(Updates) /\ AtLeast(orderFilled, work[h])
      BY DEF IInv, TypeOK, LineInv, PendingInOrder
    <2>2. QED
      BY <1>1, <2>1, TailAtLeast
  <1>3. /\ OneRequest' /\ UnmanagedIsSilent' /\ PendingInOrder'
        /\ \A g \in Handlers : phase'[g] = "read"
    BY <1>1, <1>2, LineAdvances DEF IInv
  <1>4. ClosedIsLast'
    <2>1. orderStatus \notin Terminal
      BY <1>1 DEF LineInv, ClosedIsLast
    <2>2. QED
      BY <1>1, <2>1 DEF ClosedIsLast
  <1>5. ReadsAreFresh'
    BY <1>3 DEF ReadsAreFresh
  <1>6. InOrderExact'
    BY <1>1 DEF LineInv, InOrderExact
  <1>7. QED
    BY <1>3, <1>4, <1>5, <1>6 DEF LineInv

\* The head of the line is recorded: what was read is still the order's
\* quantity, so that the difference is what the ledger lacks.
LEMMA LineWrite ==
    ASSUME IInv, LineInv, faults = 0, NEW h \in Handlers, WriteOrder(h)
    PROVE  LineInv'
  <1> DEFINE u == Head(work[h])
  <1>1. work[h] # <<>> /\ NextUpdate(h) /\ UNCHANGED <<brokerVars, addonVars, countVars>>
    BY DEF WriteOrder
  <1>2. orderStatus \notin Terminal
    BY <1>1 DEF LineInv, ClosedIsLast
  <1>3. orderStatus' = u.status /\ orderFilled' = u.filled
    BY <1>2 DEF WriteOrder, UpsertOrder
  <1>4. u \in Updates /\ u.filled \in Nat /\ u.filled <= executed
    <2>1. u \in Truthful(state, executed)
      BY <1>1, HeadTailProperties DEF IInv, ClosedInv, UpdatesAreTrue, Carried
    <2>2. QED
      BY <2>1 DEF Truthful, Updates
  <1>5. orderFilled \in Nat /\ orderFilled <= u.filled
    <2>1. orderFilled \in Nat /\ work[h] \in Seq(Updates) /\ AtLeast(orderFilled, work[h])
      BY DEF IInv, TypeOK, LineInv, PendingInOrder
    <2>2. QED
      BY <1>1, <2>1, TailAtLeast
  <1>6. /\ OneRequest' /\ UnmanagedIsSilent' /\ PendingInOrder'
        /\ \A g \in Handlers : phase'[g] = "read"
        /\ u.status \in Terminal => queue' = <<>> /\ \A g \in Handlers : work'[g] = <<>>
    <2>1. orderFilled' \in Nat /\ orderFilled' <= u.filled
      BY <1>3, <1>4
    <2>2. QED
      BY <1>1, <2>1, LineAdvances DEF IInv
  <1>7. previous[h] = orderFilled /\ u \notin recorded
    BY DEF WriteOrder, LineInv, ReadsAreFresh
  <1>8. PersistEntryFill(u, orderFilled)
    BY <1>7 DEF WriteOrder
  <1>9. intentStatus' = IF u.status \in {"cancelled", "rejected"} THEN u.status ELSE "acknowledged"
    BY DEF WriteOrder
  <1> HIDE DEF u
  <1>10. ClosedIsLast'
    BY <1>3, <1>6 DEF ClosedIsLast
  <1>11. ReadsAreFresh'
    BY <1>6 DEF ReadsAreFresh
  <1>12. InOrderExact'
    <2>1. fills = orderFilled /\ quantityOpen = orderFilled
      BY DEF LineInv, InOrderExact
    <2>2. fills' = u.filled /\ quantityOpen' = u.filled
      BY <1>4, <1>5, <1>8, <2>1 DEF PersistEntryFill
    <2>3. u.status # "none"
      BY <1>4 DEF Updates, Live, Terminal
    <2>4. intentStatus' = CASE orderStatus' = "none" -> "sent"
                            [] orderStatus' \in {"cancelled", "rejected"} -> orderStatus'
                            [] OTHER -> "acknowledged"
      BY <1>3, <1>9, <2>3
    <2>5. QED
      BY <1>1, <1>3, <1>4, <2>2, <2>4 DEF InOrderExact
  <1>13. QED
    BY <1>6, <1>10, <1>11, <1>12 DEF LineInv

\* Nobody is being served when a batch is posted: it becomes the line's head.
LEMMA LineFlush ==
    ASSUME IInv, LineInv, faults = 0, NEW h \in Handlers, Flush(h)
    PROVE  LineInv'
  <1> DEFINE n == IF Len(queue) < BatchLimit THEN Len(queue) ELSE BatchLimit
             b == SubSeq(queue, 1, n)
             r == SubSeq(queue, n + 1, Len(queue))
  <1>1. /\ waiting = {} /\ queue # <<>> /\ waiting' = {h} /\ queue' = r
        /\ work' = [work EXCEPT ![h] = b]
        /\ UNCHANGED <<brokerVars, managed, phase, previous, ledgerVars, countVars>>
    BY DEF Flush
  <1>2. \A g \in Handlers : work[g] = <<>>
    BY <1>1 DEF LineInv, OneRequest, UnmanagedIsSilent
  <1>3. queue \in Seq(Updates) /\ orderFilled \in Nat /\ n \in Nat /\ n <= Len(queue)
    BY LenProperties, ConstantsAssumption DEF IInv, TypeOK
  <1> HIDE DEF n
  <1>4. /\ Sorted(b) /\ Sorted(r) /\ Before(b, r)
        /\ AtLeast(orderFilled, b) /\ AtLeast(orderFilled, r)
    BY <1>3, SplitInOrder DEF LineInv, PendingInOrder
  <1> HIDE DEF b, r
  <1>5. \A g \in Handlers : work'[g] = IF g = h THEN b ELSE <<>>
    BY <1>1, <1>2 DEF IInv, TypeOK
  <1>6. Sorted(<<>>) /\ AtLeast(orderFilled, <<>>) /\ Before(<<>>, r)
    BY EmptySeq DEF Sorted, AtLeast, Before
  <1>7. PendingInOrder'
    <2>1. \A g \in Handlers :
            Sorted(work'[g]) /\ AtLeast(orderFilled, work'[g]) /\ Before(work'[g], r)
      BY <1>4, <1>5, <1>6
    <2>2. orderFilled' = orderFilled /\ queue' = r
      BY <1>1
    <2>3. QED
      BY <1>4, <2>1, <2>2 DEF PendingInOrder, AtLeast
  <1>8. OneRequest'
    BY <1>1, <1>5 DEF OneRequest
  <1>9. UnmanagedIsSilent' /\ ClosedIsLast'
    BY <1>1 DEF LineInv, UnmanagedIsSilent, ClosedIsLast
  <1>10. ReadsAreFresh'
    <2>1. \A g \in Handlers : phase'[g] # "write"
      BY <1>1, <1>2 DEF LineInv, ReadsAreFresh
    <2>2. QED
      BY <2>1 DEF ReadsAreFresh
  <1>11. InOrderExact'
    BY <1>1 DEF LineInv, InOrderExact
  <1>12. QED
    BY <1>7, <1>8, <1>9, <1>10, <1>11 DEF LineInv

\* A response, a read and a restart leave the line as it is, or cut it short.
LEMMA LineRests ==
    ASSUME IInv, LineInv, faults = 0,
           Restart \/ UNCHANGED vars \/ \E h \in Handlers : FlushDone(h) \/ ReadOrder(h)
    PROVE  LineInv'
  <1>1. ASSUME NEW h \in Handlers, FlushDone(h) PROVE LineInv'
    <2>1. OneRequest'
      BY <1>1 DEF FlushDone, LineInv, OneRequest
    <2>2. UNCHANGED <<brokerVars, managed, queue, apiVars, ledgerVars, countVars>>
      BY <1>1 DEF FlushDone
    <2>3. QED
      BY <2>1, <2>2 DEF LineInv, UnmanagedIsSilent, PendingInOrder, AtLeast, ClosedIsLast,
                        ReadsAreFresh, InOrderExact
  <1>2. ASSUME NEW h \in Handlers, ReadOrder(h) PROVE LineInv'
    <2>1. ReadsAreFresh'
      BY <1>2 DEF ReadOrder, LineInv, ReadsAreFresh, IInv, TypeOK
    <2>2. UNCHANGED <<brokerVars, addonVars, work, ledgerVars, countVars>>
      BY <1>2 DEF ReadOrder
    <2>3. QED
      BY <2>1, <2>2 DEF LineInv, OneRequest, UnmanagedIsSilent, PendingInOrder, AtLeast,
                        ClosedIsLast, InOrderExact
  <1>3. CASE Restart
    <2>1. ~managed' /\ queue' = <<>> /\ UNCHANGED <<brokerVars, apiVars, ledgerVars, faults>>
      BY <1>3 DEF Restart
    <2>2. /\ Sorted(<<>>) /\ AtLeast(orderFilled, <<>>)
          /\ \A h \in Handlers : Before(work[h], <<>>)
      BY EmptySeq DEF Sorted, AtLeast, Before
    <2>3. PendingInOrder'
      BY <2>1, <2>2 DEF LineInv, PendingInOrder, AtLeast
    <2>4. OneRequest' /\ UnmanagedIsSilent' /\ ClosedIsLast'
      BY <2>1 DEF LineInv, OneRequest, UnmanagedIsSilent, ClosedIsLast
    <2>5. ReadsAreFresh' /\ InOrderExact'
      BY <2>1 DEF LineInv, ReadsAreFresh, InOrderExact
    <2>6. QED
      BY <2>3, <2>4, <2>5 DEF LineInv
  <1>4. CASE UNCHANGED vars
    BY <1>4 DEF LineInv, OneRequest, UnmanagedIsSilent, PendingInOrder, AtLeast, ClosedIsLast,
                ReadsAreFresh, InOrderExact
  <1>5. QED
    BY <1>1, <1>2, <1>3, <1>4

\* The line survives every step without a fault; a fault ends the obligation.
LEMMA LineStep == IInv /\ InOrderInv /\ [Next]_vars => InOrderInv'
  <1> SUFFICES ASSUME IInv, InOrderInv, [Next]_vars, faults' = 0
               PROVE  LineInv'
    BY DEF InOrderInv
  <1>1. faults \in Nat
    BY DEF IInv, TypeOK
  <1>2. ASSUME NEW h \in Handlers, FlushOverdue(h) \/ RequestFails(h) PROVE FALSE
    BY <1>1, <1>2 DEF FlushOverdue, RequestFails
  <1>3. faults = 0
    <2>1. Broker => faults' = faults
      BY DEF Broker, BrokerAccepts, BrokerRejects, BrokerFills, BrokerCancels, OnOrderUpdate
    <2>2. AddOn => faults' = faults
      BY DEF AddOn, Flush, FlushDone
    <2>3. Api => faults' = faults
      BY DEF Api, SkipDuplicate, ReadOrder, WriteOrder
    <2>4. Failure => faults' = faults
      BY <1>2 DEF Failure, Restart
    <2>5. QED
      BY <2>1, <2>2, <2>3, <2>4 DEF Next
  <1>4. LineInv
    BY <1>3 DEF InOrderInv
  <1>5. Broker => LineInv'
    BY <1>3, <1>4, LineBroker
  <1>6. AddOn => LineInv'
    BY <1>3, <1>4, LineFlush, LineRests DEF AddOn
  <1>7. Api => LineInv'
    BY <1>3, <1>4, LineSkip, LineRests, LineWrite DEF Api
  <1>8. Failure => LineInv'
    BY <1>2, <1>3, <1>4, LineRests DEF Failure
  <1>9. UNCHANGED vars => LineInv'
    BY <1>3, <1>4, LineRests
  <1>10. QED
    BY <1>5, <1>6, <1>7, <1>8, <1>9 DEF Next

\* As long as no request fails or is overdue, trade_fills, the trade and the
\* order row agree on what was executed, and the intent with the row.
THEOREM InOrderExactHolds == Spec => []InOrderExact
  <1>1. Init => InOrderInv
    BY LineInit DEF InOrderInv
  <1>2. InOrderInv => InOrderExact
    BY DEF InOrderInv, LineInv, InOrderExact
  <1>3. QED
    BY <1>1, <1>2, Invariant, LineStep, PTL DEF Spec
=============================================================================

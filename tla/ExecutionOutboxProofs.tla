----------------------- MODULE ExecutionOutboxProofs -----------------------
(***************************************************************************)
(* Theorems about ExecutionOutbox, for any set of intents and handlers and *)
(* any bounds.  The inductive invariant says, of every copy of a command   *)
(* (held, journal, events, posts, placed), which lease it comes from and   *)
(* whether the broker has its order, and ties a lease to its outbox row    *)
(* and the row to its approval.                                            *)
(***************************************************************************)
EXTENDS ExecutionOutbox, FiniteSetTheorems, SequenceTheorems, TLAPS

\* A row follows an approval, a lease a row, and a command a lease.
RowsAreApproved == \A i \in Intents : outbox[i] # "none" => <<i, "approved">> \in approvals
LeasesHaveRows == \A i \in Intents : attempts[i] # 0 => outbox[i] # "none"
CommandsAreLeased == \A c \in held \cup placed : c[2] <= attempts[c[1]]

\* What the AddOn remembers or reports as done is at the broker.
OneHeld == \A c, d \in held : c = d
MarkedIsPlaced == addonPc = "marking" => held \subseteq placed
JournalIsPlaced == journal \subseteq placed
DeliveredIsPlaced == \A m \in posts : m.status = "delivered" => m.cmd \in placed
RowDoneIsDelivered == \A m \in posts : m.phase = "row_done" => m.status = "delivered"
EventsArePlaced ==
    \A e \in events : e.cmd \in placed /\ (e.status = "filled" => e.cmd \in filled)

\* What the desk recorded is at the broker, and closes the row.
AckedIsPlaced == \A i \in acked : Orders(i) # {}
AckedIsClosed == \A i \in acked : outbox[i] \notin {"none", "pending", "leased"}

Chain == RowsAreApproved /\ LeasesHaveRows /\ CommandsAreLeased
Done == OneHeld /\ MarkedIsPlaced /\ JournalIsPlaced /\ DeliveredIsPlaced /\ RowDoneIsDelivered /\ EventsArePlaced
Acks == AckedIsPlaced /\ AckedIsClosed

IInv == TypeOK /\ Chain /\ Done /\ Acks /\ NoPhantomOrder

USE DEF vars, deskVars, clockVars, lockVars, addonVars, brokerVars, countVars

-----------------------------------------------------------------------------
\* The records a claim request goes through are claims.
LEMMA ClaimShapes ==
    /\ [pc |-> "idle"] \in Claims /\ [pc |-> "peek"] \in Claims
    /\ \A i \in Intents : \A p \in {"check", "lease"} : [pc |-> p, intent |-> i] \in Claims
    /\ \A c \in Claims : c.pc \in {"check", "lease"} => c.intent \in Intents
  BY DEF Claims

\* The desk starts well typed.
LEMMA TypeInit == Init => TypeOK
  <1> SUFFICES ASSUME Init PROVE TypeOK
    OBVIOUS
  <1>1. queue \in Seq(Intents)
    BY DEF Init
  <1>2. claim \in [Handlers -> Claims]
    BY ClaimShapes DEF Init
  <1>3. QED
    BY <1>1, <1>2 DEF Init, TypeOK, IntentStatus, OutboxStatus

\* A claim answered without a command keeps the types.
LEMMA ReplyTypes ==
    ASSUME TypeOK, NEW h \in Handlers, ReplyEmpty(h)
    PROVE  TypeOK'
  BY ClaimShapes DEF TypeOK, ReplyEmpty

\* So does a claim that goes on to its next read.
LEMMA ProceedTypes ==
    ASSUME TypeOK, NEW h \in Handlers, NEW i \in Intents, NEW p \in {"check", "lease"},
           Proceed(h, p, i)
    PROVE  TypeOK'
  BY ClaimShapes DEF TypeOK, Proceed

\* Every step keeps the types.
LEMMA TypeStep == TypeOK /\ [Next]_vars => TypeOK'
  <1> SUFFICES ASSUME TypeOK, [Next]_vars PROVE TypeOK'
    OBVIOUS
  <1> USE DEF TypeOK
  <1>1. CASE SetExecutionLock
    BY <1>1 DEF SetExecutionLock
  <1>2. ASSUME NEW i \in Intents, EvaluateDecision(i) PROVE TypeOK'
    BY <1>2 DEF EvaluateDecision, IntentStatus
  <1>3. ASSUME NEW i \in Intents, ApproveIntent(i) PROVE TypeOK'
    <2>1. queue' \in Seq(Intents)
      <3>1. Append(queue, i) \in Seq(Intents)
        BY AppendProperties
      <3>2. queue' = queue \/ queue' = Append(queue, i)
        BY <1>3 DEF ApproveIntent
      <3>3. QED
        BY <3>1, <3>2
    <2>2. outbox' \in [Intents -> OutboxStatus]
      BY <1>3 DEF ApproveIntent, OutboxStatus
    <2>3. intent' \in [Intents -> IntentStatus] /\ approvals' \subseteq Intents \X {"approved", "rejected"}
      BY <1>3 DEF ApproveIntent, IntentStatus
    <2>4. UNCHANGED <<attempts, leaseLive, acked, trades, seenFlat, clockVars, lockVars,
                      addonVars, brokerVars, countVars, rejecting, claim, posts>>
      BY <1>3 DEF ApproveIntent
    <2>5. QED
      BY <2>1, <2>2, <2>3, <2>4
  <1>4. ASSUME NEW i \in Intents, RejectIntent(i) PROVE TypeOK'
    BY <1>4 DEF RejectIntent
  <1>5. ASSUME NEW i \in Intents, RejectIntentRow(i) PROVE TypeOK'
    BY <1>5 DEF RejectIntentRow, IntentStatus
  <1>6. ASSUME NEW i \in Intents, RejectOutboxRow(i) PROVE TypeOK'
    BY <1>6 DEF RejectOutboxRow, OutboxStatus
  <1>7. ASSUME NEW i \in Intents, RejectInterrupted(i) PROVE TypeOK'
    BY <1>7 DEF RejectInterrupted, Fault
  <1>8. ASSUME NEW i \in Intents, IntentExpires(i) PROVE TypeOK'
    BY <1>8 DEF IntentExpires
  <1>9. ASSUME NEW i \in Intents, DecisionExpires(i) PROVE TypeOK'
    BY <1>9 DEF DecisionExpires
  <1>10. ASSUME NEW i \in Intents, LeaseExpires(i) PROVE TypeOK'
    BY <1>10 DEF LeaseExpires, Fault, InExchange
  <1>11. ASSUME NEW h \in Handlers, PeekOutbox(h) PROVE TypeOK'
    <2>1. CASE ReplyEmpty(h)
      BY <2>1, ReplyTypes
    <2>2. ASSUME NEW k \in DOMAIN queue, Proceed(h, "check", queue[k]) PROVE TypeOK'
      <3>1. queue[k] \in Intents
        BY <2>2
      <3>2. QED
        BY <2>2, <3>1, ProceedTypes
    <2>3. QED
      BY <1>11, <2>1, <2>2 DEF PeekOutbox
  <1>12. ASSUME NEW h \in Handlers, RecheckRisk(h) PROVE TypeOK'
    <2>1. claim[h].intent \in Intents
      BY <1>12, ClaimShapes DEF RecheckRisk
    <2>2. QED
      BY <1>12, <2>1, ReplyTypes, ProceedTypes DEF RecheckRisk
  <1>13. ASSUME NEW h \in Handlers, LeaseOutbox(h) PROVE TypeOK'
    <2> DEFINE i == claim[h].intent
    <2>1. i \in Intents
      BY <1>13, ClaimShapes DEF LeaseOutbox
    <2>2. CASE ~Leasable(i)
      BY <1>13, <2>2, ReplyTypes DEF LeaseOutbox
    <2>3. CASE Leasable(i)
      <3>1. claim' \in [Handlers -> Claims]
        <4>1. claim' = [claim EXCEPT ![h] = [pc |-> "idle"]]
          BY <1>13, <2>3 DEF LeaseOutbox
        <4>2. QED
          BY <4>1, ClaimShapes
      <3>2. outbox' = [outbox EXCEPT ![i] = "leased"] /\ "leased" \in OutboxStatus
        BY <1>13, <2>3 DEF LeaseOutbox, OutboxStatus
      <3>3. attempts' = [attempts EXCEPT ![i] = @ + 1] /\ attempts[i] \in Nat
        BY <1>13, <2>1, <2>3 DEF LeaseOutbox
      <3>4. leaseLive' = [leaseLive EXCEPT ![i] = TRUE]
        BY <1>13, <2>3 DEF LeaseOutbox
      <3>5. /\ addonPc' \in {"flush", "ready", "polling", "holding", "marking", "completing"}
            /\ held' \subseteq Commands
            /\ waiting' \subseteq Handlers
        BY <1>13, <2>1, <2>3, <3>3 DEF LeaseOutbox, Commands
      <3>6. UNCHANGED <<intent, approvals, queue, acked, trades, seenFlat, clockVars, lockVars,
                        journal, managed, events, brokerVars, countVars, rejecting, posts>>
        BY <1>13, <2>3 DEF LeaseOutbox
      <3>7. outbox' \in [Intents -> OutboxStatus]
        BY <3>2
      <3>8. attempts' \in [Intents -> Nat]
        BY <2>1, <3>3
      <3>9. leaseLive' \in [Intents -> BOOLEAN]
        BY <3>4
      <3>10. QED
        BY <3>1, <3>5, <3>6, <3>7, <3>8, <3>9
    <2>4. QED
      BY <2>2, <2>3
  <1>14. ASSUME NEW m \in posts, CompleteRow(m) PROVE TypeOK'
    <2>1. m.cmd[1] \in Intents /\ m.status \in OutboxStatus
      BY <1>14 DEF Completions, Commands, OutboxStatus
    <2>2. outbox' \in [Intents -> OutboxStatus] /\ leaseLive' \in [Intents -> BOOLEAN]
      BY <1>14, <2>1 DEF CompleteRow
    <2>3. [m EXCEPT !.phase = "row_done"] \in Completions
      BY <1>14 DEF Completions
    <2>4. posts' \subseteq Completions
      BY <1>14, <2>3 DEF CompleteRow
    <2>5. addonPc' \in {"flush", "ready", "polling", "holding", "marking", "completing"} /\ held' \subseteq Commands
      BY <1>14 DEF CompleteRow, Replied
    <2>6. UNCHANGED <<intent, approvals, attempts, queue, acked, trades, seenFlat, clockVars, lockVars,
                      waiting, journal, managed, events, brokerVars, countVars, rejecting, claim>>
      BY <1>14 DEF CompleteRow
    <2>7. QED
      BY <2>2, <2>4, <2>5, <2>6
  <1>15. ASSUME NEW m \in posts, CompleteIntent(m) PROVE TypeOK'
    BY <1>15 DEF CompleteIntent, Replied, Completions, IntentStatus
  <1>16. CASE AddonSnapshot
    BY <1>16 DEF AddonSnapshot
  <1>17. CASE FlushDone
    BY <1>17 DEF FlushDone
  <1>18. ASSUME NEW e \in events, FlushEvent(e) PROVE TypeOK'
    <2>1. e.cmd[1] \in Intents
      BY <1>18 DEF OrderUpdates, Commands
    <2>2. intent' \in [Intents -> IntentStatus]
      BY <1>18, <2>1 DEF FlushEvent, IntentStatus
    <2>3. outbox' \in [Intents -> OutboxStatus]
      <3>1. outbox[e.cmd[1]] \in OutboxStatus /\ "acknowledged" \in OutboxStatus
        BY <2>1 DEF OutboxStatus
      <3>2. \/ outbox' = outbox
            \/ outbox' = [outbox EXCEPT ![e.cmd[1]] = "acknowledged"]
            \/ outbox' = [outbox EXCEPT ![e.cmd[1]] = outbox[e.cmd[1]]]
        BY <1>18 DEF FlushEvent
      <3>3. QED
        BY <3>1, <3>2
    <2>4. acked' \subseteq Intents /\ trades' \subseteq Intents
      BY <1>18, <2>1 DEF FlushEvent
    <2>5. QED
      BY <1>18, <2>2, <2>3, <2>4 DEF FlushEvent
  <1>19. ASSUME NEW h \in Handlers, AddonPoll(h) PROVE TypeOK'
    BY <1>19 DEF AddonPoll, Claims
  <1>20. ASSUME NEW c \in held, PlaceEntry(c) PROVE TypeOK'
    BY <1>20 DEF PlaceEntry, Complete, Completions, OrderUpdates
  <1>21. ASSUME NEW c \in held, ExecuteFails(c) PROVE TypeOK'
    BY <1>21 DEF ExecuteFails, Complete, Completions
  <1>22. ASSUME NEW c \in held, MarkCommandProcessed(c) PROVE TypeOK'
    BY <1>22 DEF MarkCommandProcessed, Complete, Completions
  <1>23. CASE AddonTimeout
    BY <1>23 DEF AddonTimeout, Fault
  <1>24. CASE Restart
    BY <1>24 DEF Restart
  <1>25. ASSUME NEW c \in held, JournalFails(c) PROVE TypeOK'
    BY <1>25 DEF JournalFails, Fault, Complete, Completions
  <1>26. ASSUME NEW m \in posts, LosePost(m) PROVE TypeOK'
    BY <1>26 DEF LosePost, Fault, Replied
  <1>27. ASSUME NEW c \in placed, BrokerFills(c) PROVE TypeOK'
    BY <1>27 DEF BrokerFills, Notify, OrderUpdates
  <1>28. ASSUME NEW c \in placed, BrokerRefuses(c) PROVE TypeOK'
    BY <1>28 DEF BrokerRefuses, Notify, OrderUpdates
  <1>29. CASE UNCHANGED vars
    BY <1>29
  <1> QED
    BY <1>1, <1>2, <1>3, <1>4, <1>5, <1>6, <1>7, <1>8, <1>9, <1>10, <1>11, <1>12, <1>13, <1>14, <1>15, <1>16, <1>17, <1>18, <1>19, <1>20, <1>21, <1>22, <1>23, <1>24, <1>25, <1>26, <1>27, <1>28, <1>29
    DEF Next, Operator, Clock, Api, AddOn, Failure, Broker

-----------------------------------------------------------------------------
\* The invariant.

USE DEF IInv, Chain, Done, Acks, RowsAreApproved, LeasesHaveRows, CommandsAreLeased,
        OneHeld, MarkedIsPlaced, JournalIsPlaced, DeliveredIsPlaced, RowDoneIsDelivered, EventsArePlaced,
        AckedIsPlaced, AckedIsClosed, NoPhantomOrder, Orders

\* The inductive invariant holds at first.
LEMMA InvInit == Init => IInv
  BY TypeInit DEF Init

\* Every step preserves the inductive invariant.
LEMMA InvStep == IInv /\ [Next]_vars => IInv'
  <1> SUFFICES ASSUME IInv, [Next]_vars PROVE IInv'
    OBVIOUS
  <1>0. TypeOK /\ TypeOK'
    BY TypeStep
  <1>1. CASE SetExecutionLock
    BY <1>0, <1>1 DEF SetExecutionLock, TypeOK
  <1>2. ASSUME NEW i \in Intents, EvaluateDecision(i) PROVE IInv'
    BY <1>0, <1>2 DEF EvaluateDecision, TypeOK
  <1>3. ASSUME NEW i \in Intents, ApproveIntent(i) PROVE IInv'
    BY <1>0, <1>3 DEF ApproveIntent, TypeOK
  <1>4. ASSUME NEW i \in Intents, RejectIntent(i) PROVE IInv'
    BY <1>0, <1>4 DEF RejectIntent, TypeOK
  <1>5. ASSUME NEW i \in Intents, RejectIntentRow(i) PROVE IInv'
    BY <1>0, <1>5 DEF RejectIntentRow, TypeOK
  <1>6. ASSUME NEW i \in Intents, RejectOutboxRow(i) PROVE IInv'
    BY <1>0, <1>6 DEF RejectOutboxRow, TypeOK
  <1>7. ASSUME NEW i \in Intents, RejectInterrupted(i) PROVE IInv'
    BY <1>0, <1>7 DEF RejectInterrupted, Fault, TypeOK
  <1>8. ASSUME NEW i \in Intents, IntentExpires(i) PROVE IInv'
    BY <1>0, <1>8 DEF IntentExpires, TypeOK
  <1>9. ASSUME NEW i \in Intents, DecisionExpires(i) PROVE IInv'
    BY <1>0, <1>9 DEF DecisionExpires, TypeOK
  <1>10. ASSUME NEW i \in Intents, LeaseExpires(i) PROVE IInv'
    BY <1>0, <1>10 DEF LeaseExpires, Fault, InExchange, TypeOK
  <1>11. ASSUME NEW h \in Handlers, PeekOutbox(h) PROVE IInv'
    BY <1>0, <1>11 DEF PeekOutbox, ReplyEmpty, Proceed, TypeOK
  <1>12. ASSUME NEW h \in Handlers, RecheckRisk(h) PROVE IInv'
    BY <1>0, <1>12 DEF RecheckRisk, ReplyEmpty, Proceed, TypeOK
  <1>13. ASSUME NEW h \in Handlers, LeaseOutbox(h) PROVE IInv'
    <2> DEFINE i == claim[h].intent
    <2>1. i \in Intents
      BY <1>0, <1>13, ClaimShapes DEF LeaseOutbox, TypeOK
    <2>2. CASE ~Leasable(i)
      BY <1>0, <1>13, <2>2 DEF LeaseOutbox, ReplyEmpty, TypeOK
    <2>3. CASE Leasable(i)
      <3>1. outbox[i] \in {"pending", "leased"}
        BY <2>3 DEF Leasable
      <3>2. /\ outbox' = [outbox EXCEPT ![i] = "leased"]
            /\ attempts' = [attempts EXCEPT ![i] = attempts[i] + 1]
            /\ UNCHANGED <<intent, approvals, acked, trades, journal, events, posts, brokerVars>>
            /\ \/ addonPc' = "holding" /\ held' = {<<i, attempts[i] + 1>>}
               \/ addonPc' \in {"flush", addonPc} /\ held' = held
        BY <1>13, <2>3 DEF LeaseOutbox
      <3>3. \A c \in held \cup placed : c[1] \in Intents /\ c[2] \in Nat
        BY <1>0 DEF TypeOK, Commands
      <3>4. RowsAreApproved' /\ LeasesHaveRows'
        BY <1>0, <2>1, <3>1, <3>2 DEF TypeOK
      <3>5. CommandsAreLeased'
        <4>1. \A j \in Intents : attempts[j] \in Nat /\ attempts[j] <= attempts'[j]
          BY <1>0, <2>1, <3>2 DEF TypeOK
        <4>2. attempts'[i] = attempts[i] + 1
          BY <1>0, <2>1, <3>2 DEF TypeOK
        <4>3. ASSUME NEW c \in (held \cup placed)' PROVE c[2] <= attempts'[c[1]]
          <5>1. CASE c \in held \cup placed
            <6>1. c[2] <= attempts[c[1]] /\ c[1] \in Intents /\ c[2] \in Nat
              BY <3>3, <5>1
            <6>2. attempts[c[1]] \in Nat /\ attempts'[c[1]] \in Nat /\ attempts[c[1]] <= attempts'[c[1]]
              BY <1>0, <4>1, <6>1 DEF TypeOK
            <6>3. QED
              BY <6>1, <6>2
          <5>2. CASE c = <<i, attempts[i] + 1>>
            BY <2>1, <4>1, <4>2, <5>2
          <5>3. QED
            BY <3>2, <4>3, <5>1, <5>2
        <4>4. QED
          BY <4>3
      <3>6. Done'
        BY <3>2
      <3>7. Acks' /\ NoPhantomOrder'
        BY <1>0, <2>1, <3>1, <3>2 DEF TypeOK
      <3>8. QED
        BY <1>0, <3>4, <3>5, <3>6, <3>7
    <2>4. QED
      BY <2>2, <2>3
  <1>14. ASSUME NEW m \in posts, CompleteRow(m) PROVE IInv'
    <2> DEFINE i == m.cmd[1]
    <2>1. i \in Intents /\ m.cmd \in Commands /\ m.cmd[2] # 0 /\ m.status \in {"delivered", "failed"}
      BY <1>0 DEF TypeOK, Completions, Commands
    <2>2. /\ UNCHANGED <<intent, approvals, attempts, acked, trades, journal, events, brokerVars>>
          /\ \/ outbox' = outbox
             \/ attempts[i] # 0 /\ outbox' = [outbox EXCEPT ![i] = m.status]
          /\ addonPc' # "marking" \/ UNCHANGED <<addonPc, held>>
          /\ held' \subseteq held
      BY <1>14, <2>1 DEF CompleteRow, Replied
    <2>3. \/ posts' \subseteq posts
          \/ m.status = "delivered" /\ posts' \subseteq posts \cup {[m EXCEPT !.phase = "row_done"]}
      BY <1>14 DEF CompleteRow
    <2>4. Chain'
      <3>1. RowsAreApproved' /\ LeasesHaveRows'
        BY <1>0, <2>1, <2>2 DEF TypeOK
      <3>2. CommandsAreLeased'
        BY <2>2
      <3>3. QED
        BY <3>1, <3>2
    <2>5. Done'
      <3>0. /\ m.status = "delivered" => m.cmd \in placed
            /\ [m EXCEPT !.phase = "row_done"].cmd = m.cmd
            /\ [m EXCEPT !.phase = "row_done"].status = m.status
        BY DEF TypeOK, Completions
      <3>1. \A q \in posts' : q.status = "delivered" => q.cmd \in placed
        BY <2>3, <3>0
      <3>2. \A q \in posts' : q.phase = "row_done" => q.status = "delivered"
        BY <2>3, <3>0
      <3>3. QED
        BY <2>2, <3>1, <3>2
    <2>6. Acks' /\ NoPhantomOrder'
      BY <1>0, <2>1, <2>2 DEF TypeOK
    <2>7. QED
      BY <1>0, <2>4, <2>5, <2>6
  <1>15. ASSUME NEW m \in posts, CompleteIntent(m) PROVE IInv'
    BY <1>0, <1>15 DEF CompleteIntent, Replied, TypeOK
  <1>16. CASE AddonSnapshot
    BY <1>0, <1>16 DEF AddonSnapshot, TypeOK
  <1>17. CASE FlushDone
    BY <1>0, <1>17 DEF FlushDone, TypeOK
  <1>18. ASSUME NEW e \in events, FlushEvent(e) PROVE IInv'
    <2> DEFINE i == e.cmd[1]
    <2>1. i \in Intents /\ e.cmd \in Orders(i) /\ attempts[i] # 0 /\ outbox[i] # "none"
      <3>1. e.cmd \in Commands
        BY DEF TypeOK, OrderUpdates
      <3>2. i \in Intents /\ e.cmd[2] \in Nat \ {0}
        BY <3>1 DEF Commands
      <3>3. e.cmd \in placed
        BY DEF EventsArePlaced
      <3>4. e.cmd[2] <= attempts[i]
        BY <3>3 DEF CommandsAreLeased
      <3>5. attempts[i] \in Nat
        BY <3>2 DEF TypeOK
      <3>6. attempts[i] # 0
        BY <3>2, <3>4, <3>5
      <3>7. outbox[i] # "none"
        BY <3>2, <3>6 DEF LeasesHaveRows
      <3>8. e.cmd \in Orders(i)
        BY <3>3 DEF Orders
      <3>9. QED
        BY <3>2, <3>6, <3>7, <3>8
    <2>2. /\ UNCHANGED <<approvals, attempts, addonPc, held, journal, posts, brokerVars>>
          /\ events' \subseteq events
          /\ \/ /\ intent' = [intent EXCEPT ![i] = "rejected"]
                /\ UNCHANGED <<outbox, acked, trades>>
             \/ /\ intent' = [intent EXCEPT ![i] = "acknowledged"]
                /\ acked' = acked \cup {i}
                /\ trades' = trades \/ (e.status = "filled" /\ trades' = trades \cup {i})
                /\ \/ outbox' = [outbox EXCEPT ![i] = "acknowledged"]
                   \/ outbox[i] \notin {"pending", "leased"} /\ outbox' = outbox
      <3>1. outbox = [outbox EXCEPT ![i] = outbox[i]]
        BY <1>0 DEF TypeOK
      <3>2. QED
        BY <1>18, <3>1 DEF FlushEvent
    <2>3. Chain'
      BY <1>0, <2>1, <2>2 DEF TypeOK
    <2>4. Done'
      BY <2>2
    <2>5. Acks'
      <3>1. acked' \subseteq acked \cup {i} /\ UNCHANGED placed
        BY <2>2
      <3>2. AckedIsPlaced'
        BY <2>1, <3>1 DEF AckedIsPlaced, Orders
      <3>3. CASE UNCHANGED <<outbox, acked>>
        BY <3>2, <3>3 DEF AckedIsClosed, Acks
      <3>4. CASE outbox' = [outbox EXCEPT ![i] = "acknowledged"]
        <4>1. outbox' \in [Intents -> OutboxStatus] /\ \A j \in Intents : outbox'[j] \in {outbox[j], "acknowledged"}
          BY <3>4 DEF TypeOK, OutboxStatus
        <4>2. outbox'[i] = "acknowledged"
          BY <2>1, <3>4 DEF TypeOK
        <4>3. acked \subseteq Intents
          BY DEF TypeOK
        <4>4. AckedIsClosed'
          BY <3>1, <4>1, <4>2, <4>3 DEF AckedIsClosed
        <4>5. QED
          BY <3>2, <4>4 DEF Acks
      <3>5. CASE outbox[i] \notin {"pending", "leased"} /\ outbox' = outbox
        BY <2>1, <3>1, <3>2, <3>5 DEF AckedIsClosed, Acks
      <3>6. QED
        BY <2>2, <3>3, <3>4, <3>5
    <2>6. NoPhantomOrder'
      BY <1>0, <2>1, <2>2 DEF TypeOK
    <2>7. QED
      BY <1>0, <2>3, <2>4, <2>5, <2>6
  <1>19. ASSUME NEW h \in Handlers, AddonPoll(h) PROVE IInv'
    BY <1>0, <1>19 DEF AddonPoll, TypeOK
  <1>20. ASSUME NEW c \in held, PlaceEntry(c) PROVE IInv'
    <2>1. CASE c \in journal \cup placed
      BY <1>0, <1>20, <2>1 DEF PlaceEntry, Complete, TypeOK
    <2>2. CASE c \notin journal \cup placed
      <3>1. /\ placed' = placed \cup {c}
            /\ events' = events \cup {[cmd |-> c, status |-> "working"]}
            /\ UNCHANGED <<deskVars, held, journal, filled, refused, posts>>
        BY <1>20, <2>2 DEF PlaceEntry
      <3>2. held = {c}
        OBVIOUS
      <3>3. QED
        BY <1>0, <3>1, <3>2 DEF TypeOK
    <2>3. QED
      BY <2>1, <2>2
  <1>21. ASSUME NEW c \in held, ExecuteFails(c) PROVE IInv'
    BY <1>0, <1>21 DEF ExecuteFails, Complete, TypeOK
  <1>22. ASSUME NEW c \in held, MarkCommandProcessed(c) PROVE IInv'
    BY <1>0, <1>22 DEF MarkCommandProcessed, Complete, TypeOK
  <1>23. CASE AddonTimeout
    BY <1>0, <1>23 DEF AddonTimeout, Fault, TypeOK
  <1>24. CASE Restart
    BY <1>0, <1>24 DEF Restart, TypeOK
  <1>25. ASSUME NEW c \in held, JournalFails(c) PROVE IInv'
    BY <1>0, <1>25 DEF JournalFails, Fault, Complete, TypeOK
  <1>26. ASSUME NEW m \in posts, LosePost(m) PROVE IInv'
    BY <1>0, <1>26 DEF LosePost, Fault, Replied, TypeOK
  <1>27. ASSUME NEW c \in placed, BrokerFills(c) PROVE IInv'
    BY <1>0, <1>27 DEF BrokerFills, Notify, TypeOK
  <1>28. ASSUME NEW c \in placed, BrokerRefuses(c) PROVE IInv'
    BY <1>0, <1>28 DEF BrokerRefuses, Notify, TypeOK
  <1>29. CASE UNCHANGED vars
    BY <1>0, <1>29
  <1> QED
    BY <1>1, <1>2, <1>3, <1>4, <1>5, <1>6, <1>7, <1>8, <1>9, <1>10, <1>11, <1>12, <1>13, <1>14, <1>15, <1>16, <1>17, <1>18, <1>19, <1>20, <1>21, <1>22, <1>23, <1>24, <1>25, <1>26, <1>27, <1>28, <1>29
    DEF Next, Operator, Clock, Api, AddOn, Failure, Broker

-----------------------------------------------------------------------------
\* Theorems.

\* The inductive invariant holds in every reachable state.
LEMMA Invariant == Spec => []IInv
  BY InvInit, InvStep, PTL DEF Spec

\* Every reachable state is well typed: statuses stay in the enumerations of
\* the schema, and fills and refusals concern orders the broker holds.
THEOREM TypeCorrect == Spec => []TypeOK
  BY Invariant, PTL

\* Toute intention envoyee porte une autorisation auditee: whatever rejections,
\* lost messages and restarts happen, an order was approved.
THEOREM AuthorizedOrdersHolds == Spec => []AuthorizedOrders
  <1>1. IInv => AuthorizedOrders
    BY DEF AuthorizedOrders, TypeOK, Commands
  <1>2. QED
    BY <1>1, Invariant, PTL

\* The desk never reports an order or a trade that the broker does not have.
THEOREM NoPhantomOrderHolds == Spec => []NoPhantomOrder
  BY Invariant, PTL

-----------------------------------------------------------------------------
\* Which actions concern rows, leases, approvals, orders and acknowledgements.
LEMMA StepKinds ==
    ASSUME [Next]_vars
    PROVE  \/ UNCHANGED <<outbox, approvals, attempts, placed, acked>>
           \/ \E i \in Intents : ApproveIntent(i) \/ RejectIntent(i) \/ RejectOutboxRow(i)
           \/ \E h \in Handlers : LeaseOutbox(h) /\ Leasable(claim[h].intent)
           \/ \E m \in posts : CompleteRow(m)
           \/ \E e \in events : FlushEvent(e)
           \/ \E c \in held : PlaceEntry(c)
  <1>1. CASE Operator
    BY <1>1 DEF Operator, SetExecutionLock, EvaluateDecision, RejectIntentRow, RejectInterrupted
  <1>2. CASE Clock
    BY <1>2 DEF Clock, IntentExpires, DecisionExpires, LeaseExpires
  <1>3. CASE Api
    BY <1>3 DEF Api, PeekOutbox, RecheckRisk, LeaseOutbox, CompleteIntent, ReplyEmpty, Proceed
  <1>4. CASE AddonSnapshot
    BY <1>4 DEF AddonSnapshot
  <1>5. CASE AddOn
    BY <1>5 DEF AddOn, FlushDone, AddonPoll, ExecuteFails, MarkCommandProcessed
  <1>6. CASE Failure
    BY <1>6 DEF Failure, AddonTimeout, Restart, JournalFails, LosePost
  <1>7. CASE Broker
    BY <1>7 DEF Broker, BrokerFills, BrokerRefuses
  <1>8. CASE UNCHANGED vars
    BY <1>8
  <1>9. QED
    BY <1>1, <1>2, <1>3, <1>4, <1>5, <1>6, <1>7, <1>8 DEF Next

Closed(i) == outbox[i] \notin {"none", "pending", "leased"}

\* A row that is not leasable any more stays so.
LEMMA ClosedStaysClosed ==
    ASSUME IInv, [Next]_vars, NEW i \in Intents, Closed(i)
    PROVE  Closed(i)'
  <1> USE DEF Closed, TypeOK
  <1>1. ASSUME NEW j \in Intents, ApproveIntent(j) \/ RejectIntent(j) \/ RejectOutboxRow(j)
        PROVE  Closed(i)'
    BY <1>1 DEF ApproveIntent, RejectIntent, RejectOutboxRow
  <1>2. ASSUME NEW h \in Handlers, LeaseOutbox(h), Leasable(claim[h].intent) PROVE Closed(i)'
    BY <1>2 DEF LeaseOutbox, Leasable
  <1>3. ASSUME NEW m \in posts, CompleteRow(m) PROVE Closed(i)'
    BY <1>3 DEF CompleteRow, Completions
  <1>4. ASSUME NEW e \in events, FlushEvent(e) PROVE Closed(i)'
    BY <1>4 DEF FlushEvent
  <1>5. ASSUME NEW c \in held, PlaceEntry(c) PROVE Closed(i)'
    BY <1>5 DEF PlaceEntry
  <1>6. QED
    BY <1>1, <1>2, <1>3, <1>4, <1>5, StepKinds

\* A command is issued only by leasing a row that is still open.
LEMMA OnlyOpenRowsAreLeased ==
    ASSUME IInv, [Next]_vars, NEW i \in Intents, Closed(i)
    PROVE  attempts'[i] = attempts[i]
  <1>1. ASSUME NEW h \in Handlers, LeaseOutbox(h), Leasable(claim[h].intent)
        PROVE  attempts'[i] = attempts[i]
    BY <1>1 DEF LeaseOutbox, Leasable, Closed, TypeOK
  <1>2. QED
    BY <1>1, StepKinds DEF ApproveIntent, RejectIntent, RejectOutboxRow, CompleteRow, FlushEvent, PlaceEntry

\* A row that left the leasable states never becomes leasable again, although
\* rejections, completions and broker updates write its status in any order.
THEOREM RowsNeverReopenHolds == Spec => RowsNeverReopen
  <1>1. IInv /\ [Next]_vars =>
          [\A i \in Intents : outbox[i] \notin {"none", "pending", "leased"} =>
                                outbox'[i] \notin {"none", "pending", "leased"}]_vars
    BY ClosedStaysClosed DEF Closed
  <1>2. QED
    BY <1>1, Invariant, PTL DEF Spec, RowsNeverReopen

\* Once a live status of an order is recorded, its intent gets no further
\* command, whatever completion or rejection arrives later.
THEOREM AckStopsLeasingHolds == Spec => AckStopsLeasing
  <1>1. IInv /\ [Next]_vars => [\A i \in acked : attempts'[i] = attempts[i]]_vars
    BY OnlyOpenRowsAreLeased DEF Closed, TypeOK
  <1>2. QED
    BY <1>1, Invariant, PTL DEF Spec, AckStopsLeasing

-----------------------------------------------------------------------------
\* Refinement.

\* Initial states map to initial states of OrderSubmission.
LEMMA RefinementInit == Init => Submission!Init
  BY DEF Init, Submission!Init

\* Every step maps to a step of OrderSubmission or to a stutter.
LEMMA RefinementStep == IInv /\ [Next]_vars => [Submission!Next]_Submission!vars
  <1> SUFFICES ASSUME IInv, [Next]_vars PROVE [Submission!Next]_Submission!vars
    OBVIOUS
  <1> USE DEF TypeOK, Submission!vars
  <1>1. CASE UNCHANGED <<outbox, approvals, attempts, placed, acked>>
    BY <1>1
  <1>2. ASSUME NEW i \in Intents, ApproveIntent(i) PROVE Submission!Authorize(i)
    BY <1>2 DEF ApproveIntent, Submission!Authorize
  <1>3. ASSUME NEW i \in Intents, RejectIntent(i) \/ RejectOutboxRow(i) PROVE UNCHANGED Submission!vars
    BY <1>3 DEF RejectIntent, RejectOutboxRow
  <1>4. ASSUME NEW h \in Handlers, LeaseOutbox(h), Leasable(claim[h].intent)
        PROVE  Submission!Issue(claim[h].intent) /\ claim[h].intent \in Intents
    <2>1. claim[h].intent \in Intents
      BY <1>4, ClaimShapes DEF LeaseOutbox
    <2>2. QED
      BY <1>4, <2>1 DEF LeaseOutbox, Leasable, Submission!Issue
  <1>5. ASSUME NEW m \in posts, CompleteRow(m) PROVE UNCHANGED Submission!vars
    BY <1>5 DEF CompleteRow
  <1>6. ASSUME NEW e \in events, FlushEvent(e)
        PROVE  \/ UNCHANGED Submission!vars
               \/ Submission!Learn(e.cmd[1]) /\ e.cmd[1] \in Intents
    BY <1>6 DEF FlushEvent, Submission!Learn, OrderUpdates, Commands
  <1>7. ASSUME NEW c \in held, PlaceEntry(c)
        PROVE  \/ UNCHANGED Submission!vars
               \/ /\ c[1] \in Intents /\ c[2] \in 1 .. attempts[c[1]]
                  /\ Submission!Submit(c[1], c[2])
    <2>1. c = <<c[1], c[2]>> /\ c[1] \in Intents /\ c[2] \in 1 .. attempts[c[1]]
      BY DEF Commands
    <2>2. QED
      BY <1>7, <2>1 DEF PlaceEntry, Submission!Submit
  <1>8. QED
    BY <1>1, <1>2, <1>3, <1>4, <1>5, <1>6, <1>7, StepKinds DEF Submission!Next

\* The gateway implements the submission service: commands only for authorised
\* intents, none after the order is known, each submitted at most once.
THEOREM RefinementHolds == Spec => Refinement
  <1>1. Spec => Submission!Spec
    BY RefinementInit, RefinementStep, Invariant, PTL DEF Spec, Submission!Spec
  <1>2. QED
    BY <1>1 DEF Refinement

-----------------------------------------------------------------------------
\* Duplicates cost restarts.  An order's first update is queued with it and
\* flushed, which records the order and closes the row, before the next poll;
\* only a restart forgets it.  So a second order of an intent takes an intent
\* from Forgotten, and only a restart, which forgets one update at most, adds
\* one to it.
Announced == {e.cmd[1] : e \in {u \in events : u.status = "working"}}
Forgotten == (Ordered \ acked) \ Announced

PolledWhileWaiting ==
    /\ waiting # {} => addonPc = "polling"
    /\ \A g, h \in waiting : g = h
OneAnnounced == \A d, e \in events : d.status = "working" /\ e.status = "working" => d = e
FlushedBeforePoll ==
    addonPc \in {"ready", "polling", "holding"} => \A e \in events : e.status # "working"
HeldIsUnknown == addonPc = "holding" => \A c \in held : c[1] \notin acked
LoopInv == PolledWhileWaiting /\ OneAnnounced /\ FlushedBeforePoll /\ HeldIsUnknown

Balance == Cardinality(placed) + Cardinality(Forgotten) <= Cardinality(Ordered) + restarts

USE DEF PolledWhileWaiting, OneAnnounced, FlushedBeforePoll, HeldIsUnknown, LoopInv

\* The AddOn starts with nothing announced and nothing held.
LEMMA LoopInit == Init => LoopInv
  BY DEF Init

\* A claim answered without a command ends the poll at most.
LEMMA EmptyReply ==
    ASSUME LoopInv, NEW h \in Handlers, ReplyEmpty(h)
    PROVE  LoopInv'
  BY DEF ReplyEmpty

\* The loop announces an order before it polls again, whatever else happens.
LEMMA LoopStep ==
    ASSUME ~UpdatesLate
    PROVE  IInv /\ LoopInv /\ [Next]_vars => LoopInv'
  <1> SUFFICES ASSUME IInv, LoopInv, [Next]_vars PROVE LoopInv'
    OBVIOUS
  <1>0. TypeOK /\ TypeOK'
    BY TypeStep
  <1>1. CASE SetExecutionLock
    BY <1>0, <1>1 DEF SetExecutionLock, TypeOK
  <1>2. ASSUME NEW i \in Intents, EvaluateDecision(i) PROVE LoopInv'
    BY <1>0, <1>2 DEF EvaluateDecision, TypeOK
  <1>3. ASSUME NEW i \in Intents, ApproveIntent(i) PROVE LoopInv'
    BY <1>0, <1>3 DEF ApproveIntent, TypeOK
  <1>4. ASSUME NEW i \in Intents, RejectIntent(i) PROVE LoopInv'
    BY <1>0, <1>4 DEF RejectIntent, TypeOK
  <1>5. ASSUME NEW i \in Intents, RejectIntentRow(i) PROVE LoopInv'
    BY <1>0, <1>5 DEF RejectIntentRow, TypeOK
  <1>6. ASSUME NEW i \in Intents, RejectOutboxRow(i) PROVE LoopInv'
    BY <1>0, <1>6 DEF RejectOutboxRow, TypeOK
  <1>7. ASSUME NEW i \in Intents, RejectInterrupted(i) PROVE LoopInv'
    BY <1>0, <1>7 DEF RejectInterrupted, Fault, TypeOK
  <1>8. ASSUME NEW i \in Intents, IntentExpires(i) PROVE LoopInv'
    BY <1>0, <1>8 DEF IntentExpires, TypeOK
  <1>9. ASSUME NEW i \in Intents, DecisionExpires(i) PROVE LoopInv'
    BY <1>0, <1>9 DEF DecisionExpires, TypeOK
  <1>10. ASSUME NEW i \in Intents, LeaseExpires(i) PROVE LoopInv'
    BY <1>0, <1>10 DEF LeaseExpires, Fault, InExchange, TypeOK
  <1>11. ASSUME NEW h \in Handlers, PeekOutbox(h) PROVE LoopInv'
    BY <1>11, EmptyReply DEF PeekOutbox, Proceed
  <1>12. ASSUME NEW h \in Handlers, RecheckRisk(h) PROVE LoopInv'
    BY <1>12, EmptyReply DEF RecheckRisk, Proceed
  <1>13. ASSUME NEW h \in Handlers, LeaseOutbox(h) PROVE LoopInv'
    <2> DEFINE i == claim[h].intent
    <2>1. CASE ~Leasable(i)
      BY <1>13, <2>1, EmptyReply DEF LeaseOutbox
    <2>2. CASE Leasable(i)
      <3>1. /\ UNCHANGED <<acked, events>>
            /\ waiting' = waiting \ {h}
            /\ \/ h \in waiting /\ addonPc' = "holding" /\ held' = {<<i, attempts[i] + 1>>}
               \/ h \in waiting /\ addonPc' = "flush" /\ held' = held
               \/ h \notin waiting /\ UNCHANGED <<addonPc, held>>
        BY <1>13, <2>2 DEF LeaseOutbox
      <3>2. i \notin acked
        BY <1>0, <1>13, <2>2, ClaimShapes DEF LeaseOutbox, Leasable, TypeOK
      <3>3. CASE h \in waiting
        <4>1. addonPc = "polling"
          BY <3>3
        <4>2. QED
          BY <3>1, <3>2, <3>3, <4>1
      <3>4. CASE h \notin waiting
        BY <3>1, <3>4
      <3>5. QED
        BY <3>3, <3>4
    <2>3. QED
      BY <2>1, <2>2
  <1>14. ASSUME NEW m \in posts, CompleteRow(m) PROVE LoopInv'
    BY <1>0, <1>14 DEF CompleteRow, Replied, TypeOK
  <1>15. ASSUME NEW m \in posts, CompleteIntent(m) PROVE LoopInv'
    BY <1>0, <1>15 DEF CompleteIntent, Replied, TypeOK
  <1>16. CASE AddonSnapshot
    BY <1>0, <1>16 DEF AddonSnapshot, TypeOK
  <1>17. CASE FlushDone
    BY <1>0, <1>17 DEF FlushDone, TypeOK
  <1>18. ASSUME NEW e \in events, FlushEvent(e) PROVE LoopInv'
    BY <1>0, <1>18 DEF FlushEvent, TypeOK
  <1>19. ASSUME NEW h \in Handlers, AddonPoll(h) PROVE LoopInv'
    BY <1>0, <1>19 DEF AddonPoll, TypeOK
  <1>20. ASSUME NEW c \in held, PlaceEntry(c) PROVE LoopInv'
    BY <1>0, <1>20 DEF PlaceEntry, Complete, TypeOK
  <1>21. ASSUME NEW c \in held, ExecuteFails(c) PROVE LoopInv'
    BY <1>0, <1>21 DEF ExecuteFails, Complete, TypeOK
  <1>22. ASSUME NEW c \in held, MarkCommandProcessed(c) PROVE LoopInv'
    BY <1>0, <1>22 DEF MarkCommandProcessed, Complete, TypeOK
  <1>23. CASE AddonTimeout
    BY <1>0, <1>23 DEF AddonTimeout, Fault, TypeOK
  <1>24. CASE Restart
    BY <1>0, <1>24 DEF Restart, TypeOK
  <1>25. ASSUME NEW c \in held, JournalFails(c) PROVE LoopInv'
    BY <1>0, <1>25 DEF JournalFails, Fault, Complete, TypeOK
  <1>26. ASSUME NEW m \in posts, LosePost(m) PROVE LoopInv'
    BY <1>0, <1>26 DEF LosePost, Fault, Replied, TypeOK
  <1>27. ASSUME NEW c \in placed, BrokerFills(c) PROVE LoopInv'
    BY <1>0, <1>27 DEF BrokerFills, Notify, TypeOK
  <1>28. ASSUME NEW c \in placed, BrokerRefuses(c) PROVE LoopInv'
    BY <1>0, <1>28 DEF BrokerRefuses, Notify, TypeOK
  <1>29. CASE UNCHANGED vars
    BY <1>0, <1>29
  <1> QED
    BY <1>1, <1>2, <1>3, <1>4, <1>5, <1>6, <1>7, <1>8, <1>9, <1>10, <1>11, <1>12, <1>13, <1>14, <1>15, <1>16, <1>17, <1>18, <1>19, <1>20, <1>21, <1>22, <1>23, <1>24, <1>25, <1>26, <1>27, <1>28, <1>29
    DEF Next, Operator, Clock, Api, AddOn, Failure, Broker


\* The intents of a finite set of orders are finitely many, one for each order
\* at most; if there are as many of them as orders, no intent has two.
LEMMA IntentsOf ==
    ASSUME NEW S, IsFiniteSet(S)
    PROVE  LET T == {c[1] : c \in S} IN
           /\ IsFiniteSet(T)
           /\ Cardinality(S) \in Nat /\ Cardinality(T) \in Nat
           /\ Cardinality(T) <= Cardinality(S)
           /\ Cardinality(T) = Cardinality(S) => \A c, d \in S : c[1] = d[1] => c = d
  <1> DEFINE T == {c[1] : c \in S}
             f == [c \in S |-> c[1]]
  <1>1. f \in Surjection(S, T)
    BY DEF Surjection
  <1>2. /\ IsFiniteSet(T)
        /\ Cardinality(T) <= Cardinality(S)
        /\ Cardinality(T) = Cardinality(S) <=> f \in Injection(S, T)
    BY <1>1, FS_Surjection
  <1>3. ASSUME f \in Injection(S, T), NEW c \in S, NEW d \in S, c[1] = d[1]
        PROVE  c = d
    <2>1. \A a, b \in S : f[a] = f[b] => a = b
      BY <1>3 DEF Injection, IsInjective
    <2>2. f[c] = f[d]
      BY <1>3
    <2>3. QED
      BY <2>1, <2>2, Zenon
  <1>4. QED
    BY <1>2, <1>3, FS_CardinalityType

\* Which steps change the two sides of the balance.
LEMMA BalanceKinds ==
    ASSUME [Next]_vars
    PROVE  \/ UNCHANGED <<placed, acked, restarts, Announced>>
           \/ \E e \in events : FlushEvent(e)
           \/ \E c \in held : PlaceEntry(c)
           \/ Restart
  <1>1. CASE Operator
    BY <1>1 DEF Operator, SetExecutionLock, EvaluateDecision, ApproveIntent, RejectIntent,
                RejectIntentRow, RejectOutboxRow, RejectInterrupted, Fault, Announced
  <1>2. CASE Clock
    BY <1>2 DEF Clock, IntentExpires, DecisionExpires, LeaseExpires, Fault, Announced
  <1>3. CASE Api
    BY <1>3 DEF Api, PeekOutbox, RecheckRisk, LeaseOutbox, CompleteRow, CompleteIntent,
                ReplyEmpty, Proceed, Announced
  <1>4. CASE AddonSnapshot
    BY <1>4 DEF AddonSnapshot, Announced
  <1>5. ASSUME NEW h \in Handlers, NEW c \in held,
               FlushDone \/ AddonPoll(h) \/ ExecuteFails(c) \/ MarkCommandProcessed(c)
        PROVE  UNCHANGED <<placed, acked, restarts, Announced>>
    BY <1>5 DEF FlushDone, AddonPoll, ExecuteFails, MarkCommandProcessed, Announced
  <1>6. CASE Failure
    BY <1>6 DEF Failure, AddonTimeout, JournalFails, LosePost, Fault, Announced
  <1>7. ASSUME NEW c \in placed, BrokerFills(c) \/ BrokerRefuses(c)
        PROVE  UNCHANGED <<placed, acked, restarts, Announced>>
    <2>1. {u \in events' : u.status = "working"} = {u \in events : u.status = "working"}
      BY <1>7 DEF BrokerFills, BrokerRefuses, Notify
    <2>2. QED
      BY <1>7, <2>1 DEF BrokerFills, BrokerRefuses, Announced
  <1>8. CASE UNCHANGED vars
    BY <1>8 DEF Announced
  <1>9. QED
    BY <1>1, <1>2, <1>3, <1>4, <1>5, <1>6, <1>7, <1>8
    DEF Next, AddOn, Broker, FlushDone, AddonPoll, ExecuteFails, MarkCommandProcessed, Announced

\* The broker holds finitely many orders.
LEMMA PlacedInit == Init => IsFiniteSet(placed)
  BY FS_EmptySet DEF Init

\* A step places one order at most.
LEMMA PlacedStep == IsFiniteSet(placed) /\ [Next]_vars => IsFiniteSet(placed)'
  <1> SUFFICES ASSUME IsFiniteSet(placed), [Next]_vars PROVE IsFiniteSet(placed')
    OBVIOUS
  <1>1. ASSUME NEW c \in held, PlaceEntry(c) PROVE IsFiniteSet(placed')
    <2>1. placed' = placed \/ placed' = placed \cup {c}
      BY <1>1 DEF PlaceEntry
    <2>2. QED
      BY <2>1, FS_AddElement
  <1>2. QED
    BY <1>1, BalanceKinds DEF FlushEvent, Restart

\* At first there is nothing on either side.
LEMMA BalanceInit == Init => Balance
  <1> SUFFICES ASSUME Init PROVE Balance
    OBVIOUS
  <1>1. placed = {} /\ Forgotten = {} /\ Ordered = {} /\ restarts = 0
    BY DEF Init, Forgotten, Ordered
  <1>2. QED
    BY <1>1, FS_EmptySet DEF Balance

\* An order placed for an intent that had one takes it from Forgotten.
LEMMA BalancePlaced ==
    ASSUME IInv, LoopInv, IsFiniteSet(placed), Balance, NEW c \in held, PlaceEntry(c)
    PROVE  Balance'
  <1> DEFINE i == c[1]
  <1>1. restarts' = restarts /\ acked' = acked /\ restarts \in Nat
    BY DEF PlaceEntry, TypeOK
  <1>2. /\ IsFiniteSet(Ordered) /\ IsFiniteSet(Forgotten)
        /\ Cardinality(placed) \in Nat /\ Cardinality(Ordered) \in Nat /\ Cardinality(Forgotten) \in Nat
    BY IntentsOf, FS_Subset, FS_CardinalityType DEF Ordered, Forgotten
  <1>3. CASE c \in journal \cup placed
    <2>1. UNCHANGED <<placed, Announced>>
      BY <1>3 DEF PlaceEntry, Announced
    <2>2. QED
      BY <1>1, <2>1 DEF Balance, Forgotten, Ordered
  <1>4. CASE c \notin journal \cup placed
    <2>1. /\ placed' = placed \cup {c}
          /\ events' = events \cup {[cmd |-> c, status |-> "working"]}
      BY <1>4 DEF PlaceEntry
    <2>2. Announced = {} /\ i \notin acked
      BY DEF PlaceEntry, Announced
    <2>3. Announced' = {i}
      <3>1. {u \in events' : u.status = "working"} = {[cmd |-> c, status |-> "working"]}
        BY <2>1 DEF PlaceEntry
      <3>2. Announced' = {e.cmd[1] : e \in {[cmd |-> c, status |-> "working"]}}
        BY <3>1, Zenon DEF Announced
      <3>3. QED
        BY <3>2
    <2>4. Ordered' = Ordered \cup {i}
      BY <2>1 DEF Ordered
    <2>5. Forgotten' = Forgotten \ {i}
      BY <1>1, <2>2, <2>3, <2>4 DEF Forgotten
    <2>6. i \in Ordered <=> i \in Forgotten
      BY <2>2 DEF Forgotten
    <2>7. Cardinality(placed') = Cardinality(placed) + 1
      BY <1>4, <2>1, FS_AddElement
    <2>8. Cardinality(Ordered') = IF i \in Ordered THEN Cardinality(Ordered) ELSE Cardinality(Ordered) + 1
      BY <1>2, <2>4, FS_AddElement
    <2>9. Cardinality(Forgotten') = IF i \in Forgotten THEN Cardinality(Forgotten) - 1 ELSE Cardinality(Forgotten)
      BY <1>2, <2>5, FS_RemoveElement
    <2>10. QED
      BY <1>1, <1>2, <2>6, <2>7, <2>8, <2>9 DEF Balance
  <1>5. QED
    BY <1>3, <1>4

\* A recorded update only takes intents from Forgotten.
LEMMA BalanceFlushed ==
    ASSUME IInv, IsFiniteSet(placed), Balance, NEW e \in events, FlushEvent(e)
    PROVE  Balance'
  <1>1. UNCHANGED <<placed, restarts, Ordered>> /\ restarts \in Nat
    BY DEF FlushEvent, TypeOK, Ordered
  <1>2. /\ IsFiniteSet(Ordered) /\ IsFiniteSet(Forgotten)
        /\ Cardinality(placed) \in Nat /\ Cardinality(Ordered) \in Nat
    BY IntentsOf, FS_Subset DEF Ordered, Forgotten, Balance
  <1>3. acked \subseteq acked' /\ Announced \subseteq Announced' \cup acked'
    BY DEF FlushEvent, Announced
  <1>4. Forgotten' \subseteq Forgotten
    BY <1>1, <1>3 DEF Forgotten
  <1>5. /\ Cardinality(Forgotten') <= Cardinality(Forgotten)
        /\ Cardinality(Forgotten') \in Nat /\ Cardinality(Forgotten) \in Nat
    BY <1>2, <1>4, FS_Subset, FS_CardinalityType
  <1>6. QED
    BY <1>1, <1>2, <1>5 DEF Balance

\* A restart forgets one announced order at most.
LEMMA BalanceRestarted ==
    ASSUME IInv, LoopInv, IsFiniteSet(placed), Balance, Restart
    PROVE  Balance'
  <1>1. UNCHANGED <<placed, acked, Ordered>> /\ restarts' = restarts + 1 /\ restarts \in Nat
    BY DEF Restart, TypeOK, Ordered
  <1>2. /\ IsFiniteSet(Ordered) /\ IsFiniteSet(Forgotten)
        /\ Cardinality(placed) \in Nat /\ Cardinality(Ordered) \in Nat /\ Cardinality(Forgotten) \in Nat
    BY IntentsOf, FS_Subset, FS_CardinalityType DEF Ordered, Forgotten
  <1>3. Forgotten' \subseteq Forgotten \cup Announced
    BY <1>1 DEF Forgotten
  <1>4. Announced = {} \/ \E i : Announced = {i}
    <2>1. \A i, j \in Announced : i = j
      BY DEF Announced
    <2>2. QED
      BY <2>1
  <1>5. /\ IsFiniteSet(Forgotten \cup Announced)
        /\ Cardinality(Forgotten \cup Announced) <= Cardinality(Forgotten) + 1
        /\ Cardinality(Forgotten \cup Announced) \in Nat
    <2>1. CASE Announced = {}
      BY <1>2, <2>1
    <2>2. ASSUME NEW i, Announced = {i}
          PROVE  /\ IsFiniteSet(Forgotten \cup Announced)
                 /\ Cardinality(Forgotten \cup Announced) <= Cardinality(Forgotten) + 1
                 /\ Cardinality(Forgotten \cup Announced) \in Nat
      <3>1. /\ IsFiniteSet(Forgotten \cup {i})
            /\ Cardinality(Forgotten \cup {i}) =
                  IF i \in Forgotten THEN Cardinality(Forgotten) ELSE Cardinality(Forgotten) + 1
        BY <1>2, FS_AddElement
      <3>2. QED
        BY <1>2, <2>2, <3>1
    <2>3. QED
      BY <1>4, <2>1, <2>2
  <1>6. Cardinality(Forgotten') <= Cardinality(Forgotten \cup Announced) /\ Cardinality(Forgotten') \in Nat
    BY <1>3, <1>5, FS_Subset, FS_CardinalityType
  <1>7. QED
    BY <1>1, <1>2, <1>5, <1>6 DEF Balance

CountInv == LoopInv /\ IsFiniteSet(placed) /\ Balance

\* The count is kept by every step.
LEMMA CountStep ==
    ASSUME ~UpdatesLate
    PROVE  IInv /\ CountInv /\ [Next]_vars => CountInv'
  <1> SUFFICES ASSUME IInv, CountInv, [Next]_vars PROVE CountInv'
    OBVIOUS
  <1> USE DEF CountInv
  <1>1. LoopInv'
    BY LoopStep
  <1>2. IsFiniteSet(placed)'
    BY PlacedStep
  <1>3. Balance'
    <2>1. CASE UNCHANGED <<placed, acked, restarts, Announced>>
      BY <2>1 DEF Balance, Forgotten, Ordered
    <2>2. QED
      BY <2>1, BalanceKinds, BalancePlaced, BalanceFlushed, BalanceRestarted
  <1>4. QED
    BY <1>1, <1>2, <1>3

\* The count holds in every reachable state when no update is late.
LEMMA CountInvariant ==
    ASSUME ~UpdatesLate
    PROVE  Spec => []CountInv
  <1>1. Init => CountInv
    BY LoopInit, PlacedInit, BalanceInit DEF CountInv
  <1>2. IInv /\ CountInv /\ [Next]_vars => CountInv'
    BY CountStep
  <1>3. QED
    BY <1>1, <1>2, Invariant, PTL DEF Spec

\* What the count says of the orders and of the intents that have one.
LEMMA CountFacts ==
    ASSUME IInv, CountInv
    PROVE  /\ DuplicatesCostRestarts /\ KnownBeforePoll
           /\ restarts = 0 => OneOrderPerIntent
  <1>1. /\ IsFiniteSet(Ordered) /\ IsFiniteSet(Forgotten)
        /\ Cardinality(placed) \in Nat /\ Cardinality(Ordered) \in Nat /\ Cardinality(Forgotten) \in Nat
        /\ Cardinality(Ordered) <= Cardinality(placed)
        /\ Cardinality(Ordered) = Cardinality(placed) => OneOrderPerIntent
        /\ restarts \in Nat
    BY IntentsOf, FS_Subset, FS_CardinalityType DEF Ordered, Forgotten, CountInv, OneOrderPerIntent, TypeOK
  <1>2. Cardinality(placed) + Cardinality(Forgotten) <= Cardinality(Ordered) + restarts
    BY DEF CountInv, Balance
  <1>3. DuplicatesCostRestarts
    BY <1>1, <1>2 DEF DuplicatesCostRestarts
  <1>4. addonPc = "polling" => Forgotten = Ordered \ acked
    BY DEF CountInv, Forgotten, Announced
  <1>5. KnownBeforePoll
    <2>1. Cardinality(Forgotten) <= restarts
      BY <1>1, <1>2
    <2>2. QED
      BY <1>4, <2>1 DEF KnownBeforePoll
  <1>6. QED
    BY <1>1, <1>2, <1>3, <1>5

\* The orders beyond one per intent are no more than the restarts, whatever the
\* network, the API and the journal do.
THEOREM DuplicatesCostRestartsHolds ==
    ASSUME ~UpdatesLate
    PROVE  Spec => []DuplicatesCostRestarts
  BY CountFacts, CountInvariant, Invariant, PTL

\* Nor does the AddOn poll for work before the desk knows what it placed, but
\* for one intent for each restart.
THEOREM KnownBeforePollHolds ==
    ASSUME ~UpdatesLate
    PROVE  Spec => []KnownBeforePoll
  BY CountFacts, CountInvariant, Invariant, PTL

\* In particular, without a restart the gateway never places two orders for
\* one intent.
THEOREM OneOrderPerIntentHolds ==
    ASSUME MaxRestarts = 0, ~UpdatesLate
    PROVE  Spec => []OneOrderPerIntent
  <1>1. Init => restarts = 0
    BY DEF Init
  <1>2. restarts = 0 /\ [Next]_vars => (restarts = 0)'
    BY BalanceKinds DEF FlushEvent, PlaceEntry, Restart
  <1>3. IInv /\ CountInv /\ restarts = 0 => OneOrderPerIntent
    BY CountFacts
  <1>4. QED
    BY <1>1, <1>2, <1>3, CountInvariant, Invariant, PTL DEF Spec

-----------------------------------------------------------------------------
\* The stops.  Only a claim that passes its risk check joins those past it, only
\* one that peeks joins those past the peek, and only a lease hands the AddOn a
\* command: it takes the claim away.

\* What a step does to the claims, to the command in hand and to the orders.
LEMMA UnderwayKinds ==
    ASSUME TypeOK, [Next]_vars
    PROVE  \/ /\ (placed \cup held)' \subseteq placed \cup held
              /\ \A g \in Handlers : claim'[g] = claim[g] \/ claim'[g].pc \in {"idle", "peek"}
           \/ /\ UNCHANGED <<placed, held>>
              /\ \E h \in Handlers, k \in DOMAIN queue :
                    /\ Candidate(queue[k])
                    /\ claim' = [claim EXCEPT ![h] = [pc |-> "check", intent |-> queue[k]]]
           \/ /\ UNCHANGED <<placed, held>>
              /\ \E h \in Handlers :
                    /\ claim[h].pc = "check" /\ RiskPass(claim[h].intent)
                    /\ claim' = [claim EXCEPT ![h] = [pc |-> "lease", intent |-> claim[h].intent]]
           \/ \E h \in Handlers : \E n \in Nat :
                 /\ claim[h].pc = "lease"
                 /\ claim' = [claim EXCEPT ![h] = [pc |-> "idle"]]
                 /\ placed' = placed /\ held' \subseteq held \cup {<<claim[h].intent, n>>}
  <1> DEFINE Fewer == /\ (placed \cup held)' \subseteq placed \cup held
                      /\ \A g \in Handlers : claim'[g] = claim[g] \/ claim'[g].pc \in {"idle", "peek"}
  <1>0. claim \in [Handlers -> Claims] /\ [pc |-> "idle"].pc = "idle" /\ [pc |-> "peek"].pc = "peek"
    BY DEF TypeOK
  <1>1. ASSUME NEW h \in Handlers, ReplyEmpty(h) PROVE Fewer
    BY <1>0, <1>1 DEF ReplyEmpty
  <1>2. CASE Operator \/ Clock
    BY <1>2 DEF Operator, SetExecutionLock, EvaluateDecision, ApproveIntent, RejectIntent,
                RejectIntentRow, RejectOutboxRow, RejectInterrupted,
                Clock, IntentExpires, DecisionExpires, LeaseExpires
  <1>3. ASSUME NEW h \in Handlers, PeekOutbox(h), ~ReplyEmpty(h)
        PROVE  /\ UNCHANGED <<placed, held>>
               /\ \E k \in DOMAIN queue :
                    /\ Candidate(queue[k])
                    /\ claim' = [claim EXCEPT ![h] = [pc |-> "check", intent |-> queue[k]]]
    BY <1>3 DEF PeekOutbox, Proceed
  <1>4. ASSUME NEW h \in Handlers, RecheckRisk(h), ~ReplyEmpty(h)
        PROVE  /\ UNCHANGED <<placed, held>>
               /\ claim[h].pc = "check" /\ RiskPass(claim[h].intent)
               /\ claim' = [claim EXCEPT ![h] = [pc |-> "lease", intent |-> claim[h].intent]]
    BY <1>4 DEF RecheckRisk, Proceed
  <1>5. ASSUME NEW h \in Handlers, LeaseOutbox(h), ~ReplyEmpty(h)
        PROVE  \E n \in Nat :
                 /\ claim[h].pc = "lease"
                 /\ claim' = [claim EXCEPT ![h] = [pc |-> "idle"]]
                 /\ placed' = placed /\ held' \subseteq held \cup {<<claim[h].intent, n>>}
    <2>1. claim[h].intent \in Intents
      BY <1>0, <1>5, ClaimShapes DEF LeaseOutbox
    <2>2. attempts[claim[h].intent] + 1 \in Nat
      BY <2>1 DEF TypeOK
    <2>3. QED
      BY <1>5, <2>2 DEF LeaseOutbox
  <1>6. ASSUME NEW m \in posts, CompleteRow(m) \/ CompleteIntent(m) PROVE Fewer
    BY <1>6 DEF CompleteRow, CompleteIntent, Replied
  <1>7. CASE AddonSnapshot \/ FlushDone \/ \E e \in events : FlushEvent(e)
    BY <1>7 DEF AddonSnapshot, FlushDone, FlushEvent
  <1>8. ASSUME NEW h \in Handlers, AddonPoll(h) PROVE Fewer
    BY <1>0, <1>8 DEF AddonPoll
  <1>9. ASSUME NEW c \in held, PlaceEntry(c) \/ ExecuteFails(c) \/ MarkCommandProcessed(c) PROVE Fewer
    BY <1>9 DEF PlaceEntry, ExecuteFails, MarkCommandProcessed
  <1>10. CASE Failure
    BY <1>10 DEF Failure, AddonTimeout, Restart, JournalFails, LosePost, Replied
  <1>11. CASE Broker
    BY <1>11 DEF Broker, BrokerFills, BrokerRefuses
  <1>12. CASE UNCHANGED vars
    BY <1>12
  <1>13. QED
    BY <1>1, <1>2, <1>3, <1>4, <1>5, <1>6, <1>7, <1>8, <1>9, <1>10, <1>11, <1>12 DEF Next, Api, AddOn

\* What is underway is finite, of each kind.
LEMMA UnderwayFinite ==
    ASSUME IInv, IsFiniteSet(placed)
    PROVE  /\ IsFiniteSet(placed \cup held) /\ IsFiniteSet(PastCheck)
           /\ \A i : IsFiniteSet({c \in placed \cup held : c[1] = i}) /\ IsFiniteSet(PastPeek(i))
  <1>1. ASSUME NEW c \in held PROVE IsFiniteSet(held)
    <2>1. held = {c}
      BY <1>1
    <2>2. IsFiniteSet({c})
      BY FS_Singleton, Zenon
    <2>3. QED
      BY <2>1, <2>2
  <1>2. IsFiniteSet(held)
    BY <1>1, FS_EmptySet
  <1>3. IsFiniteSet(placed \cup held)
    BY <1>2, FS_Union
  <1>4. IsFiniteSet(PastCheck)
    BY ConstantsAssumption, FS_Subset DEF ConstantsAssumption, PastCheck
  <1>5. ASSUME NEW i
        PROVE  IsFiniteSet({c \in placed \cup held : c[1] = i}) /\ IsFiniteSet(PastPeek(i))
    BY <1>3, ConstantsAssumption, FS_Subset DEF ConstantsAssumption, PastPeek
  <1>6. QED
    BY <1>3, <1>4, <1>5

\* Two finite sets add up to no more after a step that shrinks both, and after
\* one that moves an element from one of them to the other.
LEMMA Shrink ==
    ASSUME NEW A, NEW B, NEW C, NEW D, IsFiniteSet(A), IsFiniteSet(B), C \subseteq A, D \subseteq B
    PROVE  Cardinality(C) + Cardinality(D) <= Cardinality(A) + Cardinality(B)
  <1>1. Cardinality(C) <= Cardinality(A) /\ Cardinality(D) <= Cardinality(B)
    BY FS_Subset
  <1>2. /\ Cardinality(A) \in Nat /\ Cardinality(B) \in Nat
        /\ Cardinality(C) \in Nat /\ Cardinality(D) \in Nat
    BY FS_Subset, FS_CardinalityType
  <1>3. QED
    BY <1>1, <1>2

LEMMA Move ==
    ASSUME NEW A, NEW B, NEW C, NEW D, NEW x, NEW y, IsFiniteSet(A), IsFiniteSet(B),
           C \subseteq A \cup {x}, y \in B, D \subseteq B \ {y}
    PROVE  Cardinality(C) + Cardinality(D) <= Cardinality(A) + Cardinality(B)
  <1>1. /\ IsFiniteSet(A \cup {x}) /\ Cardinality(A \cup {x}) <= Cardinality(A) + 1
        /\ Cardinality(A) \in Nat /\ Cardinality(A \cup {x}) \in Nat
    <2>1. Cardinality(A) \in Nat
      BY FS_CardinalityType
    <2>2. /\ IsFiniteSet(A \cup {x})
          /\ Cardinality(A \cup {x}) = IF x \in A THEN Cardinality(A) ELSE Cardinality(A) + 1
      BY FS_AddElement
    <2>3. QED
      BY <2>1, <2>2
  <1>2. /\ IsFiniteSet(B \ {y}) /\ Cardinality(B \ {y}) = Cardinality(B) - 1
        /\ Cardinality(B) \in Nat /\ Cardinality(B \ {y}) \in Nat
    BY FS_RemoveElement, FS_CardinalityType
  <1>3. Cardinality(C) + Cardinality(D) <= Cardinality(A \cup {x}) + Cardinality(B \ {y})
    BY <1>1, <1>2, Shrink
  <1>4. /\ Cardinality(C) \in Nat /\ Cardinality(D) \in Nat
    BY <1>1, <1>2, FS_Subset, FS_CardinalityType
  <1>5. QED
    BY <1>1, <1>2, <1>3, <1>4

\* While the kill switch stays engaged, no step adds to what is underway.
LEMMA LockedStep ==
    ASSUME IInv, IsFiniteSet(placed), [Next]_vars, locked
    PROVE  Underway' <= Underway
  <1>0. /\ IsFiniteSet(placed \cup held) /\ IsFiniteSet(PastCheck)
        /\ claim \in [Handlers -> Claims] /\ \A i : ~RiskPass(i)
    BY UnderwayFinite DEF TypeOK, RiskPass
  <1>1. CASE /\ (placed \cup held)' \subseteq placed \cup held
             /\ \A g \in Handlers : claim'[g] = claim[g] \/ claim'[g].pc \in {"idle", "peek"}
    <2>1. PastCheck' \subseteq PastCheck
      BY <1>1 DEF PastCheck
    <2>2. QED
      BY <1>0, <1>1, <2>1, Shrink DEF Underway
  <1>2. ASSUME UNCHANGED <<placed, held>>, NEW h \in Handlers, NEW k \in DOMAIN queue,
               claim' = [claim EXCEPT ![h] = [pc |-> "check", intent |-> queue[k]]]
        PROVE  Underway' <= Underway
    <2>1. PastCheck' \subseteq PastCheck
      BY <1>0, <1>2 DEF PastCheck
    <2>2. QED
      BY <1>0, <1>2, <2>1, Shrink DEF Underway
  <1>3. ASSUME NEW h \in Handlers, NEW n \in Nat, claim[h].pc = "lease",
               claim' = [claim EXCEPT ![h] = [pc |-> "idle"]],
               placed' = placed, held' \subseteq held \cup {<<claim[h].intent, n>>}
        PROVE  Underway' <= Underway
    <2>1. h \in PastCheck /\ PastCheck' \subseteq PastCheck \ {h}
      BY <1>0, <1>3 DEF PastCheck
    <2>2. (placed \cup held)' \subseteq (placed \cup held) \cup {<<claim[h].intent, n>>}
      BY <1>3
    <2>3. QED
      BY <1>0, <2>1, <2>2, Move DEF Underway
  <1>4. QED
    BY <1>0, <1>1, <1>2, <1>3, UnderwayKinds

\* Nor, once an intent has expired, to what is underway for it.
LEMMA ExpiredStep ==
    ASSUME IInv, IsFiniteSet(placed), [Next]_vars, NEW i \in expired
    PROVE  UnderwayFor(i)' <= UnderwayFor(i)
  <1> DEFINE Mine == {c \in placed \cup held : c[1] = i}
  <1>0. /\ IsFiniteSet(Mine) /\ IsFiniteSet(PastPeek(i))
        /\ claim \in [Handlers -> Claims] /\ ~Candidate(i)
    BY UnderwayFinite DEF TypeOK, Candidate
  <1>1. CASE /\ (placed \cup held)' \subseteq placed \cup held
             /\ \A g \in Handlers : claim'[g] = claim[g] \/ claim'[g].pc \in {"idle", "peek"}
    <2>1. PastPeek(i)' \subseteq PastPeek(i) /\ Mine' \subseteq Mine
      BY <1>1 DEF PastPeek
    <2>2. QED
      BY <1>0, <2>1, Shrink DEF UnderwayFor
  <1>2. ASSUME UNCHANGED <<placed, held>>, NEW h \in Handlers, NEW k \in DOMAIN queue,
               Candidate(queue[k]),
               claim' = [claim EXCEPT ![h] = [pc |-> "check", intent |-> queue[k]]]
        PROVE  UnderwayFor(i)' <= UnderwayFor(i)
    <2>1. queue[k] # i
      BY <1>0, <1>2
    <2>2. PastPeek(i)' \subseteq PastPeek(i) /\ Mine' \subseteq Mine
      BY <1>0, <1>2, <2>1 DEF PastPeek
    <2>3. QED
      BY <1>0, <2>2, Shrink DEF UnderwayFor
  <1>3. ASSUME UNCHANGED <<placed, held>>, NEW h \in Handlers, claim[h].pc = "check",
               claim' = [claim EXCEPT ![h] = [pc |-> "lease", intent |-> claim[h].intent]]
        PROVE  UnderwayFor(i)' <= UnderwayFor(i)
    <2>1. PastPeek(i)' \subseteq PastPeek(i) /\ Mine' \subseteq Mine
      BY <1>0, <1>3 DEF PastPeek
    <2>2. QED
      BY <1>0, <2>1, Shrink DEF UnderwayFor
  <1>4. ASSUME NEW h \in Handlers, NEW n \in Nat, claim[h].pc = "lease",
               claim' = [claim EXCEPT ![h] = [pc |-> "idle"]],
               placed' = placed, held' \subseteq held \cup {<<claim[h].intent, n>>}
        PROVE  UnderwayFor(i)' <= UnderwayFor(i)
    <2>1. CASE claim[h].intent = i
      <3>1. h \in PastPeek(i) /\ PastPeek(i)' \subseteq PastPeek(i) \ {h}
        BY <1>0, <1>4, <2>1 DEF PastPeek
      <3>2. Mine' \subseteq Mine \cup {<<i, n>>}
        BY <1>4, <2>1
      <3>3. QED
        BY <1>0, <3>1, <3>2, Move DEF UnderwayFor
    <2>2. CASE claim[h].intent # i
      <3>1. PastPeek(i)' \subseteq PastPeek(i) /\ Mine' \subseteq Mine
        BY <1>0, <1>4, <2>2 DEF PastPeek
      <3>2. QED
        BY <1>0, <3>1, Shrink DEF UnderwayFor
    <2>3. QED
      BY <2>1, <2>2
  <1>5. QED
    BY <1>1, <1>2, <1>3, <1>4, UnderwayKinds

\* An engaged kill switch stops every order that was not underway.
THEOREM LockAddsNothingHolds == Spec => LockAddsNothing
  <1>1. IInv /\ IsFiniteSet(placed) /\ [Next]_vars =>
          [locked /\ locked' => Underway' <= Underway]_vars
    BY LockedStep
  <1>2. Spec => []IsFiniteSet(placed)
    BY PlacedInit, PlacedStep, PTL DEF Spec
  <1>3. QED
    BY <1>1, <1>2, Invariant, PTL DEF Spec, LockAddsNothing

\* An expired intent gets no order that was not underway.
THEOREM ExpiryAddsNothingHolds == Spec => ExpiryAddsNothing
  <1>1. IInv /\ IsFiniteSet(placed) /\ [Next]_vars =>
          [\A i \in expired : UnderwayFor(i)' <= UnderwayFor(i)]_vars
    BY ExpiredStep
  <1>2. Spec => []IsFiniteSet(placed)
    BY PlacedInit, PlacedStep, PTL DEF Spec
  <1>3. QED
    BY <1>1, <1>2, Invariant, PTL DEF Spec, ExpiryAddsNothing

\* So if the kill switch, once engaged, stays so, the broker never holds more
\* orders than were underway when it was.
THEOREM OrdersAfterLock ==
    ASSUME NEW n \in Nat
    PROVE  Spec => [](Underway <= n /\ []locked => [](Cardinality(placed) <= n))
  <1>1. IInv /\ IsFiniteSet(placed) =>
          /\ Underway \in Nat
          /\ Underway <= n => Cardinality(placed) <= n
    <2> SUFFICES ASSUME IInv, IsFiniteSet(placed)
                 PROVE  Underway \in Nat /\ (Underway <= n => Cardinality(placed) <= n)
      OBVIOUS
    <2>1. /\ Cardinality(placed \cup held) \in Nat /\ Cardinality(PastCheck) \in Nat
          /\ Cardinality(placed) <= Cardinality(placed \cup held) /\ Cardinality(placed) \in Nat
      BY UnderwayFinite, FS_CardinalityType, FS_Subset
    <2>2. QED
      BY <2>1 DEF Underway
  <1>2. /\ IInv /\ IsFiniteSet(placed) /\ Underway \in Nat /\ (Underway \in Nat)'
        /\ Underway <= n /\ locked /\ [Next]_vars
        => (Underway <= n)'
    <2> SUFFICES ASSUME IInv, IsFiniteSet(placed), Underway \in Nat, Underway' \in Nat,
                        Underway <= n, locked, [Next]_vars
                 PROVE  Underway' <= n
      OBVIOUS
    <2>1. Underway' <= Underway
      BY LockedStep
    <2>2. QED
      BY <2>1
  <1>3. Spec => []IsFiniteSet(placed)
    BY PlacedInit, PlacedStep, PTL DEF Spec
  <1>4. QED
    BY <1>1, <1>2, <1>3, Invariant, PTL DEF Spec
=============================================================================

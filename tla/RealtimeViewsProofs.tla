------------------------ MODULE RealtimeViewsProofs -------------------------
(***************************************************************************)
(* Theorems about DomainEvents and RealtimeViews, for any events,          *)
(* sessions, views, lists of views and bounds.                             *)
(*                                                                         *)
(* Nothing is lost because two things go together: an event that is        *)
(* committed in order lies behind every position that anybody holds, and   *)
(* when the page accepts a frame, every event committed so far is going to *)
(* be read.  What is to be read once stays so until it is shown.           *)
(*                                                                         *)
(* A refresh joins no older read of another one because whoever began a    *)
(* read waits for it before anybody may begin the next.                    *)
(***************************************************************************)
EXTENDS RealtimeViews, TLAPS

\* The rows of the table, committed or not, are those that have a number.
Rows ==
    /\ \A t \in Transactions : wrote[t] \cap outbox = {}
    /\ \A t \in Transactions : \A e \in wrote[t] : sequence[e] # 0
    /\ \A e \in outbox : sequence[e] # 0
    /\ \A e \in Events : sequence[e] # 0 =>
          e \in outbox \/ \E t \in Transactions : e \in wrote[t]

\* The advisory locks keep the aggregates of open transactions apart.
LocksHold ==
    \A t, u \in Transactions : t # u =>
       \A e \in wrote[t], f \in wrote[u] : AggregateOf[e] # AggregateOf[f]

EventsInv == EventsTypeOK /\ Rows /\ LocksHold /\ NumbersFollowCommits

\* A position that somebody holds is a committed event, or none.
Position(id) == id \in outbox \cup {None, Empty, Unknown}

Positions ==
    /\ Position(at) /\ Position(cursor) /\ Position(stored)
    /\ seen \subseteq outbox \cup {Empty}
    /\ \A i \in DOMAIN wire : Position(wire[i].id)
    /\ \A i \in DOMAIN wire : wire[i].kind = "event" => wire[i].id \in outbox
    /\ \A i \in DOMAIN wire : wire[i].kind = "checkpoint" => wire[i].id \in outbox \cup {Empty}

\* A view that is being read is going to show at least what it shows.
Reads ==
    \A v \in Kept :
       /\ shown[v] \subseteq outbox /\ read[v] \subseteq outbox
       /\ v \in fetching => shown[v] \subseteq read[v]

\* Once the page has accepted an event's frame or a checkpoint, what lies before
\* it in the stream is going to be read, and what its aggregate did before.
Behind(e, s) ==
    \/ e \notin overtaken /\ ~Before(s, e)
    \/ AggregateOf[e] = AggregateOf[s] /\ sequence[e] < sequence[s]

SeenIsServed ==
    \A s \in seen \cap outbox, e \in outbox, v \in Kept :
       Behind(e, s) => Served(e, v)

IInv == TypeOK /\ EventsInv /\ Positions /\ Reads /\ SeenIsServed /\ NothingLost

-----------------------------------------------------------------------------
\* The order of the stream.

LEMMA BeforeIsAnOrder ==
  ASSUME NEW e \in Nat \X Nat, NEW f \in Nat \X Nat
  PROVE  /\ ~(Before(e, f) /\ Before(f, e))
         /\ e # f => Before(e, f) \/ Before(f, e)
         /\ ~Before(e, e)
         /\ \A g \in Nat \X Nat : Before(e, f) /\ Before(f, g) => Before(e, g)
  <1>1. /\ e = <<e[1], e[2]>> /\ e[1] \in Nat /\ e[2] \in Nat
        /\ f = <<f[1], f[2]>> /\ f[1] \in Nat /\ f[2] \in Nat
    OBVIOUS
  <1>2. \A g \in Nat \X Nat : g[1] \in Nat /\ g[2] \in Nat
    OBVIOUS
  <1> QED
    BY <1>1, <1>2 DEF Before

LEMMA EventsArePairs ==
  /\ Events \subseteq Nat \X Nat
  /\ None \notin Events /\ Empty \notin Events /\ Unknown \notin Events
  <1>1. \A e \in Events : e \in Nat \X (Nat \ {0})
    BY EventsAssumption
  <1>2. ASSUME NEW e \in Nat \X (Nat \ {0})
        PROVE  e[2] # 0 /\ e[2] # -1 /\ e[2] # -2
    <2>1. e[2] \in Nat \ {0}
      OBVIOUS
    <2> QED
      BY <2>1
  <1>3. /\ None[2] = 0 /\ Empty[2] = -1 /\ Unknown[2] = -2
    BY DEF None, Empty, Unknown
  <1> QED
    BY <1>1, <1>2, <1>3

-----------------------------------------------------------------------------
\* The outbox.

LEMMA EventsInvInit == EventsInit => EventsInv
  <1>1. SUFFICES ASSUME EventsInit PROVE EventsInv
    OBVIOUS
  <1>2. outbox \subseteq Events /\ \A e, f \in outbox : AggregateOf[e] = AggregateOf[f] => e = f
    BY <1>1, EventsAssumption DEF EventsInit
  <1>3. EventsTypeOK
    BY <1>1, <1>2 DEF EventsInit, EventsTypeOK
  <1>4. Rows /\ LocksHold
    BY <1>1, <1>2 DEF EventsInit, Rows, LocksHold
  <1>5. NumbersFollowCommits
    BY <1>1, <1>2 DEF EventsInit, NumbersFollowCommits
  <1> QED
    BY <1>3, <1>4, <1>5 DEF EventsInv

LEMMA AppendKeeps ==
  ASSUME EventsInv, NEW t \in Transactions, NEW e \in Events, AppendEvent(t, e)
  PROVE  EventsInv'
  <1>1. PICK n \in {1} \cup {sequence[f] + 1 : f \in Events} :
          /\ IsNextSequence(n, t, AggregateOf[e])
          /\ sequence' = [sequence EXCEPT ![e] = n]
    BY DEF AppendEvent
  <1>2. n \in Nat /\ n # 0
    BY DEF EventsInv, EventsTypeOK
  <1>3. /\ sequence \in [Events -> Nat] /\ wrote \in [Transactions -> SUBSET Events]
        /\ outbox \subseteq Events
    BY DEF EventsInv, EventsTypeOK
  <1>4. /\ sequence[e] = 0 /\ LockedFor(t, AggregateOf[e])
        /\ wrote' = [wrote EXCEPT ![t] = @ \cup {e}]
        /\ outbox' = outbox /\ overtaken' = overtaken /\ begins' = begins /\ began' = began
    BY DEF AppendEvent
  <1>5. /\ \A f \in Events : sequence'[f] = IF f = e THEN n ELSE sequence[f]
        /\ \A u \in Transactions : wrote'[u] = IF u = t THEN wrote[t] \cup {e} ELSE wrote[u]
    BY <1>1, <1>3, <1>4
  <1>6. EventsTypeOK'
    <2>1. sequence' \in [Events -> Nat] /\ wrote' \in [Transactions -> SUBSET Events]
      BY <1>1, <1>2, <1>3, <1>4
    <2> QED
      BY <2>1, <1>4 DEF EventsInv, EventsTypeOK
  <1>7. e \notin outbox
    BY <1>4 DEF EventsInv, Rows
  <1>8. Rows'
    <2>1. \A u \in Transactions : wrote'[u] \cap outbox' = {}
      BY <1>4, <1>5, <1>7 DEF EventsInv, Rows
    <2>2. \A u \in Transactions : \A f \in wrote'[u] : sequence'[f] # 0
      BY <1>2, <1>3, <1>5 DEF EventsInv, Rows
    <2>3. \A f \in outbox' : sequence'[f] # 0
      BY <1>3, <1>4, <1>5, <1>7 DEF EventsInv, Rows
    <2>4. \A f \in Events : sequence'[f] # 0 =>
             f \in outbox' \/ \E u \in Transactions : f \in wrote'[u]
      BY <1>4, <1>5 DEF EventsInv, Rows
    <2> QED
      BY <2>1, <2>2, <2>3, <2>4 DEF Rows
  <1>9. \A u \in Transactions \ {t} : \A f \in wrote[u] : AggregateOf[f] # AggregateOf[e]
    BY <1>3, <1>4 DEF LockedFor, Of
  <1>10. LocksHold'
    BY <1>5, <1>9 DEF EventsInv, LocksHold
  <1>11. \A f \in Events : f # e /\ AggregateOf[f] = AggregateOf[e] /\ sequence[f] # 0
           => sequence[f] < n
    <2>1. SUFFICES ASSUME NEW f \in Events, f # e, AggregateOf[f] = AggregateOf[e],
                          sequence[f] # 0
                   PROVE  sequence[f] < n
      OBVIOUS
    <2>2. f \in outbox \cup wrote[t]
      BY <2>1, <1>9 DEF EventsInv, Rows
    <2> QED
      BY <1>1, <2>1, <2>2 DEF IsNextSequence, Of
  <1>12. NumbersFollowCommits'
    <2>1. SUFFICES ASSUME NEW f \in Events, NEW g \in Events, f # g,
                          AggregateOf[f] = AggregateOf[g], sequence'[f] # 0
                   PROVE  /\ sequence'[f] # sequence'[g]
                          /\ (f \in outbox /\ sequence'[g] # 0 /\ g \notin outbox)
                               => sequence'[f] < sequence'[g]
      BY <1>4 DEF NumbersFollowCommits
    <2>2. sequence[f] \in Nat /\ sequence[g] \in Nat
      BY <1>3
    <2>3. CASE f = e
      BY <1>2, <1>5, <1>7, <1>11, <2>1, <2>2, <2>3
    <2>4. CASE g = e
      BY <1>2, <1>5, <1>11, <2>1, <2>2, <2>4
    <2>5. CASE f # e /\ g # e
      BY <1>5, <2>1, <2>5 DEF EventsInv, NumbersFollowCommits
    <2> QED
      BY <2>3, <2>4, <2>5
  <1> QED
    BY <1>6, <1>8, <1>10, <1>12 DEF EventsInv

LEMMA CommitKeeps ==
  ASSUME EventsInv, NEW t \in Transactions, Commit(t)
  PROVE  EventsInv'
  <1>1. /\ wrote \in [Transactions -> SUBSET Events] /\ outbox \subseteq Events
        /\ sequence \in [Events -> Nat] /\ overtaken \subseteq outbox
        /\ began \in [Transactions -> Nat] /\ begins \in Nat
    BY DEF EventsInv, EventsTypeOK
  <1>2. /\ outbox' = outbox \cup wrote[t] /\ sequence' = sequence
        /\ wrote' = [wrote EXCEPT ![t] = {}] /\ began' = [began EXCEPT ![t] = 0]
        /\ begins' = begins
        /\ overtaken' = overtaken \cup {e \in wrote[t] : \E f \in outbox : Before(e, f)}
    BY DEF Commit
  <1>3. \A u \in Transactions : wrote'[u] = IF u = t THEN {} ELSE wrote[u]
    BY <1>1, <1>2
  <1>4. EventsTypeOK'
    BY <1>1, <1>2 DEF EventsTypeOK
  <1>5. LocksHold'
    BY <1>3 DEF EventsInv, LocksHold
  <1>6. Rows'
    <2>1. \A u \in Transactions : wrote'[u] \cap outbox' = {}
      BY <1>1, <1>2, <1>3 DEF EventsInv, Rows, LocksHold
    <2>2. \A u \in Transactions : \A f \in wrote'[u] : sequence'[f] # 0
      BY <1>2, <1>3 DEF EventsInv, Rows
    <2>3. \A f \in outbox' : sequence'[f] # 0
      BY <1>2 DEF EventsInv, Rows
    <2>4. \A f \in Events : sequence'[f] # 0 =>
             f \in outbox' \/ \E u \in Transactions : f \in wrote'[u]
      BY <1>2, <1>3 DEF EventsInv, Rows
    <2> QED
      BY <2>1, <2>2, <2>3, <2>4 DEF Rows
  <1>7. NumbersFollowCommits'
    <2>1. SUFFICES ASSUME NEW e \in Events, NEW f \in Events, e # f,
                          AggregateOf[e] = AggregateOf[f], sequence[e] # 0,
                          e \in outbox', sequence[f] # 0, f \notin outbox'
                   PROVE  sequence[e] < sequence[f]
      BY <1>2 DEF EventsInv, NumbersFollowCommits
    <2>2. PICK u \in Transactions : f \in wrote[u]
      BY <1>2, <2>1 DEF EventsInv, Rows
    <2>3. e \notin wrote[t]
      BY <1>2, <2>1, <2>2 DEF EventsInv, LocksHold
    <2> QED
      BY <1>2, <2>1, <2>3 DEF EventsInv, NumbersFollowCommits
  <1> QED
    BY <1>4, <1>5, <1>6, <1>7 DEF EventsInv

LEMMA RollbackKeeps ==
  ASSUME EventsInv, NEW t \in Transactions, Rollback(t)
  PROVE  EventsInv'
  <1>1. /\ wrote \in [Transactions -> SUBSET Events] /\ outbox \subseteq Events
        /\ sequence \in [Events -> Nat] /\ overtaken \subseteq outbox
        /\ began \in [Transactions -> Nat] /\ begins \in Nat
    BY DEF EventsInv, EventsTypeOK
  <1>2. /\ sequence' = [e \in Events |-> IF e \in wrote[t] THEN 0 ELSE sequence[e]]
        /\ wrote' = [wrote EXCEPT ![t] = {}] /\ began' = [began EXCEPT ![t] = 0]
        /\ begins' = begins /\ outbox' = outbox /\ overtaken' = overtaken
    BY DEF Rollback
  <1>3. \A u \in Transactions : wrote'[u] = IF u = t THEN {} ELSE wrote[u]
    BY <1>1, <1>2
  <1>4. EventsTypeOK'
    BY <1>1, <1>2 DEF EventsTypeOK
  <1>5. LocksHold'
    BY <1>3 DEF EventsInv, LocksHold
  <1>6. \A e \in Events : sequence'[e] # 0 => sequence'[e] = sequence[e] /\ e \notin wrote[t]
    BY <1>2
  <1>7. Rows'
    <2>1. \A u \in Transactions : wrote'[u] \cap outbox' = {}
      BY <1>2, <1>3 DEF EventsInv, Rows
    <2>2. \A u \in Transactions : \A f \in wrote'[u] : sequence'[f] # 0
      BY <1>1, <1>2, <1>3 DEF EventsInv, Rows, LocksHold
    <2>3. \A f \in outbox' : sequence'[f] # 0
      BY <1>1, <1>2 DEF EventsInv, Rows
    <2>4. \A f \in Events : sequence'[f] # 0 =>
             f \in outbox' \/ \E u \in Transactions : f \in wrote'[u]
      BY <1>2, <1>3, <1>6 DEF EventsInv, Rows
    <2> QED
      BY <2>1, <2>2, <2>3, <2>4 DEF Rows
  <1>8. NumbersFollowCommits'
    <2>1. SUFFICES ASSUME NEW e \in Events, NEW f \in Events, e # f,
                          AggregateOf[e] = AggregateOf[f], sequence'[e] # 0
                   PROVE  /\ sequence'[e] # sequence'[f]
                          /\ (e \in outbox /\ sequence'[f] # 0 /\ f \notin outbox)
                               => sequence'[e] < sequence'[f]
      BY <1>2 DEF NumbersFollowCommits
    <2>2. sequence'[f] = 0 \/ sequence'[f] = sequence[f]
      BY <1>2
    <2>3. sequence[e] # 0 /\ sequence'[e] = sequence[e]
      BY <1>6, <2>1
    <2> QED
      BY <2>1, <2>2, <2>3 DEF EventsInv, NumbersFollowCommits
  <1> QED
    BY <1>4, <1>5, <1>7, <1>8 DEF EventsInv

LEMMA EventsInvNext == EventsInv /\ EventsNext => EventsInv'
  <1>1. SUFFICES ASSUME EventsInv, EventsNext PROVE EventsInv'
    OBVIOUS
  <1>2. PICK t \in Transactions :
          \/ BeginTransaction(t)
          \/ \E e \in Events : AppendEvent(t, e)
          \/ Commit(t)
          \/ Rollback(t)
    BY <1>1 DEF EventsNext
  <1>3. CASE BeginTransaction(t)
    BY <1>1, <1>3 DEF BeginTransaction, EventsInv, EventsTypeOK, Rows, LocksHold,
                      NumbersFollowCommits
  <1> QED
    BY <1>1, <1>2, <1>3, AppendKeeps, CommitKeeps, RollbackKeeps

\* Committed events stay, and one that is committed in order lies behind all
\* that were there.
LEMMA CommitsInOrder ==
  ASSUME EventsInv, EventsNext
  PROVE  /\ outbox \subseteq outbox' /\ overtaken \subseteq overtaken'
         /\ \A e \in outbox : sequence'[e] = sequence[e]
         /\ \A e \in outbox' \ outbox : sequence'[e] = sequence[e] /\ sequence[e] # 0
         /\ \A e \in outbox' \ outbox : e \notin overtaken' =>
               \A p \in outbox : Before(p, e)
  <1>1. PICK t \in Transactions :
          \/ BeginTransaction(t)
          \/ \E e \in Events : AppendEvent(t, e)
          \/ Commit(t)
          \/ Rollback(t)
    BY DEF EventsNext
  <1>2. outbox \subseteq Events /\ wrote[t] \subseteq Events /\ sequence \in [Events -> Nat]
    BY DEF EventsInv, EventsTypeOK
  <1>3. \A e \in outbox : sequence[e] # 0 /\ e \notin wrote[t]
    BY DEF EventsInv, Rows
  <1>4. CASE BeginTransaction(t)
    BY <1>4 DEF BeginTransaction
  <1>5. CASE \E e \in Events : AppendEvent(t, e)
    BY <1>2, <1>3, <1>5 DEF AppendEvent
  <1>6. CASE Commit(t)
    <2>1. /\ outbox' = outbox \cup wrote[t] /\ sequence' = sequence
          /\ overtaken' = overtaken \cup {e \in wrote[t] : \E f \in outbox : Before(e, f)}
      BY <1>6 DEF Commit
    <2>2. \A e \in wrote[t] : sequence[e] # 0
      BY DEF EventsInv, Rows
    <2>3. \A e \in wrote[t] : \A p \in outbox : ~Before(e, p) => Before(p, e)
      BY <1>2, <1>3, EventsArePairs, BeforeIsAnOrder
    <2> QED
      BY <2>1, <2>2, <2>3
  <1>7. CASE Rollback(t)
    BY <1>2, <1>3, <1>7 DEF Rollback
  <1> QED
    BY <1>1, <1>4, <1>5, <1>6, <1>7

-----------------------------------------------------------------------------
\* Steps of the API and of the page.

LEMMA Steps ==
  ASSUME Next
  PROVE  \/ EventsNext /\ UNCHANGED <<stream, sync, queries, faults>>
         \/ UNCHANGED events
  BY DEF Next, OutboxStep, Send, SendPage, SendCheckpoint, SendResync, SendError, Write, Receive,
         ReceiveResync, ReceiveDuplicate, ReceiveCheckpoint, ReceiveEvent, ReceiveError, Receives,
         Drop, Connect, Reload, TimerFires, DrainContinues, RecoveryRefetches, RecoveryFlushes,
         StrayFlushes, FetchElsewhere, FetchEnds

LEMMA EventsInvStep == EventsInv /\ [Next]_vars => EventsInv'
  <1>1. SUFFICES ASSUME EventsInv, [Next]_vars PROVE EventsInv'
    OBVIOUS
  <1>2. CASE UNCHANGED events
    BY <1>1, <1>2 DEF events, EventsInv, EventsTypeOK, Rows, LocksHold, NumbersFollowCommits
  <1>3. CASE EventsNext
    BY <1>1, <1>3, EventsInvNext
  <1>4. CASE UNCHANGED vars
    BY <1>2, <1>4 DEF vars
  <1> QED
    BY <1>1, <1>2, <1>3, <1>4, Steps

\* The outbox only grows.
LEMMA OutboxGrows ==
  ASSUME EventsInv, Next
  PROVE  outbox \subseteq outbox' /\ outbox' \subseteq Events
  <1>1. outbox' \subseteq Events
    BY EventsInvStep DEF EventsInv, EventsTypeOK
  <1>2. CASE EventsNext
    BY <1>1, <1>2, CommitsInOrder
  <1>3. CASE UNCHANGED events
    BY <1>1, <1>3 DEF events
  <1> QED
    BY <1>2, <1>3, Steps

LEMMA InvalidateKeepsTypes ==
  ASSUME TypeOK, NEW views \in SUBSET Views, Invalidate(views)
  PROVE  /\ fetching' \subseteq Views /\ mine' \subseteq Kept \cap fetching' /\ loaded' \subseteq Views
         /\ read' \in [Kept -> SUBSET Events] /\ shown' \in [Kept -> SUBSET Events]
         /\ missed' \in [Kept -> SUBSET Events]
  <1>1. /\ outbox \subseteq Events /\ read \in [Kept -> SUBSET Events]
        /\ missed \in [Kept -> SUBSET Events]
    BY DEF TypeOK, EventsTypeOK
  <1>2. \A v \in Kept : outbox \in SUBSET Events /\ read[v] \in SUBSET Events
          /\ missed[v] \in SUBSET Events /\ missed[v] \cup (outbox \ read[v]) \in SUBSET Events
    BY <1>1
  <1>3. read' \in [Kept -> SUBSET Events] /\ missed' \in [Kept -> SUBSET Events]
    BY <1>2 DEF Invalidate
  <1> QED
    BY <1>3 DEF TypeOK, Invalidate, Kept

LEMMA RefetchKeepsTypes ==
  ASSUME TypeOK, Refetch
  PROVE  /\ fetching' \subseteq Views /\ mine' \subseteq Kept \cap fetching' /\ loaded' \subseteq Views
         /\ read' \in [Kept -> SUBSET Events] /\ shown' \in [Kept -> SUBSET Events]
         /\ missed' \in [Kept -> SUBSET Events]
  <1>1. /\ outbox \subseteq Events /\ read \in [Kept -> SUBSET Events]
        /\ missed \in [Kept -> SUBSET Events]
    BY DEF TypeOK, EventsTypeOK
  <1>2. \A v \in Kept : outbox \in SUBSET Events /\ read[v] \in SUBSET Events
          /\ missed[v] \in SUBSET Events /\ missed[v] \cup (outbox \ read[v]) \in SUBSET Events
    BY <1>1
  <1>3. read' \in [Kept -> SUBSET Events] /\ missed' \in [Kept -> SUBSET Events]
    BY <1>2 DEF Refetch
  <1> QED
    BY <1>3, ViewsAssumption DEF TypeOK, Refetch, Kept

LEMMA NobodysIds == None \in Ids /\ Empty \in Ids /\ Unknown \in Ids
  BY DEF Ids

LEMMA InitKeeps == Init => IInv
  <1>1. SUFFICES ASSUME Init PROVE IInv
    OBVIOUS
  <1>2. EventsInv
    BY <1>1, EventsInvInit DEF Init
  <1>3. outbox \subseteq Events /\ EventsTypeOK
    BY <1>2 DEF EventsInv, EventsTypeOK
  <1>4. TypeOK
    <2>1. /\ read \in [Kept -> SUBSET Events] /\ shown \in [Kept -> SUBSET Events]
          /\ missed \in [Kept -> SUBSET Events] /\ last \in [Aggregates -> Nat]
      BY <1>1, <1>3 DEF Init
    <2>2. wire \in Seq([kind : Kinds, id : Ids]) /\ faults \in 0..MaxFaults
      BY <1>1, ViewsAssumption DEF Init
    <2> QED
      BY <1>1, <1>3, <2>1, <2>2, NobodysIds DEF Init, TypeOK
  <1>5. Positions
    BY <1>1 DEF Init, Positions, Position
  <1>6. Reads
    BY <1>1 DEF Init, Reads
  <1>7. SeenIsServed
    BY <1>1 DEF Init, SeenIsServed
  <1>8. NothingLost
    <2>1. None \notin outbox
      BY <1>3, EventsArePairs
    <2> QED
      BY <1>1, <2>1 DEF Init, NothingLost, ToBeAnnounced
  <1> QED
    BY <1>2, <1>4, <1>5, <1>6, <1>7, <1>8 DEF IInv

\* Type correctness.
LEMMA SendKeepsTypes ==
  ASSUME TypeOK, Send \/ SendError
  PROVE  TypeOK'
  <1> DEFINE F == [kind : Kinds, id : Ids]
  <1>1. ASSUME NEW frames \in Seq(F), wire' = wire \o frames
        PROVE  wire' \in Seq(F)
    BY <1>1 DEF TypeOK
  <1>2. ASSUME NEW kind \in Kinds, NEW id \in Ids
        PROVE  <<Frame(kind, id)>> \in Seq(F)
    BY <1>2 DEF Frame
  <1>3. CASE SendPage
    <2>1. PICK n \in 1..PageLimit : \E page \in [1..n -> Events] :
            /\ Write([i \in 1..n |-> Frame("event", page[i])])
            /\ at' = page[n]
      BY <1>3 DEF SendPage
    <2>2. PICK page \in [1..n -> Events] :
            /\ Write([i \in 1..n |-> Frame("event", page[i])])
            /\ at' = page[n]
      BY <2>1
    <2>3. n \in Nat /\ n \in 1..n
      BY ViewsAssumption
    <2>4. at' \in Ids
      BY <2>2, <2>3 DEF Ids
    <2>5. \A i \in 1..n : Frame("event", page[i]) \in F
      BY DEF Frame, Ids, Kinds
    <2>6. [i \in 1..n |-> Frame("event", page[i])] \in Seq(F)
      BY <2>3, <2>5
    <2>7. wire' \in Seq(F)
      BY <1>1, <2>2, <2>6 DEF Write
    <2> QED
      BY <1>3, <2>2, <2>4, <2>7
      DEF TypeOK, EventsTypeOK, SendPage, Write, events, sync, queries
  <1>4. CASE SendCheckpoint
    <2>1. PICK c \in Events \cup {Empty} : Write(<<Frame("checkpoint", c)>>) /\ at' = c
      BY <1>4 DEF SendCheckpoint
    <2>2. wire' \in Seq(F)
      <3>1. <<Frame("checkpoint", c)>> \in Seq(F)
        BY <1>2 DEF Kinds, Ids
      <3> QED
        BY <1>1, <2>1, <3>1 DEF Write
    <2> QED
      BY <1>4, <2>1, <2>2 DEF TypeOK, EventsTypeOK, SendCheckpoint, Write, events, sync, queries, Ids
  <1>5. CASE SendResync
    <2>1. <<Frame("resync", None)>> \in Seq(F)
      BY <1>2, NobodysIds DEF Kinds
    <2>2. wire' \in Seq(F)
      BY <1>1, <1>5, <2>1 DEF SendResync, Write
    <2> QED
      BY <1>5, <2>2, NobodysIds
      DEF TypeOK, EventsTypeOK, SendResync, Write, events, sync, queries
  <1>6. CASE SendError
    <2>1. <<Frame("error", Unknown)>> \in Seq(F)
      BY <1>2, NobodysIds DEF Kinds
    <2>2. wire' \in Seq(F)
      BY <1>1, <1>6, <2>1 DEF SendError, Write
    <2>3. faults' \in 0..MaxFaults
      BY <1>6, ViewsAssumption DEF SendError, Fault, TypeOK
    <2> QED
      BY <1>6, <2>2, <2>3 DEF TypeOK, EventsTypeOK, SendError, Write, events, sync, queries
  <1> QED
    BY <1>3, <1>4, <1>5, <1>6 DEF Send

LEMMA HeadAndTail ==
  ASSUME NEW S, NEW w \in Seq(S), w # <<>>
  PROVE  /\ Head(w) \in S /\ Head(w) = w[1] /\ 1 \in DOMAIN w
         /\ Tail(w) \in Seq(S)
         /\ \A i \in DOMAIN w : i # 1 => i - 1 \in DOMAIN Tail(w) /\ Tail(w)[i - 1] = w[i]
         /\ \A i \in DOMAIN Tail(w) : i + 1 \in DOMAIN w /\ Tail(w)[i] = w[i + 1]
  <1>1. Len(w) \in Nat /\ Len(w) # 0 /\ DOMAIN w = 1..Len(w) /\ \A i \in 1..Len(w) : w[i] \in S
    OBVIOUS
  <1>2. Head(w) = w[1] /\ 1 \in DOMAIN w
    BY <1>1
  <1>3. /\ Tail(w) \in Seq(S) /\ Len(Tail(w)) = Len(w) - 1
        /\ \A i \in 1..(Len(w) - 1) : Tail(w)[i] = w[i + 1]
    OBVIOUS
  <1>4. DOMAIN Tail(w) = 1..(Len(w) - 1)
    BY <1>3
  <1> QED
    BY <1>1, <1>2, <1>3, <1>4

LEMMA Concatenates ==
  ASSUME NEW S, NEW w \in Seq(S), NEW x \in Seq(S)
  PROVE  /\ \A i \in DOMAIN (w \o x) :
              \/ i \in DOMAIN w /\ (w \o x)[i] = w[i]
              \/ \E j \in DOMAIN x : (w \o x)[i] = x[j]
         /\ \A i \in DOMAIN w : i \in DOMAIN (w \o x) /\ (w \o x)[i] = w[i]
         /\ \A j \in DOMAIN x : \E i \in DOMAIN (w \o x) : (w \o x)[i] = x[j]
  <1>1. /\ Len(w) \in Nat /\ DOMAIN w = 1..Len(w) /\ Len(x) \in Nat /\ DOMAIN x = 1..Len(x)
        /\ w \o x \in Seq(S) /\ Len(w \o x) = Len(w) + Len(x)
    OBVIOUS
  <1>2. DOMAIN (w \o x) = 1..(Len(w) + Len(x))
    BY <1>1
  <1>3. \A i \in 1..(Len(w) + Len(x)) :
           (w \o x)[i] = IF i <= Len(w) THEN w[i] ELSE x[i - Len(w)]
    OBVIOUS
  <1>4. \A i \in DOMAIN (w \o x) : i \notin DOMAIN w => i - Len(w) \in DOMAIN x
    BY <1>1, <1>2
  <1>5. \A j \in DOMAIN x : j + Len(w) \in DOMAIN (w \o x) /\ (w \o x)[j + Len(w)] = x[j]
    BY <1>1, <1>2, <1>3
  <1>6. \A i \in DOMAIN w : i \in DOMAIN (w \o x) /\ (w \o x)[i] = w[i]
    BY <1>1, <1>2, <1>3
  <1>7. \A i \in DOMAIN (w \o x) : i \notin DOMAIN w => (w \o x)[i] = x[i - Len(w)]
    BY <1>1, <1>2, <1>3
  <1> QED
    BY ONLY <1>4, <1>5, <1>6, <1>7

LEMMA ReceiveKeepsTypes ==
  ASSUME TypeOK, Positions, Receive
  PROVE  TypeOK'
  <1> DEFINE F == [kind : Kinds, id : Ids]
  <1>1. /\ wire # <<>> /\ wire' = Tail(wire) /\ link' = link /\ at' = at
        /\ UNCHANGED <<events, queries, faults>>
    BY DEF Receive, ReceiveResync, ReceiveDuplicate, ReceiveCheckpoint, ReceiveEvent,
           ReceiveError, Receives
  <1>2. Head(wire) \in F /\ Tail(wire) \in Seq(F)
    <2>1. wire \in Seq(F)
      BY DEF TypeOK
    <2> HIDE DEF F
    <2> QED
      BY <1>1, <2>1, HeadAndTail
  <1>3. Head(wire).id \in Ids
    BY <1>2
  <1>4. /\ EventsTypeOK' /\ link' \in {"connecting", "open", "reconnecting"} /\ at' \in Ids
        /\ wire' \in Seq(F) /\ fetching' \subseteq Views /\ mine' \subseteq Kept \cap fetching'
        /\ loaded' \subseteq Views /\ read' \in [Kept -> SUBSET Events]
        /\ shown' \in [Kept -> SUBSET Events] /\ missed' \in [Kept -> SUBSET Events]
        /\ faults' \in 0..MaxFaults
    BY <1>1, <1>2 DEF TypeOK, EventsTypeOK, events, queries
  <1>5. /\ Recover =>
              /\ pending' \subseteq Views /\ draining' \in BOOLEAN /\ drained' \subseteq Views
              /\ recovery' \in {"off", "wait", "refetch", "flush"} /\ awaited' \subseteq Views
              /\ strays' \subseteq SUBSET Views
        /\ \A views \in SUBSET Views : Schedule(views) =>
              /\ scheduled' \subseteq Views /\ pending' \subseteq Views /\ draining' \in BOOLEAN
              /\ drained' \subseteq Views /\ awaited' \subseteq Views
              /\ recovery' \in {"off", "wait", "refetch", "flush"} /\ strays' \subseteq SUBSET Views
    BY DEF TypeOK, Recover, Schedule
  <1>6. CASE ReceiveResync
    BY <1>4, <1>5, <1>6, NobodysIds DEF TypeOK, ReceiveResync
  <1>7. CASE ReceiveDuplicate
    BY <1>3, <1>4, <1>7 DEF TypeOK, ReceiveDuplicate, sync
  <1>8. outbox \subseteq Events /\ \A a \in Aggregates : last[a] \in Nat
    BY DEF TypeOK, EventsTypeOK
  <1>9. /\ Head(wire).kind = "checkpoint" => Head(wire).id \in outbox \cup {Empty}
        /\ Head(wire).kind = "event" => Head(wire).id \in outbox
    <2>1. wire \in Seq(F)
      BY DEF TypeOK
    <2>2. Head(wire) = wire[1] /\ 1 \in DOMAIN wire
      <3> HIDE DEF F
      <3> QED
        BY <1>1, <2>1, HeadAndTail
    <2> QED
      BY <2>2 DEF Positions
  <1>10. CASE ReceiveCheckpoint
    <2>1. Head(wire).kind = "checkpoint"
      BY <1>10 DEF ReceiveCheckpoint, Receives
    <2>2. cursor' = Head(wire).id /\ stored' = Head(wire).id /\ seen' = seen \cup {Head(wire).id}
      BY <1>10 DEF ReceiveCheckpoint, Accept
    <2>3. Head(wire).id \in Events \cup {Empty}
      BY <1>8, <1>9, <2>1
    <2> QED
      BY <1>3, <1>4, <1>5, <1>10, <2>2, <2>3, ViewsAssumption DEF TypeOK, ReceiveCheckpoint
  <1>11. CASE ReceiveEvent
    <2> DEFINE e == Head(wire).id
    <2>1. /\ Head(wire).kind = "event" /\ cursor' = e /\ stored' = e /\ seen' = seen \cup {e}
          /\ Count(e) /\ OnEvent(e)
      BY <1>11 DEF ReceiveEvent, Receives, Accept
    <2>2. e \in Events
      BY <1>8, <1>9, <2>1
    <2>3. sequence[e] \in Nat /\ AggregateOf[e] \in Aggregates
      BY <2>2, EventsAssumption DEF TypeOK, EventsTypeOK
    <2>4. last' \in [Aggregates -> Nat]
      BY <2>1, <2>3 DEF TypeOK, Count
    <2>5. CASE Recover /\ UNCHANGED scheduled
      BY <1>3, <1>4, <1>5, <2>1, <2>2, <2>4, <2>5 DEF TypeOK
    <2>6. CASE Schedule(Views)
      BY <1>3, <1>4, <1>5, <2>1, <2>2, <2>4, <2>6 DEF TypeOK
    <2> QED
      BY <2>1, <2>5, <2>6 DEF OnEvent
  <1>12. CASE ReceiveError
    BY <1>4, <1>5, <1>12, NobodysIds, ViewsAssumption DEF TypeOK, ReceiveError, Accept
  <1> QED
    BY <1>6, <1>7, <1>10, <1>11, <1>12 DEF Receive

LEMMA TypeKeeps ==
  ASSUME TypeOK, EventsInv, Positions, Next
  PROVE  TypeOK'
  <1>1. EventsTypeOK'
    BY EventsInvStep DEF EventsInv
  <1>2. Fault => faults' \in 0..MaxFaults
    BY ViewsAssumption DEF Fault, TypeOK
  <1>3. CASE OutboxStep
    BY <1>1, <1>3 DEF TypeOK, OutboxStep, stream, sync, queries
  <1>4. CASE Send \/ SendError
    BY <1>4, SendKeepsTypes
  <1>5. CASE Receive
    BY <1>5, ReceiveKeepsTypes
  <1>6. CASE Drop
    BY <1>1, <1>2, <1>6, NobodysIds DEF TypeOK, Drop, sync, queries
  <1>7. CASE Connect
    BY <1>1, <1>7 DEF TypeOK, Connect, Recover, sync, queries
  <1>8. CASE Reload
    <2>1. outbox \subseteq Events
      BY DEF TypeOK, EventsTypeOK
    <2>2. /\ read' \in [Kept -> SUBSET Events] /\ shown' \in [Kept -> SUBSET Events]
          /\ missed' \in [Kept -> SUBSET Events] /\ last' \in [Aggregates -> Nat]
      BY <1>8, <2>1 DEF Reload
    <2>3. wire' \in Seq([kind : Kinds, id : Ids])
      BY <1>8 DEF Reload
    <2> QED
      BY <1>1, <1>2, <1>8, <2>2, <2>3, NobodysIds DEF TypeOK, Reload
  <1>9. Gathered \subseteq Views /\ pending \subseteq Views
    BY DEF TypeOK, Gathered
  <1>10. CASE TimerFires
    <2>1. CASE Invalidate(Gathered)
      BY <1>1, <1>9, <1>10, <2>1, InvalidateKeepsTypes DEF TypeOK, TimerFires, stream
    <2>2. CASE UNCHANGED queries
      BY <1>1, <1>9, <1>10, <2>2 DEF TypeOK, TimerFires, stream, queries
    <2> QED
      BY <1>10, <2>1, <2>2 DEF TimerFires
  <1>11. CASE DrainContinues
    <2>1. CASE Invalidate(pending)
      BY <1>1, <1>9, <1>11, <2>1, InvalidateKeepsTypes DEF TypeOK, DrainContinues, stream
    <2>2. CASE UNCHANGED queries
      BY <1>1, <1>9, <1>11, <2>2 DEF TypeOK, DrainContinues, stream, queries
    <2> QED
      BY <1>11, <2>1, <2>2 DEF DrainContinues
  <1>12. CASE RecoveryRefetches
    BY <1>1, <1>12, RefetchKeepsTypes, ViewsAssumption DEF TypeOK, RecoveryRefetches, stream
  <1>13. CASE RecoveryFlushes
    <2>1. CASE Invalidate(pending)
      BY <1>1, <1>9, <1>13, <2>1, InvalidateKeepsTypes DEF TypeOK, RecoveryFlushes, stream
    <2>2. CASE UNCHANGED queries
      BY <1>1, <1>9, <1>13, <2>2 DEF TypeOK, RecoveryFlushes, stream, queries
    <2> QED
      BY <1>13, <2>1, <2>2 DEF RecoveryFlushes
  <1>14. CASE StrayFlushes
    <2>1. CASE Invalidate(pending)
      BY <1>1, <1>9, <1>14, <2>1, InvalidateKeepsTypes DEF TypeOK, StrayFlushes, stream
    <2>2. CASE UNCHANGED queries
      BY <1>1, <1>9, <1>14, <2>2 DEF TypeOK, StrayFlushes, stream, queries
    <2> QED
      BY <1>14, <2>1, <2>2 DEF StrayFlushes
  <1>15. ASSUME NEW v \in Views, FetchElsewhere(v) PROVE TypeOK'
    <2>1. outbox \subseteq Events
      BY DEF TypeOK, EventsTypeOK
    <2>2. read' \in [Kept -> SUBSET Events]
      BY <1>15, <2>1 DEF FetchElsewhere, TypeOK
    <2> QED
      BY <1>1, <1>2, <1>15, <2>2 DEF TypeOK, FetchElsewhere, stream, sync
  <1>16. ASSUME NEW v \in Views, FetchEnds(v) PROVE TypeOK'
    <2>1. /\ read' \in [Kept -> SUBSET Events] /\ shown' \in [Kept -> SUBSET Events]
          /\ missed' \in [Kept -> SUBSET Events]
      BY <1>16 DEF FetchEnds, TypeOK
    <2>2. strays' \subseteq SUBSET Views
      BY <1>16 DEF FetchEnds, TypeOK
    <2> QED
      BY <1>1, <1>16, <2>1, <2>2 DEF TypeOK, FetchEnds, stream
  <1> QED
    BY <1>3, <1>4, <1>5, <1>6, <1>7, <1>8, <1>10, <1>11, <1>12, <1>13, <1>14, <1>15, <1>16
    DEF Next

-----------------------------------------------------------------------------
\* Positions, and what is read.

LEMMA PositionsKeep ==
  ASSUME TypeOK, EventsInv, Positions, Next
  PROVE  Positions'
  <1> DEFINE F == [kind : Kinds, id : Ids]
  <1>1. outbox \subseteq outbox'
    BY OutboxGrows
  <1>2. wire \in Seq(F)
    BY DEF TypeOK
  <1>3. /\ Position(None)' /\ Position(Empty)' /\ Position(Unknown)'
        /\ \A id : Position(id) => Position(id)'
    BY <1>1 DEF Position
  <1>4. CASE SendPage
    <2>1. PICK n \in 1..PageLimit : \E page \in [1..n -> Events] :
            /\ IsPage(page)
            /\ Write([i \in 1..n |-> Frame("event", page[i])])
            /\ at' = page[n]
      BY <1>4 DEF SendPage
    <2>2. PICK page \in [1..n -> Events] :
            /\ IsPage(page)
            /\ Write([i \in 1..n |-> Frame("event", page[i])])
            /\ at' = page[n]
      BY <2>1
    <2>3. n \in Nat /\ n \in 1..n
      BY ViewsAssumption
    <2>4. \A i \in 1..n : page[i] \in outbox
      BY <2>2 DEF IsPage, Following
    <2> DEFINE new == [i \in 1..n |-> Frame("event", page[i])]
    <2>5. /\ \A i \in DOMAIN new : new[i].kind = "event" /\ new[i].id \in outbox
      BY <2>4 DEF Frame
    <2>6. \A i \in DOMAIN new : new[i] \in F
      BY <2>2 DEF Frame, Kinds, Ids
    <2>7. new \in Seq(F)
      BY <2>3, <2>6
    <2>8. wire' = wire \o new
      BY <2>2 DEF Write
    <2> HIDE DEF new, F
    <2>9. \A i \in DOMAIN wire' :
             \/ i \in DOMAIN wire /\ wire'[i] = wire[i]
             \/ \E j \in DOMAIN new : wire'[i] = new[j]
      BY <1>2, <2>7, <2>8, Concatenates
    <2>10. /\ \A i \in DOMAIN wire' : Position(wire[i].id)'
           /\ \A i \in DOMAIN wire' : wire'[i].kind = "event" => wire'[i].id \in outbox'
           /\ \A i \in DOMAIN wire' : wire'[i].kind = "checkpoint" => wire'[i].id \in outbox' \cup {Empty}
      BY <1>1, <1>3, <2>5, <2>9 DEF Positions, Position
    <2>11. at' \in outbox
      BY <2>2, <2>3, <2>4
    <2> QED
      BY <1>1, <1>3, <2>2, <2>10, <2>11 DEF Positions, Write, Position
  <1>5. ASSUME NEW f \in F, Position(f.id), f.kind # "event",
               f.kind = "checkpoint" => f.id \in outbox \cup {Empty}, wire' = wire \o <<f>>
        PROVE  /\ \A i \in DOMAIN wire' : Position(wire[i].id)'
               /\ \A i \in DOMAIN wire' : wire'[i].kind = "event" => wire'[i].id \in outbox'
               /\ \A i \in DOMAIN wire' :
                    wire'[i].kind = "checkpoint" => wire'[i].id \in outbox' \cup {Empty}
    <2>1. <<f>> \in Seq(F) /\ \A j \in DOMAIN <<f>> : <<f>>[j] = f
      OBVIOUS
    <2> HIDE DEF F
    <2>2. \A i \in DOMAIN wire' :
             \/ i \in DOMAIN wire /\ wire'[i] = wire[i]
             \/ \E j \in DOMAIN <<f>> : wire'[i] = <<f>>[j]
      BY <1>2, <1>5, <2>1, Concatenates
    <2>3. \A i \in DOMAIN wire' : (i \in DOMAIN wire /\ wire'[i] = wire[i]) \/ wire'[i] = f
      BY <2>1, <2>2
    <2> QED
      BY <1>1, <1>3, <1>5, <2>3 DEF Positions
  <1>6. CASE SendCheckpoint
    <2>1. PICK c \in Events \cup {Empty} :
            IsCheckpoint(c) /\ Write(<<Frame("checkpoint", c)>>) /\ at' = c
      BY <1>6 DEF SendCheckpoint
    <2>2. c \in outbox \cup {Empty} /\ Position(c)
      BY <2>1 DEF IsCheckpoint, Position
    <2>3. /\ Frame("checkpoint", c) \in F /\ Frame("checkpoint", c).kind = "checkpoint"
          /\ Frame("checkpoint", c).id = c
      BY <2>1 DEF Frame, Kinds, Ids
    <2> QED
      BY <1>1, <1>3, <1>5, <2>1, <2>2, <2>3 DEF Positions, Write
  <1>7. CASE SendResync
    <2>1. /\ Frame("resync", None) \in F /\ Frame("resync", None).kind = "resync"
          /\ Frame("resync", None).id = None
      BY NobodysIds DEF Frame, Kinds
    <2> QED
      BY <1>1, <1>3, <1>5, <1>7, <2>1 DEF Positions, Write, SendResync, Position
  <1>8. CASE SendError
    <2>1. /\ Frame("error", Unknown) \in F /\ Frame("error", Unknown).kind = "error"
          /\ Frame("error", Unknown).id = Unknown
      BY NobodysIds DEF Frame, Kinds
    <2> QED
      BY <1>1, <1>3, <1>5, <1>8, <2>1 DEF Positions, Write, SendError, Position
  <1>9. CASE Receive
    <2>1. /\ wire # <<>> /\ wire' = Tail(wire) /\ at' = at
      BY <1>9 DEF Receive, ReceiveResync, ReceiveDuplicate, ReceiveCheckpoint, ReceiveEvent,
             ReceiveError, Receives
    <2> HIDE DEF F
    <2>2. \A i \in DOMAIN wire' : i + 1 \in DOMAIN wire /\ wire'[i] = wire[i + 1]
      BY <1>2, <2>1, HeadAndTail
    <2>3. /\ \A i \in DOMAIN wire' : Position(wire[i].id)'
          /\ \A i \in DOMAIN wire' : wire'[i].kind = "event" => wire'[i].id \in outbox'
          /\ \A i \in DOMAIN wire' : wire'[i].kind = "checkpoint" => wire'[i].id \in outbox' \cup {Empty}
      BY <1>1, <1>3, <2>2 DEF Positions
    <2>4. Head(wire) = wire[1] /\ 1 \in DOMAIN wire
      BY <1>2, <2>1, HeadAndTail
    <2>5. Position(Head(wire).id)
      BY <2>4 DEF Positions
    <2>6. /\ Head(wire).kind = "checkpoint" => Head(wire).id \in outbox \cup {Empty}
          /\ Head(wire).kind = "event" => Head(wire).id \in outbox
      BY <2>4 DEF Positions
    <2>7. Position(cursor') /\ Position(stored') /\ seen' \subseteq outbox \cup {Empty}
      <3>1. CASE ReceiveResync
        BY <3>1 DEF ReceiveResync, Position, Positions
      <3>2. CASE ReceiveDuplicate
        BY <3>2, <2>5 DEF ReceiveDuplicate, Positions
      <3>3. CASE ReceiveCheckpoint
        BY <3>3, <2>5, <2>6 DEF ReceiveCheckpoint, Receives, Accept, Positions
      <3>4. CASE ReceiveEvent
        BY <3>4, <2>5, <2>6 DEF ReceiveEvent, Receives, Accept, Positions
      <3>5. CASE ReceiveError
        BY <3>5 DEF ReceiveError, Receives, Accept, Positions, Position
      <3> QED
        BY <1>9, <3>1, <3>2, <3>3, <3>4, <3>5 DEF Receive
    <2> QED
      BY <1>1, <1>3, <2>1, <2>3, <2>7 DEF Positions, Position
  <1>10. CASE Drop
    BY <1>1, <1>3, <1>10 DEF Positions, Drop
  <1>11. CASE Connect
    BY <1>1, <1>3, <1>11 DEF Positions, Connect
  <1>12. CASE Reload
    BY <1>1, <1>3, <1>12 DEF Positions, Reload
  <1>13. CASE UNCHANGED stream
    BY <1>1, <1>3, <1>13 DEF Positions, stream
  <1> QED
    BY <1>4, <1>6, <1>7, <1>8, <1>9, <1>10, <1>11, <1>12, <1>13
    DEF Next, Send, OutboxStep, TimerFires, DrainContinues, RecoveryRefetches, RecoveryFlushes,
        StrayFlushes, FetchElsewhere, FetchEnds

LEMMA InvalidateReads ==
  ASSUME TypeOK, Reads, NEW views, Invalidate(views)
  PROVE  \A v \in Kept :
            /\ shown'[v] \subseteq outbox /\ read'[v] \subseteq outbox
            /\ v \in fetching' => shown'[v] \subseteq read'[v]
            /\ v \in views => v \in fetching' /\ outbox \subseteq read'[v] \cup missed'[v]
            /\ v \in fetching => v \in fetching' /\ read[v] \subseteq read'[v]
            /\ missed[v] \subseteq missed'[v] /\ shown[v] = shown'[v]
  BY DEF Invalidate, Reads, TypeOK

LEMMA RefetchReads ==
  ASSUME TypeOK, Reads, Refetch
  PROVE  \A v \in Kept :
            /\ shown'[v] \subseteq outbox /\ read'[v] \subseteq outbox
            /\ v \in fetching' /\ shown'[v] \subseteq read'[v]
            /\ outbox \subseteq read'[v] \cup missed'[v]
            /\ missed[v] \subseteq missed'[v] /\ shown[v] = shown'[v]
  BY DEF Refetch, Reads, TypeOK, Kept, Restarted

LEMMA ReadsKeep ==
  ASSUME TypeOK, EventsInv, Reads, Next
  PROVE  Reads'
  <1>1. outbox \subseteq outbox'
    BY OutboxGrows
  <1>2. ASSUME NEW views, Invalidate(views) PROVE Reads'
    BY <1>1, <1>2, InvalidateReads DEF Reads
  <1>3. CASE Refetch
    BY <1>1, <1>3, RefetchReads DEF Reads
  <1>4. CASE UNCHANGED queries
    BY <1>1, <1>4 DEF Reads, queries
  <1>5. CASE Reload
    BY <1>1, <1>5 DEF Reload, Reads
  <1>6. ASSUME NEW v \in Views, FetchElsewhere(v) PROVE Reads'
    BY <1>1, <1>6 DEF FetchElsewhere, Reads
  <1>7. ASSUME NEW v \in Views, FetchEnds(v) PROVE Reads'
    BY <1>1, <1>7 DEF FetchEnds, Reads
  <1> QED
    BY <1>2, <1>3, <1>4, <1>5, <1>6, <1>7
    DEF Next, OutboxStep, Send, SendPage, SendCheckpoint, SendResync, SendError, Write, Receive,
        ReceiveResync, ReceiveDuplicate, ReceiveCheckpoint, ReceiveEvent, ReceiveError, Receives,
        Drop, Connect, TimerFires, DrainContinues, RecoveryRefetches, RecoveryFlushes, StrayFlushes

-----------------------------------------------------------------------------
\* What is to be read stays so until it is shown.

LEMMA InvalidateServes ==
  ASSUME TypeOK, Reads, NEW views, Invalidate(views), NEW e \in outbox, NEW v \in Kept,
         Served(e, v), recovery # "wait" \/ recovery' = "wait",
         v \in scheduled \cup pending => v \in views \/ v \in scheduled' \cup pending'
  PROVE  Served(e, v)'
  BY InvalidateReads DEF Served

LEMMA ServedStays ==
  ASSUME TypeOK, EventsInv, Reads, Next, NEW e \in outbox, NEW v \in Kept, Served(e, v)
  PROVE  Served(e, v)'
  <1>1. CASE OutboxStep \/ Send \/ SendError \/ Drop
    BY <1>1 DEF Served, OutboxStep, Send, SendPage, SendCheckpoint, SendResync, SendError, Write,
                Drop, sync, queries
  <1>2. ASSUME \/ Recover /\ UNCHANGED scheduled
               \/ \E views : Schedule(views)
               \/ UNCHANGED sync,
               UNCHANGED queries
        PROVE  Served(e, v)'
    BY <1>2 DEF Served, Recover, Schedule, sync, queries
  <1>3. CASE Receive
    BY <1>2, <1>3 DEF Receive, ReceiveResync, ReceiveDuplicate, ReceiveCheckpoint, ReceiveEvent,
                      ReceiveError, Receives, OnEvent
  <1>4. CASE Connect
    BY <1>2, <1>4 DEF Connect
  <1>5. CASE Reload
    BY <1>5, ViewsAssumption DEF Reload, Served, events, Kept
  <1>6. CASE TimerFires
    <2>1. CASE Invalidate(Gathered) /\ recovery = "off"
      BY <1>6, <2>1, InvalidateServes DEF Gathered, TimerFires
    <2>2. CASE pending' = Gathered /\ UNCHANGED queries
      BY <1>6, <2>2 DEF TimerFires, Gathered, Served, queries
    <2> QED
      BY <1>6, <2>1, <2>2 DEF TimerFires
  <1>7. CASE DrainContinues
    <2>1. CASE Invalidate(pending) /\ recovery = "off"
      BY <1>7, <2>1, InvalidateServes DEF DrainContinues
    <2>2. CASE UNCHANGED <<pending, queries>>
      BY <1>7, <2>2 DEF DrainContinues, Served, queries
    <2> QED
      BY <1>7, <2>1, <2>2 DEF DrainContinues
  <1>8. CASE RecoveryRefetches
    BY <1>8, RefetchReads DEF RecoveryRefetches, Served
  <1>9. CASE RecoveryFlushes
    <2>1. CASE Invalidate(pending) /\ recovery # "wait"
      BY <1>9, <2>1, InvalidateServes DEF RecoveryFlushes
    <2>2. CASE UNCHANGED <<pending, queries>> /\ recovery # "wait"
      BY <1>9, <2>2 DEF RecoveryFlushes, Served, queries
    <2> QED
      BY <1>9, <2>1, <2>2 DEF RecoveryFlushes
  <1>10. CASE StrayFlushes
    <2>1. CASE Invalidate(pending)
      BY <1>10, <2>1, InvalidateServes DEF StrayFlushes
    <2>2. CASE UNCHANGED <<pending, queries>>
      BY <1>10, <2>2 DEF StrayFlushes, Served, queries
    <2> QED
      BY <1>10, <2>1, <2>2 DEF StrayFlushes
  <1>11. ASSUME NEW w \in Views, FetchElsewhere(w) PROVE Served(e, v)'
    BY <1>11 DEF FetchElsewhere, Served, sync
  <1>12. ASSUME NEW w \in Views, FetchEnds(w) PROVE Served(e, v)'
    <2>1. /\ w \in fetching /\ fetching' = fetching \ {w} /\ scheduled' = scheduled
          /\ pending' = pending /\ recovery' = recovery
          /\ shown'[v] = IF v = w THEN read[v] ELSE shown[v]
          /\ read'[v] = IF v = w THEN {} ELSE read[v]
          /\ missed'[v] = IF v = w THEN missed[v] \ read[v] ELSE missed[v]
      BY <1>12 DEF FetchEnds
    <2>2. v \in fetching => shown[v] \subseteq read[v]
      BY DEF Reads
    <2> QED
      BY <2>1, <2>2 DEF Served
  <1> QED
    BY <1>1, <1>3, <1>4, <1>5, <1>6, <1>7, <1>8, <1>9, <1>10, <1>11, <1>12 DEF Next

\* What the page accepts, and a page that is loaded or connected again, read all
\* that has been committed.
LEMMA AllServed ==
  ASSUME TypeOK, Positions,
         \/ ReceiveCheckpoint \/ ReceiveEvent \/ ReceiveResync \/ Reload
         \/ Connect /\ link = "reconnecting"
  PROVE  \A e \in outbox, v \in Kept : Served(e, v)'
  <1>1. Kept \subseteq Views /\ Kept \subseteq Snapshotted
    BY ViewsAssumption DEF Kept
  <1>2. CASE ReceiveCheckpoint
    BY <1>1, <1>2 DEF ReceiveCheckpoint, Schedule, Served
  <1>3. CASE ReceiveEvent
    <2>1. Recover \/ Schedule(Views)
      BY <1>3 DEF ReceiveEvent, OnEvent
    <2> QED
      BY <1>1, <2>1 DEF Recover, Schedule, Served
  <1>4. CASE ReceiveResync \/ (Connect /\ link = "reconnecting")
    <2>1. recovery' = "wait"
      BY <1>4 DEF ReceiveResync, Connect, Recover
    <2> QED
      BY <2>1 DEF Served
  <1>5. CASE Reload
    BY <1>1, <1>5 DEF Reload, Served
  <1> QED
    BY <1>2, <1>3, <1>4, <1>5

-----------------------------------------------------------------------------
\* The invariants.

LEMMA SeenIsServedKeeps ==
  ASSUME IInv, Next
  PROVE  SeenIsServed'
  <1>1. TypeOK /\ EventsInv /\ Positions /\ Reads /\ SeenIsServed
    BY DEF IInv
  <1>2. SUFFICES ASSUME NEW s \in seen' \cap outbox', NEW e \in outbox', NEW v \in Kept,
                        Behind(e, s)'
                 PROVE  Served(e, v)'
    BY DEF SeenIsServed
  <1>3. CASE ReceiveCheckpoint \/ ReceiveEvent
    <2>1. outbox' = outbox
      BY <1>3 DEF ReceiveCheckpoint, ReceiveEvent, Receives, events
    <2> QED
      BY <1>1, <1>3, <2>1, AllServed
  <1>4. CASE UNCHANGED <<events, seen>>
    <2>1. Behind(e, s) /\ s \in seen \cap outbox /\ e \in outbox
      BY <1>2, <1>4 DEF Behind, events
    <2> QED
      BY <1>1, <2>1, ServedStays DEF SeenIsServed
  <1>5. CASE Reload
    BY <1>5 DEF Reload
  <1>6. CASE OutboxStep
    <2>1. EventsNext /\ seen' = seen
      BY <1>6 DEF OutboxStep, stream
    <2>2. s \in outbox
      <3>1. seen \subseteq outbox \cup {Empty} /\ outbox' \subseteq Events
        BY <1>1, OutboxGrows DEF Positions
      <3> QED
        BY <2>1, <3>1, EventsArePairs
    <2>3. sequence'[s] = sequence[s]
      BY <1>1, <2>1, <2>2, CommitsInOrder
    <2>4. CASE e \in outbox
      <3>1. sequence'[e] = sequence[e] /\ (e \notin overtaken' => e \notin overtaken)
        BY <1>1, <2>1, <2>4, CommitsInOrder
      <3>2. Behind(e, s)
        BY <1>2, <2>3, <3>1 DEF Behind
      <3> QED
        BY <1>1, <2>1, <2>2, <2>4, <3>2, ServedStays DEF SeenIsServed
    <2>5. CASE e \notin outbox
      <3>1. e \in Events /\ s \in Events /\ sequence[e] \in Nat /\ sequence[s] \in Nat
        BY <1>1, <2>2, OutboxGrows DEF EventsInv, EventsTypeOK
      <3>2. sequence'[e] = sequence[e] /\ sequence[e] # 0
        BY <1>1, <2>1, <2>5, CommitsInOrder
      <3>3. e \notin overtaken' => Before(s, e)
        BY <1>1, <2>1, <2>2, <2>5, CommitsInOrder
      <3>4. AggregateOf[e] = AggregateOf[s] => sequence[s] < sequence[e]
        BY <1>1, <2>2, <2>5, <3>1, <3>2 DEF EventsInv, NumbersFollowCommits, Rows
      <3> QED
        BY <1>2, <2>3, <3>1, <3>2, <3>3, <3>4 DEF Behind
    <2> QED
      BY <2>4, <2>5
  <1> QED
    BY <1>3, <1>4, <1>5, <1>6
    DEF Next, OutboxStep, Send, SendPage, SendCheckpoint, SendResync, SendError, Write, Receive,
        ReceiveResync, ReceiveDuplicate, ReceiveError, Receives, Drop, Connect, TimerFires,
        DrainContinues, RecoveryRefetches, RecoveryFlushes, StrayFlushes, FetchElsewhere,
        FetchEnds, stream

\* An event ahead of the page's connection is written before the position
\* passes it.
LEMMA SendAnnounces ==
  ASSUME TypeOK, Positions, Send \/ SendError, NEW e \in outbox, Announced(e)
  PROVE  Announced(e)'
  <1> DEFINE F == [kind : Kinds, id : Ids]
  <1>1. wire \in Seq(F) /\ outbox \subseteq Events
    BY DEF TypeOK, EventsTypeOK
  <1>2. ASSUME NEW new \in Seq(F), wire' = wire \o new, outbox' = outbox,
               \/ \E i \in DOMAIN wire :
                    \/ wire[i].kind = "resync"
                    \/ wire[i].kind = "event" /\ wire[i].id = e
                    \/ wire[i].kind = "checkpoint" /\ wire[i].id \in outbox
                       /\ ~Before(wire[i].id, e)
               \/ \E i \in DOMAIN new :
                    \/ new[i].kind = "event" /\ new[i].id = e
                    \/ new[i].kind = "checkpoint" /\ new[i].id \in outbox
                       /\ ~Before(new[i].id, e)
        PROVE  Announced(e)'
    <2> HIDE DEF F
    <2>1. /\ \A i \in DOMAIN wire : i \in DOMAIN wire' /\ wire'[i] = wire[i]
          /\ \A j \in DOMAIN new : \E i \in DOMAIN wire' : wire'[i] = new[j]
      BY <1>1, <1>2, Concatenates
    <2>2. \E i \in DOMAIN wire' :
            \/ wire'[i].kind = "resync"
            \/ wire'[i].kind = "event" /\ wire'[i].id = e
            \/ wire'[i].kind = "checkpoint" /\ wire'[i].id \in outbox /\ ~Before(wire'[i].id, e)
      BY <1>2, <2>1
    <2> QED
      BY <1>2, <2>2 DEF Announced, Before
  <1>3. ASSUME NEW f \in F PROVE <<f>> \in Seq(F) /\ 1 \in DOMAIN <<f>> /\ <<f>>[1] = f
    BY <1>3
  <1>4. Send \/ SendError => outbox' = outbox
    BY DEF Send, SendPage, SendCheckpoint, SendResync, SendError, Write, events
  <1>5. CASE SendPage
    <2>1. PICK n \in 1..PageLimit : \E page \in [1..n -> Events] :
            /\ IsPage(page)
            /\ Write([i \in 1..n |-> Frame("event", page[i])])
            /\ at' = page[n]
      BY <1>5 DEF SendPage
    <2>2. PICK page \in [1..n -> Events] :
            /\ IsPage(page)
            /\ Write([i \in 1..n |-> Frame("event", page[i])])
            /\ at' = page[n]
      BY <2>1
    <2>3. n \in Nat /\ n \in 1..n /\ DOMAIN page = 1..n
      BY ViewsAssumption
    <2> DEFINE new == [i \in 1..n |-> Frame("event", page[i])]
    <2>4. new \in Seq(F)
      <3>1. \A i \in 1..n : new[i] \in F
        BY DEF Frame, Kinds, Ids
      <3> QED
        BY <2>3, <3>1
    <2>5. wire' = wire \o new
      BY <2>2 DEF Write
    <2>6. \A i \in 1..n : i \in DOMAIN new /\ new[i].kind = "event" /\ new[i].id = page[i]
      BY DEF Frame
    <2> HIDE DEF new, F
    <2>7. CASE \E i \in DOMAIN wire :
                    \/ wire[i].kind = "resync"
                    \/ wire[i].kind = "event" /\ wire[i].id = e
                    \/ wire[i].kind = "checkpoint" /\ wire[i].id \in outbox
                       /\ ~Before(wire[i].id, e)
      BY <1>2, <1>4, <1>5, <2>4, <2>5, <2>7 DEF Send
    <2>8. CASE Before(at, e)
      <3>1. e \in Following(at)
        BY <2>8 DEF Following
      <3>2. CASE \E i \in 1..n : page[i] = e
        BY <1>2, <1>4, <1>5, <2>4, <2>5, <2>6, <3>2 DEF Send
      <3>3. CASE \A i \in 1..n : Before(page[i], e)
        <4>1. Before(at', e)
          BY <2>2, <2>3, <3>3
        <4> QED
          BY <4>1 DEF Announced, Before
      <3> QED
        BY <2>2, <2>3, <3>1, <3>2, <3>3 DEF IsPage
    <2> QED
      BY <1>5, <2>7, <2>8 DEF SendPage, Announced
  <1>6. CASE SendCheckpoint
    <2>1. PICK c \in Events \cup {Empty} :
            IsCheckpoint(c) /\ Write(<<Frame("checkpoint", c)>>) /\ at' = c
      BY <1>6 DEF SendCheckpoint
    <2>2. c \in outbox /\ ~Before(c, e)
      BY <2>1 DEF IsCheckpoint, Following
    <2>3. /\ Frame("checkpoint", c) \in F /\ Frame("checkpoint", c).kind = "checkpoint"
          /\ Frame("checkpoint", c).id = c
      BY <2>1 DEF Frame, Kinds, Ids
    <2> QED
      BY <1>2, <1>3, <1>4, <1>6, <2>1, <2>2, <2>3 DEF Write, Send
  <1>7. CASE SendResync
    <2>1. at' = None /\ None \notin outbox'
      BY <1>1, <1>4, <1>7, EventsArePairs DEF SendResync, Send
    <2> QED
      BY <2>1 DEF Announced
  <1>8. CASE SendError
    <2>1. /\ <<Frame("error", Unknown)>> \in Seq(F)
      BY <1>3, NobodysIds DEF Frame, Kinds
    <2>2. wire' = wire \o <<Frame("error", Unknown)>> /\ at' = at
      BY <1>8 DEF SendError, Write
    <2> HIDE DEF F
    <2>3. \A i \in DOMAIN wire : i \in DOMAIN wire' /\ wire'[i] = wire[i]
      BY <1>1, <2>1, <2>2, Concatenates
    <2> QED
      BY <1>4, <1>8, <2>2, <2>3 DEF Announced, Before
  <1> QED
    BY <1>5, <1>6, <1>7, <1>8 DEF Send

LEMMA NothingLostKeeps ==
  ASSUME IInv, Next
  PROVE  NothingLost'
  <1>1. TypeOK /\ EventsInv /\ Positions /\ Reads /\ SeenIsServed /\ NothingLost
    BY DEF IInv
  <1>2. SUFFICES ASSUME NEW e \in outbox' \ overtaken', NEW v \in Kept
                 PROVE  Served(e, v)' \/ ToBeAnnounced(e)'
    BY DEF NothingLost
  <1> DEFINE F == [kind : Kinds, id : Ids]
  <1>3. wire \in Seq(F) /\ outbox \subseteq Events
    BY <1>1 DEF TypeOK, EventsTypeOK
  <1>4. CASE OutboxStep
    <2>1. EventsNext /\ UNCHANGED <<link, at, wire, cursor>>
      BY <1>4 DEF OutboxStep, stream
    <2>2. /\ outbox \subseteq outbox' /\ overtaken \subseteq overtaken'
          /\ outbox' \subseteq Events
      BY <1>1, <2>1, CommitsInOrder, OutboxGrows
    <2>3. None \notin outbox' /\ Empty \notin outbox' /\ Unknown \notin outbox'
      BY <2>2, EventsArePairs
    <2>4. CASE e \in outbox
      <3>1. Served(e, v) => Served(e, v)'
        BY <1>1, <2>4, ServedStays
      <3>2. Served(e, v) \/ ToBeAnnounced(e)
        BY <1>1, <1>2, <2>2, <2>4 DEF NothingLost
      <3>3. /\ at \notin outbox => at \notin outbox'
            /\ cursor \notin outbox => cursor \notin outbox'
        BY <1>1, <2>3 DEF Positions, Position
      <3>4. Announced(e) => Announced(e)'
        BY <2>1, <2>2, <3>3 DEF Announced, Before
      <3>5. ToBeAnnounced(e) => ToBeAnnounced(e)'
        BY <2>1, <3>3, <3>4 DEF ToBeAnnounced, Before
      <3> QED
        BY <3>1, <3>2, <3>5
    <2>5. CASE e \notin outbox
      <3>1. \A p \in outbox : Before(p, e)
        BY <1>1, <1>2, <2>1, <2>5, CommitsInOrder
      <3>2. /\ at \notin outbox' \/ Before(at, e)
            /\ cursor \notin outbox' \/ Before(cursor, e)
        BY <1>1, <2>3, <3>1 DEF Positions, Position
      <3>3. link \in {"connecting", "open", "reconnecting"}
        BY <1>1 DEF TypeOK
      <3> QED
        BY <2>1, <3>2, <3>3 DEF ToBeAnnounced, Announced, Before
    <2> QED
      BY <2>4, <2>5
  <1>5. ASSUME UNCHANGED events
        PROVE  e \in outbox /\ (Served(e, v) \/ ToBeAnnounced(e)) /\ (Served(e, v) => Served(e, v)')
    BY <1>1, <1>2, <1>5, ServedStays DEF NothingLost, events
  <1>6. CASE Send \/ SendError
    <2>1. UNCHANGED events /\ link' = link /\ link = "open"
      BY <1>6 DEF Send, SendPage, SendCheckpoint, SendResync, SendError, Write
    <2>2. Announced(e) => Announced(e)'
      BY <1>1, <1>5, <1>6, <2>1, SendAnnounces
    <2> QED
      BY <1>5, <2>1, <2>2 DEF ToBeAnnounced
  <1>7. CASE ReceiveCheckpoint \/ ReceiveEvent \/ ReceiveResync \/ Reload
    <2>1. UNCHANGED events
      BY <1>7 DEF ReceiveCheckpoint, ReceiveEvent, ReceiveResync, Receives, Reload
    <2> QED
      BY <1>1, <1>5, <1>7, <2>1, AllServed
  <1>8. CASE ReceiveDuplicate \/ ReceiveError
    <2>1. /\ UNCHANGED events /\ link' = link /\ link = "open" /\ at' = at
          /\ wire # <<>> /\ wire' = Tail(wire) /\ Head(wire).kind # "resync"
      BY <1>8 DEF ReceiveDuplicate, ReceiveError, Receives
    <2>2. /\ Head(wire) = wire[1]
          /\ \A i \in DOMAIN wire : i # 1 => i - 1 \in DOMAIN wire' /\ wire'[i - 1] = wire[i]
      <3> HIDE DEF F
      <3> QED
        BY <1>3, <2>1, HeadAndTail
    <2>3. CASE Served(e, v)
      BY <1>5, <2>1, <2>3
    <2>4. CASE \/ Head(wire).kind = "event" /\ Head(wire).id = e
               \/ Head(wire).kind = "checkpoint" /\ Head(wire).id \in outbox
                  /\ ~Before(Head(wire).id, e)
      <3>1. e \in outbox /\ e \in Nat \X Nat
        BY <1>3, <1>5, <2>1, EventsArePairs
      <3>2. Head(wire).id \in outbox /\ ~Before(Head(wire).id, e)
        BY <2>4, <3>1, BeforeIsAnOrder
      <3>3. Head(wire).id \in seen
        BY <1>8, <2>4 DEF ReceiveDuplicate, ReceiveError, Receives
      <3>4. Behind(e, Head(wire).id)
        BY <1>2, <2>1, <3>2 DEF Behind, events
      <3>5. Served(e, v)
        BY <1>1, <3>1, <3>2, <3>3, <3>4 DEF SeenIsServed
      <3> QED
        BY <1>5, <2>1, <3>5
    <2>5. CASE \/ at \notin outbox \/ Before(at, e)
               \/ \E i \in DOMAIN wire : i # 1 /\
                    \/ wire[i].kind = "resync"
                    \/ wire[i].kind = "event" /\ wire[i].id = e
                    \/ wire[i].kind = "checkpoint" /\ wire[i].id \in outbox
                       /\ ~Before(wire[i].id, e)
      <3>1. outbox' = outbox
        BY <2>1 DEF events
      <3>2. CASE at \notin outbox \/ Before(at, e)
        BY <2>1, <3>1, <3>2 DEF ToBeAnnounced, Announced, Before
      <3>3. ASSUME NEW i \in DOMAIN wire, i # 1,
                   \/ wire[i].kind = "resync"
                   \/ wire[i].kind = "event" /\ wire[i].id = e
                   \/ wire[i].kind = "checkpoint" /\ wire[i].id \in outbox
                      /\ ~Before(wire[i].id, e)
            PROVE  ToBeAnnounced(e)'
        <4>1. i - 1 \in DOMAIN wire' /\ wire'[i - 1] = wire[i]
          BY <2>2, <3>3
        <4> QED
          BY <2>1, <3>1, <3>3, <4>1 DEF ToBeAnnounced, Announced, Before
      <3> QED
        BY <2>5, <3>2, <3>3
    <2> QED
      BY <1>5, <2>1, <2>2, <2>3, <2>4, <2>5 DEF ToBeAnnounced, Announced
  <1>9. CASE Drop
    BY <1>9 DEF Drop, ToBeAnnounced
  <1>10. CASE Connect
    <2>1. UNCHANGED events /\ link # "open" /\ link' = "open" /\ at' = cursor
      BY <1>10 DEF Connect
    <2>2. CASE link = "reconnecting"
      BY <1>1, <1>5, <1>10, <2>1, <2>2, AllServed
    <2>3. CASE link = "connecting"
      BY <1>5, <2>1, <2>3 DEF ToBeAnnounced, Announced, Before, events
    <2> QED
      BY <1>1, <2>1, <2>2, <2>3 DEF TypeOK
  <1>11. CASE UNCHANGED <<events, stream>>
    <2>1. ToBeAnnounced(e) => ToBeAnnounced(e)'
      BY <1>11 DEF ToBeAnnounced, Announced, Before, events, stream
    <2> QED
      BY <1>5, <1>11, <2>1
  <1> QED
    BY <1>4, <1>6, <1>7, <1>8, <1>9, <1>10, <1>11
    DEF Next, Receive, TimerFires, DrainContinues, RecoveryRefetches, RecoveryFlushes,
        StrayFlushes, FetchElsewhere, FetchEnds

LEMMA IInvKeeps == IInv /\ [Next]_vars => IInv'
  <1>1. SUFFICES ASSUME IInv, [Next]_vars PROVE IInv'
    OBVIOUS
  <1>2. TypeOK /\ EventsInv /\ Positions /\ Reads
    BY <1>1 DEF IInv
  <1>3. CASE Next
    BY <1>1, <1>2, <1>3, TypeKeeps, EventsInvStep, PositionsKeep, ReadsKeep, SeenIsServedKeeps,
       NothingLostKeeps DEF IInv
  <1>4. CASE UNCHANGED vars
    BY <1>1, <1>4
    DEF vars, events, stream, sync, queries, IInv, TypeOK, EventsTypeOK, EventsInv, Rows,
        LocksHold, NumbersFollowCommits, Positions, Position, Reads, SeenIsServed, Behind,
        Before, Served, NothingLost, ToBeAnnounced, Announced
  <1> QED
    BY <1>1, <1>3, <1>4

THEOREM Invariance == Spec => []IInv
  BY InitKeeps, IInvKeeps, PTL DEF Spec

\* The state of the stream, of the page and of its queries keeps its types.
THEOREM TypeCorrect == Spec => []TypeOK
  <1>1. IInv => TypeOK
    BY DEF IInv
  <1> QED
    BY <1>1, Invariance, PTL

\* The numbers of an aggregate follow its commits, for any events and sessions.
THEOREM NumbersFollowCommitsHolds == Spec => []NumbersFollowCommits
  <1>1. IInv => NumbersFollowCommits
    BY DEF IInv, EventsInv
  <1> QED
    BY <1>1, Invariance, PTL

\* No event that was committed in order is lost on its way to a view, whatever
\* connections, errors, reloads and overlapping recoveries do.
THEOREM NothingLostHolds == Spec => []NothingLost
  <1>1. IInv => NothingLost
    BY DEF IInv
  <1> QED
    BY <1>1, Invariance, PTL

\* What the stream skipped is made up for by the next event of its aggregate.
THEOREM LaterEventsHealHolds == Spec => []LaterEventsHeal
  <1>1. IInv => LaterEventsHeal
    BY DEF IInv, SeenIsServed, Behind, LaterEventsHeal
  <1> QED
    BY <1>1, Invariance, PTL

-----------------------------------------------------------------------------
\* What a view shows.

LEMMA ShownGrows ==
  ASSUME TypeOK, Reads, Next, NEW v \in Kept
  PROVE  Reload \/ shown[v] \subseteq shown'[v]
  <1>1. CASE UNCHANGED shown
    BY <1>1
  <1>2. ASSUME NEW w \in Views, FetchElsewhere(w) PROVE UNCHANGED shown
    BY <1>2 DEF FetchElsewhere
  <1>3. ASSUME NEW w \in Views, FetchEnds(w) PROVE shown[v] \subseteq shown'[v]
    BY <1>3 DEF FetchEnds, Reads
  <1> QED
    BY <1>1, <1>2, <1>3
    DEF Next, OutboxStep, Send, SendPage, SendCheckpoint, SendResync, SendError, Write, Receive,
        ReceiveResync, ReceiveDuplicate, ReceiveCheckpoint, ReceiveEvent, ReceiveError, Receives,
        Drop, Connect, TimerFires, DrainContinues, RecoveryRefetches, RecoveryFlushes,
        StrayFlushes, Invalidate, Refetch, queries

\* ViewsGoForward: a read that is under way, also one that replaced a cancelled read,
\* will show at least what its view shows.
THEOREM ViewsGoForwardHolds == Spec => ViewsGoForward
  <1>1. IInv /\ [Next]_vars => [Reload \/ \A v \in Kept : shown[v] \subseteq shown'[v]]_vars
    BY ShownGrows DEF IInv
  <1> QED
    BY <1>1, Invariance, PTL DEF Spec, ViewsGoForward

-----------------------------------------------------------------------------
\* Refreshes and recoveries wait for each other.

\* Whoever began the read of a kept view waits for it, or is a recovery that has
\* been superseded.
Waits ==
    /\ fetching \cup loaded = Views
    /\ mine \subseteq loaded
    /\ recovery \in {"refetch", "flush"} => ~draining
    /\ \A v \in mine :
       \/ draining /\ v \in drained
       \/ recovery \in {"refetch", "flush"} /\ v \in awaited
       \/ recovery = "wait" /\ ~draining
       \/ \E s \in strays : v \in s

LEMMA InvalidateWaits ==
  ASSUME TypeOK, Waits, NEW views \in SUBSET Views, Invalidate(views)
  PROVE  /\ fetching' \cup loaded' = Views /\ mine' \subseteq loaded'
         /\ \A v \in mine' : v \in mine \/ v \in views
  BY DEF TypeOK, Waits, Invalidate

LEMMA WaitsKeep ==
  ASSUME TypeOK, Waits, Next
  PROVE  Waits'
  <1>1. pending \subseteq Views /\ scheduled \subseteq Views /\ Kept \subseteq Recovered
        /\ Recovered \subseteq Views /\ mine \subseteq Kept \cap fetching
    BY ViewsAssumption DEF TypeOK, Kept
  <1>2. CASE UNCHANGED <<sync, queries>>
    BY <1>2 DEF Waits, sync, queries
  <1>3. ASSUME UNCHANGED queries, Recover PROVE Waits'
    BY <1>3 DEF Waits, queries, Recover, TypeOK
  <1>4. ASSUME UNCHANGED queries, NEW views, Schedule(views) PROVE Waits'
    BY <1>4 DEF Waits, queries, Schedule
  <1>5. CASE Reload
    BY <1>5 DEF Reload, Waits
  <1>6. CASE TimerFires
    <2>1. CASE recovery = "off" /\ ~draining
      <3>1. Gathered \in SUBSET Views /\ Invalidate(Gathered)
        BY <1>1, <1>6, <2>1 DEF TimerFires, Gathered
      <3>2. \A v \in mine : \E s \in strays : v \in s
        BY <2>1 DEF Waits
      <3> QED
        BY <1>6, <2>1, <3>1, <3>2, InvalidateWaits DEF TimerFires, Waits
    <2>2. CASE ~(recovery = "off" /\ ~draining)
      BY <1>6, <2>2 DEF TimerFires, Waits, queries
    <2> QED
      BY <2>1, <2>2
  <1>7. CASE DrainContinues
    <2>1. draining /\ drained = {} /\ recovery \notin {"refetch", "flush"}
      BY <1>7 DEF DrainContinues, RefreshEnds, Waits
    <2>2. \A v \in mine : \E s \in strays : v \in s
      BY <2>1 DEF Waits
    <2>3. CASE Invalidate(pending) /\ drained' = pending /\ draining' = draining
      BY <1>1, <1>7, <2>1, <2>2, <2>3, InvalidateWaits DEF DrainContinues, Waits
    <2>4. CASE UNCHANGED queries /\ draining' = FALSE
      BY <1>7, <2>1, <2>2, <2>4 DEF DrainContinues, Waits, queries
    <2> QED
      BY <1>7, <2>3, <2>4 DEF DrainContinues
  <1>8. CASE RecoveryRefetches
    <2>1. /\ fetching' = fetching \cup Recovered /\ mine' = mine \cup (Kept \cap Restarted)
          /\ loaded' = loaded /\ draining' = draining /\ ~draining
          /\ recovery' = "refetch" /\ awaited' = Recovered
      BY <1>8 DEF RecoveryRefetches, Refetch
    <2>2. Kept \cap Restarted \subseteq loaded
      BY <1>1 DEF Restarted, Waits
    <2>3. fetching' \cup loaded' = Views
      BY <1>1, <2>1 DEF Waits
    <2> QED
      BY <1>1, <2>1, <2>2, <2>3 DEF Waits
  <1>9. CASE RecoveryFlushes
    <2>1. recovery \in {"refetch", "flush"} /\ awaited = {} /\ ~draining
      BY <1>9 DEF RecoveryFlushes, Waits
    <2>2. \A v \in mine : \E s \in strays : v \in s
      BY <2>1 DEF Waits
    <2>3. CASE Invalidate(pending) /\ recovery' = "flush" /\ awaited' = pending
      BY <1>1, <1>9, <2>1, <2>2, <2>3, InvalidateWaits DEF RecoveryFlushes, Waits
    <2>4. CASE UNCHANGED queries /\ recovery' = "off"
      BY <1>9, <2>1, <2>2, <2>4 DEF RecoveryFlushes, Waits, queries
    <2> QED
      BY <1>9, <2>3, <2>4 DEF RecoveryFlushes
  <1>10. CASE StrayFlushes
    <2>1. strays \ {{}} \subseteq strays' /\ UNCHANGED <<draining, drained, recovery, awaited>>
      BY <1>10 DEF StrayFlushes
    <2>2. \A v : (\E s \in strays : v \in s) => \E s \in strays' : v \in s
      BY <2>1
    <2>3. CASE Invalidate(pending) /\ pending \in strays'
      BY <1>1, <2>1, <2>2, <2>3, InvalidateWaits DEF Waits
    <2>4. CASE UNCHANGED queries
      BY <2>1, <2>2, <2>4 DEF Waits, queries
    <2> QED
      BY <1>10, <2>3, <2>4 DEF StrayFlushes
  <1>11. ASSUME NEW w \in Views, FetchElsewhere(w) PROVE Waits'
    BY <1>11 DEF FetchElsewhere, Waits, sync
  <1>12. ASSUME NEW w \in Views, FetchEnds(w) PROVE Waits'
    <2>1. /\ fetching' = fetching \ {w} /\ mine' = mine \ {w} /\ loaded' = loaded \cup {w}
          /\ drained' = drained \ {w} /\ awaited' = awaited \ {w}
          /\ strays' = {s \ {w} : s \in strays} /\ UNCHANGED <<draining, recovery>>
      BY <1>12 DEF FetchEnds
    <2>2. ASSUME NEW v, v # w, NEW s \in strays, v \in s
          PROVE  \E r \in strays' : v \in r
      <3>1. s \ {w} \in strays' /\ v \in s \ {w}
        BY <2>1, <2>2
      <3> QED
        BY <3>1
    <2> QED
      BY <1>12, <2>1, <2>2 DEF Waits
  <1> QED
    BY <1>2, <1>3, <1>4, <1>5, <1>6, <1>7, <1>8, <1>9, <1>10, <1>11, <1>12
    DEF Next, OutboxStep, Send, SendPage, SendCheckpoint, SendResync, SendError, Write, Receive,
        ReceiveResync, ReceiveDuplicate, ReceiveCheckpoint, ReceiveEvent, ReceiveError, Receives,
        OnEvent, Drop, Connect

\* So a refresh that joins an older read finds one that began elsewhere, or
\* there is a superseded recovery.
LEMMA JoinsNothingOlder ==
  ASSUME TypeOK, Waits, Next, NEW v \in Kept, v \in mine, strays = {}
  PROVE  missed'[v] \subseteq missed[v]
  <1>1. v \in Recovered /\ v \in loaded
    BY DEF Waits, Kept
  <1>2. ASSUME NEW views, Invalidate(views), v \notin views
        PROVE  missed'[v] \subseteq missed[v]
    BY <1>2 DEF Invalidate
  <1>3. CASE UNCHANGED missed
    BY <1>3
  <1>4. CASE Reload
    BY <1>4 DEF Reload
  <1>5. CASE TimerFires
    <2>1. ~(recovery = "off" /\ ~draining)
      BY DEF Waits
    <2> QED
      BY <1>5, <2>1 DEF TimerFires, queries
  <1>6. CASE DrainContinues
    <2>1. draining /\ drained = {} /\ recovery # "off"
      BY <1>6 DEF DrainContinues, RefreshEnds, Waits
    <2> QED
      BY <1>6, <2>1 DEF DrainContinues, queries
  <1>7. CASE RecoveryRefetches
    <2>1. v \in Restarted
      BY <1>1 DEF Restarted
    <2> QED
      BY <1>7, <2>1 DEF RecoveryRefetches, Refetch
  <1>8. CASE RecoveryFlushes
    BY <1>8 DEF RecoveryFlushes, Waits
  <1>9. CASE StrayFlushes
    BY <1>9 DEF StrayFlushes
  <1>10. ASSUME NEW w \in Views, FetchElsewhere(w) PROVE missed'[v] \subseteq missed[v]
    BY <1>10 DEF FetchElsewhere
  <1>11. ASSUME NEW w \in Views, FetchEnds(w) PROVE missed'[v] \subseteq missed[v]
    BY <1>11 DEF FetchEnds
  <1> QED
    BY <1>3, <1>4, <1>5, <1>6, <1>7, <1>8, <1>9, <1>10, <1>11
    DEF Next, OutboxStep, Send, SendPage, SendCheckpoint, SendResync, SendError, Write, Receive,
        ReceiveResync, ReceiveDuplicate, ReceiveCheckpoint, ReceiveEvent, ReceiveError, Receives,
        Drop, Connect, queries

\* A refresh never joins an older read of the page's own refreshes and
\* recoveries, unless a recovery that was superseded still runs.
THEOREM RefreshesAreNewHolds == Spec => RefreshesAreNew
  <1>1. Init => Waits
    BY DEF Init, Waits
  <1>2. TypeOK /\ Waits /\ [Next]_vars => Waits'
    <2>1. Waits /\ UNCHANGED vars => Waits'
      BY DEF Waits, vars, sync, queries
    <2> QED
      BY <2>1, WaitsKeep
  <1>3. TypeOK /\ Waits /\ [Next]_vars =>
          [\A v \in Kept : missed'[v] \subseteq missed[v] \/ v \notin mine \/ strays # {}]_vars
    BY JoinsNothingOlder
  <1> QED
    BY <1>1, <1>2, <1>3, TypeCorrect, PTL DEF Spec, RefreshesAreNew
=============================================================================

---------------------------- MODULE RealtimeViews ----------------------------
(***************************************************************************)
(* The stream of domain events to a page of the control plane, and the     *)
(* page's views of the desk.                                               *)
(*                                                                         *)
(* The API polls the outbox for each connection and writes what follows    *)
(* the connection's position.  The page keeps a cursor, tells from an      *)
(* event only which views to read again, and reads them with one refresh   *)
(* at a time: events that come meanwhile are gathered for the next.  When  *)
(* the stream broke, or an aggregate's numbers jump, a recovery reads all  *)
(* views of a list again.  A view may also be read for another reason (its *)
(* component appears, its interval is over), and a refresh that finds the  *)
(* view being read waits for that read and starts none of its own.         *)
(*                                                                         *)
(* Every modelled event concerns every modelled view: they are those of    *)
(* orders, fills, positions and reconciliations, which refresh both views  *)
(* of the instance.  A view is the set of events whose effects it shows.   *)
(* It reads the desk when its request starts, the earliest it can.  Left   *)
(* out: reads that fail, sequences of frames that are not valid events,    *)
(* the effect of an event on the page's own commands, and two pages that   *)
(* share a stored cursor.                                                  *)
(***************************************************************************)
EXTENDS DomainEvents, Sequences

CONSTANTS
    Views,          \* the queries of the page
    Recovered,      \* frontViewNamesForRealtimeRecovery
    Snapshotted,    \* the views of desk.snapshot.updated
    Reported,       \* the views of incident.created
    PageLimit,      \* limit of listAfter
    WireLimit,      \* bound: frames that are written and not received
    MaxFaults       \* bound: errors, lost connections, reloads, other reads

ASSUME ViewsAssumption ==
    /\ Recovered \subseteq Views
    /\ Snapshotted \subseteq Views
    /\ Reported \subseteq Views
    /\ PageLimit \in Nat \ {0}
    /\ WireLimit \in Nat
    /\ MaxFaults \in Nat

VARIABLES
    link,       \* the page's connection
    at,         \* lastEventId of the API's connection, None without one
    wire,       \* frames written and not received
    cursor,     \* lastEventId of the page's transport
    stored,     \* the cursor in the browser's storage
    seen,       \* seenEventIds
    last,       \* lastSequenceByAggregate, 0 for none
    scheduled,  \* views that wait for the 100 ms timer
    pending,    \* pendingViewNames
    draining,   \* there is a refreshPromise
    drained,    \* views whose reads it waits for
    recovery,   \* the current recovery
    awaited,    \* views whose reads it waits for
    strays,     \* of every superseded recovery that still runs: the same
    fetching,   \* views being read
    loaded,     \* views that have data
    mine,       \* kept views whose read a refresh or recovery started
    read,       \* per kept view being read: the events its answer shows
    shown,      \* per kept view: the events it shows
    missed,     \* history, per kept view: events whose refresh joined an
                \* older read
    faults

stream == <<link, at, wire, cursor, stored, seen, last>>
sync == <<scheduled, pending, draining, drained, recovery, awaited, strays>>
queries == <<fetching, mine, loaded, read, shown, missed>>
vars == <<events, stream, sync, queries, faults>>

-----------------------------------------------------------------------------
\* Ids that are no event's: no cursor, front_checkpoint_empty, and the ids of
\* error events, which no row has.
None == <<0, 0>>
Empty == <<0, -1>>
Unknown == <<0, -2>>
Ids == Events \cup {None, Empty, Unknown}

\* The views that both a recovery and a checkpoint read again.  Of the others,
\* only whether they are being read matters.
Kept == Recovered \cap Snapshotted

Kinds == {"event", "checkpoint", "resync", "error"}
Frame(kind, id) == [kind |-> kind, id |-> id]

TypeOK ==
    /\ EventsTypeOK
    /\ link \in {"connecting", "open", "reconnecting"}
    /\ at \in Ids
    /\ wire \in Seq([kind : Kinds, id : Ids])
    /\ cursor \in Ids
    /\ stored \in Ids
    /\ seen \subseteq Events \cup {Empty}
    /\ last \in [Aggregates -> Nat]
    /\ scheduled \subseteq Views
    /\ pending \subseteq Views
    /\ draining \in BOOLEAN
    /\ drained \subseteq Views
    /\ recovery \in {"off", "wait", "refetch", "flush"}
    /\ awaited \subseteq Views
    /\ strays \subseteq SUBSET Views
    /\ fetching \subseteq Views
    /\ mine \subseteq Kept \cap fetching
    /\ loaded \subseteq Views
    /\ read \in [Kept -> SUBSET Events]
    /\ shown \in [Kept -> SUBSET Events]
    /\ missed \in [Kept -> SUBSET Events]
    /\ faults \in 0..MaxFaults

\* A page that is loaded mounts its views, which read the desk at once.
Init ==
    /\ EventsInit
    /\ link = "connecting"
    /\ at = None
    /\ wire = <<>>
    /\ cursor = None
    /\ stored = None
    /\ seen = {}
    /\ last = [a \in Aggregates |-> 0]
    /\ scheduled = {}
    /\ pending = {}
    /\ draining = FALSE
    /\ drained = {}
    /\ recovery = "off"
    /\ awaited = {}
    /\ strays = {}
    /\ fetching = Views
    /\ mine = {}
    /\ loaded = {}
    /\ read = [v \in Kept |-> outbox]
    /\ shown = [v \in Kept |-> {}]
    /\ missed = [v \in Kept |-> {}]
    /\ faults = 0

Fault ==
    /\ faults < MaxFaults
    /\ faults' = faults + 1

-----------------------------------------------------------------------------
\* The API: emit and listAfter.

\* The newest committed event, or Empty.
IsCheckpoint(c) ==
    \/ c = Empty /\ outbox = {}
    \/ c \in outbox /\ Following(c) = {}

\* faulty: stops at the limit and goes on behind what it left out.
IsPageSkipping(page) ==
    /\ \A i \in DOMAIN page : page[i] \in Following(at)
    /\ \A i, j \in DOMAIN page : i < j => Before(page[i], page[j])
    /\ Following(page[Len(page)]) = {}

\* The first events that follow the connection's position.
IsPage(page) ==
    /\ \A i \in DOMAIN page : page[i] \in Following(at)
    /\ \A i, j \in DOMAIN page : i < j => Before(page[i], page[j])
    /\ \A e \in Following(at) :
        \/ \E i \in DOMAIN page : page[i] = e
        \/ Len(page) = PageLimit /\ \A i \in DOMAIN page : Before(page[i], e)

Write(frames) ==
    /\ link = "open"
    /\ Len(wire) < WireLimit
    /\ wire' = wire \o frames
    /\ UNCHANGED <<events, link, cursor, stored, seen, last, sync, queries>>

SendPage ==
    /\ at \in outbox
    /\ \E n \in 1..PageLimit : \E page \in [1..n -> Events] :
        /\ IsPage(page)
        /\ Write([i \in 1..n |-> Frame("event", page[i])])
        /\ at' = page[n]
    /\ UNCHANGED faults

SendCheckpoint ==
    /\ at = None
    /\ \E c \in Events \cup {Empty} :
        /\ IsCheckpoint(c)
        /\ Write(<<Frame("checkpoint", c)>>)
        /\ at' = c
    /\ UNCHANGED faults

SendResync ==
    /\ \/ at = Empty /\ outbox # {}
       \/ at = Unknown
    /\ Write(<<Frame("resync", None)>>)
    /\ at' = None
    /\ UNCHANGED faults

\* The outbox cannot be read: the page gets an event of its own, and the
\* position stays.
SendError ==
    /\ Fault
    /\ Write(<<Frame("error", Unknown)>>)
    /\ UNCHANGED at

-----------------------------------------------------------------------------
\* Reading views.

\* Answer the need to read views again: start a read of those that are not
\* being read, and let the others' reads do.
Invalidate(views) ==
    /\ fetching' = fetching \cup views
    /\ mine' = mine \cup ((Kept \cap views) \ fetching)
    /\ read' = [v \in Kept |-> IF v \in views \ fetching THEN outbox ELSE read[v]]
    /\ missed' = [v \in Kept |->
            IF v \in views \cap fetching
            THEN missed[v] \cup (outbox \ read[v])
            ELSE missed[v]]
    /\ UNCHANGED <<loaded, shown>>

\* refetchQueries: the same, but it cancels a read of a view that has data and
\* starts another.
Restarted == {v \in Recovered : v \in fetching => v \in loaded}

Refetch ==
    /\ fetching' = fetching \cup Recovered
    /\ mine' = mine \cup (Kept \cap Restarted)
    /\ read' = [v \in Kept |-> IF v \in Restarted THEN outbox ELSE read[v]]
    /\ missed' = [v \in Kept |->
            IF v \in Recovered \ Restarted
            THEN missed[v] \cup (outbox \ read[v])
            ELSE missed[v]]
    /\ UNCHANGED <<loaded, shown>>

\* A component appears, or the interval of a query is over.
FetchElsewhere(v) ==
    /\ Fault
    /\ v \notin fetching
    /\ fetching' = fetching \cup {v}
    /\ read' = [w \in Kept |-> IF w = v THEN outbox ELSE read[w]]
    /\ UNCHANGED <<events, stream, sync, mine, loaded, shown, missed>>

FetchEnds(v) ==
    /\ v \in fetching
    /\ fetching' = fetching \ {v}
    /\ mine' = mine \ {v}
    /\ loaded' = loaded \cup {v}
    /\ shown' = [w \in Kept |-> IF w = v THEN read[w] ELSE shown[w]]
    /\ missed' = [w \in Kept |-> IF w = v THEN missed[w] \ read[w] ELSE missed[w]]
    /\ read' = [w \in Kept |-> IF w = v THEN {} ELSE read[w]]
    /\ drained' = drained \ {v}
    /\ awaited' = awaited \ {v}
    /\ strays' = {s \ {v} : s \in strays}
    /\ UNCHANGED <<events, stream, scheduled, pending, draining, recovery, faults>>

-----------------------------------------------------------------------------
\* The synchronizer.

\* recover: it waits for the refresh in progress; a recovery that is flushing
\* goes on beside it.
Recover ==
    /\ recovery' = "wait"
    /\ awaited' = {}
    /\ strays' = IF recovery = "flush" THEN strays \cup {awaited} ELSE strays
    /\ UNCHANGED <<pending, draining, drained>>

Schedule(views) ==
    /\ scheduled' = scheduled \cup views
    /\ UNCHANGED <<pending, draining, drained, recovery, awaited, strays>>

Gathered == pending \cup scheduled

\* The timer: refreshInvalidatedViews.
TimerFires ==
    /\ scheduled # {}
    /\ scheduled' = {}
    /\ IF recovery = "off" /\ ~draining
       THEN /\ draining' = TRUE
            /\ drained' = Gathered
            /\ pending' = {}
            /\ Invalidate(Gathered)
       ELSE /\ pending' = Gathered
            /\ UNCHANGED <<draining, drained, queries>>
    /\ UNCHANGED <<events, stream, recovery, awaited, strays, faults>>

\* faulty: the next refresh does not wait for the reads of this one.
RefreshEndsEarly == draining

RefreshEnds == draining /\ drained = {}

\* drainInvalidatedViews after its await: the next refresh, or none.
DrainContinues ==
    /\ RefreshEnds
    /\ IF recovery = "off" /\ pending # {}
       THEN /\ drained' = pending
            /\ pending' = {}
            /\ Invalidate(pending)
            /\ UNCHANGED draining
       ELSE /\ draining' = FALSE
            /\ UNCHANGED <<pending, drained, queries>>
    /\ UNCHANGED <<events, stream, scheduled, recovery, awaited, strays, faults>>

\* recover after refreshPromise: a flush of a superseded recovery fails when
\* one of the reads it waits for is cancelled.
RecoveryRefetches ==
    /\ recovery = "wait"
    /\ ~draining
    /\ Refetch
    /\ recovery' = "refetch"
    /\ awaited' = Recovered
    /\ strays' = {s \in strays : s \cap Restarted = {}}
    /\ UNCHANGED <<events, stream, scheduled, pending, draining, drained, faults>>

\* faulty: a recovery ends without a look at what came meanwhile.
LeftToFlushNone == {}

LeftToFlush == pending

\* recover after its reads: flushPendingViews until nothing is pending.
RecoveryFlushes ==
    /\ recovery \in {"refetch", "flush"}
    /\ awaited = {}
    /\ IF LeftToFlush # {}
       THEN /\ recovery' = "flush"
            /\ awaited' = pending
            /\ pending' = {}
            /\ Invalidate(pending)
       ELSE /\ recovery' = "off"
            /\ UNCHANGED <<awaited, pending, queries>>
    /\ UNCHANGED <<events, stream, scheduled, draining, drained, strays, faults>>

\* The same loop of a superseded recovery, which does not look whether it is.
StrayFlushes ==
    /\ {} \in strays
    /\ IF pending # {}
       THEN /\ strays' = (strays \ {{}}) \cup {pending}
            /\ pending' = {}
            /\ Invalidate(pending)
       ELSE /\ strays' = strays \ {{}}
            /\ UNCHANGED <<pending, queries>>
    /\ UNCHANGED <<events, stream, scheduled, draining, drained, recovery,
                   awaited, faults>>

-----------------------------------------------------------------------------
\* The page's connection.

Receives(kinds) ==
    /\ link = "open"
    /\ wire # <<>>
    /\ Head(wire).kind \in kinds
    /\ wire' = Tail(wire)
    /\ UNCHANGED <<events, link, at, queries, faults>>

ReceiveResync ==
    /\ Receives({"resync"})
    /\ cursor' = None
    /\ stored' = None
    /\ Recover
    /\ UNCHANGED <<seen, last, scheduled>>

\* A duplicate moves the transport's cursor and nothing else.
ReceiveDuplicate ==
    /\ Receives({"event", "checkpoint"})
    /\ Head(wire).id \in seen
    /\ cursor' = Head(wire).id
    /\ UNCHANGED <<stored, seen, last, sync>>

Accept(id) ==
    /\ cursor' = id
    /\ stored' = id

\* A checkpoint has no number of its own to compare.
ReceiveCheckpoint ==
    /\ Receives({"checkpoint"})
    /\ LET c == Head(wire).id
       IN  /\ c \notin seen
           /\ Accept(c)
           /\ seen' = seen \cup {c}
    /\ Schedule(Snapshotted)
    /\ UNCHANGED last

\* The event's number leaves out numbers after the last one of its aggregate.
Jumps(e) ==
    LET previous == last[AggregateOf[e]]
    IN  previous # 0 /\ sequence[e] > previous + 1

Count(e) ==
    last' = [last EXCEPT ![AggregateOf[e]] = IF @ < sequence[e] THEN sequence[e] ELSE @]

\* faulty: an event after a jump is counted, and no view is read again.
OnEventIgnoringJumps(e) ==
    \/ Jumps(e) /\ UNCHANGED sync
    \/ ~Jumps(e) /\ Schedule(Views)

\* requiresRecovery, or refreshCanonicalQueries (also for an event that comes
\* after a later one of its aggregate).
OnEvent(e) ==
    \/ Jumps(e) /\ Recover /\ UNCHANGED scheduled
    \/ ~Jumps(e) /\ Schedule(Views)

ReceiveEvent ==
    /\ Receives({"event"})
    /\ LET e == Head(wire).id
       IN  /\ e \notin seen
           /\ Accept(e)
           /\ seen' = seen \cup {e}
           /\ Count(e)
           /\ OnEvent(e)

ReceiveError ==
    /\ Receives({"error"})
    /\ Accept(Unknown)
    /\ Schedule(Reported)
    /\ UNCHANGED <<seen, last>>

\* The connection fails, or could not be made.
Drop ==
    /\ Fault
    /\ link \in {"connecting", "open"}
    /\ link' = "reconnecting"
    /\ at' = None
    /\ wire' = <<>>
    /\ UNCHANGED <<events, cursor, stored, seen, last, sync, queries>>

Connect ==
    /\ link # "open"
    /\ link' = "open"
    /\ at' = cursor
    /\ wire' = <<>>
    /\ IF link = "reconnecting"
       THEN Recover /\ UNCHANGED scheduled
       ELSE UNCHANGED sync
    /\ UNCHANGED <<events, cursor, stored, seen, last, queries, faults>>

\* The page is loaded again: it has the stored cursor and nothing else.
Reload ==
    /\ Fault
    /\ link' = "connecting"
    /\ at' = None
    /\ wire' = <<>>
    /\ cursor' = stored
    /\ seen' = {}
    /\ last' = [a \in Aggregates |-> 0]
    /\ scheduled' = {}
    /\ pending' = {}
    /\ draining' = FALSE
    /\ drained' = {}
    /\ recovery' = "off"
    /\ awaited' = {}
    /\ strays' = {}
    /\ fetching' = Views
    /\ mine' = {}
    /\ loaded' = {}
    /\ read' = [v \in Kept |-> outbox]
    /\ shown' = [v \in Kept |-> {}]
    /\ missed' = [v \in Kept |-> {}]
    /\ UNCHANGED <<events, stored>>

-----------------------------------------------------------------------------
OutboxStep == EventsNext /\ UNCHANGED <<stream, sync, queries, faults>>

Send == SendPage \/ SendCheckpoint \/ SendResync
Receive ==
    \/ ReceiveResync
    \/ ReceiveDuplicate
    \/ ReceiveCheckpoint
    \/ ReceiveEvent
    \/ ReceiveError

Next ==
    \/ OutboxStep
    \/ Send
    \/ SendError
    \/ Receive
    \/ Drop
    \/ Connect
    \/ Reload
    \/ TimerFires
    \/ DrainContinues
    \/ RecoveryRefetches
    \/ RecoveryFlushes
    \/ StrayFlushes
    \/ \E v \in Views : FetchElsewhere(v) \/ FetchEnds(v)

Spec == Init /\ [][Next]_vars

\* The API polls, the browser delivers and reconnects, timers fire, promises
\* continue and requests are answered.  Nobody has to commit anything.
Fairness ==
    /\ WF_vars(Send)
    /\ WF_vars(Receive)
    /\ WF_vars(Connect)
    /\ WF_vars(TimerFires)
    /\ WF_vars(DrainContinues)
    /\ WF_vars(RecoveryRefetches)
    /\ WF_vars(RecoveryFlushes)
    /\ WF_vars(StrayFlushes)
    /\ \A v \in Views : WF_vars(FetchEnds(v))

FairSpec == Spec /\ Fairness

-----------------------------------------------------------------------------
\* Properties.

\* v shows e, or a read that will is on its way or to come; or else the refresh
\* for e was answered by a read that had begun before.
Served(e, v) ==
    \/ e \in shown[v]
    \/ v \in fetching /\ e \in read[v]
    \/ v \in scheduled \cup pending
    \/ recovery = "wait"
    \/ e \in missed[v]

\* A frame that is written, or one that the API will write, tells of e.
Announced(e) ==
    \/ at \notin outbox
    \/ Before(at, e)
    \/ \E i \in DOMAIN wire :
        \/ wire[i].kind = "resync"
        \/ wire[i].kind = "event" /\ wire[i].id = e
        \/ wire[i].kind = "checkpoint" /\ wire[i].id \in outbox
           /\ ~Before(wire[i].id, e)

ToBeAnnounced(e) ==
    \/ link = "open" /\ Announced(e)
    \/ link = "connecting" /\ (cursor \notin outbox \/ Before(cursor, e))
    \/ link = "reconnecting"

\* No event is lost on its way to a view: when it was not committed behind a
\* younger one, then every kept view shows it, will read it, or will be told
\* of it, whatever connections, errors, reloads and overlapping recoveries did.
\* The one exception is a refresh that joined an older read (RefreshesAreNew).
NothingLost ==
    \A e \in outbox \ overtaken, v \in Kept : Served(e, v) \/ ToBeAnnounced(e)

\* An event that was committed behind a younger one, and skipped by the stream,
\* is made up for once the page has received a later event of its aggregate,
\* whose number jumps.
LaterEventsHeal ==
    \A e, f \in outbox, v \in Kept :
        (AggregateOf[e] = AggregateOf[f] /\ sequence[e] < sequence[f] /\ f \in seen)
            => Served(e, v)

\* A refresh never joins an older read that a refresh or a recovery began: they
\* wait for each other.  The exceptions are reads that begin elsewhere, and the
\* flush of a superseded recovery, which goes on beside the new one.
RefreshesAreNew ==
    [][\A v \in Kept :
        missed'[v] \subseteq missed[v] \/ v \notin mine \/ strays # {}]_vars

\* A view goes back only with the whole page: however reads are joined, cancelled
\* and begun again, no answer takes an event away that the view has shown.
ViewsGoForward == [][Reload \/ \A v \in Kept : shown[v] \subseteq shown'[v]]_vars

\* When commits have ended (MaxBegins sees to that), every kept view comes to show
\* every event for good: those that were overtaken excepted, and those whose
\* refresh joined an older read.
ViewsCatchUp ==
    <>[](\A e \in outbox \ overtaken, v \in Kept : e \in shown[v] \cup missed[v])
=============================================================================

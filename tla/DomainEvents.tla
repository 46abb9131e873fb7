---------------------------- MODULE DomainEvents -----------------------------
(***************************************************************************)
(* The outbox of domain events.                                            *)
(*                                                                         *)
(* A transaction that changes an aggregate appends an event about it: it   *)
(* takes an advisory lock on the aggregate, which it holds to its end, and *)
(* numbers the event after the aggregate's last one.  A row carries the    *)
(* time its transaction began, and readers follow the rows by that time    *)
(* and then by id, so that a row may appear behind rows already read.      *)
(*                                                                         *)
(* An event is a pair: the time its transaction began, which is its row's  *)
(* created_at_utc, and its id's place in the order of ids.  Appending an   *)
(* event that is there changes nothing and is left out, and so is the end  *)
(* of a transaction that appended none.                                    *)
(***************************************************************************)
EXTENDS Integers

CONSTANTS
    Events,         \* events that are, or may be, appended
    History,        \* those of earlier days, one of an aggregate
    Aggregates,
    AggregateOf,    \* aggregate_type and aggregate_id of an event
    Transactions,   \* database sessions
    MaxBegins       \* bound: how many transactions begin

ASSUME EventsAssumption ==
    /\ Events \subseteq Nat \X (Nat \ {0})
    /\ History = {e \in Events : e[1] = 0}
    /\ \A e, f \in History : AggregateOf[e] = AggregateOf[f] => e = f
    /\ AggregateOf \in [Events -> Aggregates]
    /\ MaxBegins \in Nat

VARIABLES
    begins,     \* how many transactions have begun: the clock of now()
    began,      \* per transaction: when it began, 0 when there is none
    wrote,      \* per transaction: the events it inserted
    sequence,   \* aggregate_sequence of an event, 0 when there is no row
    outbox,     \* domain_event_outbox: the committed events
    overtaken   \* history: events committed behind an event already committed

events == <<begins, began, wrote, sequence, outbox, overtaken>>

EventsTypeOK ==
    /\ begins \in Nat
    /\ began \in [Transactions -> Nat]
    /\ wrote \in [Transactions -> SUBSET Events]
    /\ sequence \in [Events -> Nat]
    /\ outbox \subseteq Events
    /\ overtaken \subseteq outbox

\* The table has its history, which is empty when the table is new.
EventsInit ==
    /\ begins = 0
    /\ began = [t \in Transactions |-> 0]
    /\ wrote = [t \in Transactions |-> {}]
    /\ outbox = History
    /\ sequence = [e \in Events |-> IF e \in outbox THEN 1 ELSE 0]
    /\ overtaken = {}

-----------------------------------------------------------------------------
\* A definition marked "faulty" is not the code's: it is the operator after it
\* with a plausible bug, by which the properties are shown to notice that bug.

\* The order of the stream, domain_event_outbox_stream_idx.
Before(e, f) ==
    \/ e[1] < f[1]
    \/ e[1] = f[1] /\ e[2] < f[2]

Following(e) == {f \in outbox : Before(e, f)}

Of(a) == {e \in Events : AggregateOf[e] = a}

BeginTransaction(t) ==
    /\ began[t] = 0
    /\ begins < MaxBegins
    /\ begins' = begins + 1
    /\ began' = [began EXCEPT ![t] = begins + 1]
    /\ UNCHANGED <<wrote, sequence, outbox, overtaken>>

\* faulty: numbers an event with no lock on its aggregate.
UnlockedFor(t, a) == TRUE

\* pg_advisory_xact_lock: nobody else has an uncommitted event of a.
LockedFor(t, a) == \A u \in Transactions \ {t} : wrote[u] \cap Of(a) = {}

\* MAX(aggregate_sequence) + 1 over the rows the transaction sees.
IsNextSequence(n, t, a) ==
    LET known == (outbox \cup wrote[t]) \cap Of(a)
    IN  /\ \A e \in known : sequence[e] < n
        /\ \/ n = 1
           \/ \E e \in known : sequence[e] = n - 1

AppendEvent(t, e) ==
    /\ began[t] # 0
    /\ began[t] = e[1]
    /\ sequence[e] = 0
    /\ LockedFor(t, AggregateOf[e])
    /\ \E n \in {1} \cup {sequence[f] + 1 : f \in Events} :
        /\ IsNextSequence(n, t, AggregateOf[e])
        /\ sequence' = [sequence EXCEPT ![e] = n]
    /\ wrote' = [wrote EXCEPT ![t] = @ \cup {e}]
    /\ UNCHANGED <<begins, began, outbox, overtaken>>

Commit(t) ==
    /\ wrote[t] # {}
    /\ outbox' = outbox \cup wrote[t]
    /\ overtaken' = overtaken \cup
        {e \in wrote[t] : \E f \in outbox : Before(e, f)}
    /\ began' = [began EXCEPT ![t] = 0]
    /\ wrote' = [wrote EXCEPT ![t] = {}]
    /\ UNCHANGED <<begins, sequence>>

Rollback(t) ==
    /\ wrote[t] # {}
    /\ sequence' = [e \in Events |-> IF e \in wrote[t] THEN 0 ELSE sequence[e]]
    /\ began' = [began EXCEPT ![t] = 0]
    /\ wrote' = [wrote EXCEPT ![t] = {}]
    /\ UNCHANGED <<begins, outbox, overtaken>>

EventsNext ==
    \E t \in Transactions :
        \/ BeginTransaction(t)
        \/ \E e \in Events : AppendEvent(t, e)
        \/ Commit(t)
        \/ Rollback(t)

-----------------------------------------------------------------------------
\* The numbers of an aggregate follow its commits: an event that is not yet
\* committed has a higher number than every committed one of its aggregate,
\* and no two rows share a number.  (A second row with a number already taken
\* would fail its whole transaction on the table's unique constraint, and
\* readers take a jump of the numbers for missing events.)
NumbersFollowCommits ==
    \A e, f \in Events :
        (e # f /\ AggregateOf[e] = AggregateOf[f] /\ sequence[e] # 0) =>
            /\ sequence[e] # sequence[f]
            /\ (e \in outbox /\ sequence[f] # 0 /\ f \notin outbox)
                => sequence[e] < sequence[f]
=============================================================================

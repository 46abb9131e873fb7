\* Three events after the history, two sessions, two faults: an error frame and a
\* lost connection bring a checkpoint that the page has seen.
CONSTANTS
    Events <- MCEvents
    History <- MCHistory
    Aggregates = {setup}
    AggregateOf <- MCAggregateOf
    Transactions = {t1, t2}
    MaxBegins = 3
    Views = {live}
    Recovered = {live}
    Snapshotted = {live}
    Reported = {}
    PageLimit = 2
    WireLimit = 1
    MaxFaults = 2
    setup = setup
    t1 = t1
    t2 = t2
    live = live
SPECIFICATION FairSpec
INVARIANT NumbersFollowCommits
INVARIANT NothingLost
INVARIANT LaterEventsHeal
PROPERTY RefreshesAreNew
PROPERTY ViewsCatchUp
CHECK_DEADLOCK FALSE

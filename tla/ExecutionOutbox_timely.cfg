SPECIFICATION FairSpec
CONSTANTS
    i1 = i1
    h1 = h1
    h2 = h2
    Intents = {i1}
    Handlers = {h1, h2}
    MaxRestarts = 1
    MaxFaults = 1
    MaxToggles = 2
    UpdatesLate = FALSE
INVARIANT DuplicatesCostRestarts
INVARIANT KnownBeforePoll
PROPERTY LockAddsNothing
PROPERTY ExpiryAddsNothing
 

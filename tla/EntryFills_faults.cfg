SPECIFICATION FairSpec
CONSTANTS
    h1 = h1
    h2 = h2
    Handlers = {h1, h2}
    Quantity = 3
    BatchLimit = 2
    MaxFaults = 3
    MaxRestarts = 1
INVARIANT OpenWasExecuted
INVARIANT InOrderExact
INVARIANT NoFillLost
INVARIANT ClosedIsComplete
PROPERTY ExecutionsAreRecorded
CHECK_DEADLOCK FALSE

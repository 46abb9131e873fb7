SPECIFICATION FairSpec
CONSTANTS
    c1 = c1
    m1 = m1
    d1 = d1
    d2 = d2
    Requests <- MCRequests
    Calls = {c1}
    Materializers = {m1}
    UndoEnabled = TRUE
    UndoWindow = 1
    IntentExpiry = 2
    GateExpiries = {}
    MaxNow = 1
    Dispatchers = {d1, d2}
    Quantity = 2
    MaxFaults = 1
INVARIANT SentIsConfirmed
 
INVARIANT CountIsTold
 
PROPERTY FillsArrive
PROPERTY CommandIsAnswered
CHECK_DEADLOCK FALSE

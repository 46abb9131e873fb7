SPECIFICATION GateSpec
CONSTANTS
    c1 = c1
    c2 = c2
    m1 = m1
    Requests <- MCRequests
    Calls = {c1, c2}
    Materializers = {m1}
    UndoEnabled = TRUE
    UndoWindow = 1
    IntentExpiry = 3
    GateExpiries = {0, 2}
    MaxNow = 3
INVARIANT CommandIsConfirmed
INVARIANT RevisionsDecideOnce
PROPERTY GatesEnd
PROPERTY DecisionRefined
PROPERTY KeysSuffice
CHECK_DEADLOCK FALSE

SPECIFICATION GateSpec
CONSTANTS
    c1 = c1
    c2 = c2
    m1 = m1
    Requests <- MCRetried
    Calls = {c1, c2}
    Materializers = {m1}
    UndoEnabled = TRUE
    UndoWindow = 1
    IntentExpiry = 3
    GateExpiries = {2}
    MaxNow = 2
INVARIANT DecisionAppliedOnce
CHECK_DEADLOCK FALSE

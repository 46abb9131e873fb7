SPECIFICATION Spec
CONSTANTS
    i1 = i1
    h1 = h1
    Intents = {i1}
    Handlers = {h1}
    MaxRestarts = 1
    MaxFaults = 0
    MaxToggles = 0
    UpdatesLate = FALSE
SYMMETRY Symmetry
INVARIANT OneOrderPerIntent

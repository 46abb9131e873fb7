SPECIFICATION Spec
CONSTANTS
    i1 = i1
    h1 = h1
    Intents = {i1}
    Handlers = {h1}
    Quantity = 2
    Actions = {"reduce_position"}
    MaxFaults = 0
INVARIANT NoExitTwice

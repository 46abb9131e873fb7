SPECIFICATION FairSpec
CONSTANTS
    i1 = i1
    h1 = h1
    Intents = {i1}
    Handlers = {h1}
    Quantity = 2
    Actions = {"reduce_position", "close_position", "move_stop"}
    MaxFaults = 0
PROPERTY LedgerCatchesUp
PROPERTY SettlementsCountTwice

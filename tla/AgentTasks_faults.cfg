SPECIFICATION FairSpec
CONSTANTS
    r1 = r1
    c1 = c1
    w1 = w1
    w2 = w2
    Roots = {r1, c1}
    ContextRoots = {c1}
    Workers = {w1, w2}
    MaxAttempts = 2
    MaxLapses = 1
    MaxRecoveries <- MCRecoveries
INVARIANT ResultIsOfLastClaim
INVARIANT AttemptsAreBounded
INVARIANT OneTaskOpen
PROPERTY WorkRefined
 
CHECK_DEADLOCK FALSE

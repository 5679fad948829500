SPECIFICATION Spec
CONSTANTS
    c1 = c1
    c2 = c2
    c3 = c3
    p1 = p1
    p2 = p2
    n1 = n1
    SharedKey = SharedKey
    Tools <- AnyStep
    Processes <- TwoProcesses
    Calls <- ThreeCalls
    Nonces <- OneNonce
    Ttl = 1
    Grace = 3
    Skew = 1
    SpendDelay = 1
    Horizon = 6
SYMMETRY CallSymmetry
INVARIANTS TypeOK JudgedOnce OncePerProcess
PROPERTIES JudgedInTime KeepsPromise
CHECK_DEADLOCK FALSE

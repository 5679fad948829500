SPECIFICATION GateFairSpec
CONSTANTS
    c1 = c1
    c2 = c2
    c3 = c3
    c4 = c4
    r1 = r1
    r2 = r2
    r3 = r3
    r4 = r4
    k1 = k1
    k2 = k2
    k3 = k3
    removeItem = removeItem
    lookUp = lookUp
    Tools <- MCTools
    Calls <- MCCalls
    ToolOf <- MCToolOf
    Tokens <- MCTokens
    TokenOf <- MCTokenOf
    Gated <- MCGated
    Budgets <- MCBudgets
    Minute = 3
    Day = 6
    Unit = 3
    Ttl = 2
    Horizon = 8
    GateHorizon = 3
CONSTRAINT OneToolBusy
INVARIANTS GateTypeOK OnePassPerQuestion LapsedTokensGo OnlyPassedCallsCount
    MinuteBound DayBound SlotsMatchCalls ConcurrencyBound RetryAfterIsNear
PROPERTIES PassesInTime KeepsPromise SlotsComeBack
CHECK_DEADLOCK FALSE

CONSTANTS
    h1 = h1
    h2 = h2
    s1 = s1
    s2 = s2
    lo = lo
    hi = hi
    tt = tt
    Hard = {h1}
    Soft = {s1, s2}
    Periodic = {h1, s2}
    NoTimer = NoTimer
    Low = {lo}
    High = {}
    TimerThread = tt
    SoftUsers = {lo, tt}
    TickMod = 11
    FirstTick = 9
    InitTicks <- MCInitTicks
    MaxLag = 1
    Rules = {"manager", "own", "check", "detach"}
SPECIFICATION TimerSpec
INVARIANTS TimerTypeOK ListsOrdered FlagOK
PROPERTIES HardInTime FireOnlyStarted LostOnlyAtSuspend
CHECK_DEADLOCK FALSE

CONSTANTS
    h1 = h1
    h2 = h2
    s1 = s1
    s2 = s2
    lo = lo
    hi = hi
    tt = tt
    Hard = {}
    Soft = {s1, s2}
    Periodic = {}
    NoTimer = NoTimer
    Low = {}
    High = {hi}
    TimerThread = tt
    SoftUsers = {hi}
    TickMod = 11
    FirstTick = 9
    InitTicks <- MCInitTicks
    MaxLag = 1
    Rules = {"manager", "own", "check", "detach", "sentinel"}
SPECIFICATION TimerSpec
INVARIANT NoLostTimer
CHECK_DEADLOCK FALSE

CONSTANTS
    lo = lo
    mid = mid
    hi = hi
    idle = idle
    Thread <- MCThread
    Idle = idle
    Main = lo
    NoThread = NoThread
    MaxPrio = 3
    InitPrio <- MCInitPrio
    NewPrio <- MCNewPrio
    Static <- MCThread
    Cleanup = {}
    MaxNest = 1
    Disciplined = TRUE
    Flag = "PRIO"
    InitValue = 1
    ValueMod = 65536
    MaxBalance = 3
    Times = {"no", "timed", "forever"}
SPECIFICATION SemSpec
INVARIANTS SemTypeOK SemWaitersOK NoIdleToken TokensConserved
CHECK_DEADLOCK FALSE

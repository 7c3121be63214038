CONSTANTS
    lo = lo
    mid = mid
    hi = hi
    idle = idle
    b1 = b1
    b2 = b2
    Thread <- MCThread
    Idle = idle
    Main = lo
    NoThread = NoThread
    MaxPrio = 3
    InitPrio <- MCInitPrio
    NewPrio <- MCNewPrio
    Static <- MCThread
    Cleanup = {}
    MaxNest = 1
    Disciplined = TRUE
    Block = {b1, b2}
    Times = {"timed"}
SPECIFICATION PoolSpec
INVARIANT SuspendCount
CHECK_DEADLOCK FALSE

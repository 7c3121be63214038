CONSTANTS
    lo = lo
    mid = mid
    hi = hi
    idle = idle
    Thread <- MCThread
    Idle = idle
    Main = lo
    NoThread = NoThread
    MaxPrio = 3
    InitPrio <- MCInitPrio
    NewPrio <- MCNewPrio
    Static <- MCThread
    Cleanup = {}
    MaxNest = 0
    Disciplined = TRUE
    b1 = b1
    b2 = b2
    Block = {b1, b2}
    Mail = {b1, b2}
    NoMail = NoMail
    IsrMail = {}
    MbSize = 2
    MbFlag = "FIFO"
    MbTimes = {"no", "timed", "forever"}
    Times = {"no", "forever"}
    Msg = {x, y}
    Pushers = {lo, hi}
    Poppers = {mid}
    NoMsg = NoMsg
    IsrMsg = {x}
SPECIFICATION QueueSpec
INVARIANTS QueueTypeOK BlocksOK PoolWaitersOK NoLostWakeup NoLeak NobodyLeft
PROPERTY QueueIsFifo
CHECK_DEADLOCK FALSE

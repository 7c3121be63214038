CONSTANTS
    lo = lo
    mid = mid
    hi = hi
    idle = idle
    m1 = m1
    m2 = m2
    Thread <- MCThread
    Idle = idle
    Main = lo
    NoThread = NoThread
    MaxPrio = 3
    InitPrio <- MCInitPrio
    NewPrio <- MCNewPrio
    Static <- MCThread
    Cleanup = {}
    MaxNest = 1
    Disciplined = TRUE
    Mutex = {m1}
    NoMutex = NoMutex
    Flag = "PRIO"
    MaxHold = 2
    HoldMod = 256
    Times = {"no", "timed", "forever"}
    Nested = FALSE
SPECIFICATION MutexSpec
INVARIANTS MutexTypeOK WaitersOK MutualExclusion Inheritance PriorityRestored ReadyQueueOK NoMissedPreemption
CHECK_DEADLOCK FALSE

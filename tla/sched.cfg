CONSTANTS
    m = m
    a = a
    b = b
    idle = idle
    Thread <- MCThread
    Idle = idle
    Main = m
    NoThread = NoThread
    MaxPrio = 3
    InitPrio <- MCInitPrio
    Static <- MCStatic
    Cleanup <- MCCleanup
    MaxNest = 2
    NewPrio <- MCNewPrio
    Disciplined = TRUE
SPECIFICATION LiveSpec
INVARIANTS TypeOK ReadyQueueOK TimeoutAssert NoMissedPreemption DefunctOK
PROPERTY RoundRobin
CHECK_DEADLOCK FALSE

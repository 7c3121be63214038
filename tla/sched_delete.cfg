CONSTANTS
    m = m
    a = a
    b = b
    idle = idle
    Thread <- MCThread
    Idle = idle
    Main = m
    NoThread = NoThread
    MaxPrio = 3
    InitPrio <- MCInitPrio
    Static <- MCStatic
    Cleanup <- MCCleanup
    MaxNest = 2
    NewPrio <- MCNewPrio
    Disciplined = FALSE
SPECIFICATION Spec
INVARIANT DeletedUnqueued
CHECK_DEADLOCK FALSE

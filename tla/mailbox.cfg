CONSTANTS
    lo = lo
    mid = mid
    hi = hi
    idle = idle
    Thread <- MCThread
    Idle = idle
    Main = lo
    NoThread = NoThread
    MaxPrio = 3
    InitPrio <- MCInitPrio
    NewPrio <- MCNewPrio
    Static <- MCThread
    Cleanup = {}
    MaxNest = 0
    Disciplined = TRUE
    Mail = {x, y}
    IsrMail = {x}
    NoMail = NoMail
    MbSize = 2
    MbFlag = "FIFO"
    MbTimes = {"no", "timed", "forever"}
SPECIFICATION MbSpec
INVARIANTS MbTypeOK MbWaitersOK MbNoLostWakeup
PROPERTY MailboxIsFifo
CHECK_DEADLOCK FALSE

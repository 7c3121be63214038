------------------------------- MODULE RtSem -------------------------------
(***************************************************************************)
(* The RT-Thread counting semaphore (ipc.c) on top of the scheduler.  It   *)
(* is what bk_rtos_set_semaphore and bk_rtos_get_semaphore call; the       *)
(* drivers release it from their interrupt handlers.                       *)
(*                                                                         *)
(* A release with a waiter hands its token to the first waiter and leaves  *)
(* value at 0.  balance is the callers' view: the tokens they put in minus *)
(* the tokens that rt_sem_take said they got.                              *)
(***************************************************************************)
EXTENDS RtSched

CONSTANTS
    Flag,        \* "FIFO" or "PRIO": parent.flag
    InitValue,   \* the value given to rt_sem_init
    ValueMod,    \* 2^16: sem->value is an rt_uint16_t
    MaxBalance,  \* bound on the tokens put in and not yet taken
    Times        \* the time arguments used: "no" (0), "timed", "forever" (< 0)

ASSUME SemAssumption ==
    /\ Flag \in {"FIFO", "PRIO"}
    /\ ValueMod \in Nat /\ MaxBalance \in Nat /\ MaxBalance < ValueMod
    /\ InitValue \in 0..MaxBalance
    /\ Times \subseteq {"no", "timed", "forever"}

VARIABLES
    value,       \* sem->value
    waitq,       \* sem->parent.suspend_thread
    alive,       \* the semaphore has not been detached
    balance      \* the callers' view

semVars == <<value, waitq, alive, balance>>
vars == <<schedVars, semVars>>

SemPc == {"run", "unsched", "sched", "sleep", "woken", "startup",
          "take", "take_chk", "detach", "detach_one"}
-----------------------------------------------------------------------------
\* rt_sem_init
SemInit ==
    /\ Init
    /\ value = InitValue
    /\ waitq = <<>>
    /\ alive = TRUE
    /\ balance = InitValue

InTake(t) == pc[t] \in {"take", "take_chk"}

\* t has been given a token but its rt_sem_take has not returned yet.
Granted(t) == InTake(t) /\ stat[t] = "ready" /\ error[t] = "EOK"

\* rt_sem_take of an available semaphore,
AvailableAtZero == value >= 0
Available == value > 0

TakeNow(t) ==
    /\ Available
    /\ value' = value - 1
    /\ balance' = balance - 1
    /\ UNCHANGED <<schedVars, waitq, alive>>

\* with time 0 (rt_sem_trytake): thread->error is left alone,
TakeRefused(t) == ~Available /\ UNCHANGED vars

\* with a waiting time,
TakeWait(t, time) ==
    /\ ~Available /\ MayBlock
    /\ error' = [error EXCEPT ![t] = "EOK"]
    /\ stat' = [stat EXCEPT ![t] = "suspend"]
    /\ rq' = rt_schedule_remove_thread(rq, t, prio[t])
    /\ waitq' = ListInsert(Flag, waitq, t, prio)
    /\ timer' = [timer EXCEPT ![t] = (time = "timed")]
    /\ Goto(t, "take")
    /\ UNCHANGED <<prio, defunct, current, lockNest, tgt, value, alive, balance>>

rt_sem_take(t, time) ==
    /\ InApp(t) /\ alive
    /\ \/ TakeNow(t)
       \/ time = "no" /\ TakeRefused(t)
       \/ time # "no" /\ TakeWait(t, time)

\* the rt_schedule of a waiting rt_sem_take,
TakeSchedule(t) ==
    /\ At(t, "take")
    /\ current' = rt_schedule(rq)
    /\ Goto(t, "take_chk")
    /\ UNCHANGED <<rq, stat, prio, timer, error, defunct, lockNest, tgt, semVars>>

\* and its return.
TakeReturn(t) ==
    /\ At(t, "take_chk")
    /\ balance' = IF error[t] = "EOK" THEN balance - 1 ELSE balance
    /\ Goto(t, "run")
    /\ UNCHANGED <<rq, stat, prio, timer, error, defunct, current, lockNest, tgt>>
    /\ UNCHANGED <<value, waitq, alive>>

\* rt_ipc_list_resume, rt_thread_resume in it.
ResumeFirst ==
    LET w == Head(waitq)
    IN  /\ waitq' = Tail(waitq)
        /\ stat' = [stat EXCEPT ![w] = "ready"]
        /\ timer' = rt_timer_stop(w)
        /\ rq' = rt_schedule_insert_thread(rq, w, prio[w])

\* The section of rt_sem_release: hand over, or count.
HandOverCounted == (value + 1) % ValueMod
HandOverValue == value

NeverWakes == FALSE
MustWake == waitq # <<>>

ReleaseWake == MustWake /\ ResumeFirst /\ value' = HandOverValue /\ UNCHANGED error

ReleaseCount ==
    /\ ~MustWake
    /\ value' = (value + 1) % ValueMod
    /\ UNCHANGED <<rq, stat, timer, error, waitq>>

MayRelease == alive /\ balance < MaxBalance

\* rt_sem_release by a thread,
rt_sem_release(t) ==
    /\ InApp(t) /\ MayRelease
    /\ \/ ReleaseWake /\ Goto(t, "sched")
       \/ ReleaseCount /\ UNCHANGED pc
    /\ balance' = balance + 1
    /\ UNCHANGED <<prio, defunct, current, lockNest, tgt, alive>>

\* and by a driver's interrupt handler, where rt_schedule switches at once.
IsrRelease ==
    /\ MayRelease
    /\ \/ ReleaseWake /\ current' = rt_schedule(rq')
       \/ ReleaseCount /\ UNCHANGED current
    /\ balance' = balance + 1
    /\ UNCHANGED <<prio, defunct, lockNest, tgt, pc, alive>>

\* rt_ipc_list_resume_all inside one section: all waiters get -RT_ERROR and
\* become ready in the order of the list.
ResumeAll ==
    /\ rq' = InsertAll(rq, waitq, prio)
    /\ stat' = [t \in Thread |-> IF Contains(waitq, t) THEN "ready" ELSE stat[t]]
    /\ error' = [t \in Thread |-> IF Contains(waitq, t) THEN "ERROR" ELSE error[t]]
    /\ timer' = [t \in Thread |-> timer[t] /\ ~Contains(waitq, t)]
    /\ waitq' = <<>>

\* rt_sem_control(RT_IPC_CMD_RESET, v).  Tokens already granted stay granted.
rt_sem_control(t, v) ==
    /\ InApp(t) /\ alive
    /\ ResumeAll
    /\ value' = v % ValueMod
    /\ balance' = v + Cardinality({u \in Thread : Granted(u)})
    /\ Goto(t, "sched")
    /\ UNCHANGED <<prio, defunct, current, lockNest, tgt, alive>>

\* rt_sem_detach (rt_sem_delete has the same loop): callers no longer use the
\* semaphore, and no timed take is waiting (see MayDetach in module RtMutex for
\* what a timeout inside rt_ipc_list_resume_all would do).
rt_sem_detach(t) ==
    /\ InApp(t) /\ alive
    /\ \A u \in Thread : InTake(u) => ~timer[u]
    /\ alive' = FALSE
    /\ Goto(t, "detach")
    /\ UNCHANGED <<rq, stat, prio, timer, error, defunct, current, lockNest, tgt>>
    /\ UNCHANGED <<value, waitq, balance>>

\* rt_ipc_list_resume_all outside a section: the list is tested with interrupts
\* enabled,
DetachTest(t) ==
    /\ At(t, "detach")
    /\ Goto(t, IF waitq # <<>> THEN "detach_one" ELSE "unsched")
    /\ UNCHANGED <<rq, stat, prio, timer, error, defunct, current, lockNest, tgt, semVars>>

\* and one waiter is resumed.
DetachOne(t) ==
    /\ At(t, "detach_one") /\ waitq # <<>>
    /\ ResumeFirst
    /\ error' = [error EXCEPT ![Head(waitq)] = "ERROR"]
    /\ Goto(t, "detach")
    /\ UNCHANGED <<prio, defunct, current, lockNest, tgt, value, alive, balance>>

\* rt_thread_timeout unlinks the thread from the list it waits in.
TimeoutStaysLinked(t) == rt_thread_timeout(t) /\ UNCHANGED semVars
SemTimeout(t) ==
    /\ rt_thread_timeout(t)
    /\ waitq' = rt_list_remove(waitq, t)
    /\ UNCHANGED <<value, alive, balance>>

SemCall(t) == \/ \E time \in Times : rt_sem_take(t, time)
              \/ rt_sem_release(t)
              \/ \E v \in 0..InitValue : rt_sem_control(t, v)
              \/ rt_sem_detach(t)

SemStep(t) == TakeSchedule(t) \/ TakeReturn(t) \/ DetachTest(t) \/ DetachOne(t)

SemNext ==
    \/ \E t \in Thread : SemCall(t) \/ SemStep(t) \/ SemTimeout(t)
    \/ IsrRelease
    \/ (\E t \in Thread : SchedCall(t) \/ SchedStep(t)) /\ UNCHANGED semVars
    \/ rt_tick_increase /\ UNCHANGED semVars

SemSpec == SemInit /\ [][SemNext]_vars
-----------------------------------------------------------------------------
SemTypeOK ==
    /\ CoreTypeOK
    /\ pc \in [Thread -> SemPc]
    /\ value \in 0..MaxBalance
    /\ waitq \in Seq(Thread)
    /\ alive \in BOOLEAN
    /\ balance \in Nat

\* The waiters are exactly the suspended threads inside rt_sem_take, each once,
\* whether a release, a reset, a detach or a timeout is what ends their wait.
SemWaitersOK ==
    /\ Distinct(waitq)
    /\ \A t \in Thread : Contains(waitq, t) <=> InTake(t) /\ stat[t] = "suspend"

\* No lost wakeup: nobody is left waiting while the semaphore is available, also
\* when the release comes from an interrupt handler between suspending and
\* rt_schedule.
NoIdleToken == value > 0 => waitq = <<>>

\* Every token put in is taken once: what the callers have put in and not been
\* given is what the semaphore counts plus what is granted to takes that have
\* not returned yet, however a timeout races the release.
TokensConserved == balance = value + Cardinality({t \in Thread : Granted(t)})
=============================================================================

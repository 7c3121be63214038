------------------------------ MODULE RtMutex ------------------------------
(***************************************************************************)
(* The RT-Thread mutex (ipc.c) on top of the scheduler: ownership,         *)
(* recursion, priority inheritance, timed waits and detaching.  It is the  *)
(* mutex behind bk_rtos_lock_mutex and the drivers' rt_mutex_take.         *)
(*                                                                         *)
(* The threads of this module start, sleep, take and release; the rest of  *)
(* RtSched's calls are left to that module.  held[t][m] is the caller's    *)
(* view: the takes of m that returned RT_EOK to t minus its releases.      *)
(***************************************************************************)
EXTENDS RtSched

CONSTANTS
    Mutex, NoMutex,
    Flag,        \* "FIFO" or "PRIO": parent.flag
    MaxHold,     \* bound on the recursion depth of a caller
    HoldMod,     \* 2^8: mutex->hold is an rt_uint8_t
    Times,       \* the time arguments used: "no" (0), "timed", "forever" (< 0)
    Nested       \* TRUE: a thread may take a mutex while it holds another one

ASSUME MutexAssumption ==
    /\ NoMutex \notin Mutex
    /\ Flag \in {"FIFO", "PRIO"}
    /\ MaxHold \in Nat /\ HoldMod \in Nat /\ MaxHold + 1 < HoldMod
    /\ Times \subseteq {"no", "timed", "forever"}
    /\ Nested \in BOOLEAN

VARIABLES
    value, owner, hold, orig,   \* the fields of struct rt_mutex
    waitq,                      \* parent.suspend_thread
    alive,                      \* the mutex has not been detached
    obj,                        \* the mutex argument of the call of each thread
    held                        \* the caller's view

mutexVars == <<value, owner, hold, orig, waitq, alive, obj, held>>
vars == <<schedVars, mutexVars>>

MutexPc == {"run", "unsched", "sched", "sleep", "woken", "startup",
            "take", "take_chk", "detach", "detach_one"}
NoPrio == 255   \* 0xff
-----------------------------------------------------------------------------
\* rt_mutex_init
MutexInit ==
    /\ Init
    /\ value = [m \in Mutex |-> 1]
    /\ owner = [m \in Mutex |-> NoThread]
    /\ hold = [m \in Mutex |-> 0]
    /\ orig = [m \in Mutex |-> NoPrio]
    /\ waitq = [m \in Mutex |-> <<>>]
    /\ alive = [m \in Mutex |-> TRUE]
    /\ obj = [t \in Thread |-> NoMutex]
    /\ held = [t \in Thread |-> [m \in Mutex |-> 0]]

Detaching(m) == \E t \in Thread : pc[t] \in {"detach", "detach_one"} /\ obj[t] = m

\* The callers of this model, not rules of the code: a live mutex, one mutex at a
\* time unless Nested, and while it is being detached no take of a free one and no
\* timed wait (see MayDetach).
MayTake(t, m, time) ==
    /\ InApp(t) /\ alive[m]
    /\ Detaching(m) => owner[m] # NoThread /\ time # "timed"
    /\ ~Nested => \A k \in Mutex \ {m} : held[t][k] = 0
    /\ held[t][m] < MaxHold

HoldInc(m) == hold' = [hold EXCEPT ![m] = (@ + 1) % HoldMod]

\* rt_mutex_take by the owner
TakeAgain(t, m) ==
    /\ owner[m] = t
    /\ HoldInc(m)
    /\ held' = [held EXCEPT ![t][m] = @ + 1]
    /\ error' = [error EXCEPT ![t] = "EOK"]
    /\ UNCHANGED <<rq, stat, prio, timer, defunct, current, lockNest, pc, tgt>>
    /\ UNCHANGED <<value, owner, orig, waitq, alive, obj>>

\* of a free mutex
AcquireKeepsValue(t, m) ==
    /\ owner' = [owner EXCEPT ![m] = t]
    /\ orig' = [orig EXCEPT ![m] = prio[t]]
    /\ HoldInc(m)
    /\ UNCHANGED value
Acquire(t, m) ==
    /\ value' = [value EXCEPT ![m] = @ - 1]
    /\ owner' = [owner EXCEPT ![m] = t]
    /\ orig' = [orig EXCEPT ![m] = prio[t]]
    /\ HoldInc(m)

TakeFree(t, m) ==
    /\ owner[m] # t /\ value[m] > 0
    /\ Acquire(t, m)
    /\ held' = [held EXCEPT ![t][m] = @ + 1]
    /\ error' = [error EXCEPT ![t] = "EOK"]
    /\ UNCHANGED <<rq, stat, prio, timer, defunct, current, lockNest, pc, tgt>>
    /\ UNCHANGED <<waitq, alive, obj>>

\* with time 0, when it is owned
TakeRefused(t, m) ==
    /\ owner[m] # t /\ value[m] = 0
    /\ error' = [error EXCEPT ![t] = "ETIMEOUT"]
    /\ UNCHANGED <<rq, stat, prio, timer, defunct, current, lockNest, pc, tgt, mutexVars>>

\* The ready queue and priorities after the owner has inherited p, if p is more
\* urgent than its own priority.
NoInherit(o, p) == prio
Inherit(o, p) == IF p < prio[o] THEN [prio EXCEPT ![o] = p] ELSE prio
InheritInPlace(o, p) == rq
InheritQueue(o, p) == IF p < prio[o] THEN ChangePrio(rq, o, stat[o], prio[o], p) ELSE rq

\* with a waiting time, when it is owned: the owner inherits, the caller waits
TakeWait(t, m, time) ==
    /\ owner[m] # t /\ value[m] = 0
    /\ prio' = Inherit(owner[m], prio[t])
    /\ rq' = rt_schedule_remove_thread(InheritQueue(owner[m], prio[t]), t, prio[t])
    /\ stat' = [stat EXCEPT ![t] = "suspend"]
    /\ waitq' = [waitq EXCEPT ![m] = ListInsert(Flag, @, t, prio')]
    /\ timer' = [timer EXCEPT ![t] = (time = "timed")]
    /\ error' = [error EXCEPT ![t] = "EOK"]
    /\ obj' = [obj EXCEPT ![t] = m]
    /\ Goto(t, "take")
    /\ UNCHANGED <<defunct, current, lockNest, tgt, value, owner, hold, orig, alive, held>>

rt_mutex_take(t, m, time) ==
    /\ MayTake(t, m, time)
    /\ \/ TakeAgain(t, m)
       \/ TakeFree(t, m)
       \/ time = "no" /\ TakeRefused(t, m)
       \/ time # "no" /\ MayBlock /\ TakeWait(t, m, time)

\* The rt_schedule of a waiting rt_mutex_take,
TakeSchedule(t) ==
    /\ At(t, "take")
    /\ current' = rt_schedule(rq)
    /\ Goto(t, "take_chk")
    /\ UNCHANGED <<rq, stat, prio, timer, error, defunct, lockNest, tgt, mutexVars>>

\* and its return: thread->error tells whether the mutex was handed over.
AnswerUnchecked(t) == [held EXCEPT ![t][obj[t]] = @ + 1]
Answer(t) == IF error[t] = "EOK" THEN [held EXCEPT ![t][obj[t]] = @ + 1] ELSE held

TakeReturn(t) ==
    /\ At(t, "take_chk")
    /\ held' = Answer(t)
    /\ obj' = [obj EXCEPT ![t] = NoMutex]
    /\ Goto(t, "run")
    /\ UNCHANGED <<rq, stat, prio, timer, error, defunct, current, lockNest, tgt>>
    /\ UNCHANGED <<value, owner, hold, orig, waitq, alive>>

\* rt_mutex_release by a thread that is not the owner
ReleaseRefused(t, m) ==
    /\ owner[m] # t
    /\ error' = [error EXCEPT ![t] = "ERROR"]
    /\ UNCHANGED <<rq, stat, prio, timer, defunct, current, lockNest, pc, tgt, mutexVars>>

\* of one of several nested takes
ReleaseInner(t, m) ==
    /\ owner[m] = t /\ (hold[m] - 1) % HoldMod # 0
    /\ hold' = [hold EXCEPT ![m] = (@ - 1) % HoldMod]
    /\ held' = [held EXCEPT ![t][m] = @ - 1]
    /\ UNCHANGED <<schedVars, value, owner, orig, waitq, alive, obj>>

\* The releasing owner gets back the priority it had when it took the mutex.
NotRestored(t, m) == prio
Restored(t, m) == [prio EXCEPT ![t] = orig[m]]
RestoredQueue(t, m) == IF orig[m] # prio[t] THEN ChangePrio(rq, t, stat[t], prio[t], orig[m]) ELSE rq

\* rt_ipc_list_resume, rt_thread_resume in it: the first waiter leaves the list
\* for the ready queue r, at its priority p, and its timer is stopped.
rt_ipc_list_resume(m, r, p) ==
    /\ waitq' = [waitq EXCEPT ![m] = Tail(@)]
    /\ stat' = [stat EXCEPT ![Head(waitq[m])] = "ready"]
    /\ rq' = rt_schedule_insert_thread(r, Head(waitq[m]), p)
    /\ timer' = rt_timer_stop(Head(waitq[m]))

\* need_schedule = RT_TRUE
NoSchedule(t) == Goto(t, "run")
NeedSchedule(t) == Goto(t, "sched")

\* of the last one, with a waiter: the first waiter is the new owner
ReleaseHandOver(t, m) ==
    LET w == Head(waitq[m])
    IN  /\ owner[m] = t /\ (hold[m] - 1) % HoldMod = 0 /\ waitq[m] # <<>>
        /\ prio' = Restored(t, m)
        /\ owner' = [owner EXCEPT ![m] = w]
        /\ orig' = [orig EXCEPT ![m] = prio'[w]]
        /\ hold' = [hold EXCEPT ![m] = 1]
        /\ rt_ipc_list_resume(m, RestoredQueue(t, m), prio'[w])
        /\ held' = [held EXCEPT ![t][m] = @ - 1]
        /\ NeedSchedule(t)
        /\ UNCHANGED <<error, defunct, current, lockNest, tgt, value, alive, obj>>

\* of the last one, without a waiter: no rt_schedule follows, also when the owner
\* gives back a priority it inherited from a waiter that has given up
Free(m) ==
    /\ hold' = [hold EXCEPT ![m] = 0]
    /\ value' = [value EXCEPT ![m] = @ + 1]
    /\ owner' = [owner EXCEPT ![m] = NoThread]
    /\ orig' = [orig EXCEPT ![m] = NoPrio]

ReleaseFree(t, m) ==
    /\ owner[m] = t /\ (hold[m] - 1) % HoldMod = 0 /\ waitq[m] = <<>>
    /\ prio' = Restored(t, m)
    /\ rq' = RestoredQueue(t, m)
    /\ Free(m)
    /\ held' = [held EXCEPT ![t][m] = @ - 1]
    /\ Goto(t, IF orig[m] # prio[t] THEN "unsched" ELSE pc[t])
    /\ UNCHANGED <<stat, timer, error, defunct, current, lockNest, tgt, waitq, alive, obj>>

rt_mutex_release(t, m) ==
    /\ InApp(t) /\ alive[m]
    /\ \/ ReleaseRefused(t, m) \/ ReleaseInner(t, m)
       \/ ReleaseHandOver(t, m) \/ ReleaseFree(t, m)

\* Who detaches in this model: the owner, or anyone when the mutex is free; not
\* while another thread detaches it, nor with timed waits on.  The code lets anyone
\* do it at any time, but then a release or a timeout can empty the list between
\* the test of rt_list_isempty and the section that takes its first node.
MayDetach(t, m) ==
    /\ owner[m] \in {t, NoThread} /\ ~Detaching(m)
    /\ \A u \in Thread : Contains(waitq[m], u) => ~timer[u]

rt_mutex_detach(t, m) ==
    /\ InApp(t) /\ alive[m] /\ MayDetach(t, m)
    /\ obj' = [obj EXCEPT ![t] = m]
    /\ Goto(t, "detach")
    /\ UNCHANGED <<rq, stat, prio, timer, error, defunct, current, lockNest, tgt>>
    /\ UNCHANGED <<value, owner, hold, orig, waitq, alive, held>>

\* rt_ipc_list_resume_all: rt_list_isempty is tested with interrupts enabled,
DetachTest(t) ==
    /\ At(t, "detach")
    /\ IF waitq[obj[t]] # <<>>
       THEN Goto(t, "detach_one") /\ UNCHANGED <<alive, obj, held>>
       ELSE /\ Goto(t, "unsched")
            /\ alive' = [alive EXCEPT ![obj[t]] = FALSE]
            /\ held' = [u \in Thread |-> [held[u] EXCEPT ![obj[t]] = 0]]
            /\ obj' = [obj EXCEPT ![t] = NoMutex]
    /\ UNCHANGED <<rq, stat, prio, timer, error, defunct, current, lockNest, tgt>>
    /\ UNCHANGED <<value, owner, hold, orig, waitq>>

\* one waiter is resumed with -RT_ERROR; nothing reschedules.  The code does not
\* test the list again: that it still has a node is the callers' doing.
DetachError(w) == [error EXCEPT ![w] = "ERROR"]

DetachOne(t) ==
    LET w == Head(waitq[obj[t]])
    IN  /\ At(t, "detach_one") /\ waitq[obj[t]] # <<>>
        /\ error' = DetachError(w)
        /\ rt_ipc_list_resume(obj[t], rq, prio[w])
        /\ Goto(t, "detach")
        /\ UNCHANGED <<prio, defunct, current, lockNest, tgt>>
        /\ UNCHANGED <<value, owner, hold, orig, alive, obj, held>>

TimeoutStaysLinked(t) == rt_thread_timeout(t) /\ UNCHANGED mutexVars
\* rt_thread_timeout unlinks the thread from the list it waits in.
MutexTimeout(t) ==
    /\ rt_thread_timeout(t)
    /\ waitq' = [m \in Mutex |-> rt_list_remove(waitq[m], t)]
    /\ UNCHANGED <<value, owner, hold, orig, alive, obj, held>>

MutexCall(t) ==
    \E m \in Mutex : \/ \E time \in Times : rt_mutex_take(t, m, time)
                     \/ rt_mutex_release(t, m)
                     \/ rt_mutex_detach(t, m)

MutexStep(t) == TakeSchedule(t) \/ TakeReturn(t) \/ DetachTest(t) \/ DetachOne(t)

MutexNext ==
    \/ \E t \in Thread : MutexCall(t) \/ MutexStep(t) \/ MutexTimeout(t)
    \/ (\E t \in Thread : SchedCall(t) \/ SchedStep(t)) /\ UNCHANGED mutexVars
    \/ rt_tick_increase /\ UNCHANGED mutexVars

MutexSpec == MutexInit /\ [][MutexNext]_vars
-----------------------------------------------------------------------------
MutexTypeOK ==
    /\ CoreTypeOK
    /\ pc \in [Thread -> MutexPc]
    /\ value \in [Mutex -> 0..1]
    /\ owner \in [Mutex -> Thread \cup {NoThread}]
    /\ hold \in [Mutex -> 0..(HoldMod - 1)]
    /\ orig \in [Mutex -> Prio \cup {NoPrio}]
    /\ waitq \in [Mutex -> Seq(Thread)]
    /\ alive \in [Mutex -> BOOLEAN]
    /\ obj \in [Thread -> Mutex \cup {NoMutex}]
    /\ held \in [Thread -> [Mutex -> 0..MaxHold]]

Waiting(t, m) == pc[t] \in {"take", "take_chk"} /\ obj[t] = m

\* t has been made the owner by rt_mutex_release but its rt_mutex_take has not
\* returned yet.
Granted(t, m) == Waiting(t, m) /\ owner[m] = t

\* The waiters of m are exactly the suspended threads whose rt_mutex_take of m
\* has not been answered, each once: no wakeup is lost between suspending and
\* rt_schedule, and a thread that timed out is out of the list.
WaitersOK ==
    \A m \in Mutex :
        /\ Distinct(waitq[m])
        /\ \A t \in Thread : Contains(waitq[m], t) <=> Waiting(t, m) /\ stat[t] = "suspend"

\* Mutual exclusion as the callers see it: what a thread believes to hold is
\* what the kernel counts, so at most one thread believes to hold m, and a take
\* that is about to return RT_EOK after a wait really has been given the mutex,
\* however a timeout, a release and rt_schedule interleaved.
MutualExclusion ==
    \A m \in Mutex, t \in Thread : alive[m] =>
        /\ held[t][m] > 0 => owner[m] = t
        /\ owner[m] = t => hold[m] = held[t][m] + (IF Granted(t, m) THEN 1 ELSE 0)
        /\ (Waiting(t, m) /\ stat[t] = "ready" /\ error[t] = "EOK") => owner[m] = t

\* Priority inheritance: the owner is at least as urgent as every waiter.
Inheritance ==
    \A m \in Mutex : alive[m] =>
        \A i \in 1..Len(waitq[m]) : prio[owner[m]] <= prio[waitq[m][i]]

\* Inheritance ends: a thread whose priority is not its own owns a mutex.
PriorityRestored ==
    \A t \in Thread : prio[t] # InitPrio[t] => \E m \in Mutex : owner[m] = t
=============================================================================

------------------------------ MODULE RtSched ------------------------------
(***************************************************************************)
(* The RT-Thread kernel's scheduler and thread management: scheduler.c,    *)
(* thread.c, the part of clock.c that drives them and idle.c.              *)
(*                                                                         *)
(* There is one core.  A code section between rt_hw_interrupt_disable and  *)
(* rt_hw_interrupt_enable is one step, and so is a whole clock interrupt;  *)
(* pc[t] is where thread t stands between two such sections, so that an    *)
(* interrupt, and the thread switch it may cause, can fall between any two *)
(* of them.  Only the running thread, current, takes thread steps.         *)
(*                                                                         *)
(* Tick counts are abstracted: a time slice may end, and an armed thread   *)
(* timer may expire, at any clock interrupt.                               *)
(***************************************************************************)
EXTENDS RtList, FiniteSets

CONSTANTS
    Thread,      \* the threads
    Idle,        \* the idle thread, never suspended
    Main,        \* the thread the system boots into
    NoThread,    \* RT_NULL
    MaxPrio,     \* RT_THREAD_PRIORITY_MAX - 1: the least urgent priority
    InitPrio,    \* init_priority of each thread
    Static,      \* the threads made by rt_thread_init: not freed by idle
    Cleanup,     \* the threads whose thread->cleanup is set
    MaxNest,     \* bound on rt_scheduler_lock_nest
    NewPrio,     \* the priorities that callers of rt_thread_control ask for
    Disciplined  \* TRUE: callers follow the rules of MayManage below

Prio == 0..MaxPrio

ASSUME ThreadAssumption ==
    /\ Idle \in Thread /\ Main \in Thread /\ Main # Idle
    /\ NoThread \notin Thread
    /\ Static \subseteq Thread /\ Idle \in Static
    /\ Cleanup \subseteq Thread
    /\ IsFiniteSet(Thread)

ASSUME PrioAssumption ==
    /\ MaxPrio \in Nat /\ MaxNest \in Nat
    /\ InitPrio \in [Thread -> Prio]
    /\ InitPrio[Idle] = MaxPrio
    /\ NewPrio \subseteq Prio

ASSUME DisciplineAssumption == Disciplined \in BOOLEAN

VARIABLES
    rq,          \* rt_thread_priority_table and rt_thread_ready_priority_group
    stat,        \* thread->stat
    prio,        \* thread->current_priority
    timer,       \* thread->thread_timer is started
    error,       \* thread->error
    defunct,     \* rt_thread_defunct
    current,     \* rt_current_thread
    lockNest,    \* rt_scheduler_lock_nest
    pc,          \* where each thread stands between two atomic sections
    tgt          \* the thread argument of the call each thread is inside of

schedVars == <<rq, stat, prio, timer, error, defunct, current, lockNest, pc, tgt>>

Stat == {"free", "init", "ready", "suspend", "close"}
Error == {"EOK", "ETIMEOUT", "ERROR"}
SchedPc == {"run", "unsched", "sched", "sleep", "woken", "exit", "dead",
            "startup", "resume_chk", "resume", "suspend_chk",
            "del_timer", "del_close", "del_defunct", "reap", "cleaned"}
-----------------------------------------------------------------------------
(* The ready queue.  The bit set rt_thread_ready_priority_group is the set  *)
(* of its set bits; number_mask always is the bit of current_priority.      *)

EmptyRq == [table |-> [p \in Prio |-> <<>>], group |-> {}]

rt_schedule_insert_thread(r, t, p) ==
    [table |-> [r.table EXCEPT ![p] = rt_list_insert_before(@, t)],
     group |-> r.group \cup {p}]

Unlink(table, t) == [p \in Prio |-> rt_list_remove(table[p], t)]

RemoveKeepsBit(r, t, p) == [table |-> Unlink(r.table, t), group |-> r.group]
rt_schedule_remove_thread(r, t, p) ==
    LET table == Unlink(r.table, t)
    IN  [table |-> table,
         group |-> IF table[p] = <<>> THEN r.group \ {p} ELSE r.group]

\* The ready queue after rt_ipc_list_resume_all has resumed the threads of list l
\* inside one section, from its first node to its last.
InsertAll(r, l, pr) ==
    LET done[n \in 0..Len(l)] ==
            IF n = 0 THEN r ELSE rt_schedule_insert_thread(done[n - 1], l[n], pr[l[n]])
    IN  done[Len(l)]

\* rt_thread_control(RT_THREAD_CTRL_CHANGE_PRIORITY): a ready thread moves to
\* the end of its new list.  The group is left consistent, nothing is scheduled.
ChangePrio(r, t, s, old, new) ==
    IF s = "ready"
    THEN rt_schedule_insert_thread(rt_schedule_remove_thread(r, t, old), t, new)
    ELSE r

\* thread->tlist.next # thread->tlist.prev: t shares its list with another node.
Shares(r, t, p) == Contains(r.table[p], t) /\ Len(r.table[p]) > 1

YieldToFront(r, t, s, p) ==
    IF s = "ready" /\ Shares(r, t, p)
    THEN [r EXCEPT !.table = [Unlink(r.table, t) EXCEPT ![p] = rt_list_insert_after(@, t)]]
    ELSE r
\* The body of rt_thread_yield before its rt_schedule.
YieldQueue(r, t, s, p) ==
    IF s = "ready" /\ Shares(r, t, p)
    THEN [r EXCEPT !.table = [Unlink(r.table, t) EXCEPT ![p] = rt_list_insert_before(@, t)]]
    ELSE r

\* __rt_ffs(group) - 1, and the first thread of that list.
LowestPrio(r) == CHOOSE p \in r.group : \A q \in r.group : q <= p
HighestPrio(r) == CHOOSE p \in r.group : \A q \in r.group : p <= q
HighestThread(r) == Head(r.table[HighestPrio(r)])

\* The thread that runs after rt_schedule(): the choice is suppressed while
\* rt_scheduler_lock_nest is not 0.
rt_schedule(r) == IF lockNest = 0 THEN HighestThread(r) ELSE current
-----------------------------------------------------------------------------
\* rt_timer_stop(&t->thread_timer), also when it is not started; rt_timer_check
\* does the same to a timer that expires.
TimerForgotten(t) == timer
rt_timer_stop(t) == [timer EXCEPT ![t] = FALSE]

\* rt_exit_critical: an unmatched call leaves the count at 0.
NestUnchecked(n) == n - 1
NestAfterExit(n) == IF n <= 1 THEN 0 ELSE n - 1

\* A closed thread enters rt_thread_defunct, to be freed if it was made by
\* rt_thread_create, or for its cleanup function if it has one.
Reaped(t) == t \notin Static \/ t \in Cleanup

\* The end of rt_thread_exit.
LeaveCreatedToIdle(d, t) == IF t \in Static THEN d ELSE rt_list_insert_after(d, t)
LeaveToIdle(d, t) == IF Reaped(t) THEN rt_list_insert_after(d, t) ELSE d

Goto(t, l) == pc' = [pc EXCEPT ![t] = l]

\* t runs application code: it is between two kernel calls.
InApp(t) == /\ t # Idle
            /\ current = t
            /\ pc[t] \in {"run", "unsched"}

At(t, l) == current = t /\ pc[t] = l

\* The callers this model has when Disciplined, not a rule of the code: a thread
\* is managed by one thread at a time, and not while it is in a call on another.
MayManage(t, u) ==
    /\ u # Idle
    /\ Disciplined => tgt[u] = NoThread /\ \A v \in Thread : tgt[v] # u

\* The calls that stop the timer of u in a section that comes after the one that
\* looks at u are made on a thread without a started timer: the clock interrupt
\* would make u ready in between (run sched_delete shows it).
Untimed(u) == Disciplined => ~timer[u]

\* A thread that holds the scheduler lock does not block.
MayBlock == lockNest = 0
-----------------------------------------------------------------------------
Init ==
    /\ stat = [t \in Thread |-> IF t \in {Main, Idle} THEN "ready"
                                ELSE IF t \in Static THEN "init" ELSE "free"]
    /\ prio = InitPrio
    /\ rq = rt_schedule_insert_thread(
                rt_schedule_insert_thread(EmptyRq, Main, InitPrio[Main]), Idle, MaxPrio)
    /\ timer = [t \in Thread |-> FALSE]
    /\ error = [t \in Thread |-> "EOK"]
    /\ defunct = <<>>
    /\ current = Main
    /\ lockNest = 0
    /\ pc = [t \in Thread |-> "run"]
    /\ tgt = [t \in Thread |-> NoThread]

\* _rt_thread_init.
ThreadInit(u) ==
    /\ stat' = [stat EXCEPT ![u] = "init"]
    /\ prio' = [prio EXCEPT ![u] = InitPrio[u]]
    /\ timer' = rt_timer_stop(u)
    /\ error' = [error EXCEPT ![u] = "EOK"]
    /\ pc' = [pc EXCEPT ![u] = "run"]
    /\ UNCHANGED <<rq, defunct, current, lockNest, tgt>>

rt_thread_create(t, u) ==
    InApp(t) /\ stat[u] = "free" /\ MayManage(t, u) /\ ThreadInit(u)

\* rt_thread_init of a static thread that has exited or was detached, once its
\* cleanup function, if it has one, has been called.
rt_thread_init(t, u) ==
    /\ InApp(t)
    /\ u \in Static /\ stat[u] = "close" /\ ~Contains(defunct, u) /\ MayManage(t, u)
    /\ ThreadInit(u)

\* rt_thread_startup, up to and including the first section of rt_thread_resume:
\* the new thread is in no list and its timer is stopped.
rt_thread_startup(t, u) ==
    /\ InApp(t)
    /\ stat[u] = "init" /\ MayManage(t, u)
    /\ prio' = [prio EXCEPT ![u] = InitPrio[u]]
    /\ stat' = [stat EXCEPT ![u] = "suspend"]
    /\ tgt' = [tgt EXCEPT ![t] = u]
    /\ Goto(t, "startup")
    /\ UNCHANGED <<rq, timer, error, defunct, current, lockNest>>

\* rt_thread_resume: the test of stat runs with interrupts enabled,
rt_thread_resume(t, u) ==
    /\ InApp(t)
    /\ stat[u] = "suspend" /\ MayManage(t, u) /\ Untimed(u)
    /\ tgt' = [tgt EXCEPT ![t] = u]
    /\ Goto(t, "resume_chk")
    /\ UNCHANGED <<rq, stat, prio, timer, error, defunct, current, lockNest>>

\* the first section unlinks the thread and stops its timer,
ResumeUnlink(t) ==
    /\ At(t, "resume_chk")
    /\ rq' = [rq EXCEPT !.table = Unlink(rq.table, tgt[t])]
    /\ defunct' = rt_list_remove(defunct, tgt[t])
    /\ timer' = rt_timer_stop(tgt[t])
    /\ Goto(t, "resume")
    /\ UNCHANGED <<stat, prio, error, current, lockNest, tgt>>

\* and the second, in rt_schedule_insert_thread, makes it ready.  The end of
\* rt_thread_startup too, which calls rt_schedule as well.
ResumeInsert(t) ==
    /\ current = t /\ pc[t] \in {"resume", "startup"}
    /\ rq' = rt_schedule_insert_thread(rq, tgt[t], prio[tgt[t]])
    /\ stat' = [stat EXCEPT ![tgt[t]] = "ready"]
    /\ tgt' = [tgt EXCEPT ![t] = NoThread]
    /\ Goto(t, IF pc[t] = "startup" THEN "sched" ELSE "unsched")
    /\ UNCHANGED <<prio, timer, error, defunct, current, lockNest>>

\* rt_thread_resume called with interrupts disabled, as rt_completion_done calls it:
\* one step, that finds the thread suspended and may find its timer started.
ResumeForgetsTimer(u) ==
    /\ rq' = rt_schedule_insert_thread([rq EXCEPT !.table = Unlink(rq.table, u)], u, prio[u])
    /\ stat' = [stat EXCEPT ![u] = "ready"]
    /\ defunct' = rt_list_remove(defunct, u)
    /\ UNCHANGED timer
ResumeAtOnce(u) ==
    /\ rq' = rt_schedule_insert_thread([rq EXCEPT !.table = Unlink(rq.table, u)], u, prio[u])
    /\ stat' = [stat EXCEPT ![u] = "ready"]
    /\ defunct' = rt_list_remove(defunct, u)
    /\ timer' = rt_timer_stop(u)

\* u is suspended, as in rt_completion_wait, and nobody is in a call on it.
Resumable(u) == stat[u] = "suspend" /\ u # Idle /\ \A v \in Thread : tgt[v] # u

\* rt_completion_done called by a thread,
rt_completion_done(t, u) ==
    /\ InApp(t) /\ Resumable(u)
    /\ ResumeAtOnce(u)
    /\ Goto(t, "sched")
    /\ UNCHANGED <<prio, error, current, lockNest, tgt>>

\* and by an interrupt handler, wherever the running thread stands.
CompletionIsr(u) ==
    /\ Resumable(u)
    /\ ResumeAtOnce(u)
    /\ current' = rt_schedule(rq')
    /\ UNCHANGED <<prio, error, lockNest, pc, tgt>>

\* rt_thread_suspend: the test of stat runs with interrupts enabled,
rt_thread_suspend(t, u) ==
    /\ InApp(t)
    /\ stat[u] = "ready" /\ u # Idle
    /\ Disciplined => u = t
    /\ u = t => MayBlock
    /\ tgt' = [tgt EXCEPT ![t] = u]
    /\ Goto(t, "suspend_chk")
    /\ UNCHANGED <<rq, stat, prio, timer, error, defunct, current, lockNest>>

\* the rest is one section; a thread that suspends itself then calls rt_schedule.
SuspendRemove(t) ==
    /\ At(t, "suspend_chk")
    /\ stat' = [stat EXCEPT ![tgt[t]] = "suspend"]
    /\ rq' = rt_schedule_remove_thread(rq, tgt[t], prio[tgt[t]])
    /\ defunct' = rt_list_remove(defunct, tgt[t])
    /\ timer' = rt_timer_stop(tgt[t])
    /\ tgt' = [tgt EXCEPT ![t] = NoThread]
    /\ Goto(t, IF tgt[t] = t THEN "sched" ELSE "unsched")
    /\ UNCHANGED <<prio, error, current, lockNest>>

\* rt_thread_sleep: suspend and start the timer in one section.
rt_thread_sleep(t) ==
    /\ InApp(t)
    /\ stat[t] = "ready" /\ MayBlock
    /\ stat' = [stat EXCEPT ![t] = "suspend"]
    /\ rq' = rt_schedule_remove_thread(rq, t, prio[t])
    /\ timer' = [timer EXCEPT ![t] = TRUE]
    /\ Goto(t, "sleep")
    /\ UNCHANGED <<prio, error, defunct, current, lockNest, tgt>>

\* The end of rt_thread_sleep: the timeout is what was asked for, not an error.
SleepReturn(t) ==
    /\ At(t, "woken")
    /\ error' = [error EXCEPT ![t] = IF @ = "ETIMEOUT" THEN "EOK" ELSE @]
    /\ Goto(t, "run")
    /\ UNCHANGED <<rq, stat, prio, timer, defunct, current, lockNest, tgt>>

\* rt_thread_yield called by a thread.
rt_thread_yield(t) ==
    /\ InApp(t)
    /\ stat[t] = "ready" /\ Shares(rq, t, prio[t])
    /\ rq' = YieldQueue(rq, t, stat[t], prio[t])
    /\ Goto(t, "sched")
    /\ UNCHANGED <<stat, prio, timer, error, defunct, current, lockNest, tgt>>

\* rt_thread_control(u, RT_THREAD_CTRL_CHANGE_PRIORITY, p).
rt_thread_control(t, u, p) ==
    /\ InApp(t)
    /\ stat[u] # "free" /\ MayManage(t, u)
    /\ rq' = ChangePrio(rq, u, stat[u], prio[u], p)
    /\ prio' = [prio EXCEPT ![u] = p]
    /\ Goto(t, "unsched")
    /\ UNCHANGED <<stat, timer, error, defunct, current, lockNest, tgt>>

\* rt_thread_exit.
rt_thread_exit(t) ==
    /\ InApp(t)
    /\ MayBlock
    /\ rq' = rt_schedule_remove_thread(rq, t, prio[t])
    /\ stat' = [stat EXCEPT ![t] = "close"]
    /\ timer' = rt_timer_stop(t)
    /\ defunct' = LeaveToIdle(defunct, t)
    /\ Goto(t, "exit")
    /\ UNCHANGED <<prio, error, current, lockNest, tgt>>

\* rt_thread_delete, and rt_thread_detach of a static thread: three or four
\* sections, with interrupts enabled between them.  A thread that deletes itself
\* calls rt_schedule after it, as sys_exit does; once it has left the ready list
\* any rt_schedule of an interrupt leaves it for good, with the call half done.
DeleteUnlink(t, u) ==
    /\ InApp(t)
    /\ stat[u] \in {"init", "ready", "suspend"} /\ MayManage(t, u) /\ Untimed(u)
    /\ u = t => MayBlock
    /\ rq' = IF stat[u] = "init" THEN rq ELSE rt_schedule_remove_thread(rq, u, prio[u])
    /\ tgt' = [tgt EXCEPT ![t] = u]
    /\ Goto(t, "del_timer")
    /\ UNCHANGED <<stat, prio, timer, error, defunct, current, lockNest>>

rt_thread_delete(t, u) == u \notin Static /\ DeleteUnlink(t, u)
rt_thread_detach(t, u) == u \in Static /\ DeleteUnlink(t, u)

DeleteTimer(t) ==
    /\ At(t, "del_timer")
    /\ timer' = rt_timer_stop(tgt[t])
    /\ Goto(t, "del_close")
    /\ UNCHANGED <<rq, stat, prio, error, defunct, current, lockNest, tgt>>

DeleteReturn(t) ==
    /\ tgt' = [tgt EXCEPT ![t] = NoThread]
    /\ Goto(t, IF tgt[t] = t THEN "exit" ELSE "unsched")

DeleteClose(t) ==
    /\ At(t, "del_close")
    /\ stat' = [stat EXCEPT ![tgt[t]] = "close"]
    /\ IF Reaped(tgt[t]) THEN Goto(t, "del_defunct") /\ UNCHANGED tgt
                         ELSE DeleteReturn(t)
    /\ UNCHANGED <<rq, prio, timer, error, defunct, current, lockNest>>

DeleteDefunct(t) ==
    /\ At(t, "del_defunct")
    /\ defunct' = rt_list_insert_after(defunct, tgt[t])
    /\ DeleteReturn(t)
    /\ UNCHANGED <<rq, stat, prio, timer, error, current, lockNest>>

rt_enter_critical(t) ==
    /\ InApp(t)
    /\ lockNest < MaxNest
    /\ lockNest' = lockNest + 1
    /\ UNCHANGED <<rq, stat, prio, timer, error, defunct, current, pc, tgt>>

\* Leaving the outermost critical section, or an unmatched call, reschedules.
rt_exit_critical(t) ==
    /\ InApp(t)
    /\ lockNest' = NestAfterExit(lockNest)
    /\ Goto(t, IF lockNest <= 1 THEN "sched" ELSE pc[t])
    /\ UNCHANGED <<rq, stat, prio, timer, error, defunct, current, tgt>>

\* The call of rt_schedule that ends a kernel call of t.
Schedule(t) ==
    /\ current = t /\ pc[t] \in {"sched", "sleep", "exit"}
    /\ current' = rt_schedule(rq)
    /\ Goto(t, CASE pc[t] = "sched" -> "run"
                 [] pc[t] = "sleep" -> "woken"
                 [] pc[t] = "exit"  -> "dead")
    /\ UNCHANGED <<rq, stat, prio, timer, error, defunct, lockNest, tgt>>

\* rt_thread_idle_excute: unlink the first defunct thread and call its cleanup
\* function; rt_exit_critical inside that section reschedules.  A static thread is
\* left at that ("cleaned"),
rt_thread_idle_excute ==
    /\ At(Idle, "run") /\ defunct # <<>>
    /\ defunct' = Tail(defunct)
    /\ current' = rt_schedule(rq)
    /\ IF Head(defunct) \in Static
       THEN Goto(Head(defunct), "cleaned") /\ UNCHANGED tgt
       ELSE Goto(Idle, "reap") /\ tgt' = [tgt EXCEPT ![Idle] = Head(defunct)]
    /\ UNCHANGED <<rq, stat, prio, timer, error, lockNest>>

\* the stack and the object of another are freed with interrupts enabled.
IdleFree ==
    /\ At(Idle, "reap")
    /\ stat' = [stat EXCEPT ![tgt[Idle]] = "free"]
    /\ tgt' = [tgt EXCEPT ![Idle] = NoThread]
    /\ Goto(Idle, "run")
    /\ UNCHANGED <<rq, prio, timer, error, defunct, current, lockNest>>

\* Clock interrupt, rt_tick_increase, when the slice of the running thread ends:
\* it may stand anywhere, also between suspending itself and rt_schedule.
rt_tick_increase ==
    LET r == YieldQueue(rq, current, stat[current], prio[current])
    IN  /\ stat[current] = "ready" /\ Shares(rq, current, prio[current])
        /\ rq' = r
        /\ current' = rt_schedule(r)
        /\ UNCHANGED <<stat, prio, timer, error, defunct, lockNest, pc, tgt>>

\* Clock interrupt, rt_timer_check, when the timer of thread t expires.
rt_thread_timeout(t) ==
    LET r == rt_schedule_insert_thread([rq EXCEPT !.table = Unlink(rq.table, t)], t, prio[t])
    IN  /\ timer[t]
        /\ timer' = rt_timer_stop(t)
        /\ error' = [error EXCEPT ![t] = "ETIMEOUT"]
        /\ stat' = [stat EXCEPT ![t] = "ready"]
        /\ rq' = r
        /\ defunct' = rt_list_remove(defunct, t)
        /\ current' = rt_schedule(r)
        /\ UNCHANGED <<prio, lockNest, pc, tgt>>

ThreadCall(t) ==
    \/ \E u \in Thread : \/ rt_thread_create(t, u)
                         \/ rt_thread_init(t, u)
                         \/ rt_thread_startup(t, u)
                         \/ rt_thread_resume(t, u)
                         \/ rt_completion_done(t, u)
                         \/ rt_thread_suspend(t, u)
                         \/ rt_thread_delete(t, u)
                         \/ rt_thread_detach(t, u)
                         \/ \E p \in NewPrio : rt_thread_control(t, u, p)
    \/ rt_thread_sleep(t)
    \/ rt_thread_yield(t)
    \/ rt_thread_exit(t)
    \/ rt_enter_critical(t)
    \/ rt_exit_critical(t)

\* The steps that finish a kernel call t has begun.
ThreadStep(t) ==
    \/ ResumeUnlink(t) \/ ResumeInsert(t) \/ SuspendRemove(t) \/ SleepReturn(t)
    \/ DeleteTimer(t) \/ DeleteClose(t) \/ DeleteDefunct(t) \/ Schedule(t)

Interrupt == \/ rt_tick_increase
             \/ \E t \in Thread : rt_thread_timeout(t) \/ CompletionIsr(t)

Next == \/ \E t \in Thread : ThreadCall(t) \/ ThreadStep(t)
        \/ rt_thread_idle_excute \/ IdleFree
        \/ Interrupt

Spec == Init /\ [][Next]_schedVars

\* The part of Next that the modules of the blocking objects keep: threads that
\* start, sleep and lock the scheduler.
SchedCall(t) == \/ \E u \in Thread : rt_thread_startup(t, u)
                \/ rt_thread_sleep(t)
                \/ rt_enter_critical(t) \/ rt_exit_critical(t)

SchedStep(t) == ResumeInsert(t) \/ Schedule(t) \/ SleepReturn(t)
-----------------------------------------------------------------------------
ReadyQueue == [table : [Prio -> Seq(Thread)], group : SUBSET Prio]

CoreTypeOK ==
    /\ rq \in ReadyQueue
    /\ stat \in [Thread -> Stat]
    /\ prio \in [Thread -> Prio]
    /\ timer \in [Thread -> BOOLEAN]
    /\ error \in [Thread -> Error]
    /\ defunct \in Seq(Thread)
    /\ current \in Thread
    /\ lockNest \in 0..MaxNest
    /\ tgt \in [Thread -> Thread \cup {NoThread}]

TypeOK == CoreTypeOK /\ pc \in [Thread -> SchedPc]

\* A thread rt_thread_delete has unlinked but not yet marked RT_THREAD_CLOSE.
BeingDeleted(t) == \E v \in Thread : tgt[v] = t /\ pc[v] \in {"del_timer", "del_close"}

\* The threads a ready list must hold.
ReadySet == {t \in Thread : stat[t] = "ready" /\ ~BeingDeleted(t)}

\* The ready queue r links exactly the threads of S: list p those of priority p,
\* each once, and the bit of p is set exactly when list p is not empty.
RqOK(r, S, pr) ==
    \A p \in Prio :
        /\ Distinct(r.table[p])
        /\ \A t \in Thread : Contains(r.table[p], t) <=> t \in S /\ pr[t] = p
        /\ p \in r.group <=> r.table[p] # <<>>

\* The ready queue and the threads agree at every point an interrupt can see:
\* the list of priority p links exactly the ready threads of that priority,
\* each once, and the bit of p is set exactly when that list is not empty.
\* Every call that suspends, resumes, reprioritises, yields or deletes a thread,
\* and the clock interrupt that falls between two of its sections, keeps this.
ReadyQueueOK == RqOK(rq, ReadySet, prio)

\* The RT_ASSERT of rt_thread_timeout can not fail: a started thread timer
\* belongs to a suspended thread, although a sleeping thread may be resumed by a
\* thread or an interrupt handler, sleep again, exit or be deleted before that.
TimeoutAssert == \A t \in Thread : timer[t] => stat[t] = "suspend"

\* Preemption: a thread that is back in application code after a kernel call
\* that reschedules, with the scheduler unlocked, is no less urgent than any
\* ready thread.
NoMissedPreemption ==
    (pc[current] \in {"run", "woken"} /\ lockNest = 0)
        => \A t \in ReadySet : prio[current] <= prio[t]

\* A thread's memory is freed by the idle thread only when nothing can run or
\* link it any more: the running thread is not freed, and a closed thread that
\* was created, or has a cleanup function, is in rt_thread_defunct once, until
\* the idle thread has taken it out, or is about to enter it; no other thread is.
DefunctOK ==
    /\ stat[current] # "free"
    /\ Distinct(defunct)
    /\ \A t \in Thread :
        Contains(defunct, t) <=>
            /\ stat[t] = "close" /\ Reaped(t) /\ pc[t] # "cleaned"
            /\ \A v \in Thread : tgt[v] = t => pc[v] \notin {"del_defunct", "reap"}

Targeting == {"startup", "resume_chk", "resume", "suspend_chk",
              "del_timer", "del_close", "del_defunct", "reap"}

\* What is true of the argument of a call between two of its sections, when the
\* callers are Disciplined: interrupts and other threads leave it alone.
TargetOK ==
    /\ \A t, u \in Thread : tgt[t] = tgt[u] /\ tgt[t] # NoThread => t = u
    /\ \A t \in Thread :
        /\ tgt[t] # NoThread <=> pc[t] \in Targeting
        /\ tgt[t] # Idle
        /\ pc[t] \in {"startup", "resume_chk", "resume"} => stat[tgt[t]] = "suspend"
        /\ pc[t] = "suspend_chk" => tgt[t] = t /\ stat[t] = "ready"
        /\ pc[t] \in {"del_timer", "del_close"} => stat[tgt[t]] \in {"init", "ready", "suspend"}
        /\ pc[t] \in {"del_defunct", "reap"} => stat[tgt[t]] = "close"
        /\ pc[t] \in {"del_timer", "del_close", "del_defunct"} => tgt[tgt[t]] \in {NoThread, tgt[t]}
        /\ pc[t] = "del_defunct" => Reaped(tgt[t]) /\ pc[tgt[t]] # "cleaned"
        /\ pc[t] = "reap" => t = Idle /\ tgt[t] \notin Static
        /\ stat[t] = "close" => tgt[t] \in {NoThread, t}
        /\ pc[t] = "cleaned" => t \in Static /\ stat[t] = "close"

\* A started timer belongs to a suspended thread no call is about to change.
TimerOK ==
    \A t \in Thread : timer[t] =>
        stat[t] = "suspend" /\ t # Idle /\ \A v \in Thread : tgt[v] # t

IdleOK == stat[Idle] = "ready" /\ prio[Idle] = MaxPrio /\ pc[Idle] \in {"run", "reap"}

\* t is inside the rt_thread_delete of itself.
DeletesItself(t) == tgt[t] = t /\ pc[t] \in {"del_timer", "del_close", "del_defunct"}

\* The running thread is ready, or on its way to the rt_schedule that leaves it.
CurrentOK ==
    /\ \/ current \in ReadySet
       \/ /\ pc[current] \in {"sched", "sleep", "exit"} /\ lockNest = 0
          /\ stat[current] \in {"suspend", "close"}
       \/ DeletesItself(current) /\ lockNest = 0
    /\ pc[current] = "suspend_chk" => lockNest = 0

\* NoMissedPreemption, also for the idle thread while it frees a thread.
PreemptOK ==
    (pc[current] \in {"run", "woken", "reap"} /\ lockNest = 0)
        => \A t \in ReadySet : prio[current] <= prio[t]

\* The inductive invariant behind the invariants above.
SchedInv == TypeOK /\ ReadyQueueOK /\ TargetOK /\ TimerOK /\ IdleOK
            /\ CurrentOK /\ PreemptOK /\ DefunctOK

\* The labels of the modules of the blocking objects: a call that waits stands at
\* one of SuspendLabel from the section that suspends its caller to rt_schedule,
\* and at one of WaitLabel until it has looked at thread->error.
SuspendLabel == {"sleep", "take", "alloc", "send", "recv"}
WaitLabel == SuspendLabel \cup {"woken", "take_chk", "alloc_chk", "send_chk", "recv_chk"}
BlockLabel == WaitLabel \cup {"run", "unsched", "sched", "startup", "detach", "detach_one",
                              "mb_detach", "mb_detach_one", "mb_detach_s", "mb_detach_s_one"}

ReadyThreads == {t \in Thread : stat[t] = "ready"}

\* What the modules of the blocking objects keep of SchedInv.  Their threads are
\* started, sleep and wait; none is resumed or deleted by another one's call.
StartedOK ==
    /\ \A t, u \in Thread : tgt[t] = tgt[u] /\ tgt[t] # NoThread => t = u
    /\ \A t \in Thread :
        /\ tgt[t] # NoThread <=> pc[t] = "startup"
        /\ pc[t] = "startup" =>
            tgt[t] # Idle /\ stat[tgt[t]] = "suspend" /\ pc[tgt[t]] = "run"
        /\ stat[t] \notin {"ready", "suspend"} => pc[t] = "run"

WaitTimerOK == \A t \in Thread : timer[t] => stat[t] = "suspend" /\ pc[t] \in WaitLabel

RunningOK ==
    /\ stat[Idle] = "ready" /\ pc[Idle] = "run"
    /\ stat[current] = "ready" \/ (pc[current] \in SuspendLabel /\ lockNest = 0)

BlockInv ==
    /\ CoreTypeOK /\ pc \in [Thread -> BlockLabel] /\ defunct = <<>>
    /\ RqOK(rq, ReadyThreads, prio)
    /\ StartedOK /\ WaitTimerOK /\ RunningOK

\* What rt_thread_delete's comment says: the thread is removed from the thread
\* queue; a closed thread is in no ready list.
DeletedUnqueued == \A t \in Thread, p \in Prio : stat[t] = "close" => ~Contains(rq.table[p], t)
-----------------------------------------------------------------------------
(* Fairness: the clock keeps ticking and slices end (WF of the interrupt),  *)
(* and the running thread executes its instructions, so a kernel call it    *)
(* began goes on (WF of ThreadStep).  What applications call is not fair.   *)
LiveSpec == /\ Spec
            /\ WF_schedVars(rt_tick_increase)
            /\ \A t \in Thread : WF_schedVars(ThreadStep(t))

WaitsForSlice(t) == t \in ReadySet /\ current # t /\ prio[t] = prio[current]

\* Round robin: as long as critical sections keep being left, and priorities are
\* no longer set (rt_thread_control sends a ready thread to the end of its list),
\* a ready thread does not wait for ever behind running threads of its own
\* priority, although slices may end while the scheduler is locked.
SetsPrio == \E t, u \in Thread, p \in NewPrio : rt_thread_control(t, u, p)
RoundRobin ==
    ([]<>(lockNest = 0) /\ <>[][~SetsPrio]_schedVars)
        => \A t \in Thread : WaitsForSlice(t) ~> ~WaitsForSlice(t)
=============================================================================

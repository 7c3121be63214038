----------------------------- MODULE RtMempool -----------------------------
(***************************************************************************)
(* The RT-Thread memory pool (mempool.c) on top of the scheduler: the      *)
(* fixed-size blocks behind the message queues of bk_rtos_pub.c.           *)
(*                                                                         *)
(* A block is not handed over: rt_mp_free puts it on the free list and     *)
(* wakes one waiter, which tries again and may find that another thread    *)
(* was faster.  used is the callers' view, the blocks handed out.          *)
(***************************************************************************)
EXTENDS RtSched

CONSTANTS
    Block,       \* the blocks of the pool
    Times        \* the time arguments used: "no" (0), "timed", "forever" (< 0)

ASSUME PoolAssumption ==
    /\ IsFiniteSet(Block) /\ Block # {}
    /\ Times \subseteq {"no", "timed", "forever"}

VARIABLES
    blockList,   \* mp->block_list, the chain of free blocks
    freeCount,   \* mp->block_free_count
    waitq,       \* mp->suspend_thread
    waitCount,   \* mp->suspend_thread_count
    time,        \* the time left to the rt_mp_alloc each thread waits in
    alive,       \* the pool has not been detached
    used         \* the callers' view

poolVars == <<blockList, freeCount, waitq, waitCount, time, alive, used>>
vars == <<schedVars, poolVars>>

PoolPc == {"run", "unsched", "sched", "sleep", "woken", "startup",
           "alloc", "alloc_chk", "detach", "detach_one"}
-----------------------------------------------------------------------------
\* rt_mp_init: all blocks are chained.
PoolInit ==
    /\ Init
    /\ blockList = SetToSeq(Block)
    /\ freeCount = Cardinality(Block)
    /\ waitq = <<>> /\ waitCount = 0
    /\ time = [t \in Thread |-> "no"]
    /\ alive = TRUE
    /\ used = {}

InAlloc(t) == pc[t] \in {"alloc", "alloc_chk"}

\* rt_mp_alloc returns: its time variable is gone.
AllocReturns(t) ==
    /\ Goto(t, IF pc[t] = "alloc_chk" THEN "run" ELSE pc[t])
    /\ time' = [time EXCEPT ![t] = "no"]

\* Leaving the loop: the first free block is handed out.
PopKeepsHead == blockList
Pop == Tail(blockList)

AllocTake(t) ==
    /\ freeCount > 0
    /\ freeCount' = freeCount - 1
    /\ blockList' = Pop
    /\ used' = used \cup {Head(blockList)}
    /\ AllocReturns(t)
    /\ UNCHANGED <<rq, stat, prio, timer, error, defunct, current, lockNest, tgt>>
    /\ UNCHANGED <<waitq, waitCount, alive>>

\* no block, and no time left
AllocRefused(t, tm) ==
    /\ freeCount = 0 /\ tm = "no"
    /\ error' = [error EXCEPT ![t] = "ETIMEOUT"]
    /\ AllocReturns(t)
    /\ UNCHANGED <<rq, stat, prio, timer, defunct, current, lockNest, tgt>>
    /\ UNCHANGED <<blockList, freeCount, waitq, waitCount, alive, used>>

\* no block: the caller suspends itself and becomes the FIRST of the list
AllocWait(t, tm) ==
    /\ freeCount = 0 /\ tm # "no" /\ MayBlock
    /\ error' = [error EXCEPT ![t] = "EOK"]
    /\ stat' = [stat EXCEPT ![t] = "suspend"]
    /\ rq' = rt_schedule_remove_thread(rq, t, prio[t])
    /\ waitq' = rt_list_insert_after(waitq, t)
    /\ waitCount' = waitCount + 1
    /\ timer' = [timer EXCEPT ![t] = (tm = "timed")]
    /\ time' = [time EXCEPT ![t] = tm]
    /\ Goto(t, "alloc")
    /\ UNCHANGED <<prio, defunct, current, lockNest, tgt, blockList, freeCount, alive, used>>

AllocSection(t, tm) == AllocTake(t) \/ AllocRefused(t, tm) \/ AllocWait(t, tm)

rt_mp_alloc(t, tm) == InApp(t) /\ alive /\ AllocSection(t, tm)

\* The rt_schedule inside the loop,
AllocSchedule(t) ==
    /\ At(t, "alloc")
    /\ current' = rt_schedule(rq)
    /\ Goto(t, "alloc_chk")
    /\ UNCHANGED <<rq, stat, prio, timer, error, defunct, lockNest, tgt, poolVars>>

\* and what follows it: give up after an error, or the loop test once more with
\* what is left of a finite waiting time.
LeftOf(tm) == IF tm = "timed" THEN {"timed", "no"} ELSE {tm}

AllocGiveUp(t) ==
    /\ At(t, "alloc_chk") /\ error[t] # "EOK"
    /\ AllocReturns(t)
    /\ UNCHANGED <<rq, stat, prio, timer, error, defunct, current, lockNest, tgt>>
    /\ UNCHANGED <<blockList, freeCount, waitq, waitCount, alive, used>>

AllocAgain(t) ==
    /\ At(t, "alloc_chk") /\ error[t] = "EOK"
    /\ \E tm \in LeftOf(time[t]) : AllocSection(t, tm)

\* rt_thread_resume of the first thread of the list, with error e for it.
WokenStaysLinked == waitq
AfterWake == Tail(waitq)
CountAfterWake == waitCount - 1

WakeFirst(e) ==
    LET w == Head(waitq)
    IN  /\ error' = [error EXCEPT ![w] = e]
        /\ stat' = [stat EXCEPT ![w] = "ready"]
        /\ timer' = rt_timer_stop(w)
        /\ rq' = rt_schedule_insert_thread(rq, w, prio[w])
        /\ waitq' = AfterWake
        /\ waitCount' = CountAfterWake

\* rt_mp_free of block b, by any thread.  The first node of the list is taken
\* for a thread when suspend_thread_count says so: SuspendCount below is what
\* makes that safe, and without it there is no step.
NoWake == FALSE
MustWake == waitCount > 0

FreeWake(t) == MustWake /\ waitq # <<>> /\ WakeFirst("EOK") /\ Goto(t, "sched")

FreeQuiet(t) ==
    /\ ~MustWake
    /\ UNCHANGED <<waitq, waitCount, error, stat, timer, rq, pc>>

rt_mp_free(t, b) ==
    /\ InApp(t) /\ alive /\ b \in used
    /\ freeCount' = freeCount + 1
    /\ blockList' = <<b>> \o blockList
    /\ used' = used \ {b}
    /\ FreeWake(t) \/ FreeQuiet(t)
    /\ UNCHANGED <<prio, defunct, current, lockNest, tgt, time, alive>>

\* rt_mp_detach (rt_mp_delete has the same loop): callers no longer use the
\* pool, none is on its way back into rt_mp_alloc's loop and no timed wait is on
\* (a timeout could empty the list between the loop's test and its section).
rt_mp_detach(t) ==
    /\ InApp(t) /\ alive
    /\ \A u \in Thread : InAlloc(u) => stat[u] = "suspend" /\ ~timer[u]
    /\ alive' = FALSE
    /\ Goto(t, "detach")
    /\ UNCHANGED <<rq, stat, prio, timer, error, defunct, current, lockNest, tgt>>
    /\ UNCHANGED <<blockList, freeCount, waitq, waitCount, time, used>>

\* the list is tested with interrupts enabled,
DetachTest(t) ==
    /\ At(t, "detach")
    /\ Goto(t, IF waitq # <<>> THEN "detach_one" ELSE "unsched")
    /\ UNCHANGED <<rq, stat, prio, timer, error, defunct, current, lockNest, tgt, poolVars>>

\* one waiter is resumed with -RT_ERROR.
DetachOne(t) ==
    /\ At(t, "detach_one") /\ waitq # <<>>
    /\ WakeFirst("ERROR")
    /\ Goto(t, "detach")
    /\ UNCHANGED <<prio, defunct, current, lockNest, tgt>>
    /\ UNCHANGED <<blockList, freeCount, time, alive, used>>

\* rt_thread_timeout unlinks the waiter; suspend_thread_count is not told.
PoolTimeout(t) ==
    /\ rt_thread_timeout(t)
    /\ waitq' = rt_list_remove(waitq, t)
    /\ UNCHANGED <<blockList, freeCount, waitCount, time, alive, used>>

PoolCall(t) == \/ \E tm \in Times : rt_mp_alloc(t, tm)
               \/ \E b \in Block : rt_mp_free(t, b)
               \/ rt_mp_detach(t)

PoolStep(t) == \/ AllocSchedule(t) \/ AllocGiveUp(t) \/ AllocAgain(t)
               \/ DetachTest(t) \/ DetachOne(t)

PoolNext ==
    \/ \E t \in Thread : PoolCall(t) \/ PoolStep(t) \/ PoolTimeout(t)
    \/ (\E t \in Thread : SchedCall(t) \/ SchedStep(t)) /\ UNCHANGED poolVars
    \/ rt_tick_increase /\ UNCHANGED poolVars

PoolSpec == PoolInit /\ [][PoolNext]_vars
-----------------------------------------------------------------------------
PoolTypeOK ==
    /\ CoreTypeOK
    /\ pc \in [Thread -> PoolPc]
    /\ blockList \in Seq(Block)
    /\ freeCount \in 0..Cardinality(Block)
    /\ waitq \in Seq(Thread)
    /\ waitCount \in 0..Cardinality(Thread)
    /\ time \in [Thread -> {"no", "timed", "forever"}]
    /\ alive \in BOOLEAN
    /\ used \subseteq Block

\* No block is handed out twice or lost: every block is either in the free list,
\* once, or with a caller, and block_free_count is the length of that list, so
\* that rt_mp_alloc's RT_ASSERT on the list head can not fail.
BlocksOK ==
    /\ freeCount = Len(blockList)
    /\ Distinct(blockList)
    /\ \A b \in Block : Contains(blockList, b) <=> b \notin used

\* The waiters are exactly the suspended threads inside rt_mp_alloc, each once.
PoolWaitersOK ==
    /\ Distinct(waitq)
    /\ \A t \in Thread : Contains(waitq, t) <=> InAlloc(t) /\ stat[t] = "suspend"

\* suspend_thread_count is the number of threads pended on the pool: rt_mp_free
\* takes the first node of the list for a thread when the count is not 0.  A timed
\* wait that times out breaks it: PoolTimeout leaves the count as it is.
SuspendCount == waitCount = Len(waitq)

\* No lost wakeup: while a thread is left suspended, every free block has a woken
\* thread that has not yet tried again, although other threads may take the
\* blocks in between.
NoLostWakeup ==
    (alive /\ waitq # <<>>) =>
        freeCount <= Cardinality({t \in Thread : InAlloc(t) /\ stat[t] = "ready" /\ error[t] = "EOK"})
=============================================================================

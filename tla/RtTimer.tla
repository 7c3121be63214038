------------------------------ MODULE RtTimer ------------------------------
(***************************************************************************)
(* The RT-Thread timers (timer.c): hard timers, run by the clock interrupt *)
(* in rt_timer_check, and soft timers, run by the timer thread.            *)
(* RT_TIMER_SKIP_LIST_LEVEL is 1, so each kind has one ordered list.       *)
(*                                                                         *)
(* Ticks are unsigned and wrap: TickMod stands for 2^32.  Threads other    *)
(* than the timer thread are either less urgent than it (Low: they run     *)
(* only while it is suspended) or as urgent or more (High).  A thread runs *)
(* rt_timer_start and rt_timer_stop in several sections; interrupt         *)
(* handlers, timeout functions of hard timers among them, in one.          *)
(* started[t] is the callers' view of the timer.                           *)
(***************************************************************************)
EXTENDS RtList

CONSTANTS
    Hard, Soft,      \* the timers without and with RT_TIMER_FLAG_SOFT_TIMER
    Periodic,        \* the timers with RT_TIMER_FLAG_PERIODIC
    NoTimer,
    Low, High,       \* the threads that use timers
    TimerThread,     \* timer_thread
    SoftUsers,       \* who uses soft timers: threads, or "isr"
    TickMod,         \* RT_TICK_MAX + 1
    FirstTick,       \* the tick count at boot, any
    InitTicks,       \* the values given to init_tick of each timer
    MaxLag,          \* bound: nothing due is left undone for longer
    Rules            \* the callers' rules in force, of those below

TickMax == TickMod - 1
Tick == 0..TickMax
HalfRange == TickMax \div 2
Timer == Hard \cup Soft
Head_ == "head"   \* the list head as a node
Actor == Low \cup High \cup {TimerThread}

ASSUME TimerAssumption ==
    /\ Hard \cap Soft = {} /\ NoTimer \notin Timer /\ Head_ \notin Timer /\ Periodic \subseteq Timer
    /\ Low \cap High = {} /\ TimerThread \notin Low \cup High /\ "isr" \notin Actor
    /\ SoftUsers \subseteq Actor \cup {"isr"}

ASSUME TickAssumption ==
    /\ TickMod \in Nat /\ TickMod > 3 /\ FirstTick \in Tick
    /\ MaxLag \in Nat \ {0}
    /\ InitTicks \in [Timer -> SUBSET {i \in Tick : i > 0 /\ i + 2 * MaxLag < HalfRange}]
    /\ \A t \in Timer : InitTicks[t] # {}

VARIABLES
    tick,                       \* rt_tick
    active,                     \* RT_TIMER_FLAG_ACTIVATED
    timeout, initTick,          \* timeout_tick, init_tick
    list,                       \* rt_timer_list and rt_soft_timer_list
    isr, isrTimer,              \* where the clock interrupt stands, and its t
    ready,                      \* timer_thread.stat is RT_THREAD_READY
    wake,                       \* the tick its rt_thread_delay ends at, or TickMod
    pc,                         \* where the timer thread stands
    next, cur, node, fires,     \* its next_timeout, current_tick, n and t
    at, obj,                    \* where each thread stands in a timer call, and on what
    made,                       \* the timer has not been detached or deleted
    started                     \* the callers' view

clock == <<tick, isr, isrTimer>>
flags == <<active, timeout, initTick, made>>
locals == <<next, cur, node, fires>>
thread == <<ready, wake, pc, locals>>
calls == <<at, obj>>
vars == <<clock, flags, list, thread, calls, started>>
-----------------------------------------------------------------------------
(* Ticks and lists.                                                         *)

Minus(a, b) == (a - b + TickMod) % TickMod

\* (current_tick - timeout_tick) < RT_TICK_MAX / 2
ExpiredLate(now, t) == timeout[t] # now /\ Minus(now, timeout[t]) < HalfRange
Expired(now, t) == Minus(now, timeout[t]) < HalfRange

Kind(t) == IF t \in Soft THEN "soft" ELSE "hard"
LinkedIn(ls, t) == Contains(ls[Kind(t)], t)
Linked(t) == LinkedIn(list, t)

\* The timeout of a timer that is taken out is not read before it is set again,
\* unless n points to the timer: otherwise it is forgotten.
Forgotten(t) == IF node = t THEN timeout ELSE [timeout EXCEPT ![t] = 0]

\* _rt_timer_remove
Removed(t) == [list EXCEPT ![Kind(t)] = rt_list_remove(@, t)]

\* The search of rt_timer_start: behind the timers that are due no later, modulo
\* the wrap of the tick count.
BehindByValue(l, due) ==
    CHOOSE k \in 1..(Len(l) + 1) :
        /\ \A j \in 1..(k - 1) : timeout[l[j]] <= due
        /\ k <= Len(l) => due < timeout[l[k]]
Behind(l, due) ==
    LET Later(t) == Minus(timeout[t], due) # 0 /\ Minus(timeout[t], due) < HalfRange
    IN  CHOOSE k \in 1..(Len(l) + 1) :
            /\ \A j \in 1..(k - 1) : ~Later(l[j])
            /\ k <= Len(l) => Later(l[k])

Inserted(ls, t, due) == [ls EXCEPT ![Kind(t)] = InsertAt(@, Behind(@, due), t)]

\* rt_timer_list_next_timeout of the soft timers: RT_TICK_MAX when there is none.
NextTimeout == IF list["soft"] = <<>> THEN TickMax ELSE timeout[Head(list["soft"])]

\* rt_tick_get() + timer->init_tick
DueNoWrap(t) == tick + initTick[t]
Due(t) == (tick + initTick[t]) % TickMod

\* rt_timer_start with interrupts disabled.
StartAtOnce(t) ==
    LET due == Due(t)
    IN  /\ list' = Inserted(Removed(t), t, due)
        /\ timeout' = [timeout EXCEPT ![t] = due]
        /\ active' = [active EXCEPT ![t] = TRUE]
        /\ UNCHANGED <<initTick, made>>
-----------------------------------------------------------------------------
TimerInit ==
    /\ tick = FirstTick /\ isr = "none" /\ isrTimer = NoTimer
    /\ active = [t \in Timer |-> FALSE]
    /\ timeout = [t \in Timer |-> 0]
    /\ initTick \in [Timer -> Tick] /\ \A t \in Timer : initTick[t] \in InitTicks[t]
    /\ list = [k \in {"hard", "soft"} |-> <<>>]
    /\ ready = TRUE /\ wake = TickMod /\ pc = "loop"
    /\ next = 0 /\ cur = 0 /\ node = Head_ /\ fires = NoTimer
    /\ at = [a \in Actor |-> "app"] /\ obj = [a \in Actor |-> NoTimer]
    /\ made = [t \in Timer |-> TRUE]
    /\ started = [t \in Timer |-> FALSE]

\* rt_soft_timer_check holds the scheduler lock except in a timeout function.
Locked == pc \in {"check", "after", "restart"}
InCallback == pc = "callback"

\* Who has the processor.
Runs(a) ==
    /\ isr = "none"
    /\ \/ a \in Low /\ ~ready
       \/ a \in High /\ ~Locked
       \/ a = TimerThread /\ ready

\* The callers' rules.
\* "manager": one thread at a time works on a timer.
\* "own": a one-shot timer is not restarted by its own timeout function, nor before
\*     the check that called it is done with it.
\* "check": no linked soft timer is stopped, detached or restarted while the timer
\*     thread is inside rt_soft_timer_check, its timeout functions included.
\* "detach": a timer is not detached while its own timeout function runs.
Running(t) == (pc \in {"callback", "after"} /\ fires = t) \/ (isr = "callback" /\ isrTimer = t)

MayUse(a, t) ==
    /\ made[t]
    /\ t \in Soft => a \in SoftUsers
    /\ "manager" \in Rules => \A b \in Actor : obj[b] # t
    /\ "check" \in Rules => ~(t \in Soft /\ Linked(t) /\ (Locked \/ InCallback))

MayStart(a, t) ==
    /\ MayUse(a, t)
    /\ "own" \in Rules => (Running(t) => t \in Periodic)

MayDetach(a, t) == MayUse(a, t) /\ ("detach" \in Rules => ~Running(t))

\* Between calls; the timer thread calls from timeout functions.
Calls(a) == /\ Runs(a) /\ at[a] = "app"
            /\ a = TimerThread => InCallback

At_(a, l) == Runs(a) /\ at[a] = l

Go(a, l) == at' = [at EXCEPT ![a] = l]
Leave(a) == Go(a, "app") /\ obj' = [obj EXCEPT ![a] = NoTimer]

\* rt_timer_start: its first section takes the timer out,
StartRemove(a, t) ==
    /\ list' = Removed(t)
    /\ active' = [active EXCEPT ![t] = FALSE]
    /\ timeout' = Forgotten(t)
    /\ Go(a, "start") /\ obj' = [obj EXCEPT ![a] = t]
    /\ UNCHANGED <<clock, initTick, made>>

rt_timer_start(a, t) ==
    /\ Calls(a) /\ MayStart(a, t)
    /\ StartRemove(a, t)
    /\ started' = [started EXCEPT ![t] = TRUE]
    /\ UNCHANGED thread

\* "sentinel": no soft timer is due at RT_TICK_MAX, the value that stands for none.
MayBeDue(t, due) == "sentinel" \in Rules /\ t \in Soft => due # TickMax

\* then the timeout is computed with interrupts enabled,
StartTick(a) ==
    /\ At_(a, "start")
    /\ MayBeDue(obj[a], Due(obj[a]))
    /\ timeout' = [timeout EXCEPT ![obj[a]] = Due(obj[a])]
    /\ Go(a, "insert")
    /\ UNCHANGED <<clock, active, initTick, made, list, thread, obj, started>>

\* and the second section links it; a soft timer has more to do.
TestsNone(t) == FALSE
Tests(t) == t \in Soft

StartInsert(a) ==
    /\ At_(a, "insert")
    /\ list' = Inserted(list, obj[a], timeout[obj[a]])
    /\ active' = [active EXCEPT ![obj[a]] = TRUE]
    /\ IF Tests(obj[a]) THEN Go(a, "test") /\ UNCHANGED obj ELSE Leave(a)
    /\ UNCHANGED <<clock, timeout, initTick, made, thread, started>>

\* For a soft timer the state of the timer thread is tested,
StartTest(a) ==
    /\ At_(a, "test")
    /\ IF ready THEN Leave(a) ELSE Go(a, "resume") /\ UNCHANGED obj
    /\ UNCHANGED <<clock, flags, list, thread, started>>

\* and it is resumed: rt_thread_resume tests the state again,
StartResume(a) ==
    /\ At_(a, "resume")
    /\ IF ready THEN Leave(a) ELSE Go(a, "unlink") /\ UNCHANGED obj
    /\ UNCHANGED <<clock, flags, list, thread, started>>

\* stops the thread's timer in a section of its own, whatever the thread does by now,
ResumeUnlink(a) ==
    /\ At_(a, "unlink")
    /\ wake' = TickMod
    /\ Go(a, "enqueue")
    /\ UNCHANGED <<clock, flags, list, ready, pc, locals, obj, started>>

\* and makes it ready in another.
ResumeEnqueue(a) ==
    /\ At_(a, "enqueue")
    /\ ready' = TRUE
    /\ Leave(a)
    /\ UNCHANGED <<clock, flags, list, wake, pc, locals, started>>

\* rt_timer_stop: the flag is tested, and cleared at the end, with interrupts
\* enabled; an inactive timer is refused.
rt_timer_stop(a, t) ==
    /\ Calls(a) /\ MayUse(a, t) /\ active[t]
    /\ Go(a, "stop") /\ obj' = [obj EXCEPT ![a] = t]
    /\ UNCHANGED <<clock, flags, list, thread, started>>

StopRemove(a) ==
    /\ At_(a, "stop")
    /\ list' = Removed(obj[a])
    /\ timeout' = Forgotten(obj[a])
    /\ Go(a, "stopped")
    /\ UNCHANGED <<clock, active, initTick, made, thread, obj, started>>

StopForgets(t) == active
StopClears(t) == [active EXCEPT ![t] = FALSE]

StopFlag(a) ==
    /\ At_(a, "stopped")
    /\ active' = StopClears(obj[a])
    /\ started' = [started EXCEPT ![obj[a]] = FALSE]
    /\ Leave(a)
    /\ UNCHANGED <<clock, timeout, initTick, made, list, thread>>

\* rt_timer_detach, rt_timer_delete: the flag is left as it is.  The timer is
\* made again, by rt_timer_init, before it is used again.
rt_timer_detach(a, t) ==
    /\ Calls(a) /\ MayDetach(a, t)
    /\ list' = Removed(t)
    /\ timeout' = Forgotten(t)
    /\ made' = [made EXCEPT ![t] = FALSE]
    /\ started' = [started EXCEPT ![t] = FALSE]
    /\ UNCHANGED <<clock, active, initTick, thread, calls>>

\* rt_timer_init, rt_timer_create
rt_timer_init(a, t, i) ==
    /\ Calls(a) /\ ~made[t] /\ ~Running(t)
    /\ made' = [made EXCEPT ![t] = TRUE]
    /\ active' = [active EXCEPT ![t] = FALSE]
    /\ timeout' = [timeout EXCEPT ![t] = 0]
    /\ initTick' = [initTick EXCEPT ![t] = i]
    /\ UNCHANGED <<clock, list, thread, calls, started>>

\* rt_timer_control(RT_TIMER_CTRL_SET_TIME); a timer that is running keeps the
\* timeout it has until it is started again.
rt_timer_control(a, t, i) ==
    /\ Calls(a) /\ MayUse(a, t)
    /\ initTick' = [initTick EXCEPT ![t] = i]
    /\ UNCHANGED <<clock, active, timeout, made, list, thread, calls, started>>
-----------------------------------------------------------------------------
(* The clock interrupt and other interrupt handlers.                        *)

\* Nothing that is due is left undone for MaxLag ticks: the linked timers, the
\* starts under way and the timer thread's own copies of the tick count.
InTime(now) ==
    /\ \A t \in Timer : Linked(t) /\ Expired(now, t) => Minus(now, timeout[t]) <= MaxLag
    /\ \A a \in Actor : at[a] = "insert" /\ Expired(now, obj[a]) => Minus(now, timeout[obj[a]]) <= MaxLag
    /\ pc = "delay" => Minus(now, cur) <= MaxLag

\* rt_tick_increase; the timer of the timer thread's delay is a hard timer too.
rt_tick_increase ==
    LET now == (tick + 1) % TickMod
    IN  /\ isr = "none" /\ InTime(now)
        /\ tick' = now
        /\ isr' = "check"
        /\ IF wake # TickMod /\ Minus(now, wake) < HalfRange
           THEN ready' = TRUE /\ wake' = TickMod
           ELSE UNCHANGED <<ready, wake>>
        /\ UNCHANGED <<isrTimer, flags, list, pc, locals, calls, started>>

HardDue == list["hard"] # <<>> /\ Expired(tick, Head(list["hard"]))

\* rt_timer_check: the first timer, if it is due, is taken out,
CheckFirst ==
    /\ isr = "check" /\ HardDue
    /\ list' = Removed(Head(list["hard"]))
    /\ timeout' = Forgotten(Head(list["hard"]))
    /\ isr' = "callback" /\ isrTimer' = Head(list["hard"])
    /\ UNCHANGED <<tick, active, initTick, made, thread, calls, started>>

CheckDone ==
    /\ isr = "check" /\ ~HardDue
    /\ isr' = "none"
    /\ UNCHANGED <<tick, isrTimer, flags, list, thread, calls, started>>

\* What an interrupt handler does with a timer, in one step.
HandlerStart(t) ==
    /\ MayStart("isr", t)
    /\ StartAtOnce(t)
    /\ started' = [started EXCEPT ![t] = TRUE]
    /\ IF t \in Soft /\ ~ready THEN ready' = TRUE /\ wake' = TickMod ELSE UNCHANGED <<ready, wake>>

HandlerStop(t) ==
    /\ MayUse("isr", t) /\ active[t]
    /\ list' = Removed(t)
    /\ timeout' = Forgotten(t)
    /\ active' = [active EXCEPT ![t] = FALSE]
    /\ started' = [started EXCEPT ![t] = FALSE]
    /\ UNCHANGED <<initTick, made, ready, wake>>

\* its timeout function is called, which may use a timer,
CheckCallback ==
    /\ isr = "callback" /\ isr' = "after"
    /\ \/ UNCHANGED <<flags, list, ready, wake, started>>
       \/ \E t \in Timer : HandlerStart(t) \/ HandlerStop(t)
    /\ UNCHANGED <<tick, isrTimer, pc, locals, calls>>

\* and it is started again or deactivated.
RestartAlways(t) == t \in Periodic
RestartWanted(t) == t \in Periodic /\ active[t]

CheckAfter ==
    /\ isr = "after" /\ isr' = "check" /\ isrTimer' = NoTimer
    /\ IF RestartWanted(isrTimer)
       THEN StartAtOnce(isrTimer)
       ELSE /\ active' = [active EXCEPT ![isrTimer] = FALSE]
            /\ UNCHANGED <<timeout, initTick, made, list>>
    /\ started' = [started EXCEPT ![isrTimer] = @ /\ (isrTimer \in Periodic \/ Linked(isrTimer))]
    /\ UNCHANGED <<tick, thread, calls>>

\* A driver's interrupt handler.
DriverInterrupt(t) ==
    /\ isr = "none"
    /\ HandlerStart(t) \/ HandlerStop(t)
    /\ UNCHANGED <<clock, pc, locals, calls>>
-----------------------------------------------------------------------------
(* The timer thread.                                                        *)

Thread_(l) == isr = "none" /\ ready /\ pc = l

\* rt_thread_timer_entry reads the next timeout with interrupts enabled,
ReadNext ==
    /\ Thread_("loop")
    /\ next' = NextTimeout
    /\ pc' = IF NextTimeout = TickMax THEN "suspend" ELSE "now"
    /\ UNCHANGED <<clock, flags, list, ready, wake, cur, node, fires, calls, started>>

\* and suspends itself, which stops its own timer, when there is none,
SuspendTimerThread ==
    /\ Thread_("suspend")
    /\ ready' = FALSE /\ wake' = TickMod /\ next' = 0 /\ pc' = "begin"
    /\ UNCHANGED <<clock, flags, list, cur, node, fires, calls, started>>

\* or reads the tick count and sleeps unless it is late.
ReadTick ==
    /\ Thread_("now")
    /\ cur' = tick
    /\ pc' = IF Minus(next, tick) < HalfRange THEN "delay" ELSE "begin"
    /\ UNCHANGED <<clock, flags, list, ready, wake, next, node, fires, calls, started>>

Delay ==
    /\ Thread_("delay")
    /\ ready' = FALSE
    /\ wake' = (tick + Minus(next, cur)) % TickMod
    /\ next' = 0 /\ cur' = 0
    /\ pc' = "begin"
    /\ UNCHANGED <<clock, flags, list, node, fires, calls, started>>

\* rt_soft_timer_check: reads the tick count,
CheckBegin ==
    /\ Thread_("begin")
    /\ cur' = tick
    /\ next' = 0   \* dead, as cur is where it is set to 0
    /\ pc' = "enter"
    /\ UNCHANGED <<clock, flags, list, ready, wake, node, fires, calls, started>>

\* locks the scheduler and starts at the first node.
CheckEnter ==
    /\ Thread_("enter")
    /\ node' = IF list["soft"] = <<>> THEN Head_ ELSE Head(list["soft"])
    /\ pc' = "check"
    /\ UNCHANGED <<clock, flags, list, ready, wake, next, cur, fires, calls, started>>

\* The successor of a node; a node that is in no list is its own.
NodeAfter(t) ==
    LET l == list["soft"]
        i == CHOOSE i \in 1..Len(l) : l[i] = t
    IN  IF ~Linked(t) THEN t ELSE IF i = Len(l) THEN Head_ ELSE l[i + 1]

SoftDue == node # Head_ /\ Expired(cur, node)

\* A node that is due is kept in t and n moves on; then t is taken out, the
\* scheduler unlocked and the timeout function called.
SoftFirst ==
    /\ Thread_("check") /\ SoftDue
    /\ fires' = node
    /\ node' = NodeAfter(node)
    /\ list' = Removed(node)
    /\ timeout' = IF Linked(node) THEN [timeout EXCEPT ![node] = 0] ELSE timeout
    /\ cur' = 0
    /\ pc' = "callback"
    /\ UNCHANGED <<clock, active, initTick, made, ready, wake, next, calls, started>>

SoftDone ==
    /\ Thread_("check") /\ ~SoftDue
    /\ pc' = "loop"
    /\ node' = Head_ /\ cur' = 0
    /\ UNCHANGED <<clock, flags, list, ready, wake, next, fires, calls, started>>

\* The timeout function returns: the tick count is read again and the scheduler
\* locked.
CallbackReturn ==
    /\ Thread_("callback") /\ at[TimerThread] = "app"
    /\ cur' = tick
    /\ pc' = "after"
    /\ UNCHANGED <<clock, flags, list, ready, wake, next, node, fires, calls, started>>

\* The timer is started again, through all of rt_timer_start, or deactivated.
SoftRestart ==
    /\ Thread_("after") /\ RestartWanted(fires)
    /\ StartRemove(TimerThread, fires)
    /\ pc' = "restart"
    /\ UNCHANGED <<ready, wake, locals, started>>

SoftRestarted ==
    /\ Thread_("restart") /\ at[TimerThread] = "app"
    /\ fires' = NoTimer
    /\ pc' = "check"
    /\ UNCHANGED <<clock, flags, list, ready, wake, next, cur, node, calls, started>>

SoftStop ==
    /\ Thread_("after") /\ ~RestartWanted(fires)
    /\ active' = [active EXCEPT ![fires] = FALSE]
    /\ started' = [started EXCEPT ![fires] = @ /\ (fires \in Periodic \/ Linked(fires))]
    /\ fires' = NoTimer
    /\ pc' = "check"
    /\ UNCHANGED <<clock, timeout, initTick, made, list, ready, wake, next, cur, node, calls>>
-----------------------------------------------------------------------------
CallStep(a) == \/ StartTick(a) \/ StartInsert(a)
               \/ StartTest(a) \/ StartResume(a) \/ ResumeUnlink(a) \/ ResumeEnqueue(a)
               \/ StopRemove(a) \/ StopFlag(a)

ThreadCall(a, t) == \/ rt_timer_start(a, t) \/ rt_timer_stop(a, t) \/ rt_timer_detach(a, t)
                    \/ \E i \in InitTicks[t] : rt_timer_init(a, t, i) \/ rt_timer_control(a, t, i)

ThreadStep == \/ ReadNext \/ SuspendTimerThread \/ ReadTick \/ Delay \/ CheckBegin \/ CheckEnter
              \/ SoftFirst \/ SoftDone \/ CallbackReturn
              \/ SoftRestart \/ SoftRestarted \/ SoftStop

Interrupt == \/ rt_tick_increase \/ CheckFirst \/ CheckDone \/ CheckCallback \/ CheckAfter

TimerNext ==
    \/ \E a \in Actor : CallStep(a) \/ \E t \in Timer : ThreadCall(a, t)
    \/ ThreadStep
    \/ Interrupt \/ \E t \in Timer : DriverInterrupt(t)

TimerSpec == TimerInit /\ [][TimerNext]_vars
-----------------------------------------------------------------------------
TimerTypeOK ==
    /\ tick \in Tick /\ isr \in {"none", "check", "callback", "after"}
    /\ isrTimer \in Hard \cup {NoTimer}
    /\ active \in [Timer -> BOOLEAN]
    /\ timeout \in [Timer -> Tick] /\ initTick \in [Timer -> Tick]
    /\ list["hard"] \in Seq(Hard) /\ list["soft"] \in Seq(Soft)
    /\ ready \in BOOLEAN /\ wake \in 0..TickMod
    /\ node \in Soft \cup {Head_} /\ fires \in Soft \cup {NoTimer}
    /\ obj \in [Actor -> Timer \cup {NoTimer}]
    /\ made \in [Timer -> BOOLEAN] /\ started \in [Timer -> BOOLEAN]

\* Both lists stay in the order of their timeouts across the wrap of the tick
\* count, and link no timer twice, whatever interrupts a start.
ListsOrdered ==
    \A k \in {"hard", "soft"} :
        /\ Distinct(list[k])
        /\ \A i, j \in 1..Len(list[k]) :
            i < j => Minus(timeout[list[k][j]], timeout[list[k][i]]) < HalfRange

\* The flag tells the truth between calls: a timer that no call, timeout function
\* or restart is at work on is activated exactly when it is linked.
Idle(t) == (\A a \in Actor : obj[a] # t) /\ fires # t /\ isrTimer # t
FlagOK == \A t \in Timer : Idle(t) /\ made[t] => (active[t] <=> Linked(t))

\* When the clock interrupt returns no hard timer that was linked is due: each
\* one is run in the tick it was set for, the wrap of the tick count included.
HardInTime ==
    [][isr # "none" /\ isr' = "none" =>
        \A t \in Hard : Linked(t) => Minus(tick, timeout[t]) >= HalfRange]_vars

\* A timeout function is called only of a timer that is started: not after its
\* rt_timer_stop or rt_timer_detach has returned, and once per start.
Fires(t) == (isr # "callback" /\ isr' = "callback" /\ isrTimer' = t)
            \/ (pc # "callback" /\ pc' = "callback" /\ fires' = t)
FireOnlyStarted == [][\A t \in Timer : Fires(t) => started[t]]_vars

\* No lost wakeup: the timer thread is suspended without a delay only when no soft
\* timer is linked, or a thread is about to resume it.
Waking == {"test", "resume", "unlink", "enqueue"}
NoLostTimer ==
    ~ready /\ wake = TickMod /\ list["soft"] # <<>> => \E a \in Actor : at[a] \in Waking

\* Only one step leaves the timer thread asleep over a linked soft timer: its own
\* rt_thread_suspend, which acts on the timeout it read earlier.  No start, from any
\* thread, timeout function or interrupt handler, no resume cut into its sections and
\* no end of a delay does.
LostOnlyAtSuspend ==
    [][NoLostTimer /\ ~NoLostTimer' => pc = "suspend" /\ pc' = "begin"]_vars
=============================================================================

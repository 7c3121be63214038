--------------------------- MODULE RtTimerProofs ---------------------------
(***************************************************************************)
(* Proofs about RtTimer, for any timers, threads and modulus of the tick   *)
(* count.  First, without a rule on the callers, which step can leave the  *)
(* timer thread asleep over a soft timer (ShapeInv).  Then, under the      *)
(* callers' rules: the flags, lists and calls (TimerInv), without a word   *)
(* on ticks, and the order of the lists, from a window that all timeouts   *)
(* in use lie in.                                                          *)
(***************************************************************************)
EXTENDS RtTimer, RtListProofs

\* The callers keep the rules, and soft timers are used by threads less urgent than
\* the timer thread, by timeout functions and by interrupt handlers.
RulesKept ==
    /\ {"manager", "own", "check", "detach"} \subseteq Rules
    /\ SoftUsers \subseteq Low \cup {TimerThread, "isr"}

ListKind == {"hard", "soft"}
ThreadPc == {"loop", "suspend", "now", "delay", "begin", "enter", "check", "callback", "after", "restart"}
CallPc == {"app", "start", "insert", "test", "resume", "unlink", "enqueue", "stop", "stopped"}

ListType(ls) ==
    /\ DOMAIN ls = ListKind /\ ls["hard"] \in Seq(Hard) /\ ls["soft"] \in Seq(Soft)
    /\ \A k \in ListKind : Distinct(ls[k])

\* Types, and no list links a timer twice.
TypeInv ==
    /\ ListType(list)
    /\ tick \in Tick /\ isr \in {"none", "check", "callback", "after"}
    /\ isrTimer \in Hard \cup {NoTimer}
    /\ active \in [Timer -> BOOLEAN] /\ made \in [Timer -> BOOLEAN] /\ started \in [Timer -> BOOLEAN]
    /\ timeout \in [Timer -> Tick] /\ initTick \in [Timer -> Tick]
    /\ \A t \in Timer : initTick[t] \in InitTicks[t]
    /\ ready \in BOOLEAN /\ wake \in 0..TickMod /\ pc \in ThreadPc
    /\ next \in Tick /\ cur \in Tick
    /\ node \in Soft \cup {Head_} /\ fires \in Soft \cup {NoTimer}
    /\ at \in [Actor -> CallPc] /\ obj \in [Actor -> Timer \cup {NoTimer}]

\* Where the two checks stand.  The timer thread is suspended only before a check;
\* the node it will look at next stays linked.
ThreadInv ==
    /\ IF isr \in {"callback", "after"} THEN isrTimer \in Hard ELSE isrTimer = NoTimer
    /\ ~ready => pc = "begin"
    /\ IF pc \in {"callback", "after", "restart"} THEN fires \in Soft ELSE fires = NoTimer
    /\ at[TimerThread] # "app" => pc \in {"callback", "restart"}
    /\ pc = "restart" /\ at[TimerThread] # "app" =>
          obj[TimerThread] = fires /\ at[TimerThread] \in {"start", "insert"} \cup Waking
    /\ pc = "restart" => fires \in Periodic /\ (at[TimerThread] \in {"start", "insert"} \/ Linked(fires))
    /\ pc \in {"check", "callback", "after", "restart"} /\ node # Head_ => Linked(node) /\ node # fires

\* What a call between two of its sections may rely on.
CallOK(a) ==
    /\ at[a] = "app" <=> obj[a] = NoTimer
    /\ obj[a] \in Soft => a \in Low \cup {TimerThread}
    /\ obj[a] \in Timer => made[obj[a]]
    /\ at[a] \in Waking => obj[a] \in Soft
    /\ at[a] \in {"start", "insert"} => ~Linked(obj[a]) /\ ~active[obj[a]] /\ started[obj[a]]
    /\ at[a] = "stopped" => ~Linked(obj[a])
    /\ obj[a] \in Hard /\ obj[a] = isrTimer => at[a] = "stop"

\* Two calls are on one timer only where the timer thread starts it again.
CallInv ==
    /\ \A a \in Actor : CallOK(a)
    /\ \A a, b \in Actor \ {TimerThread} : obj[a] = obj[b] /\ obj[a] \in Timer => a = b
    /\ \A a \in Actor \ {TimerThread} : obj[a] \in Timer =>
        /\ obj[a] = obj[TimerThread] => pc = "restart"
        /\ obj[a] = fires => at[a] \in {"stop"} \cup Waking
    /\ obj[TimerThread] \in Soft =>
        /\ at[TimerThread] = "stop" => ~Linked(obj[TimerThread])
        /\ at[TimerThread] \in {"start", "insert"} /\ obj[TimerThread] = fires => fires \in Periodic

\* RT_TIMER_FLAG_ACTIVATED, the lists and the callers' view.
FlagInv ==
    \A t \in Timer :
        /\ Linked(t) => active[t] /\ made[t]
        /\ made[t] /\ active[t] => started[t]
        /\ made[t] /\ active[t] /\ ~Linked(t) =>
              fires = t \/ isrTimer = t \/ \E a \in Actor : obj[a] = t /\ at[a] = "stopped"
        /\ fires = t \/ isrTimer = t => made[t] /\ (t \in Periodic \/ ~Linked(t))

TimerInv == TypeInv /\ ThreadInv /\ CallInv /\ FlagInv

USE DEF Waking
-----------------------------------------------------------------------------
(* Ticks and lists.                                                         *)

\* The constants as numbers and disjoint sets.
LEMMA TimerFacts ==
    /\ TickMod \in Nat /\ TickMod > 3 /\ TickMax \in Nat /\ TickMax = TickMod - 1
    /\ Tick = 0..(TickMod - 1) /\ 0 \in Tick /\ TickMax # 0
    /\ HalfRange \in Nat /\ HalfRange + HalfRange <= TickMax
    /\ MaxLag \in Nat \ {0}
    /\ \A t \in Timer : t \in Soft <=> t \notin Hard
    /\ NoTimer \notin Timer /\ Head_ \notin Timer /\ Timer = Hard \cup Soft
    /\ TimerThread \in Actor /\ TimerThread \notin Low /\ TimerThread \notin High
    /\ Actor = Low \cup High \cup {TimerThread} /\ \A a \in Low : a \notin High
    /\ "isr" \notin Actor
<1>1. TickMod \in Nat /\ TickMod > 3 /\ MaxLag \in Nat \ {0}
  BY TickAssumption
<1>2. HalfRange \in Nat /\ HalfRange + HalfRange <= TickMax
  BY <1>1 DEF HalfRange, TickMax
<1> QED BY <1>1, <1>2, TimerAssumption DEF TickMax, Tick, Timer, Actor

\* The difference of two ticks, without the modulus.
LEMMA MinusValue ==
    ASSUME NEW a \in Tick, NEW b \in Tick
    PROVE  /\ Minus(a, b) = IF a >= b THEN a - b ELSE a - b + TickMod
           /\ Minus(a, b) \in Tick
<1> DEFINE x == a - b + TickMod
<1>1. TickMod \in Nat \ {0} /\ x \in 0..(TickMod + TickMod - 1) /\ a \in Nat /\ b \in Nat
  BY TimerFacts
<1>2. Minus(a, b) = x % TickMod
  BY DEF Minus
<1> HIDE DEF x
<1>3. x % TickMod = IF x < TickMod THEN x ELSE x - TickMod
  BY <1>1, ModRing
<1>4. Minus(a, b) = IF a >= b THEN a - b ELSE a - b + TickMod
  BY <1>1, <1>2, <1>3 DEF x
<1> QED BY <1>1, <1>4, TimerFacts

\* The sum of two ticks, without the modulus.
LEMMA PlusValue ==
    ASSUME NEW a \in Tick, NEW b \in Tick
    PROVE  /\ (a + b) % TickMod = IF a + b < TickMod THEN a + b ELSE a + b - TickMod
           /\ (a + b) % TickMod \in Tick
<1> DEFINE x == a + b
<1>1. TickMod \in Nat \ {0} /\ x \in 0..(TickMod + TickMod - 1) /\ a \in Nat /\ b \in Nat
  BY TimerFacts
<1> HIDE DEF x
<1>3. x % TickMod = IF x < TickMod THEN x ELSE x - TickMod
  BY <1>1, ModRing
<1> QED BY <1>1, <1>3, TimerFacts DEF x

\* The search loop of rt_timer_start ends, at a position between timers that are
\* not later and one that is.
LEMMA BehindFacts ==
    ASSUME NEW l \in Seq(Timer), NEW due
    PROVE  LET Later(t) == Minus(timeout[t], due) # 0 /\ Minus(timeout[t], due) < HalfRange
               k == Behind(l, due)
           IN  /\ k \in 1..(Len(l) + 1)
               /\ \A j \in 1..(k - 1) : ~Later(l[j])
               /\ k <= Len(l) => Later(l[k])
<1> DEFINE Later(t) == Minus(timeout[t], due) # 0 /\ Minus(timeout[t], due) < HalfRange
           P(k) == (\A j \in 1..(k - 1) : ~Later(l[j])) /\ (k <= Len(l) => Later(l[k]))
           G == {k \in 1..(Len(l) + 1) : k = Len(l) + 1 \/ Later(l[k])}
<1>1. Len(l) \in Nat
  OBVIOUS
<1> HIDE DEF Later
<1>2. G \in SUBSET Nat /\ Len(l) + 1 \in G
  BY <1>1
<1>3. PICK k \in G : \A q \in G : k <= q
  BY <1>2, LeastNat
<1>4. k \in 1..(Len(l) + 1) /\ P(k)
  <2>1. k \in 1..(Len(l) + 1) /\ (k <= Len(l) => Later(l[k]))
    BY <1>1
  <2>2. ASSUME NEW j \in 1..(k - 1) PROVE ~Later(l[j])
    <3>1. j \in 1..(Len(l) + 1) /\ ~(k <= j)
      BY <2>1, <1>1
    <3> QED BY <3>1, <1>3
  <2> QED BY <2>1, <2>2
<1>5. Behind(l, due) = CHOOSE x \in 1..(Len(l) + 1) : P(x)
  BY DEF Behind, Later
<1>6. Behind(l, due) \in 1..(Len(l) + 1) /\ P(Behind(l, due))
  <2> HIDE DEF P
  <2> QED BY <1>4, <1>5
<1> QED BY <1>6 DEF Later

\* _rt_timer_remove takes out exactly its timer.
LEMMA RemovedFacts ==
    ASSUME ListType(list), NEW t \in Timer
    PROVE  /\ ListType(Removed(t))
           /\ \A u \in Timer : LinkedIn(Removed(t), u) <=> LinkedIn(list, u) /\ u # t
           /\ \A k \in ListKind : k # Kind(t) \/ list[k] = <<>> => Removed(t)[k] = list[k]
<1> DEFINE r == rt_list_remove(list[Kind(t)], t)
<1>1. Kind(t) \in ListKind /\ (Kind(t) = "soft" <=> t \in Soft) /\ (Kind(t) = "hard" <=> t \in Hard)
  BY TimerFacts DEF Kind, ListKind
<1>2. PICK S : /\ list[Kind(t)] \in Seq(S) /\ (S = Hard \/ S = Soft)
               /\ Kind(t) = "hard" => S = Hard
               /\ Kind(t) = "soft" => S = Soft
  BY <1>1 DEF ListType, ListKind
<1>3. Distinct(list[Kind(t)])
  BY <1>1 DEF ListType
<1>4. r \in Seq(S) /\ Distinct(r) /\ \A e : Contains(r, e) <=> Contains(list[Kind(t)], e) /\ e # t
  BY <1>2, <1>3, ListRemove
<1>5. Removed(t) = [list EXCEPT ![Kind(t)] = r] /\ (list[Kind(t)] = <<>> => r = list[Kind(t)])
  <2>1. list[Kind(t)] = <<>> => ~Contains(list[Kind(t)], t)
    BY DEF Contains
  <2> QED BY <2>1, ListRemoveAbsent DEF Removed
<1> HIDE DEF r
<1>6. /\ DOMAIN Removed(t) = ListKind /\ Removed(t)[Kind(t)] = r
      /\ \A k \in ListKind : k # Kind(t) \/ list[k] = <<>> => Removed(t)[k] = list[k]
  BY <1>1, <1>5 DEF ListType
<1>7. ListType(Removed(t))
  BY <1>1, <1>2, <1>4, <1>6 DEF ListType, ListKind
<1>8. ASSUME NEW u \in Timer PROVE LinkedIn(Removed(t), u) <=> LinkedIn(list, u) /\ u # t
  <2>1. Kind(u) \in ListKind
    BY DEF Kind, ListKind
  <2>2. CASE Kind(u) = Kind(t)
    BY <1>4, <1>6, <2>2 DEF LinkedIn
  <2>3. CASE Kind(u) # Kind(t)
    BY <1>6, <2>1, <2>3 DEF LinkedIn
  <2> QED BY <2>2, <2>3
<1> QED BY <1>6, <1>7, <1>8

\* The linking of rt_timer_start adds exactly its timer.
LEMMA InsertedFacts ==
    ASSUME NEW ls, ListType(ls), NEW t \in Timer, NEW due, ~LinkedIn(ls, t)
    PROVE  /\ ListType(Inserted(ls, t, due))
           /\ \A u \in Timer : LinkedIn(Inserted(ls, t, due), u) <=> LinkedIn(ls, u) \/ u = t
           /\ \A k \in ListKind : k # Kind(t) => Inserted(ls, t, due)[k] = ls[k]
<1> DEFINE l == ls[Kind(t)]
           r == InsertAt(l, Behind(l, due), t)
<1>1. Kind(t) \in ListKind /\ (Kind(t) = "soft" <=> t \in Soft) /\ (Kind(t) = "hard" <=> t \in Hard)
  BY TimerFacts DEF Kind, ListKind
<1>2. PICK S : /\ l \in Seq(S) /\ t \in S /\ (S = Hard \/ S = Soft)
               /\ Kind(t) = "hard" => S = Hard
               /\ Kind(t) = "soft" => S = Soft
  BY <1>1 DEF ListType, ListKind
<1>3. Distinct(l) /\ ~Contains(l, t)
  BY <1>1 DEF ListType, LinkedIn
<1>4. l \in Seq(Timer)
  <2>1. S \subseteq Timer
    BY <1>2, TimerFacts
  <2> HIDE DEF l
  <2> QED BY <1>2, <2>1
<1> HIDE DEF l
<1>5. Behind(l, due) \in 1..(Len(l) + 1)
  BY <1>4, BehindFacts
<1>6. r \in Seq(S) /\ Distinct(r) /\ \A e : Contains(r, e) <=> Contains(l, e) \/ e = t
  BY <1>2, <1>3, <1>5, InsertAtList
<1>7. Inserted(ls, t, due) = [ls EXCEPT ![Kind(t)] = r]
  BY DEF Inserted, l
<1> HIDE DEF r
<1>8. /\ DOMAIN Inserted(ls, t, due) = ListKind /\ Inserted(ls, t, due)[Kind(t)] = r
      /\ \A k \in ListKind : k # Kind(t) => Inserted(ls, t, due)[k] = ls[k]
  BY <1>1, <1>7 DEF ListType
<1>9. ListType(Inserted(ls, t, due))
  BY <1>1, <1>2, <1>6, <1>8 DEF ListType, ListKind
<1>10. ASSUME NEW u \in Timer PROVE LinkedIn(Inserted(ls, t, due), u) <=> LinkedIn(ls, u) \/ u = t
  <2>1. Kind(u) \in ListKind
    BY DEF Kind, ListKind
  <2>2. CASE Kind(u) = Kind(t)
    BY <1>6, <1>8, <2>2 DEF LinkedIn, l
  <2>3. CASE Kind(u) # Kind(t)
    BY <1>8, <2>1, <2>3 DEF LinkedIn
  <2> QED BY <2>2, <2>3
<1> QED BY <1>8, <1>9, <1>10
-----------------------------------------------------------------------------
(* The wakeup of the timer thread, without a rule on the callers.           *)

Shape(ls) == DOMAIN ls = ListKind /\ ls["hard"] \in Seq(Hard) /\ ls["soft"] \in Seq(Soft)

\* Each list holds timers of its kind, and the checks and starts work on timers.
ShapeInv ==
    /\ Shape(list)
    /\ DOMAIN at = Actor /\ DOMAIN obj = Actor
    /\ \A a \in Actor : at[a] \in {"start", "insert"} => obj[a] \in Timer
    /\ isr \in {"callback", "after"} => isrTimer \in Hard
    /\ node \in Soft \cup {Head_}
    /\ pc \in {"callback", "after"} => fires \in Soft

\* Tick counts stay in their range.
TicksInv ==
    /\ tick \in Tick /\ next \in Tick /\ cur \in Tick
    /\ timeout \in [Timer -> Tick] /\ initTick \in [Timer -> Tick]

\* _rt_timer_remove leaves timers of the lists' kinds, and an empty list empty.
LEMMA ShapeRemoved ==
    ASSUME Shape(list), NEW t
    PROVE  Shape(Removed(t)) /\ (list["soft"] = <<>> => Removed(t)["soft"] = <<>>)
<1>1. ASSUME NEW S, NEW l \in Seq(S)
      PROVE  rt_list_remove(l, t) \in Seq(S) /\ (l = <<>> => rt_list_remove(l, t) = <<>>)
  <2>1. CASE \E i \in 1..Len(l) : l[i] = t
    <3> DEFINE k == CHOOSE i \in 1..Len(l) : l[i] = t
    <3>1. k \in 1..Len(l)
      BY <2>1
    <3>2. rt_list_remove(l, t) = RemoveAt(l, k)
      BY <2>1 DEF rt_list_remove
    <3> HIDE DEF k
    <3> QED BY <2>1, <3>1, <3>2, RemoveAtProperties
  <2>2. CASE ~\E i \in 1..Len(l) : l[i] = t
    BY <2>2 DEF rt_list_remove
  <2> QED BY <2>1, <2>2
<1>2. /\ Kind(t) \in ListKind
      /\ Removed(t) = [list EXCEPT ![Kind(t)] = rt_list_remove(list[Kind(t)], t)]
  BY DEF Removed, Kind, ListKind
<1>3. /\ rt_list_remove(list["hard"], t) \in Seq(Hard) /\ rt_list_remove(list["soft"], t) \in Seq(Soft)
      /\ list["soft"] = <<>> => rt_list_remove(list["soft"], t) = <<>>
  BY <1>1 DEF Shape
<1> QED BY <1>2, <1>3 DEF Shape, ListKind

\* The linking of rt_timer_start keeps the kinds apart.
LEMMA ShapeInserted ==
    ASSUME NEW ls, Shape(ls), NEW t \in Timer, NEW due
    PROVE  Shape(Inserted(ls, t, due)) /\ (t \notin Soft => Inserted(ls, t, due)["soft"] = ls["soft"])
<1> DEFINE l == ls[Kind(t)]
           r == InsertAt(l, Behind(l, due), t)
<1>1. PICK S : /\ l \in Seq(S) /\ t \in S /\ S \subseteq Timer
               /\ t \in Soft => S = Soft
               /\ t \notin Soft => S = Hard
  BY TimerFacts DEF Shape, ListKind, Kind
<1>2. Kind(t) \in ListKind /\ (Kind(t) = "soft" <=> t \in Soft) /\ Inserted(ls, t, due) = [ls EXCEPT ![Kind(t)] = r]
  BY DEF Kind, ListKind, Inserted
<1> HIDE DEF l
<1>3. l \in Seq(Timer)
  BY <1>1
<1>4. r \in Seq(S)
  BY <1>1, <1>3, BehindFacts, InsertAtProperties
<1> HIDE DEF r
<1> QED BY <1>1, <1>2, <1>4 DEF Shape, ListKind

\* rt_timer_start with interrupts disabled.
LEMMA ShapeAtOnce ==
    ASSUME Shape(list), NEW t \in Timer, StartAtOnce(t)
    PROVE  Shape(list') /\ (t \notin Soft /\ list["soft"] = <<>> => list'["soft"] = <<>>)
<1>1. list' = Inserted(Removed(t), t, Due(t))
  BY DEF StartAtOnce
<1>2. Shape(Removed(t)) /\ (list["soft"] = <<>> => Removed(t)["soft"] = <<>>)
  BY ShapeRemoved
<1> QED BY <1>1, <1>2, ShapeInserted

\* A thread's call leaves the timer thread asleep on no timer: the one that links a
\* soft timer goes on to wake it, whatever the others do in between.
LEMMA ShapeCall ==
    ASSUME ShapeInv, NEW a \in Actor, CallStep(a) \/ \E t \in Timer : ThreadCall(a, t)
    PROVE  ShapeInv' /\ (NoLostTimer => NoLostTimer')
<1>1. CASE StartTick(a)
  BY <1>1 DEF ShapeInv, NoLostTimer, StartTick, At_, Go, clock, thread, locals
<1>2. CASE StartInsert(a)
  <2>1. /\ at[a] = "insert" /\ list' = Inserted(list, obj[a], timeout[obj[a]])
        /\ IF obj[a] \in Soft THEN at' = [at EXCEPT ![a] = "test"] /\ obj' = obj
           ELSE at' = [at EXCEPT ![a] = "app"] /\ obj' = [obj EXCEPT ![a] = NoTimer]
        /\ UNCHANGED <<isr, isrTimer, ready, wake, pc, node, fires>>
    BY <1>2 DEF StartInsert, At_, Tests, Go, Leave, clock, thread, locals
  <2>2. Shape(list') /\ (obj[a] \notin Soft => list'["soft"] = list["soft"])
    BY <2>1, ShapeInserted DEF ShapeInv
  <2>3. ShapeInv'
    BY <2>1, <2>2 DEF ShapeInv
  <2>4. NoLostTimer => NoLostTimer'
    BY <2>1, <2>2 DEF ShapeInv, NoLostTimer
  <2> QED BY <2>3, <2>4
<1>3. CASE StartTest(a) \/ StartResume(a)
  BY <1>3 DEF ShapeInv, NoLostTimer, StartTest, StartResume, At_, Go, Leave, clock, thread, locals
<1>4. CASE ResumeUnlink(a) \/ ResumeEnqueue(a)
  BY <1>4 DEF ShapeInv, NoLostTimer, ResumeUnlink, ResumeEnqueue, At_, Go, Leave, clock, locals
<1>5. CASE StopRemove(a)
  <2>1. /\ at[a] = "stop" /\ list' = Removed(obj[a]) /\ at' = [at EXCEPT ![a] = "stopped"]
        /\ UNCHANGED <<obj, isr, isrTimer, ready, wake, pc, node, fires>>
    BY <1>5 DEF StopRemove, At_, Go, clock, thread, locals
  <2>2. Shape(list') /\ (list["soft"] = <<>> => list'["soft"] = <<>>)
    BY <2>1, ShapeRemoved DEF ShapeInv
  <2> QED BY <2>1, <2>2 DEF ShapeInv, NoLostTimer
<1>6. CASE StopFlag(a)
  BY <1>6 DEF ShapeInv, NoLostTimer, StopFlag, At_, Go, Leave, clock, thread, locals
<1>7. ASSUME NEW t \in Timer, rt_timer_start(a, t) PROVE ShapeInv' /\ (NoLostTimer => NoLostTimer')
  <2>1. /\ at[a] = "app" /\ list' = Removed(t) /\ at' = [at EXCEPT ![a] = "start"] /\ obj' = [obj EXCEPT ![a] = t]
        /\ UNCHANGED <<isr, isrTimer, ready, wake, pc, node, fires>>
    BY <1>7 DEF rt_timer_start, Calls, StartRemove, Go, clock, thread, locals
  <2>2. Shape(list') /\ (list["soft"] = <<>> => list'["soft"] = <<>>)
    BY <2>1, ShapeRemoved DEF ShapeInv
  <2> QED BY <2>1, <2>2 DEF ShapeInv, NoLostTimer
<1>8. ASSUME NEW t \in Timer, rt_timer_stop(a, t) PROVE ShapeInv' /\ (NoLostTimer => NoLostTimer')
  BY <1>8 DEF ShapeInv, NoLostTimer, rt_timer_stop, Calls, Go, clock, thread, locals
<1>9. ASSUME NEW t \in Timer, rt_timer_detach(a, t) PROVE ShapeInv' /\ (NoLostTimer => NoLostTimer')
  <2>1. list' = Removed(t) /\ UNCHANGED <<at, obj, isr, isrTimer, ready, wake, pc, node, fires>>
    BY <1>9 DEF rt_timer_detach, clock, thread, locals, calls
  <2>2. Shape(list') /\ (list["soft"] = <<>> => list'["soft"] = <<>>)
    BY <2>1, ShapeRemoved DEF ShapeInv
  <2> QED BY <2>1, <2>2 DEF ShapeInv, NoLostTimer
<1>10. ASSUME NEW t \in Timer, NEW i, rt_timer_init(a, t, i) \/ rt_timer_control(a, t, i)
       PROVE  ShapeInv' /\ (NoLostTimer => NoLostTimer')
  BY <1>10 DEF ShapeInv, NoLostTimer, rt_timer_init, rt_timer_control, clock, thread, locals, calls
<1> QED BY <1>1, <1>2, <1>3, <1>4, <1>5, <1>6, <1>7, <1>8, <1>9, <1>10 DEF CallStep, ThreadCall

\* Neither does an interrupt: a handler that starts a soft timer makes it ready.
LEMMA ShapeInterrupt ==
    ASSUME ShapeInv, Interrupt \/ \E t \in Timer : DriverInterrupt(t)
    PROVE  ShapeInv' /\ (NoLostTimer => NoLostTimer')
<1>1. CASE rt_tick_increase
  <2> DEFINE now == (tick + 1) % TickMod
             fired == wake # TickMod /\ Minus(now, wake) < HalfRange
  <2>1. /\ isr' = "check" /\ UNCHANGED <<isrTimer, list, at, obj, pc, node, fires>>
        /\ IF fired THEN ready' = TRUE /\ wake' = TickMod ELSE UNCHANGED <<ready, wake>>
    BY <1>1 DEF rt_tick_increase, locals, calls
  <2> HIDE DEF fired
  <2> QED BY <2>1 DEF ShapeInv, NoLostTimer
<1>2. CASE CheckFirst
  <2>1. /\ list["hard"] # <<>> /\ list' = Removed(Head(list["hard"])) /\ isrTimer' = Head(list["hard"])
        /\ UNCHANGED <<at, obj, ready, wake, pc, node, fires>>
    BY <1>2 DEF CheckFirst, HardDue, thread, locals, calls
  <2>2. Shape(list') /\ (list["soft"] = <<>> => list'["soft"] = <<>>)
    BY <2>1, ShapeRemoved DEF ShapeInv
  <2>3. Head(list["hard"]) \in Hard
    BY <2>1 DEF ShapeInv, Shape
  <2> QED BY <2>1, <2>2, <2>3 DEF ShapeInv, NoLostTimer
<1>3. CASE CheckDone
  BY <1>3 DEF ShapeInv, NoLostTimer, CheckDone, thread, locals, calls
<1>4. ASSUME NEW t \in Timer, HandlerStart(t) \/ HandlerStop(t), UNCHANGED <<isrTimer, pc, locals, calls>>,
             isr' = isr \/ (isr = "callback" /\ isr' = "after")
      PROVE  ShapeInv' /\ (NoLostTimer => NoLostTimer')
  <2>1. UNCHANGED <<isrTimer, at, obj, pc, node, fires>>
    BY <1>4 DEF locals, calls
  <2>2. CASE HandlerStart(t)
    <3>1. /\ StartAtOnce(t)
          /\ IF t \in Soft /\ ~ready THEN ready' = TRUE /\ wake' = TickMod ELSE UNCHANGED <<ready, wake>>
      BY <2>2 DEF HandlerStart
    <3>2. Shape(list') /\ (t \notin Soft /\ list["soft"] = <<>> => list'["soft"] = <<>>)
      BY <3>1, ShapeAtOnce DEF ShapeInv
    <3> QED BY <1>4, <2>1, <3>1, <3>2 DEF ShapeInv, NoLostTimer
  <2>3. CASE HandlerStop(t)
    <3>1. list' = Removed(t) /\ UNCHANGED <<ready, wake>>
      BY <2>3 DEF HandlerStop
    <3>2. Shape(list') /\ (list["soft"] = <<>> => list'["soft"] = <<>>)
      BY <3>1, ShapeRemoved DEF ShapeInv
    <3> QED BY <1>4, <2>1, <3>1, <3>2 DEF ShapeInv, NoLostTimer
  <2> QED BY <1>4, <2>2, <2>3
<1>5. CASE CheckCallback
  <2>1. /\ isr = "callback" /\ isr' = "after" /\ UNCHANGED <<isrTimer, pc, locals, calls>>
        /\ \/ UNCHANGED <<flags, list, ready, wake, started>>
           \/ \E t \in Timer : HandlerStart(t) \/ HandlerStop(t)
    BY <1>5 DEF CheckCallback
  <2>2. CASE UNCHANGED <<flags, list, ready, wake, started>>
    BY <2>1, <2>2 DEF ShapeInv, NoLostTimer, locals, calls
  <2> QED BY <1>4, <2>1, <2>2
<1>6. CASE CheckAfter
  <2>1. /\ isr = "after" /\ isr' = "check" /\ UNCHANGED <<at, obj, ready, wake, pc, node, fires>>
        /\ StartAtOnce(isrTimer) \/ list' = list
    BY <1>6 DEF CheckAfter, thread, locals, calls
  <2>2. isrTimer \in Timer /\ isrTimer \notin Soft
    BY <2>1, TimerFacts DEF ShapeInv
  <2>3. Shape(list') /\ (list["soft"] = <<>> => list'["soft"] = <<>>)
    BY <2>1, <2>2, ShapeAtOnce DEF ShapeInv
  <2> QED BY <2>1, <2>3 DEF ShapeInv, NoLostTimer
<1>7. ASSUME NEW t \in Timer, DriverInterrupt(t) PROVE ShapeInv' /\ (NoLostTimer => NoLostTimer')
  BY <1>4, <1>7 DEF DriverInterrupt, clock
<1> QED BY <1>1, <1>2, <1>3, <1>5, <1>6, <1>7 DEF Interrupt

\* Of the timer thread's own steps one does.
LEMMA ShapeThread ==
    ASSUME ShapeInv, TicksInv, ThreadStep
    PROVE  ShapeInv' /\ (NoLostTimer /\ ~NoLostTimer' => pc = "suspend" /\ pc' = "begin")
<1> DEFINE l == list["soft"]
<1>a. l \in Seq(Soft)
  BY DEF ShapeInv, Shape
<1>1. CASE ReadNext \/ ReadTick \/ CheckBegin \/ SoftDone \/ CallbackReturn \/ SoftRestarted \/ SoftStop
  <2>1. /\ UNCHANGED <<isr, isrTimer, list, ready, wake, at, obj>> /\ node' \in {node, Head_}
        /\ pc' \in {"callback", "after"} => pc = "callback" /\ fires' = fires
    BY <1>1 DEF ReadNext, ReadTick, CheckBegin, SoftDone, CallbackReturn, SoftRestarted, SoftStop,
       Thread_, clock, flags, calls
  <2> QED BY <2>1 DEF ShapeInv, NoLostTimer
<1>2. CASE SuspendTimerThread
  BY <1>2 DEF ShapeInv, SuspendTimerThread, Thread_, clock, calls
<1>3. CASE Delay
  <2> DEFINE w == (tick + Minus(next, cur)) % TickMod
  <2>1. wake' = w /\ pc' = "begin" /\ UNCHANGED <<isr, isrTimer, list, at, obj, node, fires>>
    BY <1>3 DEF Delay, clock, calls
  <2>2. w # TickMod
    <3>1. tick \in Tick /\ Minus(next, cur) \in Tick
      BY MinusValue DEF TicksInv
    <3>2. w \in Tick
      BY <3>1, PlusValue
    <3> HIDE DEF w
    <3> QED BY <3>2, TimerFacts
  <2> HIDE DEF w
  <2> QED BY <2>1, <2>2 DEF ShapeInv, NoLostTimer
<1>4. CASE CheckEnter
  <2>1. /\ UNCHANGED <<isr, isrTimer, list, ready, wake, at, obj, fires>> /\ pc' = "check"
        /\ node' = IF l = <<>> THEN Head_ ELSE Head(l)
    BY <1>4 DEF CheckEnter, clock, calls
  <2>2. node' \in Soft \cup {Head_}
    BY <1>a, <2>1
  <2> QED BY <2>1, <2>2 DEF ShapeInv, NoLostTimer
<1>5. CASE SoftFirst
  <2>1. /\ node # Head_ /\ fires' = node /\ node' = NodeAfter(node) /\ list' = Removed(node)
        /\ UNCHANGED <<isr, isrTimer, ready, wake, at, obj>>
    BY <1>5 DEF SoftFirst, SoftDue, clock, calls
  <2>2. node \in Soft /\ Shape(list') /\ (list["soft"] = <<>> => list'["soft"] = <<>>)
    BY <2>1, ShapeRemoved DEF ShapeInv
  <2>3. NodeAfter(node) \in Soft \cup {Head_}
    <3> DEFINE i == CHOOSE i \in 1..Len(l) : l[i] = node
    <3>1. CASE ~Linked(node)
      BY <2>2, <3>1 DEF NodeAfter
    <3>2. CASE Linked(node)
      <4>1. i \in 1..Len(l)
        <5>1. \E k \in 1..Len(l) : l[k] = node
          BY <2>2, <3>2 DEF Linked, LinkedIn, Kind, Contains
        <5> QED BY <5>1
      <4>2. NodeAfter(node) = IF i = Len(l) THEN Head_ ELSE l[i + 1]
        BY <3>2 DEF NodeAfter
      <4> HIDE DEF i
      <4> QED BY <1>a, <4>1, <4>2
    <3> QED BY <3>1, <3>2
  <2> QED BY <2>1, <2>2, <2>3 DEF ShapeInv, NoLostTimer
<1>6. CASE SoftRestart
  <2>1. /\ ready /\ pc = "after" /\ pc' = "restart" /\ list' = Removed(fires)
        /\ at' = [at EXCEPT ![TimerThread] = "start"] /\ obj' = [obj EXCEPT ![TimerThread] = fires]
        /\ UNCHANGED <<isr, isrTimer, ready, wake, node, fires>>
    BY <1>6 DEF SoftRestart, StartRemove, Go, Thread_, clock, locals
  <2>2. fires \in Timer /\ Shape(list') /\ (list["soft"] = <<>> => list'["soft"] = <<>>)
    BY <2>1, ShapeRemoved, TimerFacts DEF ShapeInv
  <2> QED BY <2>1, <2>2 DEF ShapeInv, NoLostTimer
<1> QED BY <1>1, <1>2, <1>3, <1>4, <1>5, <1>6 DEF ThreadStep

\* Every computation on ticks is taken modulo the range.
LEMMA TicksNext ==
    ASSUME ShapeInv, TicksInv, [TimerNext]_vars
    PROVE  TicksInv'
<1>1. \A t \in Timer : Due(t) \in Tick
  <2> SUFFICES ASSUME NEW t \in Timer PROVE Due(t) \in Tick
    OBVIOUS
  <2>1. tick \in Tick /\ initTick[t] \in Tick
    BY DEF TicksInv
  <2> QED BY <2>1, PlusValue DEF Due
<1>2. /\ tick \in Tick /\ next \in Tick /\ cur \in Tick /\ 0 \in Tick
      /\ timeout \in [Timer -> Tick] /\ initTick \in [Timer -> Tick]
      /\ \A t : Forgotten(t) \in [Timer -> Tick]
  BY TimerFacts DEF TicksInv, Forgotten
<1>3. ASSUME NEW a \in Actor, CallStep(a) PROVE TicksInv'
  <2>1. UNCHANGED <<tick, next, cur, initTick>>
    BY <1>3 DEF CallStep, StartTick, StartInsert, StartTest, StartResume, ResumeUnlink, ResumeEnqueue,
       StopRemove, StopFlag, clock, flags, thread, locals
  <2>2. \/ timeout' = timeout \/ timeout' = Forgotten(obj[a])
        \/ at[a] = "start" /\ timeout' = [timeout EXCEPT ![obj[a]] = Due(obj[a])]
    BY <1>3 DEF CallStep, StartTick, StartInsert, StartTest, StartResume, ResumeUnlink, ResumeEnqueue,
       StopRemove, StopFlag, At_, flags
  <2>3. at[a] = "start" => obj[a] \in Timer
    BY DEF ShapeInv
  <2>4. timeout' \in [Timer -> Tick]
    BY <1>1, <1>2, <2>2, <2>3
  <2> QED BY <1>2, <2>1, <2>4 DEF TicksInv
<1>4. ASSUME NEW a \in Actor, NEW t \in Timer, ThreadCall(a, t) PROVE TicksInv'
  <2>1. InitTicks[t] \subseteq Tick
    BY TickAssumption
  <2>2. UNCHANGED <<tick, next, cur>> /\ (initTick' = initTick \/ \E i \in Tick : initTick' = [initTick EXCEPT ![t] = i])
    BY <1>4, <2>1 DEF ThreadCall, rt_timer_start, StartRemove, rt_timer_stop, rt_timer_detach, rt_timer_init,
       rt_timer_control, clock, flags, thread, locals
  <2>3. timeout' = timeout \/ timeout' = Forgotten(t) \/ timeout' = [timeout EXCEPT ![t] = 0]
    BY <1>4 DEF ThreadCall, rt_timer_start, StartRemove, rt_timer_stop, rt_timer_detach, rt_timer_init,
       rt_timer_control, flags
  <2> QED BY <1>2, <2>2, <2>3 DEF TicksInv
<1>5. ASSUME ThreadStep PROVE TicksInv'
  <2>1. UNCHANGED <<tick, initTick>>
    BY <1>5 DEF ThreadStep, ReadNext, SuspendTimerThread, ReadTick, Delay, CheckBegin, CheckEnter, SoftFirst,
       SoftDone, CallbackReturn, SoftRestart, StartRemove, SoftRestarted, SoftStop, clock, flags
  <2>2. cur' \in {cur, tick, 0} /\ next' \in {next, 0, NextTimeout}
    BY <1>5 DEF ThreadStep, ReadNext, SuspendTimerThread, ReadTick, Delay, CheckBegin, CheckEnter, SoftFirst,
       SoftDone, CallbackReturn, SoftRestart, SoftRestarted, SoftStop, locals
  <2>3. timeout' = timeout \/ timeout' = [timeout EXCEPT ![node] = 0] \/ timeout' = Forgotten(fires)
    BY <1>5 DEF ThreadStep, ReadNext, SuspendTimerThread, ReadTick, Delay, CheckBegin, CheckEnter, SoftFirst,
       SoftDone, CallbackReturn, SoftRestart, StartRemove, SoftRestarted, SoftStop, flags
  <2>4. NextTimeout \in Tick
    <3>1. list["soft"] # <<>> => Head(list["soft"]) \in Timer
      BY TimerFacts DEF ShapeInv, Shape
    <3> QED BY <1>2, <3>1, TimerFacts DEF NextTimeout
  <2> QED BY <1>2, <2>1, <2>2, <2>3, <2>4 DEF TicksInv
<1>6. ASSUME Interrupt \/ \E t \in Timer : DriverInterrupt(t) PROVE TicksInv'
  <2>1. UNCHANGED <<next, cur, initTick>>
    BY <1>6 DEF Interrupt, rt_tick_increase, CheckFirst, CheckDone, CheckCallback, CheckAfter, DriverInterrupt,
       HandlerStart, HandlerStop, StartAtOnce, flags, thread, locals
  <2>2. tick' = tick \/ tick' = (tick + 1) % TickMod
    BY <1>6 DEF Interrupt, rt_tick_increase, CheckFirst, CheckDone, CheckCallback, CheckAfter, DriverInterrupt, clock
  <2>3. \/ timeout' = timeout \/ \E t : timeout' = Forgotten(t)
        \/ \E t \in Timer : timeout' = [timeout EXCEPT ![t] = Due(t)]
        \/ isr = "after" /\ timeout' = [timeout EXCEPT ![isrTimer] = Due(isrTimer)]
    BY <1>6 DEF Interrupt, rt_tick_increase, CheckFirst, CheckDone, CheckCallback, CheckAfter, DriverInterrupt,
       HandlerStart, HandlerStop, StartAtOnce, flags
  <2>4. isr = "after" => isrTimer \in Timer
    BY TimerFacts DEF ShapeInv
  <2>5. timeout' \in [Timer -> Tick]
    BY <1>1, <1>2, <2>3, <2>4
  <2>6. tick' \in Tick
    <3>1. 1 \in Tick /\ tick \in Tick
      BY <1>2, TimerFacts
    <3> QED BY <2>2, <3>1, PlusValue
  <2> QED BY <1>2, <2>1, <2>5, <2>6 DEF TicksInv
<1>7. CASE UNCHANGED vars
  BY <1>7 DEF TicksInv, vars, clock, flags, thread, locals
<1> QED BY <1>3, <1>4, <1>5, <1>6, <1>7 DEF TimerNext

\* Whoever uses timers and however, a soft timer is left behind by nothing but the
\* timer thread's rt_thread_suspend after a reading of the list that is out of date.
THEOREM TimerLostOnlyAtSuspend == TimerSpec => LostOnlyAtSuspend
<1>1. TimerInit => ShapeInv /\ TicksInv
  <2> SUFFICES ASSUME TimerInit PROVE ShapeInv /\ TicksInv
    OBVIOUS
  <2>1. Shape(list)
    BY DEF TimerInit, Shape, ListKind
  <2>2. ShapeInv
    BY <2>1 DEF TimerInit, ShapeInv
  <2>3. TicksInv
    BY TimerFacts, TickAssumption DEF TimerInit, TicksInv
  <2> QED BY <2>2, <2>3
<1>2. ShapeInv /\ TicksInv /\ [TimerNext]_vars =>
        /\ (ShapeInv /\ TicksInv)'
        /\ [NoLostTimer /\ ~NoLostTimer' => pc = "suspend" /\ pc' = "begin"]_vars
  <2> SUFFICES ASSUME ShapeInv, TicksInv, [TimerNext]_vars
               PROVE  /\ ShapeInv'
                      /\ [NoLostTimer /\ ~NoLostTimer' => pc = "suspend" /\ pc' = "begin"]_vars
    BY TicksNext
  <2>1. CASE UNCHANGED vars
    BY <2>1 DEF ShapeInv, vars, clock, thread, locals, calls
  <2>2. CASE TimerNext
    <3>1. CASE \E a \in Actor : CallStep(a) \/ \E t \in Timer : ThreadCall(a, t)
      BY <3>1, ShapeCall
    <3>2. CASE ThreadStep
      BY <3>2, ShapeThread
    <3>3. CASE Interrupt \/ \E t \in Timer : DriverInterrupt(t)
      BY <3>3, ShapeInterrupt
    <3> QED BY <2>2, <3>1, <3>2, <3>3 DEF TimerNext
  <2> QED BY <2>1, <2>2
<1> QED BY <1>1, <1>2, PTL DEF TimerSpec, LostOnlyAtSuspend
-----------------------------------------------------------------------------
(* TimerInv is inductive.                                                   *)

\* rt_timer_start up to the end of its first section.
LEMMA StartInv ==
    ASSUME RulesKept, TimerInv, NEW a \in Actor, NEW t \in Timer, rt_timer_start(a, t)
    PROVE  TimerInv'
<1>1. /\ TypeInv /\ ThreadInv /\ CallInv /\ FlagInv
      /\ Runs(a) /\ at[a] = "app" /\ (a = TimerThread => pc = "callback") /\ made[t]
      /\ t \in Soft => a \in Low \cup {TimerThread}
      /\ \A b \in Actor : obj[b] # t
      /\ ~(t \in Soft /\ Linked(t) /\ (Locked \/ InCallback))
      /\ Running(t) => t \in Periodic
  BY TimerFacts DEF TimerInv, rt_timer_start, Calls, MayStart, MayUse, RulesKept, InCallback
<1>2. /\ list' = Removed(t) /\ active' = [active EXCEPT ![t] = FALSE]
      /\ timeout' = Forgotten(t) /\ at' = [at EXCEPT ![a] = "start"] /\ obj' = [obj EXCEPT ![a] = t]
      /\ started' = [started EXCEPT ![t] = TRUE]
      /\ UNCHANGED <<tick, isr, isrTimer, initTick, made, ready, wake, pc, next, cur, node, fires>>
  BY DEF rt_timer_start, StartRemove, Go, clock, thread, locals
<1>3. /\ ListType(list') /\ \A u \in Timer : LinkedIn(list', u) <=> LinkedIn(list, u) /\ u # t
      /\ timeout' \in [Timer -> Tick] /\ \A u \in Timer : u # t => timeout'[u] = timeout[u]
      /\ list["soft"] = <<>> => list'["soft"] = <<>>
  <2>1. timeout' \in [Timer -> Tick] /\ \A u \in Timer : u # t => timeout'[u] = timeout[u]
    BY <1>1, <1>2, TimerFacts DEF TypeInv, Forgotten
  <2>2. list["soft"] = <<>> => list'["soft"] = <<>>
    BY <1>1, <1>2, RemovedFacts DEF TypeInv, ListKind
  <2> QED BY <1>1, <1>2, <2>1, <2>2, RemovedFacts DEF TypeInv
<1>4. TypeInv'
  BY <1>1, <1>2, <1>3 DEF TypeInv, CallPc
<1>5. ThreadInv'
  BY <1>1, <1>2, <1>3, TimerFacts DEF TypeInv, ThreadInv, CallInv, CallOK, Runs, Linked, Locked, InCallback
<1>a. (t = fires => a = TimerThread /\ t \in Periodic) /\ t # isrTimer
  BY <1>1, TimerFacts DEF TypeInv, ThreadInv, Runs, Running
<1>6. CallInv'
  BY <1>1, <1>2, <1>3, <1>a, TimerFacts DEF TypeInv, ThreadInv, CallInv, CallOK, Runs, Linked, Locked, InCallback
<1>7. FlagInv'
  BY <1>1, <1>2, <1>3, TimerFacts DEF TypeInv, ThreadInv, CallInv, CallOK, FlagInv, Runs, Linked, Locked, InCallback, Running
<1> QED BY <1>4, <1>5, <1>6, <1>7 DEF TimerInv

\* A step that leaves lists, flags and calls alone.
LEMMA QuietFrame ==
    ASSUME TimerInv, UNCHANGED <<flags, list, calls, started, isrTimer, fires>>,
           pc = "restart" => pc' = "restart"
    PROVE  CallInv' /\ FlagInv'
<1>1. /\ CallInv /\ FlagInv 
      /\ UNCHANGED <<active, timeout, made, list, at, obj, started, isrTimer, fires>>
  BY DEF TimerInv, flags, calls
<1>2. CallInv'
  BY <1>1 DEF CallInv, CallOK, Linked
<1>3. FlagInv'
  BY <1>1 DEF FlagInv, Linked
<1> QED BY <1>2, <1>3

\* The timer thread reads the next timeout.
LEMMA ReadNextInv == ASSUME TimerInv, ReadNext PROVE TimerInv'
<1>1. /\ TypeInv /\ ThreadInv /\ ready /\ pc = "loop" /\ next' = NextTimeout /\ pc' \in {"suspend", "now"}
      /\ UNCHANGED <<flags, list, calls, started, isrTimer, fires>>
      /\ UNCHANGED <<tick, isr, isrTimer, active, timeout, initTick, made, ready, wake, cur, node, fires, at, obj>>
  BY DEF TimerInv, ReadNext, Thread_, clock, flags, calls
<1>2. NextTimeout \in Tick
  <2>1. CASE list["soft"] = <<>>
    BY <2>1, TimerFacts DEF NextTimeout
  <2>2. CASE list["soft"] # <<>>
    <3>1. list["soft"] \in Seq(Soft) /\ Distinct(list["soft"])
      BY <1>1 DEF TypeInv, ListType, ListKind
    <3>2. Head(list["soft"]) \in Timer
      BY <2>2, <3>1, ListTail, TimerFacts
    <3> QED BY <1>1, <2>2, <3>2 DEF TypeInv, NextTimeout
  <2> QED BY <2>1, <2>2
<1>3. CallInv' /\ FlagInv'
  BY <1>1, QuietFrame
<1>4. TypeInv'
  BY <1>1, <1>2 DEF TypeInv, ThreadPc
<1>5. ThreadInv'
  BY <1>1 DEF ThreadInv, Linked
<1> QED BY <1>3, <1>4, <1>5 DEF TimerInv

\* It suspends itself, which stops its timer.
LEMMA SuspendInv == ASSUME TimerInv, SuspendTimerThread PROVE TimerInv'
<1>1. /\ TypeInv /\ ThreadInv /\ pc = "suspend" /\ ready' = FALSE /\ wake' = TickMod /\ next' = 0 /\ pc' = "begin"
      /\ UNCHANGED <<flags, list, calls, started, isrTimer, fires>>
      /\ UNCHANGED <<tick, isr, isrTimer, active, timeout, initTick, made, cur, node, fires, at, obj>>
  BY DEF TimerInv, SuspendTimerThread, Thread_, clock, flags, calls
<1>2. CallInv' /\ FlagInv'
  BY <1>1, QuietFrame
<1>3. TypeInv'
  <2>1. TickMod \in 0..TickMod /\ 0 \in Tick
    BY TimerFacts
  <2> QED BY <1>1, <2>1 DEF TypeInv, ThreadPc
<1>4. ThreadInv'
  BY <1>1 DEF ThreadInv, Linked
<1> QED BY <1>2, <1>3, <1>4 DEF TimerInv

\* The timer thread reads the tick count, and sleeps with a timer.
LEMMA ReadTickInv == ASSUME TimerInv, ReadTick \/ Delay PROVE TimerInv'
<1>1. /\ TypeInv /\ ThreadInv /\ pc \in {"now", "delay"} /\ pc' \in {"delay", "begin"}
      /\ UNCHANGED <<flags, list, calls, started, isrTimer, fires>>
      /\ UNCHANGED <<tick, isr, isrTimer, active, timeout, initTick, made, node, fires, at, obj>>
      /\ \/ UNCHANGED <<ready, wake, next>> /\ cur' = tick /\ ready
         \/ /\ ready' = FALSE /\ wake' = (tick + Minus(next, cur)) % TickMod /\ next' = 0 /\ cur' = 0
            /\ pc' = "begin"
  BY DEF TimerInv, ReadTick, Delay, Thread_, clock, flags, calls
<1>2. (tick + Minus(next, cur)) % TickMod \in Tick
  <2>1. tick \in Tick /\ Minus(next, cur) \in Tick
    BY <1>1, MinusValue DEF TypeInv
  <2> QED BY <2>1, PlusValue
<1>3. CallInv' /\ FlagInv'
  BY <1>1, QuietFrame
<1> DEFINE w == (tick + Minus(next, cur)) % TickMod
<1> HIDE DEF w
<1>4. w \in 0..TickMod /\ w # TickMod /\ 0 \in Tick
  BY <1>2, TimerFacts DEF w
<1>5. \/ UNCHANGED <<ready, wake, next>> /\ cur' = tick /\ ready
      \/ ready' = FALSE /\ wake' = w /\ next' = 0 /\ cur' = 0 /\ pc' = "begin"
  BY <1>1 DEF w
<1>6. TypeInv'
  BY <1>1, <1>4, <1>5 DEF TypeInv, ThreadPc
<1>7. ThreadInv'
  BY <1>1, <1>4, <1>5 DEF ThreadInv, Linked
<1> QED BY <1>3, <1>6, <1>7 DEF TimerInv

\* The steps of rt_soft_timer_check that take no timer.
LEMMA CheckStepInv == ASSUME TimerInv, CheckBegin \/ CheckEnter \/ SoftDone \/ CallbackReturn PROVE TimerInv'
<1>1. /\ TypeInv /\ ThreadInv /\ ready
      /\ UNCHANGED <<flags, list, calls, started, isrTimer, fires>>
      /\ UNCHANGED <<tick, isr, isrTimer, active, timeout, initTick, made, ready, wake, fires, at, obj>>
      /\ \/ pc = "begin" /\ cur' = tick /\ next' = 0 /\ pc' = "enter" /\ UNCHANGED node
         \/ pc = "enter" /\ pc' = "check" /\ UNCHANGED <<next, cur>>
            /\ node' = IF list["soft"] = <<>> THEN Head_ ELSE Head(list["soft"])
         \/ pc = "check" /\ pc' = "loop" /\ node' = Head_ /\ cur' = 0 /\ next' = next
         \/ pc = "callback" /\ at[TimerThread] = "app" /\ pc' = "after" /\ cur' = tick /\ UNCHANGED <<next, node>>
  BY DEF TimerInv, CheckBegin, CheckEnter, SoftDone, CallbackReturn, Thread_, clock, flags, calls
<1>2. CallInv' /\ FlagInv'
  BY <1>1, QuietFrame
<1>3. list["soft"] # <<>> => Head(list["soft"]) \in Soft /\ Linked(Head(list["soft"])) /\ Head(list["soft"]) # NoTimer
  <2>1. list["soft"] \in Seq(Soft) /\ Distinct(list["soft"])
    BY <1>1 DEF TypeInv, ListType, ListKind
  <2>2. list["soft"] # <<>> => Head(list["soft"]) \in Soft /\ Contains(list["soft"], Head(list["soft"]))
    BY <2>1, ListTail
  <2> QED BY <2>2, TimerFacts DEF Linked, LinkedIn, Kind
<1>4. TypeInv'
  BY <1>1, <1>3, TimerFacts DEF TypeInv, ThreadPc
<1>5. ThreadInv'
  BY <1>1, <1>3, TimerFacts DEF ThreadInv, Linked
<1> QED BY <1>2, <1>4, <1>5 DEF TimerInv

\* The clock interrupt begins, and ends.
LEMMA TickInv == ASSUME TimerInv, rt_tick_increase \/ CheckDone PROVE TimerInv'
<1>1. /\ TypeInv /\ ThreadInv
      /\ UNCHANGED <<flags, list, calls, started, isrTimer, fires>>
      /\ UNCHANGED <<isrTimer, active, timeout, initTick, made, pc, next, cur, node, fires, at, obj>>
      /\ isr \in {"none", "check"} /\ isr' \in {"none", "check"}
      /\ tick' = tick \/ tick' = (tick + 1) % TickMod
      /\ UNCHANGED <<ready, wake>> \/ (ready' = TRUE /\ wake' = TickMod)
  <2>1. CASE rt_tick_increase
    <3> DEFINE fired == wake # TickMod /\ Minus((tick + 1) % TickMod, wake) < HalfRange
    <3>1. IF fired THEN ready' = TRUE /\ wake' = TickMod ELSE UNCHANGED <<ready, wake>>
      BY <2>1 DEF rt_tick_increase
    <3> HIDE DEF fired
    <3>2. UNCHANGED <<ready, wake>> \/ (ready' = TRUE /\ wake' = TickMod)
      BY <3>1
    <3>3. isr = "none" /\ isr' = "check" /\ tick' = (tick + 1) % TickMod
      BY <2>1 DEF rt_tick_increase
    <3>4. UNCHANGED <<isrTimer, flags, list, pc, locals, calls, started>>
      BY <2>1 DEF rt_tick_increase
    <3> QED BY <3>2, <3>3, <3>4 DEF TimerInv, flags, calls, locals
  <2>2. CASE CheckDone
    BY <2>2 DEF TimerInv, CheckDone, flags, calls, thread, locals
  <2> QED BY <2>1, <2>2
<1>2. CallInv' /\ FlagInv'
  BY <1>1, QuietFrame
<1>3. tick' \in Tick
  <2>1. 1 \in Tick /\ tick \in Tick
    BY <1>1, TimerFacts DEF TypeInv
  <2> QED BY <1>1, <2>1, PlusValue
<1>4. TypeInv'
  <2>1. TickMod \in 0..TickMod
    BY TimerFacts
  <2>2. UNCHANGED <<ready, wake>> \/ (ready' = TRUE /\ wake' = TickMod)
    BY <1>1
  <2>3. ready \in BOOLEAN /\ wake \in 0..TickMod
    BY <1>1 DEF TypeInv
  <2>4. ready' \in BOOLEAN /\ wake' \in 0..TickMod
    BY <2>1, <2>2, <2>3
  <2> QED BY <1>1, <1>3, <2>4 DEF TypeInv
<1>5. ThreadInv'
  BY <1>1 DEF ThreadInv, Linked
<1> QED BY <1>2, <1>4, <1>5 DEF TimerInv

\* rt_timer_check takes the first timer out.
LEMMA CheckFirstInv == ASSUME TimerInv, CheckFirst PROVE TimerInv'
<1> DEFINE t == Head(list["hard"])
<1>1. /\ TypeInv /\ ThreadInv /\ CallInv /\ FlagInv /\ list["hard"] # <<>>
      /\ isr = "check" /\ list' = Removed(t) /\ timeout' = Forgotten(t) /\ isr' = "callback" /\ isrTimer' = t
      /\ UNCHANGED <<tick, active, initTick, made, ready, wake, pc, next, cur, node, fires, at, obj, started>>
  BY DEF TimerInv, CheckFirst, HardDue, thread, locals, calls
<1>2. t \in Hard /\ t \in Timer /\ t \notin Soft /\ Linked(t)
  <2>1. list["hard"] \in Seq(Hard) /\ Distinct(list["hard"])
    BY <1>1 DEF TypeInv, ListType, ListKind
  <2>2. t \in Hard /\ Contains(list["hard"], t)
    BY <1>1, <2>1, ListTail
  <2> QED BY <2>2, TimerFacts DEF Linked, LinkedIn, Kind
<1> HIDE DEF t
<1>3. /\ ListType(list') /\ \A u \in Timer : LinkedIn(list', u) <=> LinkedIn(list, u) /\ u # t
      /\ timeout' \in [Timer -> Tick] /\ \A u \in Timer : u # t => timeout'[u] = timeout[u]
      /\ list'["soft"] = list["soft"]
  <2>1. timeout' \in [Timer -> Tick] /\ \A u \in Timer : u # t => timeout'[u] = timeout[u]
    BY <1>1, <1>2, TimerFacts DEF TypeInv, Forgotten
  <2>2. list'["soft"] = list["soft"]
    BY <1>1, <1>2, RemovedFacts DEF TypeInv, ListKind, Kind
  <2> QED BY <1>1, <1>2, <2>1, <2>2, RemovedFacts DEF TypeInv
<1>4. TypeInv'
  BY <1>1, <1>2, <1>3 DEF TypeInv
<1>5. ThreadInv'
  BY <1>1, <1>2, <1>3, TimerFacts DEF TypeInv, ThreadInv, Linked
<1>6. CallInv'
  BY <1>1, <1>2, <1>3, TimerFacts DEF TypeInv, CallInv, CallOK, CallPc, Linked
<1>7. FlagInv'
  BY <1>1, <1>2, <1>3, TimerFacts DEF TypeInv, ThreadInv, CallInv, CallOK, FlagInv, Linked
<1> QED BY <1>4, <1>5, <1>6, <1>7 DEF TimerInv

\* rt_timer_start with interrupts disabled, as a change of the lists.
LEMMA StartAtOnceFacts ==
    ASSUME TypeInv, NEW t \in Timer, StartAtOnce(t)
    PROVE  /\ ListType(list') /\ \A u \in Timer : LinkedIn(list', u) <=> LinkedIn(list, u) \/ u = t
           /\ \A k \in ListKind : k # Kind(t) => list'[k] = list[k]
           /\ timeout' = [timeout EXCEPT ![t] = Due(t)] /\ Due(t) \in Tick
           /\ active' = [active EXCEPT ![t] = TRUE] /\ UNCHANGED <<initTick, made>>
<1>1. /\ list' = Inserted(Removed(t), t, Due(t)) /\ timeout' = [timeout EXCEPT ![t] = Due(t)]
      /\ active' = [active EXCEPT ![t] = TRUE] /\ UNCHANGED <<initTick, made>>
  BY DEF StartAtOnce
<1>2. /\ ListType(Removed(t))
      /\ \A u \in Timer : LinkedIn(Removed(t), u) <=> LinkedIn(list, u) /\ u # t
      /\ \A k \in ListKind : k # Kind(t) => Removed(t)[k] = list[k]
  BY RemovedFacts DEF TypeInv
<1>3. ~LinkedIn(Removed(t), t)
  BY <1>2
<1>4. /\ ListType(list')
      /\ \A u \in Timer : LinkedIn(list', u) <=> LinkedIn(Removed(t), u) \/ u = t
      /\ \A k \in ListKind : k # Kind(t) => list'[k] = Removed(t)[k]
  BY <1>1, <1>2, <1>3, InsertedFacts
<1>5. Due(t) \in Tick
  <2>1. tick \in Tick /\ initTick[t] \in Tick
    BY DEF TypeInv
  <2> QED BY <2>1, PlusValue DEF Due
<1> QED BY <1>1, <1>2, <1>4, <1>5

\* What an interrupt handler does with a timer.  A linked soft timer is not touched
\* inside rt_soft_timer_check, so the node kept there stays linked.
LEMMA HandlerInv ==
    ASSUME RulesKept, TimerInv, NEW t \in Timer, HandlerStart(t) \/ HandlerStop(t),
           UNCHANGED <<tick, isrTimer, pc, locals, calls>>,
           isr \in {"none", "callback"}, isr' = isr \/ (isr = "callback" /\ isr' = "after")
    PROVE  TimerInv'
<1>1. /\ TypeInv /\ ThreadInv /\ CallInv /\ FlagInv
      /\ UNCHANGED <<tick, isrTimer, pc, next, cur, node, fires, at, obj>>
      /\ isr \in {"none", "callback"} /\ (isr' = isr \/ (isr = "callback" /\ isr' = "after"))
  BY DEF TimerInv, locals, calls
<1>2. /\ made[t] /\ \A b \in Actor : obj[b] # t
      /\ ~(t \in Soft /\ Linked(t) /\ pc \in {"check", "callback", "after", "restart"})
  <2>1. MayUse("isr", t)
    BY DEF HandlerStart, HandlerStop, MayStart
  <2> QED BY <2>1 DEF MayUse, RulesKept, Locked, InCallback
<1>3. CASE HandlerStart(t)
  <2>1. /\ ListType(list') /\ \A u \in Timer : LinkedIn(list', u) <=> LinkedIn(list, u) \/ u = t
        /\ timeout' = [timeout EXCEPT ![t] = Due(t)] /\ Due(t) \in Tick
        /\ active' = [active EXCEPT ![t] = TRUE] /\ UNCHANGED <<initTick, made>>
    BY <1>1, <1>3, StartAtOnceFacts DEF HandlerStart
  <2>2. started' = [started EXCEPT ![t] = TRUE] /\ (UNCHANGED <<ready, wake>> \/ (ready' = TRUE /\ wake' = TickMod))
    BY <1>3 DEF HandlerStart
  <2>3. t = fires \/ t = isrTimer => t \in Periodic
    <3>1. Running(t) => t \in Periodic
      BY <1>3 DEF HandlerStart, MayStart, RulesKept
    <3> QED BY <1>1, <3>1, TimerFacts DEF ThreadInv, TypeInv, Running
  <2> HIDE DEF HandlerStart
  <2>4. TypeInv'
    <3>1. TickMod \in 0..TickMod
      BY TimerFacts
    <3>2. ready' \in BOOLEAN /\ wake' \in 0..TickMod
      BY <1>1, <2>2, <3>1 DEF TypeInv
    <3> QED BY <1>1, <2>1, <2>2, <3>2 DEF TypeInv
  <2>5. ThreadInv'
    BY <1>1, <1>2, <2>1, <2>2, TimerFacts DEF TypeInv, ThreadInv, Linked
  <2>6. CallInv'
    BY <1>1, <1>2, <2>1, <2>2, TimerFacts DEF TypeInv, CallInv, CallOK, Linked
  <2>7. FlagInv'
    BY <1>1, <1>2, <2>1, <2>2, <2>3, TimerFacts DEF TypeInv, FlagInv, Linked
  <2> QED BY <2>4, <2>5, <2>6, <2>7 DEF TimerInv
<1>4. CASE HandlerStop(t)
  <2>1. /\ list' = Removed(t) /\ timeout' = Forgotten(t) /\ active' = [active EXCEPT ![t] = FALSE]
        /\ started' = [started EXCEPT ![t] = FALSE] /\ UNCHANGED <<initTick, made, ready, wake>>
    BY <1>4 DEF HandlerStop
  <2>2. /\ ListType(list') /\ \A u \in Timer : LinkedIn(list', u) <=> LinkedIn(list, u) /\ u # t
        /\ timeout' \in [Timer -> Tick] /\ \A u \in Timer : u # t => timeout'[u] = timeout[u]
    <3>1. timeout' \in [Timer -> Tick] /\ \A u \in Timer : u # t => timeout'[u] = timeout[u]
      BY <1>1, <2>1, TimerFacts DEF TypeInv, Forgotten
    <3> QED BY <1>1, <2>1, <3>1, RemovedFacts DEF TypeInv
  <2>3. TypeInv'
    BY <1>1, <2>1, <2>2 DEF TypeInv
  <2>4. ThreadInv'
    BY <1>1, <1>2, <2>1, <2>2, TimerFacts DEF TypeInv, ThreadInv, Linked
  <2>5. CallInv'
    BY <1>1, <1>2, <2>1, <2>2, TimerFacts DEF TypeInv, CallInv, CallOK, Linked
  <2>6. FlagInv'
    BY <1>1, <1>2, <2>1, <2>2, TimerFacts DEF TypeInv, ThreadInv, CallInv, CallOK, FlagInv, Linked
  <2> QED BY <2>3, <2>4, <2>5, <2>6 DEF TimerInv
<1> QED BY <1>3, <1>4

\* A timeout function of a hard timer, and a driver's interrupt handler.
LEMMA CallbackInv ==
    ASSUME RulesKept, TimerInv, CheckCallback \/ \E t \in Timer : DriverInterrupt(t)
    PROVE  TimerInv'
<1>1. CASE \E t \in Timer : DriverInterrupt(t)
  <2>1. PICK t \in Timer : DriverInterrupt(t)
    BY <1>1
  <2>2. /\ HandlerStart(t) \/ HandlerStop(t)
        /\ UNCHANGED <<tick, isrTimer, pc, locals, calls>> /\ isr = "none" /\ isr' = isr
    BY <2>1 DEF DriverInterrupt, clock
  <2> QED BY <2>2, HandlerInv
<1>2. CASE CheckCallback
  <2>1. /\ isr = "callback" /\ isr' = "after" /\ UNCHANGED <<tick, isrTimer, pc, locals, calls>>
        /\ \/ UNCHANGED <<flags, list, ready, wake, started>>
           \/ \E t \in Timer : HandlerStart(t) \/ HandlerStop(t)
    BY <1>2 DEF CheckCallback
  <2>2. CASE \E t \in Timer : HandlerStart(t) \/ HandlerStop(t)
    <3>1. PICK t \in Timer : HandlerStart(t) \/ HandlerStop(t)
      BY <2>2
    <3> QED BY <2>1, <3>1, HandlerInv
  <2>3. CASE UNCHANGED <<flags, list, ready, wake, started>>
    <3>1. /\ TypeInv /\ ThreadInv
          /\ UNCHANGED <<flags, list, calls, started, isrTimer, fires>> /\ pc' = pc
          /\ UNCHANGED <<tick, active, timeout, initTick, made, ready, wake, next, cur, node, at, obj>>
      BY <2>1, <2>3 DEF TimerInv, flags, locals, calls
    <3>2. CallInv' /\ FlagInv'
      BY <3>1, QuietFrame
    <3>3. TypeInv' /\ ThreadInv'
      BY <2>1, <3>1 DEF TypeInv, ThreadInv, Linked
    <3> QED BY <3>2, <3>3 DEF TimerInv
  <2> QED BY <2>1, <2>2, <2>3
<1> QED BY <1>1, <1>2

\* The hard timer is started again or deactivated.
LEMMA CheckAfterInv == ASSUME TimerInv, CheckAfter PROVE TimerInv'
<1> DEFINE t == isrTimer
<1>1. /\ TypeInv /\ ThreadInv /\ CallInv /\ FlagInv
      /\ isr = "after" /\ isr' = "check" /\ isrTimer' = NoTimer
      /\ started' = [started EXCEPT ![t] = @ /\ (t \in Periodic \/ Linked(t))]
      /\ UNCHANGED <<tick, ready, wake, pc, next, cur, node, fires, at, obj>>
      /\ \/ RestartWanted(t) /\ StartAtOnce(t)
         \/ /\ ~RestartWanted(t) /\ active' = [active EXCEPT ![t] = FALSE]
            /\ UNCHANGED <<timeout, initTick, made, list>>
  BY DEF TimerInv, CheckAfter, thread, locals, calls
<1>2. /\ t \in Hard /\ t \in Timer /\ t \notin Soft /\ made[t] /\ (t \in Periodic \/ ~Linked(t))
      /\ \A a \in Actor : obj[a] = t => at[a] = "stop"
  BY <1>1, TimerFacts DEF ThreadInv, FlagInv, CallInv, CallOK
<1> HIDE DEF t
<1>3. CASE RestartWanted(t) /\ StartAtOnce(t)
  <2>1. t \in Periodic /\ active[t] /\ started[t]
    BY <1>1, <1>2, <1>3 DEF RestartWanted, FlagInv
  <2>2. /\ ListType(list') /\ \A u \in Timer : LinkedIn(list', u) <=> LinkedIn(list, u) \/ u = t
        /\ list'["soft"] = list["soft"]
        /\ timeout' = [timeout EXCEPT ![t] = Due(t)] /\ Due(t) \in Tick
        /\ active' = [active EXCEPT ![t] = TRUE] /\ UNCHANGED <<initTick, made>>
    BY <1>1, <1>2, <1>3, StartAtOnceFacts DEF ListKind, Kind
  <2>3. started' \in [Timer -> BOOLEAN] /\ started' = started
    BY <1>1, <2>1 DEF TypeInv
  <2>4. TypeInv'
    BY <1>1, <2>2, <2>3 DEF TypeInv
  <2>5. ThreadInv'
    BY <1>1, <1>2, <2>2, TimerFacts DEF TypeInv, ThreadInv, Linked
  <2>6. CallInv'
    BY <1>1, <1>2, <2>2, <2>3, TimerFacts DEF TypeInv, CallInv, CallOK, Linked
  <2>7. FlagInv'
    BY <1>1, <1>2, <2>1, <2>2, <2>3, TimerFacts DEF TypeInv, FlagInv, Linked, t
  <2> QED BY <2>4, <2>5, <2>6, <2>7 DEF TimerInv
<1>4. CASE /\ ~RestartWanted(t) /\ active' = [active EXCEPT ![t] = FALSE]
           /\ UNCHANGED <<timeout, initTick, made, list>>
  <2>1. ~Linked(t)
    BY <1>1, <1>2, <1>4 DEF RestartWanted, FlagInv
  <2>2. started' \in [Timer -> BOOLEAN] /\ \A u \in Timer : u # t => started'[u] = started[u]
    BY <1>1, <1>2 DEF TypeInv
  <2>3. TypeInv'
    BY <1>1, <1>4, <2>2 DEF TypeInv
  <2>4. ThreadInv'
    BY <1>1, <1>4, TimerFacts DEF TypeInv, ThreadInv, Linked
  <2>5. CallInv'
    BY <1>1, <1>2, <1>4, <2>1, <2>2, TimerFacts DEF TypeInv, CallInv, CallOK, Linked
  <2>6. FlagInv'
    BY <1>1, <1>2, <1>4, <2>1, <2>2, TimerFacts DEF TypeInv, FlagInv, Linked, t
  <2> QED BY <2>3, <2>4, <2>5, <2>6 DEF TimerInv
<1> QED BY <1>1, <1>3, <1>4

\* The timeout of a start that is under way.
LEMMA StartTickInv ==
    ASSUME RulesKept, TimerInv, NEW a \in Actor, StartTick(a)
    PROVE  TimerInv'
<1>1. /\ TypeInv /\ ThreadInv /\ CallInv /\ FlagInv
      /\ Runs(a) /\ at[a] = "start"
      /\ timeout' = [timeout EXCEPT ![obj[a]] = Due(obj[a])] /\ at' = [at EXCEPT ![a] = "insert"]
      /\ UNCHANGED <<tick, isr, isrTimer, active, initTick, made, list, ready, wake, pc, next, cur, node, fires>>
      /\ UNCHANGED <<obj, started>>
  BY DEF TimerInv, StartTick, At_, Go, clock, thread, locals
<1>2. obj[a] \in Timer /\ ~Linked(obj[a]) /\ Due(obj[a]) \in Tick
  <2>1. obj[a] \in Timer /\ ~Linked(obj[a])
    BY <1>1 DEF TypeInv, CallInv, CallOK
  <2>2. tick \in Tick /\ initTick[obj[a]] \in Tick
    BY <1>1, <2>1 DEF TypeInv
  <2> QED BY <2>1, <2>2, PlusValue DEF Due
<1>3. TypeInv'
  BY <1>1, <1>2 DEF TypeInv, CallPc
<1>4. ThreadInv' /\ CallInv'
  BY <1>1, <1>2, TimerFacts DEF TypeInv, ThreadInv, CallInv, CallOK, Linked
<1>5. FlagInv'
  BY <1>1, <1>2, TimerFacts DEF TypeInv, FlagInv, Linked
<1> QED BY <1>3, <1>4, <1>5 DEF TimerInv

\* The linking of a timer; the starter of a soft timer goes on to the timer thread.
LEMMA StartInsertInv ==
    ASSUME RulesKept, TimerInv, NEW a \in Actor, StartInsert(a)
    PROVE  TimerInv'
<1> DEFINE t == obj[a]
<1>1. /\ TypeInv /\ ThreadInv /\ CallInv /\ FlagInv
      /\ Runs(a) /\ at[a] = "insert" /\ list' = Inserted(list, t, timeout[t])
      /\ active' = [active EXCEPT ![t] = TRUE]
      /\ IF t \in Soft THEN at' = [at EXCEPT ![a] = "test"] /\ obj' = obj
         ELSE at' = [at EXCEPT ![a] = "app"] /\ obj' = [obj EXCEPT ![a] = NoTimer]
      /\ UNCHANGED <<tick, isr, isrTimer, timeout, initTick, made, ready, wake, pc, next, cur, node, fires, started>>
  BY DEF TimerInv, StartInsert, At_, Tests, Go, Leave, clock, thread, locals
<1>2. /\ t \in Timer /\ ~Linked(t) /\ ~LinkedIn(list, t) /\ made[t] /\ started[t] /\ ~active[t]
      /\ t \in Soft => a \in Low \cup {TimerThread}
  BY <1>1 DEF TypeInv, CallInv, CallOK, Linked
<1> DEFINE due == timeout[t]
<1>3. /\ ListType(list') /\ \A u \in Timer : LinkedIn(list', u) <=> LinkedIn(list, u) \/ u = t
      /\ t \notin Soft => list'["soft"] = list["soft"]
  <2> HIDE DEF t, due
  <2>1. list' = Inserted(list, t, due)
    BY <1>1 DEF due
  <2>2. t \notin Soft => "soft" # Kind(t)
    BY DEF Kind
  <2> QED BY <1>1, <1>2, <2>1, <2>2, InsertedFacts DEF TypeInv, ListKind
<1>a. \A b \in Actor : b # a /\ obj[b] = t => at[b] \in {"stop"} \cup Waking /\ a = TimerThread /\ pc = "restart"
  BY <1>1, <1>2, TimerFacts DEF TypeInv, ThreadInv, CallInv, CallOK, Runs
<1>b. /\ at' \in [Actor -> CallPc] /\ obj' \in [Actor -> Timer \cup {NoTimer}]
      /\ \A b \in Actor : b # a => at'[b] = at[b] /\ obj'[b] = obj[b]
      /\ IF t \in Soft THEN at'[a] = "test" /\ obj'[a] = t ELSE at'[a] = "app" /\ obj'[a] = NoTimer
  BY <1>1 DEF TypeInv, CallPc
<1>4. TypeInv'
  BY <1>1, <1>2, <1>3, <1>b DEF TypeInv
<1>5. ThreadInv'
  BY <1>1, <1>2, <1>3, TimerFacts DEF TypeInv, ThreadInv, CallInv, CallOK, Runs, Locked, Linked
<1>6. CallInv'
  <2>1. ASSUME NEW b \in Actor PROVE CallOK(b)'
    <3>1. CASE b = a
      BY <1>1, <1>2, <1>b, <3>1, TimerFacts DEF CallOK
    <3>2. CASE b # a
      <4>1. CallOK(b) /\ at'[b] = at[b] /\ obj'[b] = obj[b]
        BY <1>1, <1>b, <3>2 DEF CallInv
      <4> QED BY <1>1, <1>2, <1>3, <1>a, <3>2, <4>1, TimerFacts DEF TypeInv, CallOK, Linked
    <3> QED BY <3>1, <3>2
  <2>2. \A b, c \in Actor \ {TimerThread} : obj'[b] = obj'[c] /\ obj'[b] \in Timer => b = c
    BY <1>1, <1>2, <1>b, TimerFacts DEF CallInv
  <2>3. \A b \in Actor \ {TimerThread} : obj'[b] \in Timer =>
          /\ obj'[b] = obj'[TimerThread] => pc' = "restart"
          /\ obj'[b] = fires' => at'[b] \in {"stop"} \cup Waking
    BY <1>1, <1>2, <1>b, TimerFacts DEF CallInv
  <2>4. obj'[TimerThread] \in Soft =>
          /\ at'[TimerThread] = "stop" => ~LinkedIn(list', obj'[TimerThread])
          /\ at'[TimerThread] \in {"start", "insert"} /\ obj'[TimerThread] = fires' => fires' \in Periodic
    BY <1>1, <1>2, <1>3, <1>a, <1>b, TimerFacts DEF CallInv, Linked
  <2> QED BY <2>1, <2>2, <2>3, <2>4 DEF CallInv, Linked
<1>7. FlagInv'
  BY <1>1, <1>2, <1>3, TimerFacts DEF TypeInv, ThreadInv, CallInv, CallOK, FlagInv, Runs, Locked, Linked
<1> QED BY <1>4, <1>5, <1>6, <1>7 DEF TimerInv

\* rt_timer_start of a soft timer tests and resumes the timer thread, in several steps.
LEMMA StartWakeInv ==
    ASSUME TimerInv, NEW a \in Actor, StartTest(a) \/ StartResume(a) \/ ResumeUnlink(a) \/ ResumeEnqueue(a)
    PROVE  TimerInv'
<1>1. /\ TypeInv /\ ThreadInv /\ CallInv /\ FlagInv
      /\ Runs(a) /\ at[a] \in Waking /\ wake' \in {wake, TickMod}
      /\ \/ (\E l \in Waking : at' = [at EXCEPT ![a] = l]) /\ obj' = obj /\ ready' = ready
         \/ at' = [at EXCEPT ![a] = "app"] /\ obj' = [obj EXCEPT ![a] = NoTimer] /\ ready' = TRUE
      /\ UNCHANGED <<tick, isr, isrTimer, active, timeout, initTick, made, list, pc, next, cur, node, fires, started>>
  BY DEF TimerInv, StartTest, StartResume, ResumeUnlink, ResumeEnqueue, At_, Go, Leave, clock, flags, thread, locals, TypeInv
<1>2. /\ at' \in [Actor -> CallPc] /\ obj' \in [Actor -> Timer \cup {NoTimer}]
      /\ \A b \in Actor : b # a => at'[b] = at[b] /\ obj'[b] = obj[b]
      /\ (at'[a] \in Waking /\ obj'[a] = obj[a] /\ ready' = ready) \/ (at'[a] = "app" /\ obj'[a] = NoTimer /\ ready')
      /\ ready' \in BOOLEAN
  BY <1>1 DEF TypeInv, CallPc
<1>3. wake' \in 0..TickMod
  BY <1>1, TimerFacts DEF TypeInv
<1>4. TypeInv'
  BY <1>1, <1>2, <1>3 DEF TypeInv
<1>5. ThreadInv'
  BY <1>1, <1>2, TimerFacts DEF TypeInv, ThreadInv, CallInv, CallOK, Linked
<1>6. CallInv'
  <2>1. ASSUME NEW b \in Actor PROVE CallOK(b)'
    <3>1. CallOK(b)
      BY <1>1 DEF CallInv
    <3>2. CASE b = a
      BY <1>1, <1>2, <3>1, <3>2, TimerFacts DEF CallOK
    <3>3. CASE b # a
      BY <1>1, <1>2, <3>1, <3>3 DEF CallOK, Linked
    <3> QED BY <3>2, <3>3
  <2>2. \A b \in Actor : (obj'[b] = obj[b] \/ obj'[b] = NoTimer) /\ (at'[b] = at[b] \/ at'[b] \in Waking \cup {"app"})
    BY <1>2
  <2>3. \A b, c \in Actor \ {TimerThread} : obj'[b] = obj'[c] /\ obj'[b] \in Timer => b = c
    BY <1>1, <2>2, TimerFacts DEF CallInv
  <2>4. \A b \in Actor \ {TimerThread} : obj'[b] \in Timer =>
          /\ obj'[b] = obj'[TimerThread] => pc' = "restart"
          /\ obj'[b] = fires' => at'[b] \in {"stop"} \cup Waking
    <3> SUFFICES ASSUME NEW b \in Actor \ {TimerThread}, obj'[b] \in Timer
                 PROVE  /\ obj'[b] = obj'[TimerThread] => pc' = "restart"
                        /\ obj'[b] = fires' => at'[b] \in {"stop"} \cup Waking
      OBVIOUS
    <3>1. obj'[b] = obj[b] /\ (obj'[TimerThread] = obj[TimerThread] \/ obj'[TimerThread] # obj'[b])
      BY <2>2, TimerFacts
    <3>2. at'[b] = at[b] \/ at'[b] \in Waking
      BY <1>2, TimerFacts
    <3> QED BY <1>1, <3>1, <3>2 DEF CallInv
  <2>5. obj'[TimerThread] \in Soft =>
          /\ at'[TimerThread] = "stop" => ~LinkedIn(list', obj'[TimerThread])
          /\ at'[TimerThread] \in {"start", "insert"} /\ obj'[TimerThread] = fires' => fires' \in Periodic
    BY <1>1, <2>2, TimerFacts DEF CallInv, Linked
  <2> QED BY <2>1, <2>3, <2>4, <2>5 DEF CallInv, Linked
<1>7. FlagInv'
  <2>1. \A b \in Actor : at[b] = "stopped" => at'[b] = "stopped" /\ obj'[b] = obj[b]
    BY <1>1, <1>2
  <2> QED BY <1>1, <2>1 DEF FlagInv, Linked
<1> QED BY <1>4, <1>5, <1>6, <1>7 DEF TimerInv

\* rt_timer_stop finds the timer active.
LEMMA StopInv ==
    ASSUME RulesKept, TimerInv, NEW a \in Actor, NEW t \in Timer, rt_timer_stop(a, t)
    PROVE  TimerInv'
<1>1. /\ TypeInv /\ ThreadInv /\ CallInv /\ FlagInv
      /\ Runs(a) /\ at[a] = "app" /\ (a = TimerThread => pc = "callback") /\ made[t]
      /\ t \in Soft => a \in Low \cup {TimerThread}
      /\ \A b \in Actor : obj[b] # t
      /\ ~(t \in Soft /\ Linked(t) /\ (Locked \/ InCallback))
      /\ at' = [at EXCEPT ![a] = "stop"] /\ obj' = [obj EXCEPT ![a] = t]
      /\ UNCHANGED <<tick, isr, isrTimer, active, timeout, initTick, made, list, ready, wake>>
      /\ UNCHANGED <<pc, next, cur, node, fires, started>>
  BY TimerFacts DEF TimerInv, rt_timer_stop, Calls, MayUse, RulesKept, InCallback, Go, clock, flags, thread, locals
<1>2. TypeInv'
  BY <1>1 DEF TypeInv, CallPc
<1>3. ThreadInv'
  BY <1>1, TimerFacts DEF TypeInv, ThreadInv, CallInv, CallOK, Linked
<1>4. CallInv'
  BY <1>1, TimerFacts DEF TypeInv, ThreadInv, CallInv, CallOK, Runs, Linked, InCallback
<1>5. FlagInv'
  BY <1>1, TimerFacts DEF TypeInv, FlagInv, Linked
<1> QED BY <1>2, <1>3, <1>4, <1>5 DEF TimerInv

\* The section of rt_timer_stop takes the timer out.
LEMMA StopRemoveInv ==
    ASSUME TimerInv, NEW a \in Actor, StopRemove(a)
    PROVE  TimerInv'
<1> DEFINE t == obj[a]
<1>1. /\ TypeInv /\ ThreadInv /\ CallInv /\ FlagInv
      /\ Runs(a) /\ at[a] = "stop" /\ list' = Removed(t) /\ timeout' = Forgotten(t)
      /\ at' = [at EXCEPT ![a] = "stopped"]
      /\ UNCHANGED <<tick, isr, isrTimer, active, initTick, made, ready, wake, pc, next, cur, node, fires>>
      /\ UNCHANGED <<obj, started>>
  BY DEF TimerInv, StopRemove, At_, Go, clock, thread, locals
<1>2. /\ t \in Timer /\ made[t] /\ (t \in Soft => a \in Low \cup {TimerThread})
      /\ t \in Soft /\ a = TimerThread => ~Linked(t)
      /\ a = TimerThread => pc = "callback"
  BY <1>1 DEF TypeInv, ThreadInv, CallInv, CallOK
<1>3. \A b \in Actor : b # a => obj[b] # t
  BY <1>1, <1>2, TimerFacts DEF TypeInv, ThreadInv, CallInv, CallOK, Runs
<1> DEFINE o == obj[a]
<1>4. /\ ListType(list') /\ \A u \in Timer : LinkedIn(list', u) <=> LinkedIn(list, u) /\ u # t
      /\ timeout' \in [Timer -> Tick] /\ \A u \in Timer : u # t => timeout'[u] = timeout[u]
      /\ list["soft"] = <<>> => list'["soft"] = <<>>
  <2> HIDE DEF t
  <2>1. timeout' \in [Timer -> Tick] /\ \A u \in Timer : u # t => timeout'[u] = timeout[u]
    BY <1>1, <1>2, TimerFacts DEF TypeInv, Forgotten
  <2>2. list["soft"] = <<>> => list'["soft"] = <<>>
    BY <1>1, <1>2, RemovedFacts DEF TypeInv, ListKind
  <2> QED BY <1>1, <1>2, <2>1, <2>2, RemovedFacts DEF TypeInv
<1>5. TypeInv'
  BY <1>1, <1>4 DEF TypeInv, CallPc
<1>6. ThreadInv'
  BY <1>1, <1>2, <1>4, TimerFacts DEF TypeInv, ThreadInv, Runs, Linked
<1>7. CallInv'
  BY <1>1, <1>2, <1>3, <1>4, TimerFacts DEF TypeInv, ThreadInv, CallInv, CallOK, Runs, Linked
<1>8. FlagInv'
  BY <1>1, <1>2, <1>4, TimerFacts DEF TypeInv, FlagInv, Linked
<1> QED BY <1>5, <1>6, <1>7, <1>8 DEF TimerInv

\* rt_timer_stop clears the flag of a timer that is still out.
LEMMA StopFlagInv ==
    ASSUME TimerInv, NEW a \in Actor, StopFlag(a)
    PROVE  TimerInv'
<1> DEFINE t == obj[a]
<1>1. /\ TypeInv /\ ThreadInv /\ CallInv /\ FlagInv
      /\ Runs(a) /\ at[a] = "stopped" /\ active' = [active EXCEPT ![t] = FALSE]
      /\ started' = [started EXCEPT ![t] = FALSE]
      /\ at' = [at EXCEPT ![a] = "app"] /\ obj' = [obj EXCEPT ![a] = NoTimer]
      /\ UNCHANGED <<tick, isr, isrTimer, timeout, initTick, made, list, ready, wake, pc, next, cur, node, fires>>
  BY DEF TimerInv, StopFlag, StopClears, At_, Go, Leave, clock, thread, locals
<1>2. t \in Timer /\ ~Linked(t) /\ (t \in Soft => a \in Low \cup {TimerThread})
  BY <1>1 DEF TypeInv, CallInv, CallOK
<1>3. \A b \in Actor : b # a => obj[b] # t
  BY <1>1, <1>2, TimerFacts DEF TypeInv, ThreadInv, CallInv, CallOK, Runs
<1>4. TypeInv'
  BY <1>1, <1>2 DEF TypeInv, CallPc
<1>5. ThreadInv'
  BY <1>1, <1>2, TimerFacts DEF TypeInv, ThreadInv, Linked
<1>6. CallInv'
  BY <1>1, <1>2, <1>3, TimerFacts DEF TypeInv, CallInv, CallOK, Linked
<1>7. FlagInv'
  BY <1>1, <1>2, TimerFacts DEF TypeInv, FlagInv, Linked
<1> QED BY <1>4, <1>5, <1>6, <1>7 DEF TimerInv

\* rt_timer_detach leaves no list with the timer.
LEMMA DetachInv ==
    ASSUME RulesKept, TimerInv, NEW a \in Actor, NEW t \in Timer, rt_timer_detach(a, t)
    PROVE  TimerInv'
<1>1. /\ TypeInv /\ ThreadInv /\ CallInv /\ FlagInv
      /\ Runs(a) /\ (a = TimerThread => pc = "callback") /\ (t \in Soft => a \in Low \cup {TimerThread})
      /\ \A b \in Actor : obj[b] # t
      /\ ~(t \in Soft /\ Linked(t) /\ (Locked \/ InCallback)) /\ ~Running(t)
  BY TimerFacts DEF TimerInv, rt_timer_detach, Calls, MayDetach, MayUse, RulesKept, InCallback
<1>2. /\ list' = Removed(t) /\ timeout' = Forgotten(t)
      /\ made' = [made EXCEPT ![t] = FALSE] /\ started' = [started EXCEPT ![t] = FALSE]
      /\ UNCHANGED <<tick, isr, isrTimer, active, initTick, ready, wake, pc, next, cur, node, fires, at, obj>>
  BY DEF rt_timer_detach, clock, thread, locals, calls
<1>3. /\ ListType(list') /\ \A u \in Timer : LinkedIn(list', u) <=> LinkedIn(list, u) /\ u # t
      /\ timeout' \in [Timer -> Tick] /\ \A u \in Timer : u # t => timeout'[u] = timeout[u]
      /\ list["soft"] = <<>> => list'["soft"] = <<>>
  <2>1. timeout' \in [Timer -> Tick] /\ \A u \in Timer : u # t => timeout'[u] = timeout[u]
    BY <1>1, <1>2, TimerFacts DEF TypeInv, Forgotten
  <2>2. list["soft"] = <<>> => list'["soft"] = <<>>
    BY <1>1, <1>2, RemovedFacts DEF TypeInv, ListKind
  <2> QED BY <1>1, <1>2, <2>1, <2>2, RemovedFacts DEF TypeInv
<1>4. TypeInv'
  BY <1>1, <1>2, <1>3 DEF TypeInv
<1>5. ThreadInv'
  BY <1>1, <1>2, <1>3, TimerFacts DEF TypeInv, ThreadInv, Runs, Linked, Locked, InCallback, Running
<1>6. CallInv'
  BY <1>1, <1>2, <1>3, TimerFacts, SMTT(30) DEF TypeInv, CallInv, CallOK, Linked
<1>7. FlagInv'
  BY <1>1, <1>2, <1>3, TimerFacts DEF TypeInv, ThreadInv, FlagInv, Runs, Linked, Locked, InCallback, Running
<1> QED BY <1>4, <1>5, <1>6, <1>7 DEF TimerInv

\* rt_timer_init of a timer that is not there, rt_timer_control of a stopped one.
LEMMA InitControlInv ==
    ASSUME TimerInv, NEW a \in Actor, NEW t \in Timer, NEW i \in InitTicks[t],
           rt_timer_init(a, t, i) \/ rt_timer_control(a, t, i)
    PROVE  TimerInv'
<1>1. /\ TypeInv /\ ThreadInv /\ CallInv /\ FlagInv
      /\ initTick' = [initTick EXCEPT ![t] = i]
      /\ UNCHANGED <<tick, isr, isrTimer, list, ready, wake, pc, next, cur, node, fires, at, obj, started>>
      /\ \/ /\ ~made[t] /\ made' = [made EXCEPT ![t] = TRUE] /\ active' = [active EXCEPT ![t] = FALSE]
            /\ timeout' = [timeout EXCEPT ![t] = 0]
         \/ UNCHANGED <<made, active, timeout>>
  BY DEF TimerInv, rt_timer_init, rt_timer_control, clock, thread, locals, calls
<1>2. i \in Tick
  BY TickAssumption
<1>a. initTick' \in [Timer -> Tick] /\ \A u \in Timer : initTick'[u] \in InitTicks[u]
  BY <1>1, <1>2 DEF TypeInv
<1>b. made \in [Timer -> BOOLEAN] /\ active \in [Timer -> BOOLEAN] /\ timeout \in [Timer -> Tick] /\ 0 \in Tick
  BY <1>1, TimerFacts DEF TypeInv
<1>c. made' \in [Timer -> BOOLEAN] /\ active' \in [Timer -> BOOLEAN]
  BY <1>1, <1>b
<1>d. timeout' \in [Timer -> Tick]
  BY <1>1, <1>b
<1>e. ASSUME NEW u \in Timer
      PROVE  \/ (made'[u] <=> made[u]) /\ (active'[u] <=> active[u])
             \/ u = t /\ ~made[u] /\ made'[u] /\ ~active'[u]
  BY <1>1, <1>b
<1>3. TypeInv'
  BY <1>1, <1>a, <1>c, <1>d DEF TypeInv
<1>4. ThreadInv'
  BY <1>1 DEF ThreadInv, Linked
<1>5. CallInv'
  <2>1. ASSUME NEW b \in Actor PROVE CallOK(b)'
    <3>1. CallOK(b) /\ at'[b] = at[b] /\ obj'[b] = obj[b] /\ (at[b] # "app" => obj[b] \in Timer)
      BY <1>1 DEF CallInv, CallOK, TypeInv
    <3> QED BY <1>1, <1>e, <3>1 DEF CallOK, Linked
  <2> QED BY <1>1, <2>1 DEF CallInv, Linked
<1>6. FlagInv'
  BY <1>1, <1>e DEF FlagInv, Linked
<1> QED BY <1>3, <1>4, <1>5, <1>6 DEF TimerInv

\* The node behind a linked timer is the list head or another linked timer.
LEMMA NodeAfterFacts ==
    ASSUME ListType(list), NEW t \in Soft, Linked(t)
    PROVE  \/ NodeAfter(t) = Head_
           \/ NodeAfter(t) \in Soft /\ Linked(NodeAfter(t)) /\ NodeAfter(t) # t
<1> DEFINE l == list["soft"]
           i == CHOOSE i \in 1..Len(l) : l[i] = t
<1>1. l \in Seq(Soft) /\ Distinct(l) /\ Len(l) \in Nat
  BY DEF ListType, ListKind
<1>2. i \in 1..Len(l) /\ l[i] = t
  <2>1. \E k \in 1..Len(l) : l[k] = t
    BY DEF Linked, LinkedIn, Kind, Contains
  <2> QED BY <2>1
<1>3. NodeAfter(t) = IF i = Len(l) THEN Head_ ELSE l[i + 1]
  BY DEF NodeAfter
<1> HIDE DEF i
<1>4. CASE i # Len(l)
  <2>1. i + 1 \in 1..Len(l) /\ i + 1 # i
    BY <1>1, <1>2, <1>4
  <2>2. l[i + 1] \in Soft /\ Contains(l, l[i + 1]) /\ l[i + 1] # t
    BY <1>1, <1>2, <2>1 DEF Contains, Distinct
  <2>3. Linked(l[i + 1])
    BY <2>2 DEF Linked, LinkedIn, Kind
  <2> QED BY <1>3, <1>4, <2>2, <2>3
<1> QED BY <1>3, <1>4

\* rt_soft_timer_check takes a timer out that is linked, and keeps its successor.
LEMMA SoftFirstInv == ASSUME TimerInv, SoftFirst PROVE TimerInv'
<1> DEFINE t == node
<1>1. /\ TypeInv /\ ThreadInv /\ CallInv /\ FlagInv
      /\ ready /\ pc = "check" /\ t # Head_ /\ fires' = t /\ node' = NodeAfter(t) /\ list' = Removed(t)
      /\ timeout' = IF Linked(t) THEN [timeout EXCEPT ![t] = 0] ELSE timeout
      /\ cur' = 0 /\ pc' = "callback"
      /\ UNCHANGED <<tick, isr, isrTimer, active, initTick, made, ready, wake, next, at, obj, started>>
  BY DEF TimerInv, SoftFirst, SoftDue, Thread_, clock, calls
<1>2. t \in Soft /\ t \in Timer /\ t \notin Hard /\ Linked(t) /\ fires = NoTimer /\ at[TimerThread] = "app"
  BY <1>1, TimerFacts DEF TypeInv, ThreadInv
<1>3. \/ node' = Head_
      \/ node' \in Soft /\ LinkedIn(list, node') /\ node' # t
  BY <1>1, <1>2, NodeAfterFacts DEF TypeInv, Linked
<1> HIDE DEF t
<1>4. /\ ListType(list') /\ \A u \in Timer : LinkedIn(list', u) <=> LinkedIn(list, u) /\ u # t
      /\ timeout' \in [Timer -> Tick] /\ \A u \in Timer : u # t => timeout'[u] = timeout[u]
  <2>1. timeout' \in [Timer -> Tick] /\ \A u \in Timer : u # t => timeout'[u] = timeout[u]
    BY <1>1, <1>2, TimerFacts DEF TypeInv
  <2> QED BY <1>1, <1>2, <2>1, RemovedFacts DEF TypeInv
<1>5. TypeInv'
  BY <1>1, <1>2, <1>3, <1>4, TimerFacts DEF TypeInv, ThreadPc
<1>6. ThreadInv'
  BY <1>1, <1>2, <1>3, <1>4, TimerFacts DEF TypeInv, ThreadInv, Linked
<1>7. CallInv'
  BY <1>1, <1>2, <1>4, TimerFacts DEF TypeInv, ThreadInv, CallInv, CallOK, CallPc, Linked
<1>8. FlagInv'
  BY <1>1, <1>2, <1>4, TimerFacts DEF TypeInv, ThreadInv, FlagInv, Linked
<1> QED BY <1>5, <1>6, <1>7, <1>8 DEF TimerInv

\* The timer thread starts its periodic timer again.
LEMMA SoftRestartInv == ASSUME TimerInv, SoftRestart PROVE TimerInv'
<1> DEFINE t == fires
           a == TimerThread
<1>1. /\ TypeInv /\ ThreadInv /\ CallInv /\ FlagInv
      /\ ready /\ pc = "after" /\ t \in Periodic /\ active[t] /\ pc' = "restart"
      /\ list' = Removed(t) /\ active' = [active EXCEPT ![t] = FALSE] /\ timeout' = Forgotten(t)
      /\ at' = [at EXCEPT ![a] = "start"] /\ obj' = [obj EXCEPT ![a] = t]
      /\ UNCHANGED <<tick, isr, isrTimer, initTick, made, ready, wake, next, cur, node, fires, started>>
  BY DEF TimerInv, SoftRestart, Thread_, RestartWanted, StartRemove, Go, clock, locals
<1>2. /\ t \in Soft /\ t \in Timer /\ t \notin Hard /\ made[t] /\ started[t]
      /\ at[a] = "app" /\ obj[a] = NoTimer /\ a \in Actor /\ node # t
      /\ \A b \in Actor : b # a /\ obj[b] = t => at[b] \in {"stop"} \cup Waking
  BY <1>1, TimerFacts DEF TypeInv, ThreadInv, CallInv, CallOK, FlagInv
<1>3. /\ ListType(list') /\ \A u \in Timer : LinkedIn(list', u) <=> LinkedIn(list, u) /\ u # t
      /\ timeout' \in [Timer -> Tick] /\ \A u \in Timer : u # t => timeout'[u] = timeout[u]
  <2> HIDE DEF t
  <2>1. timeout' \in [Timer -> Tick] /\ \A u \in Timer : u # t => timeout'[u] = timeout[u]
    BY <1>1, <1>2, TimerFacts DEF TypeInv, Forgotten
  <2> QED BY <1>1, <1>2, <2>1, RemovedFacts DEF TypeInv
<1>4. TypeInv'
  BY <1>1, <1>2, <1>3 DEF TypeInv, ThreadPc, CallPc
<1>5. ThreadInv'
  BY <1>1, <1>2, <1>3, TimerFacts DEF TypeInv, ThreadInv, Linked
<1>6. CallInv'
  BY <1>1, <1>2, <1>3, TimerFacts DEF TypeInv, ThreadInv, CallInv, CallOK, Linked
<1>7. FlagInv'
  BY <1>1, <1>2, <1>3, TimerFacts DEF TypeInv, ThreadInv, CallInv, CallOK, FlagInv, Linked
<1> QED BY <1>4, <1>5, <1>6, <1>7 DEF TimerInv

\* It is done with a timer that is linked again.
LEMMA SoftRestartedInv == ASSUME TimerInv, SoftRestarted PROVE TimerInv'
<1>1. /\ TypeInv /\ ThreadInv /\ CallInv /\ FlagInv
      /\ ready /\ pc = "restart" /\ at[TimerThread] = "app" /\ fires' = NoTimer /\ pc' = "check"
      /\ UNCHANGED <<tick, isr, isrTimer, active, timeout, initTick, made, list, ready, wake, next, cur, node>>
      /\ UNCHANGED <<at, obj, started>>
  BY DEF TimerInv, SoftRestarted, Thread_, clock, flags, calls
<1>2. Linked(fires) /\ obj[TimerThread] = NoTimer
  BY <1>1, TimerFacts DEF ThreadInv, CallInv, CallOK
<1>3. TypeInv' /\ ThreadInv'
  BY <1>1, TimerFacts DEF TypeInv, ThreadInv, ThreadPc, Linked
<1>4. CallInv'
  BY <1>1, <1>2, TimerFacts DEF TypeInv, CallInv, CallOK, Linked
<1>5. FlagInv'
  BY <1>1, <1>2, TimerFacts DEF FlagInv, Linked
<1> QED BY <1>3, <1>4, <1>5 DEF TimerInv

\* It deactivates a timer that is not to run again.
LEMMA SoftStopInv == ASSUME TimerInv, SoftStop PROVE TimerInv'
<1> DEFINE t == fires
<1>1. /\ TypeInv /\ ThreadInv /\ CallInv /\ FlagInv
      /\ ready /\ pc = "after" /\ ~RestartWanted(t) /\ active' = [active EXCEPT ![t] = FALSE]
      /\ started' = [started EXCEPT ![t] = @ /\ (t \in Periodic \/ Linked(t))]
      /\ fires' = NoTimer /\ pc' = "check"
      /\ UNCHANGED <<tick, isr, isrTimer, timeout, initTick, made, list, ready, wake, next, cur, node, at, obj>>
  BY DEF TimerInv, SoftStop, Thread_, clock, calls
<1>2. /\ t \in Soft /\ t \in Timer /\ t \notin Hard /\ ~Linked(t) /\ made[t]
      /\ at[TimerThread] = "app" /\ obj[TimerThread] = NoTimer
      /\ \A b \in Actor : obj[b] = t => at[b] \in {"stop"} \cup Waking
  BY <1>1, TimerFacts DEF TypeInv, ThreadInv, CallInv, CallOK, FlagInv, RestartWanted
<1> HIDE DEF t
<1>3. started' \in [Timer -> BOOLEAN] /\ \A u \in Timer : u # t => started'[u] = started[u]
  BY <1>1, <1>2 DEF TypeInv
<1>4. TypeInv'
  BY <1>1, <1>2, <1>3, TimerFacts DEF TypeInv, ThreadPc
<1>5. ThreadInv'
  BY <1>1, <1>2, TimerFacts DEF TypeInv, ThreadInv, Linked
<1>6. CallInv'
  BY <1>1, <1>2, <1>3, TimerFacts DEF TypeInv, CallInv, CallOK, Linked
<1>7. FlagInv'
  BY <1>1, <1>2, <1>3, TimerFacts DEF TypeInv, FlagInv, Linked, t
<1> QED BY <1>4, <1>5, <1>6, <1>7 DEF TimerInv

\* Every step keeps TimerInv.
LEMMA TimerNextInv ==
    ASSUME RulesKept, TimerInv, [TimerNext]_vars
    PROVE  TimerInv'
<1>1. ASSUME NEW a \in Actor, CallStep(a) PROVE TimerInv'
  BY <1>1, StartTickInv, StartInsertInv, StartWakeInv, StopRemoveInv, StopFlagInv DEF CallStep
<1>2. ASSUME NEW a \in Actor, NEW t \in Timer, ThreadCall(a, t) PROVE TimerInv'
  BY <1>2, StartInv, StopInv, DetachInv, InitControlInv DEF ThreadCall
<1>3. CASE ThreadStep
  BY <1>3, ReadNextInv, SuspendInv, ReadTickInv, CheckStepInv, SoftFirstInv, SoftRestartInv,
     SoftRestartedInv, SoftStopInv DEF ThreadStep
<1>4. CASE Interrupt \/ \E t \in Timer : DriverInterrupt(t)
  BY <1>4, TickInv, CheckFirstInv, CallbackInv, CheckAfterInv DEF Interrupt
<1>5. CASE UNCHANGED vars
  <2>1. /\ TypeInv /\ ThreadInv
        /\ UNCHANGED <<flags, list, calls, started, isrTimer, fires>> /\ pc' = pc
        /\ UNCHANGED <<tick, isr, active, timeout, initTick, made, ready, wake, next, cur, node, at, obj>>
    BY <1>5 DEF TimerInv, vars, clock, flags, thread, locals, calls
  <2>2. CallInv' /\ FlagInv'
    BY <2>1, QuietFrame
  <2>3. TypeInv' /\ ThreadInv'
    BY <2>1 DEF TypeInv, ThreadInv, Linked
  <2> QED BY <2>2, <2>3 DEF TimerInv
<1> QED BY <1>1, <1>2, <1>3, <1>4, <1>5 DEF TimerNext

\* The initial state has the invariant.
LEMMA TimerInitInv == ASSUME TimerInit PROVE TimerInv
<1>1. \A k \in ListKind : list[k] = <<>>
  BY DEF TimerInit, ListKind
<1>2. ListType(list)
  BY <1>1 DEF TimerInit, ListType, ListKind, Distinct
<1>3. \A t \in Timer : ~Linked(t)
  BY <1>1 DEF Linked, LinkedIn, Kind, Contains, ListKind
<1>4. TypeInv
  BY <1>2, TimerFacts, TickAssumption DEF TimerInit, TypeInv, ThreadPc, CallPc
<1>5. ThreadInv /\ CallInv /\ FlagInv
  BY <1>1, <1>3, TimerFacts DEF TimerInit, ThreadInv, CallInv, CallOK, FlagInv
<1> QED BY <1>4, <1>5 DEF TimerInv

\* TimerInv is an invariant, for any number of timers and threads, any timeouts
\* and any modulus of the tick count.
THEOREM TimerInvariant == ASSUME RulesKept PROVE TimerSpec => []TimerInv
<1>1. TimerInit => TimerInv
  BY TimerInitInv
<1>2. TimerInv /\ [TimerNext]_vars => TimerInv'
  BY TimerNextInv
<1> QED BY <1>1, <1>2, PTL DEF TimerSpec

\* Ticks stay in their range, and each list holds timers of its kind only.
THEOREM TimerTypeCorrect == ASSUME RulesKept PROVE TimerSpec => []TimerTypeOK
<1>1. TimerInv => TimerTypeOK
  BY DEF TimerInv, TypeInv, ListType, TimerTypeOK
<1> QED BY <1>1, TimerInvariant, PTL

\* RT_TIMER_FLAG_ACTIVATED agrees with the lists whenever nobody is at work on the
\* timer, although rt_timer_stop and both checks set the two apart.
THEOREM FlagCorrect == ASSUME RulesKept PROVE TimerSpec => []FlagOK
<1>1. TimerInv => FlagOK
  BY DEF TimerInv, FlagInv, FlagOK, Idle
<1> QED BY <1>1, TimerInvariant, PTL

\* Timeout functions are called by the two checks only.
LEMMA FiresCases ==
    ASSUME TimerNext,
           \/ isr # "callback" /\ isr' = "callback"
           \/ pc # "callback" /\ pc' = "callback"
    PROVE  CheckFirst \/ SoftFirst
<1>1. ASSUME NEW a \in Actor, CallStep(a) PROVE FALSE
  BY <1>1 DEF CallStep, StartTick, StartInsert, StartTest, StartResume, ResumeUnlink, ResumeEnqueue, StopRemove, StopFlag, clock, thread
<1>2. ASSUME NEW a \in Actor, NEW t \in Timer, ThreadCall(a, t) PROVE FALSE
  BY <1>2 DEF ThreadCall, rt_timer_start, StartRemove, rt_timer_stop, rt_timer_detach, rt_timer_init,
     rt_timer_control, clock, thread
<1>3. ASSUME ThreadStep, ~SoftFirst PROVE FALSE
  BY <1>3 DEF ThreadStep, ReadNext, SuspendTimerThread, ReadTick, Delay, CheckBegin, CheckEnter, SoftDone, CallbackReturn,
     SoftRestart, StartRemove, SoftRestarted, SoftStop, clock
<1>4. ASSUME Interrupt, ~CheckFirst PROVE FALSE
  BY <1>4 DEF Interrupt, rt_tick_increase, CheckDone, CheckCallback, CheckAfter, thread
<1>5. ASSUME NEW t \in Timer, DriverInterrupt(t) PROVE FALSE
  BY <1>5 DEF DriverInterrupt, clock
<1> QED BY <1>1, <1>2, <1>3, <1>4, <1>5 DEF TimerNext

\* No timeout function is called of a timer that its user has stopped or detached,
\* nor twice for one start of a one-shot timer.
THEOREM FiresOnlyStarted == ASSUME RulesKept PROVE TimerSpec => FireOnlyStarted
<1>1. TimerInv /\ [TimerNext]_vars => [\A t \in Timer : Fires(t) => started[t]]_vars
  <2> SUFFICES ASSUME TimerInv, TimerNext, NEW t \in Timer, Fires(t) PROVE started[t]
    OBVIOUS
  <2>1. CheckFirst \/ SoftFirst
    BY FiresCases DEF Fires
  <2>2. TypeInv /\ ThreadInv /\ FlagInv
    BY DEF TimerInv
  <2>3. Linked(t) => started[t]
    BY <2>2 DEF FlagInv
  <2>4. CASE CheckFirst
    <3>1. list["hard"] # <<>> /\ isrTimer' = Head(list["hard"]) /\ pc' = pc
      BY <2>4 DEF CheckFirst, HardDue, thread
    <3>2. t = Head(list["hard"])
      BY <3>1 DEF Fires
    <3>3. list["hard"] \in Seq(Hard) /\ Distinct(list["hard"])
      BY <2>2 DEF TypeInv, ListType, ListKind
    <3>4. t \in Hard /\ Contains(list["hard"], t)
      BY <3>1, <3>2, <3>3, ListTail
    <3>5. Linked(t)
      BY <3>4, TimerFacts DEF Linked, LinkedIn, Kind
    <3> QED BY <2>3, <3>5
  <2>5. CASE SoftFirst
    <3>1. pc = "check" /\ node # Head_ /\ fires' = node /\ isr' = isr
      BY <2>5 DEF SoftFirst, Thread_, SoftDue, clock
    <3>2. Linked(node) /\ t = node
      BY <2>2, <3>1 DEF ThreadInv, Fires
    <3> QED BY <2>3, <3>2
  <2> QED BY <2>1, <2>4, <2>5
<1> QED BY <1>1, TimerInvariant, PTL DEF TimerSpec, FireOnlyStarted

-----------------------------------------------------------------------------
(* The order of the lists.                                                  *)

\* The place of a timer in a window of the tick count that begins MaxLag ticks ago.
PlaceAt(now, due) == Minus(due, Minus(now, MaxLag))
Place == [t \in Timer |-> PlaceAt(tick, timeout[t])]

\* Every timeout in use lies in a window of less than half the range, and there the
\* lists are in order.
WindowInv ==
    /\ \A t \in Timer : Linked(t) => Place[t] < HalfRange - MaxLag
    /\ \A a \in Actor : at[a] = "insert" => Place[obj[a]] < HalfRange - MaxLag
    /\ \A k \in ListKind : Sorted(list[k], Place)

\* Where there is a timer, the lag is short.
LEMMA LagFacts ==
    ASSUME NEW t \in Timer, NEW i \in InitTicks[t]
    PROVE  /\ MaxLag \in Tick /\ i \in Tick /\ i > 0 /\ i + MaxLag + MaxLag < HalfRange
           /\ MaxLag + MaxLag < HalfRange
<1>1. i \in {j \in Tick : j > 0 /\ j + 2 * MaxLag < HalfRange}
  BY TickAssumption
<1> QED BY <1>1, TimerFacts

\* The place as a number.
LEMMA PlaceValue ==
    ASSUME NEW now \in Tick, NEW due \in Tick, MaxLag \in Tick
    PROVE  /\ PlaceAt(now, due) \in Tick
           /\ PlaceAt(now, due) \in {due - now + MaxLag - TickMod, due - now + MaxLag, due - now + MaxLag + TickMod}
<1>1. /\ Minus(now, MaxLag) = IF now >= MaxLag THEN now - MaxLag ELSE now - MaxLag + TickMod
      /\ Minus(now, MaxLag) \in Tick
  BY MinusValue
<1> DEFINE base == Minus(now, MaxLag)
<1> HIDE DEF base
<1>2. PlaceAt(now, due) = IF due >= base THEN due - base ELSE due - base + TickMod
  BY <1>1, MinusValue DEF PlaceAt, base
<1>3. base \in {now - MaxLag, now - MaxLag + TickMod} /\ base \in Tick
  BY <1>1 DEF base
<1> QED BY <1>2, <1>3, TimerFacts

\* A timer that is started now has the place of its init_tick.
LEMMA PlaceDue ==
    ASSUME NEW t \in Timer, tick \in Tick, initTick[t] \in InitTicks[t]
    PROVE  PlaceAt(tick, Due(t)) < HalfRange - MaxLag
<1> DEFINE i == initTick[t]
           d == (tick + i) % TickMod
<1>1. i \in Tick /\ MaxLag \in Tick /\ i + MaxLag + MaxLag < HalfRange /\ tick \in Tick
  BY LagFacts
<1>2. d = (IF tick + i < TickMod THEN tick + i ELSE tick + i - TickMod) /\ d \in Tick
  BY <1>1, PlusValue
<1> HIDE DEF d, i
<1> DEFINE p == PlaceAt(tick, d)
<1>3. p \in Tick /\ p \in {d - tick + MaxLag - TickMod, d - tick + MaxLag, d - tick + MaxLag + TickMod}
  BY <1>1, <1>2, PlaceValue
<1> HIDE DEF p
<1>4. p < HalfRange - MaxLag
  BY <1>1, <1>2, <1>3, TimerFacts
<1> QED BY <1>4 DEF p, d, i, Due

\* Two timeouts in the window compare as their places do.
LEMMA PlaceOrder ==
    ASSUME NEW now \in Tick, NEW d \in Tick, NEW e \in Tick, MaxLag \in Tick,
           PlaceAt(now, d) < HalfRange, PlaceAt(now, e) < HalfRange
    PROVE  /\ PlaceAt(now, d) <= PlaceAt(now, e) <=> Minus(e, d) < HalfRange
           /\ PlaceAt(now, d) = PlaceAt(now, e) <=> Minus(e, d) = 0
           /\ PlaceAt(now, d) \in Nat /\ PlaceAt(now, e) \in Nat
<1> DEFINE p == PlaceAt(now, d)
           q == PlaceAt(now, e)
<1>1. /\ p \in Tick /\ p \in {d - now + MaxLag - TickMod, d - now + MaxLag, d - now + MaxLag + TickMod}
      /\ q \in Tick /\ q \in {e - now + MaxLag - TickMod, e - now + MaxLag, e - now + MaxLag + TickMod}
      /\ p < HalfRange /\ q < HalfRange
  BY PlaceValue
<1>2. Minus(e, d) = (IF e >= d THEN e - d ELSE e - d + TickMod) /\ Minus(e, d) \in Tick
  BY MinusValue
<1> HIDE DEF p, q
<1> DEFINE m == Minus(e, d)
<1> HIDE DEF m
<1>3. m = (IF e >= d THEN e - d ELSE e - d + TickMod) /\ m \in Tick
  BY <1>2 DEF m
<1>4. (p <= q <=> m < HalfRange) /\ (p = q <=> m = 0) /\ p \in Nat /\ q \in Nat
  BY <1>1, <1>3, TimerFacts
<1> QED BY <1>4 DEF p, q, m

\* A timeout in the window is due when its place is within the lag.
LEMMA PlaceExpired ==
    ASSUME NEW now \in Tick, NEW d \in Tick, MaxLag \in Tick, MaxLag + MaxLag < HalfRange, PlaceAt(now, d) < HalfRange
    PROVE  Minus(now, d) < HalfRange <=> PlaceAt(now, d) <= MaxLag
<1> DEFINE p == PlaceAt(now, d)
           m == Minus(now, d)
<1>1. /\ p \in Tick /\ p \in {d - now + MaxLag - TickMod, d - now + MaxLag, d - now + MaxLag + TickMod}
      /\ p < HalfRange
  BY PlaceValue
<1>2. m = (IF now >= d THEN now - d ELSE now - d + TickMod) /\ m \in Tick
  BY MinusValue
<1> HIDE DEF p, m
<1>3. m < HalfRange <=> p <= MaxLag
  BY <1>1, <1>2, TimerFacts
<1> QED BY <1>3 DEF p, m

\* The next tick moves a timeout in the window one place nearer, unless it was the
\* oldest place: then it is overdue by more than the lag.
LEMMA PlaceTick ==
    ASSUME NEW now \in Tick, NEW d \in Tick, MaxLag \in Tick, MaxLag + MaxLag < HalfRange,
           NEW nxt \in Tick, nxt = (now + 1) % TickMod
    PROVE  /\ PlaceAt(now, d) > 0 => PlaceAt(nxt, d) = PlaceAt(now, d) - 1
           /\ PlaceAt(now, d) = 0 => Minus(nxt, d) = MaxLag + 1
<1> DEFINE p == PlaceAt(now, d)
           q == PlaceAt(nxt, d)
           m == Minus(nxt, d)
<1>1. /\ p \in Tick /\ p \in {d - now + MaxLag - TickMod, d - now + MaxLag, d - now + MaxLag + TickMod}
      /\ q \in Tick /\ q \in {d - nxt + MaxLag - TickMod, d - nxt + MaxLag, d - nxt + MaxLag + TickMod}
  BY PlaceValue
<1>2. m = (IF nxt >= d THEN nxt - d ELSE nxt - d + TickMod) /\ m \in Tick
  BY MinusValue
<1>3. nxt = IF now + 1 < TickMod THEN now + 1 ELSE now + 1 - TickMod
  <2>1. 1 \in Tick
    BY TimerFacts
  <2> QED BY <2>1, PlusValue
<1> HIDE DEF p, q, m
<1>4. (p > 0 => q = p - 1) /\ (p = 0 => m = MaxLag + 1)
  BY <1>1, <1>2, <1>3, TimerFacts
<1> QED BY <1>4 DEF p, q, m

\* A timer of the window in its list, behind those that are due no later.
LEMMA InsertedSorted ==
    ASSUME NEW ls, ListType(ls), NEW t \in Timer, NEW due \in Tick, NEW p \in [Timer -> Nat],
           tick \in Tick, MaxLag \in Tick, timeout \in [Timer -> Tick],
           p[t] = PlaceAt(tick, due), p[t] < HalfRange,
           \A u \in Timer : LinkedIn(ls, u) => p[u] = PlaceAt(tick, timeout[u]) /\ p[u] < HalfRange,
           \A k \in ListKind : Sorted(ls[k], p)
    PROVE  \A k \in ListKind : Sorted(Inserted(ls, t, due)[k], p)
<1> DEFINE l == ls[Kind(t)]
           n == Behind(l, due)
           Later(u) == Minus(timeout[u], due) # 0 /\ Minus(timeout[u], due) < HalfRange
<1>1. Kind(t) \in ListKind /\ DOMAIN ls = ListKind
  BY DEF Kind, ListKind, ListType
<1>2. l \in Seq(Timer) /\ Sorted(l, p) /\ \A j \in 1..Len(l) : LinkedIn(ls, l[j])
  <2>1. /\ Kind(t) = "hard" => l \in Seq(Hard)
        /\ Kind(t) = "soft" => l \in Seq(Soft)
    BY DEF ListType
  <2>2. Hard \subseteq Timer /\ Soft \subseteq Timer /\ (Kind(t) = "hard" \/ Kind(t) = "soft")
    BY TimerFacts DEF Kind
  <2>3. l \in Seq(Timer) /\ Sorted(l, p)
    BY <1>1, <2>1, <2>2
  <2>4. ASSUME NEW j \in 1..Len(l) PROVE Kind(l[j]) = Kind(t) /\ Contains(l, l[j])
    <3>1. Contains(l, l[j])
      BY DEF Contains
    <3>2. (Kind(t) = "hard" => l[j] \in Hard) /\ (Kind(t) = "soft" => l[j] \in Soft)
      BY <2>1
    <3>3. Kind(l[j]) = Kind(t)
      BY <2>2, <3>2, TimerFacts DEF Kind
    <3> QED BY <3>1, <3>3
  <2>5. ASSUME NEW j \in 1..Len(l) PROVE LinkedIn(ls, l[j])
    BY <2>4 DEF LinkedIn
  <2> QED BY <2>3, <2>5
<1>3. /\ n \in 1..(Len(l) + 1) /\ \A j \in 1..(n - 1) : ~Later(l[j])
      /\ n <= Len(l) => Later(l[n])
  BY <1>2, BehindFacts
<1>4. ASSUME NEW j \in 1..Len(l) PROVE Later(l[j]) <=> p[t] < p[l[j]]
  <2>1. l[j] \in Timer /\ timeout[l[j]] \in Tick
    BY <1>2
  <2>2. p[l[j]] = PlaceAt(tick, timeout[l[j]]) /\ p[l[j]] < HalfRange
    BY <1>2, <2>1
  <2> DEFINE e == timeout[l[j]]
  <2> HIDE DEF e
  <2>3. /\ PlaceAt(tick, due) <= PlaceAt(tick, e) <=> Minus(e, due) < HalfRange
        /\ PlaceAt(tick, due) = PlaceAt(tick, e) <=> Minus(e, due) = 0
        /\ PlaceAt(tick, due) \in Nat /\ PlaceAt(tick, e) \in Nat
    <3>1. e \in Tick /\ PlaceAt(tick, e) < HalfRange /\ PlaceAt(tick, due) < HalfRange
      BY <2>1, <2>2 DEF e
    <3> QED BY <3>1, PlaceOrder
  <2>4. Minus(e, due) # 0 /\ Minus(e, due) < HalfRange <=> PlaceAt(tick, due) < PlaceAt(tick, e)
    BY <2>3
  <2> QED BY <2>2, <2>4 DEF e
<1>5. Len(l) \in Nat /\ \A j \in 1..Len(l) : p[l[j]] \in Nat /\ p[t] \in Nat
  BY <1>2
<1>6. Inserted(ls, t, due) = [ls EXCEPT ![Kind(t)] = InsertAt(l, n, t)]
  BY DEF Inserted
<1> HIDE DEF n, Later, l
<1>7. /\ \A j \in 1..(n - 1) : p[l[j]] <= p[t]
      /\ n <= Len(l) => p[t] < p[l[n]]
  BY <1>3, <1>4, <1>5
<1>8. Sorted(InsertAt(l, n, t), p)
  BY <1>2, <1>3, <1>7, SortedInsertAt
<1> QED BY <1>1, <1>6, <1>8

\* The timeouts in use, and their places.
LEMMA PlaceFacts ==
    ASSUME TypeInv
    PROVE  /\ Place \in [Timer -> Tick] /\ Place \in [Timer -> Nat]
           /\ \A t \in Timer : Place[t] = PlaceAt(tick, timeout[t]) /\ Place[t] \in Nat
           /\ \A t \in Timer : MaxLag \in Tick /\ MaxLag + MaxLag < HalfRange
<1>1. ASSUME NEW t \in Timer PROVE MaxLag \in Tick /\ MaxLag + MaxLag < HalfRange
  <2>1. initTick[t] \in InitTicks[t]
    BY DEF TypeInv
  <2> QED BY <2>1, LagFacts
<1>2. ASSUME NEW t \in Timer PROVE PlaceAt(tick, timeout[t]) \in Tick
  <2>1. tick \in Tick /\ timeout[t] \in Tick
    BY DEF TypeInv
  <2> QED BY <1>1, <2>1, PlaceValue
<1>3. Tick \subseteq Nat
  BY TimerFacts
<1> QED BY <1>1, <1>2, <1>3 DEF Place

\* A step that only takes timers out of lists.
LEMMA WindowFrame ==
    ASSUME TypeInv, TypeInv', WindowInv, tick' = tick,
           list' = list \/ \E t \in Timer : list' = Removed(t),
           \A u \in Timer : LinkedIn(list', u) => LinkedIn(list, u) /\ timeout'[u] = timeout[u],
           \A b \in Actor : at'[b] = "insert" =>
                at[b] = "insert" /\ obj'[b] = obj[b] /\ obj[b] \in Timer /\ timeout'[obj[b]] = timeout[obj[b]]
    PROVE  WindowInv'
<1>1. /\ \A u \in Timer : Place[u] = PlaceAt(tick, timeout[u])
      /\ \A u \in Timer : Place'[u] = PlaceAt(tick', timeout'[u])
  <2>1. \A u \in Timer : Place[u] = PlaceAt(tick, timeout[u])
    BY PlaceFacts
  <2>2. Place' = [u \in Timer |-> PlaceAt(tick', timeout'[u])]
    BY DEF Place, PlaceAt, Minus
  <2> QED BY <2>1, <2>2
<1>2. \A u \in Timer : timeout'[u] = timeout[u] => Place'[u] = Place[u]
  BY <1>1
<1>3. ASSUME NEW k \in ListKind PROVE Sorted(list'[k], Place')
  <2>1. Sorted(list[k], Place) /\ list[k] \in Seq(Timer) /\ DOMAIN list = ListKind
    <3>1. Sorted(list[k], Place) /\ DOMAIN list = ListKind
      BY DEF WindowInv, TypeInv, ListType
    <3>2. list[k] \in Seq(Hard) \/ list[k] \in Seq(Soft)
      BY DEF TypeInv, ListType, ListKind
    <3>3. Hard \subseteq Timer /\ Soft \subseteq Timer
      BY TimerFacts
    <3> QED BY <3>1, <3>2, <3>3
  <2>2. Sorted(list'[k], Place)
    <3>1. CASE list' = list
      BY <2>1, <3>1
    <3>2. ASSUME NEW t \in Timer, list' = Removed(t) PROVE Sorted(list'[k], Place)
      <4>1. list'[k] = list[k] \/ list'[k] = rt_list_remove(list[k], t)
        BY <2>1, <3>2 DEF Removed
      <4>2. Sorted(rt_list_remove(list[k], t), Place)
        BY <2>1, SortedRemove
      <4> QED BY <2>1, <4>1, <4>2
    <3> QED BY <3>1, <3>2
  <2>3. \A u : Contains(list'[k], u) => Place'[u] = Place[u]
    <3> SUFFICES ASSUME NEW u, Contains(list'[k], u) PROVE Place'[u] = Place[u]
      OBVIOUS
    <3>1. (k = "hard" => u \in Hard) /\ (k = "soft" => u \in Soft) /\ (k = "hard" \/ k = "soft")
      BY DEF TypeInv, ListType, ListKind, Contains
    <3>2. u \in Timer /\ Kind(u) = k
      BY <3>1, TimerFacts DEF Kind
    <3>3. LinkedIn(list', u)
      BY <3>2 DEF LinkedIn
    <3> QED BY <1>2, <3>2, <3>3
  <2> HIDE DEF Place
  <2> QED BY <2>2, <2>3, SortedCongruence
<1>4. ASSUME NEW u \in Timer, LinkedIn(list', u) PROVE Place'[u] < HalfRange - MaxLag
  BY <1>2, <1>4 DEF WindowInv, Linked
<1>5. ASSUME NEW b \in Actor, at'[b] = "insert" PROVE Place'[obj'[b]] < HalfRange - MaxLag
  BY <1>2, <1>5 DEF WindowInv
<1> QED BY <1>3, <1>4, <1>5 DEF WindowInv, Linked, HalfRange, TickMax

\* A step that takes one timer out, which nobody is about to link.
LEMMA WindowTake ==
    ASSUME TimerInv, TimerInv', WindowInv, tick' = tick, NEW t \in Timer, list' = Removed(t),
           \A u \in Timer : u # t => timeout'[u] = timeout[u],
           \A b \in Actor : at'[b] = "insert" => at[b] = "insert" /\ obj'[b] = obj[b] /\ obj[b] # t
    PROVE  WindowInv'
<1>1. TypeInv /\ TypeInv' /\ CallInv
  BY DEF TimerInv
<1>2. \A u \in Timer : LinkedIn(list', u) => LinkedIn(list, u) /\ timeout'[u] = timeout[u]
  BY <1>1, RemovedFacts DEF TypeInv
<1>3. ASSUME NEW b \in Actor, at'[b] = "insert"
      PROVE  at[b] = "insert" /\ obj'[b] = obj[b] /\ obj[b] \in Timer /\ timeout'[obj[b]] = timeout[obj[b]]
  <2>1. at[b] = "insert" /\ obj'[b] = obj[b] /\ obj[b] # t
    BY <1>3
  <2>2. obj[b] \in Timer
    BY <1>1, <2>1 DEF TypeInv, CallInv, CallOK
  <2> QED BY <2>1, <2>2
<1> QED BY <1>1, <1>2, <1>3, WindowFrame

\* A step that leaves the lists alone.
LEMMA WindowQuiet ==
    ASSUME TimerInv, TimerInv', WindowInv, tick' = tick, list' = list,
           \A u \in Timer : Linked(u) => timeout'[u] = timeout[u],
           \A b \in Actor : at'[b] = "insert" =>
                at[b] = "insert" /\ obj'[b] = obj[b] /\ timeout'[obj[b]] = timeout[obj[b]]
    PROVE  WindowInv'
<1>1. TypeInv /\ TypeInv' /\ CallInv
  BY DEF TimerInv
<1>2. \A u \in Timer : LinkedIn(list', u) => LinkedIn(list, u) /\ timeout'[u] = timeout[u]
  BY DEF Linked
<1>3. ASSUME NEW b \in Actor, at'[b] = "insert"
      PROVE  at[b] = "insert" /\ obj'[b] = obj[b] /\ obj[b] \in Timer /\ timeout'[obj[b]] = timeout[obj[b]]
  <2>1. at[b] = "insert" /\ obj'[b] = obj[b] /\ timeout'[obj[b]] = timeout[obj[b]]
    BY <1>3
  <2>2. obj[b] \in Timer
    BY <1>1, <2>1 DEF TypeInv, CallInv, CallOK
  <2> QED BY <2>1, <2>2
<1> QED BY <1>1, <1>2, <1>3, WindowFrame

\* rt_timer_start and rt_timer_stop of a timer that no other call is on.
LEMMA WindowCalls ==
    ASSUME RulesKept, TimerInv, TimerInv', WindowInv, NEW a \in Actor, NEW t \in Timer, ThreadCall(a, t)
    PROVE  WindowInv'
<1>1. TypeInv /\ CallInv /\ FlagInv
  BY DEF TimerInv
<1>2. ASSUME rt_timer_start(a, t) PROVE WindowInv'
  <2>1. /\ list' = Removed(t) /\ timeout' = Forgotten(t) /\ tick' = tick
        /\ at' = [at EXCEPT ![a] = "start"] /\ obj' = [obj EXCEPT ![a] = t]
        /\ \A b \in Actor : obj[b] # t
    BY <1>2 DEF rt_timer_start, StartRemove, Go, clock, MayStart, MayUse, RulesKept
  <2>2. \A u \in Timer : u # t => timeout'[u] = timeout[u]
    BY <1>1, <2>1 DEF TypeInv, Forgotten
  <2>3. \A b \in Actor : at'[b] = "insert" => at[b] = "insert" /\ obj'[b] = obj[b] /\ obj[b] # t
    BY <1>1, <2>1 DEF TypeInv
  <2> QED BY <2>1, <2>2, <2>3, WindowTake
<1>3. ASSUME rt_timer_stop(a, t) PROVE WindowInv'
  <2>1. /\ UNCHANGED <<list, timeout, tick>> /\ at' = [at EXCEPT ![a] = "stop"]
        /\ obj' = [obj EXCEPT ![a] = t]
    BY <1>3 DEF rt_timer_stop, Go, clock, flags
  <2>3. \A b \in Actor : at'[b] = "insert" => at[b] = "insert" /\ obj'[b] = obj[b]
    BY <1>1, <2>1 DEF TypeInv
  <2> QED BY <2>1, <2>3, WindowQuiet
<1>4. ASSUME rt_timer_detach(a, t) PROVE WindowInv'
  <2>1. /\ list' = Removed(t) /\ timeout' = Forgotten(t) /\ UNCHANGED <<tick, at, obj>>
        /\ \A b \in Actor : obj[b] # t
    BY <1>4 DEF rt_timer_detach, clock, calls, MayDetach, MayUse, RulesKept
  <2>2. \A u \in Timer : u # t => timeout'[u] = timeout[u]
    BY <1>1, <2>1 DEF TypeInv, Forgotten
  <2> QED BY <2>1, <2>2, WindowTake
<1>5. ASSUME NEW i \in InitTicks[t], rt_timer_init(a, t, i) PROVE WindowInv'
  <2>1. /\ ~made[t] /\ timeout' = [timeout EXCEPT ![t] = 0] /\ UNCHANGED <<list, tick, at, obj>>
    BY <1>5 DEF rt_timer_init, clock, calls
  <2>2. \A u \in Timer : u # t => timeout'[u] = timeout[u]
    BY <1>1, <2>1 DEF TypeInv
  <2>3. ~Linked(t)
    BY <1>1, <2>1 DEF FlagInv
  <2>4. \A b \in Actor : at[b] = "insert" => obj[b] \in Timer /\ obj[b] # t
    BY <1>1, <2>1 DEF TypeInv, CallInv, CallOK
  <2> QED BY <2>1, <2>2, <2>3, <2>4, WindowQuiet
<1>6. ASSUME NEW i \in InitTicks[t], rt_timer_control(a, t, i) PROVE WindowInv'
  <2>1. UNCHANGED <<list, timeout, tick, at, obj>>
    BY <1>6 DEF rt_timer_control, clock, calls
  <2> QED BY <2>1, WindowQuiet
<1> QED BY <1>2, <1>3, <1>4, <1>5, <1>6 DEF ThreadCall

\* The place of a timer before and after a step.
LEMMA PlacePrimed ==
    ASSUME TypeInv, TypeInv', tick' = tick
    PROVE  /\ Place' \in [Timer -> Nat]
           /\ \A u \in Timer : Place'[u] = PlaceAt(tick, timeout'[u])
           /\ \A u \in Timer : timeout'[u] = timeout[u] => Place'[u] = Place[u]
<1>1. Place' = [u \in Timer |-> PlaceAt(tick, timeout'[u])]
  BY DEF Place, PlaceAt, Minus
<1>2. \A u \in Timer : Place[u] = PlaceAt(tick, timeout[u]) /\ MaxLag \in Tick
  BY PlaceFacts
<1>3. ASSUME NEW u \in Timer PROVE PlaceAt(tick, timeout'[u]) \in Nat
  <2>1. tick \in Tick /\ timeout'[u] \in Tick /\ MaxLag \in Tick
    BY <1>2 DEF TypeInv
  <2>2. PlaceAt(tick, timeout'[u]) \in Tick
    BY <2>1, PlaceValue
  <2> QED BY <2>2, TimerFacts
<1> QED BY <1>1, <1>2, <1>3

\* The timeout of a start that is under way lies in the window.
LEMMA WindowStartTick ==
    ASSUME TimerInv, TimerInv', WindowInv, NEW a \in Actor, StartTick(a)
    PROVE  WindowInv'
<1> DEFINE t == obj[a]
<1>1. /\ TypeInv /\ TypeInv' /\ ThreadInv /\ CallInv /\ Runs(a) /\ at[a] = "start"
      /\ timeout' = [timeout EXCEPT ![t] = Due(t)] /\ at' = [at EXCEPT ![a] = "insert"]
      /\ UNCHANGED <<tick, list, obj>>
  BY DEF TimerInv, StartTick, At_, Go, clock
<1>2. t \in Timer /\ ~Linked(t) /\ tick \in Tick /\ initTick[t] \in InitTicks[t]
  BY <1>1 DEF TypeInv, CallInv, CallOK
<1>3. \A b \in Actor : at[b] = "insert" => obj[b] \in Timer
  BY <1>1 DEF TypeInv, CallInv, CallOK
<1> HIDE DEF t
<1>4. /\ timeout'[t] = Due(t) /\ \A u \in Timer : u # t => timeout'[u] = timeout[u]
  BY <1>1, <1>2 DEF TypeInv
<1>5. Place'[t] < HalfRange - MaxLag /\ \A u \in Timer : u # t => Place'[u] = Place[u]
  <2>1. Place'[t] = PlaceAt(tick, timeout'[t]) /\ \A u \in Timer : timeout'[u] = timeout[u] => Place'[u] = Place[u]
    BY <1>1, <1>2, PlacePrimed
  <2>2. PlaceAt(tick, Due(t)) < HalfRange - MaxLag
    BY <1>2, PlaceDue
  <2> QED BY <1>4, <2>1, <2>2
<1>6. ASSUME NEW u \in Timer, LinkedIn(list', u) PROVE Place'[u] < HalfRange - MaxLag
  <2>1. Linked(u)
    BY <1>1, <1>6 DEF Linked
  <2> QED BY <1>2, <1>5, <2>1 DEF WindowInv
<1>7. ASSUME NEW b \in Actor, at'[b] = "insert" PROVE Place'[obj'[b]] < HalfRange - MaxLag
  <2>1. CASE obj[b] = t
    BY <1>1, <1>5, <2>1
  <2>2. CASE obj[b] # t
    <3>1. b # a
      BY <2>2 DEF t
    <3>2. at[b] = "insert" /\ obj'[b] = obj[b]
      BY <1>1, <1>7, <3>1 DEF TypeInv
    <3> QED BY <1>3, <1>5, <2>2, <3>2 DEF WindowInv
  <2> QED BY <2>1, <2>2
<1>8. ASSUME NEW k \in ListKind PROVE Sorted(list'[k], Place')
  <2>1. Sorted(list[k], Place)
    BY DEF WindowInv
  <2>2. ASSUME NEW u, Contains(list[k], u) PROVE Place'[u] = Place[u]
    <3>1. (k = "hard" => u \in Hard) /\ (k = "soft" => u \in Soft) /\ (k = "hard" \/ k = "soft")
      BY <1>1, <2>2 DEF TypeInv, ListType, ListKind, Contains
    <3>2. u \in Timer /\ Kind(u) = k
      BY <3>1, TimerFacts DEF Kind
    <3>3. Linked(u)
      BY <2>2, <3>2 DEF Linked, LinkedIn
    <3> QED BY <1>2, <1>5, <3>2, <3>3
  <2> HIDE DEF Place
  <2>3. Sorted(list[k], Place')
    BY <2>1, <2>2, SortedCongruence
  <2> QED BY <1>1, <2>3
<1> QED BY <1>6, <1>7, <1>8 DEF WindowInv, Linked, HalfRange, TickMax

\* The linking of a timer keeps its list in order.
LEMMA WindowStartInsert ==
    ASSUME TimerInv, TimerInv', WindowInv, NEW a \in Actor, StartInsert(a)
    PROVE  WindowInv'
<1> DEFINE t == obj[a]
           due == timeout[t]
<1>1. /\ TypeInv /\ TypeInv' /\ CallInv /\ at[a] = "insert" /\ list' = Inserted(list, t, due)
      /\ \/ at' = [at EXCEPT ![a] = "test"] /\ obj' = obj
         \/ at' = [at EXCEPT ![a] = "app"] /\ obj' = [obj EXCEPT ![a] = NoTimer]
      /\ UNCHANGED <<tick, timeout>>
  BY DEF TimerInv, StartInsert, At_, Go, Leave, clock
<1>2. t \in Timer /\ ~LinkedIn(list, t) /\ tick \in Tick /\ due \in Tick /\ timeout \in [Timer -> Tick] /\ ListType(list)
  BY <1>1 DEF TypeInv, CallInv, CallOK, Linked
<1>3. \A b \in Actor : at'[b] = "insert" => at[b] = "insert" /\ obj'[b] = obj[b]
  BY <1>1 DEF TypeInv
<1>4. Place[t] < HalfRange - MaxLag
  BY <1>1 DEF WindowInv
<1> HIDE DEF t, due
<1>5. Place' = Place
  <2>1. Place' = [u \in Timer |-> PlaceAt(tick', timeout'[u])]
    BY DEF Place, PlaceAt, Minus
  <2> QED BY <1>1, <2>1 DEF Place
<1>6. /\ Place \in [Timer -> Nat] /\ MaxLag \in Tick /\ MaxLag \in Nat /\ HalfRange \in Nat
      /\ \A u \in Timer : Place[u] = PlaceAt(tick, timeout[u])
      /\ Place[t] = PlaceAt(tick, due)
  <2>1. timeout[t] = due
    BY DEF due, t
  <2> QED BY <1>1, <1>2, <2>1, PlaceFacts, TimerFacts
<1>7. \A u \in Timer : LinkedIn(list, u) => Place[u] < HalfRange - MaxLag
  BY DEF WindowInv, Linked
<1>8. \A k \in ListKind : Sorted(list[k], Place)
  BY DEF WindowInv
<1> HIDE DEF Place
<1>9. Place[t] < HalfRange /\ \A u \in Timer : LinkedIn(list, u) => Place[u] < HalfRange
  BY <1>2, <1>4, <1>6, <1>7
<1>10. \A k \in ListKind : Sorted(list'[k], Place)
  BY <1>1, <1>2, <1>6, <1>8, <1>9, InsertedSorted
<1>11. \A u \in Timer : LinkedIn(list', u) <=> LinkedIn(list, u) \/ u = t
  BY <1>1, <1>2, InsertedFacts
<1>12. ASSUME NEW u \in Timer, LinkedIn(list', u) PROVE Place'[u] < HalfRange - MaxLag
  BY <1>4, <1>5, <1>7, <1>11, <1>12
<1>13. ASSUME NEW b \in Actor, at'[b] = "insert" PROVE Place'[obj'[b]] < HalfRange - MaxLag
  BY <1>3, <1>5, <1>13 DEF WindowInv
<1> QED BY <1>5, <1>10, <1>12, <1>13 DEF WindowInv, Linked, HalfRange, TickMax

\* The other sections of rt_timer_start and rt_timer_stop.
LEMMA WindowCallStep ==
    ASSUME TimerInv, TimerInv', WindowInv, NEW a \in Actor, CallStep(a)
    PROVE  WindowInv'
<1>1. TypeInv /\ ThreadInv /\ CallInv
  BY DEF TimerInv
<1>2. ASSUME StartTest(a) \/ StartResume(a) \/ ResumeUnlink(a) \/ ResumeEnqueue(a) \/ StopFlag(a) PROVE WindowInv'
  <2>1. /\ UNCHANGED <<tick, list, timeout>>
        /\ \/ at' = [at EXCEPT ![a] = "app"] /\ obj' = [obj EXCEPT ![a] = NoTimer]
           \/ (\E l \in Waking : at' = [at EXCEPT ![a] = l]) /\ obj' = obj
    BY <1>2 DEF StartTest, StartResume, ResumeUnlink, ResumeEnqueue, StopFlag, Go, Leave, clock, flags
  <2>2. \A b \in Actor : at'[b] = "insert" => at[b] = "insert" /\ obj'[b] = obj[b]
    BY <1>1, <2>1 DEF TypeInv
  <2> QED BY <2>1, <2>2, WindowQuiet
<1>3. ASSUME StopRemove(a) PROVE WindowInv'
  <2> DEFINE t == obj[a]
  <2>1. /\ Runs(a) /\ at[a] = "stop" /\ list' = Removed(t) /\ timeout' = Forgotten(t)
        /\ at' = [at EXCEPT ![a] = "stopped"] /\ UNCHANGED <<tick, obj>>
    BY <1>3 DEF StopRemove, At_, Go, clock
  <2>2. t \in Timer /\ (t \in Soft => a \in Low \cup {TimerThread}) /\ (a = TimerThread => pc = "callback")
    BY <1>1, <2>1 DEF TypeInv, ThreadInv, CallInv, CallOK
  <2>3. \A b \in Actor : b # a => obj[b] # t
    BY <1>1, <2>1, <2>2, TimerFacts DEF TypeInv, ThreadInv, CallInv, CallOK, Runs
  <2>4. \A b \in Actor : at'[b] = "insert" => at[b] = "insert" /\ obj'[b] = obj[b] /\ obj[b] # t
    BY <1>1, <2>1, <2>3 DEF TypeInv
  <2> HIDE DEF t
  <2>5. \A u \in Timer : u # t => timeout'[u] = timeout[u]
    BY <1>1, <2>1, <2>2 DEF TypeInv, Forgotten
  <2> QED BY <2>1, <2>2, <2>4, <2>5, WindowTake
<1> QED BY <1>2, <1>3, WindowStartTick, WindowStartInsert DEF CallStep

\* rt_timer_start in an interrupt handler.
LEMMA WindowAtOnce ==
    ASSUME TimerInv, TimerInv', WindowInv, NEW t \in Timer, StartAtOnce(t), UNCHANGED <<tick, at, obj>>,
           \A b \in Actor : at[b] = "insert" => obj[b] # t
    PROVE  WindowInv'
<1>1. TypeInv /\ TypeInv' /\ CallInv /\ tick \in Tick /\ initTick[t] \in InitTicks[t]
      /\ timeout \in [Timer -> Tick] /\ ListType(list)
  BY DEF TimerInv, TypeInv
<1> DEFINE due == Due(t)
           ls == Removed(t)
<1>2. /\ list' = Inserted(ls, t, due) /\ timeout' = [timeout EXCEPT ![t] = due] /\ due \in Tick
      /\ \A u \in Timer : LinkedIn(list', u) <=> LinkedIn(list, u) \/ u = t
  <2>1. list' = Inserted(ls, t, due)
    BY DEF StartAtOnce
  <2> QED BY <1>1, <2>1, StartAtOnceFacts
<1>3. /\ ListType(ls) /\ \A u \in Timer : LinkedIn(ls, u) <=> LinkedIn(list, u) /\ u # t
  BY <1>1, RemovedFacts
<1>4. Removed(t) = [list EXCEPT ![Kind(t)] = rt_list_remove(list[Kind(t)], t)] /\ ls = Removed(t)
  BY DEF Removed
<1>5. PlaceAt(tick, due) < HalfRange - MaxLag
  BY <1>1, PlaceDue
<1> HIDE DEF due, ls
<1>6. timeout'[t] = due /\ \A u \in Timer : u # t => timeout'[u] = timeout[u]
  BY <1>1, <1>2
<1>7. /\ Place' \in [Timer -> Nat] /\ Place'[t] = PlaceAt(tick, due)
      /\ \A u \in Timer : u # t => Place'[u] = Place[u] /\ Place[u] = PlaceAt(tick, timeout[u])
      /\ MaxLag \in Tick /\ MaxLag \in Nat /\ HalfRange \in Nat
  BY <1>1, <1>6, PlacePrimed, PlaceFacts, TimerFacts
<1>8. \A u \in Timer : LinkedIn(list, u) => Place[u] < HalfRange - MaxLag
  BY DEF WindowInv, Linked
<1>9. ASSUME NEW k \in ListKind PROVE Sorted(ls[k], Place')
  <2>1. Sorted(list[k], Place) /\ list[k] \in Seq(Timer) /\ DOMAIN list = ListKind
    <3>1. Sorted(list[k], Place) /\ DOMAIN list = ListKind
      BY <1>1 DEF WindowInv, ListType
    <3>2. list[k] \in Seq(Hard) \/ list[k] \in Seq(Soft)
      BY <1>1 DEF ListType, ListKind
    <3>3. Hard \subseteq Timer /\ Soft \subseteq Timer
      BY TimerFacts
    <3> QED BY <3>1, <3>2, <3>3
  <2>2. ls[k] = list[k] \/ ls[k] = rt_list_remove(list[k], t)
    BY <1>4, <2>1
  <2>3. Sorted(rt_list_remove(list[k], t), Place)
    BY <2>1, SortedRemove
  <2>4. Sorted(ls[k], Place)
    BY <2>1, <2>2, <2>3
  <2>5. ASSUME NEW u, Contains(ls[k], u) PROVE Place'[u] = Place[u]
    <3>1. (k = "hard" => u \in Hard) /\ (k = "soft" => u \in Soft) /\ (k = "hard" \/ k = "soft")
      BY <1>3, <2>5 DEF ListType, ListKind, Contains
    <3>2. u \in Timer /\ Kind(u) = k
      BY <3>1, TimerFacts DEF Kind
    <3>3. LinkedIn(ls, u)
      BY <2>5, <3>2 DEF LinkedIn
    <3> QED BY <1>3, <1>7, <3>2, <3>3
  <2> HIDE DEF Place
  <2> QED BY <2>4, <2>5, SortedCongruence
<1> DEFINE p == Place'
<1>10. /\ p \in [Timer -> Nat] /\ p[t] = PlaceAt(tick, due) /\ p[t] < HalfRange
       /\ \A u \in Timer : LinkedIn(ls, u) => p[u] = PlaceAt(tick, timeout[u]) /\ p[u] < HalfRange
  <2> HIDE DEF Place
  <2>1. \A u \in Timer : LinkedIn(ls, u) => Place'[u] = PlaceAt(tick, timeout[u]) /\ Place'[u] < HalfRange - MaxLag
    BY <1>3, <1>7, <1>8
  <2>2. \A u \in Timer : Place'[u] \in Nat
    BY <1>7
  <2> QED BY <1>5, <1>7, <2>1, <2>2
<1>11. \A k \in ListKind : Sorted(ls[k], p)
  BY <1>9
<1> HIDE DEF p
<1>12. \A k \in ListKind : Sorted(Inserted(ls, t, due)[k], p)
  BY <1>1, <1>2, <1>3, <1>7, <1>10, <1>11, InsertedSorted
<1>13. \A k \in ListKind : Sorted(list'[k], Place')
  BY <1>2, <1>12 DEF p
<1>14. ASSUME NEW u \in Timer, LinkedIn(list', u) PROVE Place'[u] < HalfRange - MaxLag
  <2> HIDE DEF Place
  <2> QED BY <1>2, <1>5, <1>7, <1>8, <1>14
<1>15. ASSUME NEW b \in Actor, at'[b] = "insert" PROVE Place'[obj'[b]] < HalfRange - MaxLag
  <2>1. at[b] = "insert" /\ obj'[b] = obj[b] /\ obj[b] # t
    BY <1>15
  <2>2. obj[b] \in Timer
    BY <1>1, <2>1 DEF TypeInv, CallInv, CallOK
  <2>3. Place[obj[b]] < HalfRange - MaxLag
    BY <2>1 DEF WindowInv
  <2> HIDE DEF Place
  <2> QED BY <1>7, <2>1, <2>2, <2>3
<1> QED BY <1>13, <1>14, <1>15 DEF WindowInv, Linked, HalfRange, TickMax

\* What interrupt handlers do with a timer that no call is on.
LEMMA WindowHandler ==
    ASSUME RulesKept, TimerInv, TimerInv', WindowInv, NEW t \in Timer,
           HandlerStart(t) \/ HandlerStop(t), UNCHANGED <<tick, at, obj>>
    PROVE  WindowInv'
<1>1. TypeInv /\ \A b \in Actor : obj[b] # t
  BY DEF TimerInv, HandlerStart, HandlerStop, MayStart, MayUse, RulesKept
<1>2. CASE HandlerStart(t)
  <2>1. StartAtOnce(t)
    BY <1>2 DEF HandlerStart
  <2> QED BY <1>1, <2>1, WindowAtOnce
<1>3. CASE HandlerStop(t)
  <2>1. list' = Removed(t) /\ timeout' = Forgotten(t)
    BY <1>3 DEF HandlerStop
  <2>2. \A u \in Timer : u # t => timeout'[u] = timeout[u]
    BY <1>1, <2>1 DEF TypeInv, Forgotten
  <2> QED BY <1>1, <2>1, <2>2, WindowTake
<1> QED BY <1>2, <1>3

\* rt_timer_check, and drivers' interrupt handlers.
LEMMA WindowCheck ==
    ASSUME RulesKept, TimerInv, TimerInv', WindowInv,
           CheckFirst \/ CheckDone \/ CheckCallback \/ CheckAfter \/ \E t \in Timer : DriverInterrupt(t)
    PROVE  WindowInv'
<1>1. TypeInv /\ ThreadInv /\ CallInv /\ FlagInv
  BY DEF TimerInv
<1>2. CASE CheckFirst
  <2> DEFINE t == Head(list["hard"])
  <2>1. list["hard"] # <<>> /\ list' = Removed(t) /\ timeout' = Forgotten(t) /\ UNCHANGED <<tick, at, obj>>
    BY <1>2 DEF CheckFirst, HardDue, calls
  <2>2. list["hard"] \in Seq(Hard) /\ Distinct(list["hard"])
    BY <1>1 DEF TypeInv, ListType, ListKind
  <2>3. t \in Hard /\ Contains(list["hard"], t)
    BY <2>1, <2>2, ListTail
  <2> HIDE DEF t
  <2>4. t \in Timer /\ Linked(t)
    BY <2>3, TimerFacts DEF Linked, LinkedIn, Kind
  <2>5. \A u \in Timer : u # t => timeout'[u] = timeout[u]
    BY <1>1, <2>1 DEF TypeInv, Forgotten
  <2>6. \A b \in Actor : at[b] = "insert" => obj[b] # t
    BY <1>1, <2>4 DEF CallInv, CallOK
  <2> QED BY <2>1, <2>4, <2>5, <2>6, WindowTake
<1>3. CASE CheckDone
  <2>1. UNCHANGED <<tick, list, timeout, at, obj>>
    BY <1>3 DEF CheckDone, flags, calls
  <2> QED BY <2>1, WindowQuiet
<1>4. CASE CheckCallback
  <2>1. UNCHANGED <<tick, at, obj>>
    BY <1>4 DEF CheckCallback, calls
  <2>2. CASE \E t \in Timer : HandlerStart(t) \/ HandlerStop(t)
    BY <2>1, <2>2, WindowHandler
  <2>3. CASE UNCHANGED <<flags, list, ready, wake, started>>
    <3>1. UNCHANGED <<list, timeout>>
      BY <2>3 DEF flags
    <3> QED BY <2>1, <3>1, WindowQuiet
  <2> QED BY <1>4, <2>2, <2>3 DEF CheckCallback
<1>5. CASE CheckAfter
  <2>1. /\ isr = "after" /\ UNCHANGED <<tick, at, obj>>
        /\ StartAtOnce(isrTimer) \/ UNCHANGED <<timeout, list>>
    BY <1>5 DEF CheckAfter, calls
  <2>2. isrTimer \in Hard /\ isrTimer \in Timer
    BY <1>1, <2>1, TimerFacts DEF ThreadInv
  <2>3. \A b \in Actor : at[b] = "insert" => obj[b] # isrTimer
    BY <1>1, <2>2 DEF CallInv, CallOK
  <2>4. CASE StartAtOnce(isrTimer)
    BY <2>1, <2>2, <2>3, <2>4, WindowAtOnce
  <2>5. CASE UNCHANGED <<timeout, list>>
    BY <2>1, <2>5, WindowQuiet
  <2> QED BY <2>1, <2>4, <2>5
<1>6. CASE \E t \in Timer : DriverInterrupt(t)
  <2>1. PICK t \in Timer : DriverInterrupt(t)
    BY <1>6
  <2>2. (HandlerStart(t) \/ HandlerStop(t)) /\ UNCHANGED <<tick, at, obj>>
    BY <2>1 DEF DriverInterrupt, clock, calls
  <2> QED BY <2>2, WindowHandler
<1> QED BY <1>2, <1>3, <1>4, <1>5, <1>6

\* The timer thread takes timers out and starts them again through rt_timer_start.
LEMMA WindowThread ==
    ASSUME TimerInv, TimerInv', WindowInv, ThreadStep
    PROVE  WindowInv'
<1>1. TypeInv /\ ThreadInv /\ CallInv
  BY DEF TimerInv
<1>2. CASE SoftFirst
  <2>1. /\ pc = "check" /\ node # Head_ /\ list' = Removed(node) /\ UNCHANGED <<tick, at, obj>>
        /\ timeout' = [timeout EXCEPT ![node] = 0] \/ timeout' = timeout
    BY <1>2 DEF SoftFirst, SoftDue, Thread_, clock, calls
  <2>2. node \in Timer /\ Linked(node)
    BY <1>1, <2>1, TimerFacts DEF TypeInv, ThreadInv
  <2>3. \A u \in Timer : u # node => timeout'[u] = timeout[u]
    BY <1>1, <2>1 DEF TypeInv
  <2>4. \A b \in Actor : at[b] = "insert" => obj[b] # node
    BY <1>1, <2>2 DEF CallInv, CallOK
  <2> QED BY <2>1, <2>2, <2>3, <2>4, WindowTake
<1>3. CASE SoftRestart
  <2>1. /\ pc = "after" /\ list' = Removed(fires) /\ timeout' = Forgotten(fires) /\ tick' = tick
        /\ at' = [at EXCEPT ![TimerThread] = "start"] /\ obj' = [obj EXCEPT ![TimerThread] = fires]
    BY <1>3 DEF SoftRestart, StartRemove, Go, Thread_, clock
  <2>2. fires \in Timer
    BY <1>1, <2>1, TimerFacts DEF ThreadInv
  <2>3. \A u \in Timer : u # fires => timeout'[u] = timeout[u]
    BY <1>1, <2>1 DEF TypeInv, Forgotten
  <2>4. \A b \in Actor : at'[b] = "insert" => at[b] = "insert" /\ obj'[b] = obj[b] /\ obj[b] # fires
    BY <1>1, <2>1, <2>2, TimerFacts DEF TypeInv, CallInv
  <2> QED BY <2>1, <2>2, <2>3, <2>4, WindowTake
<1>4. ASSUME ~SoftFirst, ~SoftRestart PROVE UNCHANGED <<tick, list, timeout, at, obj>>
  BY <1>4 DEF ThreadStep, ReadNext, SuspendTimerThread, ReadTick, Delay, CheckBegin, CheckEnter, SoftDone, CallbackReturn,
     SoftRestarted, SoftStop, clock, flags, calls
<1> QED BY <1>2, <1>3, <1>4, WindowQuiet

\* A tick moves the window over the timeouts in use: none of them is left behind,
\* as nothing is overdue by more than the lag.
LEMMA WindowTick ==
    ASSUME TimerInv, TimerInv', WindowInv, rt_tick_increase
    PROVE  WindowInv'
<1> DEFINE now == (tick + 1) % TickMod
<1>1. /\ TypeInv /\ CallInv /\ InTime(now) /\ tick' = now /\ UNCHANGED <<list, timeout, at, obj>>
      /\ TypeInv'
  BY DEF TimerInv, rt_tick_increase, flags, calls
<1>2. tick \in Tick /\ now \in Tick /\ timeout \in [Timer -> Tick]
  BY <1>1 DEF TypeInv
<1>3. Place' = [u \in Timer |-> PlaceAt(now, timeout[u])]
  <2>1. Place' = [u \in Timer |-> PlaceAt(tick', timeout'[u])]
    BY DEF Place, PlaceAt, Minus
  <2> HIDE DEF now
  <2> QED BY <1>1, <2>1
<1>4. ASSUME NEW u \in Timer, Expired(now, u) => Minus(now, timeout[u]) <= MaxLag
      PROVE  Place[u] > 0 /\ Place'[u] = Place[u] - 1 /\ Place[u] \in Nat
  <2>1. /\ MaxLag \in Tick /\ MaxLag + MaxLag < HalfRange /\ Place[u] \in Nat
        /\ Place[u] = PlaceAt(tick, timeout[u])
    BY <1>1, PlaceFacts
  <2>2. timeout[u] \in Tick
    BY <1>2
  <2>3. /\ PlaceAt(tick, timeout[u]) > 0 => PlaceAt(now, timeout[u]) = PlaceAt(tick, timeout[u]) - 1
        /\ PlaceAt(tick, timeout[u]) = 0 => Minus(now, timeout[u]) = MaxLag + 1
    BY <1>2, <2>1, <2>2, PlaceTick
  <2>4. Place'[u] = PlaceAt(now, timeout[u])
    BY <1>3
  <2>5. Minus(now, timeout[u]) = MaxLag + 1 => ~(Minus(now, timeout[u]) <= MaxLag) /\ Minus(now, timeout[u]) < HalfRange
    BY <2>1, TimerFacts
  <2>6. Minus(now, timeout[u]) # MaxLag + 1
    BY <1>4, <2>5 DEF Expired
  <2> HIDE DEF now, Place
  <2> QED BY <2>1, <2>3, <2>4, <2>6
<1>5. ASSUME NEW u \in Timer, Linked(u) PROVE Place[u] > 0 /\ Place'[u] = Place[u] - 1 /\ Place[u] \in Nat
  <2>1. Expired(now, u) => Minus(now, timeout[u]) <= MaxLag
    BY <1>1, <1>5 DEF InTime
  <2> QED BY <1>4, <2>1
<1>6. ASSUME NEW b \in Actor, at[b] = "insert"
      PROVE  obj[b] \in Timer /\ Place'[obj[b]] = Place[obj[b]] - 1 /\ Place[obj[b]] \in Nat
  <2>1. obj[b] \in Timer
    BY <1>1, <1>6 DEF TypeInv, CallInv, CallOK
  <2>2. Expired(now, obj[b]) => Minus(now, timeout[obj[b]]) <= MaxLag
    BY <1>1, <1>6 DEF InTime
  <2> QED BY <1>4, <2>1, <2>2
<1> HIDE DEF now
<1>7. ASSUME NEW u \in Timer, LinkedIn(list', u) PROVE Place'[u] < HalfRange - MaxLag
  <2>1. Linked(u)
    BY <1>1, <1>7 DEF Linked
  <2>2. Place[u] < HalfRange - MaxLag
    BY <2>1 DEF WindowInv
  <2> HIDE DEF Place
  <2> QED BY <1>5, <2>1, <2>2, TimerFacts
<1>8. ASSUME NEW b \in Actor, at'[b] = "insert" PROVE Place'[obj'[b]] < HalfRange - MaxLag
  <2>1. at[b] = "insert" /\ obj'[b] = obj[b]
    BY <1>1, <1>8
  <2>2. Place[obj[b]] < HalfRange - MaxLag
    BY <2>1 DEF WindowInv
  <2> HIDE DEF Place
  <2> QED BY <1>6, <2>1, <2>2, TimerFacts
<1>9. ASSUME NEW k \in ListKind PROVE Sorted(list'[k], Place')
  <2>1. Sorted(list[k], Place)
    BY DEF WindowInv
  <2>2. ASSUME NEW u, Contains(list[k], u) PROVE Place'[u] = Place[u] - 1 /\ Place[u] \in Nat
    <3>1. (k = "hard" => u \in Hard) /\ (k = "soft" => u \in Soft) /\ (k = "hard" \/ k = "soft")
      BY <1>1, <2>2 DEF TypeInv, ListType, ListKind, Contains
    <3>2. u \in Timer /\ Kind(u) = k
      BY <3>1, TimerFacts DEF Kind
    <3>3. Linked(u)
      BY <2>2, <3>2 DEF Linked, LinkedIn
    <3> QED BY <1>5, <3>2, <3>3
  <2> HIDE DEF Place
  <2>3. ASSUME NEW i \in 1..Len(list[k]), NEW j \in 1..Len(list[k]), i <= j
        PROVE  Place'[list[k][i]] <= Place'[list[k][j]]
    <3>1. Contains(list[k], list[k][i]) /\ Contains(list[k], list[k][j])
      BY DEF Contains
    <3>2. /\ Place'[list[k][i]] = Place[list[k][i]] - 1 /\ Place[list[k][i]] \in Nat
          /\ Place'[list[k][j]] = Place[list[k][j]] - 1 /\ Place[list[k][j]] \in Nat
      BY <2>2, <3>1
    <3>3. Place[list[k][i]] <= Place[list[k][j]]
      BY <2>1, <2>3 DEF Sorted
    <3> QED BY <3>2, <3>3
  <2>4. Sorted(list[k], Place')
    BY <2>3 DEF Sorted
  <2> QED BY <1>1, <2>4
<1> QED BY <1>7, <1>8, <1>9 DEF WindowInv, Linked, HalfRange, TickMax

\* The whole invariant of the timers.
LEMMA WindowNextInv ==
    ASSUME RulesKept, TimerInv, WindowInv, [TimerNext]_vars
    PROVE  TimerInv' /\ WindowInv'
<1>1. TimerInv'
  BY TimerNextInv
<1>2. CASE UNCHANGED vars
  <2>1. UNCHANGED <<tick, list, timeout, at, obj>>
    BY <1>2 DEF vars, clock, flags, calls
  <2> QED BY <1>1, <2>1, WindowQuiet
<1>3. CASE TimerNext
  <2>1. ASSUME NEW a \in Actor, CallStep(a) PROVE WindowInv'
    BY <1>1, <2>1, WindowCallStep
  <2>2. ASSUME NEW a \in Actor, NEW t \in Timer, ThreadCall(a, t) PROVE WindowInv'
    BY <1>1, <2>2, WindowCalls
  <2> QED BY <1>1, <1>3, <2>1, <2>2, WindowThread, WindowTick, WindowCheck DEF TimerNext, Interrupt
<1> QED BY <1>1, <1>2, <1>3

\* TimerInv and the window form an invariant.
THEOREM WindowInvariant == ASSUME RulesKept PROVE TimerSpec => [](TimerInv /\ WindowInv)
<1>1. TimerInit => TimerInv /\ WindowInv
  <2> SUFFICES ASSUME TimerInit PROVE TimerInv /\ WindowInv
    OBVIOUS
  <2>1. \A k \in ListKind : list[k] = <<>>
    BY DEF TimerInit, ListKind
  <2>2. \A t \in Timer : ~Linked(t)
    BY <2>1 DEF Linked, LinkedIn, Kind, ListKind, Contains
  <2>3. \A k \in ListKind : Sorted(list[k], Place)
    BY <2>1 DEF Sorted
  <2>4. \A a \in Actor : at[a] # "insert"
    BY DEF TimerInit
  <2> QED BY <2>2, <2>3, <2>4, TimerInitInv DEF WindowInv
<1>2. TimerInv /\ WindowInv /\ [TimerNext]_vars => (TimerInv /\ WindowInv)'
  BY WindowNextInv
<1> QED BY <1>1, <1>2, PTL DEF TimerSpec

\* Both lists are in the order of their timeouts, across the wrap of the tick count
\* and whatever interrupts a start between its reading of the tick and its linking.
THEOREM TimerOrder == ASSUME RulesKept PROVE TimerSpec => []ListsOrdered
<1>1. TimerInv /\ WindowInv => ListsOrdered
  <2> SUFFICES ASSUME TimerInv, WindowInv, NEW k \in ListKind
               PROVE  /\ Distinct(list[k])
                      /\ \A i, j \in 1..Len(list[k]) :
                           i < j => Minus(timeout[list[k][j]], timeout[list[k][i]]) < HalfRange
    BY DEF ListsOrdered, ListKind
  <2>1. TypeInv
    BY DEF TimerInv
  <2>2. ASSUME NEW i \in 1..Len(list[k])
        PROVE  /\ list[k][i] \in Timer /\ Linked(list[k][i]) /\ timeout[list[k][i]] \in Tick
               /\ tick \in Tick /\ MaxLag \in Tick /\ Place[list[k][i]] = PlaceAt(tick, timeout[list[k][i]])
               /\ PlaceAt(tick, timeout[list[k][i]]) < HalfRange
    <3> DEFINE u == list[k][i]
    <3>1. Contains(list[k], u)
      BY DEF Contains
    <3>2. (k = "hard" => u \in Hard) /\ (k = "soft" => u \in Soft) /\ (k = "hard" \/ k = "soft")
      BY <2>1, <3>1 DEF TypeInv, ListType, ListKind, Contains
    <3> HIDE DEF u
    <3>3. u \in Timer /\ Kind(u) = k
      BY <3>2, TimerFacts DEF Kind
    <3>4. Linked(u)
      BY <3>1, <3>3 DEF Linked, LinkedIn
    <3>5. tick \in Tick /\ timeout[u] \in Tick
      BY <2>1, <3>3 DEF TypeInv
    <3>6. MaxLag \in Tick /\ Place[u] \in Nat /\ Place[u] = PlaceAt(tick, timeout[u])
      BY <2>1, <3>3, PlaceFacts
    <3>7. Place[u] < HalfRange - MaxLag
      BY <3>3, <3>4 DEF WindowInv
    <3>8. PlaceAt(tick, timeout[u]) < HalfRange
      <4> HIDE DEF Place
      <4> QED BY <3>6, <3>7, TimerFacts
    <3> QED BY <3>3, <3>4, <3>5, <3>6, <3>8 DEF u
  <2>3. ASSUME NEW i \in 1..Len(list[k]), NEW j \in 1..Len(list[k]), i < j
        PROVE  Minus(timeout[list[k][j]], timeout[list[k][i]]) < HalfRange
    <3> DEFINE d == timeout[list[k][i]]
               e == timeout[list[k][j]]
    <3>1. Place[list[k][i]] <= Place[list[k][j]]
      BY <2>3 DEF WindowInv, Sorted
    <3>2. PlaceAt(tick, d) <= PlaceAt(tick, e)
      BY <2>2, <3>1
    <3>3. /\ d \in Tick /\ e \in Tick /\ tick \in Tick /\ MaxLag \in Tick
          /\ PlaceAt(tick, d) < HalfRange /\ PlaceAt(tick, e) < HalfRange
      BY <2>2
    <3> HIDE DEF d, e
    <3>4. Minus(e, d) < HalfRange
      BY <3>2, <3>3, PlaceOrder
    <3> QED BY <3>4 DEF d, e
  <2>4. Distinct(list[k])
    BY <2>1 DEF TypeInv, ListType
  <2> QED BY <2>3, <2>4
<1> QED BY <1>1, WindowInvariant, PTL

\* The clock interrupt returns only through the end of rt_timer_check.
LEMMA InterruptReturns ==
    ASSUME TimerNext, isr # "none", isr' = "none"
    PROVE  CheckDone
<1>1. ASSUME NEW a \in Actor, CallStep(a) PROVE FALSE
  BY <1>1 DEF CallStep, StartTick, StartInsert, StartTest, StartResume, ResumeUnlink, ResumeEnqueue, StopRemove, StopFlag, clock
<1>2. ASSUME NEW a \in Actor, NEW t \in Timer, ThreadCall(a, t) PROVE FALSE
  BY <1>2 DEF ThreadCall, rt_timer_start, StartRemove, rt_timer_stop, rt_timer_detach, rt_timer_init,
     rt_timer_control, clock
<1>3. ASSUME ThreadStep PROVE FALSE
  BY <1>3 DEF ThreadStep, ReadNext, SuspendTimerThread, ReadTick, Delay, CheckBegin, CheckEnter, SoftFirst, SoftDone,
     CallbackReturn, SoftRestart, StartRemove, SoftRestarted, SoftStop, clock
<1>4. ASSUME Interrupt, ~CheckDone PROVE FALSE
  BY <1>4 DEF Interrupt, rt_tick_increase, CheckFirst, CheckCallback, CheckAfter
<1>5. ASSUME NEW t \in Timer, DriverInterrupt(t) PROVE FALSE
  BY <1>5 DEF DriverInterrupt, clock
<1> QED BY <1>1, <1>2, <1>3, <1>4, <1>5 DEF TimerNext

\* rt_timer_check looks at the first timer only, yet leaves none that is due: the
\* list is in order, and no timeout in use is far enough away to look due.
THEOREM HardTimersInTime == ASSUME RulesKept PROVE TimerSpec => HardInTime
<1>1. TimerInv /\ WindowInv /\ [TimerNext]_vars =>
        [isr # "none" /\ isr' = "none" =>
            \A t \in Hard : Linked(t) => Minus(tick, timeout[t]) >= HalfRange]_vars
  <2> SUFFICES ASSUME TimerInv, WindowInv, TimerNext, isr # "none", isr' = "none", NEW t \in Hard, Linked(t)
               PROVE  Minus(tick, timeout[t]) >= HalfRange
    OBVIOUS
  <2>1. TypeInv /\ ~HardDue
    BY InterruptReturns DEF CheckDone, TimerInv
  <2> DEFINE l == list["hard"]
             h == Head(l)
  <2>2. l \in Seq(Hard) /\ Distinct(l) /\ Sorted(l, Place)
    BY <2>1 DEF TypeInv, ListType, ListKind, WindowInv
  <2>3. t \in Timer /\ Kind(t) = "hard" /\ Contains(l, t) /\ l # <<>>
    <3>1. t \in Timer /\ Kind(t) = "hard"
      BY TimerFacts DEF Kind
    <3>2. Contains(l, t)
      BY <3>1 DEF Linked, LinkedIn
    <3> QED BY <3>1, <3>2 DEF Contains
  <2>4. h \in Hard /\ Contains(l, h)
    BY <2>2, <2>3, ListTail
  <2>5. ~(Minus(tick, timeout[h]) < HalfRange)
    BY <2>1, <2>3 DEF HardDue, Expired
  <2> HIDE DEF h
  <2>6. h \in Timer /\ Linked(h)
    BY <2>4, TimerFacts DEF Linked, LinkedIn, Kind
  <2>7. Place[h] <= Place[t]
    <3> HIDE DEF l, Place
    <3> QED BY <2>2, <2>3, SortedHead DEF h
  <2>8. /\ tick \in Tick /\ timeout[h] \in Tick /\ timeout[t] \in Tick
        /\ MaxLag \in Tick /\ MaxLag + MaxLag < HalfRange
        /\ Place[h] = PlaceAt(tick, timeout[h]) /\ Place[h] \in Nat
        /\ Place[t] = PlaceAt(tick, timeout[t]) /\ Place[t] \in Nat
    BY <2>1, <2>3, <2>6, PlaceFacts DEF TypeInv
  <2>9. Place[h] < HalfRange - MaxLag /\ Place[t] < HalfRange - MaxLag
    BY <2>3, <2>6 DEF WindowInv
  <2>10. Minus(tick, timeout[t]) \in Nat
    <3>1. Minus(tick, timeout[t]) \in Tick
      BY <2>8, MinusValue
    <3> QED BY <3>1, TimerFacts
  <2> HIDE DEF Place
  <2>11. PlaceAt(tick, timeout[h]) < HalfRange /\ PlaceAt(tick, timeout[t]) < HalfRange
    BY <2>8, <2>9, TimerFacts
  <2>12. /\ Minus(tick, timeout[h]) < HalfRange <=> Place[h] <= MaxLag
         /\ Minus(tick, timeout[t]) < HalfRange <=> Place[t] <= MaxLag
    BY <2>8, <2>11, PlaceExpired
  <2> QED BY <2>5, <2>7, <2>8, <2>10, <2>12, TimerFacts
<1> QED BY <1>1, WindowInvariant, PTL DEF TimerSpec, HardInTime
=============================================================================

--------------------------- MODULE BkQueueProofs ---------------------------
(***************************************************************************)
(* Proofs about BkQueue, the memory pool and the mailbox inside it: the    *)
(* inductive invariant QueueInv is MbInv of RtMailboxProofs, PoolInv for   *)
(* the pool, and what the queue adds.  Its last conjuncts say where every  *)
(* block is and who is about to resume whom while the queue is deleted.    *)
(*                                                                         *)
(* The theorems suppose QueueCalled: no push waits for a finite time.      *)
(* Run mempool_timed shows what such a wait does to the pool.              *)
(***************************************************************************)
EXTENDS BkQueue, RtMailboxProofs

\* How the queue is called.
QueueCalled == Disciplined /\ "timed" \notin Times
-----------------------------------------------------------------------------
(* The pool.                                                                *)

\* The types of the pool's own state.
PoolFieldsOK ==
    /\ blockList \in Seq(Block) /\ waitq \in Seq(Thread) /\ alive \in BOOLEAN
    /\ time \in [Thread -> {"no", "timed", "forever"}] /\ used \in SUBSET Block

\* With no timed allocation nothing but rt_mp_free and rt_mp_detach ends a wait.
UntimedOK == \A t \in Thread : InAlloc(t) => ~timer[t] /\ time[t] # "timed"

\* Whoever comes out of a wait for a pool that is gone has been told.
PoolGone == ~alive => \A t \in Thread : InAlloc(t) /\ stat[t] = "ready" => error[t] # "EOK"

\* The pool's part of the inductive invariant.
PoolInv == /\ PoolFieldsOK /\ BlocksOK /\ PoolWaitersOK /\ SuspendCount /\ NoLostWakeup
           /\ UntimedOK /\ PoolGone
-----------------------------------------------------------------------------
(* The queue.                                                               *)

\* The types of the queue's own state.
QueueFieldsOK ==
    /\ op \in [Thread -> Op] /\ qTime \in [Thread -> {"no", "timed", "forever"}]
    /\ content \in [Block -> Msg \cup {NoMsg}] /\ buf \in [Thread -> Msg \cup {NoMsg}]

\* The lines of push and pop at which the caller holds a block.
Holding == {"copy", "send", "copy_out", "free"}

\* Where a thread may stand at each line of push, pop and deinit.
Stands(o, l) ==
    /\ o = "none" => l \in {"run", "unsched", "sched", "startup"}
    /\ o = "alloc" => l \in {"alloc", "alloc_chk"}
    /\ o = "recv" => l \in {"recv", "recv_chk"}
    /\ o \in Holding => l \in {"run", "unsched"}
    /\ o = "deinit_mb" => l \in {"mb_detach", "mb_detach_one", "mb_detach_s", "unsched"}
    /\ o = "deinit_mp" => l \in {"detach", "detach_one", "unsched"}

OpOK == \A t \in Thread : /\ Stands(op[t], pc[t])
                          /\ mail[t] # NoMail <=> op[t] \in Holding

\* NoLeak, element by element.
OnePlace ==
    /\ Contents \in Seq(Block) /\ Distinct(Contents)
    /\ \A t, u \in Thread : mail[t] = mail[u] /\ mail[t] # NoMail => t = u
    /\ \A t \in Thread : ~Contains(Contents, mail[t])
    /\ \A b \in Block : b \in used <=> Contains(Contents, b) \/ \E t \in Thread : mail[t] = b

\* bk_rtos_deinit_queue: the mailbox goes before the pool, and as long as a
\* thread is left waiting in either there is one that is about to resume it.
DeinitOK ==
    /\ ~alive => ~mbAlive /\ receivers = <<>>
    /\ \A t \in Thread : /\ op[t] \in {"deinit_mb", "deinit_mp"} => ~mbAlive
                         /\ op[t] = "deinit_mp" => ~alive
                         /\ op[t] = "deinit_mb" /\ pc[t] \in {"mb_detach_s", "unsched"}
                                => receivers = <<>>
    /\ ~mbAlive => \A t \in Thread : InRecv(t) /\ stat[t] = "ready" => error[t] # "EOK"
    /\ ~mbAlive /\ receivers # <<>>
        => \E t \in Thread : op[t] = "deinit_mb" /\ pc[t] \in {"mb_detach", "mb_detach_one"}
    /\ ~alive /\ waitq # <<>>
        => \E t \in Thread : op[t] = "deinit_mp" /\ pc[t] \in {"detach", "detach_one"}

\* The inductive invariant.
QueueInv == MbInv /\ PoolInv /\ QueueFieldsOK /\ OpOK /\ OnePlace /\ DeinitOK

\* The threads that rt_mp_free has woken and that have not yet tried again.
WokenAlloc == {t \in Thread : InAlloc(t) /\ stat[t] = "ready" /\ error[t] = "EOK"}

\* A list without repetitions is no longer than the set of its nodes is large, and
\* when it is as long it holds them all.
LEMMA DistinctLength ==
    ASSUME NEW S, IsFiniteSet(S), NEW l \in Seq(S), Distinct(l)
    PROVE  /\ Cardinality(S) \in Nat /\ Len(l) <= Cardinality(S)
           /\ Len(l) = Cardinality(S) => \A e \in S : Contains(l, e)
<1>1. Cardinality(S) \in Nat /\ Len(l) \in Nat
  BY FS_CardinalityType
<1>2. IsFiniteSet(1..Len(l)) /\ Cardinality(1..Len(l)) = Len(l)
  <2> DEFINE n == Len(l)
  <2>1. n \in Nat /\ n \in Int /\ 1 \in Int
    BY <1>1
  <2> HIDE DEF n
  <2>2. IsFiniteSet(1..n) /\ Cardinality(1..n) = IF 1 > n THEN 0 ELSE n - 1 + 1
    BY <2>1, FS_Interval
  <2>3. Cardinality(1..n) = n
    BY <2>1, <2>2
  <2> QED BY <2>2, <2>3 DEF n
<1>3. l \in [1..Len(l) -> S] /\ DOMAIN l = 1..Len(l)
  OBVIOUS
<1>4. l \in Injection(1..Len(l), S)
  BY <1>3 DEF Injection, IsInjective, Distinct
<1>5. /\ Len(l) <= Cardinality(S)
      /\ Len(l) = Cardinality(S) => l \in Surjection(1..Len(l), S)
  BY <1>2, <1>4, FS_Injection
<1> QED BY <1>1, <1>5 DEF Surjection, Contains

\* rt_mp_init chains every block once.
LEMMA AllChained ==
    /\ SetToSeq(Block) \in Seq(Block) /\ Len(SetToSeq(Block)) = Cardinality(Block)
    /\ Distinct(SetToSeq(Block)) /\ \A b \in Block : Contains(SetToSeq(Block), b)
<1> DEFINE n == Cardinality(Block)
           l == SetToSeq(Block)
<1>1. n \in Nat /\ ExistsBijection(1..n, Block)
  BY PoolAssumption, FS_CardinalityType
<1>2. \E f \in [1..n -> Block] : IsInjective(f)
  BY <1>1 DEF ExistsBijection, Bijection, Injection, IsInjective
<1>3. l \in [1..n -> Block] /\ IsInjective(l)
  BY <1>2 DEF SetToSeq
<1> HIDE DEF l
<1>4. l \in Seq(Block) /\ Len(l) = n /\ Distinct(l)
  BY <1>1, <1>3 DEF IsInjective, Distinct
<1>5. \A b \in Block : Contains(l, b)
  BY <1>4, PoolAssumption, DistinctLength
<1> QED BY <1>4, <1>5 DEF l

\* NoLostWakeup over the set of the woken threads, which are finitely many.
LEMMA WokenAllocFacts ==
    /\ NoLostWakeup <=> (alive /\ waitq # <<>> => freeCount <= Cardinality(WokenAlloc))
    /\ NoLostWakeup' <=> (alive' /\ waitq' # <<>> => freeCount' <= Cardinality(WokenAlloc'))
    /\ IsFiniteSet(WokenAlloc) /\ Cardinality(WokenAlloc) \in Nat
    /\ IsFiniteSet(WokenAlloc') /\ Cardinality(WokenAlloc') \in Nat
<1>1. WokenAlloc \subseteq Thread /\ WokenAlloc' \subseteq Thread
  BY DEF WokenAlloc
<1>2. /\ IsFiniteSet(WokenAlloc) /\ Cardinality(WokenAlloc) \in Nat
      /\ IsFiniteSet(WokenAlloc') /\ Cardinality(WokenAlloc') \in Nat
  BY <1>1, ThreadAssumption, FS_Subset, FS_CardinalityType
<1>3. /\ NoLostWakeup <=> (alive /\ waitq # <<>> => freeCount <= Cardinality(WokenAlloc))
      /\ NoLostWakeup' <=> (alive' /\ waitq' # <<>> => freeCount' <= Cardinality(WokenAlloc'))
  BY DEF NoLostWakeup, WokenAlloc
<1> QED BY <1>2, <1>3

\* The parts of PoolInv that the steps below use, gathered.
LEMMA PoolFacts ==
    ASSUME PoolInv
    PROVE  /\ blockList \in Seq(Block) /\ waitq \in Seq(Thread) /\ alive \in BOOLEAN
           /\ time \in [Thread -> {"no", "timed", "forever"}] /\ used \in SUBSET Block
           /\ freeCount = Len(blockList) /\ freeCount \in Nat /\ waitCount = Len(waitq)
           /\ Distinct(blockList) /\ Distinct(waitq)
           /\ freeCount = 0 <=> blockList = <<>>
           /\ waitCount > 0 <=> waitq # <<>>
<1>1. blockList \in Seq(Block) /\ waitq \in Seq(Thread)
  BY DEF PoolInv, PoolFieldsOK
<1>2. /\ Len(blockList) \in Nat /\ Len(waitq) \in Nat
      /\ Len(blockList) = 0 <=> blockList = <<>>
      /\ Len(waitq) > 0 <=> waitq # <<>>
  BY <1>1
<1> QED BY <1>1, <1>2 DEF PoolInv, PoolFieldsOK, BlocksOK, PoolWaitersOK, SuspendCount

\* The initial state.
LEMMA PoolInitInv == PoolInit => PoolInv
<1> SUFFICES ASSUME PoolInit PROVE PoolInv
  OBVIOUS
<1>1. /\ blockList = SetToSeq(Block) /\ freeCount = Cardinality(Block) /\ waitq = <<>>
      /\ waitCount = 0 /\ time = [t \in Thread |-> "no"] /\ alive = TRUE /\ used = {}
      /\ \A t \in Thread : pc[t] = "run"
  BY DEF PoolInit, Init
<1>2. BlocksOK /\ blockList \in Seq(Block)
  BY <1>1, AllChained DEF BlocksOK
<1>3. PoolFieldsOK
  BY <1>1, <1>2 DEF PoolFieldsOK
<1>4. PoolWaitersOK /\ SuspendCount /\ NoLostWakeup
  BY <1>1 DEF PoolWaitersOK, SuspendCount, NoLostWakeup, Distinct, Contains, InAlloc
<1>5. UntimedOK /\ PoolGone
  BY <1>1 DEF UntimedOK, PoolGone, InAlloc
<1> QED BY <1>2, <1>3, <1>4, <1>5 DEF PoolInv

\* A step that neither the pool nor a thread inside rt_mp_alloc takes part in.
LEMMA PoolFrame ==
    ASSUME PoolInv, UNCHANGED poolVars,
           \A u \in Thread : InAlloc(u)' <=> InAlloc(u),
           \A u \in Thread : InAlloc(u)
                => stat'[u] = stat[u] /\ error'[u] = error[u] /\ timer'[u] = timer[u]
    PROVE  PoolInv'
<1> USE DEF poolVars
<1>1. PoolFieldsOK' /\ BlocksOK' /\ SuspendCount'
  BY DEF PoolInv, PoolFieldsOK, BlocksOK, SuspendCount
<1>2. PoolWaitersOK' /\ UntimedOK' /\ PoolGone'
  BY DEF PoolInv, PoolWaitersOK, UntimedOK, PoolGone
<1>3. WokenAlloc' = WokenAlloc
  BY DEF WokenAlloc
<1>4. NoLostWakeup'
  BY <1>3, WokenAllocFacts DEF PoolInv
<1> QED BY <1>1, <1>2, <1>4 DEF PoolInv

\* A block is handed out, to thread t that leaves rt_mp_alloc or to an interrupt
\* handler: a woken thread less, or none, and a free block less.
LEMMA PoolTake ==
    ASSUME PoolInv, NEW t \in Thread, freeCount > 0, freeCount' = freeCount - 1,
           blockList' = Pop, used' = used \cup {Head(blockList)},
           UNCHANGED <<waitq, waitCount, alive>>, time' \in [Thread -> {"no", "timed", "forever"}],
           \A u \in Thread : InAlloc(u)' => InAlloc(u),
           \A u \in Thread : InAlloc(u) /\ (u # t \/ stat[u] = "suspend") => InAlloc(u)',
           \A u \in Thread : InAlloc(u)' => /\ stat'[u] = stat[u] /\ error'[u] = error[u]
                                            /\ timer'[u] = timer[u] /\ time'[u] = time[u]
    PROVE  PoolInv' /\ Head(blockList) \in Block /\ Head(blockList) \notin used
<1> DEFINE b == Head(blockList)
<1>1. /\ blockList \in Seq(Block) /\ blockList # <<>> /\ Distinct(blockList)
      /\ freeCount = Len(blockList) /\ freeCount \in Nat /\ used \in SUBSET Block
      /\ blockList' = Tail(blockList) /\ alive \in BOOLEAN
  BY PoolFacts DEF Pop
<1>2. /\ b \in Block /\ Contains(blockList, b) /\ blockList' \in Seq(Block)
      /\ Distinct(blockList')
      /\ \A e : Contains(blockList', e) <=> Contains(blockList, e) /\ e # b
  BY <1>1, ListTail
<1>3. freeCount' = Len(blockList')
  BY <1>1
<1>4. \A e \in Block : Contains(blockList, e) <=> e \notin used
  BY DEF PoolInv, BlocksOK
<1>5. used' = used \cup {b}
  OBVIOUS
<1> HIDE DEF b
<1>6. BlocksOK' /\ used' \in SUBSET Block /\ b \notin used
  BY <1>1, <1>2, <1>3, <1>4, <1>5 DEF BlocksOK
<1>7. PoolFieldsOK'
  BY <1>2, <1>6 DEF PoolInv, PoolFieldsOK
<1>8. PoolWaitersOK' /\ SuspendCount' /\ UntimedOK' /\ PoolGone'
  BY DEF PoolInv, PoolWaitersOK, SuspendCount, UntimedOK, PoolGone
<1>9. WokenAlloc' = WokenAlloc \/ WokenAlloc' = WokenAlloc \ {t}
  BY DEF WokenAlloc
<1>10. Cardinality(WokenAlloc') >= Cardinality(WokenAlloc) - 1
  BY <1>9, WokenAllocFacts, WokenLeaves
<1>11. NoLostWakeup'
  <2>1. alive /\ waitq # <<>> => freeCount <= Cardinality(WokenAlloc)
    BY WokenAllocFacts DEF PoolInv
  <2>2. alive' /\ waitq' # <<>> => freeCount' <= Cardinality(WokenAlloc')
    BY <1>1, <1>10, <2>1, WokenAllocFacts
  <2> QED BY <2>2, WokenAllocFacts
<1> QED BY <1>2, <1>6, <1>7, <1>8, <1>11 DEF PoolInv, b

\* Thread t leaves rt_mp_alloc without a block: it was told of an error, or no
\* block is free.
LEMMA PoolLeave ==
    ASSUME PoolInv, NEW t \in Thread, UNCHANGED <<blockList, freeCount, waitq, waitCount, alive, used>>,
           time' \in [Thread -> {"no", "timed", "forever"}], stat[t] = "ready",
           \A u \in Thread : InAlloc(u)' <=> InAlloc(u) /\ u # t,
           \A u \in Thread : InAlloc(u)' => /\ stat'[u] = stat[u] /\ error'[u] = error[u]
                                            /\ timer'[u] = timer[u] /\ time'[u] = time[u],
           freeCount = 0 \/ error[t] # "EOK"
    PROVE  PoolInv'
<1>1. PoolFieldsOK' /\ BlocksOK'
  BY DEF PoolInv, PoolFieldsOK, BlocksOK
<1>2. PoolWaitersOK' /\ SuspendCount' /\ UntimedOK' /\ PoolGone'
  BY DEF PoolInv, PoolWaitersOK, SuspendCount, UntimedOK, PoolGone
<1>3. error[t] # "EOK" => WokenAlloc' = WokenAlloc
  BY DEF WokenAlloc
<1>4. NoLostWakeup'
  <2>1. alive /\ waitq # <<>> => freeCount <= Cardinality(WokenAlloc)
    BY WokenAllocFacts DEF PoolInv
  <2>2. CASE freeCount = 0
    BY <2>2, WokenAllocFacts
  <2>3. CASE error[t] # "EOK"
    BY <1>3, <2>1, <2>3, WokenAllocFacts
  <2> QED BY <2>2, <2>3
<1> QED BY <1>1, <1>2, <1>4 DEF PoolInv

\* Where rt_mp_alloc returns to.
LEMMA AllocReturnFacts ==
    ASSUME BlockInv, NEW t \in Thread, t = current, t # Idle,
           pc[t] \in {"run", "unsched", "alloc_chk"}, AllocReturns(t),
           time \in [Thread -> {"no", "timed", "forever"}],
           UNCHANGED <<rq, stat, prio, timer, defunct, current, lockNest, tgt>>,
           error' \in [Thread -> Error]
    PROVE  /\ BlockInv' /\ stat[t] = "ready" /\ time' \in [Thread -> {"no", "timed", "forever"}]
           /\ pc'[t] \in {"run", "unsched"}
           /\ \A u \in Thread : u # t => pc'[u] = pc[u] /\ time'[u] = time[u]
           /\ \A u \in Thread : InAlloc(u)' <=> InAlloc(u) /\ u # t
<1> DEFINE l == IF pc[t] = "alloc_chk" THEN "run" ELSE pc[t]
<1>1. Goto(t, l) /\ time' = [time EXCEPT ![t] = "no"]
  BY DEF AllocReturns
<1>2. l \in {"run", "unsched"}
  OBVIOUS
<1> HIDE DEF l
<1>3. /\ pc[t] \notin SuspendLabel \cup {"startup"}
      /\ l \in BlockLabel \ (SuspendLabel \cup {"startup"})
  BY <1>2 DEF BlockLabel, WaitLabel, SuspendLabel
<1>4. /\ rq' \in ReadyQueue /\ RqOK(rq', ReadyThreads, prio') /\ prio' \in [Thread -> Prio]
      /\ pc \in [Thread -> BlockLabel]
  BY DEF BlockInv, CoreTypeOK
<1>5. BlockInv'
  BY <1>1, <1>3, <1>4, BlockLocal
<1>6. stat[t] = "ready"
  BY <1>3, BlockRunning
<1>7. pc' = [pc EXCEPT ![t] = l]
  BY <1>1 DEF Goto
<1> QED BY <1>1, <1>2, <1>4, <1>5, <1>6, <1>7 DEF InAlloc

\* rt_mp_alloc takes a block,
LEMMA AllocTakeInv ==
    ASSUME BlockInv, PoolInv, NEW t \in Thread, t = current, t # Idle,
           pc[t] \in {"run", "unsched", "alloc_chk"}, AllocTake(t)
    PROVE  /\ BlockInv' /\ PoolInv' /\ Head(blockList) \in Block /\ Head(blockList) \notin used
           /\ pc'[t] \in {"run", "unsched"} /\ UNCHANGED <<stat, error>>
           /\ \A u \in Thread : u # t => pc'[u] = pc[u]
<1>1. /\ freeCount > 0 /\ freeCount' = freeCount - 1 /\ blockList' = Pop
      /\ used' = used \cup {Head(blockList)} /\ AllocReturns(t)
      /\ UNCHANGED <<rq, stat, prio, timer, error, defunct, current, lockNest, tgt>>
      /\ UNCHANGED <<waitq, waitCount, alive>>
  BY DEF AllocTake
<1>2. error' \in [Thread -> Error] /\ time \in [Thread -> {"no", "timed", "forever"}]
  BY <1>1, PoolFacts DEF BlockInv, CoreTypeOK
<1>3. /\ BlockInv' /\ stat[t] = "ready" /\ time' \in [Thread -> {"no", "timed", "forever"}]
      /\ pc'[t] \in {"run", "unsched"}
      /\ \A u \in Thread : u # t => pc'[u] = pc[u] /\ time'[u] = time[u]
      /\ \A u \in Thread : InAlloc(u)' <=> InAlloc(u) /\ u # t
  BY <1>1, <1>2, AllocReturnFacts
<1>4. PoolInv' /\ Head(blockList) \in Block /\ Head(blockList) \notin used
  BY <1>1, <1>3, PoolTake
<1> QED BY <1>1, <1>3, <1>4

\* or leaves without one,
LEMMA AllocLeaveInv ==
    ASSUME BlockInv, PoolInv, NEW t \in Thread, t = current, t # Idle,
           pc[t] \in {"run", "unsched", "alloc_chk"},
           (\E tm : AllocRefused(t, tm)) \/ AllocGiveUp(t)
    PROVE  /\ BlockInv' /\ PoolInv' /\ pc'[t] \in {"run", "unsched"} /\ UNCHANGED stat
           /\ \A u \in Thread : u # t => pc'[u] = pc[u] /\ error'[u] = error[u]
<1>1. /\ AllocReturns(t) /\ UNCHANGED <<rq, stat, prio, timer, defunct, current, lockNest, tgt>>
      /\ UNCHANGED <<blockList, freeCount, waitq, waitCount, alive, used>>
      /\ error' = [error EXCEPT ![t] = "ETIMEOUT"] \/ error' = error
      /\ freeCount = 0 \/ error[t] # "EOK"
  BY DEF AllocRefused, AllocGiveUp
<1>2. error \in [Thread -> Error] /\ time \in [Thread -> {"no", "timed", "forever"}]
  BY PoolFacts DEF BlockInv, CoreTypeOK
<1>3. error' \in [Thread -> Error] /\ \A u \in Thread : u # t => error'[u] = error[u]
  BY <1>1, <1>2 DEF Error
<1>4. /\ BlockInv' /\ stat[t] = "ready" /\ time' \in [Thread -> {"no", "timed", "forever"}]
      /\ pc'[t] \in {"run", "unsched"}
      /\ \A u \in Thread : u # t => pc'[u] = pc[u] /\ time'[u] = time[u]
      /\ \A u \in Thread : InAlloc(u)' <=> InAlloc(u) /\ u # t
  BY <1>1, <1>2, <1>3, AllocReturnFacts
<1>5. PoolInv'
  BY <1>1, <1>3, <1>4, PoolLeave
<1> QED BY <1>1, <1>3, <1>4, <1>5

\* or waits.
LEMMA AllocWaitInv ==
    ASSUME BlockInv, PoolInv, NEW t \in Thread, t = current, t # Idle,
           pc[t] \in {"run", "unsched", "alloc_chk"}, NEW tm \in {"no", "forever"}, AllocWait(t, tm),
           alive
    PROVE  /\ BlockInv' /\ PoolInv' /\ pc' = [pc EXCEPT ![t] = "alloc"]
           /\ \A u \in Thread : u # t => stat'[u] = stat[u] /\ error'[u] = error[u]
<1>1. /\ freeCount = 0 /\ tm # "no" /\ lockNest = 0 /\ error' = [error EXCEPT ![t] = "EOK"]
      /\ stat' = [stat EXCEPT ![t] = "suspend"]
      /\ rq' = rt_schedule_remove_thread(rq, t, prio[t])
      /\ waitq' = rt_list_insert_after(waitq, t) /\ waitCount' = waitCount + 1
      /\ timer' = [timer EXCEPT ![t] = FALSE] /\ time' = [time EXCEPT ![t] = tm]
      /\ Goto(t, "alloc") /\ pc' = [pc EXCEPT ![t] = "alloc"]
      /\ UNCHANGED <<prio, defunct, current, lockNest, tgt, blockList, freeCount, alive, used>>
  BY DEF AllocWait, MayBlock, Goto
<1>2. /\ pc[t] \notin SuspendLabel /\ pc[t] # "startup" /\ "alloc" \in SuspendLabel
  BY DEF SuspendLabel
<1>3. /\ stat[t] = "ready" /\ rq \in ReadyQueue /\ RqOK(rq, ReadyThreads, prio)
      /\ prio \in [Thread -> Prio] /\ error \in [Thread -> Error] /\ stat \in [Thread -> Stat]
      /\ pc \in [Thread -> BlockLabel] /\ ReadyThreads \in SUBSET Thread
      /\ timer \in [Thread -> BOOLEAN]
  BY <1>2, BlockRunning DEF BlockInv, CoreTypeOK, ReadyThreads
<1>4. rq' \in ReadyQueue /\ RqOK(rq', ReadyThreads \ {t}, prio')
  BY <1>1, <1>3, RqRemove
<1>5. prio' \in [Thread -> Prio] /\ error' \in [Thread -> Error] /\ FALSE \in BOOLEAN
  BY <1>1, <1>3 DEF Error
<1>6. BlockInv'
  BY <1>1, <1>2, <1>4, <1>5, BlockSuspend
<1>7. /\ waitq \in Seq(Thread) /\ Distinct(waitq) /\ ~Contains(waitq, t)
      /\ waitCount = Len(waitq)
  BY <1>3, PoolFacts DEF PoolInv, PoolWaitersOK
<1>8. /\ waitq' \in Seq(Thread) /\ Distinct(waitq')
      /\ \A e : Contains(waitq', e) <=> Contains(waitq, e) \/ e = t
  BY <1>1, <1>7, ListInsertAfter
<1>9. SuspendCount'
  BY <1>1, <1>7 DEF SuspendCount, rt_list_insert_after
<1>10. /\ \A u \in Thread : u # t => /\ pc'[u] = pc[u] /\ stat'[u] = stat[u] /\ error'[u] = error[u]
                                     /\ timer'[u] = timer[u] /\ time'[u] = time[u]
       /\ pc'[t] = "alloc" /\ stat'[t] = "suspend" /\ ~timer'[t] /\ time'[t] = tm
       /\ time' \in [Thread -> {"no", "timed", "forever"}]
  BY <1>1, <1>3, PoolFacts
<1>11. PoolWaitersOK' /\ UntimedOK' /\ PoolGone'
  BY <1>1, <1>8, <1>10 DEF PoolInv, PoolWaitersOK, UntimedOK, PoolGone, InAlloc
<1>12. PoolFieldsOK' /\ BlocksOK'
  BY <1>1, <1>8, <1>10 DEF PoolInv, PoolFieldsOK, BlocksOK
<1>13. NoLostWakeup'
  BY <1>1, WokenAllocFacts
<1> QED BY <1>1, <1>6, <1>9, <1>10, <1>11, <1>12, <1>13 DEF PoolInv

\* The rt_schedule of rt_mp_alloc.
LEMMA AllocScheduleInv ==
    ASSUME BlockInv, PoolInv, NEW t \in Thread, AllocSchedule(t)
    PROVE  /\ BlockInv' /\ PoolInv' /\ pc[t] = "alloc" /\ pc' = [pc EXCEPT ![t] = "alloc_chk"]
           /\ UNCHANGED <<stat, error>>
<1>1. /\ current = t /\ pc[t] = "alloc" /\ current' = rt_schedule(rq) /\ Goto(t, "alloc_chk")
      /\ UNCHANGED <<rq, stat, prio, timer, error, defunct, lockNest, tgt>> /\ UNCHANGED poolVars
  BY DEF AllocSchedule, At, poolVars
<1>2. /\ pc[t] \in SuspendLabel /\ "alloc_chk" \in WaitLabel /\ "alloc_chk" \notin SuspendLabel
  BY <1>1 DEF WaitLabel, SuspendLabel
<1>3. BlockInv'
  BY <1>1, <1>2, BlockSwitch
<1>4. pc' = [pc EXCEPT ![t] = "alloc_chk"] /\ \A u \in Thread : InAlloc(u)' <=> InAlloc(u)
  BY <1>1 DEF Goto, InAlloc, BlockInv
<1>5. PoolInv'
  BY <1>1, <1>4, PoolFrame
<1> QED BY <1>1, <1>3, <1>4, <1>5

\* rt_thread_resume of the first waiter.
LEMMA WakeFirstFacts ==
    ASSUME BlockInv, PoolInv, waitq # <<>>, NEW e \in Error, WakeFirst(e), UNCHANGED prio
    PROVE  /\ Head(waitq) \in Thread /\ InAlloc(Head(waitq)) /\ stat[Head(waitq)] = "suspend"
           /\ pc[Head(waitq)] \in WaitLabel
           /\ error' = [error EXCEPT ![Head(waitq)] = e] /\ error' \in [Thread -> Error]
           /\ stat' = [stat EXCEPT ![Head(waitq)] = "ready"]
           /\ timer' = [timer EXCEPT ![Head(waitq)] = FALSE]
           /\ rq' \in ReadyQueue /\ RqOK(rq', ReadyThreads \cup {Head(waitq)}, prio')
           /\ prio' \in [Thread -> Prio]
           /\ waitq' \in Seq(Thread) /\ Distinct(waitq') /\ SuspendCount'
           /\ \A u : Contains(waitq', u) <=> Contains(waitq, u) /\ u # Head(waitq)
<1> DEFINE w == Head(waitq)
<1>1. /\ error' = [error EXCEPT ![w] = e] /\ stat' = [stat EXCEPT ![w] = "ready"]
      /\ timer' = [timer EXCEPT ![w] = FALSE]
      /\ rq' = rt_schedule_insert_thread(rq, w, prio[w])
      /\ waitq' = Tail(waitq) /\ waitCount' = waitCount - 1
  BY DEF WakeFirst, AfterWake, CountAfterWake, rt_timer_stop
<1>2. waitq \in Seq(Thread) /\ Distinct(waitq) /\ waitCount = Len(waitq)
  BY PoolFacts
<1>3. /\ w \in Thread /\ Contains(waitq, w) /\ waitq' \in Seq(Thread) /\ Distinct(waitq')
      /\ \A u : Contains(waitq', u) <=> Contains(waitq, u) /\ u # w
  BY <1>1, <1>2, ListTail
<1>4. SuspendCount'
  BY <1>1, <1>2 DEF SuspendCount
<1> HIDE DEF w
<1>5. InAlloc(w) /\ stat[w] = "suspend"
  BY <1>3 DEF PoolInv, PoolWaitersOK
<1>6. pc[w] \in WaitLabel
  BY <1>5 DEF InAlloc, WaitLabel, SuspendLabel
<1>7. /\ rq \in ReadyQueue /\ RqOK(rq, ReadyThreads, prio) /\ prio \in [Thread -> Prio]
      /\ error \in [Thread -> Error] /\ ReadyThreads \in SUBSET Thread /\ w \notin ReadyThreads
  BY <1>5 DEF BlockInv, CoreTypeOK, ReadyThreads
<1>8. rq' \in ReadyQueue /\ RqOK(rq', ReadyThreads \cup {w}, prio')
  BY <1>1, <1>3, <1>7, RqInsert
<1>9. error' \in [Thread -> Error]
  BY <1>1, <1>7
<1> QED BY <1>1, <1>3, <1>4, <1>5, <1>6, <1>7, <1>8, <1>9 DEF w

\* The caller goes on at l, and is not inside rt_mp_alloc.
LEMMA WakeFirstBlock ==
    ASSUME BlockInv, PoolInv, waitq # <<>>, NEW e \in Error, WakeFirst(e),
           NEW t \in Thread, t = current, t # Idle,
           pc[t] \notin WaitLabel \cup {"startup"},
           NEW l \in BlockLabel \ (WaitLabel \cup {"startup"}), Goto(t, l),
           UNCHANGED <<prio, defunct, current, lockNest, tgt>>
    PROVE  /\ BlockInv' /\ \A u \in Thread : InAlloc(u)' <=> InAlloc(u)
<1> DEFINE w == Head(waitq)
<1>1. /\ w \in Thread /\ stat[w] = "suspend" /\ pc[w] \in WaitLabel
      /\ error' \in [Thread -> Error] /\ stat' = [stat EXCEPT ![w] = "ready"]
      /\ timer' = [timer EXCEPT ![w] = FALSE]
      /\ rq' \in ReadyQueue /\ RqOK(rq', ReadyThreads \cup {w}, prio')
      /\ prio' \in [Thread -> Prio]
  BY WakeFirstFacts
<1> HIDE DEF w
<1>2. pc[current] \notin SuspendLabel \cup {"startup"}
  BY DEF WaitLabel
<1>3. BlockInv'
  BY <1>1, <1>2, BlockWake
<1>4. pc' = [pc EXCEPT ![t] = l] /\ pc \in [Thread -> BlockLabel]
  BY DEF Goto, BlockInv
<1> QED BY <1>3, <1>4 DEF InAlloc, WaitLabel, SuspendLabel

\* rt_mp_free.
LEMMA PoolFreeInv ==
    ASSUME BlockInv, PoolInv, NEW t \in Thread, NEW b \in Block, rt_mp_free(t, b)
    PROVE  /\ BlockInv' /\ PoolInv' /\ pc'[t] \in {"run", "unsched", "sched"}
           /\ \A u \in Thread : u # t => pc'[u] = pc[u]
           /\ \A u \in Thread : ~InAlloc(u) => stat'[u] = stat[u] /\ error'[u] = error[u]
<1>1. /\ InApp(t) /\ alive /\ b \in used /\ freeCount' = freeCount + 1
      /\ blockList' = <<b>> \o blockList /\ used' = used \ {b}
      /\ FreeWake(t) \/ FreeQuiet(t)
      /\ UNCHANGED <<prio, defunct, current, lockNest, tgt, time, alive>>
  BY DEF rt_mp_free
<1>2. /\ t # Idle /\ t = current /\ pc[t] \in {"run", "unsched"} /\ stat[t] = "ready"
      /\ ~InAlloc(t)
  BY <1>1, BlockApp DEF InApp, InAlloc
<1>3. /\ blockList \in Seq(Block) /\ Distinct(blockList) /\ freeCount = Len(blockList)
      /\ \A x \in Block : Contains(blockList, x) <=> x \notin used
      /\ used \in SUBSET Block /\ freeCount \in Nat
      /\ waitCount > 0 <=> waitq # <<>>
  BY PoolFacts DEF PoolInv, BlocksOK
<1>4. /\ blockList' \in Seq(Block) /\ Distinct(blockList')
      /\ \A x : Contains(blockList', x) <=> Contains(blockList, x) \/ x = b
  BY <1>1, <1>3, ListInsertAfter DEF rt_list_insert_after
<1>5. freeCount' = Len(blockList')
  BY <1>1, <1>3
<1>6. BlocksOK' /\ used' \in SUBSET Block
  BY <1>1, <1>3, <1>4, <1>5 DEF BlocksOK
<1>7. alive /\ waitq # <<>> => freeCount <= Cardinality(WokenAlloc)
  BY WokenAllocFacts DEF PoolInv
<1>8. CASE FreeWake(t)
  <2> DEFINE w == Head(waitq)
  <2>1. waitq # <<>> /\ WakeFirst("EOK") /\ Goto(t, "sched") /\ "EOK" \in Error
    BY <1>8 DEF FreeWake, Error
  <2>2. /\ w \in Thread /\ InAlloc(w) /\ stat[w] = "suspend"
        /\ error' = [error EXCEPT ![w] = "EOK"] /\ stat' = [stat EXCEPT ![w] = "ready"]
        /\ timer' = [timer EXCEPT ![w] = FALSE]
        /\ waitq' \in Seq(Thread) /\ Distinct(waitq') /\ SuspendCount'
        /\ \A u : Contains(waitq', u) <=> Contains(waitq, u) /\ u # w
    BY <1>1, <2>1, WakeFirstFacts
  <2> HIDE DEF w
  <2>3. /\ pc[t] \notin WaitLabel \cup {"startup"} /\ "sched" \in BlockLabel \ (WaitLabel \cup {"startup"})
    BY <1>2 DEF WaitLabel, SuspendLabel, BlockLabel
  <2>4. BlockInv' /\ \A u \in Thread : InAlloc(u)' <=> InAlloc(u)
    BY <1>1, <1>2, <2>1, <2>3, WakeFirstBlock
  <2>5. /\ \A u \in Thread : u # w => /\ stat'[u] = stat[u] /\ error'[u] = error[u]
                                      /\ timer'[u] = timer[u]
        /\ stat'[w] = "ready" /\ error'[w] = "EOK" /\ ~timer'[w]
        /\ pc'[t] = "sched" /\ \A u \in Thread : u # t => pc'[u] = pc[u]
    BY <2>1, <2>2 DEF BlockInv, CoreTypeOK, Goto
  <2>6. PoolWaitersOK' /\ UntimedOK' /\ PoolGone'
    BY <1>1, <2>2, <2>4, <2>5 DEF PoolInv, PoolWaitersOK, UntimedOK, PoolGone
  <2>7. PoolFieldsOK'
    BY <1>1, <1>4, <1>6, <2>2 DEF PoolInv, PoolFieldsOK
  <2>8. WokenAlloc' = WokenAlloc \cup {w} /\ w \notin WokenAlloc
    BY <2>2, <2>4, <2>5 DEF WokenAlloc
  <2>9. Cardinality(WokenAlloc') = Cardinality(WokenAlloc) + 1
    BY <2>8, WokenAllocFacts, WokenCount
  <2>10. freeCount' <= Cardinality(WokenAlloc')
    BY <1>1, <1>3, <1>7, <2>1, <2>9, WokenAllocFacts
  <2>11. NoLostWakeup'
    BY <2>10, WokenAllocFacts
  <2> QED BY <1>2, <1>6, <2>2, <2>4, <2>5, <2>6, <2>7, <2>11 DEF PoolInv
<1>9. CASE FreeQuiet(t)
  <2>1. waitq = <<>> /\ UNCHANGED <<waitq, waitCount, error, stat, timer, rq, pc>>
    BY <1>3, <1>9 DEF FreeQuiet, MustWake
  <2>2. UNCHANGED schedVars
    BY <1>1, <2>1 DEF schedVars
  <2>3. BlockInv'
    BY <2>2, BlockStutter
  <2>4. PoolWaitersOK' /\ UntimedOK' /\ PoolGone' /\ SuspendCount' /\ NoLostWakeup'
    BY <1>1, <2>1 DEF PoolInv, PoolWaitersOK, UntimedOK, PoolGone, SuspendCount, NoLostWakeup, InAlloc
  <2>5. PoolFieldsOK'
    BY <1>1, <1>4, <1>6, <2>1 DEF PoolInv, PoolFieldsOK
  <2> QED BY <1>2, <1>6, <2>1, <2>3, <2>4, <2>5 DEF PoolInv
<1> QED BY <1>1, <1>8, <1>9

\* rt_mp_detach, and the test of its loop.
LEMMA PoolDetachInv ==
    ASSUME BlockInv, PoolInv, NEW t \in Thread, rt_mp_detach(t) \/ DetachTest(t)
    PROVE  /\ BlockInv' /\ PoolInv' /\ UNCHANGED <<stat, error, waitq>>
           /\ \E l \in {"detach", "detach_one", "unsched"} : pc' = [pc EXCEPT ![t] = l]
           /\ pc[t] \in {"run", "unsched", "detach"}
<1>1. /\ t = current /\ pc[t] \in {"run", "unsched", "detach"} /\ (pc[t] = "run" => t # Idle)
      /\ UNCHANGED <<rq, stat, prio, timer, error, defunct, current, lockNest, tgt>>
      /\ UNCHANGED <<blockList, freeCount, waitq, waitCount, time, used>>
      /\ \/ alive' = alive
         \/ alive' = FALSE /\ \A u \in Thread : InAlloc(u) => stat[u] = "suspend"
  BY DEF rt_mp_detach, DetachTest, InApp, At, poolVars
<1>2. PICK l \in {"detach", "detach_one", "unsched"} : Goto(t, l)
  BY DEF rt_mp_detach, DetachTest
<1>3. /\ pc[t] \notin SuspendLabel \cup {"startup"}
      /\ l \in BlockLabel \ (SuspendLabel \cup {"startup"})
  BY <1>1 DEF SuspendLabel, WaitLabel, BlockLabel
<1>4. t # Idle
  BY <1>1, <1>3, BlockRunning
<1>5. /\ rq' \in ReadyQueue /\ RqOK(rq', ReadyThreads, prio') /\ prio' \in [Thread -> Prio]
      /\ error' \in [Thread -> Error] /\ pc \in [Thread -> BlockLabel]
  BY <1>1 DEF BlockInv, CoreTypeOK
<1>6. BlockInv'
  BY <1>1, <1>2, <1>3, <1>4, <1>5, BlockLocal
<1>7. pc' = [pc EXCEPT ![t] = l]
  BY <1>2 DEF Goto
<1>8. \A u \in Thread : InAlloc(u)' <=> InAlloc(u)
  BY <1>1, <1>5, <1>7 DEF InAlloc
<1>9. PoolInv'
  <2>1. CASE alive' = alive
    BY <1>1, <1>8, <2>1, PoolFrame DEF poolVars
  <2>2. CASE alive' = FALSE /\ \A u \in Thread : InAlloc(u) => stat[u] = "suspend"
    <3>1. PoolFieldsOK' /\ BlocksOK' /\ SuspendCount' /\ NoLostWakeup'
      BY <1>1, <2>2 DEF PoolInv, PoolFieldsOK, BlocksOK, SuspendCount, NoLostWakeup
    <3>2. PoolWaitersOK' /\ UntimedOK' /\ PoolGone'
      BY <1>1, <1>8, <2>2 DEF PoolInv, PoolWaitersOK, UntimedOK, PoolGone
    <3> QED BY <3>1, <3>2 DEF PoolInv
  <2> QED BY <1>1, <2>1, <2>2
<1> QED BY <1>1, <1>6, <1>7, <1>9

\* One round of the loop of rt_mp_detach.
LEMMA PoolDetachOneInv ==
    ASSUME BlockInv, PoolInv, ~alive, NEW t \in Thread, DetachOne(t)
    PROVE  /\ BlockInv' /\ PoolInv' /\ pc[t] = "detach_one" /\ pc' = [pc EXCEPT ![t] = "detach"]
           /\ \A u \in Thread : ~InAlloc(u) => stat'[u] = stat[u] /\ error'[u] = error[u]
<1> DEFINE w == Head(waitq)
<1>1. /\ t = current /\ pc[t] = "detach_one" /\ waitq # <<>> /\ WakeFirst("ERROR") /\ "ERROR" \in Error
      /\ Goto(t, "detach") /\ pc' = [pc EXCEPT ![t] = "detach"]
      /\ UNCHANGED <<prio, defunct, current, lockNest, tgt>>
      /\ UNCHANGED <<blockList, freeCount, time, alive, used>>
  BY DEF DetachOne, At, Error, Goto
<1>2. /\ w \in Thread /\ InAlloc(w) /\ stat[w] = "suspend"
      /\ error' = [error EXCEPT ![w] = "ERROR"] /\ stat' = [stat EXCEPT ![w] = "ready"]
      /\ timer' = [timer EXCEPT ![w] = FALSE]
      /\ waitq' \in Seq(Thread) /\ Distinct(waitq') /\ SuspendCount'
      /\ \A u : Contains(waitq', u) <=> Contains(waitq, u) /\ u # w
  BY <1>1, WakeFirstFacts
<1> HIDE DEF w
<1>3. /\ pc[t] \notin WaitLabel \cup {"startup"} /\ pc[t] \notin SuspendLabel
      /\ "detach" \in BlockLabel \ (WaitLabel \cup {"startup"})
  BY <1>1 DEF WaitLabel, SuspendLabel, BlockLabel
<1>4. t # Idle
  BY <1>1, <1>3, BlockRunning
<1>5. BlockInv' /\ \A u \in Thread : InAlloc(u)' <=> InAlloc(u)
  BY <1>1, <1>3, <1>4, WakeFirstBlock
<1>6. /\ \A u \in Thread : u # w => /\ stat'[u] = stat[u] /\ error'[u] = error[u]
                                    /\ timer'[u] = timer[u]
      /\ stat'[w] = "ready" /\ error'[w] = "ERROR" /\ ~timer'[w]
  BY <1>2 DEF BlockInv, CoreTypeOK
<1>7. PoolWaitersOK' /\ UntimedOK' /\ PoolGone'
  BY <1>1, <1>2, <1>5, <1>6 DEF PoolInv, PoolWaitersOK, UntimedOK, PoolGone
<1>8. PoolFieldsOK' /\ BlocksOK' /\ NoLostWakeup'
  BY <1>1, <1>2 DEF PoolInv, PoolFieldsOK, BlocksOK, NoLostWakeup
<1> QED BY <1>1, <1>2, <1>5, <1>6, <1>7, <1>8 DEF PoolInv
-----------------------------------------------------------------------------
(* The queue's steps.                                                       *)

\* The parts of QueueInv that the steps below use, gathered.
LEMMA QueueFacts ==
    ASSUME QueueInv
    PROVE  /\ MbInv /\ BlockInv /\ PoolInv /\ RingTypeOK /\ Mail = Block
           /\ op \in [Thread -> Op] /\ qTime \in [Thread -> {"no", "timed", "forever"}]
           /\ content \in [Block -> Msg \cup {NoMsg}] /\ buf \in [Thread -> Msg \cup {NoMsg}]
           /\ mail \in [Thread -> Block \cup {NoMail}] /\ NoMail \notin Block
           /\ pc \in [Thread -> MbLabel] /\ OpOK /\ OnePlace /\ DeinitOK
           /\ \A t \in Thread : ~InSend(t)
           /\ senders = <<>>
           /\ mbAlive => alive /\ \A t \in Thread : op[t] \notin {"deinit_mb", "deinit_mp"}
<1>1. /\ MbInv /\ BlockInv /\ PoolInv /\ RingTypeOK /\ Mail = Block /\ NoMail \notin Block
      /\ OpOK /\ OnePlace /\ DeinitOK
  BY RingPart, QueueAssumption, MailboxAssumption DEF QueueInv, MbInv
<1>2. /\ mail \in [Thread -> Mail \cup {NoMail}] /\ pc \in [Thread -> MbLabel]
      /\ senders \in Seq(Thread)
  BY <1>1, MbFacts
<1>3. \A t \in Thread : op[t] \in Op /\ Stands(op[t], pc[t])
  BY <1>1 DEF OpOK, QueueInv, QueueFieldsOK
<1>4. \A t \in Thread : ~InSend(t)
  BY <1>3 DEF Stands, InSend, Op, Holding
<1>5. senders = <<>>
  <2> SUFFICES ASSUME senders # <<>> PROVE FALSE
    OBVIOUS
  <2>1. Head(senders) \in Thread /\ Contains(senders, Head(senders))
    BY <1>2 DEF Contains
  <2> QED BY <1>1, <1>4, <2>1 DEF MbInv, MbWaitersOK
<1>6. mbAlive => alive /\ \A t \in Thread : op[t] \notin {"deinit_mb", "deinit_mp"}
  BY <1>1 DEF DeinitOK
<1> QED BY <1>1, <1>2, <1>4, <1>5, <1>6 DEF QueueInv, QueueFieldsOK

\* As long as a block is not in the mailbox, the mailbox has room for it.
LEMMA RoomForBlock ==
    ASSUME RingTypeOK, OnePlace, NEW b \in Block, ~Contains(Contents, b)
    PROVE  entry < MbSize /\ ~Full
<1>1. Len(Contents) = entry /\ entry \in Nat
  BY ContentsLength
<1>2. IsFiniteSet(Block) /\ MbSize = Cardinality(Block)
  BY PoolAssumption, QueueAssumption
<1>3. Contents \in Seq(Block) /\ Distinct(Contents)
  BY DEF OnePlace
<1>4. /\ Cardinality(Block) \in Nat /\ Len(Contents) <= Cardinality(Block)
      /\ Len(Contents) = Cardinality(Block) => \A e \in Block : Contains(Contents, e)
  BY <1>2, <1>3, DistinctLength
<1> QED BY <1>1, <1>2, <1>4 DEF Full

\* A block goes from the free list to a thread,
LEMMA PlaceTake ==
    ASSUME OnePlace, NEW t \in Thread, NEW b \in Block, b \notin used, mail[t] = NoMail,
           mail \in [Thread -> Block \cup {NoMail}], NoMail \notin Block,
           mail' = [mail EXCEPT ![t] = b], used' = used \cup {b}, UNCHANGED ring
    PROVE  OnePlace'
<1>1. Contents' = Contents
  BY ContentsSame
<1>2. ~Contains(Contents, b) /\ \A u \in Thread : mail[u] # b
  BY DEF OnePlace
<1>3. \A u \in Thread : mail'[u] = IF u = t THEN b ELSE mail[u]
  OBVIOUS
<1>4. \A x \in Block : x \in used' <=> Contains(Contents, x) \/ \E u \in Thread : mail'[u] = x
  BY <1>3 DEF OnePlace
<1> QED BY <1>1, <1>2, <1>3, <1>4 DEF OnePlace

\* from the thread back,
LEMMA PlaceFree ==
    ASSUME OnePlace, NEW t \in Thread, mail[t] \in Block,
           mail \in [Thread -> Block \cup {NoMail}], NoMail \notin Block,
           mail' = [mail EXCEPT ![t] = NoMail], used' = used \ {mail[t]}, UNCHANGED ring
    PROVE  OnePlace'
<1>1. Contents' = Contents
  BY ContentsSame
<1>2. ~Contains(Contents, mail[t]) /\ \A u \in Thread : u # t => mail[u] # mail[t]
  BY DEF OnePlace
<1>3. \A u \in Thread : mail'[u] = IF u = t THEN NoMail ELSE mail[u]
  OBVIOUS
<1>4. ~Contains(Contents, NoMail)
  BY DEF OnePlace, Contains
<1>5. \A x \in Block : x \in used' <=> Contains(Contents, x) \/ \E u \in Thread : mail'[u] = x
  BY <1>2, <1>3 DEF OnePlace
<1> QED BY <1>1, <1>2, <1>3, <1>4, <1>5 DEF OnePlace

\* into the mailbox, from a thread or, new, from an interrupt handler,
LEMMA PlaceSend ==
    ASSUME OnePlace, RingTypeOK, NEW t \in Thread, NEW b \in Block, ~Contains(Contents, b),
           mail \in [Thread -> Block \cup {NoMail}], NoMail \notin Block,
           Contents' = Append(Contents, b),
           \/ mail[t] = b /\ mail' = [mail EXCEPT ![t] = NoMail] /\ used' = used
           \/ b \notin used /\ mail' = mail /\ used' = used \cup {b}
    PROVE  OnePlace'
<1>1. Contents \in Seq(Block) /\ Distinct(Contents)
  BY DEF OnePlace
<1>2. /\ Contents' \in Seq(Block) /\ Distinct(Contents')
      /\ \A e : Contains(Contents', e) <=> Contains(Contents, e) \/ e = b
  BY <1>1, ListInsertBefore DEF rt_list_insert_before
<1>3. ~Contains(Contents, NoMail)
  BY DEF OnePlace, Contains
<1>4. CASE mail[t] = b /\ mail' = [mail EXCEPT ![t] = NoMail] /\ used' = used
  <2>1. \A u \in Thread : mail'[u] = IF u = t THEN NoMail ELSE mail[u]
    BY <1>4
  <2>2. \A u \in Thread : u # t => mail[u] # b
    BY <1>4 DEF OnePlace
  <2>3. \A x \in Block : x \in used' <=> Contains(Contents', x) \/ \E u \in Thread : mail'[u] = x
    BY <1>2, <1>4, <2>1, <2>2 DEF OnePlace
  <2> QED BY <1>2, <1>3, <2>1, <2>2, <2>3 DEF OnePlace
<1>5. CASE b \notin used /\ mail' = mail /\ used' = used \cup {b}
  <2>1. \A u \in Thread : mail[u] # b
    BY <1>5 DEF OnePlace
  <2>2. \A x \in Block : x \in used' <=> Contains(Contents', x) \/ \E u \in Thread : mail'[u] = x
    BY <1>2, <1>5 DEF OnePlace
  <2> QED BY <1>2, <1>5, <2>1, <2>2 DEF OnePlace
<1> QED BY <1>4, <1>5

\* and out of it.
LEMMA PlaceRecv ==
    ASSUME OnePlace, NEW t \in Thread, mail[t] = NoMail, Contents # <<>>,
           mail \in [Thread -> Block \cup {NoMail}], NoMail \notin Block,
           Contents' = Tail(Contents), mail' = [mail EXCEPT ![t] = Head(Contents)], UNCHANGED used
    PROVE  OnePlace' /\ Head(Contents) \in Block
<1> DEFINE b == Head(Contents)
<1>1. Contents \in Seq(Block) /\ Distinct(Contents)
  BY DEF OnePlace
<1>2. /\ b \in Block /\ Contains(Contents, b)
      /\ Contents' \in Seq(Block) /\ Distinct(Contents')
      /\ \A e : Contains(Contents', e) <=> Contains(Contents, e) /\ e # b
  BY <1>1, ListTail
<1> HIDE DEF b
<1>3. \A u \in Thread : mail'[u] = IF u = t THEN b ELSE mail[u]
  BY DEF b
<1>4. \A u \in Thread : mail[u] # b
  BY <1>2 DEF OnePlace
<1>5. \A x \in Block : x \in used' <=> Contains(Contents', x) \/ \E u \in Thread : mail'[u] = x
  BY <1>2, <1>3 DEF OnePlace
<1>6. OnePlace'
  BY <1>2, <1>3, <1>4, <1>5 DEF OnePlace
<1> QED BY <1>2, <1>6 DEF b

\* A step that moves no block.
LEMMA PlaceSame ==
    ASSUME OnePlace, UNCHANGED <<ring, mail, used>>
    PROVE  OnePlace'
<1>1. Contents' = Contents
  BY ContentsSame
<1> QED BY <1>1 DEF OnePlace

\* A step that starts no wait for a receive and takes no part in the deletion but
\* for a turn of its loops, or the end of one when its list is empty.
LEMMA DeinitFrame ==
    ASSUME DeinitOK, UNCHANGED <<mbAlive, alive>>,
           receivers = <<>> => receivers' = <<>>,
           waitq' # <<>> /\ ~alive => waitq # <<>>,
           \A u \in Thread : op[u] \in {"deinit_mb", "deinit_mp"} \/ op'[u] \in {"deinit_mb", "deinit_mp"}
                => /\ op'[u] = op[u]
                   /\ \/ pc'[u] = pc[u]
                      \/ {pc[u], pc'[u]} \subseteq {"mb_detach", "mb_detach_one"}
                      \/ {pc[u], pc'[u]} \subseteq {"detach", "detach_one"}
                      \/ op[u] = "deinit_mb" /\ receivers' = <<>>
                      \/ op[u] = "deinit_mp" /\ waitq' = <<>>,
           \A u \in Thread : InRecv(u)'
                => InRecv(u) /\ ((stat'[u] = stat[u] /\ error'[u] = error[u]) \/ error'[u] # "EOK")
    PROVE  DeinitOK'
<1>1. ~alive' => ~mbAlive' /\ receivers' = <<>>
  BY DEF DeinitOK
<1>2. ASSUME NEW u \in Thread
      PROVE  /\ op'[u] \in {"deinit_mb", "deinit_mp"} => ~mbAlive'
             /\ op'[u] = "deinit_mp" => ~alive'
             /\ op'[u] = "deinit_mb" /\ pc'[u] \in {"mb_detach_s", "unsched"} => receivers' = <<>>
  BY DEF DeinitOK
<1>3. ~mbAlive' => \A u \in Thread : InRecv(u)' /\ stat'[u] = "ready" => error'[u] # "EOK"
  BY DEF DeinitOK
<1>4. ASSUME ~mbAlive', receivers' # <<>>
      PROVE  \E u \in Thread : op'[u] = "deinit_mb" /\ pc'[u] \in {"mb_detach", "mb_detach_one"}
  <2>1. PICK u \in Thread : op[u] = "deinit_mb" /\ pc[u] \in {"mb_detach", "mb_detach_one"}
    BY <1>4 DEF DeinitOK
  <2> QED BY <1>4, <2>1
<1>5. ASSUME ~alive', waitq' # <<>>
      PROVE  \E u \in Thread : op'[u] = "deinit_mp" /\ pc'[u] \in {"detach", "detach_one"}
  <2>1. PICK u \in Thread : op[u] = "deinit_mp" /\ pc[u] \in {"detach", "detach_one"}
    BY <1>5 DEF DeinitOK
  <2> QED BY <1>5, <2>1
<1> QED BY <1>1, <1>2, <1>3, <1>4, <1>5 DEF DeinitOK

\* While the mailbox is there, nothing is being deleted.
LEMMA DeinitAlive ==
    ASSUME mbAlive', alive', \A u \in Thread : op'[u] \notin {"deinit_mb", "deinit_mp"}
    PROVE  DeinitOK'
  BY DEF DeinitOK

\* A step of the pool, by thread t, leaves the mailbox alone.
LEMMA PoolStepMb ==
    ASSUME QueueInv, BlockInv', UNCHANGED <<ring, receivers, senders, mbTime, mbAlive>>,
           NEW t \in Thread, mail' \in [Thread -> Block \cup {NoMail}],
           pc[t] \in {"run", "unsched", "alloc", "alloc_chk", "detach", "detach_one"},
           pc'[t] \in {"run", "unsched", "sched", "alloc", "alloc_chk", "detach", "detach_one"},
           \A u \in Thread : u # t => pc'[u] = pc[u] /\ mail'[u] = mail[u],
           \A u \in Thread : u # t /\ ~InAlloc(u) => stat'[u] = stat[u] /\ error'[u] = error[u]
    PROVE  MbInv'
<1>1. MbInv /\ Mail = Block /\ pc \in [Thread -> MbLabel]
  BY QueueFacts
<1>2. pc' \in [Thread -> BlockLabel]
  BY DEF BlockInv
<1>3. \A u \in Thread : pc'[u] \in MbLabel
  BY <1>1 DEF MbLabel, OwnLabel
<1>4. pc' \in [Thread -> MbLabel]
  BY <1>2, <1>3
<1>5. \A u \in Thread : (InSend(u)' <=> InSend(u)) /\ (InRecv(u)' <=> InRecv(u))
  BY DEF InSend, InRecv
<1>6. \A u \in Thread : InSend(u) \/ InRecv(u)
                => stat'[u] = stat[u] /\ error'[u] = error[u] /\ mail'[u] = mail[u]
  BY DEF InSend, InRecv, InAlloc
<1>7. \A u \in Thread : pc'[u] \in DetachLabel => pc[u] \in DetachLabel
  BY DEF DetachLabel
<1> QED BY <1>1, <1>4, <1>5, <1>6, <1>7, MbQuiet

\* OpOK when thread t alone moves.
LEMMA OpStep ==
    ASSUME OpOK, NEW t \in Thread,
           \A u \in Thread : u # t => op'[u] = op[u] /\ pc'[u] = pc[u] /\ mail'[u] = mail[u],
           Stands(op'[t], pc'[t]), mail'[t] # NoMail <=> op'[t] \in Holding
    PROVE  OpOK'
  BY DEF OpOK

\* bk_rtos_push_to_queue: a section of its rt_mp_alloc.
LEMMA PushSectionInv ==
    ASSUME QueueInv, NEW t \in Thread, t = current, t # Idle, alive,
           pc[t] \in {"run", "unsched", "alloc_chk"}, op[t] \in {"none", "alloc"},
           NEW m \in Msg \cup {NoMsg}, NEW tm \in {"no", "timed", "forever"},
           NEW left \in {"no", "forever"}, PushSection(t, m, tm, left)
    PROVE  QueueInv'
<1>1. /\ BlockInv /\ PoolInv /\ MbInv /\ mail \in [Thread -> Block \cup {NoMail}]
      /\ NoMail \notin Block /\ op \in [Thread -> Op] /\ OpOK /\ OnePlace /\ DeinitOK
      /\ qTime \in [Thread -> {"no", "timed", "forever"}]
      /\ content \in [Block -> Msg \cup {NoMsg}] /\ buf \in [Thread -> Msg \cup {NoMsg}]
      /\ alive \in BOOLEAN
  BY QueueFacts, PoolFacts
<1>2. mail[t] = NoMail
  BY <1>1 DEF OpOK, Holding
<1>3. CASE PushTake(t, m, tm)
  <2>1. /\ AllocTake(t) /\ mail' = [mail EXCEPT ![t] = Head(blockList)]
        /\ op' = [op EXCEPT ![t] = "copy"] /\ qTime' = [qTime EXCEPT ![t] = tm]
        /\ buf' = [buf EXCEPT ![t] = m] /\ UNCHANGED ring
        /\ UNCHANGED <<receivers, senders, mbTime, mbAlive, content>>
        /\ used' = used \cup {Head(blockList)} /\ UNCHANGED <<waitq, alive>>
    BY <1>3 DEF PushTake, SetOp, AllocTake
  <2>2. /\ BlockInv' /\ PoolInv' /\ Head(blockList) \in Block /\ Head(blockList) \notin used
        /\ pc'[t] \in {"run", "unsched"} /\ UNCHANGED <<stat, error>>
        /\ \A u \in Thread : u # t => pc'[u] = pc[u]
    BY <1>1, <2>1, AllocTakeInv
  <2>3. /\ \A u \in Thread : u # t => op'[u] = op[u] /\ mail'[u] = mail[u]
        /\ op'[t] = "copy" /\ mail'[t] = Head(blockList)
        /\ mail' \in [Thread -> Block \cup {NoMail}]
    BY <1>1, <2>1, <2>2
  <2>4. MbInv'
    BY <2>1, <2>2, <2>3, PoolStepMb
  <2>5. OnePlace'
    BY <1>1, <1>2, <2>1, <2>2, PlaceTake
  <2>6. OpOK'
    <3>1. Stands(op'[t], pc'[t]) /\ (mail'[t] # NoMail <=> op'[t] \in Holding)
      BY <1>1, <2>2, <2>3 DEF Stands, Holding
    <3> QED BY <1>1, <2>2, <2>3, <3>1, OpStep
  <2>7. DeinitOK'
    BY <1>1, <2>1, <2>2, <2>3, DeinitFrame DEF InRecv
  <2>8. QueueFieldsOK'
    BY <1>1, <2>1 DEF QueueFieldsOK, Op
  <2> QED BY <2>2, <2>4, <2>5, <2>6, <2>7, <2>8 DEF QueueInv
<1>4. CASE PushRefused(t, left)
  <2>1. /\ AllocRefused(t, left) /\ op' = [op EXCEPT ![t] = "none"]
        /\ qTime' = [qTime EXCEPT ![t] = "no"] /\ buf' = [buf EXCEPT ![t] = NoMsg]
        /\ UNCHANGED <<ring, mail, used>> /\ UNCHANGED <<receivers, senders, mbTime, mbAlive, content>>
        /\ UNCHANGED <<waitq, alive>>
    BY <1>4 DEF PushRefused, SetOp, QueueReturn, AllocRefused, mbVars
  <2>2. /\ BlockInv' /\ PoolInv' /\ pc'[t] \in {"run", "unsched"} /\ UNCHANGED stat
        /\ \A u \in Thread : u # t => pc'[u] = pc[u] /\ error'[u] = error[u]
    BY <1>1, <2>1, AllocLeaveInv
  <2>3. /\ \A u \in Thread : u # t => op'[u] = op[u] /\ mail'[u] = mail[u]
        /\ op'[t] = "none" /\ mail'[t] = NoMail
    BY <1>1, <1>2, <2>1
  <2>4. MbInv'
    BY <1>1, <2>1, <2>2, <2>3, PoolStepMb
  <2>5. OnePlace'
    BY <1>1, <2>1, PlaceSame
  <2>6. OpOK'
    <3>1. Stands(op'[t], pc'[t]) /\ (mail'[t] # NoMail <=> op'[t] \in Holding)
      BY <2>2, <2>3 DEF Stands, Holding
    <3> QED BY <1>1, <2>2, <2>3, <3>1, OpStep
  <2>7. DeinitOK'
    BY <1>1, <2>1, <2>2, <2>3, DeinitFrame DEF InRecv
  <2>8. QueueFieldsOK'
    BY <1>1, <2>1 DEF QueueFieldsOK, Op
  <2> QED BY <2>2, <2>4, <2>5, <2>6, <2>7, <2>8 DEF QueueInv
<1>5. CASE PushWait(t, m, tm, left)
  <2>1. /\ AllocWait(t, left) /\ op' = [op EXCEPT ![t] = "alloc"]
        /\ qTime' = [qTime EXCEPT ![t] = tm] /\ buf' = [buf EXCEPT ![t] = m]
        /\ UNCHANGED <<ring, mail, used>> /\ UNCHANGED <<receivers, senders, mbTime, mbAlive, content>>
        /\ UNCHANGED alive
    BY <1>5 DEF PushWait, SetOp, AllocWait, mbVars
  <2>2. /\ BlockInv' /\ PoolInv' /\ pc' = [pc EXCEPT ![t] = "alloc"]
        /\ \A u \in Thread : u # t => stat'[u] = stat[u] /\ error'[u] = error[u]
    BY <1>1, <2>1, AllocWaitInv
  <2>3. /\ \A u \in Thread : u # t => op'[u] = op[u] /\ mail'[u] = mail[u] /\ pc'[u] = pc[u]
        /\ op'[t] = "alloc" /\ mail'[t] = NoMail /\ pc'[t] = "alloc"
    BY <1>1, <1>2, <2>1, <2>2 DEF BlockInv
  <2>4. MbInv'
    BY <1>1, <2>1, <2>2, <2>3, PoolStepMb
  <2>5. OnePlace'
    BY <1>1, <2>1, PlaceSame
  <2>6. OpOK'
    <3>1. Stands(op'[t], pc'[t]) /\ (mail'[t] # NoMail <=> op'[t] \in Holding)
      BY <2>3 DEF Stands, Holding
    <3> QED BY <1>1, <2>3, <3>1, OpStep
  <2>7. DeinitOK'
    BY <1>1, <2>1, <2>2, <2>3, DeinitFrame DEF InRecv
  <2>8. QueueFieldsOK'
    BY <1>1, <2>1 DEF QueueFieldsOK, Op
  <2> QED BY <2>2, <2>4, <2>5, <2>6, <2>7, <2>8 DEF QueueInv
<1> QED BY <1>3, <1>4, <1>5 DEF PushSection

\* bk_rtos_push_to_queue: the call, and the loop of its rt_mp_alloc.
LEMMA PushInv ==
    ASSUME QueueCalled, QueueInv, NEW t \in Thread,
           \/ \E m \in Msg, tm \in Times : bk_rtos_push_to_queue(t, m, tm)
           \/ PushAgain(t)
    PROVE  QueueInv'
<1>1. CASE \E m \in Msg, tm \in Times : bk_rtos_push_to_queue(t, m, tm)
  <2>1. PICK m \in Msg, tm \in Times : bk_rtos_push_to_queue(t, m, tm)
    BY <1>1
  <2>2. /\ t = current /\ t # Idle /\ pc[t] \in {"run", "unsched"} /\ op[t] = "none" /\ alive
        /\ PushSection(t, m, tm, tm)
    BY <2>1 DEF bk_rtos_push_to_queue, InApp
  <2>3. tm \in {"no", "forever"} /\ m \in Msg \cup {NoMsg} /\ tm \in {"no", "timed", "forever"}
    BY PoolAssumption DEF QueueCalled
  <2> QED BY <2>2, <2>3, PushSectionInv
<1>2. CASE PushAgain(t)
  <2>1. PICK left \in LeftOf(time[t]) : PushSection(t, buf[t], qTime[t], left)
    BY <1>2 DEF PushAgain
  <2>2. op[t] = "alloc" /\ t = current /\ pc[t] = "alloc_chk" /\ error[t] = "EOK"
    BY <1>2 DEF PushAgain, At
  <2>3. pc[t] \notin SuspendLabel /\ pc[t] # "run"
    BY <2>2 DEF SuspendLabel
  <2>4. /\ stat[t] = "ready" /\ t # Idle
    BY <2>2, <2>3, QueueFacts, BlockRunning
  <2>5. PoolInv /\ InAlloc(t) /\ alive \in BOOLEAN
    BY <2>2, QueueFacts, PoolFacts DEF InAlloc
  <2>6. alive
    BY <2>2, <2>4, <2>5 DEF PoolInv, PoolGone
  <2>7. left \in {"no", "forever"}
    BY <2>1, <2>5, PoolFacts DEF PoolInv, UntimedOK, LeftOf
  <2>8. buf[t] \in Msg \cup {NoMsg} /\ qTime[t] \in {"no", "timed", "forever"}
    BY QueueFacts
  <2> QED BY <2>1, <2>2, <2>4, <2>6, <2>7, <2>8, PushSectionInv
<1> QED BY <1>1, <1>2

\* rt_mp_alloc's rt_schedule and its error.
LEMMA PushWaitsInv ==
    ASSUME QueueInv, NEW t \in Thread, PushSchedule(t) \/ PushGiveUp(t)
    PROVE  QueueInv'
<1>1. /\ BlockInv /\ PoolInv /\ MbInv /\ mail \in [Thread -> Block \cup {NoMail}]
      /\ op \in [Thread -> Op] /\ OpOK /\ OnePlace /\ DeinitOK
      /\ qTime \in [Thread -> {"no", "timed", "forever"}]
      /\ content \in [Block -> Msg \cup {NoMsg}] /\ buf \in [Thread -> Msg \cup {NoMsg}]
      /\ pc \in [Thread -> MbLabel]
  BY QueueFacts
<1>2. op[t] = "alloc" /\ mail[t] = NoMail
  BY <1>1 DEF PushSchedule, PushGiveUp, OpOK, Holding
<1>3. CASE PushSchedule(t)
  <2>1. /\ AllocSchedule(t) /\ UNCHANGED <<op, qTime, content, buf>> /\ UNCHANGED <<ring, mail, used>>
        /\ UNCHANGED <<receivers, senders, mbTime, mbAlive>> /\ UNCHANGED <<waitq, alive>>
    BY <1>3 DEF PushSchedule, mbVars, queueVars, AllocSchedule, poolVars
  <2>2. /\ BlockInv' /\ PoolInv' /\ pc[t] = "alloc" /\ pc' = [pc EXCEPT ![t] = "alloc_chk"]
        /\ UNCHANGED <<stat, error>>
    BY <1>1, <2>1, AllocScheduleInv
  <2>3. pc'[t] = "alloc_chk" /\ \A u \in Thread : u # t => pc'[u] = pc[u]
    BY <1>1, <2>2
  <2>4. MbInv'
    BY <1>1, <2>1, <2>2, <2>3, PoolStepMb
  <2>5. OnePlace'
    BY <1>1, <2>1, PlaceSame
  <2>6. OpOK'
    <3>1. Stands(op'[t], pc'[t]) /\ (mail'[t] # NoMail <=> op'[t] \in Holding)
      BY <1>2, <2>1, <2>3 DEF Stands, Holding
    <3> QED BY <1>1, <2>1, <2>3, <3>1, OpStep
  <2>7. DeinitOK'
    BY <1>1, <1>2, <2>1, <2>2, <2>3, DeinitFrame DEF InRecv
  <2>8. QueueFieldsOK'
    BY <1>1, <2>1 DEF QueueFieldsOK
  <2> QED BY <2>2, <2>4, <2>5, <2>6, <2>7, <2>8 DEF QueueInv
<1>4. CASE PushGiveUp(t)
  <2>1. /\ AllocGiveUp(t) /\ op' = [op EXCEPT ![t] = "none"]
        /\ qTime' = [qTime EXCEPT ![t] = "no"] /\ buf' = [buf EXCEPT ![t] = NoMsg]
        /\ UNCHANGED <<ring, mail, used>> /\ UNCHANGED <<receivers, senders, mbTime, mbAlive, content>>
        /\ UNCHANGED <<waitq, alive>> /\ t = current /\ pc[t] = "alloc_chk"
    BY <1>4 DEF PushGiveUp, SetOp, QueueReturn, AllocGiveUp, mbVars, At
  <2>2. t # Idle
    <3>1. pc[t] \notin SuspendLabel /\ pc[t] # "run"
      BY <2>1 DEF SuspendLabel
    <3> QED BY <1>1, <2>1, <3>1, BlockRunning
  <2>3. /\ BlockInv' /\ PoolInv' /\ pc'[t] \in {"run", "unsched"} /\ UNCHANGED stat
        /\ \A u \in Thread : u # t => pc'[u] = pc[u] /\ error'[u] = error[u]
    BY <1>1, <2>1, <2>2, AllocLeaveInv
  <2>4. /\ \A u \in Thread : u # t => op'[u] = op[u] /\ mail'[u] = mail[u]
        /\ op'[t] = "none" /\ mail'[t] = NoMail
    BY <1>1, <1>2, <2>1
  <2>5. MbInv'
    BY <1>1, <2>1, <2>3, <2>4, PoolStepMb
  <2>6. OnePlace'
    BY <1>1, <2>1, PlaceSame
  <2>7. OpOK'
    <3>1. Stands(op'[t], pc'[t]) /\ (mail'[t] # NoMail <=> op'[t] \in Holding)
      BY <2>3, <2>4 DEF Stands, Holding
    <3> QED BY <1>1, <2>3, <2>4, <3>1, OpStep
  <2>8. DeinitOK'
    BY <1>1, <1>2, <2>1, <2>3, <2>4, DeinitFrame DEF InRecv
  <2>9. QueueFieldsOK'
    BY <1>1, <2>1 DEF QueueFieldsOK, Op
  <2> QED BY <2>3, <2>5, <2>6, <2>7, <2>8, <2>9 DEF QueueInv
<1> QED BY <1>3, <1>4

\* A step that touches neither the threads nor the kernel's objects.
LEMMA LocalFacts ==
    ASSUME Disciplined, QueueInv, UNCHANGED <<schedVars, poolVars, mbVars>>
    PROVE  /\ MbInv' /\ PoolInv' /\ OnePlace'
           /\ UNCHANGED <<pc, stat, error, mail, receivers, mbAlive, alive, waitq>>
<1>1. /\ UNCHANGED schedVars /\ UNCHANGED mbVars /\ UNCHANGED poolVars
      /\ UNCHANGED <<pc, stat, error, timer>> /\ UNCHANGED <<ring, mail, used>>
      /\ UNCHANGED <<receivers, mbAlive, alive, waitq>>
  BY DEF schedVars, mbVars, poolVars
<1>2. MbInv'
  BY <1>1, QueueFacts, MbSchedInv
<1>3. PoolInv'
  BY <1>1, QueueFacts, PoolFrame DEF InAlloc
<1>4. OnePlace'
  BY <1>1, QueueFacts, PlaceSame
<1> QED BY <1>1, <1>2, <1>3, <1>4

\* The memcpy of push and of pop, the caller's use of its message, and the end of
\* bk_rtos_deinit_queue.
LEMMA LocalInv ==
    ASSUME Disciplined, QueueInv, NEW t \in Thread,
           CopyIn(t) \/ PopCopy(t) \/ Consume(t) \/ DeinitReturn(t)
    PROVE  QueueInv'
<1>1. UNCHANGED <<schedVars, poolVars, mbVars>> /\ pc[t] \in {"run", "unsched"}
  BY DEF CopyIn, PopCopy, CopyOut, Consume, DeinitReturn, InApp
<1>2. /\ MbInv' /\ PoolInv' /\ OnePlace'
      /\ UNCHANGED <<pc, stat, error, mail, receivers, mbAlive, alive, waitq>>
  BY <1>1, LocalFacts
<1>3. /\ op \in [Thread -> Op] /\ OpOK /\ DeinitOK /\ mail \in [Thread -> Block \cup {NoMail}]
      /\ qTime \in [Thread -> {"no", "timed", "forever"}] /\ NoMail \notin Block
      /\ content \in [Block -> Msg \cup {NoMsg}] /\ buf \in [Thread -> Msg \cup {NoMsg}]
  BY QueueFacts
<1>4. op[t] \in Holding => mail[t] \in Block
  BY <1>3 DEF OpOK
<1>5. PICK o \in Op : /\ op' = [op EXCEPT ![t] = o] /\ UNCHANGED qTime
                      /\ \/ op[t] \in Holding /\ o \in Holding
                         \/ op[t] = "none" /\ o = "none"
                         \/ op[t] = "deinit_mp" /\ o = "none"
  <2>1. CASE CopyIn(t) \/ PopCopy(t) \/ DeinitReturn(t)
    BY <2>1 DEF CopyIn, PopCopy, CopyOut, DeinitReturn, SetOp, Op, Holding
  <2>2. CASE Consume(t)
    <3>1. op' = [op EXCEPT ![t] = "none"] /\ op[t] = "none" /\ UNCHANGED qTime
      BY <1>3, <2>2 DEF Consume
    <3> QED BY <3>1 DEF Op
  <2> QED BY <2>1, <2>2
<1>6. content' \in [Block -> Msg \cup {NoMsg}] /\ buf' \in [Thread -> Msg \cup {NoMsg}]
  <2>1. CASE CopyIn(t)
    BY <1>3, <1>4, <2>1 DEF CopyIn, Holding
  <2>2. CASE PopCopy(t)
    BY <1>3, <1>4, <2>2 DEF PopCopy, CopyOut, Holding
  <2>3. CASE Consume(t) \/ DeinitReturn(t)
    BY <1>3, <2>3 DEF Consume, DeinitReturn
  <2> QED BY <2>1, <2>2, <2>3
<1>7. op'[t] = o /\ \A u \in Thread : u # t => op'[u] = op[u]
  BY <1>3, <1>5
<1>8. OpOK'
  <2>1. Stands(op'[t], pc'[t])
    BY <1>1, <1>2, <1>5, <1>7 DEF Stands, Holding
  <2>2. mail'[t] # NoMail <=> op'[t] \in Holding
    BY <1>2, <1>3, <1>5, <1>7 DEF OpOK, Holding
  <2> QED BY <1>2, <1>3, <1>7, <2>1, <2>2, OpStep
<1>9. DeinitOK'
  <2>1. CASE op[t] \in Holding \/ op[t] = "none"
    BY <1>2, <1>3, <1>5, <1>7, <2>1, DeinitFrame DEF InRecv, Holding
  <2>2. CASE op[t] = "deinit_mp"
    <3>1. o = "none"
      BY <1>5, <2>2 DEF Holding
    <3> QED BY <1>1, <1>2, <1>3, <1>7, <2>2, <3>1 DEF DeinitOK, InRecv
  <2> QED BY <1>5, <2>1, <2>2
<1>10. QueueFieldsOK'
  BY <1>3, <1>5, <1>6 DEF QueueFieldsOK
<1> QED BY <1>2, <1>8, <1>9, <1>10 DEF QueueInv

\* The rt_mp_free of pop.
LEMMA PopFreeInv ==
    ASSUME QueueInv, NEW t \in Thread, PopFree(t)
    PROVE  QueueInv'
<1>1. /\ op[t] = "free" /\ rt_mp_free(t, mail[t]) /\ op' = [op EXCEPT ![t] = "none"]
      /\ qTime' = [qTime EXCEPT ![t] = "no"] /\ buf' = [buf EXCEPT ![t] = buf[t]]
      /\ mail' = [mail EXCEPT ![t] = NoMail]
      /\ UNCHANGED ring /\ UNCHANGED <<receivers, senders, mbTime, mbAlive, content>>
  BY DEF PopFree, QueueReturn, SetOp
<1>2. /\ BlockInv /\ PoolInv /\ mail \in [Thread -> Block \cup {NoMail}]
      /\ NoMail \notin Block /\ op \in [Thread -> Op] /\ OpOK /\ OnePlace /\ DeinitOK
      /\ qTime \in [Thread -> {"no", "timed", "forever"}]
      /\ content \in [Block -> Msg \cup {NoMsg}] /\ buf \in [Thread -> Msg \cup {NoMsg}]
  BY QueueFacts
<1>3. mail[t] \in Block
  BY <1>1, <1>2 DEF OpOK, Holding
<1>4. /\ pc[t] \in {"run", "unsched"} /\ alive /\ UNCHANGED alive /\ used' = used \ {mail[t]}
  BY <1>1 DEF rt_mp_free, InApp
<1>5. /\ BlockInv' /\ PoolInv' /\ pc'[t] \in {"run", "unsched", "sched"}
      /\ \A u \in Thread : u # t => pc'[u] = pc[u]
      /\ \A u \in Thread : ~InAlloc(u) => stat'[u] = stat[u] /\ error'[u] = error[u]
  BY <1>1, <1>2, <1>3, PoolFreeInv
<1>6. /\ \A u \in Thread : u # t => op'[u] = op[u] /\ mail'[u] = mail[u]
      /\ op'[t] = "none" /\ mail'[t] = NoMail /\ mail' \in [Thread -> Block \cup {NoMail}]
  BY <1>1, <1>2
<1>7. MbInv'
  BY <1>1, <1>4, <1>5, <1>6, PoolStepMb
<1>8. OnePlace'
  BY <1>1, <1>2, <1>3, <1>4, PlaceFree
<1>9. OpOK'
  <2>1. Stands(op'[t], pc'[t]) /\ (mail'[t] # NoMail <=> op'[t] \in Holding)
    BY <1>5, <1>6 DEF Stands, Holding
  <2> QED BY <1>2, <1>5, <1>6, <2>1, OpStep
<1>10. DeinitOK'
  <2>1. \A u \in Thread : InRecv(u)' => InRecv(u) /\ ~InAlloc(u)
    BY <1>5 DEF InRecv, InAlloc
  <2> QED BY <1>1, <1>2, <1>4, <1>5, <1>6, <2>1, DeinitFrame
<1>11. QueueFieldsOK'
  BY <1>1, <1>2 DEF QueueFieldsOK, Op
<1> QED BY <1>5, <1>7, <1>8, <1>9, <1>10, <1>11 DEF QueueInv

\* Storing a mail changes no thread but a waiting receiver.
LEMMA StoreEffect ==
    ASSUME MbInv, NEW m, Store(m), UNCHANGED prio
    PROVE  \A u \in Thread : ~InRecv(u) => stat'[u] = stat[u] /\ timer'[u] = timer[u]
<1>1. CASE receivers # <<>>
  <2>1. ResumeHead(receivers)
    BY <1>1 DEF Store, WakesReceiver
  <2>2. /\ Head(receivers) \in Thread /\ InRecv(Head(receivers))
        /\ stat' = [stat EXCEPT ![Head(receivers)] = "ready"]
        /\ timer' = [timer EXCEPT ![Head(receivers)] = FALSE]
    BY <1>1, <2>1, ResumeHeadFacts
  <2> QED BY <2>2, MbFacts DEF BlockInv, CoreTypeOK
<1>2. CASE receivers = <<>>
  BY <1>2 DEF Store, WakesReceiver
<1> QED BY <1>1, <1>2

\* The rt_mb_send_wait of push: it finds room, whatever happened since the
\* rt_mp_alloc, and returns at once.
LEMMA PushSendFacts ==
    ASSUME QueueInv, NEW t \in Thread, PushSend(t)
    PROVE  /\ op[t] = "send" /\ mail[t] \in Block /\ ~Full /\ mbAlive
           /\ Contents' = Append(Contents, mail[t]) /\ mail' = [mail EXCEPT ![t] = NoMail]
           /\ MbInv' /\ UNCHANGED <<prio, error, mbAlive>> /\ Store(mail[t])
           /\ pc[t] \in {"run", "unsched"} /\ pc'[t] \in {"run", "unsched", "sched"}
           /\ \A u \in Thread : u # t => pc'[u] = pc[u]
           /\ UNCHANGED poolVars /\ UNCHANGED content /\ QueueReturn(t, NoMsg)
<1>1. /\ op[t] = "send" /\ InApp(t) /\ mbAlive /\ SendSection(t, mail[t], qTime[t]) /\ AfterSend(t)
  BY DEF PushSend, rt_mb_send_wait
<1>2. /\ MbInv /\ RingTypeOK /\ OnePlace /\ OpOK /\ mail \in [Thread -> Block \cup {NoMail}]
      /\ Mail = Block /\ qTime \in [Thread -> {"no", "timed", "forever"}]
  BY QueueFacts
<1>3. mail[t] \in Block /\ mail[t] \in Mail /\ ~Contains(Contents, mail[t])
  BY <1>1, <1>2 DEF OpOK, Holding, OnePlace
<1>4. entry < MbSize /\ ~Full
  BY <1>2, <1>3, RoomForBlock
<1>5. SendStore(t, mail[t])
  BY <1>1, <1>4 DEF SendSection, SendFull, SendWait
<1>6. t = current /\ t # Idle /\ pc[t] \in {"run", "unsched"}
  BY <1>1 DEF InApp
<1>7. qTime[t] \in {"no", "timed", "forever"}
  BY <1>2
<1>8. MbInv'
  BY <1>1, <1>2, <1>3, <1>6, <1>7, SendSectionInv
<1>9. /\ Store(mail[t]) /\ Returns(t, WakesReceiver) /\ mail' = [mail EXCEPT ![t] = NoMail]
      /\ UNCHANGED <<prio, error, mbAlive>>
  BY <1>5 DEF SendStore
<1>10. /\ msgPool' = [msgPool EXCEPT ![inOff] = mail[t]] /\ inOff' = NextOffset(inOff)
       /\ entry' = entry + 1 /\ UNCHANGED outOff
  BY <1>9 DEF Store
<1>11. Contents' = Append(Contents, mail[t])
  BY <1>2, <1>3, <1>4, <1>10, RingStore
<1>12. pc'[t] \in {"run", "unsched", "sched"} /\ \A u \in Thread : u # t => pc'[u] = pc[u]
  BY <1>2, <1>6, <1>9, MbFacts DEF Returns, Goto
<1>13. UNCHANGED poolVars /\ UNCHANGED content /\ QueueReturn(t, NoMsg)
  BY <1>1, <1>12 DEF AfterSend
<1> QED BY <1>1, <1>3, <1>4, <1>6, <1>8, <1>9, <1>11, <1>12, <1>13

\* The send of push keeps the invariant.
LEMMA PushSendInv ==
    ASSUME QueueInv, NEW t \in Thread, PushSend(t)
    PROVE  QueueInv'
<1>1. /\ op[t] = "send" /\ mail[t] \in Block /\ ~Full /\ mbAlive
      /\ Contents' = Append(Contents, mail[t]) /\ mail' = [mail EXCEPT ![t] = NoMail]
      /\ MbInv' /\ UNCHANGED <<prio, error, mbAlive>> /\ Store(mail[t])
      /\ pc[t] \in {"run", "unsched"} /\ pc'[t] \in {"run", "unsched", "sched"}
      /\ \A u \in Thread : u # t => pc'[u] = pc[u]
      /\ UNCHANGED poolVars /\ UNCHANGED content /\ QueueReturn(t, NoMsg)
  BY PushSendFacts
<1>2. /\ MbInv /\ RingTypeOK /\ PoolInv /\ mail \in [Thread -> Block \cup {NoMail}]
      /\ NoMail \notin Block /\ op \in [Thread -> Op] /\ OpOK /\ OnePlace
      /\ qTime \in [Thread -> {"no", "timed", "forever"}]
      /\ content \in [Block -> Msg \cup {NoMsg}] /\ buf \in [Thread -> Msg \cup {NoMsg}]
      /\ mbAlive => alive /\ \A u \in Thread : op[u] \notin {"deinit_mb", "deinit_mp"}
  BY QueueFacts
<1>3. /\ op' = [op EXCEPT ![t] = "none"] /\ qTime' = [qTime EXCEPT ![t] = "no"]
      /\ buf' = [buf EXCEPT ![t] = NoMsg] /\ UNCHANGED <<used, alive>>
  BY <1>1 DEF QueueReturn, SetOp, poolVars
<1>4. /\ \A u \in Thread : u # t => op'[u] = op[u] /\ mail'[u] = mail[u]
      /\ op'[t] = "none" /\ mail'[t] = NoMail
  BY <1>1, <1>2, <1>3
<1>5. PoolInv'
  <2>1. \A u \in Thread : ~InRecv(u) => stat'[u] = stat[u] /\ timer'[u] = timer[u]
    BY <1>1, <1>2, StoreEffect
  <2>2. \A u \in Thread : InAlloc(u)' <=> InAlloc(u)
    BY <1>1 DEF InAlloc
  <2>3. \A u \in Thread : InAlloc(u) => ~InRecv(u)
    BY DEF InAlloc, InRecv
  <2> QED BY <1>1, <1>2, <2>1, <2>2, <2>3, PoolFrame
<1>6. OnePlace'
  <2>1. ~Contains(Contents, mail[t])
    BY <1>2 DEF OnePlace
  <2> QED BY <1>1, <1>2, <1>3, <2>1, PlaceSend
<1>7. OpOK'
  <2>1. Stands(op'[t], pc'[t]) /\ (mail'[t] # NoMail <=> op'[t] \in Holding)
    BY <1>1, <1>4 DEF Stands, Holding
  <2> QED BY <1>1, <1>2, <1>4, <2>1, OpStep
<1>8. DeinitOK'
  BY <1>1, <1>2, <1>3, <1>4, DeinitAlive
<1>9. QueueFieldsOK'
  BY <1>1, <1>2, <1>3 DEF QueueFieldsOK, Op
<1> QED BY <1>1, <1>5, <1>6, <1>7, <1>8, <1>9 DEF QueueInv

\* A section of the rt_mb_recv of pop: a block comes out,
LEMMA PopFetchFacts ==
    ASSUME QueueInv, NEW t \in Thread, pc[t] \in {"run", "unsched", "recv_chk"}, mail[t] = NoMail,
           RecvFetch(t)
    PROVE  /\ Contents # <<>> /\ Head(Contents) \in Block /\ Contents' = Tail(Contents)
           /\ mail' = [mail EXCEPT ![t] = Head(Contents)]
           /\ pc'[t] \in {"run", "unsched"} /\ \A u \in Thread : u # t => pc'[u] = pc[u]
           /\ UNCHANGED <<stat, timer, error, mbAlive>>
<1>1. /\ MbInv /\ RingTypeOK /\ OnePlace /\ senders = <<>> /\ pc \in [Thread -> MbLabel]
  BY QueueFacts
<1>2. /\ entry # 0 /\ mail' = [mail EXCEPT ![t] = msgPool[outOff]] /\ outOff' = NextOffset(outOff)
      /\ entry' = entry - 1 /\ UNCHANGED <<msgPool, inOff>> /\ UNCHANGED <<stat, timer, error, mbAlive>>
      /\ Returns(t, FALSE)
  BY <1>1 DEF RecvFetch, Fetch, Empty, WakesSender
<1>3. entry > 0
  BY <1>1, <1>2 DEF RingTypeOK
<1>4. Contents # <<>> /\ msgPool[outOff] = Head(Contents) /\ Contents' = Tail(Contents)
  BY <1>1, <1>2, <1>3, RingFetch
<1>5. Head(Contents) \in Block
  BY <1>1, <1>4 DEF OnePlace
<1>6. pc'[t] \in {"run", "unsched"} /\ \A u \in Thread : u # t => pc'[u] = pc[u]
  BY <1>1, <1>2 DEF Returns, Goto
<1> QED BY <1>2, <1>4, <1>5, <1>6

\* none does and the call returns, or the caller waits.
LEMMA PopNoneFacts ==
    ASSUME QueueInv, NEW t \in Thread, pc[t] \in {"run", "unsched", "recv_chk"}, mail[t] = NoMail,
           NEW tm, RecvRefused(t, tm) \/ RecvWait(t, tm)
    PROVE  /\ UNCHANGED ring /\ UNCHANGED <<mail, mbAlive>>
           /\ pc'[t] \in {"run", "unsched", "recv"} /\ \A u \in Thread : u # t => pc'[u] = pc[u]
           /\ \A u \in Thread : u # t => stat'[u] = stat[u] /\ timer'[u] = timer[u] /\ error'[u] = error[u]
<1>1. /\ pc \in [Thread -> MbLabel] /\ stat \in [Thread -> Stat] /\ error \in [Thread -> Error]
      /\ timer \in [Thread -> BOOLEAN]
  BY QueueFacts DEF BlockInv, CoreTypeOK
<1>2. CASE RecvRefused(t, tm)
  <2>1. /\ error' = [error EXCEPT ![t] = IF pc[t] = "recv_chk" THEN "ETIMEOUT" ELSE @]
        /\ Returns(t, FALSE) /\ UNCHANGED <<stat, timer, mbAlive, mail>> /\ UNCHANGED ring
    BY <1>2 DEF RecvRefused
  <2> QED BY <1>1, <2>1 DEF Returns, Goto
<1>3. CASE RecvWait(t, tm)
  <2>1. SuspendSelf(t, tm, "recv") /\ UNCHANGED <<mbAlive, mail>> /\ UNCHANGED ring
    BY <1>3 DEF RecvWait
  <2> QED BY <1>1, <2>1 DEF SuspendSelf, Goto
<1> QED BY <1>2, <1>3

\* A section of the rt_mb_recv of pop keeps the invariant.
LEMMA PopSectionInv ==
    ASSUME QueueInv, NEW t \in Thread, t = current, t # Idle, mbAlive,
           pc[t] \in {"run", "unsched", "recv_chk"}, op[t] \in {"none", "recv"},
           NEW tm \in {"no", "timed", "forever"}, RecvSection(t, tm), AfterRecv(t)
    PROVE  QueueInv'
<1>1. /\ MbInv /\ PoolInv /\ mail \in [Thread -> Block \cup {NoMail}]
      /\ NoMail \notin Block /\ op \in [Thread -> Op] /\ OpOK /\ OnePlace
      /\ qTime \in [Thread -> {"no", "timed", "forever"}]
      /\ content \in [Block -> Msg \cup {NoMsg}] /\ buf \in [Thread -> Msg \cup {NoMsg}]
      /\ alive /\ \A u \in Thread : op[u] \notin {"deinit_mb", "deinit_mp"}
  BY QueueFacts
<1>2. mail[t] = NoMail
  BY <1>1 DEF OpOK, Holding
<1>3. MbInv'
  BY <1>1, <1>2, RecvSectionInv
<1>4. /\ UNCHANGED poolVars /\ UNCHANGED <<qTime, content, buf>> /\ UNCHANGED <<alive, used>>
      /\ op' = [op EXCEPT ![t] = IF mail'[t] # NoMail THEN "copy_out"
                                 ELSE IF pc'[t] = "recv" THEN "recv" ELSE "none"]
  BY DEF AfterRecv, SetOp, poolVars
<1>5. /\ \A u \in Thread : u # t => /\ pc'[u] = pc[u] /\ mail'[u] = mail[u] /\ stat'[u] = stat[u]
                                    /\ timer'[u] = timer[u] /\ error'[u] = error[u]
      /\ OnePlace' /\ UNCHANGED mbAlive
      /\ \/ mail'[t] \in Block /\ pc'[t] \in {"run", "unsched"}
         \/ mail'[t] = NoMail /\ pc'[t] \in {"run", "unsched", "recv"}
  <2>1. CASE RecvFetch(t)
    <3>1. /\ Contents # <<>> /\ Head(Contents) \in Block /\ Contents' = Tail(Contents)
          /\ mail' = [mail EXCEPT ![t] = Head(Contents)]
          /\ pc'[t] \in {"run", "unsched"} /\ \A u \in Thread : u # t => pc'[u] = pc[u]
          /\ UNCHANGED <<stat, timer, error, mbAlive>>
      BY <1>2, <2>1, PopFetchFacts
    <3>2. OnePlace'
      BY <1>1, <1>2, <1>4, <3>1, PlaceRecv
    <3> QED BY <1>1, <3>1, <3>2
  <2>2. CASE RecvRefused(t, tm) \/ RecvWait(t, tm)
    <3>1. /\ UNCHANGED ring /\ UNCHANGED <<mail, mbAlive>>
          /\ pc'[t] \in {"run", "unsched", "recv"} /\ \A u \in Thread : u # t => pc'[u] = pc[u]
          /\ \A u \in Thread : u # t => stat'[u] = stat[u] /\ timer'[u] = timer[u] /\ error'[u] = error[u]
      BY <1>2, <2>2, PopNoneFacts
    <3>2. OnePlace'
      BY <1>1, <1>4, <3>1, PlaceSame
    <3> QED BY <1>2, <3>1, <3>2
  <2> QED BY <2>1, <2>2 DEF RecvSection
<1>6. /\ op'[t] = IF mail'[t] # NoMail THEN "copy_out" ELSE IF pc'[t] = "recv" THEN "recv" ELSE "none"
      /\ \A u \in Thread : u # t => op'[u] = op[u]
  BY <1>1, <1>4
<1>7. PoolInv'
  <2>1. ~InAlloc(t) /\ ~InAlloc(t)'
    BY <1>5 DEF InAlloc
  <2>2. \A u \in Thread : InAlloc(u)' <=> InAlloc(u)
    BY <1>5, <2>1 DEF InAlloc
  <2> QED BY <1>1, <1>4, <1>5, <2>1, <2>2, PoolFrame
<1>8. OpOK'
  <2>1. Stands(op'[t], pc'[t]) /\ (mail'[t] # NoMail <=> op'[t] \in Holding)
    BY <1>1, <1>5, <1>6 DEF Stands, Holding
  <2> QED BY <1>1, <1>5, <1>6, <2>1, OpStep
<1>9. DeinitOK'
  BY <1>1, <1>4, <1>5, <1>6, DeinitAlive
<1>10. QueueFieldsOK'
  BY <1>1, <1>4 DEF QueueFieldsOK, Op
<1> QED BY <1>3, <1>5, <1>7, <1>8, <1>9, <1>10 DEF QueueInv

\* bk_rtos_pop_from_queue: the call, and the loop of its rt_mb_recv.
LEMMA PopInv ==
    ASSUME QueueInv, NEW t \in Thread,
           (\E tm \in MbTimes : bk_rtos_pop_from_queue(t, tm)) \/ PopAgain(t)
    PROVE  QueueInv'
<1>1. CASE \E tm \in MbTimes : bk_rtos_pop_from_queue(t, tm)
  <2>1. PICK tm \in MbTimes : bk_rtos_pop_from_queue(t, tm)
    BY <1>1
  <2>2. /\ op[t] = "none" /\ InApp(t) /\ mbAlive /\ RecvSection(t, tm) /\ AfterRecv(t)
    BY <2>1 DEF bk_rtos_pop_from_queue, rt_mb_recv
  <2>3. tm \in {"no", "timed", "forever"} /\ t = current /\ t # Idle /\ pc[t] \in {"run", "unsched"}
    BY <2>2, MailboxAssumption DEF InApp
  <2> QED BY <2>2, <2>3, PopSectionInv
<1>2. ASSUME op[t] = "recv", AfterRecv(t), RecvAgain(t) PROVE QueueInv'
  <2>1. PICK tm \in MbLeft(mbTime[t]) : RecvSection(t, tm)
    BY <1>2 DEF RecvAgain
  <2>2. t = current /\ pc[t] = "recv_chk" /\ error[t] = "EOK"
    BY <1>2 DEF RecvAgain, At
  <2>3. pc[t] \notin SuspendLabel /\ pc[t] # "run" /\ InRecv(t)
    BY <2>2 DEF SuspendLabel, InRecv
  <2>4. stat[t] = "ready" /\ t # Idle
    BY <2>2, <2>3, QueueFacts, BlockRunning
  <2>5. mbAlive
    <3>1. mbAlive \in BOOLEAN /\ DeinitOK
      BY QueueFacts, MbFacts
    <3> QED BY <2>2, <2>3, <2>4, <3>1 DEF DeinitOK
  <2>6. tm \in {"no", "timed", "forever"}
    BY <2>1, QueueFacts, MbFacts DEF MbLeft
  <2> QED BY <1>2, <2>1, <2>2, <2>4, <2>5, <2>6, PopSectionInv
<1>3. ASSUME op[t] = "recv", AfterRecv(t), MbGiveUp(t) PROVE QueueInv'
  <2>1. /\ MbInv /\ PoolInv /\ mail \in [Thread -> Block \cup {NoMail}] /\ pc \in [Thread -> MbLabel]
        /\ op \in [Thread -> Op] /\ OpOK /\ OnePlace /\ DeinitOK
        /\ qTime \in [Thread -> {"no", "timed", "forever"}]
        /\ content \in [Block -> Msg \cup {NoMsg}] /\ buf \in [Thread -> Msg \cup {NoMsg}]
    BY QueueFacts
  <2>2. MbInv'
    BY <1>3, <2>1, LoopInv
  <2>3. mail[t] = NoMail
    BY <1>3, <2>1 DEF OpOK, Holding
  <2>4. /\ pc[t] \in {"send_chk", "recv_chk"} /\ Returns(t, FALSE) /\ mail' = [mail EXCEPT ![t] = NoMail]
        /\ UNCHANGED <<stat, timer, error, mbAlive, receivers>> /\ UNCHANGED ring
    BY <1>3 DEF MbGiveUp
  <2>5. mail' = mail
    BY <2>1, <2>3, <2>4
  <2>6. pc'[t] = "run" /\ \A u \in Thread : u # t => pc'[u] = pc[u]
    BY <2>1, <2>4 DEF Returns, Goto
  <2>7. /\ UNCHANGED poolVars /\ UNCHANGED <<qTime, content, buf>> /\ UNCHANGED <<alive, used, waitq>>
        /\ op' = [op EXCEPT ![t] = "none"]
    BY <1>3, <2>3, <2>5, <2>6 DEF AfterRecv, SetOp, poolVars
  <2>8. op'[t] = "none" /\ \A u \in Thread : u # t => op'[u] = op[u]
    BY <2>1, <2>7
  <2>9. PoolInv'
    <3>1. \A u \in Thread : InAlloc(u)' <=> InAlloc(u)
      BY <2>4, <2>6 DEF InAlloc
    <3> QED BY <2>1, <2>4, <2>7, <3>1, PoolFrame
  <2>10. OnePlace'
    BY <2>1, <2>4, <2>5, <2>7, PlaceSame
  <2>11. OpOK'
    <3>1. Stands(op'[t], pc'[t]) /\ (mail'[t] # NoMail <=> op'[t] \in Holding)
      BY <2>3, <2>5, <2>6, <2>8 DEF Stands, Holding
    <3> QED BY <2>1, <2>5, <2>6, <2>8, <3>1, OpStep
  <2>12. DeinitOK'
    BY <1>3, <2>1, <2>4, <2>6, <2>7, <2>8, DeinitFrame DEF InRecv
  <2>13. QueueFieldsOK'
    BY <2>1, <2>7 DEF QueueFieldsOK, Op
  <2> QED BY <2>2, <2>9, <2>10, <2>11, <2>12, <2>13 DEF QueueInv
<1> QED BY <1>1, <1>2, <1>3 DEF PopAgain

\* The rt_schedule of pop's rt_mb_recv.
LEMMA PopScheduledInv ==
    ASSUME QueueInv, NEW t \in Thread, MbScheduled(t)
    PROVE  QueueInv'
<1>1. /\ MbSchedule(t) /\ op[t] \in {"send", "recv"} /\ UNCHANGED poolVars
      /\ UNCHANGED <<op, qTime, content, buf>>
  BY DEF MbScheduled, queueVars
<1>2. /\ MbInv /\ PoolInv /\ OpOK /\ OnePlace /\ DeinitOK /\ pc \in [Thread -> MbLabel]
      /\ op \in [Thread -> Op] /\ qTime \in [Thread -> {"no", "timed", "forever"}]
      /\ content \in [Block -> Msg \cup {NoMsg}] /\ buf \in [Thread -> Msg \cup {NoMsg}]
  BY QueueFacts
<1>3. MbInv'
  BY <1>1, <1>2, MbScheduleInv
<1>4. /\ pc[t] \in {"send", "recv"} /\ UNCHANGED <<stat, timer, error>> /\ UNCHANGED <<ring, mail>>
      /\ UNCHANGED <<receivers, mbAlive>> /\ UNCHANGED <<alive, used, waitq>>
      /\ pc' = [pc EXCEPT ![t] = IF pc[t] = "send" THEN "send_chk" ELSE "recv_chk"]
  BY <1>1 DEF MbSchedule, Goto, mbVars, poolVars
<1>5. pc[t] = "recv" /\ op[t] = "recv"
  BY <1>1, <1>2, <1>4 DEF OpOK, Stands, Holding
<1>6. pc'[t] = "recv_chk" /\ \A u \in Thread : u # t => pc'[u] = pc[u]
  BY <1>2, <1>4, <1>5
<1>7. PoolInv'
  <2>1. \A u \in Thread : InAlloc(u)' <=> InAlloc(u)
    BY <1>5, <1>6 DEF InAlloc
  <2> QED BY <1>1, <1>2, <1>4, <2>1, PoolFrame
<1>8. OnePlace'
  BY <1>2, <1>4, PlaceSame
<1>9. OpOK'
  <2>1. Stands(op'[t], pc'[t]) /\ (mail'[t] # NoMail <=> op'[t] \in Holding)
    BY <1>1, <1>2, <1>4, <1>5, <1>6 DEF Stands, Holding, OpOK
  <2> QED BY <1>1, <1>2, <1>4, <1>6, <2>1, OpStep
<1>10. DeinitOK'
  <2>1. \A u \in Thread : InRecv(u)' => InRecv(u)
    BY <1>5, <1>6 DEF InRecv
  <2> QED BY <1>1, <1>2, <1>4, <1>5, <1>6, <2>1, DeinitFrame
<1>11. QueueFieldsOK'
  BY <1>1, <1>2 DEF QueueFieldsOK
<1> QED BY <1>3, <1>7, <1>8, <1>9, <1>10, <1>11 DEF QueueInv

\* bk_rtos_deinit_queue: rt_mb_delete begins.
LEMMA DeinitInv ==
    ASSUME QueueInv, NEW t \in Thread, bk_rtos_deinit_queue(t)
    PROVE  QueueInv'
<1>1. /\ op[t] = "none" /\ alive /\ rt_mb_detach(t) /\ InApp(t) /\ mbAlive /\ MayDetachMb
      /\ mbAlive' = FALSE /\ pc' = [pc EXCEPT ![t] = "mb_detach"] /\ UNCHANGED <<stat, timer, error>>
      /\ UNCHANGED <<ring, mail>> /\ UNCHANGED receivers /\ op' = [op EXCEPT ![t] = "deinit_mb"]
      /\ UNCHANGED poolVars /\ UNCHANGED <<alive, used, waitq>> /\ UNCHANGED <<qTime, content, buf>>
  BY DEF bk_rtos_deinit_queue, rt_mb_detach, Goto, SetOp, poolVars
<1>2. /\ MbInv /\ PoolInv /\ OpOK /\ OnePlace /\ DeinitOK /\ pc \in [Thread -> MbLabel]
      /\ op \in [Thread -> Op] /\ qTime \in [Thread -> {"no", "timed", "forever"}]
      /\ content \in [Block -> Msg \cup {NoMsg}] /\ buf \in [Thread -> Msg \cup {NoMsg}]
      /\ \A u \in Thread : op[u] \notin {"deinit_mb", "deinit_mp"}
  BY <1>1, QueueFacts
<1>3. MbInv'
  BY <1>1, <1>2, MbDetachInv
<1>4. /\ pc[t] \in {"run", "unsched"} /\ pc'[t] = "mb_detach" /\ op'[t] = "deinit_mb"
      /\ \A u \in Thread : u # t => pc'[u] = pc[u] /\ op'[u] = op[u]
  BY <1>1, <1>2 DEF InApp
<1>5. PoolInv'
  <2>1. \A u \in Thread : InAlloc(u)' <=> InAlloc(u)
    BY <1>4 DEF InAlloc
  <2> QED BY <1>1, <1>2, <2>1, PoolFrame
<1>6. OnePlace'
  BY <1>1, <1>2, PlaceSame
<1>7. OpOK'
  <2>1. Stands(op'[t], pc'[t]) /\ (mail'[t] # NoMail <=> op'[t] \in Holding)
    BY <1>1, <1>2, <1>4 DEF Stands, Holding, OpOK
  <2> QED BY <1>1, <1>2, <1>4, <2>1, OpStep
<1>8. \A u \in Thread : InRecv(u)' => stat'[u] # "ready"
  BY <1>1, <1>4 DEF MayDetachMb, InRecv
<1>9. DeinitOK'
  BY <1>1, <1>2, <1>4, <1>8 DEF DeinitOK
<1>10. QueueFieldsOK'
  BY <1>1, <1>2 DEF QueueFieldsOK, Op
<1> QED BY <1>3, <1>5, <1>6, <1>7, <1>9, <1>10 DEF QueueInv

\* The loop of rt_mb_delete.
LEMMA DeinitMbInv ==
    ASSUME QueueInv, NEW t \in Thread, DeinitMbStep(t)
    PROVE  QueueInv'
<1>1. /\ op[t] = "deinit_mb" /\ (MbDetachTest(t) \/ MbDetachReceiver(t))
      /\ UNCHANGED poolVars /\ UNCHANGED <<alive, used, waitq>> /\ UNCHANGED <<op, qTime, content, buf>>
  BY DEF DeinitMbStep, poolVars, queueVars
<1>2. /\ MbInv /\ PoolInv /\ OpOK /\ OnePlace /\ DeinitOK /\ pc \in [Thread -> MbLabel]
      /\ op \in [Thread -> Op] /\ qTime \in [Thread -> {"no", "timed", "forever"}]
      /\ content \in [Block -> Msg \cup {NoMsg}] /\ buf \in [Thread -> Msg \cup {NoMsg}]
      /\ senders = <<>>
  BY QueueFacts
<1>3. MbInv'
  BY <1>1, <1>2, MbDetachInv, MbDetachOneInv
<1>4. /\ pc[t] \in {"mb_detach", "mb_detach_one", "mb_detach_s"} /\ UNCHANGED <<ring, mail>>
      /\ UNCHANGED mbAlive /\ (receivers = <<>> => receivers' = <<>>)
      /\ \/ receivers # <<>> /\ pc[t] = "mb_detach" /\ pc' = [pc EXCEPT ![t] = "mb_detach_one"]
         \/ receivers' = <<>> /\ pc[t] = "mb_detach" /\ pc' = [pc EXCEPT ![t] = "mb_detach_s"]
         \/ pc[t] = "mb_detach_s" /\ pc' = [pc EXCEPT ![t] = "unsched"]
         \/ pc[t] = "mb_detach_one" /\ pc' = [pc EXCEPT ![t] = "mb_detach"]
  <2>1. CASE MbDetachTest(t)
    BY <1>2, <2>1 DEF MbDetachTest, DetachGoesOn, Goto, mbVars
  <2>2. CASE MbDetachReceiver(t)
    BY <2>2 DEF MbDetachReceiver, At, Goto
  <2> QED BY <1>1, <2>1, <2>2
<1>5. \A u \in Thread : /\ ~InRecv(u) => stat'[u] = stat[u] /\ error'[u] = error[u] /\ timer'[u] = timer[u]
                        /\ InRecv(u) => (stat'[u] = stat[u] /\ error'[u] = error[u]) \/ error'[u] # "EOK"
  <2>1. CASE MbDetachTest(t)
    BY <2>1 DEF MbDetachTest
  <2>2. CASE MbDetachReceiver(t)
    <3>1. /\ receivers # <<>> /\ ResumeHead(receivers) /\ UNCHANGED prio
          /\ error' = [error EXCEPT ![Head(receivers)] = "ERROR"]
      BY <2>2 DEF MbDetachReceiver
    <3>2. /\ Head(receivers) \in Thread /\ InRecv(Head(receivers))
          /\ stat' = [stat EXCEPT ![Head(receivers)] = "ready"]
          /\ timer' = [timer EXCEPT ![Head(receivers)] = FALSE]
      BY <1>2, <3>1, ResumeHeadFacts
    <3> QED BY <1>2, <3>1, <3>2, MbFacts DEF BlockInv, CoreTypeOK
  <2> QED BY <1>1, <2>1, <2>2
<1>6. /\ \A u \in Thread : u # t => pc'[u] = pc[u]
      /\ \/ receivers # <<>> /\ pc[t] = "mb_detach" /\ pc'[t] = "mb_detach_one"
         \/ receivers' = <<>> /\ pc[t] = "mb_detach" /\ pc'[t] = "mb_detach_s"
         \/ pc[t] = "mb_detach_s" /\ pc'[t] = "unsched"
         \/ pc[t] = "mb_detach_one" /\ pc'[t] = "mb_detach"
  BY <1>2, <1>4
<1>7. PoolInv'
  <2>1. \A u \in Thread : InAlloc(u)' <=> InAlloc(u)
    BY <1>6 DEF InAlloc
  <2>2. \A u \in Thread : InAlloc(u) => ~InRecv(u)
    BY DEF InAlloc, InRecv
  <2> QED BY <1>1, <1>2, <1>5, <2>1, <2>2, PoolFrame
<1>8. OnePlace'
  BY <1>1, <1>2, <1>4, PlaceSame
<1>9. OpOK'
  <2>1. Stands(op'[t], pc'[t]) /\ (mail'[t] # NoMail <=> op'[t] \in Holding)
    BY <1>1, <1>2, <1>4, <1>6 DEF Stands, Holding, OpOK
  <2> QED BY <1>1, <1>2, <1>4, <1>6, <2>1, OpStep
<1>10. DeinitOK'
  <2>1. \A u \in Thread : InRecv(u)' => InRecv(u)
    BY <1>6 DEF InRecv
  <2>2. \/ pc'[t] = pc[t]
        \/ {pc[t], pc'[t]} \subseteq {"mb_detach", "mb_detach_one"}
        \/ receivers' = <<>>
    <3>1. pc[t] = "mb_detach_s" => receivers = <<>>
      BY <1>1, <1>2 DEF DeinitOK
    <3> QED BY <1>4, <1>6, <3>1
  <2> QED BY <1>1, <1>2, <1>4, <1>5, <1>6, <2>1, <2>2, DeinitFrame
<1>11. QueueFieldsOK'
  BY <1>1, <1>2 DEF QueueFieldsOK
<1> QED BY <1>3, <1>7, <1>8, <1>9, <1>10, <1>11 DEF QueueInv

\* rt_mp_delete after it: nobody is left in the mailbox.
LEMMA DeinitPoolInv ==
    ASSUME QueueInv, NEW t \in Thread, DeinitPool(t)
    PROVE  QueueInv'
<1>1. /\ op[t] = "deinit_mb" /\ rt_mp_detach(t) /\ InApp(t) /\ alive' = FALSE
      /\ pc' = [pc EXCEPT ![t] = "detach"] /\ UNCHANGED <<stat, error>> /\ UNCHANGED <<used, waitq>>
      /\ op' = [op EXCEPT ![t] = "deinit_mp"] /\ UNCHANGED <<ring, mail>>
      /\ UNCHANGED <<ring, receivers, senders, mbTime, mbAlive>> /\ UNCHANGED <<qTime, content, buf>>
  BY DEF DeinitPool, rt_mp_detach, Goto, SetOp, mbVars
<1>2. /\ BlockInv /\ PoolInv /\ OpOK /\ OnePlace /\ DeinitOK /\ pc \in [Thread -> MbLabel]
      /\ mail \in [Thread -> Block \cup {NoMail}]
      /\ op \in [Thread -> Op] /\ qTime \in [Thread -> {"no", "timed", "forever"}]
      /\ content \in [Block -> Msg \cup {NoMsg}] /\ buf \in [Thread -> Msg \cup {NoMsg}]
  BY QueueFacts
<1>3. BlockInv' /\ PoolInv'
  BY <1>1, <1>2, PoolDetachInv
<1>4. /\ pc[t] = "unsched" /\ pc'[t] = "detach" /\ op'[t] = "deinit_mp"
      /\ \A u \in Thread : u # t => pc'[u] = pc[u] /\ op'[u] = op[u]
  <2>1. pc[t] \in {"run", "unsched"} /\ Stands("deinit_mb", pc[t])
    BY <1>1, <1>2 DEF InApp, OpOK
  <2> QED BY <1>1, <1>2, <2>1 DEF Stands
<1>5. mail' \in [Thread -> Block \cup {NoMail}]
  BY <1>1, <1>2
<1>6. MbInv'
  BY <1>1, <1>3, <1>4, <1>5, PoolStepMb
<1>7. OnePlace'
  BY <1>1, <1>2, PlaceSame
<1>8. OpOK'
  <2>1. Stands(op'[t], pc'[t]) /\ (mail'[t] # NoMail <=> op'[t] \in Holding)
    BY <1>1, <1>2, <1>4 DEF Stands, Holding, OpOK
  <2> QED BY <1>1, <1>2, <1>4, <2>1, OpStep
<1>9. DeinitOK'
  <2>1. receivers' = <<>> /\ ~mbAlive' /\ ~alive'
    BY <1>1, <1>2, <1>4 DEF DeinitOK
  <2>2. \A u \in Thread : InRecv(u)' => InRecv(u)
    BY <1>4 DEF InRecv
  <2>3. \A u \in Thread : InRecv(u)' /\ stat'[u] = "ready" => error'[u] # "EOK"
    BY <1>1, <1>2, <2>1, <2>2 DEF DeinitOK
  <2> QED BY <1>4, <2>1, <2>3 DEF DeinitOK
<1>10. QueueFieldsOK'
  BY <1>1, <1>2 DEF QueueFieldsOK, Op
<1> QED BY <1>3, <1>6, <1>7, <1>8, <1>9, <1>10 DEF QueueInv

\* The loop of rt_mp_delete.
LEMMA DeinitPoolStepInv ==
    ASSUME QueueInv, NEW t \in Thread, DeinitPoolStep(t)
    PROVE  QueueInv'
<1>1. /\ op[t] = "deinit_mp" /\ (DetachTest(t) \/ DetachOne(t))
      /\ UNCHANGED <<op, qTime, content, buf>> /\ UNCHANGED <<ring, mail>>
      /\ UNCHANGED <<ring, receivers, senders, mbTime, mbAlive>>
  BY DEF DeinitPoolStep, mbVars, queueVars
<1>2. /\ BlockInv /\ PoolInv /\ OpOK /\ OnePlace /\ DeinitOK /\ pc \in [Thread -> MbLabel]
      /\ mail \in [Thread -> Block \cup {NoMail}]
      /\ op \in [Thread -> Op] /\ qTime \in [Thread -> {"no", "timed", "forever"}]
      /\ content \in [Block -> Msg \cup {NoMsg}] /\ buf \in [Thread -> Msg \cup {NoMsg}]
  BY QueueFacts
<1>3. ~alive
  BY <1>1, <1>2 DEF DeinitOK
<1>4. /\ BlockInv' /\ PoolInv'
      /\ \A u \in Thread : ~InAlloc(u) => stat'[u] = stat[u] /\ error'[u] = error[u]
  BY <1>1, <1>2, <1>3, PoolDetachInv, PoolDetachOneInv
<1>5. /\ UNCHANGED <<alive, used>>
      /\ \/ pc[t] = "detach" /\ waitq # <<>> /\ waitq' = waitq /\ pc' = [pc EXCEPT ![t] = "detach_one"]
         \/ pc[t] = "detach" /\ waitq = <<>> /\ waitq' = waitq /\ pc' = [pc EXCEPT ![t] = "unsched"]
         \/ pc[t] = "detach_one" /\ waitq # <<>> /\ pc' = [pc EXCEPT ![t] = "detach"]
  <2>1. CASE DetachTest(t)
    BY <2>1 DEF DetachTest, At, Goto, poolVars
  <2>2. CASE DetachOne(t)
    BY <2>2 DEF DetachOne, At, Goto
  <2> QED BY <1>1, <2>1, <2>2
<1>6. /\ \A u \in Thread : u # t => pc'[u] = pc[u]
      /\ \/ pc[t] = "detach" /\ waitq # <<>> /\ waitq' = waitq /\ pc'[t] = "detach_one"
         \/ pc[t] = "detach" /\ waitq = <<>> /\ waitq' = waitq /\ pc'[t] = "unsched"
         \/ pc[t] = "detach_one" /\ waitq # <<>> /\ pc'[t] = "detach"
  BY <1>2, <1>5
<1>7. mail' \in [Thread -> Block \cup {NoMail}]
  BY <1>1, <1>2
<1>8. MbInv'
  <2>1. /\ pc[t] \in {"run", "unsched", "alloc", "alloc_chk", "detach", "detach_one"}
        /\ pc'[t] \in {"run", "unsched", "sched", "alloc", "alloc_chk", "detach", "detach_one"}
    BY <1>6
  <2> QED BY <1>1, <1>4, <1>6, <1>7, <2>1, PoolStepMb
<1>9. OnePlace'
  BY <1>1, <1>2, <1>5, PlaceSame
<1>10. OpOK'
  <2>1. Stands(op'[t], pc'[t]) /\ (mail'[t] # NoMail <=> op'[t] \in Holding)
    BY <1>1, <1>2, <1>6 DEF Stands, Holding, OpOK
  <2> QED BY <1>1, <1>2, <1>6, <2>1, OpStep
<1>11. DeinitOK'
  <2>1. \A u \in Thread : InRecv(u)' => InRecv(u) /\ ~InAlloc(u)
    BY <1>6 DEF InRecv, InAlloc
  <2>2. {pc[t], pc'[t]} \subseteq {"detach", "detach_one"} \/ waitq' = <<>>
    BY <1>6
  <2>3. waitq' # <<>> => waitq # <<>>
    BY <1>6
  <2> QED BY <1>1, <1>2, <1>4, <1>5, <1>6, <2>1, <2>2, <2>3, DeinitFrame
<1>12. QueueFieldsOK'
  BY <1>1, <1>2 DEF QueueFieldsOK
<1> QED BY <1>4, <1>8, <1>9, <1>10, <1>11, <1>12 DEF QueueInv

\* The timer of a waiting pop expires; no push waits for a finite time.
LEMMA QueueTimeoutInv ==
    ASSUME QueueInv, NEW t \in Thread, QueueTimeout(t)
    PROVE  QueueInv'
<1>1. /\ rt_thread_timeout(t) /\ waitq' = rt_list_remove(waitq, t) /\ MbTimeout(t)
      /\ receivers' = rt_list_remove(receivers, t)
      /\ UNCHANGED <<blockList, freeCount, waitCount, time, alive, used>> /\ UNCHANGED <<ring, mail>>
      /\ UNCHANGED mbAlive /\ UNCHANGED <<op, qTime, content, buf>>
  BY DEF QueueTimeout, MbTimeout, queueVars
<1>2. /\ MbInv /\ BlockInv /\ PoolInv /\ OpOK /\ OnePlace /\ DeinitOK
      /\ op \in [Thread -> Op] /\ qTime \in [Thread -> {"no", "timed", "forever"}]
      /\ content \in [Block -> Msg \cup {NoMsg}] /\ buf \in [Thread -> Msg \cup {NoMsg}]
  BY QueueFacts
<1>3. MbInv'
  BY <1>1, <1>2, MbTimeoutInv
<1>4. /\ timer[t] /\ UNCHANGED pc /\ stat' = [stat EXCEPT ![t] = "ready"]
      /\ error' = [error EXCEPT ![t] = "ETIMEOUT"] /\ timer' = [timer EXCEPT ![t] = FALSE]
  BY <1>1, <1>2, BlockTimeout
<1>5. ~InAlloc(t) /\ ~Contains(waitq, t)
  BY <1>2, <1>4 DEF PoolInv, UntimedOK, PoolWaitersOK
<1>6. waitq' = waitq
  BY <1>1, <1>5, ListRemoveAbsent
<1>7. \A u \in Thread : /\ u # t => stat'[u] = stat[u] /\ error'[u] = error[u] /\ timer'[u] = timer[u]
                        /\ error'[t] # "EOK"
  BY <1>2, <1>4 DEF BlockInv, CoreTypeOK
<1>8. PoolInv'
  <2>1. \A u \in Thread : InAlloc(u)' <=> InAlloc(u)
    BY <1>4 DEF InAlloc
  <2>2. UNCHANGED poolVars
    BY <1>1, <1>6 DEF poolVars
  <2> QED BY <1>2, <1>5, <1>7, <2>1, <2>2, PoolFrame
<1>9. OnePlace'
  BY <1>1, <1>2, PlaceSame
<1>10. OpOK'
  BY <1>1, <1>2, <1>4 DEF OpOK
<1>11. DeinitOK'
  <2>1. receivers = <<>> => receivers' = <<>>
    <3>1. receivers = <<>> => ~Contains(receivers, t)
      BY DEF Contains
    <3> QED BY <1>1, <3>1, ListRemoveAbsent
  <2>2. \A u \in Thread : InRecv(u)' <=> InRecv(u)
    BY <1>4 DEF InRecv
  <2> QED BY <1>1, <1>2, <1>4, <1>6, <1>7, <2>1, <2>2, DeinitFrame
<1>12. QueueFieldsOK'
  BY <1>1, <1>2 DEF QueueFieldsOK
<1> QED BY <1>3, <1>8, <1>9, <1>10, <1>11, <1>12 DEF QueueInv

\* bk_rtos_push_to_queue in an interrupt handler: the mailbox has room for the
\* block that the pool has given.
LEMMA IsrPushFacts ==
    ASSUME QueueInv, NEW m, IsrPush(m)
    PROVE  /\ Head(blockList) \in Block /\ Head(blockList) \notin used
           /\ ~Contains(Contents, Head(blockList)) /\ IsrSend(Head(blockList))
           /\ Contents' = Append(Contents, Head(blockList)) /\ entry < MbSize
<1> DEFINE b == Head(blockList)
<1>1. /\ PoolInv /\ RingTypeOK /\ OnePlace /\ Mail = Block
  BY QueueFacts
<1>2. /\ blockList \in Seq(Block) /\ blockList # <<>>
      /\ \A x \in Block : Contains(blockList, x) <=> x \notin used
  BY <1>1, PoolFacts DEF IsrPush, PoolInv, BlocksOK
<1>3. b \in Block /\ b \notin used
  BY <1>2, ListTail DEF Contains
<1>4. /\ IF Full THEN UNCHANGED <<schedVars, mbVars>> ELSE IsrSend(b)
  BY DEF IsrPush
<1> HIDE DEF b
<1>5. ~Contains(Contents, b)
  BY <1>1, <1>3 DEF OnePlace
<1>6. entry < MbSize /\ ~Full
  BY <1>1, <1>3, <1>5, RoomForBlock
<1>7. IsrSend(b)
  BY <1>4, <1>6
<1>8. /\ msgPool' = [msgPool EXCEPT ![inOff] = b] /\ inOff' = NextOffset(inOff)
      /\ entry' = entry + 1 /\ UNCHANGED outOff
  BY <1>7 DEF IsrSend, Store
<1>9. Contents' = Append(Contents, b)
  BY <1>1, <1>3, <1>6, <1>8, RingStore
<1> QED BY <1>3, <1>5, <1>6, <1>7, <1>9 DEF b

\* The block goes straight to the mailbox.
LEMMA IsrPushInv ==
    ASSUME QueueInv, NEW m \in Msg, IsrPush(m)
    PROVE  QueueInv'
<1> DEFINE b == Head(blockList)
<1>1. /\ b \in Block /\ b \notin used /\ ~Contains(Contents, b) /\ IsrSend(b)
      /\ Contents' = Append(Contents, b)
  BY IsrPushFacts
<1>2. /\ alive /\ freeCount > 0 /\ freeCount' = freeCount - 1 /\ blockList' = Pop
      /\ used' = used \cup {b} /\ content' = [content EXCEPT ![b] = m]
      /\ UNCHANGED <<waitq, waitCount, alive>> /\ UNCHANGED time /\ UNCHANGED <<op, qTime, buf>>
  BY DEF IsrPush
<1>3. /\ MbInv /\ PoolInv /\ RingTypeOK /\ OpOK /\ OnePlace /\ Mail = Block
      /\ mail \in [Thread -> Block \cup {NoMail}] /\ NoMail \notin Block
      /\ op \in [Thread -> Op] /\ qTime \in [Thread -> {"no", "timed", "forever"}]
      /\ content \in [Block -> Msg \cup {NoMsg}] /\ buf \in [Thread -> Msg \cup {NoMsg}]
      /\ mbAlive => \A u \in Thread : op[u] \notin {"deinit_mb", "deinit_mp"}
  BY QueueFacts
<1>4. MbInv'
  BY <1>1, <1>3, IsrSendInv
<1>5. Store(b) /\ UNCHANGED prio /\ UNCHANGED <<error, pc, mail, mbAlive>> /\ mbAlive
  BY <1>1 DEF IsrSend
<1>6. \A u \in Thread : ~InRecv(u) => stat'[u] = stat[u] /\ timer'[u] = timer[u]
  BY <1>3, <1>5, StoreEffect
<1>7. PoolInv'
  <2>1. Main \in Thread /\ time' \in [Thread -> {"no", "timed", "forever"}]
    BY <1>2, <1>3, ThreadAssumption, PoolFacts
  <2>2. \A u \in Thread : (InAlloc(u)' <=> InAlloc(u)) /\ (InAlloc(u) => ~InRecv(u))
    BY <1>5 DEF InAlloc, InRecv
  <2>3. \A u \in Thread : InAlloc(u)' => /\ stat'[u] = stat[u] /\ error'[u] = error[u]
                                         /\ timer'[u] = timer[u] /\ time'[u] = time[u]
    BY <1>2, <1>5, <1>6, <2>2
  <2> QED BY <1>2, <1>3, <2>1, <2>2, <2>3, PoolTake
<1>8. OnePlace'
  <2> HIDE DEF b
  <2> QED BY <1>1, <1>2, <1>3, <1>5, ThreadAssumption, PlaceSend
<1>9. OpOK'
  BY <1>2, <1>3, <1>5 DEF OpOK
<1>10. DeinitOK'
  BY <1>2, <1>3, <1>5, DeinitAlive
<1>11. QueueFieldsOK'
  BY <1>1, <1>2, <1>3 DEF QueueFieldsOK
<1> QED BY <1>4, <1>7, <1>8, <1>9, <1>10, <1>11 DEF QueueInv

\* What a step of the scheduler does to a thread of the queue: it goes on, or not.
LEMMA SchedulerFacts ==
    ASSUME Disciplined, QueueInv,
           \/ \E t, u \in Thread : rt_thread_startup(t, u) /\ op[t] = "none"
           \/ \E t \in Thread : ResumeInsert(t) \/ Schedule(t)
           \/ rt_tick_increase
    PROVE  /\ \A u \in Thread : /\ \/ pc'[u] = pc[u]
                                   \/ op[u] = "none" /\ pc[u] \in {"run", "unsched", "sched", "startup"}
                                      /\ pc'[u] \in {"run", "sched", "startup"}
                                   \/ pc[u] = "sched" /\ pc'[u] = "run"
           /\ \A u \in Thread : pc[u] # "run" => stat'[u] = stat[u]
           /\ UNCHANGED <<error, timer>>
<1>0. /\ BlockInv /\ pc \in [Thread -> MbLabel] /\ OpOK /\ stat \in [Thread -> Stat]
  BY QueueFacts DEF BlockInv, CoreTypeOK
<1>1. ASSUME NEW t \in Thread, NEW u \in Thread, rt_thread_startup(t, u), op[t] = "none"
      PROVE  /\ pc' = [pc EXCEPT ![t] = "startup"] /\ pc[t] \in {"run", "unsched"}
             /\ stat' = [stat EXCEPT ![u] = "suspend"] /\ pc[u] = "run" /\ UNCHANGED <<error, timer>>
  <2>1. pc[u] = "run"
    BY <1>0, <1>1, BlockStartup
  <2> QED BY <1>1, <2>1 DEF rt_thread_startup, InApp, Goto
<1>2. ASSUME NEW t \in Thread, ResumeInsert(t)
      PROVE  /\ pc' = [pc EXCEPT ![t] = "sched"] /\ pc[t] = "startup" /\ op[t] = "none"
             /\ tgt[t] \in Thread /\ pc[tgt[t]] = "run"
             /\ stat' = [stat EXCEPT ![tgt[t]] = "ready"] /\ UNCHANGED <<error, timer>>
  <2>1. /\ tgt[t] \in Thread /\ pc[tgt[t]] = "run" /\ pc[t] = "startup"
        /\ pc' = [pc EXCEPT ![t] = "sched"]
    BY <1>0, <1>2, BlockStarted
  <2>2. op[t] = "none"
    BY <1>0, <2>1, QueueFacts DEF OpOK, Stands, Op, Holding
  <2> QED BY <1>2, <2>1, <2>2 DEF ResumeInsert
<1>3. ASSUME NEW t \in Thread, Schedule(t)
      PROVE  pc' = [pc EXCEPT ![t] = "run"] /\ pc[t] = "sched" /\ UNCHANGED <<stat, error, timer>>
  <2>1. pc[t] \in {"sched", "sleep", "exit"} /\ pc[t] \in MbLabel
    BY <1>0, <1>3 DEF Schedule
  <2>2. pc[t] = "sched"
    BY <2>1 DEF MbLabel, OwnLabel, MbPc
  <2> QED BY <1>3, <2>2 DEF Schedule, Goto
<1>4. CASE \E t, u \in Thread : rt_thread_startup(t, u) /\ op[t] = "none"
  BY <1>0, <1>1, <1>4
<1>5. CASE \E t \in Thread : ResumeInsert(t)
  BY <1>0, <1>2, <1>5
<1>6. CASE \E t \in Thread : Schedule(t)
  BY <1>0, <1>3, <1>6
<1>7. CASE rt_tick_increase
  BY <1>7 DEF rt_tick_increase
<1> QED BY <1>4, <1>5, <1>6, <1>7

\* The steps of the scheduler.
LEMMA SchedulerInv ==
    ASSUME Disciplined, QueueInv, UNCHANGED <<poolVars, mbVars, queueVars>>,
           \/ \E t, u \in Thread : rt_thread_startup(t, u) /\ op[t] = "none"
           \/ \E t \in Thread : ResumeInsert(t) \/ Schedule(t)
           \/ rt_tick_increase
    PROVE  QueueInv'
<1>1. /\ UNCHANGED poolVars /\ UNCHANGED <<alive, used, waitq>> /\ UNCHANGED mbVars
      /\ UNCHANGED <<ring, mail>> /\ UNCHANGED <<receivers, mbAlive>>
      /\ UNCHANGED <<op, qTime, content, buf>>
  BY DEF poolVars, mbVars, queueVars
<1>2. /\ MbInv /\ PoolInv /\ OpOK /\ OnePlace /\ DeinitOK /\ pc \in [Thread -> MbLabel]
      /\ op \in [Thread -> Op] /\ qTime \in [Thread -> {"no", "timed", "forever"}]
      /\ content \in [Block -> Msg \cup {NoMsg}] /\ buf \in [Thread -> Msg \cup {NoMsg}]
  BY QueueFacts
<1>3. MbInv'
  BY <1>1, <1>2, MbSchedInv
<1>4. /\ \A u \in Thread : /\ \/ pc'[u] = pc[u]
                              \/ op[u] = "none" /\ pc[u] \in {"run", "unsched", "sched", "startup"}
                                 /\ pc'[u] \in {"run", "sched", "startup"}
                              \/ pc[u] = "sched" /\ pc'[u] = "run"
      /\ \A u \in Thread : pc[u] # "run" => stat'[u] = stat[u]
      /\ UNCHANGED <<error, timer>>
  BY SchedulerFacts
<1>5. \A u \in Thread : (InAlloc(u)' <=> InAlloc(u)) /\ (InRecv(u)' <=> InRecv(u))
  BY <1>4 DEF InAlloc, InRecv
<1>6. PoolInv'
  <2>1. \A u \in Thread : InAlloc(u) => pc[u] # "run"
    BY DEF InAlloc
  <2> QED BY <1>1, <1>2, <1>4, <1>5, <2>1, PoolFrame
<1>7. OnePlace'
  BY <1>1, <1>2, PlaceSame
<1>8. OpOK'
  BY <1>1, <1>2, <1>4 DEF OpOK, Stands, Holding
<1>9. DeinitOK'
  <2>1. \A u \in Thread : op[u] \in {"deinit_mb", "deinit_mp"} => pc'[u] = pc[u]
    BY <1>2, <1>4 DEF OpOK, Stands
  <2>2. \A u \in Thread : InRecv(u) => pc[u] # "run"
    BY DEF InRecv
  <2> QED BY <1>1, <1>2, <1>4, <1>5, <2>1, <2>2, DeinitFrame
<1>10. QueueFieldsOK'
  BY <1>1, <1>2 DEF QueueFieldsOK
<1> QED BY <1>3, <1>6, <1>7, <1>8, <1>9, <1>10 DEF QueueInv

\* The initial state: every block is free, the mailbox is empty.
LEMMA QueueInitInv == QueueInit => QueueInv
<1> SUFFICES ASSUME QueueInit PROVE QueueInv
  OBVIOUS
<1>1. /\ PoolInit /\ Init /\ MbInit /\ op = [t \in Thread |-> "none"] /\ qTime = [t \in Thread |-> "no"]
      /\ content = [b \in Block |-> NoMsg] /\ buf = [t \in Thread |-> NoMsg]
  BY DEF QueueInit, PoolInit
<1>2. PoolInv /\ MbInv
  BY <1>1, PoolInitInv, MbInitInv
<1>3. /\ used = {} /\ alive = TRUE /\ \A t \in Thread : pc[t] = "run"
      /\ entry = 0 /\ receivers = <<>> /\ mbAlive = TRUE /\ mail = [t \in Thread |-> NoMail]
  BY <1>1 DEF PoolInit, Init, MbInit
<1>4. Contents = <<>>
  BY <1>2, <1>3, RingPart, ContentsLength
<1>5. OnePlace
  BY <1>3, <1>4, QueueAssumption, MailboxAssumption DEF OnePlace, Distinct, Contains
<1>6. QueueFieldsOK
  BY <1>1 DEF QueueFieldsOK, Op
<1>7. OpOK
  BY <1>1, <1>3 DEF OpOK, Stands, Holding
<1>8. DeinitOK
  BY <1>1, <1>3 DEF DeinitOK
<1> QED BY <1>2, <1>5, <1>6, <1>7, <1>8 DEF QueueInv

\* Every step keeps the invariant.
LEMMA QueueNextInv ==
    ASSUME QueueCalled, QueueInv, [QueueNext]_allVars
    PROVE  QueueInv'
<1>0. Disciplined
  BY DEF QueueCalled
<1>1. ASSUME NEW t \in Thread, QueueCall(t) PROVE QueueInv'
  <2>1. CASE \/ \E m \in Msg, tm \in Times : bk_rtos_push_to_queue(t, m, tm)
             \/ \E tm \in MbTimes : bk_rtos_pop_from_queue(t, tm)
    BY <2>1, PushInv, PopInv
  <2>2. CASE Consume(t) \/ bk_rtos_deinit_queue(t)
    BY <1>0, <2>2, LocalInv, DeinitInv
  <2>3. CASE /\ \E u \in Thread : rt_thread_startup(t, u)
             /\ op[t] = "none" /\ UNCHANGED <<poolVars, mbVars, queueVars>>
    BY <1>0, <2>3, SchedulerInv
  <2> QED BY <1>1, <2>1, <2>2, <2>3 DEF QueueCall
<1>2. ASSUME NEW t \in Thread, QueueStep(t) PROVE QueueInv'
  <2>1. CASE PushSchedule(t) \/ PushGiveUp(t) \/ PushAgain(t) \/ PushSend(t)
    BY <2>1, PushWaitsInv, PushInv, PushSendInv
  <2>2. CASE CopyIn(t) \/ PopCopy(t) \/ DeinitReturn(t)
    BY <1>0, <2>2, LocalInv
  <2>3. CASE MbScheduled(t) \/ PopAgain(t) \/ PopFree(t)
    BY <2>3, PopScheduledInv, PopInv, PopFreeInv
  <2>4. CASE DeinitMbStep(t) \/ DeinitPool(t) \/ DeinitPoolStep(t)
    BY <2>4, DeinitMbInv, DeinitPoolInv, DeinitPoolStepInv
  <2> QED BY <1>2, <2>1, <2>2, <2>3, <2>4 DEF QueueStep
<1>3. ASSUME NEW t \in Thread, QueueTimeout(t) PROVE QueueInv'
  BY <1>3, QueueTimeoutInv
<1>4. ASSUME NEW m \in IsrMsg, IsrPush(m) PROVE QueueInv'
  BY <1>4, QueueAssumption, IsrPushInv
<1>5. ASSUME (\E t \in Thread : ResumeInsert(t) \/ Schedule(t)) \/ rt_tick_increase,
             UNCHANGED <<poolVars, mbVars, queueVars>>
      PROVE  QueueInv'
  BY <1>0, <1>5, SchedulerInv
<1>6. CASE UNCHANGED allVars
  <2>1. UNCHANGED <<schedVars, poolVars, mbVars>> /\ UNCHANGED <<op, qTime, content, buf>>
    BY <1>6 DEF allVars, queueVars
  <2>2. /\ MbInv' /\ PoolInv' /\ OnePlace'
        /\ UNCHANGED <<pc, stat, error, mail, receivers, mbAlive, alive, waitq>>
    BY <1>0, <2>1, LocalFacts
  <2>3. QueueFieldsOK' /\ OpOK' /\ DeinitOK'
    BY <2>1, <2>2 DEF QueueInv, QueueFieldsOK, OpOK, DeinitOK, InRecv
  <2> QED BY <2>2, <2>3 DEF QueueInv
<1> QED BY <1>1, <1>2, <1>3, <1>4, <1>5, <1>6 DEF QueueNext

\* The inductive invariant holds in every reachable state of the queue.
THEOREM QueueInvariant == ASSUME QueueCalled PROVE QueueSpec => []QueueInv
<1>1. QueueInit => QueueInv
  BY QueueInitInv
<1>2. QueueInv /\ [QueueNext]_allVars => QueueInv'
  BY QueueNextInv
<1> QED BY <1>1, <1>2, PTL DEF QueueSpec
-----------------------------------------------------------------------------
(* What follows from the invariant.                                         *)

\* The queue's state is well typed: no counter of the pool or the ring leaves its
\* range, whatever threads and interrupt handlers push and pop.
THEOREM QueueTypeCorrect == ASSUME QueueCalled PROVE QueueSpec => []QueueTypeOK
<1>1. QueueInv => QueueTypeOK
  <2> SUFFICES ASSUME QueueInv PROVE QueueTypeOK
    OBVIOUS
  <2>1. /\ RingTypeOK /\ PoolInv /\ mail \in [Thread -> Block \cup {NoMail}]
        /\ op \in [Thread -> Op] /\ qTime \in [Thread -> {"no", "timed", "forever"}]
        /\ content \in [Block -> Msg \cup {NoMsg}] /\ buf \in [Thread -> Msg \cup {NoMsg}]
    BY QueueFacts
  <2>2. blockList \in Seq(Block) /\ Distinct(blockList) /\ freeCount = Len(blockList)
    BY <2>1, PoolFacts
  <2>3. freeCount \in 0..Cardinality(Block)
    BY <2>2, PoolAssumption, DistinctLength
  <2> QED BY <2>1, <2>3 DEF QueueTypeOK, RingTypeOK
<1> QED BY <1>1, QueueInvariant, PTL

\* No block is lost or handed out twice, and block_free_count is the length of the
\* free list, for any number of blocks and threads.
THEOREM PoolBlocks == ASSUME QueueCalled PROVE QueueSpec => []BlocksOK
<1>1. QueueInv => BlocksOK
  BY DEF QueueInv, PoolInv
<1> QED BY <1>1, QueueInvariant, PTL

\* The suspend list of the pool holds exactly the threads that wait in rt_mp_alloc.
THEOREM PoolWaiters == ASSUME QueueCalled PROVE QueueSpec => []PoolWaitersOK
<1>1. QueueInv => PoolWaitersOK
  BY DEF QueueInv, PoolInv
<1> QED BY <1>1, QueueInvariant, PTL

\* No wakeup of rt_mp_free is lost: while a push is left waiting, every free block
\* has a woken one, although other threads and interrupts may take the block first.
THEOREM PoolWakeups == ASSUME QueueCalled PROVE QueueSpec => []NoLostWakeup
<1>1. QueueInv => NoLostWakeup
  BY DEF QueueInv, PoolInv
<1> QED BY <1>1, QueueInvariant, PTL

\* NoLeak is OnePlace over sets.
LEMMA QueuedBlocks ==
    ASSUME RingTypeOK, OnePlace
    PROVE  /\ Queued \subseteq Block
           /\ \A b : b \in Queued <=> Contains(Contents, b)
<1>1. Len(Contents) = entry /\ Contents \in Seq(Block)
  BY ContentsLength DEF OnePlace
<1>2. \A b : b \in Queued <=> Contains(Contents, b)
  BY <1>1 DEF Queued, Contains
<1> QED BY <1>1, <1>2 DEF Contains

\* Every block that the pool has handed out is in the mailbox, once, or with the one
\* thread that fills or empties it: no push ever finds the mailbox full, so the
\* error path of bk_rtos_push_to_queue that would keep the block is dead code.
THEOREM QueueNoLeak == ASSUME QueueCalled PROVE QueueSpec => []NoLeak
<1>1. QueueInv => NoLeak
  <2> SUFFICES ASSUME QueueInv PROVE NoLeak
    OBVIOUS
  <2>1. /\ RingTypeOK /\ OnePlace /\ PoolInv /\ mail \in [Thread -> Block \cup {NoMail}]
        /\ NoMail \notin Block
    BY QueueFacts
  <2>2. Queued \subseteq Block /\ \A b : b \in Queued <=> Contains(Contents, b)
    BY <2>1, QueuedBlocks
  <2>3. used \in SUBSET Block
    BY <2>1, PoolFacts
  <2>4. Queued \cap {mail[t] : t \in Thread} = {}
    BY <2>1, <2>2 DEF OnePlace
  <2>5. used = Queued \cup ({mail[t] : t \in Thread} \ {NoMail})
    BY <2>1, <2>2, <2>3 DEF OnePlace
  <2> QED BY <2>1, <2>4, <2>5 DEF NoLeak, OnePlace
<1> QED BY <1>1, QueueInvariant, PTL

\* bk_rtos_deinit_queue leaves no thread suspended in the queue it has freed.
THEOREM QueueNobodyLeft == ASSUME QueueCalled PROVE QueueSpec => []NobodyLeft
<1>1. QueueInv => NobodyLeft
  <2> SUFFICES ASSUME QueueInv, ~alive, NEW t \in Thread, InAlloc(t) \/ InRecv(t),
                      \A u \in Thread : op[u] \notin {"deinit_mb", "deinit_mp"}
               PROVE  stat[t] = "ready"
    BY DEF NobodyLeft
  <2>1. MbInv /\ BlockInv /\ PoolInv /\ DeinitOK
    BY QueueFacts
  <2>2. waitq = <<>> /\ receivers = <<>>
    BY <2>1 DEF DeinitOK
  <2>3. ~Contains(waitq, t) /\ ~Contains(receivers, t)
    BY <2>2 DEF Contains
  <2>4. stat[t] # "suspend"
    BY <2>1, <2>3 DEF PoolInv, PoolWaitersOK, MbInv, MbWaitersOK
  <2>5. pc[t] # "run"
    BY DEF InAlloc, InRecv
  <2>6. stat[t] \in {"ready", "suspend"}
    BY <2>1, <2>5 DEF BlockInv, StartedOK
  <2> QED BY <2>4, <2>6
<1> QED BY <1>1, QueueInvariant, PTL
-----------------------------------------------------------------------------
(* The queue implements BoundedFifo.                                        *)

\* The refinement mapping: the messages of the blocks in the mailbox, and of each
\* thread the message it offers or has got.
Items == [i \in 1..entry |-> content[Contents[i]]]
Buffers == [t \in Thread |-> IF op[t] = "copy_out" THEN content[mail[t]] ELSE buf[t]]
QueueFifoStep == [Queue!FifoNext]_<<Items, Buffers>>

\* What the mapping needs besides QueueInv: a push has a message, which is in its
\* block once copied, and a pop has none until it copies it out.
BufferOK == \A t \in Thread : /\ op[t] \in {"alloc", "copy", "send"} => buf[t] \in Msg
                              /\ op[t] \in {"recv", "copy_out"} => buf[t] = NoMsg
                              /\ op[t] = "send" => content[mail[t]] = buf[t]

\* The types, before and after a step.
LEMMA MappingFacts ==
    ASSUME QueueInv, QueueInv'
    PROVE  /\ Contents \in Seq(Block) /\ Len(Contents) = entry /\ entry \in Nat
           /\ Contents' \in Seq(Block) /\ Len(Contents') = entry' /\ entry' \in Nat
           /\ content \in [Block -> Msg \cup {NoMsg}] /\ content' \in [Block -> Msg \cup {NoMsg}]
           /\ op \in [Thread -> Op] /\ op' \in [Thread -> Op]
           /\ buf \in [Thread -> Msg \cup {NoMsg}] /\ buf' \in [Thread -> Msg \cup {NoMsg}]
           /\ mail \in [Thread -> Block \cup {NoMail}] /\ mail' \in [Thread -> Block \cup {NoMail}]
           /\ OpOK /\ OnePlace /\ NoMail \notin Block
<1>1. /\ OnePlace /\ OpOK /\ op \in [Thread -> Op] /\ content \in [Block -> Msg \cup {NoMsg}]
      /\ buf \in [Thread -> Msg \cup {NoMsg}] /\ mail \in [Thread -> Block \cup {NoMail}]
      /\ NoMail \notin Block /\ RingTypeOK /\ Mail = Block
  BY QueueFacts
<1>2. /\ content' \in [Block -> Msg \cup {NoMsg}] /\ op' \in [Thread -> Op]
      /\ buf' \in [Thread -> Msg \cup {NoMsg}]
  BY DEF QueueInv, QueueFieldsOK
<1>3. mail' \in [Thread -> Block \cup {NoMail}] /\ entry' \in 0..MbSize /\ Contents' \in Seq(Block)
  BY <1>1 DEF QueueInv, MbInv, MbFieldsOK, OnePlace
<1>4. Contents \in Seq(Block) /\ Len(Contents) = entry /\ entry \in Nat
  BY <1>1, ContentsLength DEF OnePlace
<1>5. entry' \in Nat
  BY <1>3, MailboxAssumption
<1>6. DOMAIN Contents' = 1..entry'
  BY DEF Contents
<1>7. Len(Contents') = entry'
  BY <1>3, <1>5, <1>6
<1> QED BY <1>1, <1>2, <1>3, <1>4, <1>5, <1>7

\* A step that leaves the blocks and the mailbox alone.
LEMMA ItemsSame ==
    ASSUME QueueInv, QueueInv', UNCHANGED ring,
           \A b \in Block : Contains(Contents, b) => content'[b] = content[b]
    PROVE  Items' = Items
<1>1. Contents' = Contents /\ entry' = entry
  BY ContentsSame DEF ring
<1>2. Contents \in Seq(Block) /\ Len(Contents) = entry
  BY MappingFacts
<1>3. \A i \in 1..entry : content'[Contents[i]] = content[Contents[i]]
  BY <1>2 DEF Contains
<1> QED BY <1>1, <1>3 DEF Items

\* A block comes into the mailbox,
LEMMA ItemsStore ==
    ASSUME QueueInv, QueueInv', NEW b \in Block, Contents' = Append(Contents, b),
           \A x \in Block : Contains(Contents, x) => content'[x] = content[x]
    PROVE  Items' = Append(Items, content'[b]) /\ Len(Items) = Len(Contents)
<1> DEFINE S == Msg \cup {NoMsg}
<1>1. /\ Contents \in Seq(Block) /\ Len(Contents) = entry /\ entry \in Nat
      /\ Len(Contents') = entry' /\ entry' \in Nat
      /\ content \in [Block -> S] /\ content' \in [Block -> S]
  BY MappingFacts
<1> HIDE DEF S
<1>2. entry' = entry + 1
  BY <1>1
<1>3. Items \in Seq(S) /\ Len(Items) = entry /\ \A i \in 1..entry : Items[i] = content[Contents[i]]
  BY <1>1 DEF Items
<1>4. /\ Items' \in Seq(S) /\ Len(Items') = entry'
      /\ \A i \in 1..entry' : Items'[i] = content'[Contents'[i]]
  <2>1. Contents' \in Seq(Block)
    BY <1>1
  <2>2. Items' = [i \in 1..entry' |-> content'[Contents'[i]]]
    BY DEF Items
  <2> QED BY <1>1, <2>1, <2>2
<1>5. \A i \in 1..entry : Items'[i] = Items[i]
  <2> SUFFICES ASSUME NEW i \in 1..entry PROVE Items'[i] = Items[i]
    OBVIOUS
  <2>1. i \in 1..entry' /\ Contents'[i] = Contents[i] /\ Contents[i] \in Block
    BY <1>1, <1>2
  <2>2. content'[Contents[i]] = content[Contents[i]]
    BY <1>1, <2>1 DEF Contains
  <2> QED BY <1>3, <1>4, <2>1, <2>2
<1>6. Items'[entry'] = content'[b]
  <2>1. Contents'[entry + 1] = b /\ entry' \in 1..entry'
    BY <1>1, <1>2
  <2> QED BY <1>2, <1>4, <2>1
<1>7. content'[b] \in S
  BY <1>1
<1> QED BY <1>1, <1>2, <1>3, <1>4, <1>5, <1>6, <1>7

\* and the oldest one goes out.
LEMMA ItemsFetch ==
    ASSUME QueueInv, QueueInv', Contents # <<>>, Contents' = Tail(Contents), UNCHANGED content
    PROVE  Items # <<>> /\ Head(Items) = content[Head(Contents)] /\ Items' = Tail(Items)
<1> DEFINE S == Msg \cup {NoMsg}
<1>1. /\ Contents \in Seq(Block) /\ Len(Contents) = entry /\ entry \in Nat
      /\ Len(Contents') = entry' /\ entry' \in Nat /\ content \in [Block -> S]
  BY MappingFacts
<1> HIDE DEF S
<1>2. entry' = entry - 1 /\ entry > 0
  BY <1>1
<1>3. Items \in Seq(S) /\ Len(Items) = entry /\ \A i \in 1..entry : Items[i] = content[Contents[i]]
  BY <1>1 DEF Items
<1>4. /\ Items' \in Seq(S) /\ Len(Items') = entry'
      /\ \A i \in 1..entry' : Items'[i] = content[Contents'[i]]
  <2>1. Contents' \in Seq(Block)
    BY <1>1
  <2>2. Items' = [i \in 1..entry' |-> content[Contents'[i]]]
    BY DEF Items
  <2> QED BY <1>1, <2>1, <2>2
<1>5. \A i \in 1..entry' : Contents'[i] = Contents[i + 1] /\ i + 1 \in 1..entry
  BY <1>1, <1>2
<1>6. Tail(Items) \in Seq(S) /\ Len(Tail(Items)) = entry' /\ \A i \in 1..entry' : Tail(Items)[i] = Items[i + 1]
  BY <1>2, <1>3
<1>7. \A i \in 1..entry' : Items'[i] = Tail(Items)[i]
  <2> SUFFICES ASSUME NEW i \in 1..entry' PROVE Items'[i] = Tail(Items)[i]
    OBVIOUS
  <2>1. Contents'[i] = Contents[i + 1] /\ i + 1 \in 1..entry
    BY <1>5
  <2>2. Tail(Items)[i] = content[Contents[i + 1]] /\ Items'[i] = content[Contents'[i]]
    BY <1>3, <1>4, <1>6, <2>1
  <2> QED BY <2>1, <2>2
<1>8. Items' = Tail(Items)
  BY <1>2, <1>4, <1>6, <1>7
<1>9. Items # <<>> /\ Head(Items) = content[Head(Contents)]
  BY <1>1, <1>2, <1>3
<1> QED BY <1>8, <1>9

\* A step that changes no message: where its threads stand is all that may differ.
LEMMA FifoQuiet ==
    ASSUME QueueInv, QueueInv', BufferOK, UNCHANGED ring, UNCHANGED <<content, buf>>,
           \A u \in Thread :
                \/ op'[u] = op[u] /\ mail'[u] = mail[u]
                \/ /\ op[u] # "copy_out" /\ op'[u] \in {"none", "deinit_mb", "deinit_mp", "recv"}
                   /\ op'[u] = "recv" => buf[u] = NoMsg
    PROVE  BufferOK' /\ QueueFifoStep
<1>1. Items' = Items
  BY ItemsSame
<1>2. \A u \in Thread : (IF op'[u] = "copy_out" THEN content'[mail'[u]] ELSE buf'[u])
                      = (IF op[u] = "copy_out" THEN content[mail[u]] ELSE buf[u])
  OBVIOUS
<1>3. Buffers' = Buffers
  BY <1>2 DEF Buffers
<1>4. BufferOK'
  BY DEF BufferOK
<1> QED BY <1>1, <1>3, <1>4 DEF QueueFifoStep

\* The buffers after a step of t that gives it buffer x.
LEMMA BufferStep ==
    ASSUME NEW t \in Thread, NEW x,
           \A u \in Thread : u # t => /\ op'[u] = op[u] /\ mail'[u] = mail[u] /\ buf'[u] = buf[u]
                                      /\ op[u] = "copy_out" => content'[mail[u]] = content[mail[u]],
           x = IF op'[t] = "copy_out" THEN content'[mail'[t]] ELSE buf'[t]
    PROVE  Buffers' = [Buffers EXCEPT ![t] = x]
<1>1. \A u \in Thread : (IF op'[u] = "copy_out" THEN content'[mail'[u]] ELSE buf'[u])
         = IF u = t THEN x ELSE IF op[u] = "copy_out" THEN content[mail[u]] ELSE buf[u]
  OBVIOUS
<1> QED BY <1>1 DEF Buffers

\* bk_rtos_push_to_queue takes the caller's message.
LEMMA FifoOffer ==
    ASSUME QueueInv, QueueInv', BufferOK, UNCHANGED ring, UNCHANGED content,
           NEW t \in Thread, NEW m \in Msg, op[t] # "copy_out", op'[t] \in {"alloc", "copy"},
           buf' = [buf EXCEPT ![t] = m], buf[t] \in {NoMsg, m},
           \A u \in Thread : u # t => op'[u] = op[u] /\ mail'[u] = mail[u]
    PROVE  BufferOK' /\ QueueFifoStep
<1>1. Items' = Items
  BY ItemsSame
<1>2. buf'[t] = m /\ \A u \in Thread : u # t => buf'[u] = buf[u]
  BY MappingFacts
<1>3. Buffers' = [Buffers EXCEPT ![t] = m]
  BY <1>2, BufferStep
<1>4. Buffers[t] = buf[t] /\ DOMAIN Buffers = Thread
  BY DEF Buffers
<1>5. BufferOK'
  BY <1>2 DEF BufferOK
<1>6. CASE buf[t] = NoMsg
  <2>1. Queue!Offer(t, m)
    BY <1>1, <1>3, <1>4, <1>6 DEF Queue!Offer, Items, Buffers
  <2> QED BY <1>5, <2>1 DEF QueueFifoStep, Queue!FifoNext
<1>7. CASE buf[t] = m
  <2>1. Buffers' = Buffers
    BY <1>3, <1>4, <1>7 DEF Buffers
  <2> QED BY <1>1, <1>5, <2>1 DEF QueueFifoStep
<1> QED BY <1>6, <1>7

\* A caller's buffer is empty again, with nothing stored.
LEMMA FifoDrop ==
    ASSUME QueueInv, QueueInv', BufferOK, UNCHANGED ring, UNCHANGED content,
           NEW t \in Thread, op[t] # "copy_out", op'[t] = "none",
           buf' = [buf EXCEPT ![t] = NoMsg],
           \A u \in Thread : u # t => op'[u] = op[u] /\ mail'[u] = mail[u]
    PROVE  BufferOK' /\ QueueFifoStep
<1>1. Items' = Items
  BY ItemsSame
<1>2. buf'[t] = NoMsg /\ \A u \in Thread : u # t => buf'[u] = buf[u]
  BY MappingFacts
<1>3. Buffers' = [Buffers EXCEPT ![t] = NoMsg]
  BY <1>2, BufferStep
<1>4. Buffers[t] = buf[t] /\ DOMAIN Buffers = Thread
  BY DEF Buffers
<1>5. BufferOK'
  BY <1>2 DEF BufferOK
<1>6. CASE buf[t] # NoMsg
  <2>1. Queue!Drop(t)
    BY <1>1, <1>3, <1>4, <1>6 DEF Queue!Drop, Items, Buffers
  <2> QED BY <1>5, <2>1 DEF QueueFifoStep, Queue!FifoNext
<1>7. CASE buf[t] = NoMsg
  <2>1. Buffers' = Buffers
    BY <1>3, <1>4, <1>7 DEF Buffers
  <2> QED BY <1>1, <1>5, <2>1 DEF QueueFifoStep
<1> QED BY <1>6, <1>7

\* The copies between a block and a buffer change no item: the block is in no other
\* place.
LEMMA FifoCopy ==
    ASSUME QueueInv, QueueInv', BufferOK, NEW t \in Thread, CopyIn(t) \/ PopCopy(t)
    PROVE  BufferOK' /\ QueueFifoStep
<1>1. /\ op \in [Thread -> Op] /\ content \in [Block -> Msg \cup {NoMsg}] /\ OpOK /\ OnePlace
      /\ buf \in [Thread -> Msg \cup {NoMsg}] /\ mail \in [Thread -> Block \cup {NoMail}]
  BY MappingFacts
<1>2. op[t] \in {"copy", "copy_out"} /\ UNCHANGED ring /\ UNCHANGED mail
  BY DEF CopyIn, PopCopy, CopyOut, mbVars
<1>3. /\ mail[t] \in Block /\ ~Contains(Contents, mail[t])
      /\ \A u \in Thread : u # t => mail[u] # mail[t]
  BY <1>1, <1>2 DEF OpOK, Holding, OnePlace
<1>4. CASE CopyIn(t)
  <2>1. /\ op[t] = "copy" /\ op' = [op EXCEPT ![t] = "send"] /\ UNCHANGED buf
        /\ content' = [content EXCEPT ![mail[t]] = buf[t]]
    BY <1>4 DEF CopyIn, SetOp
  <2>2. /\ op'[t] = "send" /\ \A u \in Thread : u # t => op'[u] = op[u]
        /\ content'[mail[t]] = buf[t] /\ \A b \in Block : b # mail[t] => content'[b] = content[b]
    BY <1>1, <1>3, <2>1
  <2>3. Items' = Items
    BY <1>2, <1>3, <2>2, ItemsSame
  <2>4. \A u \in Thread : u # t /\ op[u] \in {"send", "copy_out"} => content'[mail[u]] = content[mail[u]]
    BY <1>1, <1>3, <2>2 DEF OpOK, Holding
  <2>5. Buffers' = [Buffers EXCEPT ![t] = buf[t]]
    BY <1>2, <2>1, <2>2, <2>4, BufferStep
  <2>6. Buffers' = Buffers
    BY <2>1, <2>5 DEF Buffers
  <2>7. BufferOK'
    BY <1>2, <2>1, <2>2, <2>4 DEF BufferOK
  <2> QED BY <2>3, <2>6, <2>7 DEF QueueFifoStep
<1>5. CASE PopCopy(t)
  <2>1. /\ op[t] = "copy_out" /\ op' = [op EXCEPT ![t] = "free"] /\ UNCHANGED content
        /\ buf' = [buf EXCEPT ![t] = content[mail[t]]]
    BY <1>5 DEF PopCopy, CopyOut, SetOp
  <2>2. /\ op'[t] = "free" /\ buf'[t] = content[mail[t]]
        /\ \A u \in Thread : u # t => op'[u] = op[u] /\ buf'[u] = buf[u]
    BY <1>1, <2>1
  <2>3. Items' = Items
    BY <1>2, <2>1, ItemsSame
  <2>4. Buffers' = [Buffers EXCEPT ![t] = content[mail[t]]]
    BY <1>2, <2>1, <2>2, BufferStep
  <2>5. Buffers' = Buffers
    BY <2>1, <2>4 DEF Buffers
  <2>6. BufferOK'
    BY <1>2, <2>1, <2>2 DEF BufferOK
  <2> QED BY <2>3, <2>5, <2>6 DEF QueueFifoStep
<1> QED BY <1>4, <1>5

\* rt_mb_send_wait of the block puts the message.
LEMMA FifoPut ==
    ASSUME QueueInv, QueueInv', BufferOK, NEW t \in Thread, PushSend(t)
    PROVE  BufferOK' /\ QueueFifoStep
<1>1. /\ op \in [Thread -> Op] /\ content \in [Block -> Msg \cup {NoMsg}] /\ OnePlace
      /\ buf \in [Thread -> Msg \cup {NoMsg}] /\ mail \in [Thread -> Block \cup {NoMail}]
      /\ Len(Contents) = entry /\ entry \in Nat
  BY MappingFacts
<1>2. /\ op[t] = "send" /\ mail[t] \in Block /\ Contents' = Append(Contents, mail[t])
      /\ mail' = [mail EXCEPT ![t] = NoMail] /\ UNCHANGED content /\ QueueReturn(t, NoMsg)
  BY PushSendFacts
<1>3. /\ op' = [op EXCEPT ![t] = "none"] /\ buf' = [buf EXCEPT ![t] = NoMsg]
  BY <1>2 DEF QueueReturn, SetOp
<1>4. /\ op'[t] = "none" /\ buf'[t] = NoMsg
      /\ \A u \in Thread : u # t => op'[u] = op[u] /\ buf'[u] = buf[u] /\ mail'[u] = mail[u]
  BY <1>1, <1>2, <1>3
<1>5. content[mail[t]] = buf[t] /\ buf[t] \in Msg /\ buf[t] # NoMsg
  BY <1>2, QueueAssumption DEF BufferOK
<1>6. Items' = Append(Items, buf[t]) /\ Len(Items) = Len(Contents)
  BY <1>2, <1>5, ItemsStore
<1>7. Len(Contents) < MbSize
  <2>1. RingTypeOK /\ ~Contains(Contents, mail[t])
    BY <1>1, QueueFacts DEF OnePlace
  <2>2. entry < MbSize
    BY <1>1, <1>2, <2>1, RoomForBlock
  <2> QED BY <1>1, <2>2
<1>8. Buffers' = [Buffers EXCEPT ![t] = NoMsg]
  BY <1>2, <1>4, BufferStep
<1>9. Buffers[t] = buf[t]
  BY <1>2 DEF Buffers
<1>10. Queue!Put(t)
  BY <1>5, <1>6, <1>7, <1>8, <1>9 DEF Queue!Put, Items, Buffers
<1>11. BufferOK'
  BY <1>2, <1>4 DEF BufferOK
<1> QED BY <1>10, <1>11 DEF QueueFifoStep, Queue!FifoNext

\* A section of the rt_mb_recv of pop gets the oldest message, or nothing.
LEMMA FifoGet ==
    ASSUME QueueInv, QueueInv', BufferOK, NEW t \in Thread, op[t] \in {"none", "recv"}, buf[t] = NoMsg,
           pc[t] \in {"run", "unsched", "recv_chk"}, NEW tm, RecvSection(t, tm), AfterRecv(t)
    PROVE  BufferOK' /\ QueueFifoStep
<1>1. /\ op \in [Thread -> Op] /\ content \in [Block -> Msg \cup {NoMsg}] /\ OpOK
      /\ buf \in [Thread -> Msg \cup {NoMsg}] /\ mail \in [Thread -> Block \cup {NoMail}]
      /\ NoMail \notin Block
  BY MappingFacts
<1>2. mail[t] = NoMail
  BY <1>1 DEF OpOK, Holding
<1>3. /\ UNCHANGED <<content, buf>>
      /\ op' = [op EXCEPT ![t] = IF mail'[t] # NoMail THEN "copy_out"
                                 ELSE IF pc'[t] = "recv" THEN "recv" ELSE "none"]
  BY DEF AfterRecv, SetOp
<1>4. CASE RecvFetch(t)
  <2>1. /\ Contents # <<>> /\ Head(Contents) \in Block /\ Contents' = Tail(Contents)
        /\ mail' = [mail EXCEPT ![t] = Head(Contents)]
    BY <1>2, <1>4, PopFetchFacts
  <2>2. mail'[t] = Head(Contents) /\ \A u \in Thread : u # t => mail'[u] = mail[u]
    BY <1>1, <2>1
  <2>3. op'[t] = "copy_out" /\ \A u \in Thread : u # t => op'[u] = op[u]
    BY <1>1, <1>3, <2>1, <2>2
  <2>4. Items # <<>> /\ Head(Items) = content[Head(Contents)] /\ Items' = Tail(Items)
    BY <1>3, <2>1, ItemsFetch
  <2>5. Buffers' = [Buffers EXCEPT ![t] = Head(Items)]
    BY <1>3, <2>2, <2>3, <2>4, BufferStep
  <2>6. Buffers[t] = NoMsg
    BY DEF Buffers
  <2>7. Queue!Get(t)
    BY <2>4, <2>5, <2>6 DEF Queue!Get, Items, Buffers
  <2>8. BufferOK'
    BY <1>3, <2>2, <2>3 DEF BufferOK
  <2> QED BY <2>7, <2>8 DEF QueueFifoStep, Queue!FifoNext
<1>5. CASE RecvRefused(t, tm) \/ RecvWait(t, tm)
  <2>1. UNCHANGED ring /\ UNCHANGED mail
    BY <1>2, <1>5, PopNoneFacts
  <2>2. op'[t] \in {"recv", "none"} /\ \A u \in Thread : u # t => op'[u] = op[u]
    BY <1>1, <1>2, <1>3, <2>1
  <2> QED BY <1>3, <2>1, <2>2, FifoQuiet
<1> QED BY <1>4, <1>5 DEF RecvSection

\* bk_rtos_push_to_queue in an interrupt handler puts its message at once.
LEMMA FifoIsrPut ==
    ASSUME QueueInv, QueueInv', BufferOK, NEW m \in Msg, IsrPush(m)
    PROVE  BufferOK' /\ QueueFifoStep
<1> DEFINE b == Head(blockList)
<1>1. /\ content \in [Block -> Msg \cup {NoMsg}] /\ OnePlace /\ OpOK
      /\ mail \in [Thread -> Block \cup {NoMail}] /\ NoMail \notin Block
      /\ Len(Contents) = entry /\ entry \in Nat
  BY MappingFacts
<1>2. /\ b \in Block /\ b \notin used /\ ~Contains(Contents, b) /\ IsrSend(b)
      /\ Contents' = Append(Contents, b) /\ entry < MbSize
  BY IsrPushFacts
<1>3. content' = [content EXCEPT ![b] = m] /\ UNCHANGED <<op, buf>>
  BY DEF IsrPush
<1> HIDE DEF b
<1>4. UNCHANGED mail
  BY <1>2 DEF IsrSend
<1>5. content'[b] = m /\ \A x \in Block : x # b => content'[x] = content[x]
  BY <1>1, <1>2, <1>3
<1>6. Items' = Append(Items, m) /\ Len(Items) = Len(Contents)
  <2>1. \A x \in Block : Contains(Contents, x) => content'[x] = content[x]
    BY <1>2, <1>5
  <2> QED BY <1>2, <1>5, <2>1, ItemsStore
<1>7. \A u \in Thread : op[u] \in {"send", "copy_out"} => content'[mail[u]] = content[mail[u]]
  <2> SUFFICES ASSUME NEW u \in Thread, op[u] \in {"send", "copy_out"}
               PROVE  content'[mail[u]] = content[mail[u]]
    OBVIOUS
  <2>1. mail[u] \in Block
    BY <1>1 DEF OpOK, Holding
  <2>2. mail[u] \in used
    BY <1>1, <2>1 DEF OnePlace
  <2> QED BY <1>2, <1>5, <2>1, <2>2
<1>8. Buffers' = Buffers
  <2>1. \A u \in Thread : (IF op'[u] = "copy_out" THEN content'[mail'[u]] ELSE buf'[u])
                        = (IF op[u] = "copy_out" THEN content[mail[u]] ELSE buf[u])
    BY <1>3, <1>4, <1>7
  <2> QED BY <2>1 DEF Buffers
<1>9. Queue!PutAtOnce(m)
  BY <1>1, <1>2, <1>6, <1>8 DEF Queue!PutAtOnce, Items, Buffers
<1>10. BufferOK'
  BY <1>3, <1>4, <1>7 DEF BufferOK
<1> QED BY <1>9, <1>10 DEF QueueFifoStep, Queue!FifoNext

\* A section of the rt_mp_alloc of push.
LEMMA FifoPush ==
    ASSUME QueueInv, QueueInv', BufferOK, NEW t \in Thread, op[t] \in {"none", "alloc"},
           NEW m \in Msg, buf[t] \in {NoMsg, m}, NEW tm, NEW left, PushSection(t, m, tm, left)
    PROVE  BufferOK' /\ QueueFifoStep
<1>1. op \in [Thread -> Op] /\ mail \in [Thread -> Block \cup {NoMail}]
  BY MappingFacts
<1>2. CASE PushTake(t, m, tm)
  <2>1. /\ UNCHANGED ring /\ UNCHANGED content /\ op' = [op EXCEPT ![t] = "copy"]
        /\ buf' = [buf EXCEPT ![t] = m] /\ mail' = [mail EXCEPT ![t] = Head(blockList)]
    BY <1>2 DEF PushTake, SetOp
  <2>2. op'[t] = "copy" /\ \A u \in Thread : u # t => op'[u] = op[u] /\ mail'[u] = mail[u]
    BY <1>1, <2>1
  <2> QED BY <2>1, <2>2, FifoOffer
<1>3. CASE PushRefused(t, left)
  <2>1. /\ UNCHANGED ring /\ UNCHANGED <<content, mail>> /\ op' = [op EXCEPT ![t] = "none"]
        /\ buf' = [buf EXCEPT ![t] = NoMsg]
    BY <1>3 DEF PushRefused, QueueReturn, SetOp, mbVars
  <2>2. op'[t] = "none" /\ \A u \in Thread : u # t => op'[u] = op[u] /\ mail'[u] = mail[u]
    BY <1>1, <2>1
  <2> QED BY <2>1, <2>2, FifoDrop
<1>4. CASE PushWait(t, m, tm, left)
  <2>1. /\ UNCHANGED ring /\ UNCHANGED <<content, mail>> /\ op' = [op EXCEPT ![t] = "alloc"]
        /\ buf' = [buf EXCEPT ![t] = m]
    BY <1>4 DEF PushWait, SetOp, mbVars
  <2>2. op'[t] = "alloc" /\ \A u \in Thread : u # t => op'[u] = op[u] /\ mail'[u] = mail[u]
    BY <1>1, <2>1
  <2> QED BY <2>1, <2>2, FifoOffer
<1> QED BY <1>2, <1>3, <1>4 DEF PushSection

\* The calls.
LEMMA FifoCalls ==
    ASSUME QueueInv, QueueInv', BufferOK, NEW t \in Thread, QueueCall(t)
    PROVE  BufferOK' /\ QueueFifoStep
<1>1. op \in [Thread -> Op] /\ mail \in [Thread -> Block \cup {NoMail}]
  BY MappingFacts
<1>2. ASSUME NEW m \in Msg, NEW tm \in Times, bk_rtos_push_to_queue(t, m, tm)
      PROVE  BufferOK' /\ QueueFifoStep
  <2>1. op[t] = "none" /\ buf[t] = NoMsg /\ PushSection(t, m, tm, tm)
    BY <1>2 DEF bk_rtos_push_to_queue
  <2> QED BY <2>1, FifoPush
<1>3. ASSUME NEW tm \in MbTimes, bk_rtos_pop_from_queue(t, tm)
      PROVE  BufferOK' /\ QueueFifoStep
  <2>1. /\ op[t] = "none" /\ buf[t] = NoMsg /\ pc[t] \in {"run", "unsched"}
        /\ RecvSection(t, tm) /\ AfterRecv(t)
    BY <1>3 DEF bk_rtos_pop_from_queue, rt_mb_recv, InApp
  <2> QED BY <2>1, FifoGet
<1>4. CASE Consume(t)
  <2>1. /\ op[t] = "none" /\ buf' = [buf EXCEPT ![t] = NoMsg] /\ UNCHANGED ring
        /\ UNCHANGED <<content, op, mail>>
    BY <1>4 DEF Consume, mbVars
  <2> QED BY <2>1, FifoDrop
<1>5. CASE bk_rtos_deinit_queue(t)
  <2>1. /\ op[t] = "none" /\ op' = [op EXCEPT ![t] = "deinit_mb"] /\ UNCHANGED ring
        /\ UNCHANGED <<content, buf>> /\ UNCHANGED mail
    BY <1>5 DEF bk_rtos_deinit_queue, rt_mb_detach, SetOp
  <2>2. op'[t] = "deinit_mb" /\ \A u \in Thread : u # t => op'[u] = op[u]
    BY <1>1, <2>1
  <2> QED BY <2>1, <2>2, FifoQuiet
<1>6. CASE UNCHANGED <<poolVars, mbVars, queueVars>>
  <2>1. UNCHANGED ring /\ UNCHANGED <<content, buf>> /\ UNCHANGED <<op, mail>>
    BY <1>6 DEF mbVars, queueVars
  <2> QED BY <2>1, FifoQuiet
<1> QED BY <1>2, <1>3, <1>4, <1>5, <1>6 DEF QueueCall

\* The steps inside a call.
LEMMA FifoSteps ==
    ASSUME QueueInv, QueueInv', BufferOK, NEW t \in Thread, QueueStep(t)
    PROVE  BufferOK' /\ QueueFifoStep
<1>1. op \in [Thread -> Op] /\ mail \in [Thread -> Block \cup {NoMail}] /\ buf \in [Thread -> Msg \cup {NoMsg}]
  BY MappingFacts
<1>2. CASE PushSchedule(t) \/ MbScheduled(t) \/ DeinitMbStep(t) \/ DeinitPoolStep(t)
  <2>1. UNCHANGED ring /\ UNCHANGED <<content, buf>> /\ UNCHANGED <<op, mail>>
    <3>1. CASE PushSchedule(t) \/ DeinitPoolStep(t)
      BY <3>1 DEF PushSchedule, DeinitPoolStep, mbVars, queueVars
    <3>2. CASE MbScheduled(t)
      BY <3>2 DEF MbScheduled, MbSchedule, mbVars, queueVars
    <3>3. CASE DeinitMbStep(t)
      BY <3>3 DEF DeinitMbStep, MbDetachTest, MbDetachReceiver, mbVars, queueVars
    <3> QED BY <1>2, <3>1, <3>2, <3>3
  <2> QED BY <2>1, FifoQuiet
<1>3. CASE PushGiveUp(t)
  <2>1. /\ op[t] = "alloc" /\ UNCHANGED ring /\ UNCHANGED <<content, mail>>
        /\ op' = [op EXCEPT ![t] = "none"] /\ buf' = [buf EXCEPT ![t] = NoMsg]
    BY <1>3 DEF PushGiveUp, QueueReturn, SetOp, mbVars
  <2>2. op'[t] = "none" /\ \A u \in Thread : u # t => op'[u] = op[u]
    BY <1>1, <2>1
  <2> QED BY <2>1, <2>2, FifoDrop
<1>4. CASE PushAgain(t)
  <2>1. op[t] = "alloc" /\ \E left \in LeftOf(time[t]) : PushSection(t, buf[t], qTime[t], left)
    BY <1>4 DEF PushAgain
  <2>2. buf[t] \in Msg
    BY <2>1 DEF BufferOK
  <2> QED BY <2>1, <2>2, FifoPush
<1>5. CASE PopAgain(t)
  <2>1. op[t] = "recv" /\ AfterRecv(t) /\ (RecvAgain(t) \/ MbGiveUp(t)) /\ buf[t] = NoMsg
    BY <1>5 DEF PopAgain, BufferOK
  <2>2. CASE RecvAgain(t)
    <3>1. pc[t] = "recv_chk" /\ \E tm \in MbLeft(mbTime[t]) : RecvSection(t, tm)
      BY <2>2 DEF RecvAgain, At
    <3> QED BY <2>1, <3>1, FifoGet
  <2>3. CASE MbGiveUp(t)
    <3>1. UNCHANGED ring /\ mail' = [mail EXCEPT ![t] = NoMail]
      BY <2>3 DEF MbGiveUp
    <3>2. /\ UNCHANGED <<content, buf>>
          /\ op' = [op EXCEPT ![t] = IF mail'[t] # NoMail THEN "copy_out"
                                     ELSE IF pc'[t] = "recv" THEN "recv" ELSE "none"]
      BY <2>1 DEF AfterRecv, SetOp
    <3>3. /\ op'[t] \in {"recv", "none"}
          /\ \A u \in Thread : u # t => op'[u] = op[u] /\ mail'[u] = mail[u]
      BY <1>1, <3>1, <3>2
    <3> QED BY <2>1, <3>1, <3>2, <3>3, FifoQuiet
  <2> QED BY <2>1, <2>2, <2>3
<1>6. CASE PopFree(t)
  <2>1. /\ op[t] = "free" /\ UNCHANGED ring /\ UNCHANGED content /\ op' = [op EXCEPT ![t] = "none"]
        /\ buf' = [buf EXCEPT ![t] = buf[t]] /\ mail' = [mail EXCEPT ![t] = NoMail]
    BY <1>6 DEF PopFree, QueueReturn, SetOp
  <2>2. /\ op'[t] = "none" /\ UNCHANGED buf
        /\ \A u \in Thread : u # t => op'[u] = op[u] /\ mail'[u] = mail[u]
    BY <1>1, <2>1
  <2> QED BY <2>1, <2>2, FifoQuiet
<1>7. CASE DeinitPool(t) \/ DeinitReturn(t)
  <2>1. /\ op[t] \in {"deinit_mb", "deinit_mp"} /\ UNCHANGED ring /\ UNCHANGED <<content, buf>>
        /\ UNCHANGED mail
        /\ op' = [op EXCEPT ![t] = "deinit_mp"] \/ op' = [op EXCEPT ![t] = "none"]
    BY <1>7 DEF DeinitPool, DeinitReturn, SetOp, mbVars
  <2>2. op'[t] \in {"none", "deinit_mp"} /\ \A u \in Thread : u # t => op'[u] = op[u]
    BY <1>1, <2>1
  <2> QED BY <2>1, <2>2, FifoQuiet
<1> QED BY <1>2, <1>3, <1>4, <1>5, <1>6, <1>7, FifoCopy, FifoPut DEF QueueStep

\* Every step of the queue is a step of the abstract one, or leaves it alone.
LEMMA QueueNextFifo ==
    ASSUME QueueInv, QueueInv', BufferOK, [QueueNext]_allVars
    PROVE  BufferOK' /\ QueueFifoStep
<1>1. ASSUME UNCHANGED ring, UNCHANGED <<content, buf>>, UNCHANGED <<op, mail>>
      PROVE  BufferOK' /\ QueueFifoStep
  BY <1>1, FifoQuiet
<1>2. ASSUME NEW t \in Thread, QueueTimeout(t) PROVE BufferOK' /\ QueueFifoStep
  <2>1. UNCHANGED ring /\ UNCHANGED <<content, buf>> /\ UNCHANGED <<op, mail>>
    BY <1>2 DEF QueueTimeout, queueVars
  <2> QED BY <1>1, <2>1
<1>3. ASSUME NEW m \in IsrMsg, IsrPush(m) PROVE BufferOK' /\ QueueFifoStep
  BY <1>3, QueueAssumption, FifoIsrPut
<1>4. CASE UNCHANGED <<poolVars, mbVars, queueVars>> \/ UNCHANGED allVars
  <2>1. UNCHANGED ring /\ UNCHANGED <<content, buf>> /\ UNCHANGED <<op, mail>>
    BY <1>4 DEF allVars, mbVars, queueVars
  <2> QED BY <1>1, <2>1
<1> QED BY <1>2, <1>3, <1>4, FifoCalls, FifoSteps DEF QueueNext

\* The queue of bk_rtos_pub.c implements a bounded FIFO of messages, for any number
\* of messages, pushers, poppers and interrupts: what a pop returns is the message of
\* one push, whole and in order, although the blocks are filled, emptied and reused
\* with interrupts enabled.
THEOREM QueueImplementsFifo == ASSUME QueueCalled PROVE QueueSpec => QueueIsFifo
<1>1. QueueInit => Queue!FifoInit /\ BufferOK
  <2> SUFFICES ASSUME QueueInit PROVE Queue!FifoInit /\ BufferOK
    OBVIOUS
  <2>1. /\ op = [t \in Thread |-> "none"] /\ buf = [t \in Thread |-> NoMsg] /\ entry = 0
    BY DEF QueueInit, MbInit
  <2>2. \A f : DOMAIN f = 1..0 /\ f = [i \in DOMAIN f |-> f[i]] => f = <<>>
    OBVIOUS
  <2>3. [i \in 1..0 |-> content[Contents[i]]] = <<>>
    BY <2>2
  <2>4. Items = <<>>
    BY <2>1, <2>3 DEF Items
  <2>5. Buffers = [t \in Thread |-> NoMsg]
    BY <2>1 DEF Buffers
  <2> QED BY <2>1, <2>4, <2>5 DEF Queue!FifoInit, BufferOK, Items, Buffers
<1>2. QueueInv /\ QueueInv' /\ BufferOK /\ [QueueNext]_allVars => BufferOK' /\ QueueFifoStep
  BY QueueNextFifo
<1>3. QueueSpec => []QueueInv
  BY QueueInvariant
<1> QED BY <1>1, <1>2, <1>3, PTL
        DEF QueueSpec, QueueIsFifo, Queue!FifoSpec, QueueFifoStep, Items, Buffers
=============================================================================

---------------------------- MODULE RtSemProofs ----------------------------
(***************************************************************************)
(* Proofs about RtSem: SemInv is inductive, one lemma per action, and the  *)
(* invariants of the run follow.  What a step does to the scheduler's part *)
(* of the state is taken from the Block lemmas of RtSchedProofs.           *)
(***************************************************************************)
EXTENDS RtSem, RtSchedProofs, FiniteSetTheorems

\* A take that still waits has not been answered: only the end of its wait
\* sets thread->error to anything but RT_EOK.
SemErrorOK == \A t \in Thread : InTake(t) /\ stat[t] = "suspend" => error[t] = "EOK"

\* The inductive invariant.
SemInv == BlockInv /\ SemTypeOK /\ SemWaitersOK /\ NoIdleToken /\ TokensConserved /\ SemErrorOK

Grants == {t \in Thread : Granted(t)}

\* The granted takes are finitely many.
LEMMA GrantsFinite == IsFiniteSet(Grants) /\ Cardinality(Grants) \in Nat
<1>1. Grants \subseteq Thread
  BY DEF Grants
<1> QED BY <1>1, ThreadAssumption, FS_Subset, FS_CardinalityType

\* The labels of rt_sem_take and rt_sem_detach among those of the scheduler.
LEMMA SemLabels ==
    /\ "take" \in SuspendLabel /\ "take" \in WaitLabel
    /\ "take_chk" \in WaitLabel /\ "take_chk" \notin SuspendLabel
    /\ {"run", "unsched", "sched", "detach", "detach_one"} \subseteq
            BlockLabel \ (WaitLabel \cup {"startup"})
    /\ SuspendLabel \subseteq WaitLabel /\ WaitLabel \subseteq BlockLabel
  BY DEF SuspendLabel, WaitLabel, BlockLabel

\* A step that neither touches the semaphore nor the threads inside rt_sem_take.
LEMMA SemFrame ==
    ASSUME SemInv, BlockInv', UNCHANGED semVars, pc' \in [Thread -> SemPc],
           \A t \in Thread : pc'[t] \in {"take", "take_chk"} <=> pc[t] \in {"take", "take_chk"},
           \A t \in Thread : pc[t] \in {"take", "take_chk"}
                => stat'[t] = stat[t] /\ error'[t] = error[t]
    PROVE  SemInv'
<1> USE DEF SemInv, semVars
<1>1. \A t \in Thread : InTake(t)' <=> InTake(t)
  BY DEF InTake
<1>2. \A t \in Thread : InTake(t) => stat'[t] = stat[t] /\ error'[t] = error[t]
  BY DEF InTake
<1>3. SemTypeOK'
  BY DEF SemTypeOK, BlockInv
<1>4. SemWaitersOK' /\ SemErrorOK'
  BY <1>1, <1>2 DEF SemWaitersOK, SemErrorOK
<1>5. Grants' = Grants
  BY <1>1, <1>2 DEF Grants, Granted
<1>6. TokensConserved' /\ NoIdleToken'
  BY <1>5 DEF TokensConserved, NoIdleToken, Grants
<1> QED BY <1>3, <1>4, <1>6

\* The initial state.
LEMMA SemInitInv == SemInit => SemInv
<1> SUFFICES ASSUME SemInit PROVE SemInv
  OBVIOUS
<1> USE SemAssumption
<1>1. BlockInv
  BY BlockInit DEF SemInit
<1>2. pc = [t \in Thread |-> "run"]
  BY DEF SemInit, Init
<1>3. SemTypeOK
  BY <1>1, <1>2 DEF SemTypeOK, BlockInv, SemInit, SemPc
<1>4. \A t \in Thread : ~InTake(t)
  BY <1>2 DEF InTake
<1>5. SemWaitersOK /\ SemErrorOK /\ NoIdleToken
  BY <1>4 DEF SemWaitersOK, SemErrorOK, NoIdleToken, SemInit, Distinct, Contains
<1>6. {t \in Thread : Granted(t)} = {}
  BY <1>4 DEF Granted
<1>7. TokensConserved
  BY <1>6, FS_EmptySet DEF TokensConserved, SemInit
<1> QED BY <1>1, <1>3, <1>5, <1>7 DEF SemInv

\* rt_sem_take that does not wait.
LEMMA TakeNowInv ==
    ASSUME SemInv, NEW t \in Thread, TakeNow(t)
    PROVE  SemInv'
<1> USE SemAssumption DEF SemInv, TakeNow, Available
<1>1. BlockInv'
  BY BlockStutter
<1>2. UNCHANGED <<pc, stat, error>>
  BY DEF schedVars
<1>3. Grants' = Grants /\ Cardinality(Grants) \in Nat
  BY <1>2, GrantsFinite DEF Grants, Granted, InTake
<1>4. balance \in Nat /\ value \in Nat /\ value <= MaxBalance /\ balance = value + Cardinality(Grants)
  BY DEF TokensConserved, Grants, SemTypeOK
<1>5. balance' \in Nat /\ value' \in 0..MaxBalance /\ balance' = value' + Cardinality(Grants)
  BY <1>3, <1>4
<1>6. SemTypeOK'
  BY <1>1, <1>2, <1>5 DEF SemTypeOK, BlockInv
<1>7. TokensConserved'
  BY <1>3, <1>5 DEF TokensConserved, Grants
<1>8. NoIdleToken'
  BY <1>4 DEF NoIdleToken
<1>9. SemWaitersOK' /\ SemErrorOK'
  BY <1>2 DEF SemWaitersOK, SemErrorOK, InTake
<1> QED BY <1>1, <1>6, <1>7, <1>8, <1>9

\* rt_sem_take that waits: the caller is the only new waiter.
LEMMA TakeWaitInv ==
    ASSUME SemInv, NEW t \in Thread, NEW time, InApp(t), TakeWait(t, time)
    PROVE  SemInv'
<1> USE DEF SemInv
<1>1. /\ t = current /\ t # Idle /\ pc[t] \notin WaitLabel /\ pc[t] # "startup"
      /\ t \in ReadyThreads /\ stat[t] = "ready" /\ ~InTake(t) /\ lockNest = 0
  BY BlockApp, SemLabels DEF TakeWait, MayBlock, InTake
<1>2. /\ rq \in ReadyQueue /\ prio \in [Thread -> Prio] /\ RqOK(rq, ReadyThreads, prio)
      /\ ReadyThreads \in SUBSET Thread /\ prio \in [Thread -> Nat]
      /\ error \in [Thread -> Error] /\ stat \in [Thread -> Stat] /\ pc \in [Thread -> SemPc]
  BY DEF BlockInv, CoreTypeOK, ReadyThreads, Prio, SemTypeOK
<1>3. rq' \in ReadyQueue /\ RqOK(rq', ReadyThreads \ {t}, prio')
  BY <1>2, RqRemove DEF TakeWait
<1>4. prio' \in [Thread -> Prio] /\ error' \in [Thread -> Error]
  BY <1>2 DEF TakeWait, Error
<1>5. BlockInv'
  BY <1>1, <1>3, <1>4, SemLabels, BlockSuspend DEF TakeWait
<1>6. ~Contains(waitq, t) /\ waitq \in Seq(Thread) /\ Distinct(waitq)
  BY <1>1 DEF SemWaitersOK, SemTypeOK
<1>7. /\ waitq' \in Seq(Thread) /\ Distinct(waitq')
      /\ \A e : Contains(waitq', e) <=> Contains(waitq, e) \/ e = t
  BY <1>2, <1>6, ListInsertProperties DEF TakeWait
<1>8. /\ pc' = [pc EXCEPT ![t] = "take"] /\ stat' = [stat EXCEPT ![t] = "suspend"]
      /\ error' = [error EXCEPT ![t] = "EOK"] /\ UNCHANGED <<value, alive, balance>>
      /\ ~(value > 0)
  BY DEF TakeWait, Goto, Available
<1>9. SemTypeOK'
  BY <1>2, <1>5, <1>7, <1>8 DEF SemTypeOK, BlockInv, SemPc
<1>10. SemWaitersOK' /\ SemErrorOK'
  BY <1>1, <1>2, <1>7, <1>8 DEF SemWaitersOK, SemErrorOK, InTake
<1>11. Grants' = Grants
  BY <1>1, <1>2, <1>8 DEF Grants, Granted, InTake
<1>12. TokensConserved' /\ NoIdleToken'
  BY <1>8, <1>11 DEF TokensConserved, NoIdleToken, Grants
<1> QED BY <1>5, <1>9, <1>10, <1>12

\* The rt_schedule of a waiting take.
LEMMA TakeScheduleInv ==
    ASSUME SemInv, NEW t \in Thread, TakeSchedule(t)
    PROVE  SemInv'
<1> USE DEF SemInv
<1>1. BlockInv'
  BY SemLabels, BlockSwitch DEF TakeSchedule, At
<1>2. /\ pc' = [pc EXCEPT ![t] = "take_chk"] /\ pc \in [Thread -> SemPc] /\ pc[t] = "take"
      /\ UNCHANGED <<stat, error, semVars>>
  BY DEF TakeSchedule, Goto, At, SemTypeOK
<1> QED BY <1>1, <1>2, SemFrame DEF SemPc

\* The return of a waiting take: a granted token is counted once.
LEMMA TakeReturnInv ==
    ASSUME SemInv, NEW t \in Thread, TakeReturn(t)
    PROVE  SemInv'
<1> USE DEF SemInv
<1>1. /\ pc[t] = "take_chk" /\ t = current /\ pc \in [Thread -> SemPc]
      /\ pc' = [pc EXCEPT ![t] = "run"] /\ UNCHANGED <<stat, error, value, waitq, alive>>
  BY DEF TakeReturn, Goto, At, SemTypeOK
<1>2. stat[t] = "ready" /\ t # Idle
  BY <1>1, SemLabels, BlockRunning
<1>3. BlockInv'
  <2>1. /\ rq' \in ReadyQueue /\ RqOK(rq', ReadyThreads, prio')
        /\ prio' \in [Thread -> Prio] /\ error' \in [Thread -> Error]
    BY DEF TakeReturn, BlockInv, CoreTypeOK
  <2>2. "run" \in BlockLabel \ (SuspendLabel \cup {"startup"})
    BY SemLabels
  <2>3. pc[t] \notin SuspendLabel \cup {"startup"}
    BY <1>1, SemLabels
  <2> QED BY <1>1, <1>2, <2>1, <2>2, <2>3, BlockLocal DEF TakeReturn
<1>4. Grants' = Grants \ {t} /\ (t \in Grants <=> error[t] = "EOK")
  BY <1>1, <1>2 DEF Grants, Granted, InTake
<1>5. /\ IsFiniteSet(Grants) /\ Cardinality(Grants) \in Nat /\ Cardinality(Grants') \in Nat
      /\ Cardinality(Grants') = IF error[t] = "EOK" THEN Cardinality(Grants) - 1
                                ELSE Cardinality(Grants)
  <2>1. IsFiniteSet(Grants) /\ Cardinality(Grants) \in Nat
    BY GrantsFinite
  <2>2. IsFiniteSet(Grants') /\ Cardinality(Grants') \in Nat
    BY <1>4, <2>1, FS_RemoveElement, FS_CardinalityType
  <2> QED BY <1>4, <2>1, <2>2, FS_RemoveElement
<1>6. /\ balance = value + Cardinality(Grants) /\ value \in Nat
      /\ balance' = IF error[t] = "EOK" THEN balance - 1 ELSE balance
  BY DEF TokensConserved, Grants, SemTypeOK, TakeReturn
<1>7. balance' = value + Cardinality(Grants') /\ balance' \in Nat
  BY <1>5, <1>6
<1>8. SemTypeOK'
  BY <1>1, <1>3, <1>7 DEF SemTypeOK, BlockInv, SemPc
<1>9. SemWaitersOK' /\ SemErrorOK'
  BY <1>1, <1>2 DEF SemWaitersOK, SemErrorOK, InTake
<1>10. TokensConserved' /\ NoIdleToken'
  BY <1>1, <1>7 DEF TokensConserved, NoIdleToken, Grants
<1> QED BY <1>3, <1>8, <1>9, <1>10

\* rt_ipc_list_resume of the first waiter.
LEMMA ResumeFirstFacts ==
    ASSUME SemInv, waitq # <<>>, ResumeFirst, UNCHANGED prio
    PROVE  LET w == Head(waitq) IN
           /\ w \in Thread /\ stat[w] = "suspend" /\ InTake(w) /\ pc[w] \in WaitLabel
           /\ error[w] = "EOK" /\ value = 0
           /\ rq' \in ReadyQueue /\ RqOK(rq', ReadyThreads \cup {w}, prio')
           /\ prio' \in [Thread -> Prio]
           /\ stat' = [stat EXCEPT ![w] = "ready"] /\ timer' = [timer EXCEPT ![w] = FALSE]
           /\ waitq' \in Seq(Thread) /\ Distinct(waitq')
           /\ \A e : Contains(waitq', e) <=> Contains(waitq, e) /\ e # w
<1> USE DEF SemInv
<1> DEFINE w == Head(waitq)
<1>1. /\ w \in Thread /\ Contains(waitq, w) /\ Tail(waitq) \in Seq(Thread) /\ Distinct(Tail(waitq))
      /\ \A e : Contains(Tail(waitq), e) <=> Contains(waitq, e) /\ e # w
  BY ListTail DEF SemTypeOK, SemWaitersOK
<1>2. stat[w] = "suspend" /\ InTake(w) /\ error[w] = "EOK"
  BY <1>1 DEF SemWaitersOK, SemErrorOK
<1>3. pc[w] \in WaitLabel
  BY <1>2, SemLabels DEF InTake
<1>4. value = 0
  BY SemAssumption DEF NoIdleToken, SemTypeOK
<1>5. /\ rq \in ReadyQueue /\ prio \in [Thread -> Prio] /\ RqOK(rq, ReadyThreads, prio)
      /\ ReadyThreads \in SUBSET Thread /\ w \notin ReadyThreads
  BY <1>2 DEF BlockInv, CoreTypeOK, ReadyThreads
<1>6. /\ rq' = rt_schedule_insert_thread(rq, w, prio[w]) /\ waitq' = Tail(waitq)
      /\ stat' = [stat EXCEPT ![w] = "ready"] /\ timer' = [timer EXCEPT ![w] = FALSE]
  BY DEF ResumeFirst, rt_timer_stop
<1> HIDE DEF w, SemInv
<1>7. rq' \in ReadyQueue /\ RqOK(rq', ReadyThreads \cup {w}, prio')
  BY <1>1, <1>5, <1>6, RqInsert
<1> QED BY <1>1, <1>2, <1>3, <1>4, <1>5, <1>6, <1>7 DEF w

\* What a wakeup leaves: w is the one waiter that has left the list, granted a
\* token unless the wakeup is an error.
LEMMA SemWoken ==
    ASSUME SemInv, BlockInv', NEW w \in Thread, stat[w] = "suspend", InTake(w),
           stat' = [stat EXCEPT ![w] = "ready"],
           waitq' \in Seq(Thread), Distinct(waitq'),
           \A e : Contains(waitq', e) <=> Contains(waitq, e) /\ e # w,
           pc' \in [Thread -> SemPc],
           \A t \in Thread : pc'[t] \in {"take", "take_chk"} <=> pc[t] \in {"take", "take_chk"},
           \A t \in Thread \ {w} : pc[t] \in {"take", "take_chk"} => error'[t] = error[t],
           UNCHANGED <<value, alive>>, value = 0 \/ waitq' = <<>>
    PROVE  /\ error'[w] = "EOK" /\ balance' = balance + 1 => SemInv'
           /\ error'[w] # "EOK" /\ balance' = balance => SemInv'
<1> USE DEF SemInv
<1>1. \A t \in Thread : InTake(t)' <=> InTake(t)
  BY DEF InTake
<1>2. \A t \in Thread \ {w} : InTake(t) => error'[t] = error[t]
  BY DEF InTake
<1>3. SemWaitersOK' /\ SemErrorOK'
  BY <1>1, <1>2 DEF SemWaitersOK, SemErrorOK, BlockInv, CoreTypeOK
<1>4. NoIdleToken'
  BY DEF NoIdleToken
<1>5. w \notin Grants /\ Grants' = IF error'[w] = "EOK" THEN Grants \cup {w} ELSE Grants
  BY <1>1, <1>2 DEF Grants, Granted, BlockInv, CoreTypeOK
<1>6. IsFiniteSet(Grants) /\ Cardinality(Grants) \in Nat
  BY GrantsFinite
<1>7. balance = value + Cardinality(Grants) /\ value \in Nat /\ balance \in Nat
  BY SemAssumption DEF TokensConserved, Grants, SemTypeOK
<1>8. ASSUME error'[w] = "EOK", balance' = balance + 1 PROVE SemInv'
  <2>1. Cardinality(Grants') = Cardinality(Grants) + 1
    BY <1>5, <1>6, <1>8, FS_AddElement
  <2>2. TokensConserved'
    BY <2>1, <1>6, <1>7, <1>8 DEF TokensConserved, Grants
  <2>3. SemTypeOK'
    BY <1>7, <1>8 DEF SemTypeOK, BlockInv
  <2> QED BY <2>2, <2>3, <1>3, <1>4
<1>9. ASSUME error'[w] # "EOK", balance' = balance PROVE SemInv'
  <2>1. TokensConserved'
    BY <1>5, <1>7, <1>9 DEF TokensConserved, Grants
  <2>2. SemTypeOK'
    BY <1>7, <1>9 DEF SemTypeOK, BlockInv
  <2> QED BY <2>1, <2>2, <1>3, <1>4
<1> QED BY <1>8, <1>9

\* rt_sem_release with nobody waiting: the counter does not wrap.
LEMMA ReleaseCountInv ==
    ASSUME SemInv, MayRelease, ReleaseCount, balance' = balance + 1,
           UNCHANGED <<prio, defunct, lockNest, tgt, current, pc, alive>>
    PROVE  SemInv'
<1> USE SemAssumption DEF SemInv
<1>1. UNCHANGED schedVars /\ UNCHANGED waitq /\ waitq = <<>>
  BY DEF ReleaseCount, MustWake, schedVars
<1>2. BlockInv'
  BY <1>1, BlockStutter
<1>3. Grants' = Grants /\ Cardinality(Grants) \in Nat
  BY <1>1, GrantsFinite DEF Grants, Granted, InTake, schedVars
<1>4. /\ balance \in Nat /\ value \in Nat /\ balance = value + Cardinality(Grants)
      /\ balance < MaxBalance /\ MaxBalance < ValueMod /\ ValueMod \in Nat /\ MaxBalance \in Nat
  BY DEF TokensConserved, Grants, SemTypeOK, MayRelease
<1>5. value + 1 <= MaxBalance /\ (value + 1) % ValueMod = value + 1
  BY <1>3, <1>4
<1>6. value' = value + 1 /\ value' \in 0..MaxBalance
  BY <1>4, <1>5 DEF ReleaseCount
<1>7. TokensConserved'
  <2>1. balance' = value' + Cardinality(Grants')
    BY <1>3, <1>4, <1>6
  <2> QED BY <2>1 DEF TokensConserved, Grants
<1>8. SemTypeOK'
  BY <1>1, <1>2, <1>4, <1>6 DEF SemTypeOK, BlockInv, schedVars
<1>9. SemWaitersOK' /\ SemErrorOK' /\ NoIdleToken'
  BY <1>1 DEF SemWaitersOK, SemErrorOK, InTake, NoIdleToken, schedVars
<1> QED BY <1>2, <1>7, <1>8, <1>9

\* rt_sem_release by a thread: a waiter is resumed, or the token is counted.
LEMMA ReleaseInv ==
    ASSUME SemInv, NEW t \in Thread, rt_sem_release(t)
    PROVE  SemInv'
<1> DEFINE w == Head(waitq)
<1>1. CASE ReleaseWake /\ Goto(t, "sched")
  <2>1. /\ InApp(t) /\ ResumeFirst /\ waitq # <<>> /\ value' = value /\ balance' = balance + 1
        /\ UNCHANGED <<error, prio, defunct, current, lockNest, tgt, alive>>
    BY <1>1 DEF rt_sem_release, ReleaseWake, MustWake, HandOverValue
  <2>2. /\ w \in Thread /\ stat[w] = "suspend" /\ InTake(w) /\ pc[w] \in WaitLabel
        /\ error[w] = "EOK" /\ value = 0
        /\ rq' \in ReadyQueue /\ RqOK(rq', ReadyThreads \cup {w}, prio')
        /\ prio' \in [Thread -> Prio]
        /\ stat' = [stat EXCEPT ![w] = "ready"] /\ timer' = [timer EXCEPT ![w] = FALSE]
        /\ waitq' \in Seq(Thread) /\ Distinct(waitq')
        /\ \A e : Contains(waitq', e) <=> Contains(waitq, e) /\ e # w
    BY <2>1, ResumeFirstFacts
  <2> HIDE DEF w
  <2>3. /\ t = current /\ t # Idle /\ pc[t] \notin WaitLabel \cup {"startup"}
    BY <2>1, BlockApp DEF SemInv
  <2>4. BlockInv /\ error' \in [Thread -> Error] /\ pc \in [Thread -> SemPc]
        /\ "sched" \in BlockLabel \ (WaitLabel \cup {"startup"})
    BY <2>1, SemLabels DEF SemInv, BlockInv, CoreTypeOK, SemTypeOK
  <2>9. pc[t] \notin SuspendLabel \cup {"startup"}
    BY <2>3, SemLabels
  <2>5. BlockInv'
    BY <1>1, <2>1, <2>2, <2>3, <2>4, <2>9, BlockWake
  <2>6. pc' = [pc EXCEPT ![t] = "sched"] /\ pc[t] \notin {"take", "take_chk"}
    BY <1>1, <2>3, SemLabels DEF Goto
  <2>7. /\ pc' \in [Thread -> SemPc]
        /\ \A u \in Thread : pc'[u] \in {"take", "take_chk"} <=> pc[u] \in {"take", "take_chk"}
    BY <2>4, <2>6 DEF SemPc
  <2>8. error'[w] = "EOK" /\ \A u \in Thread : error'[u] = error[u]
    BY <2>1, <2>2
  <2> QED BY <2>1, <2>2, <2>5, <2>7, <2>8, SemWoken
<1>2. CASE ReleaseCount /\ UNCHANGED pc
  BY <1>2, ReleaseCountInv DEF rt_sem_release
<1> QED BY <1>1, <1>2 DEF rt_sem_release

\* and by an interrupt handler.
LEMMA IsrReleaseInv ==
    ASSUME SemInv, IsrRelease
    PROVE  SemInv'
<1> DEFINE w == Head(waitq)
<1>1. CASE ReleaseWake /\ current' = rt_schedule(rq')
  <2>1. /\ ResumeFirst /\ waitq # <<>> /\ value' = value /\ balance' = balance + 1
        /\ UNCHANGED <<error, prio, defunct, pc, lockNest, tgt, alive>>
    BY <1>1 DEF IsrRelease, ReleaseWake, MustWake, HandOverValue
  <2>2. /\ w \in Thread /\ stat[w] = "suspend" /\ InTake(w) /\ pc[w] \in WaitLabel
        /\ error[w] = "EOK" /\ value = 0
        /\ rq' \in ReadyQueue /\ RqOK(rq', ReadyThreads \cup {w}, prio')
        /\ prio' \in [Thread -> Prio]
        /\ stat' = [stat EXCEPT ![w] = "ready"] /\ timer' = [timer EXCEPT ![w] = FALSE]
        /\ waitq' \in Seq(Thread) /\ Distinct(waitq')
        /\ \A e : Contains(waitq', e) <=> Contains(waitq, e) /\ e # w
    BY <2>1, ResumeFirstFacts
  <2> HIDE DEF w
  <2>3. BlockInv /\ error' \in [Thread -> Error] /\ pc' \in [Thread -> SemPc]
    BY <2>1 DEF SemInv, BlockInv, CoreTypeOK, SemTypeOK
  <2>4. BlockInv'
    BY <1>1, <2>1, <2>2, <2>3, BlockWake
  <2> QED BY <2>1, <2>2, <2>3, <2>4, SemWoken
<1>2. CASE ReleaseCount /\ UNCHANGED current
  BY <1>2, ReleaseCountInv DEF IsrRelease
<1> QED BY <1>1, <1>2 DEF IsrRelease

\* One round of rt_ipc_list_resume_all in rt_sem_detach.
LEMMA DetachOneInv ==
    ASSUME SemInv, NEW t \in Thread, DetachOne(t)
    PROVE  SemInv'
<1> DEFINE w == Head(waitq)
<1>1. /\ t = current /\ pc[t] = "detach_one" /\ ResumeFirst /\ waitq # <<>>
      /\ error' = [error EXCEPT ![w] = "ERROR"] /\ Goto(t, "detach")
      /\ UNCHANGED <<prio, defunct, current, lockNest, tgt, value, alive, balance>>
  BY DEF DetachOne, At
<1>2. /\ w \in Thread /\ stat[w] = "suspend" /\ InTake(w) /\ pc[w] \in WaitLabel
      /\ error[w] = "EOK" /\ value = 0
      /\ rq' \in ReadyQueue /\ RqOK(rq', ReadyThreads \cup {w}, prio')
      /\ prio' \in [Thread -> Prio]
      /\ stat' = [stat EXCEPT ![w] = "ready"] /\ timer' = [timer EXCEPT ![w] = FALSE]
      /\ waitq' \in Seq(Thread) /\ Distinct(waitq')
      /\ \A e : Contains(waitq', e) <=> Contains(waitq, e) /\ e # w
  BY <1>1, ResumeFirstFacts
<1> HIDE DEF w
<1>3. /\ BlockInv /\ error \in [Thread -> Error] /\ error' \in [Thread -> Error]
      /\ pc \in [Thread -> SemPc] /\ "ERROR" # "EOK"
  BY <1>1 DEF SemInv, BlockInv, CoreTypeOK, SemTypeOK, Error
<1>4. /\ pc[t] \notin WaitLabel \cup {"startup"} /\ t # Idle
      /\ "detach" \in BlockLabel \ (WaitLabel \cup {"startup"})
  <2>1. "detach_one" \notin WaitLabel \cup {"startup"} /\ "detach_one" \notin SuspendLabel
    BY SemLabels
  <2> QED BY <1>1, <1>3, <2>1, SemLabels, BlockRunning
<1>8. pc[t] \notin SuspendLabel \cup {"startup"}
  BY <1>4, SemLabels
<1>5. BlockInv'
  BY <1>1, <1>2, <1>3, <1>4, <1>8, BlockWake
<1>6. /\ pc' \in [Thread -> SemPc]
      /\ \A u \in Thread : pc'[u] \in {"take", "take_chk"} <=> pc[u] \in {"take", "take_chk"}
  BY <1>1, <1>3 DEF SemPc, Goto
<1>7. error'[w] = "ERROR" /\ \A u \in Thread \ {w} : error'[u] = error[u]
  BY <1>1, <1>2, <1>3
<1> QED BY <1>1, <1>2, <1>3, <1>5, <1>6, <1>7, SemWoken

\* The timer of a thread expires: a take leaves the list empty-handed, and a
\* sleeping thread is no waiter.
LEMMA SemTimeoutInv ==
    ASSUME SemInv, NEW t \in Thread, SemTimeout(t)
    PROVE  SemInv'
<1>1. /\ rt_thread_timeout(t) /\ waitq' = rt_list_remove(waitq, t)
      /\ UNCHANGED <<value, alive, balance>> /\ BlockInv
  BY DEF SemTimeout, SemInv
<1>2. /\ BlockInv' /\ stat[t] = "suspend" /\ UNCHANGED pc
      /\ stat' = [stat EXCEPT ![t] = "ready"] /\ error' = [error EXCEPT ![t] = "ETIMEOUT"]
  BY <1>1, BlockTimeout
<1>3. /\ waitq \in Seq(Thread) /\ Distinct(waitq) /\ pc \in [Thread -> SemPc]
      /\ stat \in [Thread -> Stat] /\ error \in [Thread -> Error]
  BY DEF SemInv, SemTypeOK, SemWaitersOK, CoreTypeOK
<1>4. /\ waitq' \in Seq(Thread) /\ Distinct(waitq')
      /\ \A e : Contains(waitq', e) <=> Contains(waitq, e) /\ e # t
  BY <1>1, <1>3, ListRemove
<1>5. error'[t] # "EOK" /\ \A u \in Thread \ {t} : error'[u] = error[u]
  BY <1>2, <1>3
<1>6. CASE InTake(t)
  <2>1. Contains(waitq, t)
    BY <1>2, <1>6 DEF SemInv, SemWaitersOK
  <2>2. waitq # <<>>
    BY <2>1 DEF Contains
  <2>3. value = 0
    BY <2>2, SemAssumption DEF SemInv, NoIdleToken, SemTypeOK
  <2> QED BY <1>1, <1>2, <1>3, <1>4, <1>5, <1>6, <2>3, SemWoken
<1>7. CASE ~InTake(t)
  <2>1. waitq' = waitq
    BY <1>1, <1>7, ListRemoveAbsent DEF SemInv, SemWaitersOK
  <2>2. \A u \in Thread : pc[u] \in {"take", "take_chk"} => stat'[u] = stat[u] /\ error'[u] = error[u]
    BY <1>2, <1>3, <1>5, <1>7 DEF InTake
  <2> QED BY <1>1, <1>2, <1>3, <2>1, <2>2, SemFrame DEF semVars
<1> QED BY <1>6, <1>7

\* rt_sem_control(RT_IPC_CMD_RESET): nobody waits afterwards, and what was
\* granted before stays granted.
LEMMA SemControlInv ==
    ASSUME SemInv, NEW t \in Thread, NEW v \in 0..InitValue, rt_sem_control(t, v)
    PROVE  SemInv'
<1> DEFINE W == {u \in Thread : Contains(waitq, u)}
<1>1. /\ InApp(t) /\ Goto(t, "sched") /\ rq' = InsertAll(rq, waitq, prio)
      /\ stat' = [u \in Thread |-> IF Contains(waitq, u) THEN "ready" ELSE stat[u]]
      /\ error' = [u \in Thread |-> IF Contains(waitq, u) THEN "ERROR" ELSE error[u]]
      /\ timer' = [u \in Thread |-> timer[u] /\ ~Contains(waitq, u)]
      /\ waitq' = <<>> /\ value' = v % ValueMod /\ balance' = v + Cardinality(Grants)
      /\ UNCHANGED <<prio, defunct, current, lockNest, tgt, alive>>
  BY DEF rt_sem_control, ResumeAll, Grants
<1>2. /\ BlockInv /\ pc \in [Thread -> SemPc] /\ waitq \in Seq(Thread) /\ Distinct(waitq)
      /\ \A u \in Thread : Contains(waitq, u) <=> InTake(u) /\ stat[u] = "suspend"
      /\ alive \in BOOLEAN
  BY DEF SemInv, SemTypeOK, SemWaitersOK
<1>3. /\ W \in SUBSET Thread
      /\ \A w \in W : stat[w] = "suspend" /\ pc[w] \in WaitLabel
  BY <1>2, SemLabels DEF InTake
<1>4. /\ rq \in ReadyQueue /\ prio \in [Thread -> Prio] /\ RqOK(rq, ReadyThreads, prio)
      /\ ReadyThreads \in SUBSET Thread /\ \A u \in ReadyThreads : ~Contains(waitq, u)
      /\ error \in [Thread -> Error]
  BY <1>2 DEF BlockInv, CoreTypeOK, ReadyThreads
<1>5. rq' \in ReadyQueue /\ RqOK(rq', ReadyThreads \cup W, prio)
  BY <1>1, <1>2, <1>4, RqInsertAll
<1>6. /\ stat' = [u \in Thread |-> IF u \in W THEN "ready" ELSE stat[u]]
      /\ timer' = [u \in Thread |-> timer[u] /\ u \notin W]
      /\ error' = [u \in Thread |-> IF u \in W THEN "ERROR" ELSE error[u]]
      /\ error' \in [Thread -> Error]
  BY <1>1, <1>4 DEF Error
<1>7. \A u \in Thread : u \in W <=> InTake(u) /\ stat[u] = "suspend"
  BY <1>2
<1> HIDE DEF W
<1>8. BlockInv'
  BY <1>1, <1>2, <1>3, <1>5, <1>6, BlockWakeAll
<1>9. pc' = [pc EXCEPT ![t] = "sched"] /\ ~InTake(t)
  BY <1>1 DEF Goto, InApp, InTake
<1>10. pc' \in [Thread -> SemPc] /\ \A u \in Thread : InTake(u)' <=> InTake(u)
  BY <1>2, <1>9 DEF SemPc, InTake
<1>11. value' = v /\ value' \in 0..MaxBalance
  <2>1. v \in Nat /\ ValueMod \in Nat /\ v <= MaxBalance /\ v < ValueMod
    BY SemAssumption
  <2> QED BY <1>1, <2>1
<1>12. Grants' = Grants
  BY <1>6, <1>7, <1>10 DEF Grants, Granted
<1>13. Cardinality(Grants) \in Nat
  BY GrantsFinite
<1>14. balance' = value' + Cardinality(Grants') /\ balance' \in Nat
  BY <1>1, <1>11, <1>12, <1>13
<1>15. SemTypeOK'
  BY <1>1, <1>2, <1>8, <1>10, <1>11, <1>14 DEF SemTypeOK, BlockInv
<1>16. SemWaitersOK' /\ SemErrorOK' /\ NoIdleToken'
  BY <1>1, <1>6, <1>7, <1>10 DEF SemWaitersOK, SemErrorOK, NoIdleToken, Distinct, Contains
<1>17. TokensConserved'
  BY <1>14 DEF TokensConserved, Grants
<1> QED BY <1>8, <1>15, <1>16, <1>17 DEF SemInv

\* The beginning of rt_sem_detach, and the test of its loop.
LEMMA SemDetachInv ==
    ASSUME SemInv, NEW t \in Thread, rt_sem_detach(t) \/ DetachTest(t)
    PROVE  SemInv'
<1>1. /\ t = current /\ BlockInv /\ pc \in [Thread -> SemPc]
      /\ pc[t] \in {"run", "unsched", "detach"} /\ (pc[t] = "run" => t # Idle)
      /\ UNCHANGED <<rq, stat, prio, timer, error, defunct, current, lockNest, tgt>>
      /\ UNCHANGED <<value, waitq, balance>> /\ alive' \in BOOLEAN
  BY DEF SemInv, SemTypeOK, rt_sem_detach, DetachTest, InApp, At, semVars
<1>2. PICK l \in {"detach", "detach_one", "unsched"} : pc' = [pc EXCEPT ![t] = l]
  BY DEF rt_sem_detach, DetachTest, Goto
<1>3. /\ pc[t] \notin SuspendLabel \cup {"startup"}
      /\ l \in BlockLabel \ (SuspendLabel \cup {"startup"})
  BY <1>1, <1>2, SemLabels
<1>4. /\ rq' \in ReadyQueue /\ RqOK(rq', ReadyThreads, prio')
      /\ prio' \in [Thread -> Prio] /\ error' \in [Thread -> Error]
  BY <1>1 DEF BlockInv, CoreTypeOK
<1>5. t # Idle
  BY <1>1, <1>3, BlockRunning
<1>6. BlockInv'
  BY <1>1, <1>2, <1>3, <1>4, <1>5, BlockLocal DEF Goto
<1>7. pc' \in [Thread -> SemPc] /\ \A u \in Thread : InTake(u)' <=> InTake(u)
  BY <1>1, <1>2 DEF SemPc, InTake
<1>8. SemTypeOK'
  BY <1>1, <1>6, <1>7 DEF SemInv, SemTypeOK, BlockInv
<1>9. SemWaitersOK' /\ SemErrorOK' /\ NoIdleToken'
  BY <1>1, <1>7 DEF SemInv, SemWaitersOK, SemErrorOK, NoIdleToken
<1>10. Grants' = Grants
  BY <1>1, <1>7 DEF Grants, Granted
<1>11. TokensConserved'
  BY <1>1, <1>10 DEF SemInv, TokensConserved, Grants
<1> QED BY <1>6, <1>8, <1>9, <1>11 DEF SemInv

\* The steps of the scheduler.
LEMMA SemSchedInv ==
    ASSUME Disciplined, SemInv, UNCHANGED semVars,
           (\E t \in Thread : SchedCall(t) \/ SchedStep(t)) \/ rt_tick_increase
    PROVE  SemInv'
<1> USE DEF SemInv
<1>0. /\ BlockInv /\ pc \in [Thread -> SemPc] /\ stat \in [Thread -> Stat]
      /\ error \in [Thread -> Error]
  BY DEF SemTypeOK, CoreTypeOK
<1>1. CASE rt_tick_increase
  BY <1>0, <1>1, BlockTick, SemFrame
<1>2. ASSUME NEW t \in Thread, SchedCall(t) \/ SchedStep(t) PROVE SemInv'
  <2>1. ASSUME NEW u \in Thread, rt_thread_startup(t, u) PROVE SemInv'
    <3>1. BlockInv' /\ u # t /\ pc[u] = "run" /\ pc[t] \in {"run", "unsched"}
      BY <2>1, <1>0, BlockStartup DEF rt_thread_startup, InApp
    <3>2. /\ pc' = [pc EXCEPT ![t] = "startup"] /\ stat' = [stat EXCEPT ![u] = "suspend"]
          /\ UNCHANGED error
      BY <2>1 DEF rt_thread_startup, Goto
    <3> QED BY <1>0, <3>1, <3>2, SemFrame DEF SemPc
  <2>2. CASE rt_thread_sleep(t)
    <3>1. BlockInv' /\ pc[t] \in {"run", "unsched"}
      BY <2>2, <1>0, BlockSleep DEF rt_thread_sleep, InApp
    <3>2. /\ pc' = [pc EXCEPT ![t] = "sleep"] /\ stat' = [stat EXCEPT ![t] = "suspend"]
          /\ UNCHANGED error
      BY <2>2 DEF rt_thread_sleep, Goto
    <3> QED BY <1>0, <3>1, <3>2, SemFrame DEF SemPc
  <2>3. CASE rt_enter_critical(t) \/ rt_exit_critical(t)
    <3>1. BlockInv' /\ pc[t] \in {"run", "unsched"}
      BY <2>3, <1>0, BlockCritical DEF rt_enter_critical, rt_exit_critical, InApp
    <3>2. /\ UNCHANGED <<stat, error>>
          /\ pc' = pc \/ pc' = [pc EXCEPT ![t] = "sched"] \/ pc' = [pc EXCEPT ![t] = pc[t]]
      BY <2>3 DEF rt_enter_critical, rt_exit_critical, Goto
    <3> QED BY <1>0, <3>1, <3>2, SemFrame DEF SemPc
  <2>4. CASE ResumeInsert(t)
    <3>1. /\ BlockInv' /\ tgt[t] \in Thread /\ pc[tgt[t]] = "run" /\ pc[t] = "startup"
          /\ pc' = [pc EXCEPT ![t] = "sched"]
      BY <2>4, <1>0, BlockStarted
    <3>2. stat' = [stat EXCEPT ![tgt[t]] = "ready"] /\ UNCHANGED error
      BY <2>4 DEF ResumeInsert
    <3> QED BY <1>0, <3>1, <3>2, SemFrame DEF SemPc
  <2>5. CASE Schedule(t)
    <3>1. BlockInv' /\ pc[t] \in {"sched", "sleep", "exit"} /\ UNCHANGED <<stat, error>>
      BY <2>5, <1>0, BlockSchedule DEF Schedule
    <3>2. \E l \in {"run", "woken"} : pc' = [pc EXCEPT ![t] = l]
      BY <2>5, <1>0 DEF Schedule, Goto, SemPc
    <3> QED BY <1>0, <3>1, <3>2, SemFrame DEF SemPc
  <2>6. CASE SleepReturn(t)
    <3>1. BlockInv' /\ pc[t] = "woken" /\ UNCHANGED stat
      BY <2>6, <1>0, BlockSleepReturn DEF SleepReturn, At
    <3>2. /\ pc' = [pc EXCEPT ![t] = "run"]
          /\ error' = [error EXCEPT ![t] = IF @ = "ETIMEOUT" THEN "EOK" ELSE @]
      BY <2>6 DEF SleepReturn, Goto
    <3> QED BY <1>0, <3>1, <3>2, SemFrame DEF SemPc
  <2> QED BY <1>2, <2>1, <2>2, <2>3, <2>4, <2>5, <2>6 DEF SchedCall, SchedStep
<1> QED BY <1>1, <1>2

\* Every step keeps the invariant.
LEMMA SemNextInv ==
    ASSUME Disciplined, SemInv, [SemNext]_vars
    PROVE  SemInv'
<1>1. ASSUME NEW t \in Thread, NEW time \in Times, rt_sem_take(t, time) PROVE SemInv'
  <2>1. CASE TakeNow(t)
    BY <2>1, TakeNowInv
  <2>2. CASE TakeRefused(t)
    <3>1. UNCHANGED <<schedVars, semVars>>
      BY <2>2 DEF TakeRefused, vars
    <3>2. BlockInv' /\ pc' \in [Thread -> SemPc] /\ UNCHANGED <<pc, stat, error, semVars>>
      BY <3>1, BlockStutter DEF SemInv, SemTypeOK, schedVars
    <3> QED BY <3>2, SemFrame
  <2>3. CASE TakeWait(t, time)
    BY <1>1, <2>3, TakeWaitInv DEF rt_sem_take
  <2> QED BY <1>1, <2>1, <2>2, <2>3 DEF rt_sem_take
<1>2. ASSUME NEW t \in Thread, SemCall(t) PROVE SemInv'
  BY <1>1, <1>2, ReleaseInv, SemControlInv, SemDetachInv DEF SemCall
<1>3. ASSUME NEW t \in Thread, SemStep(t) PROVE SemInv'
  BY <1>3, TakeScheduleInv, TakeReturnInv, SemDetachInv, DetachOneInv DEF SemStep
<1>4. CASE UNCHANGED vars
  <2>1. UNCHANGED <<schedVars, semVars>>
    BY <1>4 DEF vars
  <2>2. BlockInv' /\ pc' \in [Thread -> SemPc] /\ UNCHANGED <<pc, stat, error, semVars>>
    BY <2>1, BlockStutter DEF SemInv, SemTypeOK, schedVars
  <2> QED BY <2>2, SemFrame
<1> QED BY <1>2, <1>3, <1>4, SemTimeoutInv, IsrReleaseInv, SemSchedInv DEF SemNext

\* The inductive invariant holds in every reachable state.
THEOREM SemInvariant == ASSUME Disciplined PROVE SemSpec => []SemInv
<1>1. SemInit => SemInv
  BY SemInitInv
<1>2. SemInv /\ [SemNext]_vars => SemInv'
  BY SemNextInv
<1> QED BY <1>1, <1>2, PTL DEF SemSpec

\* The ready queue, the counter, the waiters and the caller's side keep their types:
\* sem->value never falls below 0 nor passes the number of tokens in the system.
THEOREM SemTypeCorrect == ASSUME Disciplined PROVE SemSpec => []SemTypeOK
<1>1. SemInv => SemTypeOK
  BY DEF SemInv
<1> QED BY <1>1, SemInvariant, PTL

\* parent.suspend_thread holds exactly the takes that wait, each once.
THEOREM SemWaiters == ASSUME Disciplined PROVE SemSpec => []SemWaitersOK
<1>1. SemInv => SemWaitersOK
  BY DEF SemInv
<1> QED BY <1>1, SemInvariant, PTL

\* rt_sem_release never leaves a waiter asleep next to an available token.
THEOREM SemNoIdleToken == ASSUME Disciplined PROVE SemSpec => []NoIdleToken
<1>1. SemInv => NoIdleToken
  BY DEF SemInv
<1> QED BY <1>1, SemInvariant, PTL

\* A token is lost or given twice by no race of rt_sem_release, timeout and reset.
THEOREM SemTokensConserved == ASSUME Disciplined PROVE SemSpec => []TokensConserved
<1>1. SemInv => TokensConserved
  BY DEF SemInv
<1> QED BY <1>1, SemInvariant, PTL
=============================================================================

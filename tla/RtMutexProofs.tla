--------------------------- MODULE RtMutexProofs ---------------------------
(***************************************************************************)
(* Proofs about RtMutex.  MutexInv is inductive whatever the callers do    *)
(* with several mutexes and flags, and so is MutexPreempt on top of it;    *)
(* the priority properties need ~Nested, with strengthenings of their own. *)
(***************************************************************************)
EXTENDS RtMutex, RtSchedProofs

\* The mutex argument of a call is set while the call is inside its sections.
ObjOK == \A t \in Thread :
    obj[t] # NoMutex <=> pc[t] \in {"take", "take_chk", "detach", "detach_one"}

\* value, owner, hold and the list tell the same story.
OwnerOK == \A m \in Mutex :
    /\ value[m] = 1 <=> owner[m] = NoThread
    /\ owner[m] = NoThread => hold[m] = 0 /\ waitq[m] = <<>>
    /\ owner[m] # NoThread => hold[m] > 0 /\ orig[m] \in Prio /\ stat[owner[m]] # "init"
    /\ ~alive[m] => \A t \in Thread : held[t][m] = 0

\* A take that waits holds nothing, and thread->error is its answer: RT_EOK while
\* it waits and when it has been made the owner.
AnswerOK == \A t \in Thread, m \in Mutex : Waiting(t, m) =>
    /\ held[t][m] = 0 /\ MaxHold > 0
    /\ stat[t] = "suspend" => alive[m] /\ error[t] = "EOK" /\ owner[m] # t
    /\ owner[m] = t => alive[m] /\ error[t] = "EOK"
    /\ stat[t] = "ready" /\ error[t] = "EOK" => owner[m] = t
    /\ stat[t] # "init"

\* A mutex is detached by its owner, or free, and by one thread, until the loop is
\* through.
DetachOK == \A t \in Thread : pc[t] \in {"detach", "detach_one"} =>
    /\ alive[obj[t]] /\ owner[obj[t]] \in {t, NoThread}
    /\ \A u \in Thread : pc[u] \in {"detach", "detach_one"} /\ obj[u] = obj[t] => u = t

\* The inductive invariant.
MutexInv == BlockInv /\ MutexTypeOK /\ WaitersOK /\ MutualExclusion
            /\ ObjOK /\ OwnerOK /\ AnswerOK /\ DetachOK
-----------------------------------------------------------------------------
\* The labels of rt_mutex_take and rt_mutex_detach among those of the scheduler.
LEMMA MutexLabels ==
    /\ "take" \in SuspendLabel /\ "take" \in WaitLabel
    /\ "take_chk" \in WaitLabel /\ "take_chk" \notin SuspendLabel
    /\ {"run", "unsched", "sched", "detach", "detach_one"} \subseteq
            BlockLabel \ (WaitLabel \cup {"startup"})
    /\ SuspendLabel \subseteq WaitLabel /\ WaitLabel \subseteq BlockLabel
  BY DEF SuspendLabel, WaitLabel, BlockLabel

\* One count of the callers' view.
LEMMA HeldExcept ==
    ASSUME NEW h \in [Thread -> [Mutex -> 0..MaxHold]], NEW t \in Thread, NEW m \in Mutex, NEW v
    PROVE  /\ \A u \in Thread, k \in Mutex :
                [h EXCEPT ![t][m] = v][u][k] = IF u = t /\ k = m THEN v ELSE h[u][k]
           /\ v \in 0..MaxHold => [h EXCEPT ![t][m] = v] \in [Thread -> [Mutex -> 0..MaxHold]]
  OBVIOUS

\* A thread in application code is in no call on a mutex.
LEMMA MutexApp ==
    ASSUME MutexInv, NEW t \in Thread, InApp(t)
    PROVE  /\ t = current /\ t # Idle /\ stat[t] = "ready" /\ t \in ReadyThreads
           /\ pc[t] \in {"run", "unsched"} /\ pc[t] \notin WaitLabel \cup {"startup"}
           /\ obj[t] = NoMutex
           /\ \A m \in Mutex : ~Waiting(t, m) /\ ~Contains(waitq[m], t)
<1>1. /\ t = current /\ t # Idle /\ stat[t] = "ready" /\ t \in ReadyThreads
      /\ pc[t] \in {"run", "unsched"} /\ pc[t] \notin WaitLabel \cup {"startup"}
  BY BlockApp DEF MutexInv, InApp
<1>2. obj[t] = NoMutex
  BY <1>1 DEF MutexInv, ObjOK
<1>3. \A m \in Mutex : ~Waiting(t, m) /\ ~Contains(waitq[m], t)
  BY <1>1 DEF Waiting, MutexInv, WaitersOK
<1> QED BY <1>1, <1>2, <1>3

\* The owner in application code has taken the mutex as often as the kernel counts.
LEMMA MutexHeld ==
    ASSUME MutexInv, NEW t \in Thread, NEW m \in Mutex, InApp(t), alive[m], owner[m] = t
    PROVE  /\ hold[m] = held[t][m] /\ held[t][m] \in 1..MaxHold
           /\ hold[m] - 1 \in 0..MaxHold /\ (hold[m] - 1) % HoldMod = hold[m] - 1
<1> USE MutexAssumption, ThreadAssumption DEF MutexInv
<1>1. ~Granted(t, m)
  BY MutexApp DEF Granted
<1>2. hold[m] = held[t][m] /\ hold[m] > 0 /\ held[t][m] \in 0..MaxHold
  BY <1>1 DEF MutualExclusion, OwnerOK, MutexTypeOK
<1>3. /\ MaxHold \in Nat /\ HoldMod \in Nat /\ MaxHold + 1 < HoldMod
  OBVIOUS
<1> HIDE DEF MutexInv
<1>4. held[t][m] \in 1..MaxHold /\ hold[m] - 1 \in 0..MaxHold
  BY <1>2, <1>3
<1>5. (hold[m] - 1) % HoldMod = hold[m] - 1
  BY <1>3, <1>4
<1> QED BY <1>2, <1>4, <1>5

\* A step that touches no mutex and no thread inside a call on one.
LEMMA MutexFrame ==
    ASSUME MutexInv, BlockInv', UNCHANGED mutexVars, pc' \in [Thread -> MutexPc],
           \A t \in Thread :
             /\ pc'[t] \in {"take", "take_chk"} <=> pc[t] \in {"take", "take_chk"}
             /\ pc'[t] \in {"detach", "detach_one"} <=> pc[t] \in {"detach", "detach_one"}
             /\ pc[t] \in {"take", "take_chk"} => stat'[t] = stat[t] /\ error'[t] = error[t]
             /\ stat'[t] = "init" => stat[t] = "init"
    PROVE  MutexInv'
<1> USE DEF MutexInv, mutexVars
<1>1. \A t \in Thread, m \in Mutex : (Waiting(t, m)' <=> Waiting(t, m))
                                     /\ (Granted(t, m)' <=> Granted(t, m))
  BY DEF Waiting, Granted
<1>2. \A t \in Thread, m \in Mutex : Waiting(t, m) => stat'[t] = stat[t] /\ error'[t] = error[t]
  BY DEF Waiting
<1>3. MutexTypeOK'
  BY DEF MutexTypeOK, BlockInv
<1>4. WaitersOK' /\ MutualExclusion' /\ AnswerOK'
  BY <1>1, <1>2 DEF WaitersOK, MutualExclusion, AnswerOK
<1>5. ObjOK' /\ DetachOK'
  BY DEF ObjOK, DetachOK
<1>6. OwnerOK'
  <2>1. ASSUME NEW m \in Mutex, owner[m] # NoThread PROVE stat'[owner[m]] # "init"
    <3>1. owner[m] \in Thread
      BY <2>1 DEF MutexTypeOK
    <3> QED BY <2>1, <3>1 DEF OwnerOK
  <2> QED BY <2>1 DEF OwnerOK
<1> QED BY <1>3, <1>4, <1>5, <1>6

\* The initial state.
LEMMA MutexInitInv == MutexInit => MutexInv
<1> SUFFICES ASSUME MutexInit PROVE MutexInv
  OBVIOUS
<1> USE MutexAssumption, ThreadAssumption
<1>1. BlockInv
  BY BlockInit DEF MutexInit
<1>2. pc = [t \in Thread |-> "run"] /\ obj = [t \in Thread |-> NoMutex]
  BY DEF MutexInit, Init
<1>3. \A t \in Thread, m \in Mutex : ~Waiting(t, m) /\ ~Granted(t, m)
  BY <1>2 DEF Waiting, Granted
<1>4. /\ value = [m \in Mutex |-> 1] /\ owner = [m \in Mutex |-> NoThread]
      /\ hold = [m \in Mutex |-> 0] /\ orig = [m \in Mutex |-> NoPrio]
      /\ waitq = [m \in Mutex |-> <<>>] /\ alive = [m \in Mutex |-> TRUE]
      /\ held = [t \in Thread |-> [m \in Mutex |-> 0]]
  BY DEF MutexInit
<1>5. MutexTypeOK
  BY <1>1, <1>2, <1>4 DEF MutexTypeOK, BlockInv, MutexPc
<1>6. WaitersOK /\ MutualExclusion /\ AnswerOK
  BY <1>3, <1>4 DEF WaitersOK, MutualExclusion, AnswerOK, Distinct, Contains
<1>7. ObjOK /\ OwnerOK /\ DetachOK
  BY <1>2, <1>4 DEF ObjOK, OwnerOK, DetachOK
<1> QED BY <1>1, <1>5, <1>6, <1>7 DEF MutexInv

\* A call that sets thread->error and nothing else.
LEMMA MutexErrorInv ==
    ASSUME MutexInv, NEW t \in Thread, NEW m \in Mutex, InApp(t),
           TakeRefused(t, m) \/ ReleaseRefused(t, m)
    PROVE  MutexInv'
<1>1. /\ error \in [Thread -> Error] /\ pc \in [Thread -> MutexPc] /\ BlockInv
      /\ UNCHANGED <<rq, stat, prio, timer, defunct, current, lockNest, pc, tgt, mutexVars>>
  BY DEF MutexInv, MutexTypeOK, CoreTypeOK, TakeRefused, ReleaseRefused
<1>2. PICK e \in Error : error' = [error EXCEPT ![t] = e]
  BY DEF TakeRefused, ReleaseRefused, Error
<1>3. t = current /\ t # Idle /\ pc[t] \in {"run", "unsched"} /\ pc[t] \notin WaitLabel \cup {"startup"}
  BY MutexApp
<1>4. BlockInv'
  <2>1. /\ rq' \in ReadyQueue /\ RqOK(rq', ReadyThreads, prio')
        /\ prio' \in [Thread -> Prio] /\ error' \in [Thread -> Error]
    BY <1>1, <1>2 DEF BlockInv, CoreTypeOK
  <2>2. pc[t] \notin SuspendLabel \cup {"startup"}
    BY <1>3, MutexLabels
  <2> QED BY <1>1, <1>3, <2>1, <2>2, BlockLocal
<1>5. \A u \in Thread : pc[u] \in {"take", "take_chk"} => error'[u] = error[u]
  BY <1>1, <1>2, <1>3
<1> QED BY <1>1, <1>4, <1>5, MutexFrame

\* rt_mutex_take by the owner, of a free mutex, and the release of an inner take:
\* the caller t goes on with n takes of m, and the kernel counts n too.
LEMMA MutexCount ==
    ASSUME MutexInv, NEW t \in Thread, NEW m \in Mutex, InApp(t), alive[m], BlockInv',
           Detaching(m) => owner[m] # NoThread,
           \A u \in Thread \ {t} : held[u][m] = 0 /\ ~Granted(u, m),
           NEW n \in 1..MaxHold,
           hold' = [hold EXCEPT ![m] = n], held' = [held EXCEPT ![t][m] = n],
           owner' = [owner EXCEPT ![m] = t], value' = [value EXCEPT ![m] = 0],
           orig' \in [Mutex -> Prio \cup {NoPrio}], orig'[m] \in Prio,
           \A k \in Mutex \ {m} : orig'[k] = orig[k],
           \A u \in Thread \ {t} : error'[u] = error[u],
           UNCHANGED <<stat, pc, waitq, alive, obj>>
    PROVE  MutexInv'
<1> USE MutexAssumption, ThreadAssumption
<1>1. /\ pc[t] \in {"run", "unsched"} /\ stat[t] = "ready" /\ \A k \in Mutex : ~Waiting(t, k)
  BY MutexApp
<1>2. /\ hold \in [Mutex -> 0..(HoldMod - 1)] /\ held \in [Thread -> [Mutex -> 0..MaxHold]]
      /\ owner \in [Mutex -> Thread \cup {NoThread}] /\ value \in [Mutex -> 0..1]
      /\ n \in 0..MaxHold /\ n \in 0..(HoldMod - 1) /\ n > 0
  BY DEF MutexInv, MutexTypeOK
<1>3. /\ \A u \in Thread, k \in Mutex : held'[u][k] = IF u = t /\ k = m THEN n ELSE held[u][k]
      /\ held' \in [Thread -> [Mutex -> 0..MaxHold]]
  BY <1>2, HeldExcept
<1>4. /\ hold'[m] = n /\ owner'[m] = t /\ value'[m] = 0
      /\ \A k \in Mutex \ {m} : hold'[k] = hold[k] /\ owner'[k] = owner[k] /\ value'[k] = value[k]
  BY <1>2
<1>5. \A u \in Thread, k \in Mutex : Waiting(u, k)' <=> Waiting(u, k)
  BY DEF Waiting
<1>6. MutexTypeOK'
  BY <1>2, <1>3 DEF MutexInv, MutexTypeOK, BlockInv
<1>7. WaitersOK' /\ ObjOK'
  BY <1>5 DEF MutexInv, WaitersOK, ObjOK
<1>8. \A u \in Thread, k \in Mutex : (Granted(u, k)' <=> Granted(u, k))
  BY <1>1, <1>4, <1>5 DEF Granted
<1>9. \A u \in Thread : Waiting(u, m) => ~(stat[u] = "ready" /\ error[u] = "EOK") /\ owner[m] # u
  BY <1>1 DEF MutexInv, MutualExclusion, Granted
<1>10. MutualExclusion'
  <2> SUFFICES ASSUME NEW k \in Mutex, NEW u \in Thread, alive'[k]
               PROVE  /\ held'[u][k] > 0 => owner'[k] = u
                      /\ owner'[k] = u => hold'[k] = held'[u][k] + (IF Granted(u, k)' THEN 1 ELSE 0)
                      /\ (Waiting(u, k)' /\ stat'[u] = "ready" /\ error'[u] = "EOK") => owner'[k] = u
    BY DEF MutualExclusion
  <2>1. CASE k # m
    BY <2>1, <1>1, <1>3, <1>4, <1>5, <1>8 DEF MutexInv, MutualExclusion
  <2>2. CASE k = m
    <3>1. Granted(u, k)' => FALSE
      BY <2>2, <1>1, <1>8 DEF Granted
    <3>2. n + 0 = n
      OBVIOUS
    <3> QED BY <2>2, <3>1, <3>2, <1>1, <1>3, <1>4, <1>5, <1>9
  <2> QED BY <2>1, <2>2
<1>11. OwnerOK'
  <2> SUFFICES ASSUME NEW k \in Mutex
      PROVE  /\ value'[k] = 1 <=> owner'[k] = NoThread
             /\ owner'[k] = NoThread => hold'[k] = 0 /\ waitq'[k] = <<>>
             /\ owner'[k] # NoThread => hold'[k] > 0 /\ orig'[k] \in Prio /\ stat'[owner'[k]] # "init"
             /\ ~alive'[k] => \A u \in Thread : held'[u][k] = 0
    BY DEF OwnerOK
  <2>1. CASE k # m
    BY <2>1, <1>3, <1>4 DEF MutexInv, OwnerOK
  <2>2. CASE k = m
    BY <2>2, <1>1, <1>2, <1>4
  <2> QED BY <2>1, <2>2
<1>12. AnswerOK'
  <2> SUFFICES ASSUME NEW u \in Thread, NEW k \in Mutex, Waiting(u, k)
      PROVE  /\ held'[u][k] = 0 /\ MaxHold > 0
             /\ stat'[u] = "suspend" => alive'[k] /\ error'[u] = "EOK" /\ owner'[k] # u
             /\ owner'[k] = u => alive'[k] /\ error'[u] = "EOK"
             /\ stat'[u] = "ready" /\ error'[u] = "EOK" => owner'[k] = u
             /\ stat'[u] # "init"
    BY <1>5 DEF AnswerOK
  <2>1. u # t
    BY <1>1
  <2>2. CASE k # m
    BY <2>1, <2>2, <1>3, <1>4 DEF MutexInv, AnswerOK
  <2>3. CASE k = m
    BY <2>1, <2>3, <1>3, <1>4, <1>9 DEF MutexInv, AnswerOK
  <2> QED BY <2>2, <2>3
<1>13. DetachOK'
  <2> SUFFICES ASSUME NEW u \in Thread, pc[u] \in {"detach", "detach_one"}
               PROVE  alive'[obj'[u]] /\ owner'[obj'[u]] \in {u, NoThread}
    BY DEF MutexInv, DetachOK
  <2>1. alive[obj[u]] /\ owner[obj[u]] \in {u, NoThread} /\ obj[u] \in Mutex
    BY DEF MutexInv, DetachOK, ObjOK, MutexTypeOK
  <2>2. u # t
    BY <1>1
  <2>3. obj[u] # m
    <3>0. obj[u] = m => owner[m] = u
      BY <2>1 DEF Detaching
    <3>1. obj[u] = m => hold[m] > 0 /\ hold[m] = held[u][m] + (IF Granted(u, m) THEN 1 ELSE 0)
      BY <2>1, <3>0 DEF MutexInv, OwnerOK, MutualExclusion
    <3>2. held[u][m] = 0 /\ ~Granted(u, m)
      BY <2>2
    <3> QED BY <3>1, <3>2
  <2> QED BY <2>1, <2>3, <1>4
<1> QED BY <1>6, <1>7, <1>10, <1>11, <1>12, <1>13 DEF MutexInv

\* Nobody but the owner counts on the mutex.
LEMMA MutexOthers ==
    ASSUME MutexInv, NEW t, NEW m \in Mutex, alive[m], owner[m] = t
    PROVE  \A u \in Thread \ {t} : held[u][m] = 0 /\ ~Granted(u, m)
<1>1. \A u \in Thread : held[u][m] \in 0..MaxHold
  BY DEF MutexInv, MutexTypeOK
<1> QED BY <1>1, MutexAssumption DEF MutexInv, MutualExclusion, Granted

\* rt_mutex_take that does not wait.
LEMMA TakeNowInv ==
    ASSUME MutexInv, NEW t \in Thread, NEW m \in Mutex, NEW time, MayTake(t, m, time),
           TakeAgain(t, m) \/ TakeFree(t, m)
    PROVE  MutexInv'
<1> USE MutexAssumption, ThreadAssumption
<1>1. InApp(t) /\ alive[m] /\ held[t][m] < MaxHold /\ (Detaching(m) => owner[m] # NoThread)
  BY DEF MayTake
<1>2. /\ hold \in [Mutex -> 0..(HoldMod - 1)] /\ held \in [Thread -> [Mutex -> 0..MaxHold]]
      /\ owner \in [Mutex -> Thread \cup {NoThread}] /\ value \in [Mutex -> 0..1]
      /\ orig \in [Mutex -> Prio \cup {NoPrio}] /\ error \in [Thread -> Error]
      /\ prio \in [Thread -> Prio] /\ BlockInv
  BY DEF MutexInv, MutexTypeOK, CoreTypeOK
<1>3. /\ UNCHANGED <<rq, stat, prio, timer, defunct, current, lockNest, pc, tgt>>
      /\ UNCHANGED <<waitq, alive, obj>> /\ error' = [error EXCEPT ![t] = "EOK"]
      /\ held' = [held EXCEPT ![t][m] = held[t][m] + 1]
      /\ hold' = [hold EXCEPT ![m] = (hold[m] + 1) % HoldMod]
  BY DEF TakeAgain, TakeFree, Acquire, HoldInc
<1>4. error' \in [Thread -> Error] /\ \A u \in Thread \ {t} : error'[u] = error[u]
  BY <1>2, <1>3 DEF Error
<1>5. BlockInv'
  <2>1. /\ t = current /\ t # Idle /\ pc[t] \notin SuspendLabel \cup {"startup"}
    BY <1>1, MutexApp, MutexLabels
  <2>2. rq' \in ReadyQueue /\ RqOK(rq', ReadyThreads, prio') /\ prio' \in [Thread -> Prio]
    BY <1>2, <1>3 DEF BlockInv, CoreTypeOK
  <2> QED BY <1>2, <1>3, <1>4, <2>1, <2>2, BlockLocal
<1>6. CASE TakeAgain(t, m)
  <2>1. owner[m] = t /\ UNCHANGED <<value, owner, orig>>
    BY <1>6 DEF TakeAgain
  <2>2. hold[m] = held[t][m] /\ held[t][m] \in 1..MaxHold
    BY <1>1, <2>1, MutexHeld
  <2> DEFINE n == held[t][m] + 1
  <2>3. n \in 1..MaxHold /\ (hold[m] + 1) % HoldMod = n
    BY <1>1, <2>2
  <2>4. value[m] = 0 /\ orig[m] \in Prio
    BY <1>2, <2>1 DEF MutexInv, OwnerOK
  <2>5. /\ owner' = [owner EXCEPT ![m] = t] /\ value' = [value EXCEPT ![m] = 0]
        /\ hold' = [hold EXCEPT ![m] = n] /\ held' = [held EXCEPT ![t][m] = n]
    BY <1>2, <1>3, <2>1, <2>3, <2>4
  <2>6. \A u \in Thread \ {t} : held[u][m] = 0 /\ ~Granted(u, m)
    BY <1>1, <2>1, MutexOthers
  <2>7. /\ orig' \in [Mutex -> Prio \cup {NoPrio}] /\ orig'[m] \in Prio
        /\ \A k \in Mutex \ {m} : orig'[k] = orig[k]
    BY <1>2, <2>1, <2>4
  <2> HIDE DEF n
  <2> QED BY <1>1, <1>3, <1>4, <1>5, <2>3, <2>5, <2>6, <2>7, MutexCount
<1>7. CASE TakeFree(t, m)
  <2>1. value[m] = 1 /\ owner[m] = NoThread /\ hold[m] = 0
    BY <1>2, <1>7 DEF TakeFree, MutexInv, OwnerOK
  <2>2. \A u \in Thread : held[u][m] = 0 /\ ~Granted(u, m)
    BY <1>1, <2>1, MutexOthers
  <2>3. 1 \in 1..MaxHold /\ held[t][m] + 1 = 1 /\ (hold[m] + 1) % HoldMod = 1 /\ value[m] - 1 = 0
    BY <1>1, <2>1, <2>2
  <2>4. /\ owner' = [owner EXCEPT ![m] = t] /\ value' = [value EXCEPT ![m] = 0]
        /\ hold' = [hold EXCEPT ![m] = 1] /\ held' = [held EXCEPT ![t][m] = 1]
        /\ orig' = [orig EXCEPT ![m] = prio[t]]
    BY <1>3, <1>7, <2>3 DEF TakeFree, Acquire
  <2>5. /\ orig' \in [Mutex -> Prio \cup {NoPrio}] /\ orig'[m] \in Prio
        /\ \A k \in Mutex \ {m} : orig'[k] = orig[k]
    BY <1>2, <2>4
  <2> QED BY <1>1, <1>3, <1>4, <1>5, <2>2, <2>3, <2>4, <2>5, MutexCount
<1> QED BY <1>6, <1>7

\* The release of one of several nested takes.
LEMMA ReleaseInnerInv ==
    ASSUME MutexInv, NEW t \in Thread, NEW m \in Mutex, InApp(t), alive[m], ReleaseInner(t, m)
    PROVE  MutexInv'
<1> USE MutexAssumption, ThreadAssumption
<1>1. /\ owner[m] = t /\ UNCHANGED <<schedVars, value, owner, orig, waitq, alive, obj>>
      /\ held' = [held EXCEPT ![t][m] = held[t][m] - 1]
      /\ hold' = [hold EXCEPT ![m] = (hold[m] - 1) % HoldMod] /\ (hold[m] - 1) % HoldMod # 0
  BY DEF ReleaseInner
<1>2. /\ hold[m] = held[t][m] /\ held[t][m] \in 1..MaxHold /\ (hold[m] - 1) % HoldMod = hold[m] - 1
  BY <1>1, MutexHeld
<1> DEFINE n == held[t][m] - 1
<1>3. n \in 1..MaxHold
  BY <1>1, <1>2
<1>4. value \in [Mutex -> 0..1] /\ owner \in [Mutex -> Thread \cup {NoThread}]
      /\ value[m] = 0 /\ orig[m] \in Prio /\ orig \in [Mutex -> Prio \cup {NoPrio}]
  BY <1>1 DEF MutexInv, OwnerOK, MutexTypeOK
<1>5. /\ owner' = [owner EXCEPT ![m] = t] /\ value' = [value EXCEPT ![m] = 0]
      /\ hold' = [hold EXCEPT ![m] = n] /\ held' = [held EXCEPT ![t][m] = n]
  BY <1>1, <1>2, <1>4
<1>6. \A u \in Thread \ {t} : held[u][m] = 0 /\ ~Granted(u, m)
  BY <1>1, MutexOthers
<1>7. BlockInv' /\ UNCHANGED <<stat, pc, error>> /\ owner[m] # NoThread
  BY <1>1, BlockStutter DEF MutexInv, schedVars
<1> HIDE DEF n
<1> QED BY <1>1, <1>3, <1>4, <1>5, <1>6, <1>7, MutexCount

\* The owner inherits: the ready queue follows its new priority.
LEMMA InheritFacts ==
    ASSUME BlockInv, NEW o \in Thread, NEW p \in Prio
    PROVE  /\ Inherit(o, p) \in [Thread -> Prio] /\ InheritQueue(o, p) \in ReadyQueue
           /\ RqOK(InheritQueue(o, p), ReadyThreads, Inherit(o, p))
           /\ \A u \in Thread \ {o} : Inherit(o, p)[u] = prio[u]
           /\ Inherit(o, p)[o] <= p /\ Inherit(o, p)[o] <= prio[o]
<1>1. /\ rq \in ReadyQueue /\ prio \in [Thread -> Prio] /\ RqOK(rq, ReadyThreads, prio)
      /\ ReadyThreads \in SUBSET Thread /\ (stat[o] = "ready" <=> o \in ReadyThreads)
      /\ prio[o] \in Nat /\ p \in Nat
  BY DEF BlockInv, CoreTypeOK, ReadyThreads, Prio
<1>2. CASE p < prio[o]
  <2>1. /\ ChangePrio(rq, o, stat[o], prio[o], p) \in ReadyQueue
        /\ RqOK(ChangePrio(rq, o, stat[o], prio[o], p), ReadyThreads, [prio EXCEPT ![o] = p])
    BY <1>1, RqChange
  <2>2. Inherit(o, p) = [prio EXCEPT ![o] = p]
        /\ InheritQueue(o, p) = ChangePrio(rq, o, stat[o], prio[o], p)
    BY <1>2 DEF Inherit, InheritQueue
  <2> QED BY <1>1, <1>2, <2>1, <2>2
<1>3. CASE ~(p < prio[o])
  BY <1>1, <1>3 DEF Inherit, InheritQueue
<1> QED BY <1>2, <1>3

\* The releasing owner gets its priority back: so does its place in the queue.
LEMMA RestoreFacts ==
    ASSUME BlockInv, NEW t \in Thread, NEW m \in Mutex, orig[m] \in Prio
    PROVE  /\ Restored(t, m) \in [Thread -> Prio] /\ RestoredQueue(t, m) \in ReadyQueue
           /\ RqOK(RestoredQueue(t, m), ReadyThreads, Restored(t, m))
<1>1. /\ rq \in ReadyQueue /\ prio \in [Thread -> Prio] /\ RqOK(rq, ReadyThreads, prio)
      /\ ReadyThreads \in SUBSET Thread /\ (stat[t] = "ready" <=> t \in ReadyThreads)
  BY DEF BlockInv, CoreTypeOK, ReadyThreads
<1>2. CASE orig[m] # prio[t]
  <2>1. /\ ChangePrio(rq, t, stat[t], prio[t], orig[m]) \in ReadyQueue
        /\ RqOK(ChangePrio(rq, t, stat[t], prio[t], orig[m]), ReadyThreads, [prio EXCEPT ![t] = orig[m]])
    BY <1>1, RqChange
  <2> QED BY <1>1, <1>2, <2>1 DEF Restored, RestoredQueue
<1>3. CASE orig[m] = prio[t]
  <2>1. Restored(t, m) = prio
    BY <1>1, <1>3 DEF Restored
  <2> QED BY <1>1, <1>3, <2>1 DEF RestoredQueue
<1> QED BY <1>2, <1>3

\* A take that waits, as far as the scheduler and the list are concerned.
LEMMA TakeWaitFacts ==
    ASSUME MutexInv, NEW t \in Thread, NEW m \in Mutex, NEW time, MayTake(t, m, time),
           MayBlock, TakeWait(t, m, time)
    PROVE  /\ owner[m] \in Thread /\ owner[m] # t /\ prio' = Inherit(owner[m], prio[t])
           /\ BlockInv' /\ prio' \in [Thread -> Prio] /\ prio'[t] = prio[t]
           /\ waitq' \in [Mutex -> Seq(Thread)]
           /\ waitq'[m] = ListInsert(Flag, waitq[m], t, prio')
           /\ Distinct(waitq'[m]) /\ waitq'[m] # <<>>
           /\ \A e : Contains(waitq'[m], e) <=> Contains(waitq[m], e) \/ e = t
           /\ \A k \in Mutex \ {m} : waitq'[k] = waitq[k]
<1> DEFINE o == owner[m]
<1>1. /\ InApp(t) /\ o # t /\ value[m] = 0 /\ lockNest = 0
      /\ prio' = Inherit(o, prio[t])
      /\ rq' = rt_schedule_remove_thread(InheritQueue(o, prio[t]), t, prio[t])
      /\ stat' = [stat EXCEPT ![t] = "suspend"]
      /\ waitq' = [waitq EXCEPT ![m] = ListInsert(Flag, waitq[m], t, prio')]
      /\ timer' = [timer EXCEPT ![t] = (time = "timed")]
      /\ error' = [error EXCEPT ![t] = "EOK"]
      /\ Goto(t, "take") /\ UNCHANGED <<defunct, current, lockNest, tgt>>
  BY DEF TakeWait, MayTake, MayBlock
<1>2. o \in Thread
  BY <1>1 DEF MutexInv, OwnerOK, MutexTypeOK
<1>3. /\ BlockInv /\ prio \in [Thread -> Prio] /\ prio[t] \in Prio /\ error \in [Thread -> Error]
      /\ ReadyThreads \in SUBSET Thread /\ waitq \in [Mutex -> Seq(Thread)]
      /\ waitq[m] \in Seq(Thread) /\ Distinct(waitq[m])
  BY DEF MutexInv, BlockInv, CoreTypeOK, ReadyThreads, MutexTypeOK, WaitersOK
<1>4. /\ prio' \in [Thread -> Prio] /\ InheritQueue(o, prio[t]) \in ReadyQueue
      /\ RqOK(InheritQueue(o, prio[t]), ReadyThreads, prio') /\ prio'[t] = prio[t]
  BY <1>1, <1>2, <1>3, InheritFacts
<1>5. rq' \in ReadyQueue /\ RqOK(rq', ReadyThreads \ {t}, prio')
  BY <1>1, <1>3, <1>4, RqRemove
<1>6. /\ t = current /\ t # Idle /\ pc[t] \notin WaitLabel \cup {"startup"}
      /\ ~Contains(waitq[m], t)
  BY <1>1, MutexApp
<1>7. error' \in [Thread -> Error] /\ (time = "timed") \in BOOLEAN
  BY <1>1, <1>3 DEF Error
<1>8. BlockInv'
  BY <1>1, <1>3, <1>4, <1>5, <1>6, <1>7, MutexLabels, BlockSuspend
<1>9. prio' \in [Thread -> Nat]
  BY <1>4 DEF Prio
<1> DEFINE l == ListInsert(Flag, waitq[m], t, prio')
<1>10. /\ l \in Seq(Thread) /\ l # <<>> /\ Distinct(l)
       /\ \A e : Contains(l, e) <=> Contains(waitq[m], e) \/ e = t
  BY <1>3, <1>6, <1>9, ListInsertProperties
<1>11. waitq'[m] = l /\ waitq' \in [Mutex -> Seq(Thread)] /\ \A k \in Mutex \ {m} : waitq'[k] = waitq[k]
  BY <1>1, <1>3, <1>10
<1> QED BY <1>1, <1>2, <1>4, <1>8, <1>10, <1>11

\* rt_mutex_take that waits.
LEMMA TakeWaitInv ==
    ASSUME MutexInv, NEW t \in Thread, NEW m \in Mutex, NEW time, MayTake(t, m, time),
           MayBlock, TakeWait(t, m, time)
    PROVE  MutexInv'
<1> USE MutexAssumption, ThreadAssumption
<1>1. /\ owner[m] \in Thread /\ owner[m] # t /\ BlockInv' /\ waitq' \in [Mutex -> Seq(Thread)]
      /\ Distinct(waitq'[m]) /\ \A e : Contains(waitq'[m], e) <=> Contains(waitq[m], e) \/ e = t
      /\ \A k \in Mutex \ {m} : waitq'[k] = waitq[k]
  BY TakeWaitFacts
<1>2. /\ InApp(t) /\ alive[m] /\ held[t][m] < MaxHold
      /\ stat' = [stat EXCEPT ![t] = "suspend"] /\ error' = [error EXCEPT ![t] = "EOK"]
      /\ pc' = [pc EXCEPT ![t] = "take"] /\ obj' = [obj EXCEPT ![t] = m]
      /\ UNCHANGED <<value, owner, hold, orig, alive, held>>
  BY DEF MayTake, TakeWait, Goto
<1>3. /\ pc[t] \in {"run", "unsched"} /\ \A k \in Mutex : ~Waiting(t, k) /\ ~Contains(waitq[k], t)
  BY <1>2, MutexApp
<1>4. /\ stat \in [Thread -> Stat] /\ error \in [Thread -> Error] /\ pc \in [Thread -> MutexPc]
      /\ obj \in [Thread -> Mutex \cup {NoMutex}] /\ held[t][m] \in 0..MaxHold
  BY DEF MutexInv, MutexTypeOK, CoreTypeOK
<1>5. /\ stat'[t] = "suspend" /\ error'[t] = "EOK" /\ pc'[t] = "take" /\ obj'[t] = m
      /\ \A u \in Thread \ {t} : /\ stat'[u] = stat[u] /\ error'[u] = error[u]
                                 /\ pc'[u] = pc[u] /\ obj'[u] = obj[u]
  BY <1>2, <1>4
<1>6. \A u \in Thread, k \in Mutex :
        /\ u # t => (Waiting(u, k)' <=> Waiting(u, k))
        /\ Granted(u, k)' <=> Granted(u, k)
        /\ u = t => (Waiting(u, k)' <=> k = m) /\ ~Granted(u, k)
  BY <1>1, <1>2, <1>3, <1>5 DEF Waiting, Granted
<1>7. MutexTypeOK'
  BY <1>1, <1>2, <1>4 DEF MutexInv, MutexTypeOK, BlockInv, MutexPc
<1>8. WaitersOK'
  <2> SUFFICES ASSUME NEW k \in Mutex
               PROVE  /\ Distinct(waitq'[k])
                      /\ \A u \in Thread : Contains(waitq'[k], u) <=> Waiting(u, k)' /\ stat'[u] = "suspend"
    BY DEF WaitersOK
  <2>1. Distinct(waitq'[k])
    BY <1>1 DEF MutexInv, WaitersOK
  <2>2. ASSUME NEW u \in Thread
        PROVE  Contains(waitq'[k], u) <=> Waiting(u, k)' /\ stat'[u] = "suspend"
    <3>1. CASE u # t
      <4>1. Contains(waitq'[k], u) <=> Contains(waitq[k], u)
        BY <3>1, <1>1
      <4>2. (Waiting(u, k)' <=> Waiting(u, k)) /\ stat'[u] = stat[u]
        BY <3>1, <1>5, <1>6
      <4> QED BY <4>1, <4>2 DEF MutexInv, WaitersOK
    <3>2. CASE u = t
      BY <3>2, <1>1, <1>3, <1>5, <1>6
    <3> QED BY <3>1, <3>2
  <2> QED BY <2>1, <2>2
<1>9. held[t][m] = 0
  BY <1>1, <1>2, <1>4 DEF MutexInv, MutualExclusion
<1>10. MutualExclusion'
  <2> SUFFICES ASSUME NEW k \in Mutex, NEW u \in Thread, alive[k]
               PROVE  /\ held[u][k] > 0 => owner[k] = u
                      /\ owner[k] = u => hold[k] = held[u][k] + (IF Granted(u, k)' THEN 1 ELSE 0)
                      /\ (Waiting(u, k)' /\ stat'[u] = "ready" /\ error'[u] = "EOK") => owner[k] = u
    BY <1>2 DEF MutualExclusion
  <2>1. Granted(u, k)' <=> Granted(u, k)
    BY <1>6
  <2>2. Waiting(u, k)' /\ stat'[u] = "ready" /\ error'[u] = "EOK"
            => Waiting(u, k) /\ stat[u] = "ready" /\ error[u] = "EOK"
    BY <1>5, <1>6
  <2> QED BY <2>1, <2>2 DEF MutexInv, MutualExclusion
<1>11. AnswerOK'
  <2> SUFFICES ASSUME NEW u \in Thread, NEW k \in Mutex, Waiting(u, k)'
      PROVE  /\ held'[u][k] = 0 /\ MaxHold > 0
             /\ stat'[u] = "suspend" => alive'[k] /\ error'[u] = "EOK" /\ owner'[k] # u
             /\ owner'[k] = u => alive'[k] /\ error'[u] = "EOK"
             /\ stat'[u] = "ready" /\ error'[u] = "EOK" => owner'[k] = u
             /\ stat'[u] # "init"
    BY DEF AnswerOK
  <2>1. CASE u # t
    <3>1. Waiting(u, k) /\ stat'[u] = stat[u] /\ error'[u] = error[u]
      BY <2>1, <1>5, <1>6
    <3> QED BY <3>1, <1>2 DEF MutexInv, AnswerOK
  <2>2. CASE u = t
    BY <2>2, <1>1, <1>2, <1>4, <1>5, <1>6, <1>9
  <2> QED BY <2>1, <2>2
<1>12. ObjOK' /\ DetachOK'
  <2>1. ObjOK'
    BY <1>2, <1>3, <1>5 DEF MutexInv, ObjOK
  <2> QED BY <2>1, <1>2, <1>3, <1>5 DEF MutexInv, DetachOK
<1>13. OwnerOK'
  <2>1. ASSUME NEW k \in Mutex, owner[k] # NoThread PROVE stat'[owner[k]] # "init"
    <3>1. owner[k] \in Thread /\ stat[owner[k]] # "init"
      BY <2>1 DEF MutexInv, OwnerOK, MutexTypeOK
    <3> QED BY <3>1, <1>5
  <2>2. \A k \in Mutex : owner[k] = NoThread => waitq'[k] = waitq[k]
    BY <1>1
  <2> QED BY <1>2, <2>1, <2>2 DEF MutexInv, OwnerOK
<1> QED BY <1>1, <1>7, <1>8, <1>10, <1>11, <1>12, <1>13 DEF MutexInv

\* The rt_schedule of a waiting take.
LEMMA TakeScheduleInv ==
    ASSUME MutexInv, NEW t \in Thread, TakeSchedule(t)
    PROVE  MutexInv'
<1>1. BlockInv'
  BY MutexLabels, BlockSwitch DEF TakeSchedule, At, MutexInv
<1>2. /\ pc' = [pc EXCEPT ![t] = "take_chk"] /\ pc \in [Thread -> MutexPc] /\ pc[t] = "take"
      /\ UNCHANGED <<stat, error, mutexVars>>
  BY DEF TakeSchedule, Goto, At, MutexInv, MutexTypeOK
<1> QED BY <1>1, <1>2, MutexFrame DEF MutexPc

\* The return of a waiting take: what was granted is now counted by the caller.
LEMMA TakeReturnInv ==
    ASSUME MutexInv, NEW t \in Thread, TakeReturn(t)
    PROVE  MutexInv'
<1> USE MutexAssumption, ThreadAssumption
<1> DEFINE m == obj[t]
<1>1. /\ t = current /\ pc[t] = "take_chk" /\ pc' = [pc EXCEPT ![t] = "run"]
      /\ obj' = [obj EXCEPT ![t] = NoMutex] /\ held' = Answer(t)
      /\ UNCHANGED <<rq, stat, prio, timer, error, defunct, current, lockNest, tgt>>
      /\ UNCHANGED <<value, owner, hold, orig, waitq, alive>>
  BY DEF TakeReturn, At, Goto
<1>2. /\ pc \in [Thread -> MutexPc] /\ obj \in [Thread -> Mutex \cup {NoMutex}]
      /\ held \in [Thread -> [Mutex -> 0..MaxHold]] /\ m \in Mutex /\ Waiting(t, m) /\ BlockInv
  BY <1>1 DEF MutexInv, MutexTypeOK, ObjOK, Waiting
<1>3. stat[t] = "ready" /\ t # Idle
  BY <1>1, <1>2, MutexLabels, BlockRunning
<1>4. BlockInv'
  <2>1. /\ rq' \in ReadyQueue /\ RqOK(rq', ReadyThreads, prio')
        /\ prio' \in [Thread -> Prio] /\ error' \in [Thread -> Error]
    BY <1>1, <1>2 DEF BlockInv, CoreTypeOK
  <2>2. /\ "run" \in BlockLabel \ (SuspendLabel \cup {"startup"})
        /\ pc[t] \notin SuspendLabel \cup {"startup"}
    BY <1>1, MutexLabels
  <2> QED BY <1>1, <1>2, <1>3, <2>1, <2>2, BlockLocal DEF Goto
<1>5. /\ pc'[t] = "run" /\ obj'[t] = NoMutex
      /\ \A u \in Thread : u # t => pc'[u] = pc[u] /\ obj'[u] = obj[u]
  BY <1>1, <1>2
<1>6. held[t][m] = 0 /\ MaxHold > 0 /\ (owner[m] = t <=> error[t] = "EOK") /\ (owner[m] = t => alive[m])
  BY <1>2, <1>3 DEF MutexInv, AnswerOK
<1> HIDE DEF m
<1>7. /\ \A u \in Thread, k \in Mutex :
            held'[u][k] = IF u = t /\ k = m /\ owner[m] = t THEN 1 ELSE held[u][k]
      /\ held' \in [Thread -> [Mutex -> 0..MaxHold]]
  <2>1. CASE error[t] = "EOK"
    <3>1. held' = [held EXCEPT ![t][m] = 1]
      BY <1>1, <1>6, <2>1 DEF Answer, m
    <3>2. 1 \in 0..MaxHold
      BY <1>6
    <3> QED BY <1>2, <1>6, <2>1, <3>1, <3>2, HeldExcept
  <2>2. CASE error[t] # "EOK"
    BY <1>1, <1>2, <1>6, <2>2 DEF Answer
  <2> QED BY <2>1, <2>2
<1>8. \A u \in Thread, k \in Mutex :
        /\ u # t => (Waiting(u, k)' <=> Waiting(u, k)) /\ (Granted(u, k)' <=> Granted(u, k))
        /\ u = t => ~Waiting(u, k)' /\ ~Granted(u, k)' /\ (Waiting(u, k) <=> k = m)
                    /\ (Granted(u, k) <=> k = m /\ owner[m] = t)
  BY <1>1, <1>2, <1>5 DEF Waiting, Granted, m
<1>9. MutexTypeOK'
  BY <1>1, <1>2, <1>4, <1>7 DEF MutexInv, MutexTypeOK, BlockInv, MutexPc
<1>10. WaitersOK'
  <2> SUFFICES ASSUME NEW k \in Mutex, NEW u \in Thread
               PROVE  Contains(waitq[k], u) <=> Waiting(u, k)' /\ stat[u] = "suspend"
    BY <1>1 DEF MutexInv, WaitersOK
  <2>1. Contains(waitq[k], u) <=> Waiting(u, k) /\ stat[u] = "suspend"
    BY DEF MutexInv, WaitersOK
  <2> QED BY <2>1, <1>3, <1>8
<1>11. MutualExclusion'
  <2> SUFFICES ASSUME NEW k \in Mutex, NEW u \in Thread, alive[k]
               PROVE  /\ held'[u][k] > 0 => owner[k] = u
                      /\ owner[k] = u => hold[k] = held'[u][k] + (IF Granted(u, k)' THEN 1 ELSE 0)
                      /\ (Waiting(u, k)' /\ stat[u] = "ready" /\ error[u] = "EOK") => owner[k] = u
    BY <1>1 DEF MutualExclusion
  <2>1. /\ held[u][k] > 0 => owner[k] = u
        /\ owner[k] = u => hold[k] = held[u][k] + (IF Granted(u, k) THEN 1 ELSE 0)
        /\ (Waiting(u, k) /\ stat[u] = "ready" /\ error[u] = "EOK") => owner[k] = u
    BY DEF MutexInv, MutualExclusion
  <2>2. CASE u # t
    BY <2>1, <2>2, <1>7, <1>8
  <2>3. CASE u = t /\ k # m
    BY <2>1, <2>3, <1>7, <1>8
  <2>4. CASE u = t /\ k = m
    BY <2>1, <2>4, <1>6, <1>7, <1>8
  <2> QED BY <2>2, <2>3, <2>4
<1>12. OwnerOK'
  <2>1. ASSUME NEW k \in Mutex, ~alive[k], NEW u \in Thread PROVE held'[u][k] = 0
    <3>1. held[u][k] = 0
      BY <2>1 DEF MutexInv, OwnerOK
    <3>2. ~(k = m /\ owner[m] = t)
      BY <2>1, <1>6
    <3> QED BY <3>1, <3>2, <1>7
  <2> QED BY <1>1, <2>1 DEF MutexInv, OwnerOK
<1>13. AnswerOK'
  <2> SUFFICES ASSUME NEW u \in Thread, NEW k \in Mutex, Waiting(u, k)'
      PROVE  /\ held'[u][k] = 0 /\ MaxHold > 0
             /\ stat[u] = "suspend" => alive[k] /\ error[u] = "EOK" /\ owner[k] # u
             /\ owner[k] = u => alive[k] /\ error[u] = "EOK"
             /\ stat[u] = "ready" /\ error[u] = "EOK" => owner[k] = u
             /\ stat[u] # "init"
    BY <1>1 DEF AnswerOK
  <2>1. u # t /\ Waiting(u, k)
    BY <1>8
  <2> QED BY <2>1, <1>7 DEF MutexInv, AnswerOK
<1>14. ObjOK' /\ DetachOK'
  BY <1>1, <1>5 DEF MutexInv, ObjOK, DetachOK
<1> QED BY <1>4, <1>9, <1>10, <1>11, <1>12, <1>13, <1>14 DEF MutexInv

\* rt_ipc_list_resume of the first waiter, into a queue r that is right for the
\* priorities pr.
LEMMA ResumeFacts ==
    ASSUME MutexInv, NEW m \in Mutex, waitq[m] # <<>>, NEW r \in ReadyQueue,
           NEW pr \in [Thread -> Prio], RqOK(r, ReadyThreads, pr),
           rt_ipc_list_resume(m, r, pr[Head(waitq[m])])
    PROVE  LET w == Head(waitq[m]) IN
           /\ w \in Thread /\ stat[w] = "suspend" /\ Waiting(w, m) /\ pc[w] \in WaitLabel
           /\ error[w] = "EOK" /\ owner[m] # w
           /\ rq' \in ReadyQueue /\ RqOK(rq', ReadyThreads \cup {w}, pr)
           /\ stat' = [stat EXCEPT ![w] = "ready"] /\ timer' = [timer EXCEPT ![w] = FALSE]
           /\ waitq' \in [Mutex -> Seq(Thread)]
           /\ waitq'[m] = Tail(waitq[m]) /\ \A k \in Mutex : k # m => waitq'[k] = waitq[k]
           /\ Distinct(waitq'[m])
           /\ \A e : Contains(waitq'[m], e) <=> Contains(waitq[m], e) /\ e # w
<1> DEFINE w == Head(waitq[m])
<1>1. /\ waitq \in [Mutex -> Seq(Thread)] /\ waitq[m] \in Seq(Thread) /\ Distinct(waitq[m])
  BY DEF MutexInv, MutexTypeOK, WaitersOK
<1>2. /\ w \in Thread /\ Contains(waitq[m], w) /\ Tail(waitq[m]) \in Seq(Thread)
      /\ Distinct(Tail(waitq[m]))
      /\ \A e : Contains(Tail(waitq[m]), e) <=> Contains(waitq[m], e) /\ e # w
  BY <1>1, ListTail
<1>3. stat[w] = "suspend" /\ Waiting(w, m)
  BY <1>2 DEF MutexInv, WaitersOK
<1>4. pc[w] \in WaitLabel
  BY <1>3, MutexLabels DEF Waiting
<1>5. error[w] = "EOK" /\ owner[m] # w
  BY <1>2, <1>3 DEF MutexInv, AnswerOK
<1>6. ReadyThreads \in SUBSET Thread /\ w \notin ReadyThreads
  BY <1>3 DEF ReadyThreads
<1>7. /\ rq' = rt_schedule_insert_thread(r, w, pr[w])
      /\ stat' = [stat EXCEPT ![w] = "ready"] /\ timer' = [timer EXCEPT ![w] = FALSE]
      /\ waitq' = [waitq EXCEPT ![m] = Tail(waitq[m])]
  BY DEF rt_ipc_list_resume, rt_timer_stop
<1> HIDE DEF w
<1>8. rq' \in ReadyQueue /\ RqOK(rq', ReadyThreads \cup {w}, pr)
  BY <1>2, <1>6, <1>7, RqInsert
<1>9. /\ waitq' \in [Mutex -> Seq(Thread)] /\ waitq'[m] = Tail(waitq[m])
      /\ \A k \in Mutex : k # m => waitq'[k] = waitq[k]
  BY <1>1, <1>2, <1>7
<1> QED BY <1>2, <1>3, <1>4, <1>5, <1>7, <1>8, <1>9 DEF w

\* The last release with a waiter: the first waiter owns the mutex before it runs.
LEMMA HandOverInv ==
    ASSUME MutexInv, NEW t \in Thread, NEW m \in Mutex, InApp(t), alive[m], ReleaseHandOver(t, m)
    PROVE  MutexInv'
<1> USE MutexAssumption, ThreadAssumption
<1> DEFINE w == Head(waitq[m])
<1>1. /\ owner[m] = t /\ (hold[m] - 1) % HoldMod = 0 /\ waitq[m] # <<>>
      /\ prio' = Restored(t, m) /\ owner' = [owner EXCEPT ![m] = w]
      /\ orig' = [orig EXCEPT ![m] = prio'[w]] /\ hold' = [hold EXCEPT ![m] = 1]
      /\ rt_ipc_list_resume(m, RestoredQueue(t, m), prio'[w])
      /\ held' = [held EXCEPT ![t][m] = held[t][m] - 1] /\ Goto(t, "sched")
      /\ UNCHANGED <<error, defunct, current, lockNest, tgt, value, alive, obj>>
  BY DEF ReleaseHandOver, NeedSchedule
<1>2. /\ BlockInv /\ orig[m] \in Prio /\ pc \in [Thread -> MutexPc] /\ stat \in [Thread -> Stat]
      /\ owner \in [Mutex -> Thread \cup {NoThread}] /\ hold \in [Mutex -> 0..(HoldMod - 1)]
      /\ orig \in [Mutex -> Prio \cup {NoPrio}] /\ held \in [Thread -> [Mutex -> 0..MaxHold]]
      /\ error \in [Thread -> Error] /\ value[m] # 1
  BY <1>1 DEF MutexInv, MutexTypeOK, CoreTypeOK, OwnerOK
<1>3. /\ prio' \in [Thread -> Prio] /\ RestoredQueue(t, m) \in ReadyQueue
      /\ RqOK(RestoredQueue(t, m), ReadyThreads, prio')
  BY <1>1, <1>2, RestoreFacts
<1>4. /\ w \in Thread /\ stat[w] = "suspend" /\ Waiting(w, m) /\ pc[w] \in WaitLabel
      /\ error[w] = "EOK" /\ owner[m] # w
      /\ rq' \in ReadyQueue /\ RqOK(rq', ReadyThreads \cup {w}, prio')
      /\ stat' = [stat EXCEPT ![w] = "ready"] /\ timer' = [timer EXCEPT ![w] = FALSE]
      /\ waitq' \in [Mutex -> Seq(Thread)] /\ \A k \in Mutex : k # m => waitq'[k] = waitq[k]
      /\ Distinct(waitq'[m]) /\ \A e : Contains(waitq'[m], e) <=> Contains(waitq[m], e) /\ e # w
  BY <1>1, <1>3, ResumeFacts
<1> HIDE DEF w
<1>5. /\ t = current /\ t # Idle /\ pc[t] \in {"run", "unsched"} /\ pc[t] \notin WaitLabel \cup {"startup"}
      /\ \A k \in Mutex : ~Waiting(t, k)
  BY MutexApp
<1>6. BlockInv'
  <2>1. "sched" \in BlockLabel \ (WaitLabel \cup {"startup"}) /\ error' \in [Thread -> Error]
    BY <1>1, <1>2, MutexLabels
  <2>2. /\ UNCHANGED current /\ pc[current] \notin SuspendLabel \cup {"startup"} /\ current # Idle
        /\ \E l \in BlockLabel \ (WaitLabel \cup {"startup"}) : Goto(current, l)
    BY <1>1, <1>5, <2>1, MutexLabels
  <2> QED BY <1>1, <1>2, <1>3, <1>4, <2>1, <2>2, BlockWake
<1>7. /\ held[t][m] = 1 /\ held[w][m] = 0
  <2>1. hold[m] = held[t][m] /\ held[t][m] \in 1..MaxHold /\ (hold[m] - 1) % HoldMod = hold[m] - 1
    BY <1>1, MutexHeld
  <2>2. held[w][m] = 0
    BY <1>1, <1>4, MutexOthers
  <2> QED BY <1>1, <2>1, <2>2
<1>8. /\ \A u \in Thread, k \in Mutex : held'[u][k] = IF u = t /\ k = m THEN 0 ELSE held[u][k]
      /\ held' \in [Thread -> [Mutex -> 0..MaxHold]]
  <2>1. held' = [held EXCEPT ![t][m] = 0] /\ 0 \in 0..MaxHold
    BY <1>1, <1>7
  <2> QED BY <1>2, <2>1, HeldExcept
<1>9. /\ owner'[m] = w /\ hold'[m] = 1 /\ orig'[m] \in Prio
      /\ \A k \in Mutex : k # m => owner'[k] = owner[k] /\ hold'[k] = hold[k] /\ orig'[k] = orig[k]
      /\ owner' \in [Mutex -> Thread \cup {NoThread}] /\ hold' \in [Mutex -> 0..(HoldMod - 1)]
      /\ orig' \in [Mutex -> Prio \cup {NoPrio}]
  BY <1>1, <1>2, <1>3, <1>4
<1>10. /\ pc'[t] = "sched" /\ \A u \in Thread : u # t => pc'[u] = pc[u]
       /\ pc' \in [Thread -> MutexPc]
       /\ stat'[w] = "ready" /\ \A u \in Thread : u # w => stat'[u] = stat[u]
  BY <1>1, <1>2, <1>4 DEF Goto, MutexPc
<1>11. \A u \in Thread, k \in Mutex : Waiting(u, k)' <=> Waiting(u, k)
  BY <1>1, <1>5, <1>10 DEF Waiting
<1>12. \A u \in Thread, k \in Mutex :
         /\ k # m => (Granted(u, k)' <=> Granted(u, k))
         /\ k = m => (Granted(u, k)' <=> u = w)
  BY <1>4, <1>9, <1>11 DEF Granted
<1>13. \A u \in Thread : u # t => held[u][m] = 0 /\ ~Granted(u, m)
  BY <1>1, MutexOthers
<1>14. MutexTypeOK'
  BY <1>1, <1>2, <1>4, <1>6, <1>8, <1>9, <1>10 DEF MutexInv, MutexTypeOK, BlockInv
<1>15. WaitersOK'
  <2> SUFFICES ASSUME NEW k \in Mutex
               PROVE  /\ Distinct(waitq'[k])
                      /\ \A u \in Thread : Contains(waitq'[k], u) <=> Waiting(u, k) /\ stat'[u] = "suspend"
    BY <1>11 DEF WaitersOK
  <2>1. /\ Distinct(waitq[k])
        /\ \A u \in Thread : Contains(waitq[k], u) <=> Waiting(u, k) /\ stat[u] = "suspend"
    BY DEF MutexInv, WaitersOK
  <2>2. CASE k # m
    <3>1. \A u \in Thread : Waiting(u, k) => u # w
      BY <2>2, <1>4 DEF Waiting
    <3> QED BY <2>1, <2>2, <3>1, <1>4, <1>10
  <2>3. CASE k = m
    BY <2>1, <2>3, <1>4, <1>10
  <2> QED BY <2>2, <2>3
<1>16. MutualExclusion'
  <2> SUFFICES ASSUME NEW k \in Mutex, NEW u \in Thread, alive[k]
               PROVE  /\ held'[u][k] > 0 => owner'[k] = u
                      /\ owner'[k] = u => hold'[k] = held'[u][k] + (IF Granted(u, k)' THEN 1 ELSE 0)
                      /\ (Waiting(u, k) /\ stat'[u] = "ready" /\ error[u] = "EOK") => owner'[k] = u
    BY <1>1, <1>11 DEF MutualExclusion
  <2>1. /\ held[u][k] > 0 => owner[k] = u
        /\ owner[k] = u => hold[k] = held[u][k] + (IF Granted(u, k) THEN 1 ELSE 0)
        /\ (Waiting(u, k) /\ stat[u] = "ready" /\ error[u] = "EOK") => owner[k] = u
    BY DEF MutexInv, MutualExclusion
  <2>2. CASE k # m
    <3>1. Waiting(u, k) => u # w
      BY <2>2, <1>4 DEF Waiting
    <3> QED BY <2>1, <2>2, <3>1, <1>8, <1>9, <1>10, <1>12
  <2>3. CASE k = m
    <3>1. held'[u][m] = 0
      BY <1>8, <1>13
    <3>2. Waiting(u, m) /\ stat'[u] = "ready" /\ error[u] = "EOK" => u = w
      BY <2>1, <2>3, <1>1, <1>5, <1>10
    <3> QED BY <2>3, <3>1, <3>2, <1>9, <1>12
  <2> QED BY <2>2, <2>3
<1>17. OwnerOK'
  <2> SUFFICES ASSUME NEW k \in Mutex
      PROVE  /\ value[k] = 1 <=> owner'[k] = NoThread
             /\ owner'[k] = NoThread => hold'[k] = 0 /\ waitq'[k] = <<>>
             /\ owner'[k] # NoThread => hold'[k] > 0 /\ orig'[k] \in Prio /\ stat'[owner'[k]] # "init"
             /\ ~alive[k] => \A u \in Thread : held'[u][k] = 0
    BY <1>1 DEF OwnerOK
  <2>1. CASE k # m
    <3>1. /\ owner[k] \in Thread \cup {NoThread} /\ (value[k] = 1 <=> owner[k] = NoThread)
          /\ owner[k] = NoThread => hold[k] = 0 /\ waitq[k] = <<>>
          /\ owner[k] # NoThread => hold[k] > 0 /\ orig[k] \in Prio /\ stat[owner[k]] # "init"
          /\ ~alive[k] => \A u \in Thread : held[u][k] = 0
      BY <1>2 DEF MutexInv, OwnerOK
    <3>2. owner[k] # NoThread => stat'[owner[k]] # "init"
      BY <3>1, <1>10
    <3>3. \A u \in Thread : held'[u][k] = held[u][k]
      BY <2>1, <1>8
    <3>4. owner'[k] = owner[k] /\ hold'[k] = hold[k] /\ orig'[k] = orig[k] /\ waitq'[k] = waitq[k]
      BY <2>1, <1>4, <1>9
    <3> QED BY <3>1, <3>2, <3>3, <3>4
  <2>2. CASE k = m
    BY <2>2, <1>2, <1>4, <1>9, <1>10
  <2> QED BY <2>1, <2>2
<1>18. AnswerOK'
  <2> SUFFICES ASSUME NEW u \in Thread, NEW k \in Mutex, Waiting(u, k)
      PROVE  /\ held'[u][k] = 0 /\ MaxHold > 0
             /\ stat'[u] = "suspend" => alive[k] /\ error[u] = "EOK" /\ owner'[k] # u
             /\ owner'[k] = u => alive[k] /\ error[u] = "EOK"
             /\ stat'[u] = "ready" /\ error[u] = "EOK" => owner'[k] = u
             /\ stat'[u] # "init"
    BY <1>1, <1>11 DEF AnswerOK
  <2>1. /\ held[u][k] = 0 /\ MaxHold > 0
        /\ stat[u] = "suspend" => alive[k] /\ error[u] = "EOK" /\ owner[k] # u
        /\ owner[k] = u => alive[k] /\ error[u] = "EOK"
        /\ stat[u] = "ready" /\ error[u] = "EOK" => owner[k] = u
        /\ stat[u] # "init"
    BY DEF MutexInv, AnswerOK
  <2>2. u # t
    BY <1>5
  <2>3. CASE k # m
    <3>1. u # w
      BY <2>3, <1>4 DEF Waiting
    <3> QED BY <2>1, <2>3, <3>1, <1>8, <1>9, <1>10
  <2>4. CASE k = m
    BY <2>1, <2>2, <2>4, <1>1, <1>4, <1>8, <1>9, <1>10
  <2> QED BY <2>3, <2>4
<1>19. ObjOK'
  BY <1>1, <1>5, <1>10 DEF MutexInv, ObjOK
<1>20. DetachOK'
  <2> SUFFICES ASSUME NEW u \in Thread, pc'[u] \in {"detach", "detach_one"}
               PROVE  alive[obj[u]] /\ owner'[obj[u]] \in {u, NoThread}
    BY <1>1, <1>10 DEF MutexInv, DetachOK
  <2>1. u # t /\ pc[u] \in {"detach", "detach_one"}
    BY <1>10
  <2>2. alive[obj[u]] /\ owner[obj[u]] \in {u, NoThread} /\ obj[u] \in Mutex
    BY <2>1 DEF MutexInv, DetachOK, ObjOK, MutexTypeOK
  <2> QED BY <2>1, <2>2, <1>1, <1>9
<1> QED BY <1>6, <1>14, <1>15, <1>16, <1>17, <1>18, <1>19, <1>20 DEF MutexInv

\* The last release without a waiter.
LEMMA ReleaseFreeInv ==
    ASSUME MutexInv, NEW t \in Thread, NEW m \in Mutex, InApp(t), alive[m], ReleaseFree(t, m)
    PROVE  MutexInv'
<1> USE MutexAssumption, ThreadAssumption
<1>1. /\ owner[m] = t /\ (hold[m] - 1) % HoldMod = 0 /\ waitq[m] = <<>>
      /\ prio' = Restored(t, m) /\ rq' = RestoredQueue(t, m)
      /\ hold' = [hold EXCEPT ![m] = 0] /\ value' = [value EXCEPT ![m] = value[m] + 1]
      /\ owner' = [owner EXCEPT ![m] = NoThread] /\ orig' = [orig EXCEPT ![m] = NoPrio]
      /\ held' = [held EXCEPT ![t][m] = held[t][m] - 1]
      /\ \E l \in {pc[t], "unsched"} : Goto(t, l)
      /\ UNCHANGED <<stat, timer, error, defunct, current, lockNest, tgt, waitq, alive, obj>>
  BY DEF ReleaseFree, Free
<1>2. /\ BlockInv /\ orig[m] \in Prio /\ pc \in [Thread -> MutexPc] /\ stat \in [Thread -> Stat]
      /\ owner \in [Mutex -> Thread \cup {NoThread}] /\ hold \in [Mutex -> 0..(HoldMod - 1)]
      /\ orig \in [Mutex -> Prio \cup {NoPrio}] /\ held \in [Thread -> [Mutex -> 0..MaxHold]]
      /\ error \in [Thread -> Error] /\ value \in [Mutex -> 0..1] /\ value[m] = 0
      /\ waitq \in [Mutex -> Seq(Thread)]
  BY <1>1 DEF MutexInv, MutexTypeOK, CoreTypeOK, OwnerOK
<1>3. /\ prio' \in [Thread -> Prio] /\ rq' \in ReadyQueue /\ RqOK(rq', ReadyThreads, prio')
  BY <1>1, <1>2, RestoreFacts
<1>4. /\ t = current /\ t # Idle /\ pc[t] \in {"run", "unsched"} /\ pc[t] \notin WaitLabel \cup {"startup"}
      /\ \A k \in Mutex : ~Waiting(t, k)
  BY MutexApp
<1>5. BlockInv'
  <2>1. /\ pc[t] \notin SuspendLabel \cup {"startup"} /\ error' \in [Thread -> Error]
        /\ \E l \in BlockLabel \ (SuspendLabel \cup {"startup"}) : Goto(t, l)
    BY <1>1, <1>2, <1>4, MutexLabels
  <2> QED BY <1>1, <1>2, <1>3, <1>4, <2>1, BlockLocal
<1>pc. /\ pc' \in [Thread -> MutexPc] /\ pc'[t] \in {"run", "unsched"}
       /\ \A u \in Thread : u # t => pc'[u] = pc[u]
  BY <1>1, <1>2, <1>4 DEF Goto, MutexPc
<1>6. held[t][m] = 1
  <2>1. hold[m] = held[t][m] /\ held[t][m] \in 1..MaxHold /\ (hold[m] - 1) % HoldMod = hold[m] - 1
    BY <1>1, MutexHeld
  <2> QED BY <1>1, <2>1
<1>7. /\ \A u \in Thread, k \in Mutex : held'[u][k] = IF u = t /\ k = m THEN 0 ELSE held[u][k]
      /\ held' \in [Thread -> [Mutex -> 0..MaxHold]]
  <2>1. held' = [held EXCEPT ![t][m] = 0] /\ 0 \in 0..MaxHold
    BY <1>1, <1>6
  <2> QED BY <1>2, <2>1, HeldExcept
<1>8. /\ owner'[m] = NoThread /\ hold'[m] = 0 /\ value'[m] = 1
      /\ \A k \in Mutex : k # m => /\ owner'[k] = owner[k] /\ hold'[k] = hold[k]
                                   /\ orig'[k] = orig[k] /\ value'[k] = value[k]
      /\ owner' \in [Mutex -> Thread \cup {NoThread}] /\ hold' \in [Mutex -> 0..(HoldMod - 1)]
      /\ orig' \in [Mutex -> Prio \cup {NoPrio}] /\ value' \in [Mutex -> 0..1]
  BY <1>1, <1>2
<1>9. \A u \in Thread, k \in Mutex : Waiting(u, k)' <=> Waiting(u, k)
  BY <1>1, <1>4, <1>pc DEF Waiting
<1>10. \A u \in Thread : u # t => held[u][m] = 0 /\ ~Granted(u, m)
  BY <1>1, MutexOthers
<1>11. \A u \in Thread, k \in Mutex : Granted(u, k)' <=> k # m /\ Granted(u, k)
  BY <1>8, <1>9 DEF Granted
<1>12. \A u \in Thread : Waiting(u, m) => ~(stat[u] = "ready" /\ error[u] = "EOK") /\ stat[u] # "suspend"
  <2> SUFFICES ASSUME NEW u \in Thread, Waiting(u, m)
               PROVE  ~(stat[u] = "ready" /\ error[u] = "EOK") /\ stat[u] # "suspend"
    OBVIOUS
  <2>1. stat[u] # "suspend"
    <3>1. ~Contains(waitq[m], u)
      BY <1>1 DEF Contains
    <3> QED BY <3>1 DEF MutexInv, WaitersOK
  <2>2. stat[u] = "ready" /\ error[u] = "EOK" => owner[m] = u
    BY DEF MutexInv, AnswerOK
  <2> QED BY <2>1, <2>2, <1>1, <1>4
<1>13. MutexTypeOK'
  BY <1>1, <1>2, <1>5, <1>pc, <1>7, <1>8 DEF MutexInv, MutexTypeOK, BlockInv
<1>14. WaitersOK' /\ ObjOK'
  BY <1>1, <1>4, <1>pc, <1>9 DEF MutexInv, WaitersOK, ObjOK
<1>15. MutualExclusion'
  <2> SUFFICES ASSUME NEW k \in Mutex, NEW u \in Thread, alive[k]
               PROVE  /\ held'[u][k] > 0 => owner'[k] = u
                      /\ owner'[k] = u => hold'[k] = held'[u][k] + (IF Granted(u, k)' THEN 1 ELSE 0)
                      /\ (Waiting(u, k) /\ stat[u] = "ready" /\ error[u] = "EOK") => owner'[k] = u
    BY <1>1, <1>9 DEF MutualExclusion
  <2>1. /\ held[u][k] > 0 => owner[k] = u
        /\ owner[k] = u => hold[k] = held[u][k] + (IF Granted(u, k) THEN 1 ELSE 0)
        /\ (Waiting(u, k) /\ stat[u] = "ready" /\ error[u] = "EOK") => owner[k] = u
    BY DEF MutexInv, MutualExclusion
  <2>2. CASE k # m
    BY <2>1, <2>2, <1>7, <1>8, <1>11
  <2>3. CASE k = m
    <3>1. held'[u][m] = 0
      BY <1>7, <1>10
    <3> QED BY <2>3, <3>1, <1>8, <1>12
  <2> QED BY <2>2, <2>3
<1>16. OwnerOK'
  <2> SUFFICES ASSUME NEW k \in Mutex
      PROVE  /\ value'[k] = 1 <=> owner'[k] = NoThread
             /\ owner'[k] = NoThread => hold'[k] = 0 /\ waitq[k] = <<>>
             /\ owner'[k] # NoThread => hold'[k] > 0 /\ orig'[k] \in Prio /\ stat[owner'[k]] # "init"
             /\ ~alive[k] => \A u \in Thread : held'[u][k] = 0
    BY <1>1 DEF OwnerOK
  <2>1. CASE k # m
    <3>1. /\ value[k] = 1 <=> owner[k] = NoThread
          /\ owner[k] = NoThread => hold[k] = 0 /\ waitq[k] = <<>>
          /\ owner[k] # NoThread => hold[k] > 0 /\ orig[k] \in Prio /\ stat[owner[k]] # "init"
          /\ ~alive[k] => \A u \in Thread : held[u][k] = 0
      BY DEF MutexInv, OwnerOK
    <3>2. \A u \in Thread : held'[u][k] = held[u][k]
      BY <2>1, <1>7
    <3> QED BY <2>1, <3>1, <3>2, <1>8
  <2>2. CASE k = m
    BY <2>2, <1>1, <1>8
  <2> QED BY <2>1, <2>2
<1>17. AnswerOK'
  <2> SUFFICES ASSUME NEW u \in Thread, NEW k \in Mutex, Waiting(u, k)
      PROVE  /\ held'[u][k] = 0 /\ MaxHold > 0
             /\ stat[u] = "suspend" => alive[k] /\ error[u] = "EOK" /\ owner'[k] # u
             /\ owner'[k] = u => alive[k] /\ error[u] = "EOK"
             /\ stat[u] = "ready" /\ error[u] = "EOK" => owner'[k] = u
             /\ stat[u] # "init"
    BY <1>1, <1>9 DEF AnswerOK
  <2>1. /\ held[u][k] = 0 /\ MaxHold > 0
        /\ stat[u] = "suspend" => alive[k] /\ error[u] = "EOK" /\ owner[k] # u
        /\ owner[k] = u => alive[k] /\ error[u] = "EOK"
        /\ stat[u] = "ready" /\ error[u] = "EOK" => owner[k] = u
        /\ stat[u] # "init"
    BY DEF MutexInv, AnswerOK
  <2>2. u # t
    BY <1>4
  <2>3. CASE k # m
    BY <2>1, <2>3, <1>7, <1>8
  <2>4. CASE k = m
    BY <2>1, <2>2, <2>4, <1>7, <1>8, <1>12
  <2> QED BY <2>3, <2>4
<1>18. DetachOK'
  <2> SUFFICES ASSUME NEW u \in Thread, pc[u] \in {"detach", "detach_one"}
               PROVE  alive[obj[u]] /\ owner'[obj[u]] \in {u, NoThread}
    BY <1>1, <1>4, <1>pc DEF MutexInv, DetachOK
  <2>1. u # t
    BY <1>4
  <2>2. alive[obj[u]] /\ owner[obj[u]] \in {u, NoThread} /\ obj[u] \in Mutex
    BY <2>1 DEF MutexInv, DetachOK, ObjOK, MutexTypeOK
  <2> QED BY <2>1, <2>2, <1>1, <1>8
<1> QED BY <1>5, <1>13, <1>14, <1>15, <1>16, <1>17, <1>18 DEF MutexInv

\* rt_mutex_detach, and the test of rt_ipc_list_resume_all that finds a waiter.
LEMMA DetachBeginInv ==
    ASSUME MutexInv, NEW t \in Thread, NEW m \in Mutex, current = t, alive[m],
           owner[m] \in {t, NoThread}, pc[t] \in {"run", "unsched", "detach"},
           \A u \in Thread : pc[u] \in {"detach", "detach_one"} /\ obj[u] = m => u = t,
           obj' = [obj EXCEPT ![t] = m], NEW l \in {"detach", "detach_one"}, Goto(t, l), t # Idle,
           UNCHANGED <<rq, stat, prio, timer, error, defunct, current, lockNest, tgt>>,
           UNCHANGED <<value, owner, hold, orig, waitq, alive, held>>
    PROVE  MutexInv'
<1>1. /\ BlockInv /\ pc \in [Thread -> MutexPc] /\ obj \in [Thread -> Mutex \cup {NoMutex}]
      /\ error \in [Thread -> Error] /\ rq \in ReadyQueue /\ prio \in [Thread -> Prio]
      /\ RqOK(rq, ReadyThreads, prio)
  BY DEF MutexInv, BlockInv, MutexTypeOK, CoreTypeOK
<1>2. BlockInv'
  <2>1. pc[t] \notin SuspendLabel \cup {"startup"} /\ l \in BlockLabel \ (SuspendLabel \cup {"startup"})
    BY MutexLabels DEF SuspendLabel
  <2> QED BY <1>1, <2>1, BlockLocal
<1>3. /\ pc' \in [Thread -> MutexPc] /\ pc'[t] = l /\ obj'[t] = m
      /\ obj' \in [Thread -> Mutex \cup {NoMutex}]
      /\ \A u \in Thread : u # t => pc'[u] = pc[u] /\ obj'[u] = obj[u]
  BY <1>1 DEF Goto, MutexPc
<1>4. \A u \in Thread, k \in Mutex : (Waiting(u, k)' <=> Waiting(u, k)) /\ (Granted(u, k)' <=> Granted(u, k))
  BY <1>3 DEF Waiting, Granted
<1>5. MutexTypeOK' /\ OwnerOK'
  BY <1>2, <1>3 DEF MutexInv, MutexTypeOK, BlockInv, OwnerOK
<1>6. WaitersOK' /\ MutualExclusion' /\ AnswerOK'
  BY <1>4 DEF MutexInv, WaitersOK, MutualExclusion, AnswerOK
<1>7. ObjOK'
  BY <1>3, MutexAssumption DEF MutexInv, ObjOK
<1>8. DetachOK'
  <2> SUFFICES ASSUME NEW u \in Thread, pc'[u] \in {"detach", "detach_one"}
               PROVE  /\ alive[obj'[u]] /\ owner[obj'[u]] \in {u, NoThread}
                      /\ \A v \in Thread : pc'[v] \in {"detach", "detach_one"} /\ obj'[v] = obj'[u] => v = u
    BY DEF DetachOK
  <2>1. CASE u = t
    BY <2>1, <1>3
  <2>2. CASE u # t
    BY <2>2, <1>3 DEF MutexInv, DetachOK
  <2> QED BY <2>1, <2>2
<1> QED BY <1>2, <1>5, <1>6, <1>7, <1>8 DEF MutexInv

\* The end of rt_mutex_detach: the list is empty, and the object is gone.
LEMMA DetachEndInv ==
    ASSUME MutexInv, NEW t \in Thread, DetachTest(t), waitq[obj[t]] = <<>>
    PROVE  MutexInv'
<1> USE MutexAssumption, ThreadAssumption
<1> DEFINE m == obj[t]
<1>1. /\ t = current /\ pc[t] = "detach" /\ pc' = [pc EXCEPT ![t] = "unsched"]
      /\ alive' = [alive EXCEPT ![m] = FALSE]
      /\ held' = [u \in Thread |-> [held[u] EXCEPT ![m] = 0]]
      /\ obj' = [obj EXCEPT ![t] = NoMutex]
      /\ UNCHANGED <<rq, stat, prio, timer, error, defunct, current, lockNest, tgt>>
      /\ UNCHANGED <<value, owner, hold, orig, waitq>>
  BY DEF DetachTest, At, Goto
<1>2. /\ pc \in [Thread -> MutexPc] /\ obj \in [Thread -> Mutex \cup {NoMutex}]
      /\ held \in [Thread -> [Mutex -> 0..MaxHold]] /\ alive \in [Mutex -> BOOLEAN]
      /\ m \in Mutex /\ alive[m] /\ owner[m] \in {t, NoThread} /\ BlockInv
  BY <1>1 DEF MutexInv, MutexTypeOK, ObjOK, DetachOK
<1>3. waitq[m] = <<>>
  OBVIOUS
<1> HIDE DEF m
<1>4. BlockInv'
  <2>1. /\ rq' \in ReadyQueue /\ RqOK(rq', ReadyThreads, prio')
        /\ prio' \in [Thread -> Prio] /\ error' \in [Thread -> Error]
    BY <1>1, <1>2 DEF BlockInv, CoreTypeOK
  <2>2. /\ "unsched" \in BlockLabel \ (SuspendLabel \cup {"startup"})
        /\ pc[t] \notin SuspendLabel \cup {"startup"} /\ pc[t] # "run"
    BY <1>1, MutexLabels
  <2>3. t # Idle
    BY <1>1, <1>2, <2>2, BlockRunning
  <2> QED BY <1>1, <1>2, <2>1, <2>2, <2>3, BlockLocal DEF Goto
<1>5. /\ pc' \in [Thread -> MutexPc] /\ pc'[t] = "unsched" /\ obj'[t] = NoMutex
      /\ obj' \in [Thread -> Mutex \cup {NoMutex}]
      /\ \A u \in Thread : u # t => pc'[u] = pc[u] /\ obj'[u] = obj[u]
      /\ alive' \in [Mutex -> BOOLEAN] /\ ~alive'[m] /\ \A k \in Mutex : k # m => alive'[k] = alive[k]
  BY <1>1, <1>2 DEF MutexPc
<1>6. /\ held' \in [Thread -> [Mutex -> 0..MaxHold]]
      /\ \A u \in Thread, k \in Mutex : held'[u][k] = IF k = m THEN 0 ELSE held[u][k]
  BY <1>1, <1>2
<1>7. \A u \in Thread, k \in Mutex : (Waiting(u, k)' <=> Waiting(u, k)) /\ (Granted(u, k)' <=> Granted(u, k))
  BY <1>1, <1>5 DEF Waiting, Granted
<1>8. MutexTypeOK'
  BY <1>1, <1>4, <1>5, <1>6 DEF MutexInv, MutexTypeOK, BlockInv
<1>9. WaitersOK'
  BY <1>1, <1>7 DEF MutexInv, WaitersOK
<1>10. MutualExclusion'
  <2> SUFFICES ASSUME NEW k \in Mutex, NEW u \in Thread, alive'[k]
               PROVE  /\ held'[u][k] > 0 => owner[k] = u
                      /\ owner[k] = u => hold[k] = held'[u][k] + (IF Granted(u, k)' THEN 1 ELSE 0)
                      /\ (Waiting(u, k)' /\ stat[u] = "ready" /\ error[u] = "EOK") => owner[k] = u
    BY <1>1 DEF MutualExclusion
  <2>1. k # m /\ alive[k]
    BY <1>5
  <2>2. held'[u][k] = held[u][k] /\ (Granted(u, k)' <=> Granted(u, k)) /\ (Waiting(u, k)' <=> Waiting(u, k))
    BY <2>1, <1>6, <1>7
  <2> QED BY <2>1, <2>2 DEF MutexInv, MutualExclusion
<1>11. OwnerOK'
  <2>1. ASSUME NEW k \in Mutex
        PROVE  ~alive'[k] => \A u \in Thread : held'[u][k] = 0
    <3>1. CASE k = m
      BY <3>1, <1>2, <1>6
    <3>2. CASE k # m
      <4>1. \A u \in Thread : held'[u][k] = held[u][k]
        BY <3>2, <1>6
      <4> QED BY <3>2, <4>1, <1>5 DEF MutexInv, OwnerOK
    <3> QED BY <3>1, <3>2
  <2> QED BY <2>1, <1>1 DEF MutexInv, OwnerOK
<1>12. AnswerOK'
  <2> SUFFICES ASSUME NEW u \in Thread, NEW k \in Mutex, Waiting(u, k)
      PROVE  /\ held'[u][k] = 0 /\ MaxHold > 0
             /\ stat[u] = "suspend" => alive'[k] /\ error[u] = "EOK" /\ owner[k] # u
             /\ owner[k] = u => alive'[k] /\ error[u] = "EOK"
             /\ stat[u] = "ready" /\ error[u] = "EOK" => owner[k] = u
             /\ stat[u] # "init"
    BY <1>1, <1>7 DEF AnswerOK
  <2>1. /\ held[u][k] = 0 /\ MaxHold > 0
        /\ stat[u] = "suspend" => alive[k] /\ error[u] = "EOK" /\ owner[k] # u
        /\ owner[k] = u => alive[k] /\ error[u] = "EOK"
        /\ stat[u] = "ready" /\ error[u] = "EOK" => owner[k] = u
        /\ stat[u] # "init"
    BY DEF MutexInv, AnswerOK
  <2>2. CASE k # m
    BY <2>1, <2>2, <1>5, <1>6
  <2>3. CASE k = m
    <3>1. ~Contains(waitq[m], u)
      BY <1>3 DEF Contains
    <3>2. stat[u] # "suspend"
      BY <2>3, <3>1 DEF MutexInv, WaitersOK
    <3>3. u # t
      BY <1>1 DEF Waiting
    <3> QED BY <2>1, <2>3, <3>2, <3>3, <1>2, <1>6
  <2> QED BY <2>2, <2>3
<1>13. ObjOK'
  BY <1>1, <1>5 DEF MutexInv, ObjOK
<1>14. DetachOK'
  <2> SUFFICES ASSUME NEW u \in Thread, pc'[u] \in {"detach", "detach_one"}
               PROVE  alive'[obj'[u]] /\ owner[obj'[u]] \in {u, NoThread}
    BY <1>1, <1>5 DEF MutexInv, DetachOK
  <2>1. u # t /\ pc[u] \in {"detach", "detach_one"} /\ obj'[u] = obj[u]
    BY <1>5
  <2>2. /\ alive[obj[u]] /\ owner[obj[u]] \in {u, NoThread} /\ obj[u] \in Mutex
        /\ obj[t] = obj[u] => t = u
    BY <2>1, <1>1 DEF MutexInv, DetachOK, ObjOK, MutexTypeOK
  <2> QED BY <2>1, <2>2, <1>2, <1>5 DEF m
<1> QED BY <1>4, <1>8, <1>9, <1>10, <1>11, <1>12, <1>13, <1>14 DEF MutexInv

\* One waiter of a mutex that is being detached is woken with -RT_ERROR.
LEMMA DetachOneInv ==
    ASSUME MutexInv, NEW t \in Thread, DetachOne(t)
    PROVE  MutexInv'
<1> USE MutexAssumption, ThreadAssumption
<1> DEFINE m == obj[t]  w == Head(waitq[m])
<1>1. /\ t = current /\ pc[t] = "detach_one" /\ waitq[m] # <<>>
      /\ error' = [error EXCEPT ![w] = "ERROR"] /\ rt_ipc_list_resume(m, rq, prio[w])
      /\ Goto(t, "detach") /\ UNCHANGED <<prio, defunct, current, lockNest, tgt>>
      /\ UNCHANGED <<value, owner, hold, orig, alive, obj, held>>
  BY DEF DetachOne, At, DetachError
<1>2. /\ pc \in [Thread -> MutexPc] /\ m \in Mutex /\ alive[m] /\ owner[m] # NoThread /\ BlockInv
      /\ error \in [Thread -> Error] /\ stat \in [Thread -> Stat]
      /\ rq \in ReadyQueue /\ prio \in [Thread -> Prio] /\ RqOK(rq, ReadyThreads, prio)
      /\ owner \in [Mutex -> Thread \cup {NoThread}]
  BY <1>1 DEF MutexInv, MutexTypeOK, ObjOK, DetachOK, OwnerOK, BlockInv, CoreTypeOK
<1> HIDE DEF m
<1>3. /\ w \in Thread /\ stat[w] = "suspend" /\ Waiting(w, m) /\ pc[w] \in WaitLabel
      /\ error[w] = "EOK" /\ owner[m] # w
      /\ rq' \in ReadyQueue /\ RqOK(rq', ReadyThreads \cup {w}, prio)
      /\ stat' = [stat EXCEPT ![w] = "ready"] /\ timer' = [timer EXCEPT ![w] = FALSE]
      /\ waitq' \in [Mutex -> Seq(Thread)] /\ \A k \in Mutex : k # m => waitq'[k] = waitq[k]
      /\ Distinct(waitq'[m]) /\ \A e : Contains(waitq'[m], e) <=> Contains(waitq[m], e) /\ e # w
  BY <1>1, <1>2, ResumeFacts
<1> HIDE DEF w
<1>4. t # Idle /\ stat[t] = "ready" /\ pc[t] \notin WaitLabel \cup {"startup"}
  <2>1. pc[t] \notin SuspendLabel /\ pc[t] # "run" /\ pc[t] \notin WaitLabel \cup {"startup"}
    BY <1>1, MutexLabels
  <2> QED BY <1>1, <1>2, <2>1, BlockRunning
<1>5. BlockInv'
  <2>1. error' \in [Thread -> Error] /\ prio' \in [Thread -> Prio]
        /\ RqOK(rq', ReadyThreads \cup {w}, prio')
    BY <1>1, <1>2, <1>3 DEF Error
  <2>2. /\ UNCHANGED current /\ pc[current] \notin SuspendLabel \cup {"startup"} /\ current # Idle
        /\ \E l \in BlockLabel \ (WaitLabel \cup {"startup"}) : Goto(current, l)
    BY <1>1, <1>4, MutexLabels
  <2> QED BY <1>1, <1>2, <1>3, <2>1, <2>2, BlockWake
<1>6. /\ pc' \in [Thread -> MutexPc] /\ pc'[t] = "detach" /\ \A u \in Thread : u # t => pc'[u] = pc[u]
      /\ stat'[w] = "ready" /\ error'[w] = "ERROR"
      /\ \A u \in Thread : u # w => stat'[u] = stat[u] /\ error'[u] = error[u]
  BY <1>1, <1>2, <1>3 DEF Goto, MutexPc
<1>7. \A u \in Thread, k \in Mutex : (Waiting(u, k)' <=> Waiting(u, k)) /\ (Granted(u, k)' <=> Granted(u, k))
  BY <1>1, <1>6 DEF Waiting, Granted
<1>8. \A k \in Mutex : Waiting(w, k) => k = m
  BY <1>3 DEF Waiting
<1>9. MutexTypeOK'
  BY <1>1, <1>3, <1>5, <1>6 DEF MutexInv, MutexTypeOK, BlockInv
<1>10. WaitersOK'
  <2> SUFFICES ASSUME NEW k \in Mutex
               PROVE  /\ Distinct(waitq'[k])
                      /\ \A u \in Thread : Contains(waitq'[k], u) <=> Waiting(u, k) /\ stat'[u] = "suspend"
    BY <1>7 DEF WaitersOK
  <2>1. /\ Distinct(waitq[k])
        /\ \A u \in Thread : Contains(waitq[k], u) <=> Waiting(u, k) /\ stat[u] = "suspend"
    BY DEF MutexInv, WaitersOK
  <2>2. CASE k # m
    BY <2>1, <2>2, <1>3, <1>6, <1>8
  <2>3. CASE k = m
    BY <2>1, <2>3, <1>3, <1>6
  <2> QED BY <2>2, <2>3
<1>11. MutualExclusion'
  <2> SUFFICES ASSUME NEW k \in Mutex, NEW u \in Thread, alive[k]
               PROVE  /\ held[u][k] > 0 => owner[k] = u
                      /\ owner[k] = u => hold[k] = held[u][k] + (IF Granted(u, k)' THEN 1 ELSE 0)
                      /\ (Waiting(u, k) /\ stat'[u] = "ready" /\ error'[u] = "EOK") => owner[k] = u
    BY <1>1, <1>7 DEF MutualExclusion
  <2>1. (Granted(u, k)' <=> Granted(u, k)) /\ (stat'[u] = "ready" /\ error'[u] = "EOK"
            => stat[u] = "ready" /\ error[u] = "EOK")
    BY <1>6, <1>7
  <2> QED BY <2>1 DEF MutexInv, MutualExclusion
<1>12. OwnerOK'
  <2>1. ASSUME NEW k \in Mutex
        PROVE  /\ owner[k] # NoThread => stat'[owner[k]] # "init"
               /\ owner[k] = NoThread => waitq'[k] = waitq[k]
    <3>1. owner[k] \in Thread \cup {NoThread} /\ (owner[k] # NoThread => stat[owner[k]] # "init")
      BY <1>2 DEF MutexInv, OwnerOK
    <3> QED BY <3>1, <1>2, <1>3, <1>6
  <2> QED BY <2>1, <1>1 DEF MutexInv, OwnerOK
<1>13. AnswerOK'
  <2> SUFFICES ASSUME NEW u \in Thread, NEW k \in Mutex, Waiting(u, k)
      PROVE  /\ held[u][k] = 0 /\ MaxHold > 0
             /\ stat'[u] = "suspend" => alive[k] /\ error'[u] = "EOK" /\ owner[k] # u
             /\ owner[k] = u => alive[k] /\ error'[u] = "EOK"
             /\ stat'[u] = "ready" /\ error'[u] = "EOK" => owner[k] = u
             /\ stat'[u] # "init"
    BY <1>1, <1>7 DEF AnswerOK
  <2>1. /\ held[u][k] = 0 /\ MaxHold > 0
        /\ stat[u] = "suspend" => alive[k] /\ error[u] = "EOK" /\ owner[k] # u
        /\ owner[k] = u => alive[k] /\ error[u] = "EOK"
        /\ stat[u] = "ready" /\ error[u] = "EOK" => owner[k] = u
        /\ stat[u] # "init"
    BY DEF MutexInv, AnswerOK
  <2>2. CASE u # w
    BY <2>1, <2>2, <1>6
  <2>3. CASE u = w
    BY <2>1, <2>3, <1>3, <1>6, <1>8
  <2> QED BY <2>2, <2>3
<1>14. ObjOK' /\ DetachOK'
  BY <1>1, <1>2, <1>6 DEF MutexInv, ObjOK, DetachOK, m
<1> QED BY <1>5, <1>9, <1>10, <1>11, <1>12, <1>13, <1>14 DEF MutexInv

\* The timer of a waiting or sleeping thread expires.
LEMMA MutexTimeoutInv ==
    ASSUME MutexInv, NEW t \in Thread, MutexTimeout(t)
    PROVE  MutexInv'
<1> USE MutexAssumption, ThreadAssumption
<1>1. /\ BlockInv' /\ stat[t] = "suspend" /\ UNCHANGED pc
      /\ stat' = [stat EXCEPT ![t] = "ready"] /\ error' = [error EXCEPT ![t] = "ETIMEOUT"]
  BY BlockTimeout DEF MutexTimeout, MutexInv
<1>2. /\ waitq' = [k \in Mutex |-> rt_list_remove(waitq[k], t)]
      /\ UNCHANGED <<value, owner, hold, orig, alive, obj, held>>
  BY DEF MutexTimeout
<1>3. /\ stat \in [Thread -> Stat] /\ error \in [Thread -> Error]
      /\ waitq \in [Mutex -> Seq(Thread)] /\ owner \in [Mutex -> Thread \cup {NoThread}]
  BY DEF MutexInv, MutexTypeOK, CoreTypeOK
<1>4. /\ stat'[t] = "ready" /\ error'[t] = "ETIMEOUT"
      /\ \A u \in Thread : u # t => stat'[u] = stat[u] /\ error'[u] = error[u]
  BY <1>1, <1>3
<1>5. ASSUME NEW k \in Mutex
      PROVE  /\ waitq'[k] \in Seq(Thread) /\ Distinct(waitq'[k])
             /\ \A e : Contains(waitq'[k], e) <=> Contains(waitq[k], e) /\ e # t
             /\ waitq[k] = <<>> => waitq'[k] = <<>>
  <2>1. waitq[k] \in Seq(Thread) /\ Distinct(waitq[k]) /\ waitq'[k] = rt_list_remove(waitq[k], t)
    BY <1>2, <1>3 DEF MutexInv, WaitersOK
  <2>2. /\ waitq'[k] \in Seq(Thread) /\ Distinct(waitq'[k])
        /\ \A e : Contains(waitq'[k], e) <=> Contains(waitq[k], e) /\ e # t
    BY <2>1, ListRemove
  <2>3. waitq[k] = <<>> => waitq'[k] = <<>>
    <3>1. waitq[k] = <<>> => ~Contains(waitq[k], t)
      BY DEF Contains
    <3> QED BY <2>1, <3>1, ListRemoveAbsent
  <2> QED BY <2>2, <2>3
<1>6. \A u \in Thread, k \in Mutex : (Waiting(u, k)' <=> Waiting(u, k)) /\ (Granted(u, k)' <=> Granted(u, k))
  BY <1>1, <1>2 DEF Waiting, Granted
<1>7. \A k \in Mutex : Waiting(t, k) => owner[k] # t
  BY <1>1 DEF MutexInv, AnswerOK
<1>8. MutexTypeOK'
  <2>1. waitq' \in [Mutex -> Seq(Thread)]
    BY <1>2, <1>5
  <2> QED BY <2>1, <1>1, <1>2 DEF MutexInv, MutexTypeOK, BlockInv
<1>9. WaitersOK'
  <2> SUFFICES ASSUME NEW k \in Mutex
               PROVE  /\ Distinct(waitq'[k])
                      /\ \A u \in Thread : Contains(waitq'[k], u) <=> Waiting(u, k) /\ stat'[u] = "suspend"
    BY <1>6 DEF WaitersOK
  <2>1. \A u \in Thread : Contains(waitq[k], u) <=> Waiting(u, k) /\ stat[u] = "suspend"
    BY DEF MutexInv, WaitersOK
  <2> QED BY <2>1, <1>4, <1>5
<1>10. MutualExclusion'
  <2> SUFFICES ASSUME NEW k \in Mutex, NEW u \in Thread, alive[k]
               PROVE  /\ held[u][k] > 0 => owner[k] = u
                      /\ owner[k] = u => hold[k] = held[u][k] + (IF Granted(u, k)' THEN 1 ELSE 0)
                      /\ (Waiting(u, k) /\ stat'[u] = "ready" /\ error'[u] = "EOK") => owner[k] = u
    BY <1>2, <1>6 DEF MutualExclusion
  <2>1. (Granted(u, k)' <=> Granted(u, k)) /\ (stat'[u] = "ready" /\ error'[u] = "EOK"
            => stat[u] = "ready" /\ error[u] = "EOK")
    BY <1>4, <1>6
  <2> QED BY <2>1 DEF MutexInv, MutualExclusion
<1>11. OwnerOK'
  <2>1. ASSUME NEW k \in Mutex
        PROVE  /\ owner[k] # NoThread => stat'[owner[k]] # "init"
               /\ owner[k] = NoThread => waitq'[k] = <<>>
    <3>1. /\ owner[k] \in Thread \cup {NoThread} /\ (owner[k] # NoThread => stat[owner[k]] # "init")
          /\ owner[k] = NoThread => waitq[k] = <<>>
      BY <1>3 DEF MutexInv, OwnerOK
    <3> QED BY <3>1, <1>4, <1>5
  <2> QED BY <2>1, <1>2 DEF MutexInv, OwnerOK
<1>12. AnswerOK'
  <2> SUFFICES ASSUME NEW u \in Thread, NEW k \in Mutex, Waiting(u, k)
      PROVE  /\ held[u][k] = 0 /\ MaxHold > 0
             /\ stat'[u] = "suspend" => alive[k] /\ error'[u] = "EOK" /\ owner[k] # u
             /\ owner[k] = u => alive[k] /\ error'[u] = "EOK"
             /\ stat'[u] = "ready" /\ error'[u] = "EOK" => owner[k] = u
             /\ stat'[u] # "init"
    BY <1>2, <1>6 DEF AnswerOK
  <2>1. /\ held[u][k] = 0 /\ MaxHold > 0
        /\ stat[u] = "suspend" => alive[k] /\ error[u] = "EOK" /\ owner[k] # u
        /\ owner[k] = u => alive[k] /\ error[u] = "EOK"
        /\ stat[u] = "ready" /\ error[u] = "EOK" => owner[k] = u
        /\ stat[u] # "init"
    BY DEF MutexInv, AnswerOK
  <2>2. CASE u # t
    BY <2>1, <2>2, <1>4
  <2>3. CASE u = t
    BY <2>1, <2>3, <1>4, <1>7
  <2> QED BY <2>2, <2>3
<1>13. ObjOK' /\ DetachOK'
  BY <1>1, <1>2 DEF MutexInv, ObjOK, DetachOK
<1> QED BY <1>1, <1>8, <1>9, <1>10, <1>11, <1>12, <1>13 DEF MutexInv

\* The steps of the scheduler.
LEMMA MutexSchedInv ==
    ASSUME Disciplined, MutexInv, UNCHANGED mutexVars,
           (\E t \in Thread : SchedCall(t) \/ SchedStep(t)) \/ rt_tick_increase
    PROVE  MutexInv'
<1> USE DEF MutexInv
<1>0. /\ BlockInv /\ pc \in [Thread -> MutexPc] /\ stat \in [Thread -> Stat]
      /\ error \in [Thread -> Error]
  BY DEF MutexTypeOK, CoreTypeOK
<1>1. CASE rt_tick_increase
  BY <1>0, <1>1, BlockTick, MutexFrame
<1>2. ASSUME NEW t \in Thread, SchedCall(t) \/ SchedStep(t) PROVE MutexInv'
  <2>1. ASSUME NEW u \in Thread, rt_thread_startup(t, u) PROVE MutexInv'
    <3>1. BlockInv' /\ u # t /\ pc[u] = "run" /\ pc[t] \in {"run", "unsched"}
      BY <2>1, <1>0, BlockStartup DEF rt_thread_startup, InApp
    <3>2. /\ pc' = [pc EXCEPT ![t] = "startup"] /\ stat' = [stat EXCEPT ![u] = "suspend"]
          /\ UNCHANGED error
      BY <2>1 DEF rt_thread_startup, Goto
    <3> QED BY <1>0, <3>1, <3>2, MutexFrame DEF MutexPc
  <2>2. CASE rt_thread_sleep(t)
    <3>1. BlockInv' /\ pc[t] \in {"run", "unsched"}
      BY <2>2, <1>0, BlockSleep DEF rt_thread_sleep, InApp
    <3>2. /\ pc' = [pc EXCEPT ![t] = "sleep"] /\ stat' = [stat EXCEPT ![t] = "suspend"]
          /\ UNCHANGED error
      BY <2>2 DEF rt_thread_sleep, Goto
    <3> QED BY <1>0, <3>1, <3>2, MutexFrame DEF MutexPc
  <2>3. CASE rt_enter_critical(t) \/ rt_exit_critical(t)
    <3>1. BlockInv' /\ pc[t] \in {"run", "unsched"}
      BY <2>3, <1>0, BlockCritical DEF rt_enter_critical, rt_exit_critical, InApp
    <3>2. /\ UNCHANGED <<stat, error>>
          /\ pc' = pc \/ pc' = [pc EXCEPT ![t] = "sched"] \/ pc' = [pc EXCEPT ![t] = pc[t]]
      BY <2>3 DEF rt_enter_critical, rt_exit_critical, Goto
    <3> QED BY <1>0, <3>1, <3>2, MutexFrame DEF MutexPc
  <2>4. CASE ResumeInsert(t)
    <3>1. /\ BlockInv' /\ tgt[t] \in Thread /\ pc[tgt[t]] = "run" /\ pc[t] = "startup"
          /\ pc' = [pc EXCEPT ![t] = "sched"]
      BY <2>4, <1>0, BlockStarted
    <3>2. stat' = [stat EXCEPT ![tgt[t]] = "ready"] /\ UNCHANGED error
      BY <2>4 DEF ResumeInsert
    <3> QED BY <1>0, <3>1, <3>2, MutexFrame DEF MutexPc
  <2>5. CASE Schedule(t)
    <3>1. BlockInv' /\ pc[t] \in {"sched", "sleep", "exit"} /\ UNCHANGED <<stat, error>>
      BY <2>5, <1>0, BlockSchedule DEF Schedule
    <3>2. \E l \in {"run", "woken"} : pc' = [pc EXCEPT ![t] = l]
      BY <2>5, <1>0 DEF Schedule, Goto, MutexPc
    <3> QED BY <1>0, <3>1, <3>2, MutexFrame DEF MutexPc
  <2>6. CASE SleepReturn(t)
    <3>1. BlockInv' /\ pc[t] = "woken" /\ UNCHANGED stat
      BY <2>6, <1>0, BlockSleepReturn DEF SleepReturn, At
    <3>2. /\ pc' = [pc EXCEPT ![t] = "run"]
          /\ error' = [error EXCEPT ![t] = IF @ = "ETIMEOUT" THEN "EOK" ELSE @]
      BY <2>6 DEF SleepReturn, Goto
    <3> QED BY <1>0, <3>1, <3>2, MutexFrame DEF MutexPc
  <2> QED BY <1>2, <2>1, <2>2, <2>3, <2>4, <2>5, <2>6 DEF SchedCall, SchedStep
<1> QED BY <1>1, <1>2

\* Every step keeps the invariant.
LEMMA MutexNextInv ==
    ASSUME Disciplined, MutexInv, [MutexNext]_vars
    PROVE  MutexInv'
<1>1. ASSUME NEW t \in Thread, NEW m \in Mutex, NEW time \in Times, rt_mutex_take(t, m, time)
      PROVE  MutexInv'
  <2>1. MayTake(t, m, time) /\ InApp(t)
    BY <1>1 DEF rt_mutex_take, MayTake
  <2>2. CASE TakeAgain(t, m) \/ TakeFree(t, m)
    BY <2>1, <2>2, TakeNowInv
  <2>3. CASE TakeRefused(t, m)
    BY <2>1, <2>3, MutexErrorInv
  <2>4. CASE MayBlock /\ TakeWait(t, m, time)
    BY <2>1, <2>4, TakeWaitInv
  <2> QED BY <1>1, <2>2, <2>3, <2>4 DEF rt_mutex_take
<1>2. ASSUME NEW t \in Thread, NEW m \in Mutex, rt_mutex_release(t, m) PROVE MutexInv'
  <2>1. InApp(t) /\ alive[m]
    BY <1>2 DEF rt_mutex_release
  <2> QED BY <1>2, <2>1, MutexErrorInv, ReleaseInnerInv, HandOverInv, ReleaseFreeInv DEF rt_mutex_release
<1>3. ASSUME NEW t \in Thread, NEW m \in Mutex, rt_mutex_detach(t, m) PROVE MutexInv'
  <2>1. /\ current = t /\ alive[m] /\ owner[m] \in {t, NoThread} /\ t # Idle
        /\ pc[t] \in {"run", "unsched", "detach"}
        /\ \A u \in Thread : pc[u] \in {"detach", "detach_one"} /\ obj[u] = m => u = t
        /\ obj' = [obj EXCEPT ![t] = m] /\ Goto(t, "detach")
        /\ UNCHANGED <<rq, stat, prio, timer, error, defunct, current, lockNest, tgt>>
        /\ UNCHANGED <<value, owner, hold, orig, waitq, alive, held>>
    BY <1>3 DEF rt_mutex_detach, InApp, MayDetach, Detaching
  <2>2. "detach" \in {"detach", "detach_one"}
    OBVIOUS
  <2> QED BY <2>1, <2>2, DetachBeginInv
<1>4. ASSUME NEW t \in Thread, DetachTest(t) PROVE MutexInv'
  <2>1. CASE waitq[obj[t]] = <<>>
    BY <1>4, <2>1, DetachEndInv
  <2>2. CASE waitq[obj[t]] # <<>>
    <3>1. /\ current = t /\ pc[t] = "detach" /\ Goto(t, "detach_one") /\ UNCHANGED <<alive, obj, held>>
          /\ UNCHANGED <<rq, stat, prio, timer, error, defunct, current, lockNest, tgt>>
          /\ UNCHANGED <<value, owner, hold, orig, waitq, alive, held>>
      BY <1>4, <2>2 DEF DetachTest, At
    <3>2. /\ obj[t] \in Mutex /\ alive[obj[t]] /\ owner[obj[t]] \in {t, NoThread}
          /\ \A u \in Thread : pc[u] \in {"detach", "detach_one"} /\ obj[u] = obj[t] => u = t
          /\ obj' = [obj EXCEPT ![t] = obj[t]] /\ BlockInv
      BY <3>1 DEF MutexInv, MutexTypeOK, ObjOK, DetachOK
    <3>3. t # Idle
      BY <3>1, <3>2, BlockRunning DEF SuspendLabel
    <3>4. "detach_one" \in {"detach", "detach_one"} /\ pc[t] \in {"run", "unsched", "detach"}
      BY <3>1
    <3> QED BY <3>1, <3>2, <3>3, <3>4, DetachBeginInv
  <2> QED BY <2>1, <2>2
<1>5. ASSUME NEW t \in Thread, MutexCall(t) PROVE MutexInv'
  BY <1>1, <1>2, <1>3, <1>5 DEF MutexCall
<1>6. ASSUME NEW t \in Thread, MutexStep(t) PROVE MutexInv'
  BY <1>4, <1>6, TakeScheduleInv, TakeReturnInv, DetachOneInv DEF MutexStep
<1>7. CASE UNCHANGED vars
  <2>1. UNCHANGED <<schedVars, mutexVars>>
    BY <1>7 DEF vars
  <2>2. BlockInv' /\ pc' \in [Thread -> MutexPc] /\ UNCHANGED <<pc, stat, error, mutexVars>>
    BY <2>1, BlockStutter DEF MutexInv, MutexTypeOK, schedVars
  <2> QED BY <2>2, MutexFrame
<1> QED BY <1>5, <1>6, <1>7, MutexTimeoutInv, MutexSchedInv DEF MutexNext

\* MutexInv is an invariant: whatever order takes, nested takes, releases,
\* timeouts, detaches and clock interrupts come in, with any number of mutexes
\* and threads.
THEOREM MutexInvariant == ASSUME Disciplined PROVE MutexSpec => []MutexInv
<1>1. MutexInit => MutexInv
  BY MutexInitInv
<1>2. MutexInv /\ [MutexNext]_vars => MutexInv'
  BY MutexNextInv
<1> QED BY <1>1, <1>2, PTL DEF MutexSpec

\* Type correctness of rt_mutex_take, rt_mutex_release and rt_mutex_detach: the
\* recursion count does not fall below 0, and value stays 0 or 1.
THEOREM MutexTypeCorrect == ASSUME Disciplined PROVE MutexSpec => []MutexTypeOK
<1>1. MutexInv => MutexTypeOK
  BY DEF MutexInv
<1> QED BY <1>1, MutexInvariant, PTL

\* No wakeup of a mutex is lost: its list holds exactly the unanswered takes.
THEOREM MutexWaiters == ASSUME Disciplined PROVE MutexSpec => []WaitersOK
<1>1. MutexInv => WaitersOK
  BY DEF MutexInv
<1> QED BY <1>1, MutexInvariant, PTL

\* A thread that was told it has the mutex has it, and nobody else does: for any
\* number of threads and mutexes, whatever timeouts and releases race.
THEOREM MutexExclusive == ASSUME Disciplined PROVE MutexSpec => []MutualExclusion
<1>1. MutexInv => MutualExclusion
  BY DEF MutexInv
<1> QED BY <1>1, MutexInvariant, PTL
-----------------------------------------------------------------------------
(* The properties that need a rule of the callers.  A step is quiet when it *)
(* neither gives a mutex to anybody nor takes a waiter in or out: it may    *)
(* start threads, answer a take or count a nested one.                      *)

Quiet ==
    /\ UNCHANGED <<owner, orig, waitq, alive>>
    /\ \A t \in Thread, m \in Mutex : Waiting(t, m)' => Waiting(t, m) /\ (timer'[t] => timer[t])
    /\ \A t \in Thread :
        /\ pc'[t] \in {"detach", "detach_one"} => pc'[t] = pc[t] /\ obj'[t] = obj[t]
        /\ stat[t] # "init" => prio'[t] = prio[t]
        /\ prio'[t] \in {prio[t], InitPrio[t]}

\* The calls that are quiet.
LEMMA QuietCall ==
    ASSUME MutexInv, NEW t \in Thread, NEW m \in Mutex,
           TakeAgain(t, m) \/ TakeRefused(t, m) \/ ReleaseRefused(t, m) \/ ReleaseInner(t, m)
    PROVE  Quiet
<1>1. UNCHANGED <<owner, orig, waitq, alive, prio, timer, pc, obj>>
  BY DEF TakeAgain, TakeRefused, ReleaseRefused, ReleaseInner, mutexVars, schedVars
<1> QED BY <1>1 DEF Quiet, Waiting

\* The rt_schedule and the return of a waiting take are quiet.
LEMMA QuietStep ==
    ASSUME MutexInv, NEW t \in Thread, TakeSchedule(t) \/ TakeReturn(t)
    PROVE  Quiet
<1>1. /\ pc \in [Thread -> MutexPc] /\ obj \in [Thread -> Mutex \cup {NoMutex}] /\ NoMutex \notin Mutex
  BY MutexAssumption DEF MutexInv, MutexTypeOK
<1>2. /\ UNCHANGED <<owner, orig, waitq, alive, prio, timer>>
      /\ \/ pc[t] = "take" /\ pc' = [pc EXCEPT ![t] = "take_chk"] /\ UNCHANGED obj
         \/ pc' = [pc EXCEPT ![t] = "run"] /\ obj' = [obj EXCEPT ![t] = NoMutex]
  BY DEF TakeSchedule, TakeReturn, At, Goto, mutexVars
<1>3. \A u \in Thread, m \in Mutex : Waiting(u, m)' => Waiting(u, m)
  BY <1>1, <1>2 DEF Waiting
<1> QED BY <1>1, <1>2, <1>3 DEF Quiet

\* So are the steps of the scheduler.
LEMMA QuietSched ==
    ASSUME Disciplined, MutexInv, UNCHANGED mutexVars,
           (\E t \in Thread : SchedCall(t) \/ SchedStep(t)) \/ rt_tick_increase \/ UNCHANGED schedVars
    PROVE  Quiet
<1> USE DEF mutexVars
<1>1. /\ pc \in [Thread -> MutexPc] /\ prio \in [Thread -> Prio] /\ timer \in [Thread -> BOOLEAN]
      /\ stat \in [Thread -> Stat]
  BY DEF MutexInv, MutexTypeOK, CoreTypeOK
<1>2. CASE rt_tick_increase \/ UNCHANGED schedVars
  BY <1>2 DEF rt_tick_increase, schedVars, Quiet, Waiting
<1>3. ASSUME NEW t \in Thread, SchedCall(t) \/ SchedStep(t) PROVE Quiet
  <2>1. ASSUME NEW u \in Thread, rt_thread_startup(t, u) PROVE Quiet
    <3>1. /\ pc' = [pc EXCEPT ![t] = "startup"] /\ prio' = [prio EXCEPT ![u] = InitPrio[u]]
          /\ stat[u] = "init" /\ UNCHANGED timer
      BY <2>1 DEF rt_thread_startup, Goto
    <3> QED BY <1>1, <3>1 DEF Quiet, Waiting
  <2>2. CASE rt_thread_sleep(t)
    <3>1. pc' = [pc EXCEPT ![t] = "sleep"] /\ UNCHANGED prio /\ timer' = [timer EXCEPT ![t] = TRUE]
      BY <2>2 DEF rt_thread_sleep, Goto
    <3> QED BY <1>1, <3>1 DEF Quiet, Waiting
  <2>3. CASE rt_enter_critical(t) \/ rt_exit_critical(t)
    <3>1. /\ UNCHANGED <<prio, timer>>
          /\ pc' = pc \/ pc' = [pc EXCEPT ![t] = "sched"] \/ pc' = [pc EXCEPT ![t] = pc[t]]
      BY <2>3 DEF rt_enter_critical, rt_exit_critical, Goto
    <3> QED BY <1>1, <3>1 DEF Quiet, Waiting
  <2>4. CASE ResumeInsert(t)
    <3>1. /\ UNCHANGED <<prio, timer>>
          /\ pc' = [pc EXCEPT ![t] = "sched"] \/ pc' = [pc EXCEPT ![t] = "unsched"]
      BY <2>4 DEF ResumeInsert, Goto
    <3> QED BY <1>1, <3>1 DEF Quiet, Waiting
  <2>5. CASE Schedule(t)
    <3>1. /\ UNCHANGED <<prio, timer>> /\ \E l \in {"run", "woken"} : pc' = [pc EXCEPT ![t] = l]
      BY <2>5, <1>1 DEF Schedule, Goto, MutexPc
    <3> QED BY <1>1, <3>1 DEF Quiet, Waiting
  <2>6. CASE SleepReturn(t)
    <3>1. UNCHANGED <<prio, timer>> /\ pc' = [pc EXCEPT ![t] = "run"]
      BY <2>6 DEF SleepReturn, Goto
    <3> QED BY <1>1, <3>1 DEF Quiet, Waiting
  <2> QED BY <1>3, <2>1, <2>2, <2>3, <2>4, <2>5, <2>6 DEF SchedCall, SchedStep
<1> QED BY <1>2, <1>3

\* The steps that are not quiet.
MutexMoves ==
    \/ \E t \in Thread, m \in Mutex :
        /\ InApp(t) /\ alive[m]
        /\ \/ \E time \in Times :
                MayTake(t, m, time) /\ (TakeFree(t, m) \/ (MayBlock /\ TakeWait(t, m, time)))
           \/ ReleaseHandOver(t, m) \/ ReleaseFree(t, m)
    \/ \E t \in Thread, m \in Mutex : rt_mutex_detach(t, m)
    \/ \E t \in Thread : DetachTest(t) \/ DetachOne(t) \/ MutexTimeout(t)

\* There are no others.
LEMMA MutexCases ==
    ASSUME Disciplined, MutexInv, [MutexNext]_vars
    PROVE  Quiet \/ MutexMoves
<1>1. ASSUME NEW t \in Thread, MutexCall(t) PROVE Quiet \/ MutexMoves
  <2>1. ASSUME NEW m \in Mutex, NEW time \in Times, rt_mutex_take(t, m, time) PROVE Quiet \/ MutexMoves
    <3>1. MayTake(t, m, time) /\ InApp(t) /\ alive[m]
      BY <2>1 DEF rt_mutex_take, MayTake
    <3>2. CASE TakeAgain(t, m) \/ TakeRefused(t, m)
      BY <3>2, QuietCall
    <3>3. CASE TakeFree(t, m) \/ (MayBlock /\ TakeWait(t, m, time))
      <4>1. \E x \in Times : MayTake(t, m, x) /\ (TakeFree(t, m) \/ (MayBlock /\ TakeWait(t, m, x)))
        BY <3>1, <3>3
      <4> QED BY <3>1, <4>1, Zenon DEF MutexMoves
    <3>4. TakeAgain(t, m) \/ TakeFree(t, m) \/ TakeRefused(t, m) \/ (MayBlock /\ TakeWait(t, m, time))
      BY <2>1 DEF rt_mutex_take
    <3> QED BY <3>2, <3>3, <3>4
  <2>2. ASSUME NEW m \in Mutex, rt_mutex_release(t, m) PROVE Quiet \/ MutexMoves
    BY <2>2, QuietCall DEF rt_mutex_release, MutexMoves
  <2> QED BY <1>1, <2>1, <2>2 DEF MutexCall, MutexMoves
<1>2. ASSUME NEW t \in Thread, MutexStep(t) \/ MutexTimeout(t) PROVE Quiet \/ MutexMoves
  BY <1>2, QuietStep DEF MutexStep, MutexMoves
<1>3. CASE UNCHANGED vars
  <2>1. UNCHANGED mutexVars /\ UNCHANGED schedVars
    BY <1>3 DEF vars
  <2> QED BY <2>1, QuietSched
<1> QED BY <1>1, <1>2, <1>3, QuietSched DEF MutexNext
-----------------------------------------------------------------------------
(* Priority inheritance, for callers that take one mutex at a time.  A      *)
(* thread whose mutex was detached stays its owner, with what it inherited. *)

\* A thread owns one live mutex at most, and waits for none but that one.
OneMutex == \A m, k \in Mutex :
    alive[m] /\ alive[k] /\ owner[m] = owner[k] /\ owner[m] # NoThread => m = k
OwnerRuns == \A t \in Thread, m, k \in Mutex : alive[m] /\ owner[m] = t /\ Waiting(t, k) => k = m

\* A mutex gives its owner its own priority back.
OrigOK == \A m \in Mutex : alive[m] /\ owner[m] # NoThread /\ orig[m] # InitPrio[owner[m]]
    => \E k \in Mutex : ~alive[k] /\ owner[k] = owner[m]

PrioInv == OneMutex /\ OwnerRuns /\ OrigOK /\ PriorityRestored

\* A caller that takes a mutex it does not own has no other one.
LEMMA OwnsNothing ==
    ASSUME ~Nested, MutexInv, NEW t \in Thread, NEW m \in Mutex, NEW time,
           MayTake(t, m, time), owner[m] # t
    PROVE  \A k \in Mutex : alive[k] => owner[k] # t
<1> SUFFICES ASSUME NEW k \in Mutex, alive[k], owner[k] = t PROVE FALSE
  OBVIOUS
<1>1. InApp(t) /\ held[t][k] = 0
  BY DEF MayTake
<1>2. held[t][k] \in 1..MaxHold
  BY <1>1, MutexHeld
<1> QED BY <1>1, <1>2

\* A step that gives no mutex to anybody.
LEMMA PrioFrame ==
    ASSUME PrioInv, UNCHANGED <<owner, orig>>,
           \A m \in Mutex : alive'[m] => alive[m],
           \A t \in Thread, m \in Mutex : Waiting(t, m)' => Waiting(t, m),
           \A t \in Thread : prio'[t] \in {prio[t], InitPrio[t]}
    PROVE  PrioInv'
<1>1. OneMutex' /\ OwnerRuns'
  BY DEF PrioInv, OneMutex, OwnerRuns
<1>2. OrigOK'
  BY DEF PrioInv, OrigOK
<1>3. PriorityRestored'
  BY DEF PrioInv, PriorityRestored
<1> QED BY <1>1, <1>2, <1>3 DEF PrioInv

\* Thread w, which owns no live mutex, is made the owner of m.
LEMMA PrioGive ==
    ASSUME PrioInv, NEW w \in Thread, NEW m \in Mutex,
           orig \in [Mutex -> Prio \cup {NoPrio}], owner \in [Mutex -> Thread \cup {NoThread}],
           \A k \in Mutex : alive[k] => owner[k] # w,
           \A k \in Mutex : Waiting(w, k) => k = m,
           owner' = [owner EXCEPT ![m] = w], orig' = [orig EXCEPT ![m] = prio[w]], UNCHANGED alive,
           alive[m],
           \A t \in Thread, k \in Mutex : Waiting(t, k)' => Waiting(t, k)
    PROVE  OneMutex' /\ OwnerRuns' /\ OrigOK'
<1>1. /\ owner'[m] = w /\ orig'[m] = prio[w]
      /\ \A k \in Mutex : k # m => owner'[k] = owner[k] /\ orig'[k] = orig[k]
  OBVIOUS
<1>2. OneMutex'
  BY <1>1 DEF PrioInv, OneMutex
<1>3. OwnerRuns'
  BY <1>1 DEF PrioInv, OwnerRuns
<1>4. OrigOK'
  <2> SUFFICES ASSUME NEW n \in Mutex, alive[n], owner'[n] # NoThread, orig'[n] # InitPrio[owner'[n]]
               PROVE  \E k \in Mutex : ~alive[k] /\ owner'[k] = owner'[n]
    BY DEF OrigOK
  <2>1. CASE n = m
    <3>1. PICK k \in Mutex : owner[k] = w
      BY <2>1, <1>1 DEF PrioInv, PriorityRestored
    <3>2. ~alive[k] /\ k # m
      BY <3>1
    <3> QED BY <2>1, <3>1, <3>2, <1>1
  <2>2. CASE n # m
    <3>1. PICK k \in Mutex : ~alive[k] /\ owner[k] = owner[n]
      BY <2>2, <1>1 DEF PrioInv, OrigOK
    <3> QED BY <2>2, <3>1, <1>1
  <2> QED BY <2>1, <2>2
<1> QED BY <1>2, <1>3, <1>4

\* Every step keeps PrioInv when nobody takes a second mutex.
LEMMA PrioNextInv ==
    ASSUME Disciplined, ~Nested, MutexInv, PrioInv, [MutexNext]_vars
    PROVE  PrioInv'
<1> USE MutexAssumption, ThreadAssumption
<1>0. /\ pc \in [Thread -> MutexPc] /\ obj \in [Thread -> Mutex \cup {NoMutex}]
      /\ owner \in [Mutex -> Thread \cup {NoThread}] /\ orig \in [Mutex -> Prio \cup {NoPrio}]
      /\ prio \in [Thread -> Prio] /\ alive \in [Mutex -> BOOLEAN] /\ BlockInv
      /\ waitq \in [Mutex -> Seq(Thread)]
  BY DEF MutexInv, MutexTypeOK, CoreTypeOK
<1>4. CASE Quiet
  BY <1>4, PrioFrame DEF Quiet
<1>5. ASSUME NEW t \in Thread, NEW m \in Mutex, NEW time, MayTake(t, m, time), TakeFree(t, m)
      PROVE  PrioInv'
  <2>1. /\ owner[m] # t /\ owner' = [owner EXCEPT ![m] = t] /\ orig' = [orig EXCEPT ![m] = prio[t]]
        /\ UNCHANGED <<pc, obj, prio, alive>> /\ InApp(t) /\ alive[m] /\ value[m] > 0
    BY <1>5 DEF TakeFree, Acquire, MayTake
  <2>2. owner[m] = NoThread
    BY <2>1 DEF MutexInv, MutexTypeOK, OwnerOK
  <2>3. /\ \A k \in Mutex : alive[k] => owner[k] # t
        /\ \A k \in Mutex : ~Waiting(t, k)
    BY <1>5, <2>1, OwnsNothing, MutexApp
  <2>4. \A u \in Thread, k \in Mutex : Waiting(u, k)' => Waiting(u, k)
    BY <2>1 DEF Waiting
  <2>5. OneMutex' /\ OwnerRuns' /\ OrigOK'
    BY <1>0, <2>1, <2>3, <2>4, PrioGive
  <2>6. PriorityRestored'
    <3> SUFFICES ASSUME NEW u \in Thread, prio[u] # InitPrio[u] PROVE \E k \in Mutex : owner'[k] = u
      BY <2>1 DEF PriorityRestored
    <3>1. PICK k \in Mutex : owner[k] = u
      BY DEF PrioInv, PriorityRestored
    <3> QED BY <1>0, <2>1, <2>2, <3>1
  <2> QED BY <2>5, <2>6 DEF PrioInv
<1>6. ASSUME NEW t \in Thread, NEW m \in Mutex, NEW time, MayTake(t, m, time), MayBlock,
             TakeWait(t, m, time)
      PROVE  PrioInv'
  <2>1. /\ owner[m] \in Thread /\ owner[m] # t /\ prio' = Inherit(owner[m], prio[t]) /\ InApp(t)
        /\ UNCHANGED <<owner, orig, alive>> /\ pc' = [pc EXCEPT ![t] = "take"]
        /\ obj' = [obj EXCEPT ![t] = m]
    BY <1>6, TakeWaitFacts DEF TakeWait, Goto, MayTake
  <2>2. \A k \in Mutex : alive[k] => owner[k] # t
    BY <1>6, <2>1, OwnsNothing
  <2>3. \A u \in Thread : u # owner[m] => prio'[u] = prio[u]
    <3>1. prio[t] \in Prio
      BY <1>0
    <3> QED BY <1>0, <2>1, <3>1, InheritFacts
  <2>4. \A u \in Thread, k \in Mutex : u # t => (Waiting(u, k)' => Waiting(u, k))
    BY <1>0, <2>1 DEF Waiting
  <2>5. OneMutex' /\ OrigOK'
    BY <2>1 DEF PrioInv, OneMutex, OrigOK
  <2>6. OwnerRuns'
    BY <2>1, <2>2, <2>4 DEF PrioInv, OwnerRuns
  <2>7. PriorityRestored'
    BY <2>1, <2>3 DEF PrioInv, PriorityRestored
  <2> QED BY <2>5, <2>6, <2>7 DEF PrioInv
<1>7. ASSUME NEW t \in Thread, NEW m \in Mutex, InApp(t), alive[m], ReleaseHandOver(t, m) PROVE PrioInv'
  <2> DEFINE w == Head(waitq[m])
  <2>1. /\ owner[m] = t /\ prio' = [prio EXCEPT ![t] = orig[m]] /\ owner' = [owner EXCEPT ![m] = w]
        /\ orig' = [orig EXCEPT ![m] = prio'[w]] /\ waitq[m] # <<>>
        /\ pc' = [pc EXCEPT ![t] = "sched"] /\ UNCHANGED <<obj, alive>>
    BY <1>7 DEF ReleaseHandOver, NeedSchedule, Restored, Goto
  <2>2. w \in Thread /\ Contains(waitq[m], w)
    <3>1. waitq[m] \in Seq(Thread) /\ Distinct(waitq[m])
      BY <1>0 DEF MutexInv, WaitersOK
    <3> QED BY <2>1, <3>1, ListTail
  <2> HIDE DEF w
  <2>3. Waiting(w, m) /\ w # t
    <3>1. Waiting(w, m)
      BY <2>2 DEF MutexInv, WaitersOK
    <3> QED BY <3>1, <1>7, MutexApp
  <2>4. /\ \A k \in Mutex : Waiting(w, k) => k = m
        /\ \A k \in Mutex : alive[k] => owner[k] # w
    BY <2>1, <2>2, <2>3 DEF PrioInv, OwnerRuns, Waiting
  <2>5. orig' = [orig EXCEPT ![m] = prio[w]]
    BY <1>0, <2>1, <2>2, <2>3
  <2>6. \A u \in Thread, k \in Mutex : Waiting(u, k)' => Waiting(u, k)
    BY <1>0, <2>1 DEF Waiting
  <2>7. OneMutex' /\ OwnerRuns' /\ OrigOK'
    BY <1>0, <1>7, <2>1, <2>2, <2>4, <2>5, <2>6, PrioGive
  <2>8. PriorityRestored'
    <3> SUFFICES ASSUME NEW u \in Thread, prio'[u] # InitPrio[u] PROVE \E k \in Mutex : owner'[k] = u
      BY DEF PriorityRestored
    <3>1. CASE u = t
      <4>1. orig[m] # InitPrio[t]
        BY <1>0, <2>1, <3>1
      <4>2. PICK k \in Mutex : ~alive[k] /\ owner[k] = t
        BY <1>7, <2>1, <4>1, ThreadAssumption DEF PrioInv, OrigOK
      <4> QED BY <1>0, <1>7, <2>1, <3>1, <4>2
    <3>2. CASE u # t
      <4>1. prio[u] # InitPrio[u]
        BY <1>0, <2>1, <3>2
      <4>2. PICK k \in Mutex : owner[k] = u
        BY <4>1 DEF PrioInv, PriorityRestored
      <4> QED BY <1>0, <2>1, <3>2, <4>2
    <3> QED BY <3>1, <3>2
  <2> QED BY <2>7, <2>8 DEF PrioInv
<1>8. ASSUME NEW t \in Thread, NEW m \in Mutex, InApp(t), alive[m], ReleaseFree(t, m) PROVE PrioInv'
  <2>1. /\ owner[m] = t /\ prio' = [prio EXCEPT ![t] = orig[m]] /\ owner' = [owner EXCEPT ![m] = NoThread]
        /\ orig' = [orig EXCEPT ![m] = NoPrio] /\ UNCHANGED <<obj, alive>>
        /\ \E l \in {pc[t], "unsched"} : pc' = [pc EXCEPT ![t] = l]
    BY <1>8 DEF ReleaseFree, Restored, Free, Goto
  <2>2. /\ owner'[m] = NoThread
        /\ \A k \in Mutex : k # m => owner'[k] = owner[k] /\ orig'[k] = orig[k]
    BY <1>0, <2>1
  <2>3. \A u \in Thread, k \in Mutex : Waiting(u, k)' => Waiting(u, k)
    BY <1>0, <2>1 DEF Waiting
  <2>4. OneMutex' /\ OwnerRuns'
    BY <2>1, <2>2, <2>3 DEF PrioInv, OneMutex, OwnerRuns
  <2>5. OrigOK'
    <3> SUFFICES ASSUME NEW n \in Mutex, alive[n], owner'[n] # NoThread, orig'[n] # InitPrio[owner'[n]]
                 PROVE  \E k \in Mutex : ~alive[k] /\ owner'[k] = owner'[n]
      BY <2>1 DEF OrigOK
    <3>1. n # m /\ owner'[n] = owner[n] /\ orig'[n] = orig[n]
      BY <2>2
    <3>2. PICK k \in Mutex : ~alive[k] /\ owner[k] = owner[n]
      BY <3>1 DEF PrioInv, OrigOK
    <3> QED BY <1>8, <2>2, <3>1, <3>2
  <2>6. PriorityRestored'
    <3> SUFFICES ASSUME NEW u \in Thread, prio'[u] # InitPrio[u] PROVE \E k \in Mutex : owner'[k] = u
      BY DEF PriorityRestored
    <3>1. CASE u = t
      <4>1. orig[m] # InitPrio[t]
        BY <1>0, <2>1, <3>1
      <4>2. PICK k \in Mutex : ~alive[k] /\ owner[k] = t
        BY <1>8, <2>1, <4>1, ThreadAssumption DEF PrioInv, OrigOK
      <4> QED BY <1>8, <2>2, <3>1, <4>2
    <3>2. CASE u # t
      <4>1. prio[u] # InitPrio[u]
        BY <1>0, <2>1, <3>2
      <4>2. PICK k \in Mutex : owner[k] = u
        BY <4>1 DEF PrioInv, PriorityRestored
      <4> QED BY <2>1, <2>2, <3>2, <4>2
    <3> QED BY <3>1, <3>2
  <2> QED BY <2>4, <2>5, <2>6 DEF PrioInv
<1>9. ASSUME NEW t \in Thread, NEW m \in Mutex, rt_mutex_detach(t, m) PROVE PrioInv'
  <2>1. /\ UNCHANGED <<owner, orig, alive, prio>> /\ pc' = [pc EXCEPT ![t] = "detach"]
        /\ obj' = [obj EXCEPT ![t] = m]
    BY <1>9 DEF rt_mutex_detach, Goto
  <2>2. \A u \in Thread, k \in Mutex : Waiting(u, k)' => Waiting(u, k)
    BY <1>0, <2>1 DEF Waiting
  <2> QED BY <2>1, <2>2, PrioFrame
<1>10. ASSUME NEW t \in Thread, DetachTest(t) PROVE PrioInv'
  <2>1. /\ UNCHANGED <<owner, orig, prio>>
        /\ \/ pc' = [pc EXCEPT ![t] = "detach_one"] /\ UNCHANGED <<obj, alive>>
           \/ /\ pc' = [pc EXCEPT ![t] = "unsched"] /\ obj' = [obj EXCEPT ![t] = NoMutex]
              /\ alive' = [alive EXCEPT ![obj[t]] = FALSE]
    BY <1>10 DEF DetachTest, Goto
  <2>2. \A u \in Thread, k \in Mutex : Waiting(u, k)' => Waiting(u, k)
    BY <1>0, <2>1 DEF Waiting
  <2>3. \A k \in Mutex : alive'[k] => alive[k]
    BY <1>0, <2>1
  <2> QED BY <2>1, <2>2, <2>3, PrioFrame
<1>11. ASSUME NEW t \in Thread, DetachOne(t) PROVE PrioInv'
  <2>1. UNCHANGED <<owner, orig, alive, prio, obj>> /\ pc' = [pc EXCEPT ![t] = "detach"]
    BY <1>11 DEF DetachOne, Goto
  <2>2. \A u \in Thread, k \in Mutex : Waiting(u, k)' => Waiting(u, k)
    BY <1>0, <2>1 DEF Waiting
  <2> QED BY <2>1, <2>2, PrioFrame
<1>12. ASSUME NEW t \in Thread, MutexTimeout(t) PROVE PrioInv'
  <2>1. UNCHANGED <<owner, orig, alive, prio, pc, obj>>
    BY <1>12 DEF MutexTimeout, rt_thread_timeout
  <2> QED BY <2>1, PrioFrame DEF Waiting
<1> QED BY <1>4, <1>5, <1>6, <1>7, <1>8, <1>9, <1>10, <1>11, <1>12, MutexCases DEF MutexMoves

\* PrioInv in the initial state.
LEMMA PrioInitInv == MutexInit => PrioInv
<1> SUFFICES ASSUME MutexInit PROVE PrioInv
  OBVIOUS
<1>1. /\ pc = [t \in Thread |-> "run"] /\ owner = [m \in Mutex |-> NoThread] /\ prio = InitPrio
  BY DEF MutexInit, Init
<1>2. \A t \in Thread, m \in Mutex : ~Waiting(t, m)
  BY <1>1 DEF Waiting
<1> QED BY <1>1, <1>2 DEF PrioInv, OneMutex, OwnerRuns, OrigOK, PriorityRestored

\* What a thread inherited it gives back: with one mutex at a time, a thread that
\* owns none has its own priority, whoever waited, timed out or was handed over to.
THEOREM MutexPriorityRestored == ASSUME Disciplined, ~Nested PROVE MutexSpec => []PriorityRestored
<1>1. MutexInit => MutexInv /\ PrioInv
  BY MutexInitInv, PrioInitInv
<1>2. (MutexInv /\ PrioInv) /\ [MutexNext]_vars => (MutexInv /\ PrioInv)'
  BY MutexNextInv, PrioNextInv
<1>3. MutexInv /\ PrioInv => PriorityRestored
  BY DEF PrioInv
<1> QED BY <1>1, <1>2, <1>3, PTL DEF MutexSpec

\* With RT_IPC_FLAG_PRIO the waiters are in the order of their priorities.
SortedWaiters == \A m \in Mutex : Sorted(waitq[m], prio)

InheritInv == Inheritance /\ SortedWaiters

\* Inheritance, for the members of the lists.
LEMMA InheritMembers ==
    Inheritance <=> \A m \in Mutex : alive[m] =>
        \A e : Contains(waitq[m], e) => prio[owner[m]] <= prio[e]
  BY DEF Inheritance, Contains

\* A step after which every list holds some of its old waiters in their order, and
\* that leaves their priorities and that of the owner alone.
LEMMA InheritFrame ==
    ASSUME InheritInv,
           \A m \in Mutex : /\ Sorted(waitq'[m], prio) /\ (alive'[m] => alive[m])
                            /\ \A e : Contains(waitq'[m], e) =>
                                 /\ Contains(waitq[m], e) /\ prio'[e] = prio[e]
                                 /\ owner'[m] = owner[m]
                                 /\ alive[m] => prio'[owner[m]] = prio[owner[m]]
    PROVE  InheritInv'
<1>1. SortedWaiters'
  <2> SUFFICES ASSUME NEW m \in Mutex PROVE Sorted(waitq'[m], prio')
    BY DEF SortedWaiters
  <2>1. Sorted(waitq'[m], prio) /\ \A e : Contains(waitq'[m], e) => prio'[e] = prio[e]
    OBVIOUS
  <2> QED BY <2>1, SortedCongruence
<1>2. Inheritance'
  <2>1. \A m \in Mutex : alive[m] => \A e : Contains(waitq[m], e) => prio[owner[m]] <= prio[e]
    BY InheritMembers DEF InheritInv
  <2>2. ASSUME NEW m \in Mutex, alive'[m], NEW e, Contains(waitq'[m], e)
        PROVE  prio'[owner'[m]] <= prio'[e]
    <3>1. /\ alive[m] /\ Contains(waitq[m], e) /\ prio'[e] = prio[e] /\ owner'[m] = owner[m]
          /\ prio'[owner[m]] = prio[owner[m]]
      BY <2>2
    <3>2. prio[owner[m]] <= prio[e]
      BY <2>1, <3>1
    <3> QED BY <3>1, <3>2
  <2>4. \A m \in Mutex : \A i \in 1..Len(waitq'[m]) : Contains(waitq'[m], waitq'[m][i])
    BY DEF Contains
  <2> QED BY <2>2, <2>4 DEF Inheritance
<1> QED BY <1>1, <1>2 DEF InheritInv

\* Every step keeps InheritInv when nobody takes a second mutex and the list is in
\* the order of the priorities.
LEMMA InheritNextInv ==
    ASSUME Disciplined, ~Nested, Flag = "PRIO", MutexInv, PrioInv, InheritInv, [MutexNext]_vars
    PROVE  InheritInv'
<1> USE MutexAssumption, ThreadAssumption
<1>0. /\ owner \in [Mutex -> Thread \cup {NoThread}] /\ stat \in [Thread -> Stat]
      /\ prio \in [Thread -> Prio] /\ alive \in [Mutex -> BOOLEAN] /\ BlockInv
      /\ waitq \in [Mutex -> Seq(Thread)]
  BY DEF MutexInv, MutexTypeOK, CoreTypeOK
<1>1. \A m \in Mutex : Sorted(waitq[m], prio) /\ Distinct(waitq[m])
  BY DEF InheritInv, SortedWaiters, MutexInv, WaitersOK
<1>2. \A m \in Mutex : alive[m] => \A e : Contains(waitq[m], e) => prio[owner[m]] <= prio[e]
  BY InheritMembers DEF InheritInv
<1>3. ASSUME NEW m \in Mutex, NEW e, Contains(waitq[m], e)
      PROVE  /\ e \in Thread /\ Waiting(e, m) /\ stat[e] = "suspend"
             /\ owner[m] \in Thread /\ stat[owner[m]] # "init" /\ owner[m] # e
  <2>1. e \in Thread
    BY <1>0, <1>3 DEF Contains
  <2>2. Waiting(e, m) /\ stat[e] = "suspend"
    BY <1>3, <2>1 DEF MutexInv, WaitersOK
  <2>3. waitq[m] # <<>>
    BY <1>3 DEF Contains
  <2>4. owner[m] # NoThread /\ stat[owner[m]] # "init"
    BY <2>3 DEF MutexInv, OwnerOK
  <2>5. owner[m] # e
    BY <2>1, <2>2 DEF MutexInv, AnswerOK
  <2> QED BY <1>0, <2>1, <2>2, <2>4, <2>5
<1>4. CASE Quiet
  <2>1. /\ UNCHANGED <<owner, waitq, alive>>
        /\ \A t \in Thread : stat[t] # "init" => prio'[t] = prio[t]
    BY <1>4 DEF Quiet
  <2> QED BY <1>1, <1>3, <2>1, InheritFrame
<1>5. ASSUME NEW t \in Thread, NEW m \in Mutex, TakeFree(t, m) PROVE InheritInv'
  <2>1. /\ owner' = [owner EXCEPT ![m] = t] /\ UNCHANGED <<prio, waitq, alive>> /\ value[m] > 0
    BY <1>5 DEF TakeFree, Acquire
  <2>2. waitq[m] = <<>>
    BY <2>1 DEF MutexInv, MutexTypeOK, OwnerOK
  <2>3. \A k \in Mutex : \A e : Contains(waitq[k], e) => owner'[k] = owner[k]
    BY <1>0, <2>1, <2>2 DEF Contains
  <2> QED BY <1>1, <2>1, <2>3, InheritFrame
<1>6. ASSUME NEW t \in Thread, NEW m \in Mutex, NEW time, MayTake(t, m, time), MayBlock,
             TakeWait(t, m, time)
      PROVE  InheritInv'
  <2> DEFINE o == owner[m]
  <2>1. /\ o \in Thread /\ o # t /\ prio' = Inherit(o, prio[t]) /\ alive[m]
        /\ prio' \in [Thread -> Prio] /\ prio'[t] = prio[t]
        /\ waitq'[m] = ListInsert(Flag, waitq[m], t, prio')
        /\ \A e : Contains(waitq'[m], e) <=> Contains(waitq[m], e) \/ e = t
        /\ \A k \in Mutex \ {m} : waitq'[k] = waitq[k]
        /\ UNCHANGED <<owner, alive>>
    <3>1. alive[m] /\ UNCHANGED <<owner, alive>>
      BY <1>6 DEF TakeWait, MayTake
    <3>2. /\ owner[m] \in Thread /\ owner[m] # t /\ prio' = Inherit(owner[m], prio[t])
          /\ prio' \in [Thread -> Prio] /\ prio'[t] = prio[t]
          /\ waitq'[m] = ListInsert(Flag, waitq[m], t, prio')
          /\ \A e : Contains(waitq'[m], e) <=> Contains(waitq[m], e) \/ e = t
          /\ \A k \in Mutex \ {m} : waitq'[k] = waitq[k]
      BY <1>6, TakeWaitFacts
    <3> QED BY <3>1, <3>2 DEF o
  <2> HIDE DEF o
  <2>2. /\ prio[t] \in Prio /\ prio[o] \in Nat /\ prio'[o] \in Nat
    BY <1>0, <2>1 DEF Prio
  <2>3. /\ \A u \in Thread : u # o => prio'[u] = prio[u]
        /\ prio'[o] <= prio[t] /\ prio'[o] <= prio[o]
    <3>1. /\ \A u \in Thread \ {o} : Inherit(o, prio[t])[u] = prio[u]
          /\ Inherit(o, prio[t])[o] <= prio[t] /\ Inherit(o, prio[t])[o] <= prio[o]
      BY <1>0, <2>1, <2>2, InheritFacts
    <3> QED BY <2>1, <3>1
  <2>4. \A k \in Mutex : \A e : Contains(waitq[k], e) => e # o /\ prio'[e] = prio[e]
    <3> SUFFICES ASSUME NEW k \in Mutex, NEW e, Contains(waitq[k], e) PROVE e # o /\ prio'[e] = prio[e]
      OBVIOUS
    <3>1. e \in Thread /\ Waiting(e, k) /\ owner[k] # e
      BY <1>3
    <3>2. e # o
      BY <2>1, <3>1 DEF PrioInv, OwnerRuns, o
    <3> QED BY <2>3, <3>1, <3>2
  <2>5. \A k \in Mutex : Sorted(waitq[k], prio')
    BY <1>1, <2>4, SortedCongruence
  <2>6. SortedWaiters'
    <3>1. prio' \in [Thread -> Nat] /\ waitq[m] \in Seq(Thread) /\ Sorted(waitq[m], prio')
      BY <1>0, <2>1, <2>5 DEF Prio
    <3>2. Sorted(PrioInsert(waitq[m], t, prio'), prio')
      BY <3>1, SortedInsert
    <3>3. waitq'[m] = PrioInsert(waitq[m], t, prio')
      BY <2>1 DEF ListInsert
    <3> QED BY <2>1, <2>5, <3>2, <3>3 DEF SortedWaiters
  <2>7. ASSUME NEW k \in Mutex, alive[k], NEW e, Contains(waitq'[k], e)
        PROVE  prio'[owner[k]] <= prio'[e]
    <3>1. CASE k # m
      <4>1. /\ Contains(waitq[k], e) /\ prio'[e] = prio[e] /\ prio[owner[k]] <= prio[e]
            /\ owner[k] \in Thread
        BY <1>2, <1>3, <2>1, <2>4, <2>7, <3>1
      <4>2. owner[k] # o
        BY <2>1, <2>7, <3>1, <4>1 DEF PrioInv, OneMutex, o
      <4> QED BY <2>3, <4>1, <4>2
    <3>2. CASE k = m /\ e = t
      BY <2>1, <2>3, <3>2 DEF o
    <3>3. CASE k = m /\ e # t
      <4>1. /\ Contains(waitq[m], e) /\ prio'[e] = prio[e] /\ prio[o] <= prio[e] /\ e \in Thread
        BY <1>2, <1>3, <2>1, <2>4, <2>7, <3>3 DEF o
      <4>2. prio[e] \in Nat
        BY <1>0, <4>1 DEF Prio
      <4> QED BY <2>2, <2>3, <3>3, <4>1, <4>2 DEF o
    <3> QED BY <3>1, <3>2, <3>3
  <2>8. \A k \in Mutex : \A i \in 1..Len(waitq'[k]) : Contains(waitq'[k], waitq'[k][i])
    BY DEF Contains
  <2>9. Inheritance'
    BY <2>1, <2>7, <2>8 DEF Inheritance
  <2> QED BY <2>6, <2>9 DEF InheritInv
<1>7. ASSUME NEW t \in Thread, NEW m \in Mutex, InApp(t), alive[m], ReleaseHandOver(t, m) PROVE InheritInv'
  <2> DEFINE w == Head(waitq[m])
  <2>1. /\ owner[m] = t /\ prio' = [prio EXCEPT ![t] = orig[m]] /\ owner' = [owner EXCEPT ![m] = w]
        /\ waitq[m] # <<>> /\ waitq' = [waitq EXCEPT ![m] = Tail(waitq[m])] /\ UNCHANGED alive
    BY <1>7 DEF ReleaseHandOver, Restored, rt_ipc_list_resume
  <2>2. waitq[m] \in Seq(Thread) /\ Distinct(waitq[m]) /\ Sorted(waitq[m], prio)
    BY <1>0, <1>1
  <2>3. /\ w \in Thread /\ Contains(waitq[m], w) /\ Tail(waitq[m]) \in Seq(Thread)
        /\ \A e : Contains(Tail(waitq[m]), e) <=> Contains(waitq[m], e) /\ e # w
        /\ Sorted(Tail(waitq[m]), prio) /\ \A e : Contains(waitq[m], e) => prio[w] <= prio[e]
    BY <2>1, <2>2, ListTail, SortedTail, SortedHead
  <2> HIDE DEF w
  <2>4. /\ waitq'[m] = Tail(waitq[m]) /\ owner'[m] = w
        /\ \A k \in Mutex : k # m => waitq'[k] = waitq[k] /\ owner'[k] = owner[k]
    BY <1>0, <2>1, <2>3
  <2>5. \A k \in Mutex : \A e : Contains(waitq[k], e) => e \in Thread /\ e # t /\ prio'[e] = prio[e]
    <3> SUFFICES ASSUME NEW k \in Mutex, NEW e, Contains(waitq[k], e)
                 PROVE  e \in Thread /\ e # t /\ prio'[e] = prio[e]
      OBVIOUS
    <3>1. e \in Thread /\ e # t
      BY <1>3, <1>7, MutexApp
    <3> QED BY <1>0, <2>1, <3>1
  <2>6. \A k \in Mutex : \A e : Contains(waitq'[k], e) => Contains(waitq[k], e)
    BY <2>3, <2>4
  <2>7. SortedWaiters'
    <3> SUFFICES ASSUME NEW k \in Mutex PROVE Sorted(waitq'[k], prio')
      BY DEF SortedWaiters
    <3>1. Sorted(waitq'[k], prio)
      BY <1>1, <2>3, <2>4
    <3>2. \A e : Contains(waitq'[k], e) => prio'[e] = prio[e]
      BY <2>5, <2>6
    <3> QED BY <3>1, <3>2, SortedCongruence
  <2>8. ASSUME NEW k \in Mutex, alive[k], NEW e, Contains(waitq'[k], e)
        PROVE  prio'[owner'[k]] <= prio'[e]
    <3>1. Contains(waitq[k], e) /\ prio'[e] = prio[e]
      BY <2>5, <2>6, <2>8
    <3>2. CASE k = m
      BY <2>3, <2>4, <2>5, <3>1, <3>2
    <3>3. CASE k # m
      <4>1. owner[k] \in Thread /\ prio[owner[k]] <= prio[e]
        BY <1>2, <1>3, <2>8, <3>1
      <4>2. owner[k] # t
        BY <1>7, <2>1, <2>8, <3>3 DEF PrioInv, OneMutex
      <4> QED BY <1>0, <2>1, <2>4, <3>1, <3>3, <4>1, <4>2
    <3> QED BY <3>2, <3>3
  <2>9. \A k \in Mutex : \A i \in 1..Len(waitq'[k]) : Contains(waitq'[k], waitq'[k][i])
    BY DEF Contains
  <2>10. Inheritance'
    BY <2>1, <2>8, <2>9 DEF Inheritance
  <2> QED BY <2>7, <2>10 DEF InheritInv
<1>8. ASSUME NEW t \in Thread, NEW m \in Mutex, InApp(t), alive[m], ReleaseFree(t, m) PROVE InheritInv'
  <2>1. /\ owner[m] = t /\ prio' = [prio EXCEPT ![t] = orig[m]] /\ owner' = [owner EXCEPT ![m] = NoThread]
        /\ waitq[m] = <<>> /\ UNCHANGED <<waitq, alive>>
    BY <1>8 DEF ReleaseFree, Restored, Free
  <2>2. ASSUME NEW k \in Mutex, NEW e, Contains(waitq[k], e)
        PROVE  /\ prio'[e] = prio[e] /\ owner'[k] = owner[k]
               /\ alive[k] => prio'[owner[k]] = prio[owner[k]]
    <3>1. k # m
      BY <2>1, <2>2 DEF Contains
    <3>2. e \in Thread /\ e # t /\ owner[k] \in Thread
      BY <1>3, <1>8, <2>2, MutexApp
    <3>3. alive[k] => owner[k] # t
      BY <1>8, <2>1, <3>1 DEF PrioInv, OneMutex
    <3> QED BY <1>0, <2>1, <3>1, <3>2, <3>3
  <2> QED BY <1>1, <2>1, <2>2, InheritFrame
<1>9. ASSUME NEW t \in Thread, NEW m \in Mutex, rt_mutex_detach(t, m) PROVE InheritInv'
  <2>1. UNCHANGED <<owner, alive, prio, waitq>>
    BY <1>9 DEF rt_mutex_detach
  <2> QED BY <1>1, <2>1, InheritFrame
<1>10. ASSUME NEW t \in Thread, DetachTest(t) PROVE InheritInv'
  <2>1. /\ UNCHANGED <<owner, prio, waitq>>
        /\ UNCHANGED alive \/ alive' = [alive EXCEPT ![obj[t]] = FALSE]
    BY <1>10 DEF DetachTest
  <2>2. \A k \in Mutex : alive'[k] => alive[k]
    BY <1>0, <2>1
  <2> QED BY <1>1, <2>1, <2>2, InheritFrame
<1>11. ASSUME NEW t \in Thread, DetachOne(t) PROVE InheritInv'
  <2> DEFINE m == obj[t]
  <2>1. /\ UNCHANGED <<owner, alive, prio>> /\ waitq[m] # <<>> /\ pc[t] = "detach_one"
        /\ waitq' = [waitq EXCEPT ![m] = Tail(waitq[m])]
    BY <1>11 DEF DetachOne, At, rt_ipc_list_resume
  <2>2. m \in Mutex
    BY <2>1 DEF MutexInv, MutexTypeOK, ObjOK
  <2> HIDE DEF m
  <2>3. waitq[m] \in Seq(Thread) /\ Distinct(waitq[m]) /\ Sorted(waitq[m], prio)
    BY <1>0, <1>1, <2>2
  <2>4. /\ \A e : Contains(Tail(waitq[m]), e) => Contains(waitq[m], e)
        /\ Sorted(Tail(waitq[m]), prio)
    BY <2>1, <2>3, ListTail, SortedTail
  <2>5. \A k \in Mutex : /\ Sorted(waitq'[k], prio)
                         /\ \A e : Contains(waitq'[k], e) => Contains(waitq[k], e)
    BY <1>0, <1>1, <2>1, <2>4
  <2> QED BY <2>1, <2>5, InheritFrame
<1>12. ASSUME NEW t \in Thread, MutexTimeout(t) PROVE InheritInv'
  <2>1. /\ UNCHANGED <<owner, alive, prio>> /\ waitq' = [k \in Mutex |-> rt_list_remove(waitq[k], t)]
    BY <1>12 DEF MutexTimeout, rt_thread_timeout
  <2>2. ASSUME NEW k \in Mutex
        PROVE  /\ Sorted(waitq'[k], prio)
               /\ \A e : Contains(waitq'[k], e) => Contains(waitq[k], e)
    <3>1. waitq[k] \in Seq(Thread) /\ Distinct(waitq[k]) /\ Sorted(waitq[k], prio)
      BY <1>0, <1>1
    <3>2. waitq'[k] = rt_list_remove(waitq[k], t)
      BY <2>1
    <3> QED BY <3>1, <3>2, ListRemove, SortedRemove
  <2> QED BY <2>1, <2>2, InheritFrame
<1> QED BY <1>4, <1>5, <1>6, <1>7, <1>8, <1>9, <1>10, <1>11, <1>12, MutexCases DEF MutexMoves

\* No priority inversion through a mutex: with one mutex at a time and a list in
\* the order of the priorities, the owner is at least as urgent as everybody who
\* waits for it, also right after a hand-over, a timeout or a nested release.
THEOREM MutexInheritance ==
    ASSUME Disciplined, ~Nested, Flag = "PRIO" PROVE MutexSpec => []Inheritance
<1> DEFINE Inv == MutexInv /\ PrioInv /\ InheritInv
<1>1. MutexInit => Inv
  <2> SUFFICES ASSUME MutexInit PROVE InheritInv
    BY MutexInitInv, PrioInitInv
  <2>1. waitq = [m \in Mutex |-> <<>>]
    BY DEF MutexInit
  <2> QED BY <2>1 DEF InheritInv, Inheritance, SortedWaiters, Sorted
<1>2. Inv /\ [MutexNext]_vars => Inv'
  BY MutexNextInv, PrioNextInv, InheritNextInv
<1>3. Inv => Inheritance
  BY DEF InheritInv
<1> HIDE DEF Inv
<1> QED BY <1>1, <1>2, <1>3, PTL DEF MutexSpec

\* The ready queue of a system of mutexes: rt_mutex_take and rt_mutex_release
\* reprioritise a ready owner in it, and the lists and the bits stay right.
THEOREM MutexReadyQueue == ASSUME Disciplined PROVE MutexSpec => []ReadyQueueOK
<1>1. MutexInv => ReadyQueueOK
  <2> SUFFICES ASSUME MutexInv PROVE ReadyQueueOK
    OBVIOUS
  <2>1. BlockInv /\ pc \in [Thread -> MutexPc]
    BY DEF MutexInv, MutexTypeOK
  <2>2. ReadySet = ReadyThreads
    BY <2>1 DEF ReadySet, ReadyThreads, BeingDeleted, MutexPc
  <2> QED BY <2>1, <2>2 DEF ReadyQueueOK, BlockInv
<1> QED BY <1>1, MutexInvariant, PTL
-----------------------------------------------------------------------------
(* Preemption in a system of mutexes.                                       *)

\* NoMissedPreemption, also for a thread that is back from the rt_schedule of a
\* waiting take.
Settled == {"run", "woken", "take_chk"}

MutexPreempt == pc[current] \in Settled /\ lockNest = 0
    => \A t \in ReadyThreads : prio[current] <= prio[t]

\* A step that calls rt_schedule, or leaves the running thread inside a call or with
\* the scheduler locked, or changes no priority and makes nobody ready.
LEMMA PreemptFrame ==
    ASSUME MutexInv', MutexPreempt,
           \/ current' = rt_schedule(rq') /\ UNCHANGED lockNest
           \/ pc'[current'] \notin Settled
           \/ lockNest' # 0
           \/ /\ UNCHANGED <<current, prio, lockNest, stat>>
              /\ pc'[current] \in Settled => pc[current] \in Settled
    PROVE  MutexPreempt'
<1>1. CASE current' = rt_schedule(rq') /\ UNCHANGED lockNest
  <2>1. /\ rq' \in ReadyQueue /\ prio' \in [Thread -> Prio] /\ RqOK(rq', ReadyThreads', prio')
        /\ ReadyThreads' \in SUBSET Thread /\ Idle \in ReadyThreads'
    BY ThreadAssumption DEF MutexInv, BlockInv, CoreTypeOK, RunningOK, ReadyThreads
  <2>2. lockNest = 0 => \A t \in ReadyThreads' : prio'[rt_schedule(rq')] <= prio'[t]
    BY <2>1, ScheduleFacts
  <2> QED BY <1>1, <2>2 DEF MutexPreempt
<1>2. CASE pc'[current'] \notin Settled \/ lockNest' # 0
  BY <1>2 DEF MutexPreempt
<1>3. CASE /\ UNCHANGED <<current, prio, lockNest, stat>>
           /\ pc'[current] \in Settled => pc[current] \in Settled
  BY <1>3 DEF MutexPreempt, ReadyThreads
<1> QED BY <1>1, <1>2, <1>3

\* Every step keeps MutexPreempt.
LEMMA PreemptNextInv ==
    ASSUME Disciplined, MutexInv, MutexInv', MutexPreempt, [MutexNext]_vars
    PROVE  MutexPreempt'
<1>0. /\ pc \in [Thread -> MutexPc] /\ lockNest \in 0..MaxNest /\ MaxNest \in Nat
      /\ prio \in [Thread -> Prio] /\ BlockInv
  BY PrioAssumption DEF MutexInv, MutexTypeOK, CoreTypeOK
<1>1. ASSUME NEW t \in Thread, NEW m \in Mutex, NEW time, rt_mutex_take(t, m, time)
      PROVE  MutexPreempt'
  <2>1. CASE TakeAgain(t, m) \/ TakeFree(t, m) \/ TakeRefused(t, m)
    <3>1. UNCHANGED <<current, prio, lockNest, stat, pc>>
      BY <2>1 DEF TakeAgain, TakeFree, TakeRefused
    <3> QED BY <3>1, PreemptFrame
  <2>2. CASE TakeWait(t, m, time)
    <3>1. t = current /\ UNCHANGED current /\ pc' = [pc EXCEPT ![t] = "take"]
      BY <1>1, <2>2 DEF TakeWait, Goto, rt_mutex_take, MayTake, InApp
    <3>2. pc'[current'] \notin Settled
      BY <1>0, <3>1 DEF Settled
    <3> QED BY <3>2, PreemptFrame
  <2> QED BY <1>1, <2>1, <2>2 DEF rt_mutex_take
<1>2. ASSUME NEW t \in Thread, NEW m \in Mutex, rt_mutex_release(t, m) PROVE MutexPreempt'
  <2>1. t = current
    BY <1>2 DEF rt_mutex_release, InApp
  <2>2. CASE ReleaseRefused(t, m) \/ ReleaseInner(t, m)
    <3>1. UNCHANGED <<current, prio, lockNest, stat, pc>>
      BY <2>2 DEF ReleaseRefused, ReleaseInner, schedVars
    <3> QED BY <3>1, PreemptFrame
  <2>3. CASE ReleaseHandOver(t, m)
    <3>1. UNCHANGED current /\ pc' = [pc EXCEPT ![t] = "sched"]
      BY <2>3 DEF ReleaseHandOver, NeedSchedule, Goto
    <3>2. pc'[current'] \notin Settled
      BY <1>0, <2>1, <3>1 DEF Settled
    <3> QED BY <3>2, PreemptFrame
  <2>4. CASE ReleaseFree(t, m)
    <3>1. /\ UNCHANGED <<current, lockNest, stat>> /\ prio' = [prio EXCEPT ![t] = orig[m]]
          /\ pc' = [pc EXCEPT ![t] = IF orig[m] # prio[t] THEN "unsched" ELSE pc[t]]
      BY <2>4 DEF ReleaseFree, Restored, Goto
    <3>2. CASE orig[m] # prio[t]
      <4>1. pc'[current'] \notin Settled
        BY <1>0, <2>1, <3>1, <3>2 DEF Settled
      <4> QED BY <4>1, PreemptFrame
    <3>3. CASE orig[m] = prio[t]
      <4>1. prio' = prio /\ pc' = pc
        BY <1>0, <3>1, <3>3
      <4> QED BY <3>1, <4>1, PreemptFrame
    <3> QED BY <3>2, <3>3
  <2> QED BY <1>2, <2>2, <2>3, <2>4 DEF rt_mutex_release
<1>3. ASSUME NEW t \in Thread,
             (\E m \in Mutex : rt_mutex_detach(t, m)) \/ DetachTest(t) \/ DetachOne(t)
      PROVE  MutexPreempt'
  <2>1. /\ t = current /\ UNCHANGED current
        /\ \E l \in {"detach", "detach_one", "unsched"} : pc' = [pc EXCEPT ![t] = l]
    BY <1>3 DEF rt_mutex_detach, DetachTest, DetachOne, InApp, At, Goto
  <2>2. pc'[current'] \notin Settled
    BY <1>0, <2>1 DEF Settled
  <2> QED BY <2>2, PreemptFrame
<1>4. ASSUME NEW t \in Thread, TakeReturn(t) \/ SleepReturn(t) PROVE MutexPreempt'
  <2>1. /\ t = current /\ UNCHANGED <<current, prio, lockNest, stat>> /\ pc[t] \in Settled
    BY <1>4 DEF TakeReturn, SleepReturn, At, Settled
  <2> QED BY <2>1, PreemptFrame
<1>5. ASSUME NEW t \in Thread, TakeSchedule(t) \/ Schedule(t) \/ MutexTimeout(t) PROVE MutexPreempt'
  <2>1. current' = rt_schedule(rq') /\ UNCHANGED lockNest
    BY <1>5 DEF TakeSchedule, Schedule, MutexTimeout, rt_thread_timeout
  <2> QED BY <2>1, PreemptFrame
<1>6. ASSUME NEW t \in Thread, SchedCall(t) \/ ResumeInsert(t) PROVE MutexPreempt'
  <2>1. CASE (\E u \in Thread : rt_thread_startup(t, u)) \/ rt_thread_sleep(t) \/ ResumeInsert(t)
    <3>1. /\ t = current /\ UNCHANGED current
          /\ \E l \in {"startup", "sleep", "sched", "unsched"} : pc' = [pc EXCEPT ![t] = l]
      BY <2>1 DEF rt_thread_startup, rt_thread_sleep, ResumeInsert, InApp, At, Goto
    <3>2. pc'[current'] \notin Settled
      BY <1>0, <3>1 DEF Settled
    <3> QED BY <3>2, PreemptFrame
  <2>2. CASE rt_enter_critical(t)
    <3>1. lockNest' # 0
      BY <1>0, <2>2 DEF rt_enter_critical
    <3> QED BY <3>1, PreemptFrame
  <2>3. CASE rt_exit_critical(t)
    <3>1. /\ t = current /\ UNCHANGED current /\ lockNest' = NestAfterExit(lockNest)
          /\ pc' = [pc EXCEPT ![t] = IF lockNest <= 1 THEN "sched" ELSE pc[t]]
      BY <2>3 DEF rt_exit_critical, InApp, Goto
    <3>2. pc'[current'] \notin Settled \/ lockNest' # 0
      BY <1>0, <3>1 DEF Settled, NestAfterExit
    <3> QED BY <3>2, PreemptFrame
  <2> QED BY <1>6, <2>1, <2>2, <2>3 DEF SchedCall
<1>7. CASE rt_tick_increase
  <2>1. current' = rt_schedule(rq') /\ UNCHANGED lockNest
    BY <1>7 DEF rt_tick_increase
  <2> QED BY <2>1, PreemptFrame
<1>8. CASE UNCHANGED vars
  <2>1. UNCHANGED <<current, prio, lockNest, stat, pc>>
    BY <1>8 DEF vars, schedVars
  <2> QED BY <2>1, PreemptFrame
<1>9. ASSUME NEW t \in Thread, MutexCall(t) \/ MutexStep(t) \/ SchedStep(t) PROVE MutexPreempt'
  BY <1>1, <1>2, <1>3, <1>4, <1>5, <1>6, <1>9 DEF MutexCall, MutexStep, SchedStep
<1> QED BY <1>5, <1>6, <1>7, <1>8, <1>9 DEF MutexNext

\* Handing over, inheriting and giving back priorities misses no preemption: a
\* thread back in application code, with the scheduler unlocked, is no less urgent
\* than any ready thread, unless its last call was one the kernel does not follow
\* by rt_schedule (a detach, or a release without a waiter that lowers it).
THEOREM MutexPreemption == ASSUME Disciplined PROVE MutexSpec => []NoMissedPreemption
<1>1. MutexInit => MutexInv /\ MutexPreempt
  <2> SUFFICES ASSUME MutexInit PROVE MutexPreempt
    BY MutexInitInv
  <2>1. SchedInv /\ pc = [t \in Thread |-> "run"]
    BY InitInv DEF MutexInit, Init
  <2>2. ReadySet = ReadyThreads
    BY <2>1 DEF ReadySet, ReadyThreads, BeingDeleted
  <2>3. current \in Thread
    BY <2>1 DEF SchedInv, TypeOK, CoreTypeOK
  <2> QED BY <2>1, <2>2, <2>3 DEF SchedInv, PreemptOK, MutexPreempt
<1>2. (MutexInv /\ MutexPreempt) /\ [MutexNext]_vars => (MutexInv /\ MutexPreempt)'
  BY MutexNextInv, PreemptNextInv
<1>3. MutexInv /\ MutexPreempt => NoMissedPreemption
  <2> SUFFICES ASSUME MutexInv, MutexPreempt PROVE NoMissedPreemption
    OBVIOUS
  <2>1. pc \in [Thread -> MutexPc]
    BY DEF MutexInv, MutexTypeOK
  <2>2. ReadySet = ReadyThreads
    BY <2>1 DEF ReadySet, ReadyThreads, BeingDeleted, MutexPc
  <2> QED BY <2>2 DEF NoMissedPreemption, MutexPreempt, Settled
<1> QED BY <1>1, <1>2, <1>3, PTL DEF MutexSpec
=============================================================================

--------------------------- MODULE RtSchedProofs ---------------------------
(***************************************************************************)
(* Proofs about RtSched.  First what the operations on the ready queue do  *)
(* to RqOK; then that every step keeps the inductive invariant SchedInv,   *)
(* one lemma per action; then the invariants as theorems; last the lemmas  *)
(* on BlockInv that the proofs about the blocking objects share.           *)
(***************************************************************************)
EXTENDS RtSched, RtListProofs

\* RqOK looks at the priorities of the queued threads only.
LEMMA RqCongruence ==
    ASSUME NEW r, NEW S \in SUBSET Thread, NEW pr, NEW pr2,
           RqOK(r, S, pr), \A t \in S : pr2[t] = pr[t]
    PROVE  RqOK(r, S, pr2)
  BY DEF RqOK

\* rt_schedule_insert_thread queues a thread that was not queued.
LEMMA RqInsert ==
    ASSUME NEW r \in ReadyQueue, NEW S \in SUBSET Thread, NEW pr \in [Thread -> Prio],
           NEW t \in Thread, t \notin S, RqOK(r, S, pr)
    PROVE  /\ rt_schedule_insert_thread(r, t, pr[t]) \in ReadyQueue
           /\ RqOK(rt_schedule_insert_thread(r, t, pr[t]), S \cup {t}, pr)
<1> DEFINE p == pr[t]
           n == rt_schedule_insert_thread(r, t, p)
<1>1. p \in Prio /\ r.table \in [Prio -> Seq(Thread)] /\ r.group \in SUBSET Prio
  BY DEF ReadyQueue
<1>2. r.table[p] \in Seq(Thread) /\ Distinct(r.table[p]) /\ ~Contains(r.table[p], t)
  BY <1>1 DEF RqOK
<1> DEFINE l == rt_list_insert_before(r.table[p], t)
<1>3. /\ l \in Seq(Thread) /\ l # <<>> /\ Distinct(l)
      /\ \A e : Contains(l, e) <=> Contains(r.table[p], e) \/ e = t
  BY <1>2, ListInsertBefore
<1>4. n.table = [r.table EXCEPT ![p] = l] /\ n.group = r.group \cup {p}
  BY DEF rt_schedule_insert_thread
<1>5. n = [table |-> n.table, group |-> n.group]
  BY DEF rt_schedule_insert_thread
<1> HIDE DEF l, n, p
<1>6. n.table[p] = l /\ \A q \in Prio : q # p => n.table[q] = r.table[q]
  BY <1>1, <1>4
<1>7. n \in ReadyQueue
  <2>1. n.table \in [Prio -> Seq(Thread)]
    BY <1>1, <1>3, <1>4
  <2>2. n.group \in SUBSET Prio
    BY <1>1, <1>4
  <2> QED BY <2>1, <2>2, <1>5 DEF ReadyQueue
<1>8. RqOK(n, S \cup {t}, pr)
  <2> SUFFICES ASSUME NEW q \in Prio
               PROVE  /\ Distinct(n.table[q])
                      /\ \A u \in Thread :
                            Contains(n.table[q], u) <=> u \in S \cup {t} /\ pr[u] = q
                      /\ q \in n.group <=> n.table[q] # <<>>
    BY DEF RqOK
  <2>1. CASE q = p
    BY <2>1, <1>1, <1>3, <1>4, <1>6 DEF RqOK, p
  <2>2. CASE q # p
    BY <2>2, <1>1, <1>4, <1>6 DEF RqOK, p
  <2> QED BY <2>1, <2>2
<1> QED BY <1>7, <1>8 DEF n, p

\* Unlink takes a thread out of whatever list it is in.
LEMMA UnlinkProperties ==
    ASSUME NEW r \in ReadyQueue, NEW S \in SUBSET Thread, NEW pr, NEW t, RqOK(r, S, pr)
    PROVE  /\ Unlink(r.table, t) \in [Prio -> Seq(Thread)]
           /\ \A q \in Prio :
                /\ Distinct(Unlink(r.table, t)[q])
                /\ \A u \in Thread :
                    Contains(Unlink(r.table, t)[q], u) <=> u \in S /\ u # t /\ pr[u] = q
                /\ ~Contains(r.table[q], t) => Unlink(r.table, t)[q] = r.table[q]
<1>1. ASSUME NEW q \in Prio
      PROVE  /\ Unlink(r.table, t)[q] = rt_list_remove(r.table[q], t)
             /\ r.table[q] \in Seq(Thread) /\ Distinct(r.table[q])
  BY DEF Unlink, ReadyQueue, RqOK
<1>2. ASSUME NEW q \in Prio
      PROVE  /\ rt_list_remove(r.table[q], t) \in Seq(Thread)
             /\ Distinct(rt_list_remove(r.table[q], t))
             /\ \A e : Contains(rt_list_remove(r.table[q], t), e)
                          <=> Contains(r.table[q], e) /\ e # t
             /\ ~Contains(r.table[q], t) => rt_list_remove(r.table[q], t) = r.table[q]
  BY <1>1, ListRemove, ListRemoveAbsent
<1>3. Unlink(r.table, t) \in [Prio -> Seq(Thread)]
  BY <1>2 DEF Unlink
<1>4. ASSUME NEW q \in Prio, NEW u \in Thread
      PROVE  Contains(Unlink(r.table, t)[q], u) <=> u \in S /\ u # t /\ pr[u] = q
  <2>1. Contains(r.table[q], u) <=> u \in S /\ pr[u] = q
    BY DEF RqOK
  <2> QED BY <2>1, <1>1, <1>2
<1> QED BY <1>1, <1>2, <1>3, <1>4

\* Unlinking a thread that is not queued changes nothing.
LEMMA UnlinkAbsent ==
    ASSUME NEW r \in ReadyQueue, NEW S \in SUBSET Thread, NEW pr \in [Thread -> Prio],
           NEW t \in Thread, t \notin S, RqOK(r, S, pr)
    PROVE  Unlink(r.table, t) = r.table /\ [r EXCEPT !.table = Unlink(r.table, t)] = r
<1>1. \A q \in Prio : ~Contains(r.table[q], t)
  BY DEF RqOK
<1>2. \A q \in Prio : rt_list_remove(r.table[q], t) = r.table[q]
  BY <1>1, ListRemoveAbsent
<1>3. r.table \in [Prio -> Seq(Thread)]
  BY DEF ReadyQueue
<1>4. Unlink(r.table, t) = r.table
  BY <1>2, <1>3 DEF Unlink
<1> QED BY <1>4 DEF ReadyQueue

\* rt_schedule_remove_thread takes a thread out of the queue, if it is there.
LEMMA RqRemove ==
    ASSUME NEW r \in ReadyQueue, NEW S \in SUBSET Thread, NEW pr \in [Thread -> Prio],
           NEW t \in Thread, RqOK(r, S, pr)
    PROVE  /\ rt_schedule_remove_thread(r, t, pr[t]) \in ReadyQueue
           /\ RqOK(rt_schedule_remove_thread(r, t, pr[t]), S \ {t}, pr)
<1> DEFINE p == pr[t]
           table == Unlink(r.table, t)
           n == rt_schedule_remove_thread(r, t, p)
<1>1. p \in Prio /\ r.table \in [Prio -> Seq(Thread)] /\ r.group \in SUBSET Prio
  BY DEF ReadyQueue
<1>2. /\ table \in [Prio -> Seq(Thread)]
      /\ \A q \in Prio :
            /\ Distinct(table[q])
            /\ \A u \in Thread : Contains(table[q], u) <=> u \in S /\ u # t /\ pr[u] = q
            /\ ~Contains(r.table[q], t) => table[q] = r.table[q]
  BY UnlinkProperties, ZenonT(30)
<1>3. n = [table |-> table,
           group |-> IF table[p] = <<>> THEN r.group \ {p} ELSE r.group]
  BY DEF rt_schedule_remove_thread
<1> HIDE DEF table, n
<1>4. n.table = table /\ n.group = IF table[p] = <<>> THEN r.group \ {p} ELSE r.group
  BY <1>3
<1>5. n \in ReadyQueue
  BY <1>1, <1>2, <1>3 DEF ReadyQueue
<1>6. ASSUME NEW q \in Prio
      PROVE  q \in n.group <=> n.table[q] # <<>>
  <2>1. q \in r.group <=> r.table[q] # <<>>
    BY DEF RqOK
  <2>2. CASE q # p
    <3>1. ~Contains(r.table[q], t)
      BY <2>2 DEF RqOK
    <3> QED BY <3>1, <2>1, <2>2, <1>2, <1>4
  <2>3. CASE q = p
    <3>1. r.table[p] = <<>> => ~Contains(r.table[p], t)
      BY DEF Contains
    <3>2. r.table[p] = <<>> => table[p] = <<>>
      BY <3>1, <1>1, <1>2
    <3> QED BY <3>2, <2>1, <2>3, <1>4
  <2> QED BY <2>2, <2>3
<1>7. RqOK(n, S \ {t}, pr)
  BY <1>2, <1>4, <1>6 DEF RqOK
<1> QED BY <1>5, <1>7 DEF n

\* The end of a time slice, and rt_thread_yield, move the thread within its list.
LEMMA RqYield ==
    ASSUME NEW r \in ReadyQueue, NEW S \in SUBSET Thread, NEW pr \in [Thread -> Prio],
           NEW t \in Thread, NEW s, RqOK(r, S, pr)
    PROVE  /\ YieldQueue(r, t, s, pr[t]) \in ReadyQueue
           /\ RqOK(YieldQueue(r, t, s, pr[t]), S, pr)
<1> DEFINE p == pr[t]
           table == Unlink(r.table, t)
           l == rt_list_insert_before(table[p], t)
           n == [r EXCEPT !.table = [table EXCEPT ![p] = l]]
<1>1. CASE ~(s = "ready" /\ Shares(r, t, p))
  BY <1>1 DEF YieldQueue
<1>2. CASE s = "ready" /\ Shares(r, t, p)
  <2>1. YieldQueue(r, t, s, p) = n
    BY <1>2 DEF YieldQueue
  <2>2. p \in Prio /\ r.table \in [Prio -> Seq(Thread)] /\ r.group \in SUBSET Prio
    BY DEF ReadyQueue
  <2>3. t \in S /\ r.table[p] # <<>>
    <3>1. Contains(r.table[p], t)
      BY <1>2 DEF Shares
    <3>2. r.table[p] # <<>>
      BY <3>1 DEF Contains
    <3> QED BY <3>1, <3>2, <2>2 DEF RqOK
  <2>4. /\ table \in [Prio -> Seq(Thread)]
        /\ \A q \in Prio :
            /\ Distinct(table[q])
            /\ \A u \in Thread : Contains(table[q], u) <=> u \in S /\ u # t /\ pr[u] = q
            /\ ~Contains(r.table[q], t) => table[q] = r.table[q]
    BY UnlinkProperties, ZenonT(30)
  <2> HIDE DEF table
  <2>5. /\ l \in Seq(Thread) /\ l # <<>> /\ Distinct(l)
        /\ \A e : Contains(l, e) <=> Contains(table[p], e) \/ e = t
    <3>1. table[p] \in Seq(Thread) /\ Distinct(table[p]) /\ ~Contains(table[p], t)
      BY <2>2, <2>4
    <3> QED BY <3>1, ListInsertBefore
  <2>6. /\ n.table = [table EXCEPT ![p] = l] /\ n.group = r.group
        /\ n = [table |-> n.table, group |-> n.group]
    <3>1. r = [table |-> r.table, group |-> r.group]
      BY DEF ReadyQueue
    <3>2. n = [table |-> [table EXCEPT ![p] = l], group |-> r.group]
      BY <3>1
    <3> QED BY <3>2
  <2> HIDE DEF l, n, p
  <2>7. n.table[p] = l /\ \A q \in Prio : q # p => n.table[q] = table[q]
    BY <2>2, <2>4, <2>6
  <2>8. n \in ReadyQueue
    <3>1. n.table \in [Prio -> Seq(Thread)]
      BY <2>2, <2>4, <2>5, <2>6
    <3> QED BY <3>1, <2>2, <2>6 DEF ReadyQueue
  <2>9. ASSUME NEW q \in Prio
        PROVE  /\ Distinct(n.table[q])
               /\ \A u \in Thread : Contains(n.table[q], u) <=> u \in S /\ pr[u] = q
               /\ q \in n.group <=> n.table[q] # <<>>
    <3>1. q \in r.group <=> r.table[q] # <<>>
      BY DEF RqOK
    <3>2. CASE q = p
      BY <3>1, <3>2, <2>2, <2>3, <2>4, <2>5, <2>6, <2>7 DEF p
    <3>3. CASE q # p
      <4>1. ~Contains(r.table[q], t)
        BY <3>3 DEF RqOK, p
      <4>2. table[q] = r.table[q] /\ n.table[q] = table[q]
        BY <4>1, <2>4, <2>7, <3>3
      <4>3. \A u \in Thread : Contains(table[q], u) <=> u \in S /\ pr[u] = q
        BY <4>1, <4>2 DEF RqOK
      <4> QED BY <4>2, <4>3, <3>1, <2>4, <2>6
    <3> QED BY <3>2, <3>3
  <2> QED BY <2>1, <2>8, <2>9 DEF RqOK, p
<1> QED BY <1>1, <1>2

\* rt_thread_control moves a queued thread to the list of its new priority.
LEMMA RqChange ==
    ASSUME NEW r \in ReadyQueue, NEW S \in SUBSET Thread, NEW pr \in [Thread -> Prio],
           NEW t \in Thread, NEW s, NEW p \in Prio, s = "ready" <=> t \in S,
           RqOK(r, S, pr)
    PROVE  /\ ChangePrio(r, t, s, pr[t], p) \in ReadyQueue
           /\ RqOK(ChangePrio(r, t, s, pr[t], p), S, [pr EXCEPT ![t] = p])
<1> DEFINE pr2 == [pr EXCEPT ![t] = p]
           n == rt_schedule_remove_thread(r, t, pr[t])
<1>1. pr2 \in [Thread -> Prio] /\ pr2[t] = p /\ \A u \in S \ {t} : pr2[u] = pr[u]
  OBVIOUS
<1> HIDE DEF pr2
<1>2. CASE s = "ready"
  <2>1. n \in ReadyQueue /\ RqOK(n, S \ {t}, pr)
    BY RqRemove
  <2> HIDE DEF n
  <2>2. RqOK(n, S \ {t}, pr2)
    BY <2>1, <1>1, RqCongruence
  <2>3. /\ rt_schedule_insert_thread(n, t, pr2[t]) \in ReadyQueue
        /\ RqOK(rt_schedule_insert_thread(n, t, pr2[t]), (S \ {t}) \cup {t}, pr2)
    BY <2>1, <2>2, <1>1, RqInsert
  <2>4. (S \ {t}) \cup {t} = S
    BY <1>2
  <2> QED BY <2>3, <2>4, <1>1, <1>2 DEF ChangePrio, n, pr2
<1>3. CASE s # "ready"
  <2>1. RqOK(r, S, pr2)
    BY <1>1, <1>3, RqCongruence
  <2> QED BY <2>1, <1>3 DEF ChangePrio, pr2
<1> QED BY <1>2, <1>3

\* The thread rt_schedule picks is queued and none is more urgent.
LEMMA RqHighest ==
    ASSUME NEW r \in ReadyQueue, NEW S \in SUBSET Thread, NEW pr \in [Thread -> Prio],
           S # {}, RqOK(r, S, pr)
    PROVE  /\ HighestThread(r) \in S
           /\ \A t \in S : pr[HighestThread(r)] <= pr[t]
<1>1. Prio \subseteq Nat /\ r.group \subseteq Prio
  BY DEF Prio, ReadyQueue
<1>2. ASSUME NEW t \in S PROVE pr[t] \in r.group
  <2>1. Contains(r.table[pr[t]], t) /\ pr[t] \in Prio
    BY DEF RqOK
  <2>2. r.table[pr[t]] # <<>>
    BY <2>1 DEF Contains
  <2> QED BY <2>1, <2>2 DEF RqOK
<1>3. \E p \in r.group : \A q \in r.group : p <= q
  BY <1>1, <1>2, LeastNat
<1>4. HighestPrio(r) \in r.group /\ \A q \in r.group : HighestPrio(r) <= q
  BY <1>3 DEF HighestPrio
<1> DEFINE p == HighestPrio(r)
           l == r.table[p]
<1>5. p \in Prio /\ l \in Seq(Thread) /\ l # <<>>
  BY <1>1, <1>4 DEF ReadyQueue, RqOK
<1> HIDE DEF p
<1>6. Len(l) \in Nat /\ Len(l) >= 1 /\ Head(l) = l[1] /\ Head(l) \in Thread
  BY <1>5
<1>7. Contains(l, Head(l))
  BY <1>6 DEF Contains
<1>8. Head(l) \in S /\ pr[Head(l)] = p
  BY <1>5, <1>6, <1>7 DEF RqOK
<1> QED BY <1>2, <1>4, <1>8 DEF HighestThread, p
\* rt_ipc_list_resume_all queues every thread of the list: the recursion of
\* InsertAll has a solution, and each of its steps inserts one more thread.
LEMMA RqInsertAll ==
    ASSUME NEW r \in ReadyQueue, NEW S \in SUBSET Thread, NEW pr \in [Thread -> Prio],
           RqOK(r, S, pr), NEW l \in Seq(Thread), Distinct(l),
           \A t \in S : ~Contains(l, t)
    PROVE  /\ InsertAll(r, l, pr) \in ReadyQueue
           /\ RqOK(InsertAll(r, l, pr), S \cup {t \in Thread : Contains(l, t)}, pr)
<1> DEFINE N == Len(l)
           Step(x, n) == rt_schedule_insert_thread(x, l[n], pr[l[n]])
           Body(f, n) == IF n = 0 THEN r ELSE Step(f[n - 1], n)
           Up(k) == S \cup {t \in Thread : \E i \in 1..k : l[i] = t}
           Good(x, k) == x \in ReadyQueue /\ RqOK(x, Up(k), pr)
           Solves(f, m) == f = [n \in 0..m |-> Body(f, n)]
           Fine(f, m) == Solves(f, m) /\ \A k \in 0..m : Good(f[k], k)
<1>0. N \in Nat /\ \A i \in 1..N : l[i] \in Thread /\ pr[l[i]] \in Prio
  OBVIOUS
<1>1. ASSUME NEW x, NEW k \in 1..N, Good(x, k - 1) PROVE Good(Step(x, k), k)
  <2>1. Up(k - 1) \in SUBSET Thread /\ l[k] \in Thread
    BY <1>0
  <2>2. l[k] \notin Up(k - 1)
    BY <1>0 DEF Distinct, Contains
  <2>3. Up(k) = Up(k - 1) \cup {l[k]}
    <3>1. \A i : i \in 1..k <=> i \in 1..(k - 1) \/ i = k
      BY <1>0
    <3> QED BY <3>1, <2>1
  <2> HIDE DEF Up
  <2> QED BY <1>1, <2>1, <2>2, <2>3, RqInsert
<1>2. Good(r, 0)
  <2>1. Up(0) = S
    OBVIOUS
  <2> QED BY <2>1
<1> HIDE DEF N, Step, Good, Up
<1>3. ASSUME NEW m \in 0..N PROVE \E f : Fine(f, m)
  <2> DEFINE G == {n \in 0..N : ~ \E f : Fine(f, n)}
  <2>1. ASSUME G # {} PROVE FALSE
    <3>1. G \in SUBSET Nat
      BY <1>0
    <3>2. PICK n \in G : \A q \in G : n <= q
      BY <2>1, <3>1, LeastNat
    <3>3. CASE n = 0
      <4> DEFINE f == [k \in 0..0 |-> r]
      <4>1. f = [k \in 0..0 |-> Body(f, k)]
        OBVIOUS
      <4>2. \A k \in 0..0 : Good(f[k], k)
        BY <1>2
      <4>3. Fine(f, 0)
        BY <4>1, <4>2
      <4> QED BY <3>2, <3>3, <4>3
    <3>4. CASE n # 0
      <4>1. n \in 1..N /\ n - 1 \in 0..N /\ ~(n <= n - 1)
        BY <1>0, <3>4
      <4>2. n - 1 \notin G
        BY <4>1, <3>2
      <4>3. PICK g : Fine(g, n - 1)
        BY <4>1, <4>2
      <4> DEFINE f == [k \in 0..n |-> IF k = n THEN Step(g[n - 1], n) ELSE g[k]]
      <4>4. \A k \in 0..n : k # n => k \in 0..(n - 1) /\ (k # 0 => k - 1 \in 0..(n - 1))
        BY <4>1
      <4>5. \A k \in 0..(n - 1) : k \in 0..n /\ k # n /\ f[k] = g[k]
        BY <4>1
      <4>6. ASSUME NEW k \in 0..n PROVE f[k] = Body(f, k)
        <5>1. CASE k = n
          <6>1. f[k] = Step(g[n - 1], n) /\ f[n - 1] = g[n - 1] /\ n # 0
            BY <4>1, <4>5, <5>1
          <6> QED BY <6>1, <5>1
        <5>2. CASE k # n
          <6>1. k \in 0..(n - 1) /\ (k # 0 => k - 1 \in 0..(n - 1))
            BY <4>4, <5>2
          <6>2. g[k] = Body(g, k)
            BY <6>1, <4>3
          <6> HIDE DEF f
          <6>3. f[k] = g[k] /\ (k # 0 => f[k - 1] = g[k - 1])
            BY <6>1, <4>5
          <6> QED BY <6>2, <6>3
        <5> QED BY <5>1, <5>2
      <4>7. Solves(f, n)
        <5>1. f = [k \in 0..n |-> f[k]]
          OBVIOUS
        <5> HIDE DEF f
        <5> QED BY <5>1, <4>6
      <4>8. ASSUME NEW k \in 0..n PROVE Good(f[k], k)
        <5>1. CASE k = n
          <6>1. n - 1 \in 0..(n - 1) /\ f[k] = Step(g[n - 1], n)
            BY <4>1, <5>1
          <6>2. Good(g[n - 1], n - 1)
            BY <6>1, <4>3
          <6> QED BY <6>1, <6>2, <4>1, <1>1, <5>1
        <5>2. CASE k # n
          <6>1. k \in 0..(n - 1) /\ f[k] = g[k]
            BY <4>4, <4>5, <5>2
          <6> QED BY <6>1, <4>3
        <5> QED BY <5>1, <5>2
      <4>9. Fine(f, n)
        BY <4>7, <4>8
      <4> QED BY <3>2, <4>9
    <3> QED BY <3>3, <3>4
  <2> QED BY <2>1
<1> DEFINE h == CHOOSE f : Solves(f, N)
<1>4. N \in 0..N /\ Solves(h, N)
  <2>1. N \in 0..N
    BY <1>0
  <2>2. \E f : Solves(f, N)
    BY <1>3, <2>1
  <2> HIDE DEF Solves
  <2> QED BY <2>1, <2>2
<1>5. InsertAll(r, l, pr) = h[N]
  BY DEF InsertAll, N, Step
<1> HIDE DEF h
<1>6. \A k \in 0..N : Good(h[k], k)
  <2> DEFINE G == {k \in 0..N : ~Good(h[k], k)}
  <2>1. ASSUME G # {} PROVE FALSE
    <3>1. G \in SUBSET Nat
      BY <1>0
    <3>2. PICK n \in G : \A q \in G : n <= q
      BY <2>1, <3>1, LeastNat
    <3>3. h[n] = Body(h, n)
      BY <1>4
    <3>4. n # 0
      BY <3>2, <3>3, <1>2
    <3>5. n \in 1..N /\ n - 1 \in 0..N /\ ~(n <= n - 1)
      BY <1>0, <3>4
    <3>6. Good(h[n - 1], n - 1)
      BY <3>2, <3>5
    <3> QED BY <3>2, <3>3, <3>4, <3>5, <3>6, <1>1
  <2> QED BY <2>1
<1>7. Up(N) = S \cup {t \in Thread : Contains(l, t)}
  BY DEF Up, N, Contains
<1> QED BY <1>4, <1>5, <1>6, <1>7 DEF Good
-----------------------------------------------------------------------------
\* A thread that runs application code is queued and in nobody's call.
LEMMA AppFacts ==
    ASSUME SchedInv, NEW t \in Thread, InApp(t)
    PROVE  /\ t # Idle /\ t = current /\ t \in ReadySet /\ stat[t] = "ready"
           /\ tgt[t] = NoThread /\ ~timer[t]
           /\ \A v \in Thread : tgt[v] # t
<1>1. t # Idle /\ t = current /\ pc[t] \in {"run", "unsched"}
  BY DEF InApp
<1>2. t \in ReadySet /\ stat[t] = "ready" /\ ~BeingDeleted(t)
  BY <1>1 DEF SchedInv, CurrentOK, DeletesItself, ReadySet
<1>3. tgt[t] = NoThread
  BY <1>1 DEF SchedInv, TargetOK, Targeting
<1>4. ASSUME NEW v \in Thread, tgt[v] = t PROVE FALSE
  <2>1. pc[v] \in Targeting
    BY <1>4, ThreadAssumption DEF SchedInv, TargetOK
  <2>2. pc[v] \notin {"del_timer", "del_close"}
    BY <1>2, <1>4 DEF BeingDeleted
  <2> QED BY <2>1, <2>2, <1>1, <1>2, <1>4 DEF SchedInv, TargetOK, Targeting
<1>5. ~timer[t]
  BY <1>2 DEF SchedInv, TimerOK
<1> QED BY <1>1, <1>2, <1>3, <1>4, <1>5

\* The idle thread is always queued.
LEMMA IdleReady ==
    ASSUME SchedInv
    PROVE  Idle \in ReadySet
  BY ThreadAssumption DEF SchedInv, IdleOK, TargetOK, ReadySet, BeingDeleted

\* rt_schedule on a correct queue that holds the idle thread.
LEMMA ScheduleFacts ==
    ASSUME NEW r \in ReadyQueue, NEW S \in SUBSET Thread, NEW pr \in [Thread -> Prio],
           Idle \in S, RqOK(r, S, pr)
    PROVE  /\ lockNest = 0 => /\ rt_schedule(r) \in S
                              /\ \A t \in S : pr[rt_schedule(r)] <= pr[t]
           /\ lockNest # 0 => rt_schedule(r) = current
  BY RqHighest DEF rt_schedule

\* The initial state satisfies the invariant: the two ready threads are linked, each in its list.
LEMMA InitInv == Init => SchedInv
<1> SUFFICES ASSUME Init PROVE SchedInv
  OBVIOUS
<1> USE ThreadAssumption, PrioAssumption
<1>1. ReadySet = {Main, Idle}
  BY DEF Init, ReadySet, BeingDeleted
<1>2. EmptyRq \in ReadyQueue /\ RqOK(EmptyRq, {}, InitPrio)
  BY DEF EmptyRq, ReadyQueue, RqOK, Distinct, Contains
<1> DEFINE r1 == rt_schedule_insert_thread(EmptyRq, Main, InitPrio[Main])
<1>3. r1 \in ReadyQueue /\ RqOK(r1, {} \cup {Main}, InitPrio)
  BY <1>2, RqInsert
<1> HIDE DEF r1
<1>4. /\ rt_schedule_insert_thread(r1, Idle, InitPrio[Idle]) \in ReadyQueue
      /\ RqOK(rt_schedule_insert_thread(r1, Idle, InitPrio[Idle]), {Main} \cup {Idle}, InitPrio)
  BY <1>3, RqInsert
<1>5. rq \in ReadyQueue /\ RqOK(rq, {Main, Idle}, prio)
  BY <1>4 DEF Init, r1
<1>6. TypeOK
  BY <1>5 DEF TypeOK, CoreTypeOK, Init, Stat, Error, SchedPc
<1>7. ReadyQueueOK
  BY <1>1, <1>5 DEF ReadyQueueOK
<1>8. TargetOK /\ TimerOK /\ IdleOK
  BY DEF Init, TargetOK, Targeting, TimerOK, IdleOK
<1>9. CurrentOK
  BY <1>1 DEF Init, CurrentOK
<1>10. PreemptOK
  BY <1>1, <1>6 DEF Init, PreemptOK, TypeOK, CoreTypeOK, Prio
<1>11. DefunctOK
  BY DEF Init, DefunctOK, Distinct, Contains
<1> QED BY <1>6, <1>7, <1>8, <1>9, <1>10, <1>11 DEF SchedInv

\* rt_thread_create and rt_thread_init touch only a thread that nobody uses.
LEMMA CreateInv ==
    ASSUME Disciplined, SchedInv, NEW t \in Thread, NEW u \in Thread,
           rt_thread_create(t, u) \/ rt_thread_init(t, u)
    PROVE  SchedInv'
<1> USE ThreadAssumption, PrioAssumption DEF SchedInv, TypeOK, CoreTypeOK, ThreadInit, rt_timer_stop
<1>0. /\ InApp(t) /\ MayManage(t, u) /\ ThreadInit(u)
      /\ stat[u] = "free" \/ (stat[u] = "close" /\ u \in Static /\ ~Contains(defunct, u))
  BY DEF rt_thread_create, rt_thread_init
<1>1. /\ t # Idle /\ t = current /\ t \in ReadySet /\ stat[t] = "ready"
      /\ tgt[t] = NoThread /\ \A v \in Thread : tgt[v] # t
  BY <1>0, AppFacts
<1>2. /\ u # Idle /\ u # t /\ tgt[u] = NoThread /\ ~timer[u]
      /\ \A v \in Thread : tgt[v] # u
  BY <1>0, <1>1 DEF MayManage, TimerOK
<1>3. TypeOK'
  BY <1>0 DEF Stat, Error, SchedPc
<1>4. ReadySet' = ReadySet /\ u \notin ReadySet
  BY <1>0, <1>1, <1>2, <1>3 DEF ReadySet, BeingDeleted
<1>5. \A v \in ReadySet : prio'[v] = prio[v]
  BY <1>0, <1>4 DEF ReadySet
<1>6. ReadyQueueOK'
  <2>1. RqOK(rq, ReadySet, prio')
    BY <1>5, RqCongruence DEF ReadyQueueOK, ReadySet
  <2> QED BY <2>1, <1>0, <1>4 DEF ReadyQueueOK
<1>7. TargetOK' /\ TimerOK' /\ IdleOK'
  BY <1>0, <1>2 DEF TargetOK, Targeting, TimerOK, IdleOK
<1>8. CurrentOK' /\ PreemptOK'
  BY <1>0, <1>1, <1>2, <1>4, <1>5 DEF InApp, CurrentOK, PreemptOK
<1>9. DefunctOK'
  BY <1>0, <1>1, <1>2 DEF DefunctOK
<1> QED BY <1>3, <1>6, <1>7, <1>8, <1>9

\* rt_thread_startup: the thread is now "suspended", and not yet queued.
LEMMA StartupInv ==
    ASSUME Disciplined, SchedInv, NEW t \in Thread, NEW u \in Thread, rt_thread_startup(t, u)
    PROVE  SchedInv'
<1> USE ThreadAssumption, PrioAssumption DEF SchedInv, TypeOK, CoreTypeOK, rt_thread_startup, Goto
<1>1. /\ t # Idle /\ t = current /\ t \in ReadySet /\ stat[t] = "ready"
      /\ tgt[t] = NoThread /\ \A v \in Thread : tgt[v] # t
  BY AppFacts
<1>2. /\ u # Idle /\ u # t /\ tgt[u] = NoThread /\ ~timer[u]
      /\ \A v \in Thread : tgt[v] # u
  BY <1>1 DEF MayManage, TimerOK
<1>3. TypeOK'
  BY DEF Stat, SchedPc
<1>4. ReadySet' = ReadySet /\ u \notin ReadySet
  BY <1>1, <1>2, <1>3 DEF ReadySet, BeingDeleted, InApp
<1>5. \A v \in ReadySet : prio'[v] = prio[v]
  BY <1>4 DEF ReadySet
<1>6. ReadyQueueOK'
  <2>1. RqOK(rq, ReadySet, prio')
    BY <1>5, RqCongruence DEF ReadyQueueOK, ReadySet
  <2> QED BY <2>1, <1>4 DEF ReadyQueueOK
<1>7. TargetOK'
  BY <1>1, <1>2 DEF TargetOK, Targeting
<1>8. TimerOK' /\ IdleOK'
  BY <1>1, <1>2 DEF TimerOK, IdleOK
<1>9. CurrentOK' /\ PreemptOK'
  BY <1>1, <1>4 DEF CurrentOK, PreemptOK
<1>10. DefunctOK'
  BY <1>1, <1>2 DEF DefunctOK, InApp
<1> QED BY <1>3, <1>6, <1>7, <1>8, <1>9, <1>10

\* rt_thread_resume: its argument is suspended and stays so, as nobody else
\* works on it and its timer is stopped.
LEMMA ResumeInv ==
    ASSUME Disciplined, SchedInv, NEW t \in Thread, NEW u \in Thread, rt_thread_resume(t, u)
    PROVE  SchedInv'
<1> USE ThreadAssumption DEF SchedInv, TypeOK, CoreTypeOK, rt_thread_resume, Goto
<1>1. /\ t # Idle /\ t = current /\ t \in ReadySet /\ stat[t] = "ready"
      /\ tgt[t] = NoThread /\ \A v \in Thread : tgt[v] # t
  BY AppFacts
<1>2. /\ u # Idle /\ u # t /\ tgt[u] = NoThread /\ ~timer[u]
      /\ \A v \in Thread : tgt[v] # u
  BY <1>1 DEF MayManage, Untimed
<1>3. TypeOK'
  BY DEF SchedPc
<1>4. ReadySet' = ReadySet
  BY <1>1, <1>2, <1>3 DEF ReadySet, BeingDeleted, InApp
<1>5. ReadyQueueOK'
  BY <1>4 DEF ReadyQueueOK
<1>6. TargetOK'
  BY <1>1, <1>2 DEF TargetOK, Targeting
<1>7. TimerOK' /\ IdleOK'
  BY <1>1, <1>2 DEF TimerOK, IdleOK
<1>8. CurrentOK' /\ PreemptOK'
  BY <1>1, <1>4 DEF CurrentOK, PreemptOK
<1>9. DefunctOK'
  BY <1>1, <1>2 DEF DefunctOK, InApp
<1> QED BY <1>3, <1>5, <1>6, <1>7, <1>8, <1>9

\* The first section of rt_thread_resume finds nothing to unlink.
LEMMA ResumeUnlinkInv ==
    ASSUME SchedInv, NEW t \in Thread, ResumeUnlink(t)
    PROVE  SchedInv'
<1> USE ThreadAssumption DEF SchedInv, TypeOK, CoreTypeOK, ResumeUnlink, rt_timer_stop, At, Goto
<1> DEFINE w == tgt[t]
<1>1. w \in Thread /\ w # Idle /\ stat[w] = "suspend" /\ t # Idle
  BY DEF TargetOK, Targeting, IdleOK
<1>2. t = current /\ t \in ReadySet
  BY DEF CurrentOK, DeletesItself
<1>3. rq' = rq
  <2>1. w \notin ReadySet /\ ReadySet \in SUBSET Thread
    BY <1>1 DEF ReadySet
  <2>2. [rq EXCEPT !.table = Unlink(rq.table, w)] = rq
    BY <2>1, <1>1, UnlinkAbsent DEF ReadyQueueOK
  <2> QED BY <2>2
<1>4. defunct' = defunct
  BY <1>1, ListRemoveAbsent DEF DefunctOK
<1>5. TypeOK'
  BY <1>1, <1>3, <1>4 DEF SchedPc
<1>6. ReadySet' = ReadySet
  BY <1>5 DEF ReadySet, BeingDeleted
<1>7. ReadyQueueOK'
  BY <1>3, <1>6 DEF ReadyQueueOK
<1>8. TargetOK'
  BY <1>1 DEF TargetOK, Targeting
<1>9. TimerOK' /\ IdleOK'
  BY <1>1 DEF TimerOK, IdleOK
<1>10. CurrentOK' /\ PreemptOK'
  BY <1>2, <1>6 DEF CurrentOK, PreemptOK
<1>11. DefunctOK'
  BY <1>4 DEF DefunctOK
<1> QED BY <1>5, <1>7, <1>8, <1>9, <1>10, <1>11

\* The second section of rt_thread_resume queues its argument.
LEMMA ResumeInsertInv ==
    ASSUME SchedInv, NEW t \in Thread, ResumeInsert(t)
    PROVE  SchedInv'
<1> USE ThreadAssumption DEF SchedInv, TypeOK, CoreTypeOK, ResumeInsert, Goto
<1> DEFINE w == tgt[t]
<1>1. w \in Thread /\ w # Idle /\ stat[w] = "suspend" /\ t # Idle /\ pc[t] \in Targeting
  BY DEF TargetOK, Targeting, IdleOK
<1>2. t = current /\ t \in ReadySet
  BY DEF CurrentOK, DeletesItself
<1>3. \A v \in Thread : tgt[v] = w => v = t
  BY <1>1 DEF TargetOK
<1>4. /\ w \notin ReadySet /\ ReadySet \in SUBSET Thread
      /\ rq' \in ReadyQueue /\ RqOK(rq', ReadySet \cup {w}, prio)
  BY <1>1, RqInsert DEF ReadyQueueOK, ReadySet
<1>5. TypeOK'
  BY <1>1, <1>4 DEF SchedPc, Stat
<1>6. ReadySet' = ReadySet \cup {w}
  BY <1>1, <1>3, <1>5 DEF ReadySet, BeingDeleted
<1>7. ReadyQueueOK'
  BY <1>4, <1>6 DEF ReadyQueueOK
<1>8. TargetOK'
  BY <1>1, <1>3 DEF TargetOK, Targeting
<1>9. TimerOK' /\ IdleOK'
  BY <1>1 DEF TimerOK, IdleOK
<1>10. CurrentOK' /\ PreemptOK'
  BY <1>2, <1>6 DEF CurrentOK, PreemptOK
<1>11. DefunctOK'
  BY <1>1, <1>3 DEF DefunctOK
<1> QED BY <1>5, <1>7, <1>8, <1>9, <1>10, <1>11

\* rt_thread_resume in one section, on a suspended thread nobody is in a call on:
\* what it does to the queue and to the list of defunct threads.
LEMMA ResumeAtOnceFacts ==
    ASSUME SchedInv, NEW u \in Thread, Resumable(u), ResumeAtOnce(u)
    PROVE  /\ u # Idle /\ u \notin ReadySet /\ \A v \in Thread : tgt[v] # u
           /\ rq' \in ReadyQueue /\ RqOK(rq', ReadySet \cup {u}, prio)
           /\ defunct' = defunct
           /\ stat' = [stat EXCEPT ![u] = "ready"] /\ timer' = [timer EXCEPT ![u] = FALSE]
<1> USE DEF SchedInv, TypeOK, CoreTypeOK, Resumable, ResumeAtOnce, rt_timer_stop
<1>1. ReadySet \in SUBSET Thread /\ u \notin ReadySet
  BY DEF ReadySet
<1>2. rq' = rt_schedule_insert_thread(rq, u, prio[u])
  <2>1. [rq EXCEPT !.table = Unlink(rq.table, u)] = rq
    BY <1>1, UnlinkAbsent DEF ReadyQueueOK
  <2> QED BY <2>1
<1>3. rq' \in ReadyQueue /\ RqOK(rq', ReadySet \cup {u}, prio)
  <2>1. rq \in ReadyQueue /\ prio \in [Thread -> Prio] /\ RqOK(rq, ReadySet, prio)
    BY DEF ReadyQueueOK
  <2> HIDE DEF SchedInv, TypeOK, CoreTypeOK, ResumeAtOnce
  <2> QED BY <2>1, <1>1, <1>2, RqInsert
<1>4. defunct' = defunct
  BY ListRemoveAbsent DEF DefunctOK
<1> QED BY <1>1, <1>3, <1>4

\* rt_completion_done, called by a thread.
LEMMA CompletionInv ==
    ASSUME SchedInv, NEW t \in Thread, NEW u \in Thread, rt_completion_done(t, u)
    PROVE  SchedInv'
<1> USE ThreadAssumption DEF SchedInv, TypeOK, CoreTypeOK, Goto
<1>0. /\ InApp(t) /\ Resumable(u) /\ ResumeAtOnce(u) /\ stat[u] = "suspend"
      /\ pc' = [pc EXCEPT ![t] = "sched"] /\ UNCHANGED <<prio, error, current, lockNest, tgt>>
  BY DEF rt_completion_done, Resumable
<1>1. /\ t # Idle /\ t = current /\ t \in ReadySet /\ stat[t] = "ready"
      /\ tgt[t] = NoThread /\ \A v \in Thread : tgt[v] # t
  BY <1>0, AppFacts
<1>2. /\ u # Idle /\ u \notin ReadySet /\ \A v \in Thread : tgt[v] # u
      /\ rq' \in ReadyQueue /\ RqOK(rq', ReadySet \cup {u}, prio)
      /\ defunct' = defunct
      /\ stat' = [stat EXCEPT ![u] = "ready"] /\ timer' = [timer EXCEPT ![u] = FALSE]
  BY <1>0, ResumeAtOnceFacts
<1>3. TypeOK'
  BY <1>0, <1>2 DEF SchedPc, Stat
<1>4. ReadySet' = ReadySet \cup {u}
  BY <1>0, <1>1, <1>2, <1>3 DEF ReadySet, BeingDeleted
<1>5. ReadyQueueOK'
  BY <1>0, <1>2, <1>4 DEF ReadyQueueOK
<1>6. TargetOK'
  BY <1>0, <1>1, <1>2 DEF TargetOK, Targeting, InApp
<1>7. TimerOK' /\ IdleOK'
  BY <1>0, <1>1, <1>2 DEF TimerOK, IdleOK
<1>8. CurrentOK' /\ PreemptOK'
  BY <1>0, <1>1, <1>4 DEF CurrentOK, PreemptOK
<1>9. DefunctOK'
  BY <1>0, <1>1, <1>2 DEF DefunctOK, InApp
<1> QED BY <1>3, <1>5, <1>6, <1>7, <1>8, <1>9

\* rt_completion_done, called by an interrupt handler.
LEMMA CompletionIsrInv ==
    ASSUME SchedInv, NEW u \in Thread, CompletionIsr(u)
    PROVE  SchedInv'
<1> USE ThreadAssumption DEF SchedInv, TypeOK, CoreTypeOK
<1>0. /\ Resumable(u) /\ ResumeAtOnce(u) /\ stat[u] = "suspend"
      /\ current' = rt_schedule(rq') /\ UNCHANGED <<prio, error, lockNest, pc, tgt>>
  BY DEF CompletionIsr, Resumable
<1>1. /\ u # Idle /\ u \notin ReadySet /\ \A v \in Thread : tgt[v] # u
      /\ rq' \in ReadyQueue /\ RqOK(rq', ReadySet \cup {u}, prio)
      /\ defunct' = defunct
      /\ stat' = [stat EXCEPT ![u] = "ready"] /\ timer' = [timer EXCEPT ![u] = FALSE]
  BY <1>0, ResumeAtOnceFacts
<1>2. ReadySet \in SUBSET Thread /\ Idle \in ReadySet \cup {u} /\ prio \in [Thread -> Prio]
  BY IdleReady DEF ReadySet
<1>3. /\ lockNest = 0 => /\ current' \in ReadySet \cup {u}
                         /\ \A x \in ReadySet \cup {u} : prio[current'] <= prio[x]
      /\ lockNest # 0 => current' = current
  <2> HIDE DEF SchedInv, TypeOK, CoreTypeOK
  <2>1. ReadySet \cup {u} \in SUBSET Thread
    BY <1>2
  <2> QED BY <2>1, <1>0, <1>1, <1>2, ScheduleFacts
<1>4. TypeOK'
  BY <1>0, <1>1, <1>2, <1>3 DEF Stat
<1>5. ReadySet' = ReadySet \cup {u}
  BY <1>0, <1>1, <1>4 DEF ReadySet, BeingDeleted
<1>6. ReadyQueueOK'
  BY <1>0, <1>1, <1>5 DEF ReadyQueueOK
<1>7. TargetOK'
  BY <1>0, <1>1 DEF TargetOK, Targeting
<1>8. TimerOK' /\ IdleOK'
  BY <1>0, <1>1 DEF TimerOK, IdleOK
<1>9. CurrentOK' /\ PreemptOK'
  BY <1>0, <1>1, <1>3, <1>5 DEF CurrentOK, DeletesItself, PreemptOK
<1>10. DefunctOK'
  BY <1>0, <1>1, <1>3 DEF DefunctOK, ReadySet
<1> QED BY <1>4, <1>6, <1>7, <1>8, <1>9, <1>10

\* rt_thread_suspend of the caller itself.
LEMMA SuspendInv ==
    ASSUME Disciplined, SchedInv, NEW t \in Thread, NEW u \in Thread, rt_thread_suspend(t, u)
    PROVE  SchedInv'
<1> USE ThreadAssumption DEF SchedInv, TypeOK, CoreTypeOK, rt_thread_suspend, Goto, MayBlock
<1>1. /\ t # Idle /\ t = current /\ t \in ReadySet /\ stat[t] = "ready"
      /\ tgt[t] = NoThread /\ ~timer[t] /\ \A v \in Thread : tgt[v] # t
  BY AppFacts
<1>2. u = t /\ lockNest = 0
  OBVIOUS
<1>3. TypeOK'
  BY DEF SchedPc
<1>4. ReadySet' = ReadySet
  BY <1>1, <1>2, <1>3 DEF ReadySet, BeingDeleted, InApp
<1>5. ReadyQueueOK'
  BY <1>4 DEF ReadyQueueOK
<1>6. TargetOK'
  BY <1>1, <1>2 DEF TargetOK, Targeting
<1>7. TimerOK' /\ IdleOK'
  BY <1>1, <1>2 DEF TimerOK, IdleOK
<1>8. CurrentOK' /\ PreemptOK'
  BY <1>1, <1>2, <1>4 DEF CurrentOK, PreemptOK
<1>9. DefunctOK'
  BY <1>1, <1>2 DEF DefunctOK, InApp
<1> QED BY <1>3, <1>5, <1>6, <1>7, <1>8, <1>9

\* Its section takes the caller out of the queue; rt_schedule has to follow.
LEMMA SuspendRemoveInv ==
    ASSUME SchedInv, NEW t \in Thread, SuspendRemove(t)
    PROVE  SchedInv'
<1> USE ThreadAssumption DEF SchedInv, TypeOK, CoreTypeOK, SuspendRemove, rt_timer_stop, At, Goto
<1>1. tgt[t] = t /\ stat[t] = "ready" /\ t # Idle /\ t = current /\ lockNest = 0
  BY DEF TargetOK, IdleOK, CurrentOK
<1>2. \A v \in Thread : tgt[v] = t => v = t
  BY <1>1 DEF TargetOK
<1>3. defunct' = defunct
  BY <1>1, ListRemoveAbsent DEF DefunctOK
<1>4. /\ ReadySet \in SUBSET Thread
      /\ rq' \in ReadyQueue /\ RqOK(rq', ReadySet \ {t}, prio)
  BY <1>1, RqRemove DEF ReadyQueueOK, ReadySet
<1>5. TypeOK'
  BY <1>1, <1>3, <1>4 DEF SchedPc, Stat
<1>6. ReadySet' = ReadySet \ {t}
  BY <1>1, <1>2, <1>5 DEF ReadySet, BeingDeleted
<1>7. ReadyQueueOK'
  BY <1>4, <1>6 DEF ReadyQueueOK
<1>8. TargetOK'
  BY <1>1, <1>2 DEF TargetOK, Targeting
<1>9. TimerOK' /\ IdleOK'
  BY <1>1, <1>2 DEF TimerOK, IdleOK
<1>10. CurrentOK' /\ PreemptOK'
  BY <1>1 DEF CurrentOK, PreemptOK
<1>11. DefunctOK'
  BY <1>1, <1>2, <1>3 DEF DefunctOK
<1> QED BY <1>5, <1>7, <1>8, <1>9, <1>10, <1>11

\* rt_thread_sleep takes the caller out of the queue and starts its timer.
LEMMA SleepInv ==
    ASSUME SchedInv, NEW t \in Thread, rt_thread_sleep(t)
    PROVE  SchedInv'
<1> USE ThreadAssumption DEF SchedInv, TypeOK, CoreTypeOK, rt_thread_sleep, Goto, MayBlock
<1>1. /\ t # Idle /\ t = current /\ t \in ReadySet /\ stat[t] = "ready"
      /\ tgt[t] = NoThread /\ ~timer[t] /\ \A v \in Thread : tgt[v] # t
  BY AppFacts
<1>2. /\ ReadySet \in SUBSET Thread
      /\ rq' \in ReadyQueue /\ RqOK(rq', ReadySet \ {t}, prio)
  BY <1>1, RqRemove DEF ReadyQueueOK, ReadySet
<1>3. TypeOK'
  BY <1>1, <1>2 DEF SchedPc, Stat
<1>4. ReadySet' = ReadySet \ {t}
  BY <1>1, <1>3 DEF ReadySet, BeingDeleted
<1>5. ReadyQueueOK'
  BY <1>2, <1>4 DEF ReadyQueueOK
<1>6. TargetOK'
  BY <1>1 DEF TargetOK, Targeting
<1>7. TimerOK' /\ IdleOK'
  BY <1>1 DEF TimerOK, IdleOK
<1>8. CurrentOK' /\ PreemptOK'
  BY <1>1 DEF CurrentOK, PreemptOK
<1>9. DefunctOK'
  BY <1>1 DEF DefunctOK
<1> QED BY <1>3, <1>5, <1>6, <1>7, <1>8, <1>9

\* The return of rt_thread_sleep.
LEMMA SleepReturnInv ==
    ASSUME SchedInv, NEW t \in Thread, SleepReturn(t)
    PROVE  SchedInv'
<1> USE ThreadAssumption DEF SchedInv, TypeOK, CoreTypeOK, SleepReturn, At, Goto
<1>1. t = current /\ t \in ReadySet /\ t # Idle
  BY DEF CurrentOK, DeletesItself, IdleOK
<1>2. TypeOK'
  BY DEF SchedPc, Error
<1>3. ReadySet' = ReadySet
  BY <1>2 DEF ReadySet, BeingDeleted
<1>4. ReadyQueueOK'
  BY <1>3 DEF ReadyQueueOK
<1>5. TargetOK' /\ TimerOK' /\ IdleOK'
  BY <1>1 DEF TargetOK, Targeting, TimerOK, IdleOK
<1>6. CurrentOK' /\ PreemptOK'
  BY <1>1, <1>3 DEF CurrentOK, PreemptOK
<1>7. DefunctOK'
  BY DEF DefunctOK
<1> QED BY <1>2, <1>4, <1>5, <1>6, <1>7

\* rt_thread_yield moves the caller to the end of its list.
LEMMA YieldInv ==
    ASSUME SchedInv, NEW t \in Thread, rt_thread_yield(t)
    PROVE  SchedInv'
<1> USE ThreadAssumption DEF SchedInv, TypeOK, CoreTypeOK, rt_thread_yield, Goto
<1>1. /\ t # Idle /\ t = current /\ t \in ReadySet /\ stat[t] = "ready"
      /\ tgt[t] = NoThread /\ \A v \in Thread : tgt[v] # t
  BY AppFacts
<1>2. /\ ReadySet \in SUBSET Thread
      /\ rq' \in ReadyQueue /\ RqOK(rq', ReadySet, prio)
  BY <1>1, RqYield DEF ReadyQueueOK, ReadySet
<1>3. TypeOK'
  BY <1>2 DEF SchedPc
<1>4. ReadySet' = ReadySet
  BY <1>1, <1>3 DEF ReadySet, BeingDeleted
<1>5. ReadyQueueOK'
  BY <1>2, <1>4 DEF ReadyQueueOK
<1>6. TargetOK' /\ TimerOK' /\ IdleOK'
  BY <1>1 DEF TargetOK, Targeting, TimerOK, IdleOK
<1>7. CurrentOK' /\ PreemptOK'
  BY <1>1, <1>4 DEF CurrentOK, PreemptOK
<1>8. DefunctOK'
  BY <1>1 DEF DefunctOK
<1> QED BY <1>3, <1>5, <1>6, <1>7, <1>8

\* rt_thread_control gives a thread another priority and, if it is queued,
\* another list; the caller has not rescheduled yet.
LEMMA ControlInv ==
    ASSUME Disciplined, SchedInv, NEW t \in Thread, NEW u \in Thread, NEW p \in NewPrio,
           rt_thread_control(t, u, p)
    PROVE  SchedInv'
<1> USE ThreadAssumption, PrioAssumption DEF SchedInv, TypeOK, CoreTypeOK, rt_thread_control, Goto
<1>1. /\ t # Idle /\ t = current /\ t \in ReadySet /\ stat[t] = "ready"
      /\ tgt[t] = NoThread /\ \A v \in Thread : tgt[v] # t
  BY AppFacts
<1>2. /\ u # Idle /\ \A v \in Thread : tgt[v] # u
  BY DEF MayManage
<1>3. stat[u] = "ready" <=> u \in ReadySet
  BY <1>2 DEF ReadySet, BeingDeleted
<1>4. /\ ReadySet \in SUBSET Thread
      /\ rq' \in ReadyQueue /\ RqOK(rq', ReadySet, prio')
  BY <1>3, RqChange DEF ReadyQueueOK, ReadySet
<1>5. TypeOK'
  BY <1>4 DEF SchedPc
<1>6. ReadySet' = ReadySet
  BY <1>1, <1>5 DEF ReadySet, BeingDeleted, InApp
<1>7. ReadyQueueOK'
  BY <1>4, <1>6 DEF ReadyQueueOK
<1>8. TargetOK' /\ TimerOK' /\ IdleOK'
  BY <1>1, <1>2 DEF TargetOK, Targeting, TimerOK, IdleOK
<1>9. CurrentOK' /\ PreemptOK'
  BY <1>1, <1>6 DEF CurrentOK, PreemptOK
<1>10. DefunctOK'
  BY <1>1 DEF DefunctOK
<1> QED BY <1>5, <1>7, <1>8, <1>9, <1>10

\* rt_thread_exit leaves the caller to the idle thread.
LEMMA ExitInv ==
    ASSUME SchedInv, NEW t \in Thread, rt_thread_exit(t)
    PROVE  SchedInv'
<1> USE ThreadAssumption DEF SchedInv, TypeOK, CoreTypeOK, rt_thread_exit, rt_timer_stop, LeaveToIdle, Goto, MayBlock
<1>1. /\ t # Idle /\ t = current /\ t \in ReadySet /\ stat[t] = "ready"
      /\ tgt[t] = NoThread /\ ~timer[t] /\ \A v \in Thread : tgt[v] # t
  BY AppFacts
<1>2. /\ ReadySet \in SUBSET Thread
      /\ rq' \in ReadyQueue /\ RqOK(rq', ReadySet \ {t}, prio)
  BY <1>1, RqRemove DEF ReadyQueueOK, ReadySet
<1>3. /\ defunct' \in Seq(Thread) /\ Distinct(defunct')
      /\ \A e : Contains(defunct', e) <=> Contains(defunct, e) \/ (e = t /\ Reaped(t))
  <2>1. ~Contains(defunct, t) /\ Distinct(defunct)
    BY <1>1 DEF DefunctOK
  <2> QED BY <2>1, ListInsertAfter
<1>4. TypeOK'
  BY <1>1, <1>2, <1>3 DEF SchedPc, Stat
<1>5. ReadySet' = ReadySet \ {t}
  BY <1>1, <1>4 DEF ReadySet, BeingDeleted
<1>6. ReadyQueueOK'
  BY <1>2, <1>5 DEF ReadyQueueOK
<1>7. TargetOK'
  BY <1>1 DEF TargetOK, Targeting
<1>8. TimerOK' /\ IdleOK'
  BY <1>1 DEF TimerOK, IdleOK
<1>9. CurrentOK' /\ PreemptOK'
  BY <1>1 DEF CurrentOK, PreemptOK
<1>10. DefunctOK'
  BY <1>1, <1>3 DEF DefunctOK
<1> QED BY <1>4, <1>6, <1>7, <1>8, <1>9, <1>10

\* rt_thread_delete and rt_thread_detach, first section: its argument, which may be
\* the caller, leaves the queue.
LEMMA DeleteInv ==
    ASSUME Disciplined, SchedInv, NEW t \in Thread, NEW u \in Thread, DeleteUnlink(t, u)
    PROVE  SchedInv'
<1> USE ThreadAssumption DEF SchedInv, TypeOK, CoreTypeOK, DeleteUnlink, Goto
<1>1. /\ t # Idle /\ t = current /\ t \in ReadySet /\ stat[t] = "ready"
      /\ tgt[t] = NoThread /\ \A v \in Thread : tgt[v] # t
  BY AppFacts
<1>2. /\ u # Idle /\ ~timer[u] /\ tgt[u] = NoThread
      /\ \A v \in Thread : tgt[v] # u
  BY <1>1 DEF MayManage, Untimed
<1>3. /\ ReadySet \in SUBSET Thread
      /\ rq' \in ReadyQueue /\ RqOK(rq', ReadySet \ {u}, prio)
  <2>1. CASE stat[u] = "init"
    <3>1. ReadySet \ {u} = ReadySet
      BY <2>1 DEF ReadySet
    <3> QED BY <3>1, <2>1 DEF ReadyQueueOK, ReadySet
  <2>2. CASE stat[u] # "init"
    BY <2>2, RqRemove DEF ReadyQueueOK, ReadySet
  <2> QED BY <2>1, <2>2
<1>4. TypeOK'
  BY <1>3 DEF SchedPc
<1>5. ReadySet' = ReadySet \ {u}
  BY <1>1, <1>2, <1>4 DEF ReadySet, BeingDeleted, InApp
<1>6. ReadyQueueOK'
  BY <1>3, <1>5 DEF ReadyQueueOK
<1>7. TargetOK'
  BY <1>1, <1>2 DEF TargetOK, Targeting
<1>8. TimerOK' /\ IdleOK'
  BY <1>1, <1>2 DEF TimerOK, IdleOK
<1>9. CurrentOK' /\ PreemptOK'
  BY <1>1, <1>2, <1>5 DEF CurrentOK, DeletesItself, PreemptOK, MayBlock
<1>10. DefunctOK'
  BY <1>1, <1>2 DEF DefunctOK, InApp
<1> QED BY <1>4, <1>6, <1>7, <1>8, <1>9, <1>10

\* The caller of a rt_thread_delete that goes on, and its argument.
LEMMA DeleteFacts ==
    ASSUME SchedInv, NEW t \in Thread, current = t, pc[t] \in {"del_timer", "del_close", "del_defunct"}
    PROVE  /\ tgt[t] \in Thread /\ tgt[t] # Idle /\ t # Idle /\ ~timer[tgt[t]]
           /\ \A v \in Thread : tgt[v] = tgt[t] => v = t
           /\ t \in ReadySet \/ (tgt[t] = t /\ lockNest = 0)
           /\ tgt[t] # t => t \in ReadySet /\ \A v \in Thread : tgt[v] # t
<1> USE ThreadAssumption DEF SchedInv, TypeOK, CoreTypeOK
<1>1. tgt[t] \in Thread /\ tgt[t] # Idle /\ t # Idle
  BY DEF TargetOK, Targeting, IdleOK
<1>2. \A v \in Thread : tgt[v] = tgt[t] => v = t
  BY <1>1 DEF TargetOK
<1>3. ~timer[tgt[t]]
  BY <1>1 DEF TimerOK
<1>4. t \in ReadySet \/ (tgt[t] = t /\ lockNest = 0)
  BY DEF CurrentOK, DeletesItself
<1>5. ASSUME tgt[t] # t, NEW v \in Thread, tgt[v] = t PROVE FALSE
  <2>1. t \in ReadySet
    BY <1>4, <1>5
  <2>2. pc[v] \in Targeting /\ stat[t] = "ready" /\ pc[v] \notin {"del_timer", "del_close"}
    BY <2>1, <1>5 DEF TargetOK, ReadySet, BeingDeleted
  <2>3. pc[v] \notin {"startup", "resume_chk", "resume", "del_defunct", "reap"}
    BY <2>2, <1>5 DEF TargetOK
  <2>4. pc[v] = "suspend_chk"
    BY <2>2, <2>3 DEF Targeting
  <2> QED BY <2>4, <1>5 DEF TargetOK
<1> QED BY <1>1, <1>2, <1>3, <1>4, <1>5

\* rt_thread_delete, second section.
LEMMA DeleteTimerInv ==
    ASSUME SchedInv, NEW t \in Thread, DeleteTimer(t)
    PROVE  SchedInv'
<1> USE ThreadAssumption DEF SchedInv, TypeOK, CoreTypeOK, DeleteTimer, rt_timer_stop, At, Goto
<1>1. /\ tgt[t] \in Thread /\ t # Idle /\ t = current
      /\ t \in ReadySet \/ (tgt[t] = t /\ lockNest = 0)
  BY DeleteFacts
<1>2. TypeOK'
  BY <1>1 DEF SchedPc
<1>3. ReadySet' = ReadySet
  BY <1>1, <1>2 DEF ReadySet, BeingDeleted
<1>4. ReadyQueueOK'
  BY <1>3 DEF ReadyQueueOK
<1>5. TargetOK' /\ TimerOK' /\ IdleOK'
  BY <1>1 DEF TargetOK, Targeting, TimerOK, IdleOK
<1>6. CurrentOK' /\ PreemptOK'
  BY <1>1, <1>3 DEF CurrentOK, DeletesItself, PreemptOK
<1>7. DefunctOK'
  BY <1>1 DEF DefunctOK
<1> QED BY <1>2, <1>4, <1>5, <1>6, <1>7

\* rt_thread_delete marks its argument closed, and rt_thread_detach may end there.
LEMMA DeleteCloseInv ==
    ASSUME SchedInv, NEW t \in Thread, DeleteClose(t)
    PROVE  SchedInv'
<1> USE ThreadAssumption DEF SchedInv, TypeOK, CoreTypeOK
<1> DEFINE w == tgt[t]
<1>0. /\ pc[t] = "del_close" /\ t = current /\ stat' = [stat EXCEPT ![w] = "close"]
      /\ UNCHANGED <<rq, prio, timer, error, defunct, current, lockNest>>
  BY DEF DeleteClose, At
<1>1. /\ w \in Thread /\ w # Idle /\ t # Idle /\ ~timer[w]
      /\ \A v \in Thread : tgt[v] = w => v = t
      /\ t \in ReadySet \/ (w = t /\ lockNest = 0)
      /\ w # t => t \in ReadySet /\ \A v \in Thread : tgt[v] # t
  BY <1>0, DeleteFacts
<1>2. stat[w] \in {"init", "ready", "suspend"} /\ tgt[w] \in {NoThread, w} /\ w \notin ReadySet
  BY <1>0, <1>1 DEF TargetOK, ReadySet, BeingDeleted
<1>3. PICK l \in {"del_defunct", "exit", "unsched"} :
        /\ pc' = [pc EXCEPT ![t] = l]
        /\ l = "del_defunct" => Reaped(w) /\ tgt' = tgt
        /\ l # "del_defunct" => /\ ~Reaped(w) /\ tgt' = [tgt EXCEPT ![t] = NoThread]
                                /\ l = "exit" <=> w = t
  <2>1. CASE Reaped(w)
    <3>1. pc' = [pc EXCEPT ![t] = "del_defunct"] /\ tgt' = tgt
      BY <2>1 DEF DeleteClose, Goto
    <3> QED BY <2>1, <3>1
  <2>2. CASE ~Reaped(w)
    <3>1. /\ pc' = [pc EXCEPT ![t] = IF w = t THEN "exit" ELSE "unsched"]
          /\ tgt' = [tgt EXCEPT ![t] = NoThread]
      BY <2>2 DEF DeleteClose, DeleteReturn, Goto
    <3> QED BY <2>2, <3>1
  <2> QED BY <2>1, <2>2
<1> HIDE DEF w
<1>4. TypeOK'
  BY <1>0, <1>1, <1>3 DEF SchedPc, Stat
<1>5. /\ \A v \in Thread : v # t => pc'[v] = pc[v] /\ tgt'[v] = tgt[v]
      /\ pc'[t] = l /\ stat'[w] = "close" /\ \A v \in Thread : v # w => stat'[v] = stat[v]
  BY <1>0, <1>1, <1>3
<1>6. ReadySet' = ReadySet
  <2>1. ASSUME NEW x \in Thread PROVE x \in ReadySet' <=> x \in ReadySet
    <3>1. CASE x = w
      BY <3>1, <1>2, <1>5 DEF ReadySet
    <3>2. CASE x # w
      <4>1. \A v \in Thread : (tgt'[v] = x /\ pc'[v] \in {"del_timer", "del_close"})
                                <=> (tgt[v] = x /\ pc[v] \in {"del_timer", "del_close"})
        BY <3>2, <1>0, <1>1, <1>3, <1>5 DEF w
      <4> QED BY <4>1, <3>2, <1>5 DEF ReadySet, BeingDeleted
    <3> QED BY <3>1, <3>2
  <2> QED BY <2>1 DEF ReadySet
<1>7. ReadyQueueOK'
  BY <1>0, <1>6 DEF ReadyQueueOK
<1>8. TargetOK'
  <2>1. \A v \in Thread : tgt[v] = w <=> v = t
    BY <1>1 DEF w
  <2>2. tgt'[t] = w \/ tgt'[t] = NoThread
    BY <1>3 DEF w
  <2>3. \A v, x \in Thread : tgt'[v] = tgt'[x] /\ tgt'[v] # NoThread => v = x
    BY <2>1, <1>3, <1>5 DEF TargetOK
  <2>4. ASSUME NEW v \in Thread, v # t
        PROVE  /\ tgt'[v] = tgt[v] /\ pc'[v] = pc[v] /\ tgt[v] # w
               /\ tgt[v] \in Thread => stat'[tgt[v]] = stat[tgt[v]]
               /\ v = w => tgt[v] = NoThread
    BY <2>1, <2>4, <1>2, <1>5
  <2>5. ASSUME NEW v \in Thread, v # t, tgt[v] \in Thread, tgt[v] # t
        PROVE  tgt'[tgt[v]] = tgt[tgt[v]]
    BY <2>5, <1>5
  <2>6. ASSUME NEW v \in Thread, v # t, tgt[v] = t PROVE w = t
    BY <2>6, <1>1
  <2>7. ASSUME NEW v \in Thread, v # t PROVE tgt[v] # t
    BY <2>1, <2>6, <2>7
  <2>8. ASSUME NEW v \in Thread, v # t
        PROVE  /\ tgt'[v] # NoThread <=> pc'[v] \in Targeting
               /\ tgt'[v] # Idle
               /\ pc'[v] \in {"startup", "resume_chk", "resume"} => stat'[tgt'[v]] = "suspend"
               /\ pc'[v] = "suspend_chk" => tgt'[v] = v /\ stat'[v] = "ready"
               /\ pc'[v] \in {"del_timer", "del_close"} => stat'[tgt'[v]] \in {"init", "ready", "suspend"}
               /\ pc'[v] \in {"del_defunct", "reap"} => stat'[tgt'[v]] = "close"
               /\ pc'[v] \in {"del_timer", "del_close", "del_defunct"} => tgt'[tgt'[v]] \in {NoThread, tgt'[v]}
               /\ pc'[v] = "del_defunct" => Reaped(tgt'[v]) /\ pc'[tgt'[v]] # "cleaned"
               /\ pc'[v] = "reap" => v = Idle /\ tgt'[v] \notin Static
               /\ stat'[v] = "close" => tgt'[v] \in {NoThread, v}
               /\ pc'[v] = "cleaned" => v \in Static /\ stat'[v] = "close"
    BY <2>4, <2>5, <2>7, <2>8, <1>5 DEF TargetOK, Targeting
  <2>9. /\ tgt'[t] # NoThread <=> pc'[t] \in Targeting
        /\ tgt'[t] # Idle /\ pc'[t] \in {"del_defunct", "exit", "unsched"}
        /\ pc'[t] = "del_defunct" => /\ tgt'[t] = w /\ stat'[w] = "close" /\ Reaped(w)
                                     /\ tgt'[w] \in {NoThread, w} /\ pc'[w] # "cleaned"
        /\ stat'[t] = "close" => tgt'[t] \in {NoThread, t}
    BY <1>1, <1>2, <1>3, <1>5 DEF TargetOK, Targeting, w
  <2> QED BY <2>3, <2>8, <2>9 DEF TargetOK
<1>9. TimerOK' /\ IdleOK'
  BY <1>0, <1>1, <1>3, <1>5 DEF TimerOK, IdleOK, w
<1>10. CurrentOK' /\ PreemptOK'
  BY <1>0, <1>1, <1>3, <1>5, <1>6 DEF CurrentOK, DeletesItself, PreemptOK, w
<1>11. DefunctOK'
  BY <1>0, <1>1, <1>2, <1>3, <1>5 DEF DefunctOK, TargetOK, w
<1> QED BY <1>4, <1>7, <1>8, <1>9, <1>10, <1>11

\* rt_thread_delete leaves its argument to the idle thread.
LEMMA DeleteDefunctInv ==
    ASSUME SchedInv, NEW t \in Thread, DeleteDefunct(t)
    PROVE  SchedInv'
<1> USE ThreadAssumption DEF SchedInv, TypeOK, CoreTypeOK
<1> DEFINE w == tgt[t]
<1>0. /\ pc[t] = "del_defunct" /\ t = current /\ defunct' = rt_list_insert_after(defunct, w)
      /\ tgt' = [tgt EXCEPT ![t] = NoThread]
      /\ pc' = [pc EXCEPT ![t] = IF w = t THEN "exit" ELSE "unsched"]
      /\ UNCHANGED <<rq, stat, prio, timer, error, current, lockNest>>
  BY DEF DeleteDefunct, DeleteReturn, At, Goto
<1>1. /\ w \in Thread /\ w # Idle /\ t # Idle
      /\ \A v \in Thread : tgt[v] = w => v = t
      /\ t \in ReadySet \/ (w = t /\ lockNest = 0)
      /\ w # t => t \in ReadySet /\ \A v \in Thread : tgt[v] # t
  BY <1>0, DeleteFacts
<1>2. /\ stat[w] = "close" /\ Reaped(w) /\ tgt[w] \in {NoThread, w}
  BY <1>0, <1>1 DEF TargetOK
<1>3. pc[w] # "cleaned"
  BY <1>0, <1>1 DEF TargetOK
<1>4. /\ defunct' \in Seq(Thread) /\ Distinct(defunct')
      /\ \A e : Contains(defunct', e) <=> Contains(defunct, e) \/ e = w
  <2>1. ~Contains(defunct, w) /\ Distinct(defunct)
    BY <1>0, <1>1 DEF DefunctOK
  <2> QED BY <2>1, <1>0, <1>1, ListInsertAfter
<1>5. TypeOK'
  BY <1>0, <1>1, <1>4 DEF SchedPc
<1>6. ReadySet' = ReadySet
  BY <1>0, <1>1, <1>5 DEF ReadySet, BeingDeleted
<1>7. ReadyQueueOK'
  BY <1>0, <1>6 DEF ReadyQueueOK
<1>8. TargetOK'
  BY <1>0, <1>1, <1>2 DEF TargetOK, Targeting
<1>9. TimerOK' /\ IdleOK'
  BY <1>0, <1>1 DEF TimerOK, IdleOK
<1>10. CurrentOK' /\ PreemptOK'
  BY <1>0, <1>1, <1>2, <1>6 DEF CurrentOK, PreemptOK
<1>11. DefunctOK'
  BY <1>0, <1>1, <1>2, <1>3, <1>4 DEF DefunctOK
<1> QED BY <1>5, <1>7, <1>8, <1>9, <1>10, <1>11

\* rt_enter_critical and rt_exit_critical.
LEMMA CriticalInv ==
    ASSUME SchedInv, NEW t \in Thread, rt_enter_critical(t) \/ rt_exit_critical(t)
    PROVE  SchedInv'
<1> USE ThreadAssumption, PrioAssumption DEF SchedInv, TypeOK, CoreTypeOK, Goto
<1>1. InApp(t) /\ lockNest' \in 0..MaxNest
  BY DEF rt_enter_critical, rt_exit_critical, NestAfterExit
<1>2. /\ t # Idle /\ t = current /\ t \in ReadySet /\ stat[t] = "ready"
      /\ tgt[t] = NoThread /\ \A v \in Thread : tgt[v] # t
  BY <1>1, AppFacts
<1>3. /\ UNCHANGED <<rq, stat, prio, timer, error, defunct, current, tgt>>
      /\ pc' = pc \/ pc' = [pc EXCEPT ![t] = "sched"] \/ pc' = [pc EXCEPT ![t] = pc[t]]
  BY DEF rt_enter_critical, rt_exit_critical, NestAfterExit
<1>4. TypeOK'
  BY <1>1, <1>3 DEF SchedPc
<1>5. ReadySet' = ReadySet
  BY <1>2, <1>3, <1>4 DEF ReadySet, BeingDeleted
<1>6. ReadyQueueOK'
  BY <1>3, <1>5 DEF ReadyQueueOK
<1>7. TargetOK' /\ TimerOK' /\ IdleOK'
  BY <1>2, <1>3 DEF TargetOK, Targeting, TimerOK, IdleOK
<1>8. CurrentOK'
  BY <1>1, <1>2, <1>3, <1>5 DEF CurrentOK, InApp
<1>9. PreemptOK'
  BY <1>1, <1>2, <1>3, <1>5 DEF PreemptOK, rt_enter_critical, rt_exit_critical, NestAfterExit
<1>10. DefunctOK'
  BY <1>2, <1>3 DEF DefunctOK
<1> QED BY <1>4, <1>6, <1>7, <1>8, <1>9, <1>10

\* rt_schedule switches to the most urgent queued thread.
LEMMA ScheduleInv ==
    ASSUME SchedInv, NEW t \in Thread, Schedule(t)
    PROVE  SchedInv'
<1> USE ThreadAssumption DEF SchedInv, TypeOK, CoreTypeOK, Schedule, Goto
<1>1. t = current /\ t # Idle /\ tgt[t] = NoThread
  BY DEF IdleOK, TargetOK, Targeting
<1>2. /\ ReadySet \in SUBSET Thread
      /\ lockNest = 0 => /\ current' \in ReadySet
                         /\ \A x \in ReadySet : prio[current'] <= prio[x]
      /\ lockNest # 0 => current' = current
  BY IdleReady, ScheduleFacts DEF ReadyQueueOK, ReadySet
<1>3. pc' \in [Thread -> SchedPc] /\ \A v \in Thread : v # t => pc'[v] = pc[v]
  BY DEF SchedPc
<1>4. pc'[t] \in {"run", "woken", "dead"}
  OBVIOUS
<1>5. TypeOK'
  BY <1>2, <1>3
<1>6. ReadySet' = ReadySet
  BY <1>1, <1>3, <1>4 DEF ReadySet, BeingDeleted
<1>7. ReadyQueueOK'
  BY <1>6 DEF ReadyQueueOK
<1>8. TargetOK' /\ TimerOK' /\ IdleOK'
  BY <1>1, <1>3, <1>4 DEF TargetOK, Targeting, TimerOK, IdleOK
<1>9. CurrentOK'
  <2>1. CASE lockNest = 0
    BY <2>1, <1>2, <1>6 DEF CurrentOK
  <2>2. CASE lockNest # 0
    BY <2>2, <1>1, <1>2, <1>4, <1>6 DEF CurrentOK
  <2> QED BY <2>1, <2>2
<1>10. PreemptOK'
  BY <1>2, <1>6 DEF PreemptOK
<1>11. DefunctOK'
  <2>1. stat'[current'] # "free"
    BY <1>2 DEF DefunctOK, ReadySet
  <2> QED BY <2>1, <1>1, <1>3 DEF DefunctOK
<1> QED BY <1>5, <1>7, <1>8, <1>9, <1>10, <1>11

\* The idle thread takes the first defunct thread out: to free it, or, when it is
\* static, to be done with it.
LEMMA IdleExcuteInv ==
    ASSUME SchedInv, rt_thread_idle_excute
    PROVE  SchedInv'
<1> USE ThreadAssumption DEF SchedInv, TypeOK, CoreTypeOK, At, Goto
<1> DEFINE w == Head(defunct)
<1>0. /\ current = Idle /\ pc[Idle] = "run" /\ defunct # <<>> /\ defunct' = Tail(defunct)
      /\ current' = rt_schedule(rq) /\ UNCHANGED <<rq, stat, prio, timer, error, lockNest>>
  BY DEF rt_thread_idle_excute
<1>1. /\ w \in Thread /\ Contains(defunct, w)
      /\ defunct' \in Seq(Thread) /\ Distinct(defunct')
      /\ \A e : Contains(defunct', e) <=> Contains(defunct, e) /\ e # w
  BY <1>0, ListTail DEF DefunctOK
<1>2. \/ w \in Static /\ pc' = [pc EXCEPT ![w] = "cleaned"] /\ tgt' = tgt
      \/ /\ w \notin Static /\ pc' = [pc EXCEPT ![Idle] = "reap"]
         /\ tgt' = [tgt EXCEPT ![Idle] = w]
  BY DEF rt_thread_idle_excute
<1> HIDE DEF w
<1>3. stat[w] = "close" /\ Reaped(w) /\ w # Idle
  BY <1>1 DEF DefunctOK, IdleOK
<1>4. \A v \in Thread : tgt[v] # w
  BY <1>1, <1>3 DEF DefunctOK, TargetOK, Targeting
<1>5. tgt[w] = NoThread /\ pc[w] \notin Targeting /\ tgt[Idle] = NoThread
  BY <1>0, <1>1, <1>3, <1>4 DEF TargetOK, Targeting
<1>6. /\ ReadySet \in SUBSET Thread
      /\ lockNest = 0 => /\ current' \in ReadySet
                         /\ \A x \in ReadySet : prio[current'] <= prio[x]
      /\ lockNest # 0 => current' = current
  BY <1>0, IdleReady, ScheduleFacts DEF ReadyQueueOK, ReadySet
<1>7. current' \in ReadySet
  BY <1>0, <1>6, IdleReady
<1>8. ReadySet' = ReadySet
  BY <1>0, <1>1, <1>2, <1>3, <1>5 DEF ReadySet, BeingDeleted, Targeting
<1>9. ReadyQueueOK'
  BY <1>0, <1>8 DEF ReadyQueueOK
<1>10. CASE w \in Static
  <2>1. pc' = [pc EXCEPT ![w] = "cleaned"] /\ tgt' = tgt
    BY <1>2, <1>10
  <2>2. TypeOK'
    BY <2>1, <1>0, <1>1, <1>6, <1>7 DEF SchedPc
  <2>3. TargetOK'
    BY <2>1, <1>0, <1>1, <1>3, <1>4, <1>5, <1>10 DEF TargetOK, Targeting
  <2>4. TimerOK' /\ IdleOK'
    BY <2>1, <1>0, <1>3 DEF TimerOK, IdleOK
  <2>5. current' # w
    BY <1>3, <1>7 DEF ReadySet
  <2>6. CurrentOK' /\ PreemptOK'
    BY <2>1, <2>5, <1>0, <1>1, <1>6, <1>7, <1>8 DEF CurrentOK, PreemptOK
  <2>7. DefunctOK'
    BY <2>1, <1>0, <1>1, <1>3, <1>4, <1>5, <1>7 DEF DefunctOK, ReadySet, Targeting
  <2> QED BY <2>2, <2>3, <2>4, <2>6, <2>7, <1>9
<1>11. CASE w \notin Static
  <2>1. pc' = [pc EXCEPT ![Idle] = "reap"] /\ tgt' = [tgt EXCEPT ![Idle] = w]
    BY <1>2, <1>11
  <2>2. TypeOK'
    BY <2>1, <1>0, <1>1, <1>6, <1>7 DEF SchedPc
  <2>3. TargetOK'
    BY <2>1, <1>0, <1>1, <1>3, <1>4, <1>5, <1>11 DEF TargetOK, Targeting, IdleOK
  <2>4. TimerOK' /\ IdleOK'
    BY <2>1, <1>0, <1>3 DEF TimerOK, IdleOK
  <2>5. CurrentOK' /\ PreemptOK'
    BY <2>1, <1>0, <1>6, <1>7, <1>8 DEF CurrentOK, PreemptOK
  <2>6. DefunctOK'
    BY <2>1, <1>0, <1>1, <1>3, <1>4, <1>7, <1>11 DEF DefunctOK, ReadySet
  <2> QED BY <2>2, <2>3, <2>4, <2>5, <2>6, <1>9
<1> QED BY <1>10, <1>11

\* The idle thread frees the thread it took over.
LEMMA IdleFreeInv ==
    ASSUME SchedInv, IdleFree
    PROVE  SchedInv'
<1> USE ThreadAssumption DEF SchedInv, TypeOK, CoreTypeOK, IdleFree, At, Goto
<1> DEFINE w == tgt[Idle]
<1>1. w \in Thread /\ w # Idle /\ w \notin Static /\ stat[w] = "close"
  BY DEF TargetOK, Targeting
<1>2. \A v \in Thread : tgt[v] = w => v = Idle
  BY <1>1 DEF TargetOK
<1>3. TypeOK'
  BY <1>1 DEF SchedPc, Stat
<1>4. ReadySet' = ReadySet
  BY <1>1, <1>3 DEF ReadySet, BeingDeleted
<1>5. ReadyQueueOK'
  BY <1>4 DEF ReadyQueueOK
<1>6. TargetOK'
  BY <1>1, <1>2 DEF TargetOK, Targeting
<1>7. TimerOK' /\ IdleOK'
  BY <1>1 DEF TimerOK, IdleOK
<1>8. CurrentOK' /\ PreemptOK'
  BY <1>4, IdleReady DEF CurrentOK, PreemptOK
<1>9. DefunctOK'
  BY <1>1, <1>2 DEF DefunctOK, IdleOK
<1> QED BY <1>3, <1>5, <1>6, <1>7, <1>8, <1>9

\* The clock interrupt that ends a slice.
LEMMA TickInv ==
    ASSUME SchedInv, rt_tick_increase
    PROVE  SchedInv'
<1> USE ThreadAssumption DEF SchedInv, TypeOK, CoreTypeOK, rt_tick_increase
<1>1. /\ ReadySet \in SUBSET Thread
      /\ rq' \in ReadyQueue /\ RqOK(rq', ReadySet, prio)
  BY RqYield DEF ReadyQueueOK, ReadySet
<1>2. /\ lockNest = 0 => /\ current' \in ReadySet
                         /\ \A x \in ReadySet : prio[current'] <= prio[x]
      /\ lockNest # 0 => current' = current
  BY <1>1, IdleReady, ScheduleFacts
<1>3. TypeOK'
  BY <1>1, <1>2
<1>4. ReadySet' = ReadySet
  BY DEF ReadySet, BeingDeleted
<1>5. ReadyQueueOK'
  BY <1>1, <1>4 DEF ReadyQueueOK
<1>6. TargetOK' /\ TimerOK' /\ IdleOK'
  BY DEF TargetOK, TimerOK, IdleOK
<1>7. CurrentOK' /\ PreemptOK'
  BY <1>2, <1>4 DEF CurrentOK, DeletesItself, PreemptOK
<1>8. DefunctOK'
  BY <1>2 DEF DefunctOK, ReadySet
<1> QED BY <1>3, <1>5, <1>6, <1>7, <1>8

\* The clock interrupt that wakes a thread up.
LEMMA TimeoutInv ==
    ASSUME SchedInv, NEW t \in Thread, rt_thread_timeout(t)
    PROVE  SchedInv'
<1> USE ThreadAssumption DEF SchedInv, TypeOK, CoreTypeOK, rt_thread_timeout, rt_timer_stop
<1>1. stat[t] = "suspend" /\ t # Idle /\ \A v \in Thread : tgt[v] # t
  BY DEF TimerOK
<1>2. ReadySet \in SUBSET Thread /\ t \notin ReadySet
  BY <1>1 DEF ReadySet
<1>3. [rq EXCEPT !.table = Unlink(rq.table, t)] = rq
  BY <1>2, UnlinkAbsent DEF ReadyQueueOK
<1>4. /\ rq' = rt_schedule_insert_thread(rq, t, prio[t])
      /\ current' = rt_schedule(rq')
  BY <1>3
<1>5. rq' \in ReadyQueue /\ RqOK(rq', ReadySet \cup {t}, prio)
  <2>1. rq \in ReadyQueue /\ prio \in [Thread -> Prio] /\ RqOK(rq, ReadySet, prio)
    BY DEF ReadyQueueOK
  <2> HIDE DEF rt_thread_timeout, SchedInv, TypeOK, CoreTypeOK
  <2> QED BY <2>1, <1>2, <1>4, RqInsert
<1>6. /\ lockNest = 0 => /\ current' \in ReadySet \cup {t}
                         /\ \A x \in ReadySet \cup {t} : prio[current'] <= prio[x]
      /\ lockNest # 0 => current' = current
  <2>1. Idle \in ReadySet \cup {t} /\ ReadySet \cup {t} \in SUBSET Thread
    BY <1>2, IdleReady
  <2>2. prio \in [Thread -> Prio]
    OBVIOUS
  <2> HIDE DEF rt_thread_timeout, SchedInv, TypeOK, CoreTypeOK
  <2> QED BY <2>1, <2>2, <1>4, <1>5, ScheduleFacts
<1>7. defunct' = defunct
  BY <1>1, ListRemoveAbsent DEF DefunctOK
<1>8. TypeOK'
  BY <1>2, <1>5, <1>6, <1>7 DEF Stat, Error
<1>9. ReadySet' = ReadySet \cup {t}
  BY <1>1 DEF ReadySet, BeingDeleted
<1>10. ReadyQueueOK'
  BY <1>5, <1>9 DEF ReadyQueueOK
<1>11. TargetOK' /\ TimerOK' /\ IdleOK'
  BY <1>1 DEF TargetOK, Targeting, TimerOK, IdleOK
<1>12. CurrentOK' /\ PreemptOK'
  BY <1>1, <1>6, <1>9 DEF CurrentOK, DeletesItself, PreemptOK
<1>13. DefunctOK'
  BY <1>1, <1>6, <1>7 DEF DefunctOK, ReadySet
<1> QED BY <1>8, <1>10, <1>11, <1>12, <1>13

\* Every step of the kernel keeps the invariant.
LEMMA NextInv ==
    ASSUME Disciplined, SchedInv, [Next]_schedVars
    PROVE  SchedInv'
<1>1. CASE UNCHANGED schedVars
  BY <1>1 DEF schedVars, SchedInv, TypeOK, CoreTypeOK, ReadyQueueOK, ReadySet, BeingDeleted,
         TargetOK, TimerOK, IdleOK, CurrentOK, DeletesItself, PreemptOK, DefunctOK
<1>2. ASSUME NEW t \in Thread, ThreadCall(t) PROVE SchedInv'
  BY <1>2, CreateInv, StartupInv, ResumeInv, CompletionInv, SuspendInv, DeleteInv, ControlInv, SleepInv,
     YieldInv, ExitInv, CriticalInv DEF ThreadCall, rt_thread_delete, rt_thread_detach
<1>3. ASSUME NEW t \in Thread, ThreadStep(t) PROVE SchedInv'
  BY <1>3, ResumeUnlinkInv, ResumeInsertInv, SuspendRemoveInv, SleepReturnInv,
     DeleteTimerInv, DeleteCloseInv, DeleteDefunctInv, ScheduleInv DEF ThreadStep
<1>4. CASE rt_thread_idle_excute \/ IdleFree \/ Interrupt
  BY <1>4, IdleExcuteInv, IdleFreeInv, TickInv, TimeoutInv, CompletionIsrInv DEF Interrupt
<1> QED BY <1>1, <1>2, <1>3, <1>4 DEF Next

\* Whatever the threads call in whatever order, and wherever interrupts fall
\* between the sections of those calls, disciplined callers keep SchedInv.
THEOREM Invariance == ASSUME Disciplined PROVE Spec => []SchedInv
<1>1. SchedInv /\ [Next]_schedVars => SchedInv'
  BY NextInv
<1> QED BY <1>1, InitInv, PTL DEF Spec

\* Type correctness of the scheduler's state.
THEOREM TypeCorrect == ASSUME Disciplined PROVE Spec => []TypeOK
<1>1. SchedInv => TypeOK
  BY DEF SchedInv
<1> QED BY <1>1, Invariance, PTL

\* The ready lists and the priority bitmap agree with the threads' states.
THEOREM ReadyQueueCorrect == ASSUME Disciplined PROVE Spec => []ReadyQueueOK
<1>1. SchedInv => ReadyQueueOK
  BY DEF SchedInv
<1> QED BY <1>1, Invariance, PTL

\* The RT_ASSERT of rt_thread_timeout never fails.
THEOREM TimeoutAssertHolds == ASSUME Disciplined PROVE Spec => []TimeoutAssert
<1>1. SchedInv => TimeoutAssert
  BY DEF SchedInv, TimerOK, TimeoutAssert
<1> QED BY <1>1, Invariance, PTL

\* No thread runs application code while a more urgent one is ready.
THEOREM PreemptionHolds == ASSUME Disciplined PROVE Spec => []NoMissedPreemption
<1>1. SchedInv => NoMissedPreemption
  BY DEF SchedInv, PreemptOK, NoMissedPreemption
<1> QED BY <1>1, Invariance, PTL

\* The list of defunct threads is correct, and the running thread is never freed.
THEOREM DefunctCorrect == ASSUME Disciplined PROVE Spec => []DefunctOK
<1>1. SchedInv => DefunctOK
  BY DEF SchedInv
<1> QED BY <1>1, Invariance, PTL
-----------------------------------------------------------------------------
(* The steps of the blocking objects, as far as the scheduler sees them:    *)
(* what is left to the proofs of RtSem, RtMutex, RtMailbox and BkQueue is   *)
(* what those modules add.  RqInsert and RqRemove supply the facts about rq'. *)

\* The thread that takes a step of a call, and is not suspended in it, is ready
\* and in nobody's rt_thread_startup.
LEMMA BlockRunning ==
    ASSUME BlockInv, NEW t \in Thread, current = t, pc[t] \notin SuspendLabel
    PROVE  /\ stat[t] = "ready" /\ ~timer[t] /\ t \in ReadyThreads
           /\ \A v \in Thread : tgt[v] # t
           /\ pc[t] # "run" => t # Idle
           /\ pc[t] # "startup" => tgt[t] = NoThread
<1> USE ThreadAssumption DEF BlockInv, CoreTypeOK
<1>1. stat[t] = "ready" /\ ~timer[t] /\ t \in ReadyThreads
  BY DEF RunningOK, WaitTimerOK, ReadyThreads
<1>2. \A v \in Thread : tgt[v] # t
  BY <1>1 DEF StartedOK
<1>3. (pc[t] # "run" => t # Idle) /\ (pc[t] # "startup" => tgt[t] = NoThread)
  BY DEF RunningOK, StartedOK
<1> QED BY <1>1, <1>2, <1>3

\* Application code is such a thread's.
LEMMA BlockApp ==
    ASSUME BlockInv, NEW t \in Thread, InApp(t)
    PROVE  /\ stat[t] = "ready" /\ ~timer[t] /\ t \in ReadyThreads
           /\ \A v \in Thread : tgt[v] # t
           /\ t # Idle /\ tgt[t] = NoThread /\ t = current
           /\ pc[t] \notin WaitLabel /\ pc[t] # "startup"
<1>1. pc[t] \notin WaitLabel /\ pc[t] # "startup" /\ t = current /\ t # Idle
  BY DEF InApp, WaitLabel, SuspendLabel
<1> QED BY <1>1, BlockRunning DEF WaitLabel

\* The initial state.
LEMMA BlockInit == Init => BlockInv
<1> SUFFICES ASSUME Init PROVE BlockInv
  OBVIOUS
<1> USE ThreadAssumption, PrioAssumption
<1>1. SchedInv
  BY InitInv
<1>2. ReadyThreads = ReadySet
  BY DEF Init, ReadyThreads, ReadySet, BeingDeleted
<1>3. CoreTypeOK /\ RqOK(rq, ReadyThreads, prio)
  BY <1>1, <1>2 DEF SchedInv, TypeOK, ReadyQueueOK
<1>4. pc \in [Thread -> BlockLabel] /\ defunct = <<>>
  BY DEF Init, BlockLabel
<1>5. StartedOK /\ WaitTimerOK /\ RunningOK
  BY DEF Init, StartedOK, WaitTimerOK, RunningOK
<1> QED BY <1>3, <1>4, <1>5 DEF BlockInv

\* A call suspends its own thread.
LEMMA BlockSuspend ==
    ASSUME BlockInv, NEW t \in Thread, NEW l \in SuspendLabel,
           current = t, t # Idle, pc[t] \notin SuspendLabel, pc[t] # "startup", lockNest = 0,
           stat' = [stat EXCEPT ![t] = "suspend"],
           rq' \in ReadyQueue, RqOK(rq', ReadyThreads \ {t}, prio'),
           prio' \in [Thread -> Prio], error' \in [Thread -> Error],
           NEW b \in BOOLEAN, timer' = [timer EXCEPT ![t] = b],
           Goto(t, l), UNCHANGED <<defunct, current, lockNest, tgt>>
    PROVE  BlockInv' /\ ReadyThreads' = ReadyThreads \ {t}
<1> USE ThreadAssumption DEF BlockInv, CoreTypeOK
<1>1. /\ stat[t] = "ready" /\ tgt[t] = NoThread /\ \A v \in Thread : tgt[v] # t
  BY BlockRunning
<1>2. ReadyThreads' = ReadyThreads \ {t}
  BY DEF ReadyThreads
<1>3. l \in WaitLabel /\ l \in BlockLabel /\ l # "startup" /\ l # "run"
  BY DEF WaitLabel, BlockLabel, SuspendLabel
<1>4. CoreTypeOK' /\ (pc \in [Thread -> BlockLabel])' /\ (defunct = <<>>)'
  BY <1>3 DEF Goto, Stat
<1>5. RqOK(rq', ReadyThreads', prio')
  BY <1>2
<1>6. StartedOK'
  BY <1>1, <1>3 DEF StartedOK, Goto
<1>7. WaitTimerOK'
  BY <1>3 DEF WaitTimerOK, Goto
<1>8. RunningOK'
  BY <1>3 DEF RunningOK, Goto
<1> QED BY <1>2, <1>4, <1>5, <1>6, <1>7, <1>8

\* rt_schedule on the queue of the next state.
LEMMA BlockScheduled ==
    ASSUME BlockInv, Idle \in ReadyThreads', ReadyThreads' \in SUBSET Thread,
           rq' \in ReadyQueue, prio' \in [Thread -> Prio], RqOK(rq', ReadyThreads', prio'),
           current' = rt_schedule(rq'),
           current \in ReadyThreads' \/ lockNest = 0
    PROVE  current' \in ReadyThreads'
  BY ScheduleFacts DEF rt_schedule

\* A call, or an interrupt, makes a waiting thread w ready.  The caller t goes on
\* at l; rt_schedule comes later, or at once in an interrupt handler.
LEMMA BlockWake ==
    ASSUME BlockInv, NEW w \in Thread, stat[w] = "suspend", pc[w] \in WaitLabel,
           stat' = [stat EXCEPT ![w] = "ready"],
           timer' = [timer EXCEPT ![w] = FALSE],
           rq' \in ReadyQueue, RqOK(rq', ReadyThreads \cup {w}, prio'),
           prio' \in [Thread -> Prio], error' \in [Thread -> Error],
           UNCHANGED <<defunct, lockNest, tgt>>,
           \/ UNCHANGED pc /\ (current' = current \/ current' = rt_schedule(rq'))
           \/ /\ UNCHANGED current /\ pc[current] \notin SuspendLabel \cup {"startup"}
              /\ current # Idle
              /\ \E l \in BlockLabel \ (WaitLabel \cup {"startup"}) : Goto(current, l)
    PROVE  BlockInv' /\ ReadyThreads' = ReadyThreads \cup {w}
<1> USE ThreadAssumption DEF BlockInv, CoreTypeOK
<1>1. "startup" \notin WaitLabel /\ "run" \notin WaitLabel /\ SuspendLabel \subseteq WaitLabel
  BY DEF WaitLabel, SuspendLabel
<1>2. w # Idle /\ \A v \in Thread : tgt[v] # w
  BY <1>1 DEF StartedOK, RunningOK
<1>3. ReadyThreads' = ReadyThreads \cup {w}
  BY DEF ReadyThreads
<1>4. RqOK(rq', ReadyThreads', prio')
  BY <1>3
<1>5. /\ pc' \in [Thread -> BlockLabel] /\ \A v \in Thread : v # current => pc'[v] = pc[v]
      /\ UNCHANGED pc \/ (stat[current] = "ready" /\ ~timer[current])
  <2>1. CASE UNCHANGED pc
    BY <2>1
  <2>2. ASSUME ~UNCHANGED pc
        PROVE  stat[current] = "ready" /\ ~timer[current] /\ \E l \in BlockLabel : Goto(current, l)
    BY <2>2, BlockRunning
  <2> QED BY <2>1, <2>2 DEF Goto
<1>6. Idle \in ReadyThreads' /\ ReadyThreads' \in SUBSET Thread
  BY DEF ReadyThreads, RunningOK
<1>7. current' = current \/ current' \in ReadyThreads'
  <2>1. current' = rt_schedule(rq') => current' = current \/ lockNest = 0
    BY DEF rt_schedule
  <2> QED BY <2>1, <1>4, <1>6, BlockScheduled
<1>8. CoreTypeOK' /\ (defunct = <<>>)'
  BY <1>6, <1>7 DEF Stat
<1>9. StartedOK'
  <2>1. CASE UNCHANGED pc
    BY <2>1, <1>2 DEF StartedOK
  <2>2. ASSUME ~UNCHANGED pc PROVE StartedOK'
    <3>1. PICK l \in BlockLabel \ (WaitLabel \cup {"startup"}) : Goto(current, l)
      BY <2>2
    <3>2. /\ pc[current] \notin SuspendLabel \cup {"startup"}
      BY <2>2
    <3>3. stat[current] = "ready" /\ \A v \in Thread : tgt[v] # current
      BY <3>2, <1>1, BlockRunning
    <3> QED BY <3>1, <3>2, <3>3, <1>2 DEF StartedOK, Goto
  <2> QED BY <2>1, <2>2
<1>10. WaitTimerOK'
  <2> SUFFICES ASSUME NEW v \in Thread, timer'[v] PROVE stat'[v] = "suspend" /\ pc'[v] \in WaitLabel
    BY DEF WaitTimerOK
  <2>1. v # w /\ timer[v] /\ stat[v] = "suspend" /\ pc[v] \in WaitLabel
    BY DEF WaitTimerOK
  <2> QED BY <2>1, <1>5
<1>11. RunningOK'
  <2>1. stat'[Idle] = "ready" /\ pc'[Idle] = "run"
    BY DEF RunningOK, Goto
  <2>2. CASE current' \in ReadyThreads'
    BY <2>1, <2>2 DEF RunningOK, ReadyThreads
  <2>3. CASE current' = current
    <3>1. CASE UNCHANGED pc
      BY <2>1, <2>3, <3>1 DEF RunningOK
    <3>2. CASE stat[current] = "ready"
      BY <2>1, <2>3, <3>2 DEF RunningOK
    <3> QED BY <3>1, <3>2, <1>5
  <2> QED BY <2>2, <2>3, <1>7
<1> QED BY <1>3, <1>4, <1>5, <1>8, <1>9, <1>10, <1>11

\* A reset makes all waiting threads of W ready; the caller goes on to rt_schedule.
LEMMA BlockWakeAll ==
    ASSUME BlockInv, NEW W \in SUBSET Thread,
           \A w \in W : stat[w] = "suspend" /\ pc[w] \in WaitLabel,
           stat' = [u \in Thread |-> IF u \in W THEN "ready" ELSE stat[u]],
           timer' = [u \in Thread |-> timer[u] /\ u \notin W],
           rq' \in ReadyQueue, RqOK(rq', ReadyThreads \cup W, prio),
           error' \in [Thread -> Error],
           NEW t \in Thread, InApp(t), Goto(t, "sched"),
           UNCHANGED <<prio, defunct, current, lockNest, tgt>>
    PROVE  BlockInv' /\ ReadyThreads' = ReadyThreads \cup W
<1> USE ThreadAssumption DEF BlockInv, CoreTypeOK
<1>1. /\ stat[t] = "ready" /\ ~timer[t] /\ \A v \in Thread : tgt[v] # t
      /\ t # Idle /\ tgt[t] = NoThread /\ t = current /\ pc[t] # "startup"
  BY BlockApp
<1>2. "run" \notin WaitLabel /\ "startup" \notin WaitLabel /\ "sched" \in BlockLabel
  BY DEF WaitLabel, SuspendLabel, BlockLabel
<1>3. Idle \notin W /\ t \notin W /\ \A v \in Thread : tgt[v] \notin W
  BY <1>1, <1>2 DEF RunningOK, StartedOK
<1>4. ReadyThreads' = ReadyThreads \cup W
  BY DEF ReadyThreads
<1>5. RqOK(rq', ReadyThreads', prio')
  BY <1>4
<1>6. CoreTypeOK' /\ (pc \in [Thread -> BlockLabel])' /\ (defunct = <<>>)'
  BY <1>2 DEF Goto, Stat
<1>7. StartedOK'
  BY <1>1, <1>2, <1>3 DEF StartedOK, Goto
<1>8. WaitTimerOK'
  BY <1>1 DEF WaitTimerOK, Goto
<1>9. RunningOK'
  BY <1>1, <1>3 DEF RunningOK, Goto
<1> QED BY <1>4, <1>5, <1>6, <1>7, <1>8, <1>9

\* The rt_schedule of a call that waits.
LEMMA BlockSwitch ==
    ASSUME BlockInv, NEW t \in Thread, NEW l \in WaitLabel, current = t,
           pc[t] \in SuspendLabel, current' = rt_schedule(rq), Goto(t, l),
           lockNest = 0 \/ l \notin SuspendLabel,
           UNCHANGED <<rq, stat, prio, timer, error, defunct, lockNest, tgt>>
    PROVE  BlockInv' /\ ReadyThreads' = ReadyThreads
<1> USE ThreadAssumption DEF BlockInv, CoreTypeOK
<1>1. /\ "startup" \notin WaitLabel /\ "run" \notin WaitLabel /\ SuspendLabel \subseteq WaitLabel
      /\ WaitLabel \subseteq BlockLabel
  BY DEF WaitLabel, SuspendLabel, BlockLabel
<1>2. ReadyThreads' = ReadyThreads /\ Idle \in ReadyThreads /\ ReadyThreads \in SUBSET Thread
  BY DEF ReadyThreads, RunningOK
<1>3. current' \in ReadyThreads
  <2>1. lockNest = 0 => current' \in ReadyThreads
    BY <1>2, ScheduleFacts
  <2>2. lockNest # 0 => current' = current /\ current \in ReadyThreads
    BY DEF rt_schedule, RunningOK, ReadyThreads
  <2> QED BY <2>1, <2>2
<1>4. CoreTypeOK' /\ (pc \in [Thread -> BlockLabel])' /\ (defunct = <<>>)'
  BY <1>1, <1>2, <1>3 DEF Goto
<1>5. RqOK(rq', ReadyThreads', prio')
  BY <1>2
<1>6. t # Idle
  BY <1>1 DEF RunningOK
<1>7. StartedOK' /\ WaitTimerOK'
  BY <1>1 DEF StartedOK, WaitTimerOK, Goto
<1>8. RunningOK'
  BY <1>2, <1>3, <1>6 DEF RunningOK, ReadyThreads, Goto
<1> QED BY <1>2, <1>4, <1>5, <1>7, <1>8

\* A step that only moves the running thread on, out of a wait it was in.
LEMMA BlockLocal ==
    ASSUME BlockInv, NEW t \in Thread, current = t, t # Idle,
           pc[t] \notin SuspendLabel \cup {"startup"},
           rq' \in ReadyQueue, RqOK(rq', ReadyThreads, prio'),
           prio' \in [Thread -> Prio], error' \in [Thread -> Error],
           UNCHANGED <<stat, timer, defunct, current, lockNest, tgt>>,
           \/ UNCHANGED pc
           \/ \E l \in BlockLabel \ (SuspendLabel \cup {"startup"}) : Goto(t, l)
    PROVE  BlockInv' /\ ReadyThreads' = ReadyThreads
<1> USE ThreadAssumption DEF BlockInv, CoreTypeOK
<1>1. stat[t] = "ready" /\ ~timer[t] /\ \A v \in Thread : tgt[v] # t
  BY BlockRunning
<1>2. ReadyThreads' = ReadyThreads
  BY DEF ReadyThreads
<1>3. PICK l \in BlockLabel \ (SuspendLabel \cup {"startup"}) : pc' = [pc EXCEPT ![t] = l]
  <2>1. CASE UNCHANGED pc
    <3>1. pc' = [pc EXCEPT ![t] = pc[t]] /\ pc[t] \in BlockLabel
      BY <2>1
    <3> QED BY <3>1
  <2> QED BY <2>1 DEF Goto
<1>4. CoreTypeOK' /\ (pc \in [Thread -> BlockLabel])' /\ (defunct = <<>>)'
  BY <1>3
<1>5. RqOK(rq', ReadyThreads', prio')
  BY <1>2
<1>6. StartedOK'
  BY <1>1, <1>3 DEF StartedOK
<1>7. WaitTimerOK' /\ RunningOK'
  BY <1>1, <1>3 DEF WaitTimerOK, RunningOK
<1> QED BY <1>2, <1>4, <1>5, <1>6, <1>7

\* rt_thread_startup: its argument counts as suspended, and is not queued yet.
LEMMA BlockStartup ==
    ASSUME Disciplined, BlockInv, NEW t \in Thread, NEW u \in Thread, rt_thread_startup(t, u)
    PROVE  /\ BlockInv' /\ ReadyThreads' = ReadyThreads
           /\ u # t /\ pc[u] = "run" /\ stat[u] = "init"
<1> USE ThreadAssumption, PrioAssumption DEF BlockInv, CoreTypeOK, rt_thread_startup
<1>1. /\ stat[t] = "ready" /\ t # Idle /\ tgt[t] = NoThread /\ t = current
      /\ \A v \in Thread : tgt[v] # t
  BY BlockApp
<1>2. /\ u # Idle /\ u # t /\ ~timer[u] /\ tgt[u] = NoThread /\ pc[u] = "run"
      /\ \A v \in Thread : tgt[v] # u
  BY <1>1 DEF MayManage, StartedOK, WaitTimerOK
<1>3. CoreTypeOK' /\ (pc \in [Thread -> BlockLabel])' /\ (defunct = <<>>)'
  BY DEF Goto, Stat, BlockLabel
<1>4. ReadyThreads' = ReadyThreads /\ \A v \in ReadyThreads : prio'[v] = prio[v]
  BY DEF ReadyThreads
<1>5. RqOK(rq', ReadyThreads', prio')
  <2>1. ReadyThreads \in SUBSET Thread
    BY DEF ReadyThreads
  <2>2. RqOK(rq, ReadyThreads, prio')
    BY <2>1, <1>4, RqCongruence
  <2> QED BY <2>2, <1>4
<1>6. StartedOK'
  BY <1>1, <1>2 DEF StartedOK, Goto
<1>7. WaitTimerOK' /\ RunningOK'
  BY <1>1, <1>2 DEF WaitTimerOK, RunningOK, Goto
<1> QED BY <1>2, <1>3, <1>4, <1>5, <1>6, <1>7

\* The end of rt_thread_startup: its argument is queued.
LEMMA BlockStarted ==
    ASSUME BlockInv, NEW t \in Thread, ResumeInsert(t)
    PROVE  /\ BlockInv' /\ tgt[t] \in Thread /\ tgt[t] # t
           /\ stat[tgt[t]] = "suspend" /\ pc[tgt[t]] = "run" /\ pc[t] = "startup"
           /\ ReadyThreads' = ReadyThreads \cup {tgt[t]} /\ pc' = [pc EXCEPT ![t] = "sched"]
<1> USE ThreadAssumption DEF BlockInv, CoreTypeOK, ResumeInsert
<1> DEFINE w == tgt[t]
<1>1. pc[t] = "startup" /\ t # Idle
  BY DEF BlockLabel, WaitLabel, SuspendLabel, RunningOK
<1>2. w \in Thread /\ w # Idle /\ stat[w] = "suspend" /\ pc[w] = "run" /\ w # t
  BY <1>1 DEF StartedOK
<1>3. pc' = [pc EXCEPT ![t] = "sched"]
  BY <1>1 DEF Goto
<1>4. \A v \in Thread : tgt[v] = w => v = t
  BY <1>2 DEF StartedOK
<1>5. stat[t] = "ready" /\ t = current /\ \A v \in Thread : tgt[v] # t
  <2>1. "startup" \notin SuspendLabel
    BY DEF SuspendLabel
  <2> QED BY <1>1, <2>1, BlockRunning
<1>6. ReadyThreads' = ReadyThreads \cup {w} /\ ReadyThreads \in SUBSET Thread /\ w \notin ReadyThreads
  BY <1>2 DEF ReadyThreads
<1>7. rq' \in ReadyQueue /\ RqOK(rq', ReadyThreads', prio')
  BY <1>2, <1>6, RqInsert
<1>8. CoreTypeOK' /\ (pc \in [Thread -> BlockLabel])' /\ (defunct = <<>>)'
  BY <1>2, <1>3, <1>7 DEF Stat, BlockLabel
<1>9. StartedOK'
  BY <1>2, <1>3, <1>4, <1>5 DEF StartedOK
<1>10. WaitTimerOK'
  <2>1. "run" \notin WaitLabel /\ "startup" \notin WaitLabel
    BY DEF WaitLabel, SuspendLabel
  <2> QED BY <2>1, <1>1, <1>2, <1>3 DEF WaitTimerOK
<1>11. RunningOK'
  BY <1>1, <1>2, <1>3, <1>5 DEF RunningOK
<1> QED BY <1>1, <1>2, <1>3, <1>6, <1>7, <1>8, <1>9, <1>10, <1>11

\* rt_thread_sleep, whole: its section, rt_schedule, its return.
LEMMA BlockSleep ==
    ASSUME BlockInv, NEW t \in Thread, rt_thread_sleep(t)
    PROVE  BlockInv' /\ ReadyThreads' = ReadyThreads \ {t}
<1>1. /\ t = current /\ t # Idle /\ pc[t] \notin WaitLabel /\ pc[t] # "startup"
      /\ t \in ReadyThreads
  BY BlockApp DEF rt_thread_sleep
<1>2. /\ rq' \in ReadyQueue /\ RqOK(rq', ReadyThreads \ {t}, prio')
      /\ prio' \in [Thread -> Prio] /\ error' \in [Thread -> Error]
  <2>1. ReadyThreads \in SUBSET Thread
    BY DEF ReadyThreads
  <2> QED BY <2>1, RqRemove DEF rt_thread_sleep, BlockInv, CoreTypeOK
<1>3. "sleep" \in SuspendLabel /\ SuspendLabel \subseteq WaitLabel
  BY DEF SuspendLabel, WaitLabel
<1> QED BY <1>1, <1>2, <1>3, BlockSuspend DEF rt_thread_sleep, MayBlock

\* The end of rt_thread_sleep.
LEMMA BlockSleepReturn ==
    ASSUME BlockInv, NEW t \in Thread, SleepReturn(t)
    PROVE  BlockInv' /\ ReadyThreads' = ReadyThreads
<1>1. /\ pc[t] \notin SuspendLabel \cup {"startup"} /\ pc[t] # "run" /\ current = t
      /\ "run" \in BlockLabel \ (SuspendLabel \cup {"startup"})
  BY DEF SleepReturn, At, SuspendLabel, BlockLabel
<1>2. /\ rq' \in ReadyQueue /\ RqOK(rq', ReadyThreads, prio')
      /\ prio' \in [Thread -> Prio] /\ error' \in [Thread -> Error]
  BY DEF SleepReturn, BlockInv, CoreTypeOK, Error
<1>3. t # Idle
  BY <1>1, BlockRunning
<1> QED BY <1>1, <1>2, <1>3, BlockLocal DEF SleepReturn

\* rt_enter_critical and rt_exit_critical.
LEMMA BlockCritical ==
    ASSUME BlockInv, NEW t \in Thread, rt_enter_critical(t) \/ rt_exit_critical(t)
    PROVE  BlockInv' /\ ReadyThreads' = ReadyThreads
<1> USE ThreadAssumption, PrioAssumption DEF BlockInv, CoreTypeOK
<1>1. InApp(t) /\ lockNest' \in 0..MaxNest
  BY DEF rt_enter_critical, rt_exit_critical, NestAfterExit
<1>2. /\ stat[t] = "ready" /\ ~timer[t] /\ t # Idle /\ tgt[t] = NoThread /\ t = current
      /\ \A v \in Thread : tgt[v] # t
  BY <1>1, BlockApp
<1>3. /\ UNCHANGED <<rq, stat, prio, timer, error, defunct, current, tgt>>
      /\ pc' = pc \/ pc' = [pc EXCEPT ![t] = "sched"] \/ pc' = [pc EXCEPT ![t] = pc[t]]
  BY DEF rt_enter_critical, rt_exit_critical, NestAfterExit, Goto
<1>4. CoreTypeOK' /\ (pc \in [Thread -> BlockLabel])' /\ (defunct = <<>>)'
  BY <1>1, <1>3 DEF BlockLabel
<1>5. ReadyThreads' = ReadyThreads /\ RqOK(rq', ReadyThreads', prio')
  BY <1>3 DEF ReadyThreads
<1>6. StartedOK'
  BY <1>2, <1>3 DEF StartedOK
<1>7. WaitTimerOK' /\ RunningOK'
  BY <1>2, <1>3 DEF WaitTimerOK, RunningOK
<1> QED BY <1>4, <1>5, <1>6, <1>7

\* The rt_schedule at the end of a call, or inside rt_thread_sleep.
LEMMA BlockSchedule ==
    ASSUME BlockInv, NEW t \in Thread, Schedule(t)
    PROVE  BlockInv' /\ ReadyThreads' = ReadyThreads
<1>1. pc[t] \in {"sched", "sleep"} /\ t = current
  BY DEF Schedule, BlockInv, BlockLabel, WaitLabel, SuspendLabel
<1>2. CASE pc[t] = "sleep"
  <2>1. "sleep" \in SuspendLabel /\ "woken" \in WaitLabel /\ "woken" \notin SuspendLabel
    BY DEF SuspendLabel, WaitLabel
  <2>2. Goto(t, "woken")
    BY <1>2 DEF Schedule
  <2> QED BY <1>1, <1>2, <2>1, <2>2, BlockSwitch DEF Schedule
<1>3. CASE pc[t] = "sched"
  <2> USE ThreadAssumption DEF BlockInv, CoreTypeOK
  <2>1. "sched" \notin SuspendLabel /\ "sched" \notin WaitLabel /\ "run" \notin WaitLabel
        /\ "run" \in BlockLabel
    BY DEF SuspendLabel, WaitLabel, BlockLabel
  <2>2. /\ stat[t] = "ready" /\ ~timer[t] /\ tgt[t] = NoThread /\ t # Idle
        /\ \A v \in Thread : tgt[v] # t
    BY <1>1, <1>3, <2>1, BlockRunning
  <2>3. pc' = [pc EXCEPT ![t] = "run"]
    BY <1>3 DEF Schedule, Goto
  <2>4. ReadyThreads' = ReadyThreads /\ Idle \in ReadyThreads /\ ReadyThreads \in SUBSET Thread
    BY DEF ReadyThreads, RunningOK, Schedule
  <2>5. current' \in ReadyThreads
    <3>1. lockNest = 0 => current' \in ReadyThreads
      BY <2>4, ScheduleFacts DEF Schedule
    <3>2. lockNest # 0 => current' = t /\ t \in ReadyThreads
      BY <1>1, <2>2 DEF rt_schedule, Schedule, ReadyThreads
    <3> QED BY <3>1, <3>2
  <2>6. CoreTypeOK' /\ (pc \in [Thread -> BlockLabel])' /\ (defunct = <<>>)'
    BY <2>1, <2>3, <2>4, <2>5 DEF Schedule
  <2>7. RqOK(rq', ReadyThreads', prio')
    BY <2>4 DEF Schedule
  <2>8. StartedOK'
    BY <2>2, <2>3 DEF StartedOK, Schedule
  <2>9. WaitTimerOK' /\ RunningOK'
    BY <2>2, <2>3, <2>4, <2>5 DEF WaitTimerOK, RunningOK, ReadyThreads, Schedule
  <2> QED BY <2>4, <2>6, <2>7, <2>8, <2>9
<1> QED BY <1>1, <1>2, <1>3

\* The clock interrupt that ends a slice.
LEMMA BlockTick ==
    ASSUME BlockInv, rt_tick_increase
    PROVE  BlockInv' /\ ReadyThreads' = ReadyThreads /\ UNCHANGED <<pc, stat, error>>
<1> USE ThreadAssumption DEF BlockInv, CoreTypeOK, rt_tick_increase
<1>1. /\ ReadyThreads' = ReadyThreads /\ Idle \in ReadyThreads
      /\ ReadyThreads \in SUBSET Thread /\ current \in ReadyThreads
  BY DEF ReadyThreads, RunningOK
<1>2. rq' \in ReadyQueue /\ RqOK(rq', ReadyThreads', prio')
  BY <1>1, RqYield
<1>3. current' \in ReadyThreads'
  BY <1>1, <1>2, ScheduleFacts
<1>4. CoreTypeOK' /\ (pc \in [Thread -> BlockLabel])' /\ (defunct = <<>>)'
  BY <1>1, <1>2, <1>3
<1>5. StartedOK' /\ WaitTimerOK' /\ RunningOK'
  BY <1>3 DEF StartedOK, WaitTimerOK, RunningOK, ReadyThreads
<1> QED BY <1>1, <1>2, <1>4, <1>5

\* The clock interrupt that ends a wait.
LEMMA BlockTimeout ==
    ASSUME BlockInv, NEW t \in Thread, rt_thread_timeout(t)
    PROVE  /\ BlockInv' /\ ReadyThreads' = ReadyThreads \cup {t}
           /\ stat[t] = "suspend" /\ pc[t] \in WaitLabel /\ timer[t]
           /\ UNCHANGED <<pc, prio, tgt, lockNest>>
           /\ stat' = [stat EXCEPT ![t] = "ready"] /\ error' = [error EXCEPT ![t] = "ETIMEOUT"]
           /\ timer' = [timer EXCEPT ![t] = FALSE]
<1> USE DEF BlockInv, CoreTypeOK, rt_thread_timeout, rt_timer_stop
<1>1. stat[t] = "suspend" /\ pc[t] \in WaitLabel /\ timer[t]
  BY DEF WaitTimerOK
<1>2. ReadyThreads \in SUBSET Thread /\ t \notin ReadyThreads
  BY <1>1 DEF ReadyThreads
<1>3. [rq EXCEPT !.table = Unlink(rq.table, t)] = rq
  BY <1>2, UnlinkAbsent
<1>4. rq' = rt_schedule_insert_thread(rq, t, prio[t]) /\ current' = rt_schedule(rq')
  BY <1>3
<1>5. /\ rq \in ReadyQueue /\ prio \in [Thread -> Prio]
      /\ RqOK(rq, ReadyThreads, prio) /\ prio' = prio
  OBVIOUS
<1>6. defunct' = defunct
  BY ListRemoveAbsent DEF Contains
<1>7. prio' \in [Thread -> Prio] /\ error' \in [Thread -> Error]
  BY DEF Error
<1>8. /\ stat' = [stat EXCEPT ![t] = "ready"] /\ timer' = [timer EXCEPT ![t] = FALSE]
      /\ error' = [error EXCEPT ![t] = "ETIMEOUT"] /\ UNCHANGED <<pc, prio, tgt, lockNest>>
  OBVIOUS
<1> HIDE DEF BlockInv, CoreTypeOK, rt_thread_timeout, rt_timer_stop
<1>9. rq' \in ReadyQueue /\ RqOK(rq', ReadyThreads \cup {t}, prio')
  BY <1>2, <1>4, <1>5, RqInsert
<1>10. BlockInv' /\ ReadyThreads' = ReadyThreads \cup {t}
  BY <1>1, <1>4, <1>6, <1>7, <1>8, <1>9, BlockWake
<1> QED BY <1>1, <1>8, <1>10

\* A step that changes nothing the scheduler knows.
LEMMA BlockStutter ==
    ASSUME BlockInv, UNCHANGED schedVars
    PROVE  BlockInv' /\ ReadyThreads' = ReadyThreads
<1> USE DEF schedVars
<1>1. ReadyThreads' = ReadyThreads
  BY DEF ReadyThreads
<1>2. StartedOK' /\ WaitTimerOK' /\ RunningOK'
  BY DEF BlockInv, StartedOK, WaitTimerOK, RunningOK
<1> QED BY <1>1, <1>2 DEF BlockInv, CoreTypeOK
=============================================================================

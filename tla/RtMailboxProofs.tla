-------------------------- MODULE RtMailboxProofs --------------------------
(***************************************************************************)
(* Proofs about RtMailbox: MbInv is inductive, one lemma per action, the   *)
(* invariants of the run follow, and every step is a step of BoundedFifo   *)
(* or leaves its variables alone.  What a step does to the scheduler's     *)
(* part of the state is taken from the Block lemmas of RtSchedProofs.      *)
(***************************************************************************)
EXTENDS RtMailbox, RtSchedProofs, FiniteSetTheorems

\* Where a thread stands: in the mailbox's own system outside it or in it, and where
\* the mailbox is part of a queue also in the queue's memory pool.
OwnLabel == {"run", "unsched", "sched", "startup"} \cup MbPc
MbLabel == OwnLabel \cup {"alloc", "alloc_chk", "detach", "detach_one"}
DetachLabel == {"mb_detach", "mb_detach_one", "mb_detach_s", "mb_detach_s_one"}

\* The mail of a call is on the caller's side while the call waits.
MailOK == \A t \in Thread : (InSend(t) => mail[t] \in Mail) /\ (InRecv(t) => mail[t] = NoMail)

\* A call that still waits has not been answered.
MbErrorOK == \A t \in Thread : (InSend(t) \/ InRecv(t)) /\ stat[t] = "suspend" => error[t] = "EOK"

\* Only a mailbox that is gone is in the loops of rt_mb_detach.
DetachDead == \A t \in Thread : pc[t] \in DetachLabel => ~mbAlive

\* The offsets of the ring are entry places apart, modulo the size.
RingOK == inOff = (outOff + entry) % MbSize

\* MbTypeOK without the labels.
MbFieldsOK ==
    /\ msgPool \in [0..(MbSize - 1) -> Mail \cup {NoMail}] /\ entry \in 0..MbSize
    /\ inOff \in 0..(MbSize - 1) /\ outOff \in 0..(MbSize - 1)
    /\ receivers \in Seq(Thread) /\ senders \in Seq(Thread)
    /\ mbTime \in [Thread -> {"no", "timed", "forever"}] /\ mbAlive \in BOOLEAN
    /\ mail \in [Thread -> Mail \cup {NoMail}]

\* The inductive invariant.
MbInv == /\ BlockInv /\ pc \in [Thread -> MbLabel] /\ MbFieldsOK /\ MbWaitersOK /\ MbNoLostWakeup
         /\ MailOK /\ MbErrorOK /\ DetachDead /\ RingOK

WokenRecv == {t \in Thread : InRecv(t) /\ stat[t] = "ready" /\ error[t] = "EOK"}
WokenSend == {t \in Thread : InSend(t) /\ stat[t] = "ready" /\ error[t] = "EOK"}

\* The two halves of MbNoLostWakeup over the sets of woken threads.
ReceiversServed == receivers # <<>> => entry <= Cardinality(WokenRecv)
SendersServed == senders # <<>> => MbSize - entry <= Cardinality(WokenSend)

\* MbNoLostWakeup is its two halves, in the present state and in the next.
LEMMA LostWakeupHalves ==
    /\ MbNoLostWakeup <=> (mbAlive => ReceiversServed /\ SendersServed)
    /\ MbNoLostWakeup' <=> (mbAlive' => ReceiversServed' /\ SendersServed')
  BY DEF MbNoLostWakeup, ReceiversServed, SendersServed, WokenRecv, WokenSend, WokenIn

\* The woken threads are finitely many.
LEMMA WokenFinite ==
    /\ IsFiniteSet(WokenRecv) /\ Cardinality(WokenRecv) \in Nat
    /\ IsFiniteSet(WokenSend) /\ Cardinality(WokenSend) \in Nat
<1>1. WokenRecv \subseteq Thread /\ WokenSend \subseteq Thread
  BY DEF WokenRecv, WokenSend
<1> QED BY <1>1, ThreadAssumption, FS_Subset, FS_CardinalityType

\* Adding a woken thread, or taking one away, changes their number by one.
LEMMA WokenCount ==
    ASSUME NEW W, IsFiniteSet(W), NEW w
    PROVE  /\ Cardinality(W) \in Nat /\ Cardinality(W \cup {w}) \in Nat /\ Cardinality(W \ {w}) \in Nat
           /\ w \notin W => Cardinality(W \cup {w}) = Cardinality(W) + 1
           /\ w \in W => Cardinality(W \ {w}) = Cardinality(W) - 1
<1>1. IsFiniteSet(W \cup {w}) /\ IsFiniteSet(W \ {w})
  BY FS_AddElement, FS_RemoveElement
<1> QED BY <1>1, FS_CardinalityType, FS_AddElement, FS_RemoveElement

\* When at most one woken thread goes, at most one is missing.
LEMMA WokenLeaves ==
    ASSUME NEW W, IsFiniteSet(W), NEW w, NEW V, V = W \/ V = W \ {w}
    PROVE  /\ Cardinality(W) \in Nat /\ Cardinality(V) \in Nat
           /\ Cardinality(V) >= Cardinality(W) - 1
<1>1. Cardinality(W) \in Nat /\ Cardinality(W \ {w}) \in Nat
  BY WokenCount
<1>2. CASE V = W
  BY <1>1, <1>2
<1>3. CASE V = W \ {w} /\ w \in W
  <2>1. Cardinality(V) = Cardinality(W) - 1
    BY <1>3, WokenCount
  <2> QED BY <1>1, <1>3, <2>1
<1>4. CASE V = W \ {w} /\ w \notin W
  <2>1. V = W
    BY <1>4
  <2> QED BY <1>1, <2>1
<1> QED BY <1>2, <1>3, <1>4

\* The labels of the mailbox among those of the scheduler.
LEMMA MbLabels ==
    /\ {"send", "recv"} \subseteq SuspendLabel
    /\ {"send_chk", "recv_chk"} \subseteq WaitLabel \ SuspendLabel
    /\ {"run", "unsched", "sched"} \cup DetachLabel \subseteq BlockLabel \ (WaitLabel \cup {"startup"})
    /\ SuspendLabel \subseteq WaitLabel /\ WaitLabel \subseteq BlockLabel
    /\ "startup" \notin WaitLabel
  BY DEF SuspendLabel, WaitLabel, BlockLabel, DetachLabel

\* The types, gathered.
LEMMA MbFacts ==
    ASSUME MbInv
    PROVE  /\ BlockInv /\ pc \in [Thread -> MbLabel] /\ stat \in [Thread -> Stat]
           /\ error \in [Thread -> Error] /\ prio \in [Thread -> Prio] /\ prio \in [Thread -> Nat]
           /\ rq \in ReadyQueue /\ RqOK(rq, ReadyThreads, prio) /\ ReadyThreads \in SUBSET Thread
           /\ receivers \in Seq(Thread) /\ senders \in Seq(Thread)
           /\ Distinct(receivers) /\ Distinct(senders)
           /\ mail \in [Thread -> Mail \cup {NoMail}]
           /\ mbTime \in [Thread -> {"no", "timed", "forever"}] /\ mbAlive \in BOOLEAN
  BY DEF MbInv, BlockInv, CoreTypeOK, MbFieldsOK, MbWaitersOK, ReadyThreads, Prio
-----------------------------------------------------------------------------
(* The ring.                                                                *)

RingTypeOK ==
    /\ msgPool \in [0..(MbSize - 1) -> Mail \cup {NoMail}] /\ entry \in 0..MbSize
    /\ inOff \in 0..(MbSize - 1) /\ outOff \in 0..(MbSize - 1) /\ RingOK

\* Storing a mail appends it to the contents, where the offset wraps too.
LEMMA RingStore ==
    ASSUME RingTypeOK, entry < MbSize, NEW m \in Mail \cup {NoMail},
           msgPool' = [msgPool EXCEPT ![inOff] = m], inOff' = NextOffset(inOff),
           entry' = entry + 1, UNCHANGED outOff
    PROVE  RingTypeOK' /\ Contents' = Append(Contents, m)
<1> DEFINE P == 0..(MbSize - 1)
<1>1. /\ MbSize \in Nat \ {0} /\ entry \in Nat /\ inOff \in P /\ outOff \in P
      /\ msgPool \in [P -> Mail \cup {NoMail}] /\ inOff = (outOff + entry) % MbSize
  BY MailboxAssumption DEF RingTypeOK, RingOK
<1>0. \A x \in 0..(MbSize + MbSize - 1) : x % MbSize = IF x < MbSize THEN x ELSE x - MbSize
  BY <1>1, ModRing
<1>2. inOff = IF outOff + entry < MbSize THEN outOff + entry ELSE outOff + entry - MbSize
  <2> DEFINE x == outOff + entry
  <2>1. x \in 0..(MbSize + MbSize - 1) /\ inOff = x % MbSize
    BY <1>1
  <2> HIDE DEF x
  <2>2. inOff = IF x < MbSize THEN x ELSE x - MbSize
    BY <1>0, <2>1
  <2> QED BY <1>1, <2>2 DEF x
<1>3. inOff' = IF inOff + 1 >= MbSize THEN 0 ELSE inOff + 1
  BY DEF NextOffset
<1>4. inOff' \in P /\ inOff' = (outOff' + entry') % MbSize
  <2> DEFINE x == outOff' + entry'
  <2>1. x \in 0..(MbSize + MbSize - 1)
    BY <1>1
  <2>2. inOff' \in P /\ inOff' = IF x < MbSize THEN x ELSE x - MbSize
    BY <1>1, <1>2, <1>3
  <2> HIDE DEF x
  <2>3. inOff' = x % MbSize
    BY <1>0, <2>1, <2>2
  <2> QED BY <2>2, <2>3 DEF x
<1>5. RingTypeOK'
  <2>1. msgPool' \in [P -> Mail \cup {NoMail}]
    BY <1>1
  <2>2. entry' \in 0..MbSize /\ outOff' \in P
    BY <1>1
  <2> QED BY <1>4, <2>1, <2>2 DEF RingTypeOK, RingOK
<1>6. /\ Contents \in Seq(Mail \cup {NoMail}) /\ Len(Contents) = entry
      /\ \A i \in 1..entry : Contents[i] = msgPool[(outOff + i - 1) % MbSize]
  <2>1. \A i \in 1..entry : (outOff + i - 1) % MbSize \in P
    BY <1>1, ModRing
  <2> QED BY <1>1, <2>1 DEF Contents
<1>7. \A i \in 1..entry : (outOff + i - 1) % MbSize \in P /\ (outOff + i - 1) % MbSize # inOff
  <2> TAKE i \in 1..entry
  <2> DEFINE x == outOff + i - 1
             y == IF x < MbSize THEN x ELSE x - MbSize
  <2>1. x \in 0..(MbSize + MbSize - 1) /\ y \in P /\ y # inOff
    BY <1>1, <1>2
  <2> HIDE DEF x
  <2>2. x % MbSize = y
    BY <1>0, <2>1
  <2>3. x % MbSize \in P /\ x % MbSize # inOff
    BY <2>1, <2>2
  <2> QED BY <2>3 DEF x
<1>8. /\ Append(Contents, m) \in Seq(Mail \cup {NoMail}) /\ Len(Append(Contents, m)) = entry + 1
      /\ \A i \in 1..entry : Append(Contents, m)[i] = Contents[i]
      /\ Append(Contents, m)[entry + 1] = m
  <2> DEFINE C == Contents
  <2>1. C \in Seq(Mail \cup {NoMail}) /\ Len(C) = entry
    BY <1>6
  <2> HIDE DEF C
  <2>2. /\ Append(C, m) \in Seq(Mail \cup {NoMail}) /\ Len(Append(C, m)) = entry + 1
        /\ \A i \in 1..entry : Append(C, m)[i] = C[i]
        /\ Append(C, m)[entry + 1] = m
    BY <2>1, AppendProperties
  <2> QED BY <2>2 DEF C
<1>9. Contents' = [i \in 1..(entry + 1) |-> msgPool'[(outOff + i - 1) % MbSize]]
  BY DEF Contents
<1>10. \A i \in 1..(entry + 1) : msgPool'[(outOff + i - 1) % MbSize] = Append(Contents, m)[i]
  <2> TAKE i \in 1..(entry + 1)
  <2>1. CASE i \in 1..entry
    BY <1>1, <1>6, <1>7, <1>8, <2>1
  <2>2. CASE i = entry + 1
    <3>1. outOff + i - 1 = outOff + entry
      BY <1>1, <2>2
    <3> QED BY <1>1, <1>8, <2>2, <3>1
  <2>3. i \in 1..entry \/ i = entry + 1
    BY <1>1
  <2> QED BY <2>1, <2>2, <2>3
<1>11. Append(Contents, m) = [i \in 1..(entry + 1) |-> Append(Contents, m)[i]]
  BY <1>1, <1>8
<1> QED BY <1>5, <1>9, <1>10, <1>11

\* Fetching takes the head of the contents, where the offset wraps too.
LEMMA RingFetch ==
    ASSUME RingTypeOK, entry > 0, outOff' = NextOffset(outOff), entry' = entry - 1,
           UNCHANGED <<msgPool, inOff>>
    PROVE  /\ RingTypeOK' /\ Contents # <<>> /\ Contents \in Seq(Mail \cup {NoMail})
           /\ msgPool[outOff] = Head(Contents) /\ Contents' = Tail(Contents)
<1> DEFINE P == 0..(MbSize - 1)
<1>1. /\ MbSize \in Nat \ {0} /\ entry \in Nat /\ inOff \in P /\ outOff \in P /\ entry <= MbSize
      /\ msgPool \in [P -> Mail \cup {NoMail}] /\ inOff = (outOff + entry) % MbSize
  BY MailboxAssumption DEF RingTypeOK, RingOK
<1>0. \A x \in 0..(MbSize + MbSize - 1) : x % MbSize = IF x < MbSize THEN x ELSE x - MbSize
  BY <1>1, ModRing
<1>2. outOff' = IF outOff + 1 >= MbSize THEN 0 ELSE outOff + 1
  BY DEF NextOffset
<1>3. \A j \in 0..(MbSize - 1) : (outOff' + j) % MbSize = (outOff + (j + 1)) % MbSize
  <2> TAKE j \in 0..(MbSize - 1)
  <2> DEFINE x == outOff' + j
             y == outOff + (j + 1)
  <2>1. /\ x \in 0..(MbSize + MbSize - 1) /\ y \in 0..(MbSize + MbSize - 1)
        /\ (IF x < MbSize THEN x ELSE x - MbSize) = IF y < MbSize THEN y ELSE y - MbSize
    BY <1>1, <1>2
  <2> HIDE DEF x, y
  <2>2. x % MbSize = y % MbSize
    BY <1>0, <2>1
  <2> QED BY <2>2 DEF x, y
<1>4. RingTypeOK'
  <2>1. inOff' = (outOff' + entry') % MbSize
    <3>1. entry' \in 0..(MbSize - 1) /\ entry' + 1 = entry
      BY <1>1
    <3> QED BY <1>1, <1>3, <3>1
  <2>2. outOff' \in P /\ entry' \in 0..MbSize
    BY <1>1, <1>2
  <2> QED BY <1>1, <2>1, <2>2 DEF RingTypeOK, RingOK
<1>5. /\ Contents \in Seq(Mail \cup {NoMail}) /\ Len(Contents) = entry
      /\ \A i \in 1..entry : Contents[i] = msgPool[(outOff + i - 1) % MbSize]
  <2>1. \A i \in 1..entry : (outOff + i - 1) % MbSize \in P
    BY <1>1, ModRing
  <2> QED BY <1>1, <2>1 DEF Contents
<1>6. Contents # <<>> /\ Head(Contents) = Contents[1]
  BY <1>1, <1>5
<1>7. Contents[1] = msgPool[outOff]
  <2>1. outOff + 1 - 1 = outOff /\ outOff % MbSize = outOff /\ 1 \in 1..entry
    BY <1>1
  <2> QED BY <1>5, <2>1
<1>8. /\ Tail(Contents) \in Seq(Mail \cup {NoMail}) /\ Len(Tail(Contents)) = entry - 1
      /\ \A i \in 1..(entry - 1) : Tail(Contents)[i] = Contents[i + 1]
  BY <1>1, <1>5, <1>6, HeadTailProperties
<1>9. Contents' = [i \in 1..(entry - 1) |-> msgPool[(outOff' + i - 1) % MbSize]]
  BY DEF Contents
<1>10. \A i \in 1..(entry - 1) : msgPool[(outOff' + i - 1) % MbSize] = Tail(Contents)[i]
  <2> TAKE i \in 1..(entry - 1)
  <2>1. /\ i - 1 \in 0..(MbSize - 1) /\ outOff' + i - 1 = outOff' + (i - 1)
        /\ outOff + ((i - 1) + 1) = outOff + (i + 1) - 1 /\ i + 1 \in 1..entry
    BY <1>1, <1>2
  <2>2. (outOff' + (i - 1)) % MbSize = (outOff + (i + 1) - 1) % MbSize
    BY <1>3, <2>1
  <2> QED BY <1>5, <1>8, <2>1, <2>2
<1>11. Tail(Contents) = [i \in 1..(entry - 1) |-> Tail(Contents)[i]]
  BY <1>1, <1>8, SMTT(30)
<1> QED BY <1>4, <1>5, <1>6, <1>7, <1>9, <1>10, <1>11
\* A reset ring is empty.
LEMMA RingReset ==
    ASSUME RingTypeOK, entry' = 0, inOff' = 0, outOff' = 0, UNCHANGED msgPool
    PROVE  RingTypeOK' /\ Contents' = <<>>
<1>1. MbSize \in Nat \ {0} /\ 0 \in 0..(MbSize - 1) /\ 0 \in 0..MbSize
  BY MailboxAssumption
<1>2. (0 + 0) % MbSize = 0
  BY <1>1
<1>3. RingTypeOK'
  BY <1>1, <1>2 DEF RingTypeOK, RingOK
<1>4. Contents' = [i \in 1..0 |-> msgPool[(0 + i - 1) % MbSize]]
  BY DEF Contents
<1>5. \A f : DOMAIN f = 1..0 /\ f = [i \in DOMAIN f |-> f[i]] => f = <<>>
  OBVIOUS
<1> QED BY <1>3, <1>4, <1>5
-----------------------------------------------------------------------------
(* What the steps have in common.                                           *)

\* The ring's part of the invariant, under one name.
LEMMA RingPart == MbInv => RingTypeOK
  BY DEF MbInv, MbFieldsOK, RingTypeOK

\* MbInv from its parts.
LEMMA MbParts ==
    ASSUME BlockInv', RingTypeOK', pc' \in [Thread -> MbLabel],
           receivers' \in Seq(Thread), senders' \in Seq(Thread),
           mbTime' \in [Thread -> {"no", "timed", "forever"}], mbAlive' \in BOOLEAN,
           mail' \in [Thread -> Mail \cup {NoMail}],
           MbWaitersOK', MbNoLostWakeup', MailOK', MbErrorOK', DetachDead'
    PROVE  MbInv'
<1>1. MbFieldsOK'
  BY DEF MbFieldsOK, RingTypeOK
<1> QED BY <1>1 DEF MbInv, RingTypeOK

\* A step that touches neither the ring nor the lists, and at most takes threads
\* that are not suspended out of their calls, a woken one only when the ring is
\* as its call found it.
LEMMA MbFrame ==
    ASSUME MbInv, BlockInv', UNCHANGED <<ring, receivers, senders>>,
           pc' \in [Thread -> MbLabel], mail' \in [Thread -> Mail \cup {NoMail}],
           mbTime' \in [Thread -> {"no", "timed", "forever"}],
           mbAlive' \in BOOLEAN, mbAlive' => mbAlive,
           \A u \in Thread : (InSend(u)' => InSend(u)) /\ (InRecv(u)' => InRecv(u)),
           \A u \in Thread : InSend(u)' \/ InRecv(u)'
                => stat'[u] = stat[u] /\ error'[u] = error[u] /\ mail'[u] = mail[u],
           \A u \in Thread : stat[u] = "suspend"
                => (InSend(u) => InSend(u)') /\ (InRecv(u) => InRecv(u)'),
           \A u \in Thread : pc'[u] \in DetachLabel => ~mbAlive',
           entry = 0 \/ \A u \in WokenRecv : InRecv(u)',
           entry = MbSize \/ \A u \in WokenSend : InSend(u)'
    PROVE  MbInv'
<1>1. RingTypeOK /\ RingTypeOK' /\ entry \in Nat /\ MbSize \in Nat
  BY RingPart, MailboxAssumption DEF RingTypeOK, RingOK, ring
<1>2. MbWaitersOK' /\ MbErrorOK'
  BY DEF MbInv, MbWaitersOK, MbErrorOK
<1>3. MailOK' /\ DetachDead'
  BY DEF MbInv, MailOK, DetachDead
<1>4. /\ entry = 0 \/ WokenRecv' = WokenRecv
      /\ entry = MbSize \/ WokenSend' = WokenSend
  BY DEF WokenRecv, WokenSend
<1>5. /\ Cardinality(WokenRecv') \in Nat /\ Cardinality(WokenSend') \in Nat
  <2>1. WokenRecv' \subseteq Thread /\ WokenSend' \subseteq Thread
    BY DEF WokenRecv, WokenSend
  <2> QED BY <2>1, ThreadAssumption, FS_Subset, FS_CardinalityType
<1>6. mbAlive => ReceiversServed /\ SendersServed
  BY LostWakeupHalves DEF MbInv
<1>7. mbAlive' => ReceiversServed' /\ SendersServed'
  BY <1>1, <1>4, <1>5, <1>6 DEF ReceiversServed, SendersServed, ring
<1>8. MbNoLostWakeup'
  BY <1>7, LostWakeupHalves
<1> QED BY <1>1, <1>2, <1>3, <1>8, MbFacts, MbParts

\* A waiting thread w leaves the list it is in; the others stay.
LEMMA WokenWaiters ==
    ASSUME MbInv, NEW w \in Thread, stat' = [stat EXCEPT ![w] = "ready"],
           Distinct(receivers'), Distinct(senders'),
           \A e : Contains(receivers', e) <=> Contains(receivers, e) /\ e # w,
           \A e : Contains(senders', e) <=> Contains(senders, e) /\ e # w,
           \A u \in Thread : u # w => error'[u] = error[u],
           \A u \in Thread : stat[u] = "suspend"
                => (InSend(u)' <=> InSend(u)) /\ (InRecv(u)' <=> InRecv(u))
    PROVE  MbWaitersOK' /\ MbErrorOK'
<1>1. \A u \in Thread : stat'[u] = "suspend" <=> stat[u] = "suspend" /\ u # w
  BY MbFacts
<1> QED BY <1>1 DEF MbInv, MbWaitersOK, MbErrorOK

\* rt_ipc_list_resume of the first thread of one of the lists.
LEMMA ResumeHeadFacts ==
    ASSUME MbInv, NEW l, l = receivers \/ l = senders, l # <<>>, ResumeHead(l), UNCHANGED prio
    PROVE  /\ Head(l) \in Thread /\ stat[Head(l)] = "suspend" /\ pc[Head(l)] \in WaitLabel
           /\ error[Head(l)] = "EOK" /\ Contains(l, Head(l))
           /\ rq' \in ReadyQueue /\ RqOK(rq', ReadyThreads \cup {Head(l)}, prio')
           /\ prio' \in [Thread -> Prio]
           /\ stat' = [stat EXCEPT ![Head(l)] = "ready"]
           /\ timer' = [timer EXCEPT ![Head(l)] = FALSE]
           /\ Tail(l) \in Seq(Thread) /\ Distinct(Tail(l))
           /\ \A e : Contains(Tail(l), e) <=> Contains(l, e) /\ e # Head(l)
           /\ l = receivers => InRecv(Head(l)) /\ ~Contains(senders, Head(l))
           /\ l = senders => InSend(Head(l)) /\ ~Contains(receivers, Head(l))
<1> DEFINE w == Head(l)
<1>1. l \in Seq(Thread) /\ Distinct(l)
  BY MbFacts
<1>2. /\ w \in Thread /\ Contains(l, w) /\ Tail(l) \in Seq(Thread) /\ Distinct(Tail(l))
      /\ \A e : Contains(Tail(l), e) <=> Contains(l, e) /\ e # w
  BY <1>1, ListTail
<1>3. /\ l = receivers => InRecv(w) /\ ~InSend(w) /\ stat[w] = "suspend"
      /\ l = senders => InSend(w) /\ ~InRecv(w) /\ stat[w] = "suspend"
  BY <1>2 DEF MbInv, MbWaitersOK, InSend, InRecv
<1>4. stat[w] = "suspend" /\ error[w] = "EOK" /\ pc[w] \in WaitLabel
  <2>1. (InSend(w) \/ InRecv(w)) /\ stat[w] = "suspend"
    BY <1>3
  <2>2. error[w] = "EOK"
    BY <1>2, <2>1 DEF MbInv, MbErrorOK
  <2>3. pc[w] \in {"send", "send_chk", "recv", "recv_chk"}
    BY <2>1 DEF InSend, InRecv
  <2> QED BY <2>1, <2>2, <2>3, MbLabels
<1>5. /\ l = receivers => ~Contains(senders, w)
      /\ l = senders => ~Contains(receivers, w)
  BY <1>2, <1>3 DEF MbInv, MbWaitersOK
<1>6. /\ rq' = rt_schedule_insert_thread(rq, w, prio[w]) /\ prio' = prio
      /\ stat' = [stat EXCEPT ![w] = "ready"] /\ timer' = [timer EXCEPT ![w] = FALSE]
  BY DEF ResumeHead, rt_timer_stop
<1>7. w \notin ReadyThreads
  BY <1>4 DEF ReadyThreads
<1> HIDE DEF w
<1>8. rq' \in ReadyQueue /\ RqOK(rq', ReadyThreads \cup {w}, prio')
  BY <1>2, <1>6, <1>7, MbFacts, RqInsert
<1> QED BY <1>2, <1>3, <1>4, <1>5, <1>6, <1>8, MbFacts DEF w

\* The running thread t waits in one of the loops.
LEMMA SuspendFacts ==
    ASSUME MbInv, NEW t \in Thread, t = current, t # Idle,
           pc[t] \in {"run", "unsched", "send_chk", "recv_chk"},
           NEW tm, NEW l \in {"send", "recv"}, SuspendSelf(t, tm, l),
           UNCHANGED <<prio, defunct, current, lockNest, tgt>>
    PROVE  /\ BlockInv' /\ stat[t] = "ready"
           /\ ~Contains(receivers, t) /\ ~Contains(senders, t)
           /\ stat' = [stat EXCEPT ![t] = "suspend"] /\ error' = [error EXCEPT ![t] = "EOK"]
           /\ pc' = [pc EXCEPT ![t] = l] /\ mbTime' = [mbTime EXCEPT ![t] = tm]
<1>1. pc[t] \notin SuspendLabel /\ pc[t] # "startup" /\ l \in SuspendLabel
  BY MbLabels
<1>2. BlockInv /\ stat[t] = "ready"
  BY <1>1, MbFacts, BlockRunning
<1>3. ~Contains(receivers, t) /\ ~Contains(senders, t)
  BY <1>2 DEF MbInv, MbWaitersOK
<1>4. /\ stat' = [stat EXCEPT ![t] = "suspend"] /\ error' = [error EXCEPT ![t] = "EOK"]
      /\ pc' = [pc EXCEPT ![t] = l] /\ mbTime' = [mbTime EXCEPT ![t] = tm]
      /\ rq' = rt_schedule_remove_thread(rq, t, prio[t]) /\ lockNest = 0
      /\ timer' = [timer EXCEPT ![t] = (tm = "timed")] /\ prio' = prio /\ Goto(t, l)
  BY DEF SuspendSelf, Goto, MayBlock
<1>5. rq' \in ReadyQueue /\ RqOK(rq', ReadyThreads \ {t}, prio')
  BY <1>4, MbFacts, RqRemove
<1>6. prio' \in [Thread -> Prio] /\ error' \in [Thread -> Error] /\ (tm = "timed") \in BOOLEAN
  BY <1>4, MbFacts DEF Error
<1>7. BlockInv'
  BY <1>1, <1>2, <1>4, <1>5, <1>6, BlockSuspend
<1> QED BY <1>2, <1>3, <1>4, <1>7

\* The initial state.
LEMMA MbInitInv == Init /\ MbInit => MbInv
<1> SUFFICES ASSUME Init, MbInit PROVE MbInv
  OBVIOUS
<1>1. BlockInv /\ pc = [t \in Thread |-> "run"]
  BY BlockInit DEF Init
<1>2. /\ MbSize \in Nat \ {0} /\ 0 \in 0..(MbSize - 1) /\ 0 \in 0..MbSize /\ (0 + 0) % MbSize = 0
  BY MailboxAssumption
<1>3. MbFieldsOK /\ RingOK /\ pc \in [Thread -> MbLabel]
  BY <1>1, <1>2 DEF MbFieldsOK, MbInit, RingOK, MbLabel, OwnLabel
<1>4. \A t \in Thread : ~InSend(t) /\ ~InRecv(t) /\ pc[t] \notin DetachLabel
  BY <1>1 DEF InSend, InRecv, DetachLabel
<1>5. MbWaitersOK /\ MbErrorOK /\ MailOK /\ DetachDead /\ MbNoLostWakeup
  BY <1>4 DEF MbWaitersOK, MbErrorOK, MailOK, DetachDead, MbNoLostWakeup, MbInit, Distinct, Contains
<1> QED BY <1>1, <1>3, <1>5 DEF MbInv
-----------------------------------------------------------------------------
(* Storing and fetching.                                                    *)

\* A mail is stored: the first receiver is woken for it, and at most the thread t
\* that stores it was a woken sender.
LEMMA StoreInv ==
    ASSUME MbInv, BlockInv', NEW m \in Mail, ~Full, Store(m), NEW t \in Thread,
           UNCHANGED <<prio, error, senders, mbAlive>>,
           pc' \in [Thread -> MbLabel], mail' \in [Thread -> Mail \cup {NoMail}],
           mbTime' \in [Thread -> {"no", "timed", "forever"}],
           \A u \in Thread : InRecv(u)' <=> InRecv(u),
           \A u \in Thread : InSend(u)' => InSend(u),
           \A u \in Thread : InSend(u)' \/ InRecv(u) => mail'[u] = mail[u],
           \A u \in Thread : InSend(u) /\ (u # t \/ stat[u] = "suspend") => InSend(u)',
           \A u \in Thread : pc'[u] \in DetachLabel => pc[u] \in DetachLabel
    PROVE  MbInv'
<1>1. RingTypeOK /\ entry < MbSize /\ entry \in Nat /\ MbSize \in Nat
  BY RingPart, MailboxAssumption DEF RingTypeOK, Full
<1>2. /\ msgPool' = [msgPool EXCEPT ![inOff] = m] /\ inOff' = NextOffset(inOff)
      /\ entry' = entry + 1 /\ UNCHANGED outOff
  BY DEF Store
<1>3. RingTypeOK'
  BY <1>1, <1>2, RingStore
<1>4. MailOK' /\ DetachDead'
  BY DEF MbInv, MailOK, DetachDead
<1>5. mbAlive => ReceiversServed /\ SendersServed
  BY LostWakeupHalves DEF MbInv
<1>6. IsFiniteSet(WokenRecv) /\ IsFiniteSet(WokenSend)
  BY WokenFinite
<1>7. CASE receivers = <<>>
  <2>1. UNCHANGED <<receivers, stat, error>>
    BY <1>7 DEF Store, WakesReceiver
  <2>2. MbWaitersOK' /\ MbErrorOK'
    BY <2>1 DEF MbInv, MbWaitersOK, MbErrorOK
  <2>3. WokenSend' = WokenSend \/ WokenSend' = WokenSend \ {t}
    BY <2>1 DEF WokenSend
  <2>4. /\ Cardinality(WokenSend) \in Nat /\ Cardinality(WokenSend') \in Nat
        /\ Cardinality(WokenSend') >= Cardinality(WokenSend) - 1
    BY <1>6, <2>3, WokenLeaves
  <2>5. mbAlive' => ReceiversServed' /\ SendersServed'
    BY <1>1, <1>2, <1>5, <1>7, <2>1, <2>4 DEF ReceiversServed, SendersServed
  <2>6. MbNoLostWakeup'
    BY <2>5, LostWakeupHalves
  <2>7. receivers' \in Seq(Thread) /\ senders' \in Seq(Thread) /\ mbAlive' \in BOOLEAN
    BY <2>1, MbFacts
  <2> QED BY <1>3, <1>4, <2>2, <2>6, <2>7, MbParts
<1>8. CASE receivers # <<>>
  <2> DEFINE w == Head(receivers)
  <2>1. receivers' = Tail(receivers) /\ ResumeHead(receivers)
    BY <1>8 DEF Store, WakesReceiver
  <2>2. /\ w \in Thread /\ stat[w] = "suspend" /\ error[w] = "EOK" /\ InRecv(w)
        /\ stat' = [stat EXCEPT ![w] = "ready"] /\ ~Contains(senders, w)
        /\ receivers' \in Seq(Thread) /\ Distinct(receivers')
        /\ \A e : Contains(receivers', e) <=> Contains(receivers, e) /\ e # w
    BY <1>8, <2>1, ResumeHeadFacts
  <2> HIDE DEF w
  <2>3. /\ senders' \in Seq(Thread) /\ Distinct(senders') /\ mbAlive' \in BOOLEAN
        /\ \A e : Contains(senders', e) <=> Contains(senders, e) /\ e # w
    BY <2>2, MbFacts
  <2>4. MbWaitersOK' /\ MbErrorOK'
    BY <2>2, <2>3, WokenWaiters
  <2>5. /\ ~InSend(w) /\ \A u \in Thread : stat'[u] = IF u = w THEN "ready" ELSE stat[u]
    BY <2>2, MbFacts DEF InSend, InRecv
  <2>6. WokenSend' = WokenSend \/ WokenSend' = WokenSend \ {t}
    BY <2>5 DEF WokenSend
  <2>7. /\ Cardinality(WokenSend) \in Nat /\ Cardinality(WokenSend') \in Nat
        /\ Cardinality(WokenSend') >= Cardinality(WokenSend) - 1
    BY <1>6, <2>6, WokenLeaves
  <2>8. WokenRecv' = WokenRecv \cup {w} /\ w \notin WokenRecv
    BY <2>2, <2>5 DEF WokenRecv
  <2>9. /\ Cardinality(WokenRecv) \in Nat /\ Cardinality(WokenRecv') = Cardinality(WokenRecv) + 1
    BY <1>6, <2>8, WokenCount
  <2>10. mbAlive' => ReceiversServed' /\ SendersServed'
    BY <1>1, <1>2, <1>5, <1>8, <2>7, <2>9 DEF ReceiversServed, SendersServed
  <2>11. MbNoLostWakeup'
    BY <2>10, LostWakeupHalves
  <2> QED BY <1>3, <1>4, <2>2, <2>3, <2>4, <2>11, MbParts
<1> QED BY <1>7, <1>8

\* The scheduler's part of a call that wakes the first thread of list l, or wakes
\* nobody, and returns.
LEMMA ReturnBlock ==
    ASSUME MbInv, NEW t \in Thread, t = current, t # Idle,
           pc[t] \in {"run", "unsched", "send_chk", "recv_chk"},
           NEW l, l = receivers \/ l = senders,
           IF l # <<>> THEN ResumeHead(l) ELSE UNCHANGED <<stat, timer, rq>>,
           Returns(t, l # <<>>), UNCHANGED <<prio, error, defunct, current, lockNest, tgt>>
    PROVE  /\ BlockInv' /\ pc' \in [Thread -> MbLabel] /\ mbTime' = [mbTime EXCEPT ![t] = "no"]
           /\ pc'[t] \in {"run", "unsched", "sched"} /\ \A u \in Thread : u # t => pc'[u] = pc[u]
<1> DEFINE k == IF l # <<>> THEN "sched"
                ELSE IF pc[t] \in {"send_chk", "recv_chk"} THEN "run" ELSE pc[t]
<1>1. pc' = [pc EXCEPT ![t] = k] /\ mbTime' = [mbTime EXCEPT ![t] = "no"] /\ Goto(t, k)
  BY DEF Returns, Goto
<1>2. k \in {"run", "unsched", "sched"}
  OBVIOUS
<1>3. pc[t] \notin SuspendLabel \cup {"startup"} /\ k \in BlockLabel \ (WaitLabel \cup {"startup"})
  BY <1>2, MbLabels
<1>4. error' \in [Thread -> Error] /\ BlockInv
  BY MbFacts
<1> HIDE DEF k
<1>5. CASE l # <<>>
  <2> DEFINE w == Head(l)
  <2>1. /\ w \in Thread /\ stat[w] = "suspend" /\ pc[w] \in WaitLabel
        /\ rq' \in ReadyQueue /\ RqOK(rq', ReadyThreads \cup {w}, prio')
        /\ prio' \in [Thread -> Prio] /\ stat' = [stat EXCEPT ![w] = "ready"]
        /\ timer' = [timer EXCEPT ![w] = FALSE]
    BY <1>5, ResumeHeadFacts
  <2> HIDE DEF w
  <2>2. BlockInv'
    BY <1>1, <1>3, <1>4, <2>1, BlockWake
  <2> QED BY <1>1, <1>2, <2>2, MbFacts DEF MbLabel, OwnLabel
<1>6. CASE l = <<>>
  <2>1. UNCHANGED <<stat, timer, rq>>
    BY <1>6
  <2>2. /\ rq' \in ReadyQueue /\ RqOK(rq', ReadyThreads, prio') /\ prio' \in [Thread -> Prio]
        /\ k \in BlockLabel \ (SuspendLabel \cup {"startup"})
    BY <2>1, <1>3, MbFacts, MbLabels
  <2>3. BlockInv'
    BY <1>1, <1>3, <1>4, <2>1, <2>2, BlockLocal
  <2> QED BY <1>1, <1>2, <2>3, MbFacts DEF MbLabel, OwnLabel
<1> QED BY <1>5, <1>6

\* rt_mb_send_wait that stores its mail, at once or after waits.
LEMMA SendStoreInv ==
    ASSUME MbInv, NEW t \in Thread, NEW m \in Mail, t = current, t # Idle,
           pc[t] \in {"run", "unsched", "send_chk"}, SendStore(t, m)
    PROVE  MbInv'
<1>1. /\ ~Full /\ Store(m) /\ Returns(t, receivers # <<>>) /\ mail' = [mail EXCEPT ![t] = NoMail]
      /\ UNCHANGED <<prio, error, defunct, current, lockNest, tgt, senders, mbAlive>>
  BY DEF SendStore, WakesReceiver
<1>2. IF receivers # <<>> THEN ResumeHead(receivers) ELSE UNCHANGED <<stat, timer, rq>>
  BY <1>1 DEF Store, WakesReceiver
<1>3. /\ BlockInv' /\ pc' \in [Thread -> MbLabel] /\ mbTime' = [mbTime EXCEPT ![t] = "no"]
      /\ pc'[t] \in {"run", "unsched", "sched"} /\ \A u \in Thread : u # t => pc'[u] = pc[u]
  BY <1>1, <1>2, ReturnBlock
<1>4. stat[t] = "ready"
  <2>1. pc[t] \notin SuspendLabel
    BY MbLabels
  <2> QED BY <2>1, MbFacts, BlockRunning
<1>5. /\ mail' \in [Thread -> Mail \cup {NoMail}]
      /\ mbTime' \in [Thread -> {"no", "timed", "forever"}]
      /\ \A u \in Thread : u # t => mail'[u] = mail[u]
  BY <1>1, <1>3, MbFacts
<1>6. ~InSend(t)' /\ ~InRecv(t)' /\ ~InRecv(t) /\ pc'[t] \notin DetachLabel
  BY <1>3 DEF InSend, InRecv, DetachLabel
<1>7. \A u \in Thread : u # t => /\ InSend(u)' <=> InSend(u)
                                 /\ InRecv(u)' <=> InRecv(u)
  BY <1>3 DEF InSend, InRecv
<1>8. /\ \A u \in Thread : InRecv(u)' <=> InRecv(u)
      /\ \A u \in Thread : InSend(u)' => InSend(u)
      /\ \A u \in Thread : InSend(u)' \/ InRecv(u) => mail'[u] = mail[u]
      /\ \A u \in Thread : InSend(u) /\ (u # t \/ stat[u] = "suspend") => InSend(u)'
      /\ \A u \in Thread : pc'[u] \in DetachLabel => pc[u] \in DetachLabel
  BY <1>3, <1>4, <1>5, <1>6, <1>7
<1> QED BY <1>1, <1>3, <1>5, <1>8, StoreInv

\* rt_mb_recv that takes a mail, at once or after waits: the first sender is woken
\* for the place, and at most the caller was a woken receiver.
LEMMA RecvFetchInv ==
    ASSUME MbInv, NEW t \in Thread, t = current, t # Idle,
           pc[t] \in {"run", "unsched", "recv_chk"}, RecvFetch(t)
    PROVE  MbInv'
<1>1. /\ ~Empty /\ Fetch(t) /\ Returns(t, senders # <<>>)
      /\ UNCHANGED <<prio, error, defunct, current, lockNest, tgt, receivers, mbAlive>>
  BY DEF RecvFetch, WakesSender
<1>2. /\ mail' = [mail EXCEPT ![t] = msgPool[outOff]] /\ outOff' = NextOffset(outOff)
      /\ entry' = entry - 1 /\ UNCHANGED <<msgPool, inOff>>
      /\ IF senders # <<>> THEN senders' = Tail(senders) /\ ResumeHead(senders)
         ELSE UNCHANGED <<senders, stat, timer, rq>>
  BY <1>1 DEF Fetch, WakesSender
<1>3. IF senders # <<>> THEN ResumeHead(senders) ELSE UNCHANGED <<stat, timer, rq>>
  BY <1>2
<1>4. /\ BlockInv' /\ pc' \in [Thread -> MbLabel] /\ mbTime' = [mbTime EXCEPT ![t] = "no"]
      /\ pc'[t] \in {"run", "unsched", "sched"} /\ \A u \in Thread : u # t => pc'[u] = pc[u]
  BY <1>1, <1>3, ReturnBlock
<1>5. stat[t] = "ready"
  <2>1. pc[t] \notin SuspendLabel
    BY MbLabels
  <2> QED BY <2>1, MbFacts, BlockRunning
<1>6. RingTypeOK /\ entry > 0 /\ entry \in Nat /\ MbSize \in Nat
  BY <1>1, RingPart, MailboxAssumption DEF RingTypeOK, Empty
<1>7. RingTypeOK'
  BY <1>2, <1>6, RingFetch
<1>8. /\ mail' \in [Thread -> Mail \cup {NoMail}]
      /\ mbTime' \in [Thread -> {"no", "timed", "forever"}]
      /\ \A u \in Thread : u # t => mail'[u] = mail[u]
  <2>1. msgPool[outOff] \in Mail \cup {NoMail}
    BY <1>6 DEF RingTypeOK
  <2> QED BY <1>2, <1>4, <2>1, MbFacts
<1>9. ~InSend(t)' /\ ~InRecv(t)' /\ ~InSend(t) /\ pc'[t] \notin DetachLabel
  BY <1>4 DEF InSend, InRecv, DetachLabel
<1>10. \A u \in Thread : u # t => /\ InSend(u)' <=> InSend(u)
                                  /\ InRecv(u)' <=> InRecv(u)
  BY <1>4 DEF InSend, InRecv
<1>11. MailOK'
  BY <1>8, <1>9, <1>10 DEF MbInv, MailOK
<1>12. DetachDead'
  BY <1>1, <1>4, <1>9 DEF MbInv, DetachDead
<1>13. mbAlive => ReceiversServed /\ SendersServed
  BY LostWakeupHalves DEF MbInv
<1>14. IsFiniteSet(WokenRecv) /\ IsFiniteSet(WokenSend)
  BY WokenFinite
<1>15. CASE senders = <<>>
  <2>1. UNCHANGED <<receivers, senders, stat, error, mbAlive>>
    BY <1>1, <1>2, <1>15
  <2>2. MbWaitersOK' /\ MbErrorOK'
    BY <1>5, <1>9, <1>10, <2>1 DEF MbInv, MbWaitersOK, MbErrorOK
  <2>3. WokenRecv' = WokenRecv \/ WokenRecv' = WokenRecv \ {t}
    BY <1>9, <1>10, <2>1 DEF WokenRecv
  <2>4. /\ Cardinality(WokenRecv) \in Nat /\ Cardinality(WokenRecv') \in Nat
        /\ Cardinality(WokenRecv') >= Cardinality(WokenRecv) - 1
    BY <1>14, <2>3, WokenLeaves
  <2>5. mbAlive' => ReceiversServed' /\ SendersServed'
    BY <1>2, <1>6, <1>13, <1>15, <2>1, <2>4 DEF ReceiversServed, SendersServed
  <2>6. MbNoLostWakeup'
    BY <2>5, LostWakeupHalves
  <2>7. receivers' \in Seq(Thread) /\ senders' \in Seq(Thread) /\ mbAlive' \in BOOLEAN
    BY <2>1, MbFacts
  <2> QED BY <1>4, <1>7, <1>8, <1>11, <1>12, <2>2, <2>6, <2>7, MbParts
<1>16. CASE senders # <<>>
  <2> DEFINE w == Head(senders)
  <2>1. senders' = Tail(senders) /\ ResumeHead(senders) /\ UNCHANGED <<prio, error, receivers, mbAlive>>
    BY <1>1, <1>2, <1>16
  <2>2. /\ w \in Thread /\ stat[w] = "suspend" /\ error[w] = "EOK" /\ InSend(w)
        /\ stat' = [stat EXCEPT ![w] = "ready"] /\ ~Contains(receivers, w)
        /\ senders' \in Seq(Thread) /\ Distinct(senders')
        /\ \A e : Contains(senders', e) <=> Contains(senders, e) /\ e # w
    BY <1>16, <2>1, ResumeHeadFacts
  <2> HIDE DEF w
  <2>3. /\ receivers' \in Seq(Thread) /\ Distinct(receivers') /\ mbAlive' \in BOOLEAN
        /\ \A e : Contains(receivers', e) <=> Contains(receivers, e) /\ e # w
    BY <2>1, <2>2, MbFacts
  <2>4. /\ \A u \in Thread : u # w => error'[u] = error[u]
        /\ \A u \in Thread : stat[u] = "suspend"
                => (InSend(u)' <=> InSend(u)) /\ (InRecv(u)' <=> InRecv(u))
    BY <1>5, <1>10, <2>1
  <2>5. MbWaitersOK' /\ MbErrorOK'
    BY <2>2, <2>3, <2>4, WokenWaiters
  <2>6. /\ ~InRecv(w) /\ \A u \in Thread : stat'[u] = IF u = w THEN "ready" ELSE stat[u]
    BY <2>2, MbFacts DEF InSend, InRecv
  <2>7. WokenRecv' = WokenRecv \/ WokenRecv' = WokenRecv \ {t}
    BY <1>9, <1>10, <2>1, <2>6 DEF WokenRecv
  <2>8. /\ Cardinality(WokenRecv) \in Nat /\ Cardinality(WokenRecv') \in Nat
        /\ Cardinality(WokenRecv') >= Cardinality(WokenRecv) - 1
    BY <1>14, <2>7, WokenLeaves
  <2>9. WokenSend' = WokenSend \cup {w} /\ w \notin WokenSend
    BY <1>9, <1>10, <2>1, <2>2, <2>6 DEF WokenSend
  <2>10. /\ Cardinality(WokenSend) \in Nat /\ Cardinality(WokenSend') = Cardinality(WokenSend) + 1
    BY <1>14, <2>9, WokenCount
  <2>11. mbAlive' => ReceiversServed' /\ SendersServed'
    BY <1>2, <1>6, <1>13, <1>16, <2>1, <2>8, <2>10 DEF ReceiversServed, SendersServed
  <2>12. MbNoLostWakeup'
    BY <2>11, LostWakeupHalves
  <2> QED BY <1>4, <1>7, <1>8, <1>11, <1>12, <2>2, <2>3, <2>5, <2>12, MbParts
<1> QED BY <1>15, <1>16

\* rt_mb_send_wait that waits: the ring is full, so that no place is left unserved.
LEMMA SendWaitInv ==
    ASSUME MbInv, NEW t \in Thread, NEW m \in Mail, NEW tm \in {"no", "timed", "forever"},
           t = current, t # Idle, pc[t] \in {"run", "unsched", "send_chk"}, SendWait(t, m, tm)
    PROVE  MbInv'
<1>1. /\ entry = MbSize /\ SuspendSelf(t, tm, "send")
      /\ senders' = ListInsert(MbFlag, senders, t, prio) /\ mail' = [mail EXCEPT ![t] = m]
      /\ UNCHANGED <<prio, defunct, current, lockNest, tgt>>
      /\ UNCHANGED <<msgPool, entry, inOff, outOff, receivers, mbAlive>>
  BY DEF SendWait, Full, ring
<1>2. /\ BlockInv' /\ stat[t] = "ready" /\ ~Contains(receivers, t) /\ ~Contains(senders, t)
      /\ stat' = [stat EXCEPT ![t] = "suspend"] /\ error' = [error EXCEPT ![t] = "EOK"]
      /\ pc' = [pc EXCEPT ![t] = "send"] /\ mbTime' = [mbTime EXCEPT ![t] = tm]
  BY <1>1, SuspendFacts
<1>3. /\ senders' \in Seq(Thread) /\ Distinct(senders')
      /\ \A e : Contains(senders', e) <=> Contains(senders, e) \/ e = t
  <2>1. senders \in Seq(Thread) /\ Distinct(senders) /\ prio \in [Thread -> Nat]
    BY MbFacts
  <2>2. senders' = ListInsert(MbFlag, senders, t, prio) /\ ~Contains(senders, t)
    BY <1>1, <1>2
  <2> QED BY <2>1, <2>2, ListInsertProperties
<1>4. /\ pc' \in [Thread -> MbLabel] /\ mail' \in [Thread -> Mail \cup {NoMail}]
      /\ mbTime' \in [Thread -> {"no", "timed", "forever"}]
  BY <1>1, <1>2, MbFacts DEF MbLabel, OwnLabel, MbPc
<1>5. /\ InSend(t)' /\ ~InRecv(t)' /\ ~InRecv(t) /\ pc'[t] \notin DetachLabel
      /\ stat'[t] = "suspend" /\ error'[t] = "EOK" /\ mail'[t] = m
  BY <1>1, <1>2, MbFacts DEF InSend, InRecv, DetachLabel
<1>6. \A u \in Thread : u # t =>
        /\ pc'[u] = pc[u] /\ stat'[u] = stat[u] /\ error'[u] = error[u] /\ mail'[u] = mail[u]
        /\ InSend(u)' <=> InSend(u)
        /\ InRecv(u)' <=> InRecv(u)
  BY <1>1, <1>2, MbFacts DEF InSend, InRecv
<1>7. MbWaitersOK' /\ MbErrorOK'
  BY <1>1, <1>2, <1>3, <1>5, <1>6 DEF MbInv, MbWaitersOK, MbErrorOK
<1>8. MailOK' /\ DetachDead'
  BY <1>1, <1>5, <1>6 DEF MbInv, MailOK, DetachDead
<1>9. RingTypeOK'
  BY <1>1, RingPart DEF RingTypeOK, RingOK
<1>10. WokenRecv' = WokenRecv
  BY <1>5, <1>6 DEF WokenRecv
<1>11. Cardinality(WokenSend') \in Nat
  <2>1. WokenSend' \subseteq Thread
    BY DEF WokenSend
  <2> QED BY <2>1, ThreadAssumption, FS_Subset, FS_CardinalityType
<1>12. mbAlive' => ReceiversServed' /\ SendersServed'
  <2>1. mbAlive => ReceiversServed
    BY LostWakeupHalves DEF MbInv
  <2>2. MbSize - entry' = 0
    BY <1>1, MailboxAssumption
  <2> QED BY <1>1, <1>10, <1>11, <2>1, <2>2 DEF ReceiversServed, SendersServed
<1>13. MbNoLostWakeup'
  BY <1>12, LostWakeupHalves
<1> QED BY <1>1, <1>2, <1>3, <1>4, <1>7, <1>8, <1>9, <1>13, MbFacts, MbParts

\* rt_mb_recv that waits: the ring is empty, so that no mail is left unserved.
LEMMA RecvWaitInv ==
    ASSUME MbInv, NEW t \in Thread, NEW tm \in {"no", "timed", "forever"},
           t = current, t # Idle, pc[t] \in {"run", "unsched", "recv_chk"}, mail[t] = NoMail,
           RecvWait(t, tm)
    PROVE  MbInv'
<1>1. /\ entry = 0 /\ SuspendSelf(t, tm, "recv")
      /\ receivers' = ListInsert(MbFlag, receivers, t, prio)
      /\ UNCHANGED <<prio, defunct, current, lockNest, tgt>>
      /\ UNCHANGED <<msgPool, entry, inOff, outOff, senders, mbAlive, mail>>
  BY DEF RecvWait, Empty, ring
<1>2. /\ BlockInv' /\ stat[t] = "ready" /\ ~Contains(receivers, t) /\ ~Contains(senders, t)
      /\ stat' = [stat EXCEPT ![t] = "suspend"] /\ error' = [error EXCEPT ![t] = "EOK"]
      /\ pc' = [pc EXCEPT ![t] = "recv"] /\ mbTime' = [mbTime EXCEPT ![t] = tm]
  BY <1>1, SuspendFacts
<1>3. /\ receivers' \in Seq(Thread) /\ Distinct(receivers')
      /\ \A e : Contains(receivers', e) <=> Contains(receivers, e) \/ e = t
  <2>1. receivers \in Seq(Thread) /\ Distinct(receivers) /\ prio \in [Thread -> Nat]
    BY MbFacts
  <2> QED BY <1>1, <1>2, <2>1, ListInsertProperties
<1>4. /\ pc' \in [Thread -> MbLabel] /\ mbTime' \in [Thread -> {"no", "timed", "forever"}]
  BY <1>2, MbFacts DEF MbLabel, OwnLabel, MbPc
<1>5. /\ InRecv(t)' /\ ~InSend(t)' /\ ~InSend(t) /\ pc'[t] \notin DetachLabel
      /\ stat'[t] = "suspend" /\ error'[t] = "EOK"
  BY <1>2, MbFacts DEF InSend, InRecv, DetachLabel
<1>6. \A u \in Thread : u # t =>
        /\ pc'[u] = pc[u] /\ stat'[u] = stat[u] /\ error'[u] = error[u]
        /\ InSend(u)' <=> InSend(u)
        /\ InRecv(u)' <=> InRecv(u)
  BY <1>2, MbFacts DEF InSend, InRecv
<1>7. MbWaitersOK' /\ MbErrorOK'
  BY <1>1, <1>2, <1>3, <1>5, <1>6 DEF MbInv, MbWaitersOK, MbErrorOK
<1>8. MailOK' /\ DetachDead'
  BY <1>1, <1>5, <1>6 DEF MbInv, MailOK, DetachDead
<1>9. RingTypeOK'
  BY <1>1, RingPart DEF RingTypeOK, RingOK
<1>10. WokenSend' = WokenSend
  BY <1>5, <1>6 DEF WokenSend
<1>11. Cardinality(WokenRecv') \in Nat
  <2>1. WokenRecv' \subseteq Thread
    BY DEF WokenRecv
  <2> QED BY <2>1, ThreadAssumption, FS_Subset, FS_CardinalityType
<1>12. mbAlive' => ReceiversServed' /\ SendersServed'
  <2>1. mbAlive => SendersServed
    BY LostWakeupHalves DEF MbInv
  <2> QED BY <1>1, <1>10, <1>11, <2>1 DEF ReceiversServed, SendersServed
<1>13. MbNoLostWakeup'
  BY <1>12, LostWakeupHalves
<1> QED BY <1>1, <1>2, <1>3, <1>4, <1>7, <1>8, <1>9, <1>13, MbFacts, MbParts
-----------------------------------------------------------------------------
(* The other steps.                                                         *)

\* A call that is refused or gives up, and the return from a loop.
LEMMA ReturnInv ==
    ASSUME MbInv, NEW t \in Thread, t = current, t # Idle,
           pc[t] \in {"run", "unsched", "send_chk", "recv_chk"}, Returns(t, FALSE),
           UNCHANGED <<rq, stat, prio, timer, defunct, current, lockNest, tgt>>,
           UNCHANGED <<ring, receivers, senders, mbAlive>>,
           error' \in [Thread -> Error], mail' \in [Thread -> Mail \cup {NoMail}],
           \A u \in Thread : u # t => error'[u] = error[u] /\ mail'[u] = mail[u],
           \/ error[t] # "EOK" \/ pc[t] \in {"run", "unsched"}
           \/ (pc[t] = "send_chk" /\ entry = MbSize) \/ (pc[t] = "recv_chk" /\ entry = 0)
    PROVE  MbInv'
<1> DEFINE k == IF pc[t] \in {"send_chk", "recv_chk"} THEN "run" ELSE pc[t]
<1>1. pc' = [pc EXCEPT ![t] = k] /\ Goto(t, k) /\ mbTime' = [mbTime EXCEPT ![t] = "no"]
  BY DEF Returns, Goto
<1>2. k \in {"run", "unsched"}
  OBVIOUS
<1> HIDE DEF k
<1>3. /\ pc[t] \notin SuspendLabel \cup {"startup"} /\ BlockInv
      /\ k \in BlockLabel \ (SuspendLabel \cup {"startup"})
      /\ rq' \in ReadyQueue /\ RqOK(rq', ReadyThreads, prio') /\ prio' \in [Thread -> Prio]
  BY <1>2, MbLabels, MbFacts
<1>4. BlockInv' /\ stat[t] = "ready"
  BY <1>1, <1>3, BlockLocal, BlockRunning
<1>5. /\ pc' \in [Thread -> MbLabel] /\ mbTime' \in [Thread -> {"no", "timed", "forever"}]
      /\ mbAlive' \in BOOLEAN /\ mbAlive' = mbAlive
  BY <1>1, <1>2, MbFacts DEF MbLabel, OwnLabel
<1>6. ~InSend(t)' /\ ~InRecv(t)' /\ pc'[t] \notin DetachLabel
  BY <1>1, <1>2, MbFacts DEF InSend, InRecv, DetachLabel
<1>7. \A u \in Thread : u # t => /\ pc'[u] = pc[u]
                                 /\ InSend(u)' <=> InSend(u)
                                 /\ InRecv(u)' <=> InRecv(u)
  BY <1>1, MbFacts DEF InSend, InRecv
<1>8. /\ entry = 0 \/ \A u \in WokenRecv : InRecv(u)'
      /\ entry = MbSize \/ \A u \in WokenSend : InSend(u)'
  BY <1>7 DEF WokenRecv, WokenSend, InSend, InRecv
<1>9. \A u \in Thread : pc'[u] \in DetachLabel => ~mbAlive'
  BY <1>5, <1>6, <1>7 DEF MbInv, DetachDead
<1> QED BY <1>4, <1>5, <1>6, <1>7, <1>8, <1>9, MbFrame

\* One section of rt_mb_send_wait.
LEMMA SendSectionInv ==
    ASSUME MbInv, NEW t \in Thread, NEW m \in Mail, NEW tm \in {"no", "timed", "forever"},
           t = current, t # Idle, pc[t] \in {"run", "unsched", "send_chk"}, SendSection(t, m, tm)
    PROVE  MbInv'
<1>1. CASE SendFull(t, tm)
  <2>1. /\ entry = MbSize /\ Returns(t, FALSE) /\ mail' = [mail EXCEPT ![t] = NoMail]
        /\ UNCHANGED <<rq, stat, prio, timer, error, defunct, current, lockNest, tgt>>
        /\ UNCHANGED <<ring, receivers, senders, mbAlive>>
    BY <1>1 DEF SendFull, Full
  <2>2. /\ error' \in [Thread -> Error] /\ mail' \in [Thread -> Mail \cup {NoMail}]
        /\ \A u \in Thread : u # t => error'[u] = error[u] /\ mail'[u] = mail[u]
    BY <2>1, MbFacts
  <2> QED BY <2>1, <2>2, ReturnInv
<1> QED BY <1>1, SendStoreInv, SendWaitInv DEF SendSection

\* One section of rt_mb_recv.
LEMMA RecvSectionInv ==
    ASSUME MbInv, NEW t \in Thread, NEW tm \in {"no", "timed", "forever"},
           t = current, t # Idle, pc[t] \in {"run", "unsched", "recv_chk"}, mail[t] = NoMail,
           RecvSection(t, tm)
    PROVE  MbInv'
<1>1. CASE RecvRefused(t, tm)
  <2>1. /\ entry = 0 /\ Returns(t, FALSE) /\ UNCHANGED mail
        /\ error' = [error EXCEPT ![t] = IF pc[t] = "recv_chk" THEN "ETIMEOUT" ELSE @]
        /\ UNCHANGED <<rq, stat, prio, timer, defunct, current, lockNest, tgt>>
        /\ UNCHANGED <<ring, receivers, senders, mbAlive>>
    BY <1>1 DEF RecvRefused, Empty
  <2>2. /\ error' \in [Thread -> Error] /\ mail' \in [Thread -> Mail \cup {NoMail}]
        /\ \A u \in Thread : u # t => error'[u] = error[u] /\ mail'[u] = mail[u]
    BY <2>1, MbFacts DEF Error
  <2> QED BY <2>1, <2>2, ReturnInv
<1> QED BY <1>1, RecvFetchInv, RecvWaitInv DEF RecvSection

\* The loops: a thread that has looked at its error gives up or tests again.
LEMMA LoopInv ==
    ASSUME MbInv, NEW t \in Thread, MbGiveUp(t) \/ SendAgain(t) \/ RecvAgain(t)
    PROVE  MbInv'
<1>1. t = current /\ pc[t] \in {"send_chk", "recv_chk"}
  BY DEF MbGiveUp, SendAgain, RecvAgain, At
<1>2. t # Idle
  BY <1>1, MbFacts DEF BlockInv, RunningOK
<1>3. mbTime[t] \in {"no", "timed", "forever"} /\ MbLeft(mbTime[t]) \subseteq {"no", "timed", "forever"}
  BY MbFacts DEF MbLeft
<1>4. CASE MbGiveUp(t)
  <2>1. /\ error[t] # "EOK" /\ Returns(t, FALSE) /\ mail' = [mail EXCEPT ![t] = NoMail]
        /\ UNCHANGED <<rq, stat, prio, timer, error, defunct, current, lockNest, tgt>>
        /\ UNCHANGED <<ring, receivers, senders, mbAlive>>
    BY <1>4 DEF MbGiveUp
  <2>2. /\ error' \in [Thread -> Error] /\ mail' \in [Thread -> Mail \cup {NoMail}]
        /\ \A u \in Thread : u # t => error'[u] = error[u] /\ mail'[u] = mail[u]
    BY <2>1, MbFacts
  <2> QED BY <1>1, <1>2, <2>1, <2>2, ReturnInv
<1>5. CASE SendAgain(t)
  <2>1. pc[t] = "send_chk" /\ \E tm \in MbLeft(mbTime[t]) : SendSection(t, mail[t], tm)
    BY <1>5 DEF SendAgain, At
  <2>2. mail[t] \in Mail
    BY <2>1 DEF MbInv, MailOK, InSend
  <2> QED BY <1>1, <1>2, <1>3, <2>1, <2>2, SendSectionInv
<1>6. CASE RecvAgain(t)
  <2>1. pc[t] = "recv_chk" /\ \E tm \in MbLeft(mbTime[t]) : RecvSection(t, tm)
    BY <1>6 DEF RecvAgain, At
  <2>2. mail[t] = NoMail
    BY <2>1 DEF MbInv, MailOK, InRecv
  <2> QED BY <1>1, <1>2, <1>3, <2>1, <2>2, RecvSectionInv
<1> QED BY <1>4, <1>5, <1>6

\* A first call.
LEMMA MbCallInv ==
    ASSUME MbInv, NEW t \in Thread, mail[t] = NoMail, NEW tm \in MbTimes,
           (\E m \in Mail : rt_mb_send_wait(t, m, tm)) \/ rt_mb_recv(t, tm)
    PROVE  MbInv'
<1>1. tm \in {"no", "timed", "forever"}
  BY MailboxAssumption
<1>2. t = current /\ t # Idle /\ pc[t] \in {"run", "unsched"}
  BY DEF rt_mb_send_wait, rt_mb_recv, InApp
<1>3. ASSUME NEW m \in Mail, SendSection(t, m, tm) PROVE MbInv'
  BY <1>1, <1>2, <1>3, SendSectionInv
<1>4. CASE RecvSection(t, tm)
  BY <1>1, <1>2, <1>4, RecvSectionInv
<1> QED BY <1>3, <1>4 DEF rt_mb_send_wait, rt_mb_recv

\* The rt_schedule of a waiting call.
LEMMA MbScheduleInv ==
    ASSUME MbInv, NEW t \in Thread, MbSchedule(t)
    PROVE  MbInv'
<1> DEFINE k == IF pc[t] = "send" THEN "send_chk" ELSE "recv_chk"
<1>1. /\ t = current /\ pc[t] \in {"send", "recv"} /\ Goto(t, k) /\ pc' = [pc EXCEPT ![t] = k]
      /\ current' = rt_schedule(rq)
      /\ UNCHANGED <<rq, stat, prio, timer, error, defunct, lockNest, tgt>>
      /\ UNCHANGED <<ring, receivers, senders, mbTime, mbAlive, mail>>
  BY DEF MbSchedule, Goto, mbVars
<1>2. /\ k \in WaitLabel /\ k \notin SuspendLabel /\ pc[t] \in SuspendLabel
      /\ k \in MbLabel /\ k \notin DetachLabel
  BY <1>1, MbLabels DEF MbLabel, OwnLabel, MbPc, DetachLabel
<1>3. \A u \in Thread : (InSend(u)' <=> InSend(u)) /\ (InRecv(u)' <=> InRecv(u))
  BY <1>1, MbFacts DEF InSend, InRecv
<1> HIDE DEF k
<1>4. BlockInv'
  BY <1>1, <1>2, MbFacts, BlockSwitch
<1>5. /\ pc' \in [Thread -> MbLabel]
      /\ \A u \in Thread : pc'[u] \in DetachLabel => ~mbAlive'
  BY <1>1, <1>2, MbFacts DEF MbInv, DetachDead
<1>6. /\ mail' \in [Thread -> Mail \cup {NoMail}] /\ mbTime' \in [Thread -> {"no", "timed", "forever"}]
      /\ mbAlive' \in BOOLEAN
  BY <1>1, MbFacts
<1>7. (\A u \in WokenRecv : InRecv(u)') /\ \A u \in WokenSend : InSend(u)'
  BY <1>3 DEF WokenRecv, WokenSend
<1> QED BY <1>1, <1>3, <1>4, <1>5, <1>6, <1>7, MbFrame

\* rt_mb_control(RT_IPC_CMD_RESET): nobody waits afterwards.
LEMMA MbControlInv ==
    ASSUME MbInv, NEW t \in Thread, rt_mb_control(t)
    PROVE  MbInv'
<1> DEFINE l == receivers \o senders
           W == {u \in Thread : Contains(l, u)}
<1>1. /\ InApp(t) /\ Goto(t, "sched") /\ pc' = [pc EXCEPT ![t] = "sched"]
      /\ rq' = InsertAll(rq, l, prio)
      /\ stat' = [u \in Thread |-> IF u \in W THEN "ready" ELSE stat[u]]
      /\ error' = [u \in Thread |-> IF u \in W THEN "ERROR" ELSE error[u]]
      /\ timer' = [u \in Thread |-> timer[u] /\ u \notin W]
      /\ receivers' = <<>> /\ senders' = <<>> /\ entry' = 0 /\ inOff' = 0 /\ outOff' = 0
      /\ UNCHANGED <<prio, defunct, current, lockNest, tgt, msgPool, mbTime, mbAlive, mail>>
  BY DEF rt_mb_control, ResetWakes, Goto
<1>2. \A e : ~(Contains(receivers, e) /\ Contains(senders, e))
  <2> SUFFICES ASSUME NEW e, Contains(receivers, e), Contains(senders, e) PROVE FALSE
    OBVIOUS
  <2>1. e \in Thread
    BY MbFacts DEF Contains
  <2> QED BY <2>1 DEF MbInv, MbWaitersOK, InSend, InRecv
<1>3. /\ l \in Seq(Thread) /\ Distinct(l)
      /\ \A e : Contains(l, e) <=> Contains(receivers, e) \/ Contains(senders, e)
  BY <1>2, MbFacts, ListConcat
<1> HIDE DEF l
<1>4. \A u \in Thread : u \in W <=> (InSend(u) \/ InRecv(u)) /\ stat[u] = "suspend"
  BY <1>3 DEF MbInv, MbWaitersOK
<1>5. /\ W \in SUBSET Thread
      /\ \A w \in W : stat[w] = "suspend" /\ pc[w] \in WaitLabel
  BY <1>4, MbLabels DEF InSend, InRecv
<1>6. \A u \in ReadyThreads : ~Contains(l, u)
  BY <1>4 DEF ReadyThreads
<1>7. rq' \in ReadyQueue /\ RqOK(rq', ReadyThreads \cup W, prio)
  BY <1>1, <1>3, <1>6, MbFacts, RqInsertAll
<1>8. error' \in [Thread -> Error]
  BY <1>1, MbFacts DEF Error
<1> HIDE DEF W
<1>9. BlockInv'
  BY <1>1, <1>5, <1>7, <1>8, MbFacts, BlockWakeAll
<1>10. pc[t] \in {"run", "unsched"} /\ pc' \in [Thread -> MbLabel]
  BY <1>1, MbFacts DEF InApp, MbLabel, OwnLabel
<1>11. \A u \in Thread : /\ InSend(u)' <=> InSend(u)
                         /\ InRecv(u)' <=> InRecv(u)
                         /\ pc'[u] \in DetachLabel => pc[u] \in DetachLabel
  BY <1>1, <1>10, MbFacts DEF InSend, InRecv, DetachLabel
<1>12. \A u \in Thread : (InSend(u) \/ InRecv(u)) => stat'[u] # "suspend"
  BY <1>1, <1>4
<1>13. MbWaitersOK' /\ MbErrorOK'
  BY <1>1, <1>11, <1>12 DEF MbWaitersOK, MbErrorOK, Distinct, Contains
<1>14. MailOK' /\ DetachDead'
  BY <1>1, <1>11 DEF MbInv, MailOK, DetachDead
<1>15. MbNoLostWakeup'
  BY <1>1 DEF MbNoLostWakeup
<1>16. RingTypeOK'
  BY <1>1, RingPart, RingReset
<1>17. receivers' \in Seq(Thread) /\ senders' \in Seq(Thread)
  BY <1>1
<1> QED BY <1>1, <1>9, <1>10, <1>13, <1>14, <1>15, <1>16, <1>17, MbFacts, MbParts

\* The beginning of rt_mb_detach, and the tests of its loops.
LEMMA MbDetachInv ==
    ASSUME MbInv, NEW t \in Thread, rt_mb_detach(t) \/ MbDetachTest(t)
    PROVE  MbInv'
<1>1. /\ t = current /\ pc[t] \in {"run", "unsched", "mb_detach", "mb_detach_s"}
      /\ pc[t] = "run" => t # Idle
      /\ UNCHANGED <<rq, stat, prio, timer, error, defunct, current, lockNest, tgt>>
      /\ UNCHANGED <<ring, receivers, senders, mbTime, mail>>
      /\ mbAlive' = FALSE \/ (mbAlive' = mbAlive /\ pc[t] \in DetachLabel)
  BY DEF rt_mb_detach, MbDetachTest, InApp, mbVars, DetachLabel
<1>2. PICK k \in DetachLabel \cup {"unsched"} : pc' = [pc EXCEPT ![t] = k]
  BY DEF rt_mb_detach, MbDetachTest, DetachGoesOn, Goto, DetachLabel
<1>3. /\ pc[t] \notin SuspendLabel \cup {"startup"} /\ k \in BlockLabel \ (SuspendLabel \cup {"startup"})
      /\ k \in MbLabel
  BY <1>1, MbLabels DEF DetachLabel, MbLabel, OwnLabel, MbPc
<1>4. /\ rq' \in ReadyQueue /\ RqOK(rq', ReadyThreads, prio')
      /\ prio' \in [Thread -> Prio] /\ error' \in [Thread -> Error]
  BY <1>1, MbFacts
<1>5. t # Idle
  BY <1>1, <1>3, MbFacts, BlockRunning
<1>6. BlockInv'
  BY <1>1, <1>2, <1>3, <1>4, <1>5, MbFacts, BlockLocal DEF Goto
<1>7. /\ mbAlive' = FALSE
      /\ pc' \in [Thread -> MbLabel] /\ mail' \in [Thread -> Mail \cup {NoMail}]
      /\ mbTime' \in [Thread -> {"no", "timed", "forever"}]
  BY <1>1, <1>2, <1>3, MbFacts DEF MbInv, DetachDead
<1>8. \A u \in Thread : /\ InSend(u)' <=> InSend(u)
                        /\ InRecv(u)' <=> InRecv(u)
  <2>1. k \notin {"send", "send_chk", "recv", "recv_chk"}
    BY DEF DetachLabel
  <2> QED BY <1>1, <1>2, <2>1, MbFacts DEF InSend, InRecv
<1>9. (\A u \in WokenRecv : InRecv(u)') /\ \A u \in WokenSend : InSend(u)'
  BY <1>8 DEF WokenRecv, WokenSend
<1> QED BY <1>1, <1>6, <1>7, <1>8, <1>9, MbFrame

\* A wait is ended by an error: w leaves its list, and no mail or place was meant
\* for it.
LEMMA MbErrorWake ==
    ASSUME MbInv, BlockInv', NEW w \in Thread, stat[w] = "suspend",
           stat' = [stat EXCEPT ![w] = "ready"], error'[w] # "EOK",
           \A u \in Thread : u # w => error'[u] = error[u],
           receivers' \in Seq(Thread), Distinct(receivers'),
           senders' \in Seq(Thread), Distinct(senders'),
           \A e : Contains(receivers', e) <=> Contains(receivers, e) /\ e # w,
           \A e : Contains(senders', e) <=> Contains(senders, e) /\ e # w,
           UNCHANGED <<ring, mbTime, mbAlive, mail>>,
           pc' \in [Thread -> MbLabel],
           \A u \in Thread : (InSend(u)' <=> InSend(u)) /\ (InRecv(u)' <=> InRecv(u)),
           \A u \in Thread : pc'[u] \in DetachLabel => ~mbAlive
    PROVE  MbInv'
<1>1. MbWaitersOK' /\ MbErrorOK'
  BY WokenWaiters
<1>2. MailOK' /\ DetachDead'
  BY DEF MbInv, MailOK, DetachDead
<1>3. RingTypeOK'
  BY RingPart DEF RingTypeOK, RingOK, ring
<1>4. \A u \in Thread : stat'[u] = IF u = w THEN "ready" ELSE stat[u]
  BY MbFacts
<1>5. WokenRecv' = WokenRecv /\ WokenSend' = WokenSend
  BY <1>4 DEF WokenRecv, WokenSend
<1>6. /\ receivers' # <<>> => receivers # <<>>
      /\ senders' # <<>> => senders # <<>>
  <2>1. ASSUME NEW l \in Seq(Thread), l # <<>> PROVE Contains(l, Head(l))
    BY <2>1 DEF Contains
  <2>2. \A e : ~Contains(<<>>, e)
    BY DEF Contains
  <2> QED BY <2>1, <2>2
<1>7. mbAlive => ReceiversServed /\ SendersServed
  BY LostWakeupHalves DEF MbInv
<1>8. mbAlive' => ReceiversServed' /\ SendersServed'
  BY <1>5, <1>6, <1>7 DEF ReceiversServed, SendersServed, ring
<1>9. MbNoLostWakeup'
  BY <1>8, LostWakeupHalves
<1> QED BY <1>1, <1>2, <1>3, <1>9, MbFacts, MbParts

\* One round of the loops of rt_mb_detach.
LEMMA MbDetachOneInv ==
    ASSUME MbInv, NEW t \in Thread, MbDetachReceiver(t) \/ MbDetachSender(t)
    PROVE  MbInv'
<1>1. PICK l, k :
        /\ \/ l = receivers /\ receivers' = Tail(l) /\ senders' = senders /\ k = "mb_detach"
           \/ l = senders /\ senders' = Tail(l) /\ receivers' = receivers /\ k = "mb_detach_s"
        /\ l # <<>> /\ t = current /\ pc[t] \in DetachLabel
        /\ error' = [error EXCEPT ![Head(l)] = "ERROR"] /\ ResumeHead(l) /\ Goto(t, k)
        /\ UNCHANGED <<prio, defunct, current, lockNest, tgt>>
        /\ UNCHANGED <<ring, mbTime, mbAlive, mail>>
  <2>1. CASE MbDetachReceiver(t)
    BY <2>1 DEF MbDetachReceiver, At, DetachLabel
  <2>2. CASE MbDetachSender(t)
    BY <2>2 DEF MbDetachSender, At, DetachLabel
  <2> QED BY <2>1, <2>2
<1> DEFINE w == Head(l)
<1>2. /\ w \in Thread /\ stat[w] = "suspend" /\ pc[w] \in WaitLabel
      /\ rq' \in ReadyQueue /\ RqOK(rq', ReadyThreads \cup {w}, prio')
      /\ prio' \in [Thread -> Prio] /\ stat' = [stat EXCEPT ![w] = "ready"]
      /\ timer' = [timer EXCEPT ![w] = FALSE]
      /\ Tail(l) \in Seq(Thread) /\ Distinct(Tail(l))
      /\ \A e : Contains(Tail(l), e) <=> Contains(l, e) /\ e # w
      /\ l = receivers => ~Contains(senders, w)
      /\ l = senders => ~Contains(receivers, w)
  BY <1>1, ResumeHeadFacts
<1>3. error' = [error EXCEPT ![w] = "ERROR"]
  BY <1>1
<1> HIDE DEF w
<1>4. /\ receivers' \in Seq(Thread) /\ Distinct(receivers')
      /\ senders' \in Seq(Thread) /\ Distinct(senders')
  BY <1>1, <1>2, MbFacts
<1>5. /\ \A e : Contains(receivers', e) <=> Contains(receivers, e) /\ e # w
      /\ \A e : Contains(senders', e) <=> Contains(senders, e) /\ e # w
  BY <1>1, <1>2
<1>6. /\ error' \in [Thread -> Error] /\ error'[w] # "EOK"
      /\ \A u \in Thread : u # w => error'[u] = error[u]
  BY <1>2, <1>3, MbFacts DEF Error
<1>7. /\ pc[t] \notin SuspendLabel \cup {"startup"} /\ k \in BlockLabel \ (WaitLabel \cup {"startup"})
      /\ k \in MbLabel /\ k \in DetachLabel /\ pc[t] # "run"
  BY <1>1, MbLabels DEF DetachLabel, MbLabel, OwnLabel, MbPc
<1>8. t # Idle
  BY <1>1, <1>7, MbFacts, BlockRunning
<1>9. BlockInv'
  BY <1>1, <1>2, <1>6, <1>7, <1>8, MbFacts, BlockWake
<1>10. pc' = [pc EXCEPT ![t] = k] /\ ~mbAlive
  BY <1>1 DEF Goto, MbInv, DetachDead
<1>11. /\ pc' \in [Thread -> MbLabel]
       /\ \A u \in Thread : (InSend(u)' <=> InSend(u)) /\ (InRecv(u)' <=> InRecv(u))
  BY <1>1, <1>7, <1>10, MbFacts DEF InSend, InRecv, DetachLabel
<1> QED BY <1>1, <1>2, <1>4, <1>5, <1>6, <1>9, <1>10, <1>11, MbErrorWake

\* The timer of a waiting call expires.
LEMMA MbTimeoutInv ==
    ASSUME MbInv, NEW t \in Thread, MbTimeout(t)
    PROVE  MbInv'
<1>1. /\ rt_thread_timeout(t) /\ receivers' = rt_list_remove(receivers, t)
      /\ senders' = rt_list_remove(senders, t) /\ UNCHANGED <<ring, mbTime, mbAlive, mail>>
  BY DEF MbTimeout
<1>2. /\ BlockInv' /\ stat[t] = "suspend" /\ UNCHANGED pc
      /\ stat' = [stat EXCEPT ![t] = "ready"] /\ error' = [error EXCEPT ![t] = "ETIMEOUT"]
  BY <1>1, MbFacts, BlockTimeout
<1>3. /\ receivers' \in Seq(Thread) /\ Distinct(receivers')
      /\ \A e : Contains(receivers', e) <=> Contains(receivers, e) /\ e # t
  BY <1>1, MbFacts, ListRemove
<1>4. /\ senders' \in Seq(Thread) /\ Distinct(senders')
      /\ \A e : Contains(senders', e) <=> Contains(senders, e) /\ e # t
  BY <1>1, MbFacts, ListRemove
<1>5. error'[t] # "EOK" /\ \A u \in Thread : u # t => error'[u] = error[u]
  BY <1>2, MbFacts
<1>6. /\ pc' \in [Thread -> MbLabel]
      /\ \A u \in Thread : (InSend(u)' <=> InSend(u)) /\ (InRecv(u)' <=> InRecv(u))
      /\ \A u \in Thread : pc'[u] \in DetachLabel => ~mbAlive
  BY <1>2, MbFacts DEF InSend, InRecv, MbInv, DetachDead
<1> QED BY <1>1, <1>2, <1>3, <1>4, <1>5, <1>6, MbErrorWake

\* rt_mb_send in an interrupt handler.
LEMMA IsrSendInv ==
    ASSUME MbInv, NEW m \in Mail, IsrSend(m)
    PROVE  MbInv'
<1>1. /\ ~Full /\ Store(m) /\ current' = (IF receivers # <<>> THEN rt_schedule(rq') ELSE current)
      /\ UNCHANGED <<prio, error, defunct, lockNest, tgt, pc, senders, mbTime, mbAlive, mail>>
  BY DEF IsrSend, WakesReceiver
<1>2. IF receivers # <<>> THEN ResumeHead(receivers) ELSE UNCHANGED <<stat, timer, rq>>
  BY <1>1 DEF Store, WakesReceiver
<1>3. BlockInv'
  <2>1. CASE receivers # <<>>
    <3> DEFINE w == Head(receivers)
    <3>1. /\ w \in Thread /\ stat[w] = "suspend" /\ pc[w] \in WaitLabel
          /\ rq' \in ReadyQueue /\ RqOK(rq', ReadyThreads \cup {w}, prio')
          /\ prio' \in [Thread -> Prio] /\ stat' = [stat EXCEPT ![w] = "ready"]
          /\ timer' = [timer EXCEPT ![w] = FALSE]
      BY <1>1, <1>2, <2>1, ResumeHeadFacts
    <3> HIDE DEF w
    <3>2. error' \in [Thread -> Error] /\ BlockInv
      BY <1>1, MbFacts
    <3> QED BY <1>1, <3>1, <3>2, BlockWake
  <2>2. CASE receivers = <<>>
    <3>1. UNCHANGED schedVars
      BY <1>1, <1>2, <2>2 DEF schedVars
    <3> QED BY <3>1, MbFacts, BlockStutter
  <2> QED BY <2>1, <2>2
<1>4. m \in Mail /\ Main \in Thread
  BY ThreadAssumption
<1>5. /\ pc' \in [Thread -> MbLabel] /\ mail' \in [Thread -> Mail \cup {NoMail}]
      /\ mbTime' \in [Thread -> {"no", "timed", "forever"}]
  BY <1>1, MbFacts
<1>6. \A u \in Thread : /\ InSend(u)' <=> InSend(u)
                        /\ InRecv(u)' <=> InRecv(u)
                        /\ pc'[u] \in DetachLabel => pc[u] \in DetachLabel
                        /\ mail'[u] = mail[u]
  BY <1>1 DEF InSend, InRecv
<1> QED BY <1>1, <1>3, <1>4, <1>5, <1>6, StoreInv

\* A step of the scheduler: it changes no thread inside one of the loops.
LEMMA MbQuiet ==
    ASSUME MbInv, BlockInv', UNCHANGED <<ring, receivers, senders, mbTime, mbAlive>>,
           mail' \in [Thread -> Mail \cup {NoMail}], pc' \in [Thread -> MbLabel],
           \A u \in Thread : (InSend(u)' <=> InSend(u)) /\ (InRecv(u)' <=> InRecv(u)),
           \A u \in Thread : InSend(u) \/ InRecv(u)
                => stat'[u] = stat[u] /\ error'[u] = error[u] /\ mail'[u] = mail[u],
           \A u \in Thread : pc'[u] \in DetachLabel => pc[u] \in DetachLabel
    PROVE  MbInv'
<1>1. /\ (\A u \in WokenRecv : InRecv(u)') /\ (\A u \in WokenSend : InSend(u)')
      /\ \A u \in Thread : pc'[u] \in DetachLabel => ~mbAlive'
  BY DEF WokenRecv, WokenSend, MbInv, DetachDead
<1>2. mbTime' \in [Thread -> {"no", "timed", "forever"}] /\ mbAlive' \in BOOLEAN
  BY MbFacts
<1> QED BY <1>1, <1>2, MbFrame

\* The steps of the scheduler, and Discard.
LEMMA MbSchedInv ==
    ASSUME Disciplined, MbInv,
           \/ \E t \in Thread : Discard(t)
           \/ /\ UNCHANGED mbVars
              /\ \/ \E t, u \in Thread : rt_thread_startup(t, u)
                 \/ \E t \in Thread : ResumeInsert(t) \/ Schedule(t)
                 \/ rt_tick_increase
                 \/ UNCHANGED schedVars
    PROVE  MbInv'
<1>1. ASSUME NEW t \in Thread, Discard(t) PROVE MbInv'
  <2>1. /\ pc[t] \in {"run", "unsched"} /\ mail' = [mail EXCEPT ![t] = NoMail]
        /\ UNCHANGED schedVars /\ UNCHANGED <<ring, receivers, senders, mbTime, mbAlive>>
    BY <1>1 DEF Discard, InApp
  <2>2. BlockInv' /\ UNCHANGED <<pc, stat, error>>
    BY <2>1, MbFacts, BlockStutter DEF schedVars
  <2>3. /\ mail' \in [Thread -> Mail \cup {NoMail}] /\ pc' \in [Thread -> MbLabel]
        /\ \A u \in Thread : (InSend(u)' <=> InSend(u)) /\ (InRecv(u)' <=> InRecv(u))
        /\ \A u \in Thread : InSend(u) \/ InRecv(u) => mail'[u] = mail[u]
    BY <2>1, <2>2, MbFacts DEF InSend, InRecv
  <2> QED BY <2>1, <2>2, <2>3, MbQuiet
<1> SUFFICES ASSUME UNCHANGED mbVars,
                    \/ \E t, u \in Thread : rt_thread_startup(t, u)
                    \/ \E t \in Thread : ResumeInsert(t) \/ Schedule(t)
                    \/ rt_tick_increase
                    \/ UNCHANGED schedVars
             PROVE  MbInv'
  BY <1>1
<1>2. UNCHANGED <<ring, receivers, senders, mbTime, mbAlive>> /\ UNCHANGED mail
  BY DEF mbVars
<1>3. mail' \in [Thread -> Mail \cup {NoMail}]
  BY <1>2, MbFacts
<1>4. ASSUME NEW t \in Thread, NEW u \in Thread, rt_thread_startup(t, u) PROVE MbInv'
  <2>1. BlockInv' /\ u # t /\ pc[u] = "run" /\ pc[t] \in {"run", "unsched"}
    BY <1>4, MbFacts, BlockStartup DEF rt_thread_startup, InApp
  <2>2. /\ pc' = [pc EXCEPT ![t] = "startup"] /\ stat' = [stat EXCEPT ![u] = "suspend"]
        /\ UNCHANGED error
    BY <1>4 DEF rt_thread_startup, Goto
  <2>3. /\ pc' \in [Thread -> MbLabel]
        /\ \A v \in Thread : (InSend(v)' <=> InSend(v)) /\ (InRecv(v)' <=> InRecv(v))
        /\ \A v \in Thread : InSend(v) \/ InRecv(v) => stat'[v] = stat[v]
        /\ \A v \in Thread : pc'[v] \in DetachLabel => pc[v] \in DetachLabel
    BY <2>1, <2>2, MbFacts DEF InSend, InRecv, MbLabel, OwnLabel, DetachLabel
  <2> QED BY <1>2, <1>3, <2>1, <2>2, <2>3, MbQuiet
<1>5. ASSUME NEW t \in Thread, ResumeInsert(t) PROVE MbInv'
  <2>1. /\ BlockInv' /\ tgt[t] \in Thread /\ pc[tgt[t]] = "run" /\ pc[t] = "startup"
        /\ pc' = [pc EXCEPT ![t] = "sched"]
    BY <1>5, MbFacts, BlockStarted
  <2>2. stat' = [stat EXCEPT ![tgt[t]] = "ready"] /\ UNCHANGED error
    BY <1>5 DEF ResumeInsert
  <2>3. /\ pc' \in [Thread -> MbLabel]
        /\ \A v \in Thread : (InSend(v)' <=> InSend(v)) /\ (InRecv(v)' <=> InRecv(v))
        /\ \A v \in Thread : InSend(v) \/ InRecv(v) => stat'[v] = stat[v]
        /\ \A v \in Thread : pc'[v] \in DetachLabel => pc[v] \in DetachLabel
    BY <2>1, <2>2, MbFacts DEF InSend, InRecv, MbLabel, OwnLabel, DetachLabel
  <2> QED BY <1>2, <1>3, <2>1, <2>2, <2>3, MbQuiet
<1>6. ASSUME NEW t \in Thread, Schedule(t) PROVE MbInv'
  <2>1. BlockInv' /\ pc[t] \in {"sched", "sleep", "exit"} /\ UNCHANGED <<stat, error>>
    BY <1>6, MbFacts, BlockSchedule DEF Schedule
  <2>2. pc[t] = "sched"
    BY <2>1, MbFacts DEF MbLabel, OwnLabel, MbPc
  <2>3. pc' = [pc EXCEPT ![t] = "run"]
    BY <1>6, <2>2 DEF Schedule, Goto
  <2>4. /\ pc' \in [Thread -> MbLabel]
        /\ \A v \in Thread : (InSend(v)' <=> InSend(v)) /\ (InRecv(v)' <=> InRecv(v))
        /\ \A v \in Thread : pc'[v] \in DetachLabel => pc[v] \in DetachLabel
    BY <2>2, <2>3, MbFacts DEF InSend, InRecv, MbLabel, OwnLabel, DetachLabel
  <2> QED BY <1>2, <1>3, <2>1, <2>4, MbQuiet
<1>7. CASE rt_tick_increase \/ UNCHANGED schedVars
  <2>1. BlockInv' /\ UNCHANGED <<pc, stat, error>>
    BY <1>7, MbFacts, BlockTick, BlockStutter DEF schedVars
  <2>2. /\ pc' \in [Thread -> MbLabel]
        /\ \A v \in Thread : (InSend(v)' <=> InSend(v)) /\ (InRecv(v)' <=> InRecv(v))
    BY <2>1, MbFacts DEF InSend, InRecv
  <2> QED BY <1>2, <1>3, <2>1, <2>2, MbQuiet
<1> QED BY <1>4, <1>5, <1>6, <1>7

\* Every step keeps the invariant.
LEMMA MbNextInv ==
    ASSUME Disciplined, MbInv, [MbNext]_<<schedVars, mbVars>>
    PROVE  MbInv'
<1>1. ASSUME NEW t \in Thread, MbCall(t) PROVE MbInv'
  BY <1>1, MbCallInv, MbControlInv, MbDetachInv, MbSchedInv DEF MbCall
<1>2. ASSUME NEW t \in Thread, MbStep(t) PROVE MbInv'
  BY <1>2, MbScheduleInv, LoopInv, MbDetachInv, MbDetachOneInv DEF MbStep
<1>3. CASE UNCHANGED <<schedVars, mbVars>>
  BY <1>3, MbSchedInv
<1> QED BY <1>1, <1>2, <1>3, MbTimeoutInv, IsrSendInv, MbSchedInv, MailboxAssumption DEF MbNext

\* The inductive invariant holds in every reachable state.
THEOREM MbInvariant == ASSUME Disciplined PROVE MbSpec => []MbInv
<1>1. Init /\ MbInit => MbInv
  BY MbInitInv
<1>2. MbInv /\ [MbNext]_<<schedVars, mbVars>> => MbInv'
  BY MbNextInv
<1> QED BY <1>1, <1>2, PTL DEF MbSpec

\* The system of the mailbox alone keeps to its own labels.
LEMMA OwnLabels ==
    ASSUME pc \in [Thread -> OwnLabel], [MbNext]_<<schedVars, mbVars>>
    PROVE  pc' \in [Thread -> OwnLabel]
<1>1. ASSUME NEW t \in Thread, NEW l \in OwnLabel, pc' = [pc EXCEPT ![t] = l] PROVE pc' \in [Thread -> OwnLabel]
  BY <1>1
<1>2. ASSUME NEW t \in Thread, NEW m, NEW tm, SendSection(t, m, tm) \/ RecvSection(t, tm) \/ MbGiveUp(t)
      PROVE  \E l \in OwnLabel : pc' = [pc EXCEPT ![t] = l]
  BY <1>2 DEF SendSection, SendStore, SendFull, SendWait, RecvSection, RecvFetch, RecvRefused, RecvWait, MbGiveUp,
     Returns, SuspendSelf, Goto, OwnLabel, MbPc
<1>3. ASSUME NEW t \in Thread, MbCall(t) PROVE pc' = pc \/ \E l \in OwnLabel : pc' = [pc EXCEPT ![t] = l]
  <2>1. ASSUME NEW m, NEW tm, rt_mb_send_wait(t, m, tm) \/ rt_mb_recv(t, tm)
        PROVE  \E l \in OwnLabel : pc' = [pc EXCEPT ![t] = l]
    BY <1>2, <2>1 DEF rt_mb_send_wait, rt_mb_recv
  <2>2. ASSUME NEW u \in Thread, rt_thread_startup(t, u) PROVE \E l \in OwnLabel : pc' = [pc EXCEPT ![t] = l]
    BY <2>2 DEF rt_thread_startup, Goto, OwnLabel
  <2>3. ASSUME rt_mb_control(t) \/ rt_mb_detach(t) PROVE \E l \in OwnLabel : pc' = [pc EXCEPT ![t] = l]
    BY <2>3 DEF rt_mb_control, rt_mb_detach, Goto, OwnLabel, MbPc
  <2>4. ASSUME Discard(t) PROVE pc' = pc
    BY <2>4 DEF Discard, schedVars
  <2> QED BY <1>3, <2>1, <2>2, <2>3, <2>4 DEF MbCall
<1>4. ASSUME NEW t \in Thread, MbStep(t) PROVE \E l \in OwnLabel : pc' = [pc EXCEPT ![t] = l]
  <2>1. ASSUME SendAgain(t) \/ RecvAgain(t) PROVE \E l \in OwnLabel : pc' = [pc EXCEPT ![t] = l]
    BY <1>2, <2>1 DEF SendAgain, RecvAgain
  <2>2. ASSUME MbSchedule(t) \/ MbDetachTest(t) \/ MbDetachReceiver(t) \/ MbDetachSender(t)
        PROVE  \E l \in OwnLabel : pc' = [pc EXCEPT ![t] = l]
    BY <2>2 DEF MbSchedule, MbDetachTest, DetachGoesOn, MbDetachReceiver, MbDetachSender, Goto, OwnLabel, MbPc
  <2> QED BY <1>2, <1>4, <2>1, <2>2 DEF MbStep
<1>5. ASSUME NEW t \in Thread, ResumeInsert(t) PROVE \E l \in OwnLabel : pc' = [pc EXCEPT ![t] = l]
  BY <1>5 DEF ResumeInsert, Goto, OwnLabel
<1>6. ASSUME NEW t \in Thread, Schedule(t) PROVE \E l \in OwnLabel : pc' = [pc EXCEPT ![t] = l]
  <2>1. pc[t] = "sched"
    BY <1>6 DEF Schedule, OwnLabel, MbPc
  <2>2. pc' = [pc EXCEPT ![t] = "run"]
    BY <1>6, <2>1 DEF Schedule, Goto
  <2> QED BY <2>2 DEF OwnLabel
<1>7. ASSUME \/ \E t \in Thread : MbTimeout(t)
             \/ \E m \in IsrMail : IsrSend(m)
             \/ rt_tick_increase
             \/ UNCHANGED <<schedVars, mbVars>>
      PROVE  pc' = pc
  BY <1>7 DEF MbTimeout, rt_thread_timeout, IsrSend, rt_tick_increase, schedVars
<1> QED BY <1>1, <1>3, <1>4, <1>5, <1>6, <1>7 DEF MbNext

\* The ring's counters and offsets stay in range, entry and its wrapping offsets
\* included, and the callers' side keeps its type.
THEOREM MbTypeCorrect == ASSUME Disciplined PROVE MbSpec => []MbTypeOK
<1>1. Init => pc \in [Thread -> OwnLabel]
  BY DEF Init, OwnLabel
<1>2. pc \in [Thread -> OwnLabel] /\ [MbNext]_<<schedVars, mbVars>> => (pc \in [Thread -> OwnLabel])'
  BY OwnLabels
<1>3. MbInv /\ pc \in [Thread -> OwnLabel] => MbTypeOK
  BY DEF MbInv, MbFieldsOK, BlockInv, MbTypeOK, OwnLabel
<1> QED BY <1>1, <1>2, <1>3, MbInvariant, PTL DEF MbSpec

\* The two lists of a mailbox hold exactly the threads that wait in rt_mb_send_wait
\* and in rt_mb_recv, each once, however a wait ends.
THEOREM MbWaiters == ASSUME Disciplined PROVE MbSpec => []MbWaitersOK
<1>1. MbInv => MbWaitersOK
  BY DEF MbInv
<1> QED BY <1>1, MbInvariant, PTL

\* No wakeup is lost on either side of a mailbox of any size, for any number of
\* senders, receivers and interrupts: while a receiver is left waiting every mail
\* has a woken receiver, and while a sender is left waiting every place has one.
THEOREM MbWakeups == ASSUME Disciplined PROVE MbSpec => []MbNoLostWakeup
<1>1. MbInv => MbNoLostWakeup
  BY DEF MbInv
<1> QED BY <1>1, MbInvariant, PTL
-----------------------------------------------------------------------------
(* The mailbox implements BoundedFifo.                                      *)

\* The contents are no longer than the ring.
LEMMA ContentsLength ==
    ASSUME RingTypeOK
    PROVE  Len(Contents) = entry /\ entry \in Nat /\ (entry = 0 <=> Contents = <<>>)
<1>1. entry \in Nat
  BY MailboxAssumption DEF RingTypeOK
<1>2. Contents = [i \in 1..entry |-> msgPool[(outOff + i - 1) % MbSize]]
  BY DEF Contents
<1>3. Len(Contents) = entry
  BY <1>1, <1>2
<1>4. \A f : DOMAIN f = 1..0 /\ f = [i \in DOMAIN f |-> f[i]] => f = <<>>
  OBVIOUS
<1> QED BY <1>1, <1>2, <1>3, <1>4

\* A step of the abstract queue, or none.
FifoStep == [Fifo!FifoNext]_<<Contents, mail>>

\* A step that leaves the ring alone leaves the contents alone.
LEMMA ContentsSame == UNCHANGED ring => Contents' = Contents
  BY DEF Contents, ring

\* rt_mb_send_wait: a first call offers its mail or puts it at once, a call that
\* waited puts the mail it offered, and one that is refused takes it back.
LEMMA SendFifo ==
    ASSUME MbInv, NEW t \in Thread, NEW m \in Mail, NEW tm, SendSection(t, m, tm),
           mail[t] = NoMail \/ mail[t] = m
    PROVE  FifoStep
<1>1. RingTypeOK /\ mail \in [Thread -> Mail \cup {NoMail}] /\ m # NoMail
  BY RingPart, MbFacts, MailboxAssumption
<1>2. CASE SendStore(t, m)
  <2>1. /\ entry # MbSize /\ msgPool' = [msgPool EXCEPT ![inOff] = m] /\ inOff' = NextOffset(inOff)
        /\ entry' = entry + 1 /\ UNCHANGED outOff /\ mail' = [mail EXCEPT ![t] = NoMail]
    BY <1>2 DEF SendStore, Store, Full
  <2>2. entry < MbSize
    BY <1>1, <2>1, MailboxAssumption DEF RingTypeOK
  <2>3. Contents' = Append(Contents, m) /\ Len(Contents) < MbSize
    BY <1>1, <2>1, <2>2, RingStore, ContentsLength
  <2>4. CASE mail[t] = NoMail
    <3>1. mail' = mail
      BY <1>1, <2>1, <2>4
    <3>2. Fifo!PutAtOnce(m)
      BY <2>3, <3>1 DEF Fifo!PutAtOnce
    <3> QED BY <3>2 DEF FifoStep, Fifo!FifoNext
  <2>5. CASE mail[t] = m
    <3>1. Fifo!Put(t)
      BY <1>1, <2>1, <2>3, <2>5 DEF Fifo!Put
    <3> QED BY <3>1 DEF FifoStep, Fifo!FifoNext
  <2> QED BY <2>4, <2>5
<1>3. CASE SendFull(t, tm)
  <2>1. Contents' = Contents /\ mail' = [mail EXCEPT ![t] = NoMail]
    BY <1>3, ContentsSame DEF SendFull
  <2>2. CASE mail[t] = NoMail
    <3>1. mail' = mail
      BY <1>1, <2>1, <2>2
    <3> QED BY <2>1, <3>1 DEF FifoStep
  <2>3. CASE mail[t] = m
    <3>1. Fifo!Drop(t)
      BY <1>1, <2>1, <2>3 DEF Fifo!Drop
    <3> QED BY <3>1 DEF FifoStep, Fifo!FifoNext
  <2> QED BY <2>2, <2>3
<1>4. CASE SendWait(t, m, tm)
  <2>1. Contents' = Contents /\ mail' = [mail EXCEPT ![t] = m]
    BY <1>4, ContentsSame DEF SendWait
  <2>2. CASE mail[t] = NoMail
    <3>1. Fifo!Offer(t, m)
      BY <2>1, <2>2 DEF Fifo!Offer
    <3> QED BY <3>1 DEF FifoStep, Fifo!FifoNext
  <2>3. CASE mail[t] = m
    <3>1. mail' = mail
      BY <1>1, <2>1, <2>3
    <3> QED BY <2>1, <3>1 DEF FifoStep
  <2> QED BY <2>2, <2>3
<1> QED BY <1>2, <1>3, <1>4 DEF SendSection

\* rt_mb_recv takes the head of the queue, or nothing.
LEMMA RecvFifo ==
    ASSUME MbInv, NEW t \in Thread, NEW tm, RecvSection(t, tm), mail[t] = NoMail
    PROVE  FifoStep
<1>1. RingTypeOK /\ mail \in [Thread -> Mail \cup {NoMail}]
  BY RingPart, MbFacts
<1>2. CASE RecvFetch(t)
  <2>1. /\ entry # 0 /\ mail' = [mail EXCEPT ![t] = msgPool[outOff]] /\ outOff' = NextOffset(outOff)
        /\ entry' = entry - 1 /\ UNCHANGED <<msgPool, inOff>>
    BY <1>2 DEF RecvFetch, Fetch, Empty
  <2>2. entry > 0
    BY <1>1, <2>1, MailboxAssumption DEF RingTypeOK
  <2>3. /\ Contents # <<>> /\ msgPool[outOff] = Head(Contents) /\ Contents' = Tail(Contents)
    BY <1>1, <2>1, <2>2, RingFetch
  <2>4. Fifo!Get(t)
    BY <2>1, <2>3 DEF Fifo!Get
  <2> QED BY <2>4 DEF FifoStep, Fifo!FifoNext
<1>3. CASE RecvRefused(t, tm) \/ RecvWait(t, tm)
  <2>1. Contents' = Contents /\ mail' = mail
    BY <1>3, ContentsSame DEF RecvRefused, RecvWait
  <2> QED BY <2>1 DEF FifoStep
<1> QED BY <1>2, <1>3 DEF RecvSection

\* A thread gives up the mail it could not store, or is done with the one it got.
LEMMA DropFifo ==
    ASSUME MbInv, NEW t \in Thread, MbGiveUp(t) \/ Discard(t)
    PROVE  FifoStep
<1>1. mail \in [Thread -> Mail \cup {NoMail}]
  BY MbFacts
<1>2. Contents' = Contents /\ mail' = [mail EXCEPT ![t] = NoMail]
  BY ContentsSame DEF MbGiveUp, Discard
<1>3. CASE mail[t] = NoMail
  <2>1. mail' = mail
    BY <1>1, <1>2, <1>3
  <2> QED BY <1>2, <2>1 DEF FifoStep
<1>4. CASE mail[t] # NoMail
  <2>1. Fifo!Drop(t)
    BY <1>2, <1>4 DEF Fifo!Drop
  <2> QED BY <2>1 DEF FifoStep, Fifo!FifoNext
<1> QED BY <1>3, <1>4

\* Every step of the mailbox is a step of the queue, or leaves the queue alone.
LEMMA NextFifo ==
    ASSUME MbInv, [MbNext]_<<schedVars, mbVars>>
    PROVE  FifoStep
<1>1. ASSUME UNCHANGED ring, UNCHANGED mail PROVE FifoStep
  <2>1. Contents' = Contents /\ mail' = mail
    BY <1>1, ContentsSame
  <2> QED BY <2>1 DEF FifoStep
<1>2. ASSUME UNCHANGED mbVars PROVE FifoStep
  BY <1>1, <1>2 DEF mbVars
<1>3. ASSUME NEW t \in Thread, MbCall(t) PROVE FifoStep
  <2>1. ASSUME mail[t] = NoMail, NEW tm \in MbTimes, NEW m \in Mail, rt_mb_send_wait(t, m, tm)
        PROVE  FifoStep
    BY <2>1, SendFifo DEF rt_mb_send_wait
  <2>2. ASSUME mail[t] = NoMail, NEW tm \in MbTimes, rt_mb_recv(t, tm) PROVE FifoStep
    BY <2>2, RecvFifo DEF rt_mb_recv
  <2>3. CASE rt_mb_control(t)
    <3>1. entry' = 0 /\ inOff' = 0 /\ outOff' = 0 /\ UNCHANGED msgPool /\ UNCHANGED mail
      BY <2>3 DEF rt_mb_control
    <3>2. Contents' = <<>>
      BY <3>1, RingPart, RingReset
    <3>3. Fifo!Clear
      BY <3>1, <3>2 DEF Fifo!Clear
    <3> QED BY <3>3 DEF FifoStep, Fifo!FifoNext
  <2>4. CASE rt_mb_detach(t)
    BY <1>1, <2>4 DEF rt_mb_detach
  <2> QED BY <1>2, <1>3, <2>1, <2>2, <2>3, <2>4, DropFifo DEF MbCall
<1>4. ASSUME NEW t \in Thread, MbStep(t) PROVE FifoStep
  <2>1. CASE SendAgain(t)
    <3>1. pc[t] = "send_chk" /\ \E tm \in MbLeft(mbTime[t]) : SendSection(t, mail[t], tm)
      BY <2>1 DEF SendAgain, At
    <3>2. mail[t] \in Mail
      BY <3>1 DEF MbInv, MailOK, InSend
    <3> QED BY <3>1, <3>2, SendFifo
  <2>2. CASE RecvAgain(t)
    <3>1. pc[t] = "recv_chk" /\ \E tm \in MbLeft(mbTime[t]) : RecvSection(t, tm)
      BY <2>2 DEF RecvAgain, At
    <3>2. mail[t] = NoMail
      BY <3>1 DEF MbInv, MailOK, InRecv
    <3> QED BY <3>1, <3>2, RecvFifo
  <2>3. CASE MbSchedule(t) \/ MbDetachTest(t)
    BY <1>2, <2>3 DEF MbSchedule, MbDetachTest
  <2>4. CASE MbDetachReceiver(t) \/ MbDetachSender(t)
    BY <1>1, <2>4 DEF MbDetachReceiver, MbDetachSender
  <2> QED BY <1>4, <2>1, <2>2, <2>3, <2>4, DropFifo DEF MbStep
<1>5. ASSUME NEW t \in Thread, MbTimeout(t) PROVE FifoStep
  BY <1>1, <1>5 DEF MbTimeout
<1>6. ASSUME NEW m \in IsrMail, IsrSend(m) PROVE FifoStep
  <2>1. /\ entry # MbSize /\ msgPool' = [msgPool EXCEPT ![inOff] = m] /\ inOff' = NextOffset(inOff)
        /\ entry' = entry + 1 /\ UNCHANGED outOff /\ UNCHANGED mail /\ m \in Mail
    BY <1>6, MailboxAssumption DEF IsrSend, Store, Full
  <2>2. RingTypeOK /\ entry < MbSize
    BY <2>1, RingPart, MailboxAssumption DEF RingTypeOK
  <2>3. Contents' = Append(Contents, m) /\ Len(Contents) < MbSize
    BY <2>1, <2>2, RingStore, ContentsLength
  <2>4. Fifo!PutAtOnce(m)
    BY <2>1, <2>3 DEF Fifo!PutAtOnce
  <2> QED BY <2>1, <2>4 DEF FifoStep, Fifo!FifoNext
<1> QED BY <1>2, <1>3, <1>4, <1>5, <1>6 DEF MbNext

\* The mailbox implements a bounded FIFO, whatever the size of its ring and however
\* many threads and interrupts use it: each mail that is stored is received once,
\* unchanged and in order, and only a reset loses one.
THEOREM MbImplementsFifo == ASSUME Disciplined PROVE MbSpec => MailboxIsFifo
<1>1. Init /\ MbInit => Fifo!FifoInit
  <2> SUFFICES ASSUME MbInit PROVE Fifo!FifoInit
    OBVIOUS
  <2>1. Contents = [i \in 1..0 |-> msgPool[(outOff + i - 1) % MbSize]]
    BY DEF MbInit, Contents
  <2>2. \A f : DOMAIN f = 1..0 /\ f = [i \in DOMAIN f |-> f[i]] => f = <<>>
    OBVIOUS
  <2>3. Contents = <<>>
    BY <2>1, <2>2
  <2> QED BY <2>3 DEF Fifo!FifoInit, MbInit
<1>2. MbInv /\ [MbNext]_<<schedVars, mbVars>> => FifoStep
  BY NextFifo
<1>3. MbSpec => []MbInv
  BY MbInvariant
<1> QED BY <1>1, <1>2, <1>3, PTL DEF MbSpec, MailboxIsFifo, Fifo!FifoSpec, FifoStep
=============================================================================

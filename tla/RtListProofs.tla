---------------------------- MODULE RtListProofs ----------------------------
(* Facts about the list operations, used by the proofs of the modules above. *)
EXTENDS RtList, TLAPS, SequenceTheorems, WellFoundedInduction

\* rt_list_remove at a known position: the later nodes move up by one.
LEMMA RemoveAtProperties ==
    ASSUME NEW S, NEW l \in Seq(S), NEW i \in 1..Len(l)
    PROVE  /\ RemoveAt(l, i) \in Seq(S)
           /\ Len(RemoveAt(l, i)) = Len(l) - 1
           /\ \A j \in 1..(Len(l) - 1) :
                RemoveAt(l, i)[j] = IF j < i THEN l[j] ELSE l[j + 1]
<1> DEFINE a == SubSeq(l, 1, i - 1)
           b == SubSeq(l, i + 1, Len(l))
<1>1. /\ a \in Seq(S) /\ Len(a) = i - 1
      /\ \A j \in 1..(i - 1) : a[j] = l[j]
  BY SubSeqProperties
<1>2. /\ b \in Seq(S) /\ Len(b) = Len(l) - i
      /\ \A j \in 1..(Len(l) - i) : b[j] = l[i + j]
  BY SubSeqProperties
<1> HIDE DEF a, b
<1>3. /\ a \o b \in Seq(S) /\ Len(a \o b) = Len(a) + Len(b)
      /\ \A j \in 1..(Len(a) + Len(b)) :
            (a \o b)[j] = IF j <= Len(a) THEN a[j] ELSE b[j - Len(a)]
  BY <1>1, <1>2, ConcatProperties
<1>4. RemoveAt(l, i) = a \o b
  BY DEF RemoveAt, a, b
<1>5. ASSUME NEW j \in 1..(Len(l) - 1)
      PROVE  (a \o b)[j] = IF j < i THEN l[j] ELSE l[j + 1]
  <2>1. CASE j < i
    BY <2>1, <1>1, <1>2, <1>3
  <2>2. CASE j >= i
    <3>1. (a \o b)[j] = b[j - (i - 1)]
      BY <2>2, <1>1, <1>2, <1>3
    <3>2. j - (i - 1) \in 1..(Len(l) - i) /\ i + (j - (i - 1)) = j + 1
      BY <2>2
    <3> QED BY <3>1, <3>2, <1>2, <2>2
  <2>3. j < i \/ j >= i
    OBVIOUS
  <2> QED BY <2>1, <2>2, <2>3
<1>6. Len(l) \in Nat /\ i \in Int
  OBVIOUS
<1>7. Len(a) + Len(b) = Len(l) - 1
  BY <1>1, <1>2, <1>6
<1> QED BY <1>3, <1>4, <1>5, <1>7

\* rt_list_remove takes exactly its node out of the list.
LEMMA ListRemove ==
    ASSUME NEW S, NEW l \in Seq(S), NEW n, Distinct(l)
    PROVE  /\ rt_list_remove(l, n) \in Seq(S)
           /\ Distinct(rt_list_remove(l, n))
           /\ \A e : Contains(rt_list_remove(l, n), e) <=> Contains(l, e) /\ e # n
<1>1. CASE ~ \E i \in 1..Len(l) : l[i] = n
  BY <1>1 DEF rt_list_remove, Contains
<1>2. CASE \E i \in 1..Len(l) : l[i] = n
  <2> DEFINE k == CHOOSE i \in 1..Len(l) : l[i] = n
  <2>1. k \in 1..Len(l) /\ l[k] = n
    BY <1>2
  <2> HIDE DEF k
  <2> DEFINE r == RemoveAt(l, k)
  <2>2. rt_list_remove(l, n) = r
    BY <1>2 DEF rt_list_remove, k
  <2>3. /\ r \in Seq(S) /\ Len(r) = Len(l) - 1
        /\ \A j \in 1..(Len(l) - 1) : r[j] = IF j < k THEN l[j] ELSE l[j + 1]
    BY <2>1, RemoveAtProperties
  <2> HIDE DEF r
  <2>4. Len(l) \in Nat
    OBVIOUS
  <2>5. Distinct(r)
    <3> SUFFICES ASSUME NEW i \in 1..Len(r), NEW j \in 1..Len(r), r[i] = r[j]
                 PROVE  i = j
      BY DEF Distinct
    <3>1. \A x, y \in 1..Len(l) : l[x] = l[y] => x = y
      BY DEF Distinct
    <3>2. /\ r[i] = IF i < k THEN l[i] ELSE l[i + 1]
          /\ r[j] = IF j < k THEN l[j] ELSE l[j + 1]
      BY <2>3
    <3>3. /\ i \in 1..Len(l) /\ i + 1 \in 1..Len(l)
          /\ j \in 1..Len(l) /\ j + 1 \in 1..Len(l)
      BY <2>3, <2>4
    <3>4. i \in Int /\ j \in Int /\ k \in Int
      BY <2>1
    <3>5. CASE i < k /\ j < k
      BY <3>1, <3>2, <3>3, <3>5
    <3>6. CASE ~(i < k) /\ ~(j < k)
      <4>1. l[i + 1] = l[j + 1]
        BY <3>2, <3>6
      <4>2. i + 1 = j + 1
        BY <4>1, <3>1, <3>3
      <4> QED BY <4>2, <3>4
    <3>7. CASE i < k /\ ~(j < k)
      <4>1. l[i] = l[j + 1]
        BY <3>2, <3>7
      <4>2. i = j + 1
        BY <4>1, <3>1, <3>3
      <4> QED BY <4>2, <3>4, <3>7
    <3>8. CASE ~(i < k) /\ j < k
      <4>1. l[i + 1] = l[j]
        BY <3>2, <3>8
      <4>2. i + 1 = j
        BY <4>1, <3>1, <3>3
      <4> QED BY <4>2, <3>4, <3>8
    <3> QED BY <3>5, <3>6, <3>7, <3>8
  <2>6. ASSUME NEW e PROVE Contains(r, e) <=> Contains(l, e) /\ e # n
    <3>1. ASSUME Contains(r, e) PROVE Contains(l, e) /\ e # n
      BY <3>1, <2>1, <2>3, <2>4 DEF Contains, Distinct
    <3>2. ASSUME Contains(l, e), e # n PROVE Contains(r, e)
      <4>1. PICK i \in 1..Len(l) : l[i] = e
        BY <3>2 DEF Contains
      <4>2. CASE i < k
        BY <4>1, <4>2, <2>1, <2>3, <2>4 DEF Contains
      <4>3. CASE i > k
        <5>1. i - 1 \in 1..(Len(l) - 1) /\ r[i - 1] = e
          BY <4>1, <4>3, <2>1, <2>3, <2>4
        <5> QED BY <5>1, <2>3 DEF Contains
      <4>4. i # k
        BY <4>1, <3>2, <2>1
      <4> QED BY <4>2, <4>3, <4>4, <2>1, <2>4
    <3> QED BY <3>1, <3>2
  <2> QED BY <2>2, <2>3, <2>5, <2>6
<1> QED BY <1>1, <1>2

\* A node that is not linked in a list leaves it unchanged.
LEMMA ListRemoveAbsent ==
    ASSUME NEW l, NEW n, ~Contains(l, n)
    PROVE  rt_list_remove(l, n) = l
  BY DEF rt_list_remove, Contains

\* rt_list_insert_before(head) adds exactly its node.
LEMMA ListInsertBefore ==
    ASSUME NEW S, NEW l \in Seq(S), NEW n \in S, Distinct(l), ~Contains(l, n)
    PROVE  /\ rt_list_insert_before(l, n) \in Seq(S)
           /\ rt_list_insert_before(l, n) # <<>>
           /\ Distinct(rt_list_insert_before(l, n))
           /\ \A e : Contains(rt_list_insert_before(l, n), e) <=> Contains(l, e) \/ e = n
<1> DEFINE r == Append(l, n)
<1>1. /\ r \in Seq(S) /\ Len(r) = Len(l) + 1
      /\ \A j \in 1..Len(l) : r[j] = l[j]
      /\ r[Len(l) + 1] = n
  BY AppendProperties
<1>2. Len(l) \in Nat
  OBVIOUS
<1>3. r # <<>>
  BY <1>1, <1>2
<1> HIDE DEF r
<1>4. Distinct(r)
  BY <1>1, <1>2 DEF Distinct, Contains
<1>5. ASSUME NEW e PROVE Contains(r, e) <=> Contains(l, e) \/ e = n
  BY <1>1, <1>2 DEF Contains
<1> QED BY <1>1, <1>3, <1>4, <1>5 DEF rt_list_insert_before, r

\* rt_list_insert_after(head) adds exactly its node.
LEMMA ListInsertAfter ==
    ASSUME NEW S, NEW l \in Seq(S), NEW n \in S, Distinct(l), ~Contains(l, n)
    PROVE  /\ rt_list_insert_after(l, n) \in Seq(S)
           /\ Distinct(rt_list_insert_after(l, n))
           /\ \A e : Contains(rt_list_insert_after(l, n), e) <=> Contains(l, e) \/ e = n
<1> DEFINE r == <<n>> \o l
<1>1. Len(l) \in Nat
  OBVIOUS
<1>2. /\ r \in Seq(S) /\ Len(r) = Len(l) + 1
      /\ \A j \in 1..Len(r) : r[j] = IF j = 1 THEN n ELSE l[j - 1]
  <2>1. <<n>> \in Seq(S) /\ Len(<<n>>) = 1 /\ <<n>>[1] = n
    OBVIOUS
  <2>2. /\ r \in Seq(S) /\ Len(r) = Len(<<n>>) + Len(l)
        /\ \A i \in 1..(Len(<<n>>) + Len(l)) :
              r[i] = IF i <= Len(<<n>>) THEN <<n>>[i] ELSE l[i - Len(<<n>>)]
    BY <2>1, ConcatProperties
  <2> HIDE DEF r
  <2> QED BY <2>1, <2>2, <1>1
<1> HIDE DEF r
<1>3. Distinct(r)
  <2> SUFFICES ASSUME NEW i \in 1..Len(r), NEW j \in 1..Len(r), r[i] = r[j]
               PROVE  i = j
    BY DEF Distinct
  <2>1. i # 1 => i - 1 \in 1..Len(l) /\ r[i] = l[i - 1] /\ r[i] # n
    BY <1>1, <1>2 DEF Contains
  <2>2. j # 1 => j - 1 \in 1..Len(l) /\ r[j] = l[j - 1] /\ r[j] # n
    BY <1>1, <1>2 DEF Contains
  <2>3. (i = 1 => r[i] = n) /\ (j = 1 => r[j] = n)
    BY <1>2
  <2>4. i # 1 /\ j # 1 => i - 1 = j - 1
    BY <2>1, <2>2 DEF Distinct
  <2> QED BY <2>1, <2>2, <2>3, <2>4
<1>4. ASSUME NEW e PROVE Contains(r, e) <=> Contains(l, e) \/ e = n
  <2>1. ASSUME NEW i \in 1..Len(l), l[i] = e PROVE Contains(r, e)
    <3>1. i + 1 \in 1..Len(r) /\ r[i + 1] = l[i]
      BY <1>1, <1>2
    <3> QED BY <3>1, <2>1 DEF Contains
  <2>2. Contains(r, n)
    BY <1>1, <1>2 DEF Contains
  <2>3. ASSUME NEW i \in 1..Len(r), r[i] = e, e # n PROVE Contains(l, e)
    <3>1. i - 1 \in 1..Len(l) /\ r[i] = l[i - 1]
      BY <1>1, <1>2, <2>3
    <3> QED BY <3>1, <2>3 DEF Contains
  <2> QED BY <2>1, <2>2, <2>3 DEF Contains
<1> QED BY <1>2, <1>3, <1>4 DEF rt_list_insert_after, r

\* Unlinking the first node.
LEMMA ListTail ==
    ASSUME NEW S, NEW l \in Seq(S), l # <<>>, Distinct(l)
    PROVE  /\ Head(l) \in S /\ Contains(l, Head(l))
           /\ Tail(l) \in Seq(S) /\ Distinct(Tail(l))
           /\ \A e : Contains(Tail(l), e) <=> Contains(l, e) /\ e # Head(l)
<1> DEFINE r == Tail(l)
<1>1. /\ Len(l) \in Nat /\ Len(l) >= 1 /\ Head(l) = l[1] /\ Head(l) \in S
      /\ r \in Seq(S) /\ Len(r) = Len(l) - 1
      /\ \A i \in 1..Len(r) : r[i] = l[i + 1]
  BY HeadTailProperties
<1> HIDE DEF r
<1>2. Contains(l, Head(l))
  BY <1>1 DEF Contains
<1>3. Distinct(r)
  <2> SUFFICES ASSUME NEW i \in 1..Len(r), NEW j \in 1..Len(r), r[i] = r[j]
               PROVE  i = j
    BY DEF Distinct
  <2>1. /\ i + 1 \in 1..Len(l) /\ j + 1 \in 1..Len(l)
        /\ l[i + 1] = l[j + 1]
    BY <1>1
  <2>2. i + 1 = j + 1
    BY <2>1 DEF Distinct
  <2> QED BY <2>2
<1>4. ASSUME NEW e PROVE Contains(r, e) <=> Contains(l, e) /\ e # Head(l)
  <2>1. ASSUME NEW i \in 1..Len(r), r[i] = e PROVE Contains(l, e) /\ e # Head(l)
    <3>1. i + 1 \in 1..Len(l) /\ l[i + 1] = e /\ i + 1 # 1 /\ 1 \in 1..Len(l)
      BY <1>1, <2>1
    <3>2. l[i + 1] # l[1]
      BY <3>1 DEF Distinct
    <3> QED BY <1>1, <3>1, <3>2 DEF Contains
  <2>2. ASSUME NEW i \in 1..Len(l), l[i] = e, e # Head(l) PROVE Contains(r, e)
    <3>1. i # 1
      BY <1>1, <2>2
    <3>2. i - 1 \in 1..Len(r) /\ r[i - 1] = l[(i - 1) + 1]
      BY <1>1, <3>1
    <3>3. (i - 1) + 1 = i
      OBVIOUS
    <3> QED BY <3>2, <3>3, <2>2 DEF Contains
  <2> QED BY <2>1, <2>2 DEF Contains
<1> QED BY <1>1, <1>2, <1>3, <1>4 DEF r

\* A nonempty set of numbers has a least one.
LEMMA LeastNat ==
    ASSUME NEW G \in SUBSET Nat, G # {}
    PROVE  \E p \in G : \A q \in G : p <= q
<1>1. PICK p \in G : \A q \in G : ~(<<q, p>> \in OpToRel(<, Nat))
  BY NatLessThanWellFounded, WFMin
<1>2. ASSUME NEW q \in G PROVE p <= q
  <2>1. p \in Nat /\ q \in Nat
    OBVIOUS
  <2>2. q < p => <<q, p>> \in OpToRel(<, Nat)
    BY <2>1 DEF OpToRel
  <2>3. ~(q < p)
    BY <2>2, <1>1, Zenon
  <2> QED BY <2>1, <2>3
<1> QED BY <1>2

\* x modulo n, for the offsets a ring of n places and the sums of ticks can reach.
LEMMA ModRing ==
    ASSUME NEW n \in Nat \ {0}, NEW x \in 0..(n + n - 1)
    PROVE  x % n = IF x < n THEN x ELSE x - n
<1>1. CASE x < n
  BY <1>1
<1>2. CASE x >= n
  BY <1>2
<1> QED BY <1>1, <1>2

\* A node inserted at position k: the nodes from there on move down by one.
LEMMA InsertAtProperties ==
    ASSUME NEW S, NEW l \in Seq(S), NEW k \in 1..(Len(l) + 1), NEW n \in S
    PROVE  /\ InsertAt(l, k, n) \in Seq(S)
           /\ Len(InsertAt(l, k, n)) = Len(l) + 1
           /\ \A j \in 1..(Len(l) + 1) :
                InsertAt(l, k, n)[j] = IF j < k THEN l[j] ELSE IF j = k THEN n ELSE l[j - 1]
<1> DEFINE a == SubSeq(l, 1, k - 1)
           b == SubSeq(l, k, Len(l))
           c == a \o <<n>>
<1>0. Len(l) \in Nat /\ k \in Int /\ k >= 1 /\ k <= Len(l) + 1
  OBVIOUS
<1>1. a \in Seq(S) /\ Len(a) = k - 1 /\ \A j \in 1..(k - 1) : a[j] = l[j]
  BY <1>0, SubSeqProperties
<1>2. /\ b \in Seq(S) /\ Len(b) = Len(l) - k + 1
      /\ \A j \in 1..(Len(l) - k + 1) : b[j] = l[k + j - 1]
  BY <1>0, SubSeqProperties
<1>3. <<n>> \in Seq(S) /\ Len(<<n>>) = 1 /\ <<n>>[1] = n
  OBVIOUS
<1> HIDE DEF a, b
<1>4. /\ c \in Seq(S) /\ Len(c) = Len(a) + Len(<<n>>)
      /\ \A j \in 1..(Len(a) + Len(<<n>>)) :
            c[j] = IF j <= Len(a) THEN a[j] ELSE <<n>>[j - Len(a)]
  BY <1>1, <1>3, ConcatProperties
<1> HIDE DEF c
<1>5. /\ c \in Seq(S) /\ Len(c) = k /\ c[k] = n /\ \A j \in 1..(k - 1) : c[j] = l[j]
  <2>1. Len(c) = k
    BY <1>0, <1>1, <1>3, <1>4
  <2>2. c[k] = <<n>>[1]
    BY <1>0, <1>1, <1>3, <1>4
  <2>3. \A j \in 1..(k - 1) : c[j] = a[j]
    BY <1>0, <1>1, <1>3, <1>4
  <2> QED BY <1>1, <1>3, <1>4, <2>1, <2>2, <2>3
<1>6. /\ c \o b \in Seq(S) /\ Len(c \o b) = Len(c) + Len(b)
      /\ \A j \in 1..(Len(c) + Len(b)) :
            (c \o b)[j] = IF j <= Len(c) THEN c[j] ELSE b[j - Len(c)]
  BY <1>2, <1>5, ConcatProperties
<1>7. InsertAt(l, k, n) = c \o b
  BY DEF InsertAt, a, b, c
<1>8. Len(c) + Len(b) = Len(l) + 1
  BY <1>0, <1>2, <1>5
<1>9. ASSUME NEW j \in 1..(Len(l) + 1)
      PROVE  (c \o b)[j] = IF j < k THEN l[j] ELSE IF j = k THEN n ELSE l[j - 1]
  <2>1. CASE j <= k
    BY <2>1, <1>0, <1>5, <1>6, <1>8
  <2>2. CASE j > k
    <3>1. (c \o b)[j] = b[j - k]
      BY <2>2, <1>0, <1>5, <1>6, <1>8
    <3>2. j - k \in 1..(Len(l) - k + 1) /\ k + (j - k) - 1 = j - 1
      BY <2>2, <1>0
    <3> QED BY <3>1, <3>2, <1>2, <2>2
  <2>3. j <= k \/ j > k
    BY <1>0
  <2> QED BY <2>1, <2>2, <2>3
<1> QED BY <1>6, <1>7, <1>8, <1>9

\* It is added exactly once.
LEMMA InsertAtList ==
    ASSUME NEW S, NEW l \in Seq(S), NEW k \in 1..(Len(l) + 1), NEW n \in S,
           Distinct(l), ~Contains(l, n)
    PROVE  /\ InsertAt(l, k, n) \in Seq(S) /\ InsertAt(l, k, n) # <<>>
           /\ Distinct(InsertAt(l, k, n))
           /\ \A e : Contains(InsertAt(l, k, n), e) <=> Contains(l, e) \/ e = n
<1> DEFINE r == InsertAt(l, k, n)
<1>0. /\ Len(l) \in Nat /\ k \in Int /\ k >= 1 /\ k <= Len(l) + 1
      /\ l \in Seq(S) /\ k \in 1..(Len(l) + 1) /\ n \in S
  OBVIOUS
<1>1. /\ r \in Seq(S) /\ Len(r) = Len(l) + 1
      /\ \A j \in 1..(Len(l) + 1) :
            r[j] = IF j < k THEN l[j] ELSE IF j = k THEN n ELSE l[j - 1]
  BY <1>0, InsertAtProperties
<1> HIDE DEF r
<1>2. ASSUME NEW j \in 1..Len(r), j # k
      PROVE  \E i \in 1..Len(l) : /\ r[j] = l[i]
                                  /\ i = IF j < k THEN j ELSE j - 1
  <2>1. CASE j < k
    BY <2>1, <1>0, <1>1
  <2>2. CASE j > k
    <3>1. j - 1 \in 1..Len(l) /\ r[j] = l[j - 1]
      BY <2>2, <1>0, <1>1
    <3> QED BY <3>1, <2>2, <1>0
  <2> QED BY <2>1, <2>2, <1>0, <1>1, <1>2
<1>3. r[k] = n /\ k \in 1..Len(r)
  BY <1>0, <1>1
<1>4. \A j \in 1..Len(r) : j # k => r[j] # n
  BY <1>2 DEF Contains
<1>5. Distinct(r)
  <2> SUFFICES ASSUME NEW i \in 1..Len(r), NEW j \in 1..Len(r), r[i] = r[j] PROVE i = j
    BY DEF Distinct
  <2>1. CASE i = k \/ j = k
    BY <2>1, <1>3, <1>4
  <2>2. CASE i # k /\ j # k
    <3>1. PICK x \in 1..Len(l) : r[i] = l[x] /\ x = IF i < k THEN i ELSE i - 1
      BY <2>2, <1>2
    <3>2. PICK y \in 1..Len(l) : r[j] = l[y] /\ y = IF j < k THEN j ELSE j - 1
      BY <2>2, <1>2
    <3>3. x = y
      BY <3>1, <3>2 DEF Distinct
    <3>4. i \in Int /\ j \in Int
      OBVIOUS
    <3> QED BY <3>1, <3>2, <3>3, <3>4, <2>2, <1>0
  <2> QED BY <2>1, <2>2
<1>6. ASSUME NEW e PROVE Contains(r, e) <=> Contains(l, e) \/ e = n
  <2>1. Contains(r, e) => Contains(l, e) \/ e = n
    BY <1>2, <1>3 DEF Contains
  <2>2. Contains(r, n)
    BY <1>3 DEF Contains
  <2>3. ASSUME NEW i \in 1..Len(l), l[i] = e PROVE Contains(r, e)
    <3>1. CASE i < k
      <4>1. i \in 1..Len(r) /\ r[i] = l[i]
        BY <3>1, <1>0, <1>1
      <4> QED BY <4>1, <2>3 DEF Contains
    <3>2. CASE i >= k
      <4>1. i + 1 \in 1..Len(r) /\ r[i + 1] = l[(i + 1) - 1]
        BY <3>2, <1>0, <1>1
      <4>2. (i + 1) - 1 = i
        OBVIOUS
      <4> QED BY <4>1, <4>2, <2>3 DEF Contains
    <3> QED BY <3>1, <3>2, <1>0
  <2> QED BY <2>1, <2>2, <2>3 DEF Contains
<1>7. r # <<>>
  BY <1>0, <1>1
<1> QED BY <1>1, <1>5, <1>6, <1>7 DEF r

\* The search loop of rt_ipc_list_suspend ends, at a position between the waiters
\* that are at least as urgent as n and one that is less urgent.
LEMMA PrioPositionProperties ==
    ASSUME NEW S, NEW l \in Seq(S), NEW n \in S, NEW pr \in [S -> Nat]
    PROVE  /\ PrioPosition(l, n, pr) \in 1..(Len(l) + 1)
           /\ \A j \in 1..(PrioPosition(l, n, pr) - 1) : pr[l[j]] <= pr[n]
           /\ PrioPosition(l, n, pr) <= Len(l) => pr[n] < pr[l[PrioPosition(l, n, pr)]]
<1> DEFINE P(k) == /\ \A j \in 1..(k - 1) : pr[l[j]] <= pr[n]
                   /\ k <= Len(l) => pr[n] < pr[l[k]]
           G == {k \in 1..(Len(l) + 1) : k = Len(l) + 1 \/ pr[n] < pr[l[k]]}
<1>1. Len(l) \in Nat /\ \A j \in 1..Len(l) : l[j] \in S
  OBVIOUS
<1>2. G \in SUBSET Nat /\ Len(l) + 1 \in G
  BY <1>1
<1>3. PICK k \in G : \A q \in G : k <= q
  BY <1>2, LeastNat
<1>4. k \in 1..(Len(l) + 1) /\ P(k)
  <2>1. k \in 1..(Len(l) + 1) /\ (k <= Len(l) => pr[n] < pr[l[k]])
    BY <1>1
  <2>2. ASSUME NEW j \in 1..(k - 1) PROVE pr[l[j]] <= pr[n]
    <3>1. j \in 1..Len(l) /\ j \in 1..(Len(l) + 1) /\ ~(k <= j)
      BY <2>1, <1>1
    <3>2. j \notin G
      BY <3>1, <1>3
    <3>3. pr[l[j]] \in Nat /\ pr[n] \in Nat
      BY <3>1, <1>1
    <3> QED BY <3>1, <3>2, <3>3
  <2> QED BY <2>1, <2>2
<1>5. PrioPosition(l, n, pr) \in 1..(Len(l) + 1) /\ P(PrioPosition(l, n, pr))
  <2>1. PrioPosition(l, n, pr) = CHOOSE x \in 1..(Len(l) + 1) : P(x)
    BY DEF PrioPosition
  <2> HIDE DEF P
  <2> QED BY <1>4, <2>1
<1> QED BY <1>5

\* rt_ipc_list_suspend adds exactly its thread, whatever the flag.
LEMMA ListInsertProperties ==
    ASSUME NEW S, NEW l \in Seq(S), NEW n \in S, NEW pr \in [S -> Nat], NEW flag,
           Distinct(l), ~Contains(l, n)
    PROVE  /\ ListInsert(flag, l, n, pr) \in Seq(S)
           /\ ListInsert(flag, l, n, pr) # <<>>
           /\ Distinct(ListInsert(flag, l, n, pr))
           /\ \A e : Contains(ListInsert(flag, l, n, pr), e) <=> Contains(l, e) \/ e = n
<1>1. PrioPosition(l, n, pr) \in 1..(Len(l) + 1)
  BY PrioPositionProperties
<1>2. CASE flag = "FIFO"
  BY <1>2, ListInsertBefore DEF ListInsert
<1>3. CASE flag # "FIFO"
  BY <1>1, <1>3, InsertAtList DEF ListInsert, PrioInsert
<1> QED BY <1>2, <1>3

\* Two lists with no common node, one after the other.
LEMMA ListConcat ==
    ASSUME NEW S, NEW a \in Seq(S), NEW b \in Seq(S), Distinct(a), Distinct(b),
           \A e : ~(Contains(a, e) /\ Contains(b, e))
    PROVE  /\ a \o b \in Seq(S) /\ Distinct(a \o b)
           /\ \A e : Contains(a \o b, e) <=> Contains(a, e) \/ Contains(b, e)
<1> DEFINE r == a \o b
<1>0. Len(a) \in Nat /\ Len(b) \in Nat
  OBVIOUS
<1>1. /\ r \in Seq(S) /\ Len(r) = Len(a) + Len(b)
      /\ \A j \in 1..(Len(a) + Len(b)) :
            r[j] = IF j <= Len(a) THEN a[j] ELSE b[j - Len(a)]
  BY ConcatProperties
<1> HIDE DEF r
<1>2. ASSUME NEW j \in 1..Len(r)
      PROVE  \/ j <= Len(a) /\ j \in 1..Len(a) /\ r[j] = a[j]
             \/ j > Len(a) /\ j - Len(a) \in 1..Len(b) /\ r[j] = b[j - Len(a)]
  BY <1>0, <1>1
<1>3. Distinct(r)
  <2> SUFFICES ASSUME NEW i \in 1..Len(r), NEW j \in 1..Len(r), r[i] = r[j] PROVE i = j
    BY DEF Distinct
  <2>1. CASE i <= Len(a) /\ j <= Len(a)
    BY <2>1, <1>0, <1>2 DEF Distinct
  <2>2. CASE i > Len(a) /\ j > Len(a)
    <3>1. /\ i - Len(a) \in 1..Len(b) /\ j - Len(a) \in 1..Len(b)
          /\ b[i - Len(a)] = b[j - Len(a)]
      BY <2>2, <1>0, <1>2
    <3>2. i - Len(a) = j - Len(a)
      BY <3>1 DEF Distinct
    <3> QED BY <3>2, <1>0
  <2>3. ASSUME NEW x \in 1..Len(r), NEW y \in 1..Len(r), x <= Len(a), y > Len(a)
        PROVE  r[x] # r[y]
    <3>1. x \in 1..Len(a) /\ r[x] = a[x]
      BY <2>3, <1>0, <1>2
    <3>2. y - Len(a) \in 1..Len(b) /\ r[y] = b[y - Len(a)]
      BY <2>3, <1>0, <1>2
    <3> QED BY <3>1, <3>2 DEF Contains
  <2> QED BY <2>1, <2>2, <2>3, <1>0
<1>4. ASSUME NEW e PROVE Contains(r, e) <=> Contains(a, e) \/ Contains(b, e)
  <2>1. Contains(r, e) => Contains(a, e) \/ Contains(b, e)
    BY <1>2 DEF Contains
  <2>2. ASSUME NEW i \in 1..Len(a), a[i] = e PROVE Contains(r, e)
    BY <2>2, <1>0, <1>1 DEF Contains
  <2>3. ASSUME NEW i \in 1..Len(b), b[i] = e PROVE Contains(r, e)
    <3> DEFINE j == Len(a) + i
    <3>1. j \in 1..(Len(a) + Len(b)) /\ ~(j <= Len(a)) /\ j - Len(a) = i
      BY <1>0
    <3> HIDE DEF j
    <3>2. r[j] = b[i] /\ j \in 1..Len(r)
      BY <3>1, <1>1
    <3> QED BY <3>2, <2>3 DEF Contains
  <2> QED BY <2>1, <2>2, <2>3 DEF Contains
<1> QED BY <1>1, <1>3, <1>4 DEF r

\* The nodes of a list are in the order of pr.
Sorted(l, pr) == \A i, j \in 1..Len(l) : i <= j => pr[l[i]] <= pr[l[j]]

\* The order depends on the nodes of the list alone.
LEMMA SortedCongruence ==
    ASSUME NEW l, NEW pr, NEW pr2, Sorted(l, pr), \A e : Contains(l, e) => pr2[e] = pr[e]
    PROVE  Sorted(l, pr2)
<1>1. \A i \in 1..Len(l) : Contains(l, l[i])
  BY DEF Contains
<1> QED BY <1>1 DEF Sorted

\* The first node of a list in order has the least value.
LEMMA SortedHead ==
    ASSUME NEW S, NEW l \in Seq(S), l # <<>>, NEW pr, Sorted(l, pr)
    PROVE  \A e : Contains(l, e) => pr[Head(l)] <= pr[e]
<1>1. 1 \in 1..Len(l) /\ Head(l) = l[1] /\ Len(l) \in Nat
  BY HeadTailProperties
<1> QED BY <1>1 DEF Sorted, Contains

\* Unlinking the first node keeps the order.
LEMMA SortedTail ==
    ASSUME NEW S, NEW l \in Seq(S), l # <<>>, NEW pr, Sorted(l, pr)
    PROVE  Sorted(Tail(l), pr)
<1>1. /\ Len(l) \in Nat /\ Len(l) >= 1 /\ Len(Tail(l)) = Len(l) - 1
      /\ \A i \in 1..Len(Tail(l)) : Tail(l)[i] = l[i + 1]
  BY HeadTailProperties
<1> SUFFICES ASSUME NEW i \in 1..Len(Tail(l)), NEW j \in 1..Len(Tail(l)), i <= j
             PROVE  pr[Tail(l)[i]] <= pr[Tail(l)[j]]
  BY DEF Sorted
<1>2. i + 1 \in 1..Len(l) /\ j + 1 \in 1..Len(l) /\ i + 1 <= j + 1
  BY <1>1
<1> QED BY <1>1, <1>2 DEF Sorted

\* So does unlinking any node.
LEMMA SortedRemove ==
    ASSUME NEW S, NEW l \in Seq(S), NEW n, NEW pr, Sorted(l, pr)
    PROVE  Sorted(rt_list_remove(l, n), pr)
<1>1. CASE ~ \E i \in 1..Len(l) : l[i] = n
  BY <1>1 DEF rt_list_remove
<1>2. CASE \E i \in 1..Len(l) : l[i] = n
  <2> DEFINE k == CHOOSE i \in 1..Len(l) : l[i] = n
  <2>1. k \in 1..Len(l) /\ l[k] = n
    BY <1>2
  <2> HIDE DEF k
  <2> DEFINE r == RemoveAt(l, k)
  <2>2. rt_list_remove(l, n) = r
    BY <1>2 DEF rt_list_remove, k
  <2>3. /\ r \in Seq(S) /\ Len(r) = Len(l) - 1 /\ Len(l) \in Nat
        /\ \A j \in 1..(Len(l) - 1) : r[j] = IF j < k THEN l[j] ELSE l[j + 1]
    BY <2>1, RemoveAtProperties
  <2> HIDE DEF r
  <2>4. ASSUME NEW i \in 1..Len(r), NEW j \in 1..Len(r), i <= j PROVE pr[r[i]] <= pr[r[j]]
    <3>1. \E x, y \in 1..Len(l) : x <= y /\ r[i] = l[x] /\ r[j] = l[y]
      <4>1. /\ r[i] = IF i < k THEN l[i] ELSE l[i + 1]
            /\ r[j] = IF j < k THEN l[j] ELSE l[j + 1]
            /\ i \in 1..Len(l) /\ i + 1 \in 1..Len(l)
            /\ j \in 1..Len(l) /\ j + 1 \in 1..Len(l)
        BY <2>3
      <4>2. CASE i < k /\ j < k
        BY <4>1, <4>2, <2>4
      <4>3. CASE i < k /\ ~(j < k)
        <5>1. i <= j + 1
          BY <2>4
        <5> QED BY <4>1, <4>3, <5>1
      <4>4. CASE ~(i < k)
        <5>1. ~(j < k) /\ i + 1 <= j + 1
          BY <2>1, <2>4, <4>4
        <5> QED BY <4>1, <4>4, <5>1
      <4> QED BY <4>2, <4>3, <4>4
    <3> QED BY <3>1 DEF Sorted
  <2> QED BY <2>2, <2>4 DEF Sorted
<1> QED BY <1>1, <1>2

\* A node that is inserted behind those that come no later, and before one that does.
LEMMA SortedInsertAt ==
    ASSUME NEW S, NEW l \in Seq(S), NEW n \in S, NEW pr \in [S -> Nat], Sorted(l, pr),
           NEW k \in 1..(Len(l) + 1), \A j \in 1..(k - 1) : pr[l[j]] <= pr[n],
           k <= Len(l) => pr[n] < pr[l[k]]
    PROVE  Sorted(InsertAt(l, k, n), pr)
<1> DEFINE r == InsertAt(l, k, n)
<1>1. /\ k \in 1..(Len(l) + 1) /\ \A j \in 1..(k - 1) : pr[l[j]] <= pr[n]
      /\ k <= Len(l) => pr[n] < pr[l[k]]
  OBVIOUS
<1>2. /\ r \in Seq(S) /\ Len(r) = Len(l) + 1 /\ Len(l) \in Nat
      /\ \A j \in 1..(Len(l) + 1) : r[j] = IF j < k THEN l[j] ELSE IF j = k THEN n ELSE l[j - 1]
  BY <1>1, InsertAtProperties
<1> HIDE DEF r
<1>0. k \in Nat /\ 1 <= k /\ k <= Len(l) + 1 /\ Len(l) \in Nat /\ Len(r) = Len(l) + 1
  BY <1>1, <1>2
<1>3. pr[n] \in Nat /\ \A j \in 1..Len(l) : pr[l[j]] \in Nat
  OBVIOUS
<1>4. \A j \in 1..Len(l) : k <= j => pr[n] <= pr[l[j]]
  <2> SUFFICES ASSUME NEW j \in 1..Len(l), k <= j PROVE pr[n] <= pr[l[j]]
    OBVIOUS
  <2>1. k \in 1..Len(l) /\ pr[n] < pr[l[k]]
    BY <1>1, <1>2
  <2>2. pr[l[k]] <= pr[l[j]]
    BY <2>1 DEF Sorted
  <2> QED BY <2>1, <2>2, <1>3
<1>5. ASSUME NEW i \in 1..Len(r), NEW j \in 1..Len(r), i < j PROVE pr[r[i]] <= pr[r[j]]
  <2>1. /\ r[i] = IF i < k THEN l[i] ELSE IF i = k THEN n ELSE l[i - 1]
        /\ r[j] = IF j < k THEN l[j] ELSE IF j = k THEN n ELSE l[j - 1]
    BY <1>2
  <2>2. CASE j < k
    <3>1. i < k /\ i \in 1..Len(l) /\ j \in 1..Len(l) /\ i <= j
      BY <1>0, <1>5, <2>2
    <3> QED BY <2>1, <2>2, <3>1 DEF Sorted
  <2>3. CASE j = k
    <3>1. i \in 1..(k - 1) /\ i < k
      BY <1>0, <1>5, <2>3
    <3> QED BY <2>1, <2>3, <3>1, <1>1
  <2>4. CASE j > k
    <3>1. j - 1 \in 1..Len(l) /\ k <= j - 1
      BY <1>0, <2>4
    <3>2. r[j] = l[j - 1]
      BY <2>1, <2>4, <1>0
    <3>3. CASE i < k
      <4>1. i \in 1..Len(l) /\ i <= j - 1
        BY <1>0, <1>5, <3>3
      <4> QED BY <2>1, <3>1, <3>2, <3>3, <4>1 DEF Sorted
    <3>4. CASE i = k
      BY <2>1, <3>1, <3>2, <3>4, <1>4
    <3>5. CASE i > k
      <4>1. i - 1 \in 1..Len(l) /\ i - 1 <= j - 1 /\ r[i] = l[i - 1]
        BY <1>0, <1>5, <2>1, <3>5
      <4> QED BY <3>1, <3>2, <4>1 DEF Sorted
    <3> QED BY <3>3, <3>4, <3>5, <1>0
  <2> QED BY <2>2, <2>3, <2>4, <1>0
<1>6. \A i \in 1..Len(r) : pr[r[i]] <= pr[r[i]]
  <2> SUFFICES ASSUME NEW i \in 1..Len(r) PROVE pr[r[i]] <= pr[r[i]]
    OBVIOUS
  <2>1. r[i] \in S
    BY <1>1, <1>2
  <2> QED BY <2>1
<1>7. Sorted(r, pr)
  BY <1>5, <1>6, <1>2 DEF Sorted
<1> QED BY <1>7 DEF r

\* rt_ipc_list_suspend with RT_IPC_FLAG_PRIO keeps the list in the order of the
\* priorities.
LEMMA SortedInsert ==
    ASSUME NEW S, NEW l \in Seq(S), NEW n \in S, NEW pr \in [S -> Nat], Sorted(l, pr)
    PROVE  Sorted(PrioInsert(l, n, pr), pr)
<1>1. /\ PrioPosition(l, n, pr) \in 1..(Len(l) + 1)
      /\ \A j \in 1..(PrioPosition(l, n, pr) - 1) : pr[l[j]] <= pr[n]
      /\ PrioPosition(l, n, pr) <= Len(l) => pr[n] < pr[l[PrioPosition(l, n, pr)]]
  BY PrioPositionProperties
<1> QED BY <1>1, SortedInsertAt DEF PrioInsert
=============================================================================

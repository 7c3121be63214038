------------------------------- MODULE RtList -------------------------------
(***************************************************************************)
(* The kernel's intrusive doubly linked list (rtservice.h).  A list is the *)
(* sequence of the nodes linked between its head's next and prev pointers; *)
(* a node is the thread that embeds it (rt_list_entry).  A thread has one  *)
(* tlist node, so at any time it is linked in at most one list: that is a  *)
(* property of the code above this module, not of the list itself.         *)
(***************************************************************************)
EXTENDS Naturals, Sequences, SequencesExt

\* No node is linked twice.
Distinct(l) == \A i, j \in 1..Len(l) : l[i] = l[j] => i = j

\* rt_list_insert_before(head, n): the new node becomes the last one.
rt_list_insert_before(l, n) == Append(l, n)

\* rt_list_insert_after(head, n): the new node becomes the first one.
rt_list_insert_after(l, n) == <<n>> \o l

\* rt_list_remove(n), seen from the list l: a node that is linked elsewhere,
\* or nowhere (it then points to itself), leaves l as it is.
rt_list_remove(l, n) ==
    IF \E i \in 1..Len(l) : l[i] = n
    THEN RemoveAt(l, CHOOSE i \in 1..Len(l) : l[i] = n)
    ELSE l

\* The search loop of rt_ipc_list_suspend for RT_IPC_FLAG_PRIO: the position of
\* the first waiter that is strictly less urgent than n, or the end.
PrioPosition(l, n, prio) ==
    CHOOSE k \in 1..(Len(l) + 1) :
        /\ \A j \in 1..(k - 1) : prio[l[j]] <= prio[n]
        /\ k <= Len(l) => prio[n] < prio[l[k]]

PrioInsert(l, n, prio) == InsertAt(l, PrioPosition(l, n, prio), n)

\* rt_ipc_list_suspend, after its rt_thread_suspend.
ListInsert(flag, l, n, prio) ==
    IF flag = "FIFO" THEN rt_list_insert_before(l, n) ELSE PrioInsert(l, n, prio)
=============================================================================

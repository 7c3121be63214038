---------------------------- MODULE BoundedFifo ----------------------------
(***************************************************************************)
(* What the kernel's mailbox and the queue of bk_rtos_pub.c promise: a     *)
(* bounded first-in first-out queue.  Every client has a buffer; an item   *)
(* goes from a buffer to the end of the queue, or from its head to a       *)
(* buffer, in one step, unchanged, once.                                   *)
(***************************************************************************)
EXTENDS Naturals, Sequences

CONSTANTS Client, Item, NoItem, Capacity
VARIABLES queue, buf

FifoInit == queue = <<>> /\ buf = [c \in Client |-> NoItem]

\* The client fills its buffer,
Offer(c, i) == buf[c] = NoItem /\ buf' = [buf EXCEPT ![c] = i] /\ UNCHANGED queue

\* empties it: a put that was refused, or an item it is done with,
Drop(c) == buf[c] # NoItem /\ buf' = [buf EXCEPT ![c] = NoItem] /\ UNCHANGED queue

Put(c) ==
    /\ buf[c] # NoItem /\ Len(queue) < Capacity
    /\ queue' = Append(queue, buf[c])
    /\ buf' = [buf EXCEPT ![c] = NoItem]

Get(c) ==
    /\ buf[c] = NoItem /\ queue # <<>>
    /\ buf' = [buf EXCEPT ![c] = Head(queue)]
    /\ queue' = Tail(queue)

\* An item that is offered and put in one step: an interrupt handler's.
PutAtOnce(i) == Len(queue) < Capacity /\ queue' = Append(queue, i) /\ UNCHANGED buf

Clear == queue' = <<>> /\ UNCHANGED buf

FifoNext ==
    \/ \E c \in Client : Drop(c) \/ Put(c) \/ Get(c) \/ \E i \in Item : Offer(c, i)
    \/ \E i \in Item : PutAtOnce(i)
    \/ Clear

FifoSpec == FifoInit /\ [][FifoNext]_<<queue, buf>>
=============================================================================

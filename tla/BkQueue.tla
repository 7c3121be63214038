------------------------------ MODULE BkQueue ------------------------------
(***************************************************************************)
(* The message queue of the Beken OS adaptation (bk_rtos_pub.c), composed  *)
(* of a memory pool and a mailbox of the same number of entries: a message *)
(* is copied into a block, and the block's address is the mail.            *)
(*                                                                         *)
(* op[t] is the line of the push, pop or deinit that t is inside of; the   *)
(* kernel calls in it are the actions of RtMempool and RtMailbox, with all *)
(* their interleavings.  mail[t] is msg_tmp and buf[t] is the caller's     *)
(* message buffer.  Mail is the pool's set of blocks.                      *)
(***************************************************************************)
EXTENDS RtMempool, RtMailbox

CONSTANTS
    Msg, NoMsg,
    Pushers,     \* the threads that push
    Poppers,     \* the threads that pop
    IsrMsg       \* the messages that interrupt handlers push

\* bk_rtos_init_queue makes both objects for number_of_messages.
ASSUME QueueAssumption ==
    /\ Mail = Block /\ MbSize = Cardinality(Block) /\ MbFlag = "FIFO"
    /\ Pushers \subseteq Thread /\ Poppers \subseteq Thread
    /\ NoMsg \notin Msg /\ IsrMsg \subseteq Msg

VARIABLES
    op,          \* where each thread stands in a queue operation
    qTime,       \* the timeout of the push each thread is inside of
    content,     \* the message in each block
    buf          \* the caller's message buffer

queueVars == <<op, qTime, content, buf>>
allVars == <<schedVars, poolVars, mbVars, queueVars>>

Op == {"none", "alloc", "copy", "send", "recv", "copy_out", "free",
       "deinit_mb", "deinit_mp"}
-----------------------------------------------------------------------------
QueueInit ==
    /\ PoolInit /\ MbInit
    /\ op = [t \in Thread |-> "none"]
    /\ qTime = [t \in Thread |-> "no"]
    /\ content = [b \in Block |-> NoMsg]
    /\ buf = [t \in Thread |-> NoMsg]

SetOp(t, o) == op' = [op EXCEPT ![t] = o]

\* A queue operation of t returns: its timeout is gone, and its buffer is b.
QueueReturn(t, b) ==
    /\ SetOp(t, "none")
    /\ qTime' = [qTime EXCEPT ![t] = "no"]
    /\ buf' = [buf EXCEPT ![t] = b]

\* bk_rtos_push_to_queue, a section of its rt_mp_alloc: a block,
PushTake(t, m, tm) ==
    /\ AllocTake(t)
    /\ mail' = [mail EXCEPT ![t] = Head(blockList)]
    /\ SetOp(t, "copy")
    /\ qTime' = [qTime EXCEPT ![t] = tm]
    /\ buf' = [buf EXCEPT ![t] = m]
    /\ UNCHANGED <<ring, receivers, senders, mbTime, mbAlive, content>>

\* none, and kGeneralErr,
PushRefused(t, left) ==
    /\ AllocRefused(t, left)
    /\ QueueReturn(t, NoMsg)
    /\ UNCHANGED <<mbVars, content>>

\* or a wait.
PushWait(t, m, tm, left) ==
    /\ AllocWait(t, left)
    /\ SetOp(t, "alloc")
    /\ qTime' = [qTime EXCEPT ![t] = tm]
    /\ buf' = [buf EXCEPT ![t] = m]
    /\ UNCHANGED <<mbVars, content>>

PushSection(t, m, tm, left) ==
    PushTake(t, m, tm) \/ PushRefused(t, left) \/ PushWait(t, m, tm, left)

bk_rtos_push_to_queue(t, m, tm) ==
    /\ t \in Pushers /\ InApp(t) /\ op[t] = "none" /\ buf[t] = NoMsg /\ alive
    /\ PushSection(t, m, tm, tm)

\* rt_mp_alloc goes on: its rt_schedule, its error, its loop.
PushSchedule(t) ==
    op[t] = "alloc" /\ AllocSchedule(t) /\ UNCHANGED <<mbVars, queueVars>>

PushGiveUp(t) ==
    /\ op[t] = "alloc" /\ AllocGiveUp(t)
    /\ QueueReturn(t, NoMsg)
    /\ UNCHANGED <<mbVars, content>>

PushAgain(t) ==
    /\ op[t] = "alloc" /\ At(t, "alloc_chk") /\ error[t] = "EOK"
    /\ \E left \in LeftOf(time[t]) : PushSection(t, buf[t], qTime[t], left)

\* memcpy into the block
CopyIn(t) ==
    /\ InApp(t) /\ op[t] = "copy"
    /\ content' = [content EXCEPT ![mail[t]] = buf[t]]
    /\ SetOp(t, "send")
    /\ UNCHANGED <<schedVars, poolVars, mbVars, qTime, buf>>

\* A section of rt_mb_send_wait.  When it fails, push returns kGeneralErr and
\* does not free the block.
AfterSend(t) ==
    /\ UNCHANGED <<poolVars, content>>
    /\ IF pc'[t] = "send"
       THEN UNCHANGED <<op, qTime, buf>>
       ELSE QueueReturn(t, NoMsg)

PushSend(t) ==
    op[t] = "send" /\ rt_mb_send_wait(t, mail[t], qTime[t]) /\ AfterSend(t)

\* bk_rtos_pop_from_queue, a section of its rt_mb_recv: a block, an error or a
\* wait.
AfterRecv(t) ==
    /\ UNCHANGED <<poolVars, qTime, content, buf>>
    /\ SetOp(t, IF mail'[t] # NoMail THEN "copy_out"
                ELSE IF pc'[t] = "recv" THEN "recv" ELSE "none")

bk_rtos_pop_from_queue(t, tm) ==
    /\ t \in Poppers /\ op[t] = "none" /\ buf[t] = NoMsg
    /\ rt_mb_recv(t, tm)
    /\ AfterRecv(t)

\* Both mailbox calls go on: rt_schedule, the error, the loop.
MbScheduled(t) ==
    op[t] \in {"send", "recv"} /\ MbSchedule(t) /\ UNCHANGED <<poolVars, queueVars>>

PopAgain(t) == op[t] = "recv" /\ (RecvAgain(t) \/ MbGiveUp(t)) /\ AfterRecv(t)

\* memcpy out of the block, then rt_mp_free
CopyOut(t) ==
    /\ InApp(t) /\ op[t] = "copy_out"
    /\ buf' = [buf EXCEPT ![t] = content[mail[t]]]
    /\ SetOp(t, "free")
    /\ UNCHANGED <<schedVars, poolVars, mbVars, qTime, content>>

\* Rewritten the other way round: freed first, copied while it may be reused.
FreeFirst(t) ==
    /\ InApp(t) /\ op[t] = "copy_out"
    /\ rt_mp_free(t, mail[t])
    /\ SetOp(t, "free")
    /\ UNCHANGED <<mbVars, qTime, content, buf>>
PopCopy(t) == CopyOut(t)

PopFree(t) ==
    /\ op[t] = "free" /\ rt_mp_free(t, mail[t])
    /\ QueueReturn(t, buf[t])
    /\ mail' = [mail EXCEPT ![t] = NoMail]
    /\ UNCHANGED <<ring, receivers, senders, mbTime, mbAlive, content>>

\* The caller is done with the message it popped.
Consume(t) ==
    /\ InApp(t) /\ op[t] = "none" /\ buf[t] # NoMsg
    /\ buf' = [buf EXCEPT ![t] = NoMsg]
    /\ UNCHANGED <<schedVars, poolVars, mbVars, op, qTime, content>>

\* bk_rtos_push_to_queue with BEKEN_NO_WAIT in an interrupt handler: it runs to
\* its end, and rt_schedule switches at once.
IsrPush(m) ==
    /\ alive /\ freeCount > 0
    /\ freeCount' = freeCount - 1
    /\ blockList' = Pop
    /\ used' = used \cup {Head(blockList)}
    /\ content' = [content EXCEPT ![Head(blockList)] = m]
    /\ IF Full THEN UNCHANGED <<schedVars, mbVars>> ELSE IsrSend(Head(blockList))
    /\ UNCHANGED <<waitq, waitCount, time, alive, op, qTime, buf>>

\* bk_rtos_deinit_queue: rt_mb_delete, then rt_mp_delete.  The other threads are
\* out of the queue or blocked in it, and do not come back.
MayDeinit(t) ==
    \A u \in Thread \ {t} : \/ op[u] = "none"
                            \/ op[u] \in {"alloc", "recv"} /\ stat[u] = "suspend"

bk_rtos_deinit_queue(t) ==
    /\ op[t] = "none" /\ alive /\ MayDeinit(t)
    /\ rt_mb_detach(t)
    /\ SetOp(t, "deinit_mb")
    /\ UNCHANGED <<poolVars, qTime, content, buf>>

DeinitMbStep(t) ==
    /\ op[t] = "deinit_mb"
    /\ MbDetachTest(t) \/ MbDetachReceiver(t)
    /\ UNCHANGED <<poolVars, queueVars>>

DeinitNoPool(t) ==
    /\ op[t] = "deinit_mb" /\ InApp(t)
    /\ alive' = FALSE
    /\ SetOp(t, "deinit_mp")
    /\ UNCHANGED <<schedVars, blockList, freeCount, waitq, waitCount, time, used>>
    /\ UNCHANGED <<mbVars, qTime, content, buf>>
DeinitPool(t) ==
    /\ op[t] = "deinit_mb" /\ rt_mp_detach(t)
    /\ SetOp(t, "deinit_mp")
    /\ UNCHANGED <<mbVars, qTime, content, buf>>

DeinitPoolStep(t) ==
    /\ op[t] = "deinit_mp"
    /\ DetachTest(t) \/ DetachOne(t)
    /\ UNCHANGED <<mbVars, queueVars>>

DeinitReturn(t) ==
    /\ op[t] = "deinit_mp" /\ InApp(t)
    /\ SetOp(t, "none")
    /\ UNCHANGED <<schedVars, poolVars, mbVars, qTime, content, buf>>

\* rt_thread_timeout of a thread that waits in either object.
QueueTimeout(t) ==
    /\ rt_thread_timeout(t)
    /\ waitq' = rt_list_remove(waitq, t)
    /\ receivers' = rt_list_remove(receivers, t)
    /\ senders' = rt_list_remove(senders, t)
    /\ UNCHANGED <<blockList, freeCount, waitCount, time, alive, used>>
    /\ UNCHANGED <<ring, mbTime, mbAlive, mail, queueVars>>

QueueCall(t) ==
    \/ \E m \in Msg, tm \in Times : bk_rtos_push_to_queue(t, m, tm)
    \/ \E tm \in MbTimes : bk_rtos_pop_from_queue(t, tm)
    \/ Consume(t)
    \/ bk_rtos_deinit_queue(t)
    \/ /\ \E u \in Thread : rt_thread_startup(t, u)
       /\ op[t] = "none"
       /\ UNCHANGED <<poolVars, mbVars, queueVars>>

QueueStep(t) ==
    \/ PushSchedule(t) \/ PushGiveUp(t) \/ PushAgain(t) \/ CopyIn(t) \/ PushSend(t)
    \/ MbScheduled(t) \/ PopAgain(t) \/ PopCopy(t) \/ PopFree(t)
    \/ DeinitMbStep(t) \/ DeinitPool(t) \/ DeinitPoolStep(t) \/ DeinitReturn(t)

QueueNext ==
    \/ \E t \in Thread : QueueCall(t) \/ QueueStep(t) \/ QueueTimeout(t)
    \/ \E m \in IsrMsg : IsrPush(m)
    \/ /\ (\E t \in Thread : ResumeInsert(t) \/ Schedule(t)) \/ rt_tick_increase
       /\ UNCHANGED <<poolVars, mbVars, queueVars>>

QueueSpec == QueueInit /\ [][QueueNext]_allVars
-----------------------------------------------------------------------------
QueueTypeOK ==
    /\ freeCount \in 0..Cardinality(Block) /\ entry \in 0..MbSize
    /\ inOff \in 0..(MbSize - 1) /\ outOff \in 0..(MbSize - 1)
    /\ mail \in [Thread -> Block \cup {NoMail}]
    /\ op \in [Thread -> Op]
    /\ qTime \in [Thread -> {"no", "timed", "forever"}]
    /\ content \in [Block -> Msg \cup {NoMsg}]
    /\ buf \in [Thread -> Msg \cup {NoMsg}]

Queued == {Contents[i] : i \in 1..entry}

\* Every block that the pool has handed out is in one place: in the mailbox, once,
\* or with the one thread that is filling or emptying it.  So the mailbox always
\* has room for a block, rt_mb_send_wait never fails in a push, and its error
\* path, which keeps the block for ever, is not taken.
NoLeak ==
    /\ Distinct(Contents)
    /\ \A t, u \in Thread : mail[t] = mail[u] /\ mail[t] # NoMail => t = u
    /\ Queued \cap {mail[t] : t \in Thread} = {}
    /\ used = Queued \cup ({mail[t] : t \in Thread} \ {NoMail})

Queue == INSTANCE BoundedFifo
    WITH Client <- Thread, Item <- Msg, NoItem <- NoMsg, Capacity <- MbSize,
         queue <- [i \in 1..entry |-> content[Contents[i]]],
         buf <- [t \in Thread |-> IF op[t] = "copy_out" THEN content[mail[t]] ELSE buf[t]]

\* The queue implements a bounded FIFO of messages: what bk_rtos_pop_from_queue
\* leaves in its caller's buffer is the message of one push, whole and in order,
\* although the blocks are filled, emptied and reused with interrupts enabled.
QueueIsFifo == Queue!FifoSpec

\* bk_rtos_deinit_queue leaves nobody behind: when it returns no thread is still
\* suspended in a push or a pop of the queue it has freed.
NobodyLeft ==
    (~alive /\ \A t \in Thread : op[t] \notin {"deinit_mb", "deinit_mp"})
        => \A t \in Thread : InAlloc(t) \/ InRecv(t) => stat[t] = "ready"
=============================================================================

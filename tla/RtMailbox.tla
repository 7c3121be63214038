----------------------------- MODULE RtMailbox -----------------------------
(***************************************************************************)
(* The RT-Thread mailbox (ipc.c) on top of the scheduler: a ring of mails, *)
(* a list of receivers that wait for one and a list of senders that wait   *)
(* for room.                                                               *)
(*                                                                         *)
(* Nothing is handed over: a send or a receive wakes the first thread of   *)
(* the other list, which tests again and may find that another thread was  *)
(* faster.  mail[t] is the caller's side: the mail of its send, or the one *)
(* its receive returned.                                                   *)
(***************************************************************************)
EXTENDS RtSched

CONSTANTS
    Mail, NoMail,
    IsrMail,     \* the mails that interrupt handlers send
    MbSize,      \* mb->size
    MbFlag,      \* "FIFO" or "PRIO": parent.flag
    MbTimes      \* the timeouts used: "no" (0), "timed", "forever" (< 0)

ASSUME MailboxAssumption ==
    /\ NoMail \notin Mail /\ IsrMail \subseteq Mail
    /\ MbSize \in Nat \ {0}
    /\ MbFlag \in {"FIFO", "PRIO"}
    /\ MbTimes \subseteq {"no", "timed", "forever"}

VARIABLES
    msgPool, entry, inOff, outOff,   \* the fields of struct rt_mailbox
    receivers,                       \* parent.suspend_thread
    senders,                         \* suspend_sender_thread
    mbTime,                          \* the timeout of the call each thread waits in
    mbAlive,                         \* the mailbox has not been detached or deleted
    mail                             \* the caller's side

ring == <<msgPool, entry, inOff, outOff>>
mbVars == <<ring, receivers, senders, mbTime, mbAlive, mail>>

MbPc == {"send", "send_chk", "recv", "recv_chk",
         "mb_detach", "mb_detach_one", "mb_detach_s", "mb_detach_s_one"}
-----------------------------------------------------------------------------
\* rt_mb_init, rt_mb_create
MbInit ==
    /\ msgPool = [i \in 0..(MbSize - 1) |-> NoMail]
    /\ entry = 0 /\ inOff = 0 /\ outOff = 0
    /\ receivers = <<>> /\ senders = <<>>
    /\ mbTime = [t \in Thread |-> "no"]
    /\ mbAlive = TRUE
    /\ mail = [t \in Thread |-> NoMail]

InSend(t) == pc[t] \in {"send", "send_chk"}
InRecv(t) == pc[t] \in {"recv", "recv_chk"}

FullTooLate == entry = MbSize + 1
FullTooEarly == entry + 1 >= MbSize
Full == entry = MbSize
Empty == entry = 0

\* An offset is advanced and wraps when it reaches the size.
NextOffsetLate(o) == IF o + 1 > MbSize THEN 0 ELSE o + 1
NextOffset(o) == IF o + 1 >= MbSize THEN 0 ELSE o + 1

\* What is left of a finite timeout after a wait: any part of it, or nothing.
MbLeft(tm) == IF tm = "timed" THEN {"timed", "no"} ELSE {tm}

\* rt_ipc_list_suspend of the running thread and the start of its timer; the
\* list itself is left to the caller.
SuspendSelf(t, tm, label) ==
    /\ MayBlock
    /\ error' = [error EXCEPT ![t] = "EOK"]
    /\ stat' = [stat EXCEPT ![t] = "suspend"]
    /\ rq' = rt_schedule_remove_thread(rq, t, prio[t])
    /\ timer' = [timer EXCEPT ![t] = (tm = "timed")]
    /\ mbTime' = [mbTime EXCEPT ![t] = tm]
    /\ Goto(t, label)

\* rt_ipc_list_resume of the first thread of list l; the list itself is left to
\* the caller.
ResumeHead(l) ==
    /\ stat' = [stat EXCEPT ![Head(l)] = "ready"]
    /\ timer' = rt_timer_stop(Head(l))
    /\ rq' = rt_schedule_insert_thread(rq, Head(l), prio[Head(l)])

\* The ring and the receivers after mail m is stored: rt_mb_send_wait's end.
NobodyToWake == FALSE
WakesReceiver == receivers # <<>>
WakesSender == senders # <<>>

Store(m) ==
    /\ msgPool' = [msgPool EXCEPT ![inOff] = m]
    /\ inOff' = NextOffset(inOff)
    /\ entry' = entry + 1
    /\ UNCHANGED outOff
    /\ IF WakesReceiver
       THEN receivers' = Tail(receivers) /\ ResumeHead(receivers)
       ELSE UNCHANGED <<receivers, stat, timer, rq>>

\* where a call goes on when it returns, with or without an rt_schedule; its
\* timeout variable is gone
Returns(t, wakes) ==
    /\ Goto(t, IF wakes THEN "sched"
               ELSE IF pc[t] \in {"send_chk", "recv_chk"} THEN "run" ELSE pc[t])
    /\ mbTime' = [mbTime EXCEPT ![t] = "no"]

SendStore(t, m) ==
    /\ ~Full
    /\ Store(m)
    /\ Returns(t, WakesReceiver)
    /\ mail' = [mail EXCEPT ![t] = NoMail]
    /\ UNCHANGED <<prio, error, defunct, current, lockNest, tgt, senders, mbAlive>>

\* -RT_EFULL: the error is reset first when the loop was entered by a wait
SendFull(t, tm) ==
    /\ Full /\ tm = "no"
    /\ Returns(t, FALSE)
    /\ mail' = [mail EXCEPT ![t] = NoMail]
    /\ UNCHANGED <<rq, stat, prio, timer, error, defunct, current, lockNest, tgt>>
    /\ UNCHANGED <<ring, receivers, senders, mbAlive>>

SendWait(t, m, tm) ==
    /\ Full /\ tm # "no"
    /\ SuspendSelf(t, tm, "send")
    /\ senders' = ListInsert(MbFlag, senders, t, prio)
    /\ mail' = [mail EXCEPT ![t] = m]
    /\ UNCHANGED <<prio, defunct, current, lockNest, tgt, ring, receivers, mbAlive>>

SendSection(t, m, tm) == SendStore(t, m) \/ SendFull(t, tm) \/ SendWait(t, m, tm)

rt_mb_send_wait(t, m, tm) == InApp(t) /\ mbAlive /\ SendSection(t, m, tm)

\* The end of rt_mb_recv: the oldest mail, and one sender woken.
Fetch(t) ==
    /\ mail' = [mail EXCEPT ![t] = msgPool[outOff]]
    /\ outOff' = NextOffset(outOff)
    /\ entry' = entry - 1
    /\ UNCHANGED <<msgPool, inOff>>
    /\ IF WakesSender
       THEN senders' = Tail(senders) /\ ResumeHead(senders)
       ELSE UNCHANGED <<senders, stat, timer, rq>>

RecvFetch(t) ==
    /\ ~Empty
    /\ Fetch(t)
    /\ Returns(t, WakesSender)
    /\ UNCHANGED <<prio, error, defunct, current, lockNest, tgt, receivers, mbAlive>>

\* -RT_ETIMEOUT; only after a wait is it thread->error too
RecvRefused(t, tm) ==
    /\ Empty /\ tm = "no"
    /\ error' = [error EXCEPT ![t] = IF pc[t] = "recv_chk" THEN "ETIMEOUT" ELSE @]
    /\ Returns(t, FALSE)
    /\ UNCHANGED <<rq, stat, prio, timer, defunct, current, lockNest, tgt>>
    /\ UNCHANGED <<ring, receivers, senders, mbAlive, mail>>

RecvWait(t, tm) ==
    /\ Empty /\ tm # "no"
    /\ SuspendSelf(t, tm, "recv")
    /\ receivers' = ListInsert(MbFlag, receivers, t, prio)
    /\ UNCHANGED <<prio, defunct, current, lockNest, tgt, ring, senders, mbAlive, mail>>

RecvSection(t, tm) == RecvFetch(t) \/ RecvRefused(t, tm) \/ RecvWait(t, tm)

rt_mb_recv(t, tm) == InApp(t) /\ mbAlive /\ RecvSection(t, tm)

\* The rt_schedule inside both loops,
MbSchedule(t) ==
    /\ current = t /\ pc[t] \in {"send", "recv"}
    /\ current' = rt_schedule(rq)
    /\ Goto(t, IF pc[t] = "send" THEN "send_chk" ELSE "recv_chk")
    /\ UNCHANGED <<rq, stat, prio, timer, error, defunct, lockNest, tgt, mbVars>>

\* and what follows it: give up after an error, or test again with what is left
\* of the timeout.
MbGiveUp(t) ==
    /\ current = t /\ pc[t] \in {"send_chk", "recv_chk"} /\ error[t] # "EOK"
    /\ Returns(t, FALSE)
    /\ mail' = [mail EXCEPT ![t] = NoMail]
    /\ UNCHANGED <<rq, stat, prio, timer, error, defunct, current, lockNest, tgt>>
    /\ UNCHANGED <<ring, receivers, senders, mbAlive>>

SendAgain(t) ==
    /\ At(t, "send_chk") /\ error[t] = "EOK"
    /\ \E tm \in MbLeft(mbTime[t]) : SendSection(t, mail[t], tm)

RecvAgain(t) ==
    /\ At(t, "recv_chk") /\ error[t] = "EOK"
    /\ \E tm \in MbLeft(mbTime[t]) : RecvSection(t, tm)

\* rt_mb_control(RT_IPC_CMD_RESET): in one section all waiters get -RT_ERROR, the
\* receivers first, and the ring is empty.
ForgetSenders == receivers
ResetWakes == receivers \o senders

rt_mb_control(t) ==
    LET Woken == {u \in Thread : Contains(ResetWakes, u)}
    IN  /\ InApp(t) /\ mbAlive
        /\ rq' = InsertAll(rq, ResetWakes, prio)
        /\ stat' = [u \in Thread |-> IF u \in Woken THEN "ready" ELSE stat[u]]
        /\ error' = [u \in Thread |-> IF u \in Woken THEN "ERROR" ELSE error[u]]
        /\ timer' = [u \in Thread |-> timer[u] /\ u \notin Woken]
        /\ receivers' = <<>> /\ senders' = <<>>
        /\ entry' = 0 /\ inOff' = 0 /\ outOff' = 0
        /\ Goto(t, "sched")
        /\ UNCHANGED <<prio, defunct, current, lockNest, tgt, msgPool, mbTime, mbAlive, mail>>

\* rt_mb_detach, rt_mb_delete: callers no longer use the mailbox, none is on its
\* way back into one of the loops and no timed wait is on, which may end inside
\* rt_ipc_list_resume_all (see MayDetach in module RtMutex).
MayDetachMb == \A u \in Thread : InSend(u) \/ InRecv(u) => stat[u] = "suspend" /\ ~timer[u]

rt_mb_detach(t) ==
    /\ InApp(t) /\ mbAlive /\ MayDetachMb
    /\ mbAlive' = FALSE
    /\ Goto(t, "mb_detach")
    /\ UNCHANGED <<rq, stat, prio, timer, error, defunct, current, lockNest, tgt>>
    /\ UNCHANGED <<ring, receivers, senders, mbTime, mail>>

\* rt_ipc_list_resume_all outside a section, for the receivers and then for the
\* senders: the list is tested with interrupts enabled,
DetachGoesOn(t) ==
    IF pc[t] = "mb_detach" THEN IF receivers # <<>> THEN "mb_detach_one" ELSE "mb_detach_s"
    ELSE IF senders # <<>> THEN "mb_detach_s_one" ELSE "unsched"

MbDetachTest(t) ==
    /\ current = t /\ pc[t] \in {"mb_detach", "mb_detach_s"}
    /\ Goto(t, DetachGoesOn(t))
    /\ UNCHANGED <<rq, stat, prio, timer, error, defunct, current, lockNest, tgt, mbVars>>

\* and one waiter is resumed.
MbDetachReceiver(t) ==
    /\ At(t, "mb_detach_one") /\ receivers # <<>>
    /\ error' = [error EXCEPT ![Head(receivers)] = "ERROR"]
    /\ ResumeHead(receivers)
    /\ receivers' = Tail(receivers)
    /\ Goto(t, "mb_detach")
    /\ UNCHANGED <<prio, defunct, current, lockNest, tgt, ring, senders, mbTime, mbAlive, mail>>

MbDetachSender(t) ==
    /\ At(t, "mb_detach_s_one") /\ senders # <<>>
    /\ error' = [error EXCEPT ![Head(senders)] = "ERROR"]
    /\ ResumeHead(senders)
    /\ senders' = Tail(senders)
    /\ Goto(t, "mb_detach_s")
    /\ UNCHANGED <<prio, defunct, current, lockNest, tgt, ring, receivers, mbTime, mbAlive, mail>>

\* rt_thread_timeout unlinks the thread from the list it waits in.
MbTimeout(t) ==
    /\ rt_thread_timeout(t)
    /\ receivers' = rt_list_remove(receivers, t)
    /\ senders' = rt_list_remove(senders, t)
    /\ UNCHANGED <<ring, mbTime, mbAlive, mail>>

\* A driver's interrupt handler sends with timeout 0 (rt_mb_send): rt_schedule
\* switches at once.
IsrSend(m) ==
    /\ mbAlive /\ ~Full
    /\ Store(m)
    /\ current' = IF WakesReceiver THEN rt_schedule(rq') ELSE current
    /\ UNCHANGED <<prio, error, defunct, lockNest, tgt, pc, senders, mbTime, mbAlive, mail>>

MbStep(t) == \/ MbSchedule(t) \/ MbGiveUp(t) \/ SendAgain(t) \/ RecvAgain(t)
             \/ MbDetachTest(t) \/ MbDetachReceiver(t) \/ MbDetachSender(t)
-----------------------------------------------------------------------------
(* A system of threads that share one mailbox.                              *)

\* A thread is done with the mail it received.
Discard(t) ==
    /\ InApp(t) /\ mail[t] # NoMail
    /\ mail' = [mail EXCEPT ![t] = NoMail]
    /\ UNCHANGED <<schedVars, ring, receivers, senders, mbTime, mbAlive>>

MbCall(t) ==
    \/ Discard(t)
    \/ /\ mail[t] = NoMail
       /\ \/ \E tm \in MbTimes, m \in Mail : rt_mb_send_wait(t, m, tm)
          \/ \E tm \in MbTimes : rt_mb_recv(t, tm)
          \/ rt_mb_control(t)
          \/ rt_mb_detach(t)
          \/ (\E u \in Thread : rt_thread_startup(t, u)) /\ UNCHANGED mbVars

MbNext ==
    \/ \E t \in Thread : MbCall(t) \/ MbStep(t) \/ MbTimeout(t)
    \/ \E m \in IsrMail : IsrSend(m)
    \/ (\E t \in Thread : ResumeInsert(t) \/ Schedule(t)) /\ UNCHANGED mbVars
    \/ rt_tick_increase /\ UNCHANGED mbVars

MbSpec == Init /\ MbInit /\ [][MbNext]_<<schedVars, mbVars>>
-----------------------------------------------------------------------------
MbTypeOK ==
    /\ CoreTypeOK
    /\ pc \in [Thread -> {"run", "unsched", "sched", "startup"} \cup MbPc]
    /\ msgPool \in [0..(MbSize - 1) -> Mail \cup {NoMail}]
    /\ entry \in 0..MbSize
    /\ inOff \in 0..(MbSize - 1) /\ outOff \in 0..(MbSize - 1)
    /\ receivers \in Seq(Thread) /\ senders \in Seq(Thread)
    /\ mbTime \in [Thread -> {"no", "timed", "forever"}]
    /\ mbAlive \in BOOLEAN
    /\ mail \in [Thread -> Mail \cup {NoMail}]

\* Each list holds exactly the suspended threads inside its call, each once,
\* whether a mail, room, a reset, a delete or a timeout ends the wait.
MbWaitersOK ==
    /\ Distinct(receivers) /\ Distinct(senders)
    /\ \A t \in Thread :
        /\ Contains(receivers, t) <=> InRecv(t) /\ stat[t] = "suspend"
        /\ Contains(senders, t) <=> InSend(t) /\ stat[t] = "suspend"

WokenIn(In(_)) == {t \in Thread : In(t) /\ stat[t] = "ready" /\ error[t] = "EOK"}

\* No lost wakeup on either side: while a receiver is left suspended, every mail
\* has a woken receiver that has not yet tested again, and while a sender is left
\* suspended every free place has a woken sender, whoever is faster in between.
MbNoLostWakeup ==
    mbAlive =>
        /\ receivers # <<>> => entry <= Cardinality(WokenIn(InRecv))
        /\ senders # <<>> => MbSize - entry <= Cardinality(WokenIn(InSend))

\* The mails of the ring, oldest first.
Contents == [i \in 1..entry |-> msgPool[(outOff + i - 1) % MbSize]]

Fifo == INSTANCE BoundedFifo
    WITH Client <- Thread, Item <- Mail, NoItem <- NoMail, Capacity <- MbSize,
         queue <- Contents, buf <- mail

\* The mailbox implements a bounded FIFO: every mail that a call of
\* rt_mb_send_wait stores is received once, unchanged and in order, by the one
\* rt_mb_recv it is given to, through wrapping offsets, waits and resets.
MailboxIsFifo == Fifo!FifoSpec
=============================================================================

# Verification of the RT-Thread BK7252 SDK

The repository is an SDK for the Beken BK7252 (one ARM9 core, Wi-Fi, camera, audio): the RT-Thread
kernel in `rt-thread/src`, Beken's drivers and middleware in `beken378`, board drivers in `drivers`,
audio and network functions in `function`, and vendored packages. This directory holds a TLA+ model of
its kernel core, of Beken's message queue and of the camera's picture buffer, the TLC configurations that check it and the TLAPS proofs about it.
`PROJECT.json` is the index: components, runs, mutants, the map from definitions to source lines,
findings, hazards and theorems.

## Inventory

| Component (source) | State | Operations | What is hard | What makes it correct |
|---|---|---|---|---|
| list (`rtservice.h`) | nodes between head and tail | insert, remove | a node is linked in one list at a time | no duplicates, removal leaves the rest alone |
| scheduler (`scheduler.c`) | ready lists per priority, priority bit set, current thread, lock nesting | insert, remove, `rt_schedule`, enter/exit critical | runs between interrupts and inside them | lists, bits and thread states agree; the most urgent ready thread runs |
| threads (`thread.c`) | stat, priority, timer, error of each thread; defunct list | create, init, startup, suspend, resume, sleep, yield, priority, exit, delete, detach, timeout | most calls are several interrupt-free sections | timers belong to suspended threads; freed once and not while running |
| idle (`idle.c`) | defunct list | reap | freeing in two steps | never frees what can still run |
| clock (`clock.c`) | tick, remaining slice | tick interrupt | falls anywhere | threads of one priority take turns |
| timers (`timer.c`) | ordered lists of hard and soft timers, wrapping ticks, the timer thread's state | init, start, stop, detach, control, check, soft-timer thread | callbacks change the list being walked; starts are cut by interrupts; wraparound; a thread that suspends itself on what it read before | hard timers run in their tick; only started timers fire; the timer thread does not sleep on one |
| semaphore (`ipc.c` 200-512) | value, waiters | take, release, reset, detach | release from interrupts, timeouts | no token lost or doubled |
| mutex (`ipc.c` 514-880) | value, owner, hold, original priority, waiters | take, release, detach | inheritance, timeouts, handover | exclusion; owner as urgent as its waiters; priority given back |
| mailbox (`ipc.c` 1240-1716) | ring, count, two offsets, waiting receivers and senders | send, receive, reset, detach | woken threads may be overtaken, also by interrupt handlers | a bounded FIFO; no waiter forgotten on either side |
| event set, message queue (`ipc.c`) | set bits / list of messages, waiters | send, receive, reset | as for the mailbox | not modelled |
| completion (`completion.c`) | flag, one waiter | wait, done | done from interrupt handlers resumes a thread whose timer is armed | only that resume is modelled (`RtSched`) |
| memory pool (`mempool.c`) | free blocks and their count, waiters and their count | alloc, free, detach | no handover: a woken thread tries again | blocks conserved, no lost wakeup |
| heap (`memheap.c`; `mem.c` and `slab.c` are not compiled) | block headers | alloc, free, realloc | address arithmetic | blocks disjoint |
| Beken adaptation (`bk_rtos_pub.c`) | queue = mailbox + pool of one size | init, push, pop, deinit | two objects, each with its own waits; copies with interrupts enabled; a step of several fails | a bounded FIFO of messages; blocks are neither leaked nor shared; deinit leaves nobody behind |
| picture buffer (`video_transfer.c`, `camera_intf.c`) | state of the buffer, frame numbers, pool, request and use flags | node and end-of-frame handlers, capture, give back, init, deinit | two interrupt handlers, a user and the shell share it without a lock | a picture is one whole frame, stays as it is while in use, and comes when asked for |
| frame reader (`video_buffer.c`) | buffer of a reader | open, read, close | | not modelled (see below) |
| audio rings (`ring_buffer*.c`), mixer (`mixer.c`) | read/write positions; play state | read, write, DMA progress; start, stop | DMA moves one pointer | no overrun; stop returns |
| buttons, power save, Wi-Fi, drivers, packages | | | hardware, binaries, vendored | not modelled |

Components interact through kernel calls only: the IPC objects, the pool and the timers suspend and
resume threads through `thread.c`, `thread.c` changes the ready queue through `scheduler.c`, and the
clock interrupt enters all of them through `rt_tick_increase`, `rt_timer_check` and
`rt_thread_timeout`. Beken's code enters through `bk_rtos_pub.c`.

## Modules

| Module | Models | Extends or instantiates |
|---|---|---|
| `RtList` | the kernel list as a sequence; the position found by `rt_ipc_list_suspend` | |
| `RtSched` | scheduler, threads, idle, the clock interrupt | `RtList` |
| `RtMutex`, `RtSem`, `RtMempool` | the mutex, the semaphore, the memory pool, each composed with the scheduler | `RtSched` |
| `BoundedFifo` | abstract: a bounded first-in first-out queue with a buffer per client | |
| `RtMailbox` | the mailbox with its two lists of waiters | `RtSched`; instance of `BoundedFifo` |
| `BkQueue` | the message queue of `bk_rtos_pub.c`, composed of the pool and the mailbox | `RtMempool`, `RtMailbox`; instance of `BoundedFifo` |
| `RtTimer` | timers and the timer thread on a wrapping tick count | `RtList` |
| `VideoTransfer` | the picture buffer, the camera's handlers, a user and the shell | |
| `MCSched`, `MCMutex`, `MCSem`, `MCMempool`, `MCMailbox`, `MCQueue`, `MCTimer`, `MCVideo` | instances for TLC | |
| `RtListProofs`, `RtSchedProofs` | proofs about lists and the scheduler; the lemmas on blocking that the objects share | `RtList`, `RtSched` |
| `RtSemProofs`, `RtMutexProofs`, `RtMailboxProofs` | proofs about the objects; the mailbox implements `BoundedFifo` | the object's module, `RtSchedProofs` |
| `BkQueueProofs` | proofs about the queue and its pool; the queue implements `BoundedFifo` | `BkQueue`, `RtMailboxProofs` |
| `RtTimerProofs`, `VideoTransferProofs` | proofs about timers and the picture buffer | `RtTimer` with `RtListProofs`; `VideoTransfer` |

**Grain of atomicity.** There is one core. A section between `rt_hw_interrupt_disable` and
`rt_hw_interrupt_enable` is one step, a clock interrupt is one step, and `pc[t]` says where thread `t`
stands between two sections. Only `current` takes thread steps; interrupts fall anywhere. So
`rt_thread_resume` is three steps (test of `stat`; unlink and stop the timer; insert), or one where it is called with
interrupts disabled (`rt_completion_done`), `rt_thread_delete` four, a waiting `rt_mutex_take` three (suspend; `rt_schedule`; look at `thread->error`). Inside an
object's own section the nested kernel calls do not enable interrupts and belong to that step.
A clock interrupt that ends a slice and fires several timers is the same steps one after the other.

**Time** is abstracted in all modules but `RtTimer`: a slice may end, and an armed thread timer expire, at any interrupt. A time
argument is `"no"` (0), `"timed"` or `"forever"`; a recalculated timeout may have become 0 (`LeftOf`, `MbLeft`). `RtTimer` has the tick count and its wrap instead, and
reduces the scheduler to who may run: a thread is less urgent than the timer thread (`Low`) or not (`High`).

**State.** `rq` is `rt_thread_priority_table` with `rt_thread_ready_priority_group`; `stat`, `prio`,
`timer`, `error` are the thread's fields; `tgt[t]` is the thread argument of the call `t` is inside.
In `RtMutex`, `held` is not in the code: it is the caller's view, what the returned codes say. `balance` in
`RtSem` and `used` in `RtMempool` are the same for those objects. `alive` says whether an object
has been detached. `mail` in `RtMailbox` is the caller's `value`; in `BkQueue` it is `msg_tmp`, `op` the line of
the queue operation, `content` what a block holds and `buf` the caller's message. In `RtTimer` the timer
thread's locals are variables (`next`, `cur`, `node` is `n`, `fires` is `t`), `at` and `obj` say where each thread
stands in a timer call, and `started` is the callers' view. In `VideoTransfer` the pool is the sequence of
nodes it holds, each marked with its frame and place, so that a picture can be told from a mixture; `wild` records
a write to memory that is not the pool's.

**Caller rules.** The code allows more than its own data structures survive. The model keeps to these uses, as guards; each is a
restriction of the callers, not something the code tests:

- `MayManage` (when `Disciplined`): a thread is started, resumed, deleted or reprioritised by one thread at a time, and not while it is
  itself in such a call. `rt_thread_suspend` is for oneself.
- `Untimed` (when `Disciplined`): `rt_thread_resume` and `rt_thread_delete` called by a thread, whose sections are open to the clock, are used on threads
  without an armed timer. `rt_thread_resume` stops an armed timer (`thread.c:712`) and `rt_thread_delete` detaches one (427), but in a section
  after the one that looked at the thread, and the timer can expire in between: that is `sched_delete`. Where the whole resume is one section, in
  `rt_completion_done`, called by threads and interrupt handlers, armed timers are allowed, and `TimeoutAssert` is about that.
- `MayBlock`: who locks the scheduler does not block, exit or delete itself.
- With `Disciplined = FALSE` the first two are dropped, and `ReadyQueueOK` fails.
- A thread may delete itself (`lwp_syscall.c:42`), with the `rt_schedule` that `sys_exit` adds. If it is preempted between the sections it is in no list
  any more and never finishes: it is then neither closed nor freed. The model has this; no property claims otherwise.
- An object is not used any more once its detaching has begun (`alive`). The semaphore, the mailbox and the pool are not detached, nor the mutex
  (`MayDetach`), while someone waits with a timer, the mutex not by another thread than its owner: `rt_ipc_list_resume_all` tests the list with interrupts enabled (`ipc.c:175`) and takes its first
  node in a later section; a timeout or a release in between leaves it the list head. The code lets anyone detach at any time.
- `Nested = FALSE`: a thread holds one mutex at a time; with two, released in the order taken, the first release gives
  back the priority lent for the second, and `Inheritance` and `PriorityRestored` fail.
- `MayDeinit`: when `bk_rtos_deinit_queue` begins, the others are out of the queue or blocked in it.
- `Rules` of `RtTimer`: `manager` (one thread at a time works on a timer), `own` (a one-shot timer is not restarted by
  its own timeout function, nor before the check that called it is done with it, which would leave it linked without its flag), `check` (no linked soft timer is
  taken out while the timer thread is inside `rt_soft_timer_check`), `detach` (a timer is not detached by its own
  timeout function, since the flag it keeps makes a periodic one start again), `sentinel` (no soft timer is due at
  `RT_TICK_MAX`, which stands for "none"; only `timer_lost` keeps it, so that it shows the race alone). `timer_stop` drops `check`.
  `rt_timer_control` may change the time of a running timer, as `bk_rtos_change_period` does.
- In `timer` soft timers are used by threads less urgent than the timer thread and by timeout functions (`SoftUsers`); `timer_lost` has an
  equally urgent one.
- In `VideoTransfer` the transfer is stopped only while the user is idle; asking for a picture too early is allowed, and the pool's
  `rt_malloc` may fail.
- The idle thread's free is one step: the heap's lock is taken to be free, since its holder is ready and more urgent than idle.

**Mutants.** Next to a helper stands a second definition of the same shape that changes it the way a
plausible slip would (`RemoveKeepsBit`, `AnswerUnchecked`, `ResumeForgetsTimer`, ...). They are used by no
specification: each is put in place of its neighbour to see that a property notices.

**Refinement.** `BoundedFifo` is what a user of a queue relies on: an item goes from a client's buffer to the end
of the queue, or from its head to a buffer, in one step, unchanged and once. `RtMailbox` implements it with
`queue` the ring read from `outOff` for `entry` places and `buf` the callers' mails (`MailboxIsFifo`). `BkQueue` implements it with
`queue` the contents of the queued blocks; a pop takes effect when `rt_mb_recv` returns the block, so until the
copy `buf` is the content of that block (`QueueIsFifo`). That is where a block that is freed too early would show: the mapped
buffer changes in a step that is no step of the FIFO.

## Runs

The kernel instances have an idle thread and three threads: of different priorities in `mutex`, two of
them of one priority in `sem`, `mailbox` and `queue`, so that slices end there. Three is
what the interesting cases need: an owner, a waiter and someone in between, or a waker and two waiters.

| Run | Shows |
|---|---|
| `sched` | all thread calls against all interrupts; nesting to 2; a created thread, static ones with and without a cleanup function, threads that delete themselves, sleepers resumed by threads and interrupt handlers; priorities can be made equal; `RoundRobin` under `LiveSpec` |
| `sched_delete` | *violated*: a sleeping thread is deleted while its timer expires |
| `mutex` | one mutex, recursion to 2, refused, timed and unbounded takes, detaching under unbounded waiters; preemption after the release |
| `sem` | value up to 3, releases from threads and interrupt handlers, reset, detach |
| `mailbox` | ring of two, two mails, everyone sends and receives with every kind of timeout, an interrupt handler sends, reset and detach; refinement of `BoundedFifo` |
| `queue` | two blocks, two messages, two pushers, one popper, pushes from an interrupt handler, deinit; refinement of `BoundedFifo` |
| `mempool_timed` | *violated*: `suspend_thread_count` after a timeout |
| `timer` | a periodic hard timer, a one-shot and a periodic soft timer, one thread and all timeout functions using them, ticks modulo 11 from 9, so that the count wraps at once; times of running timers changed |
| `timer_lost` | *violated*: a thread as urgent as the timer thread starts a timer while that is about to suspend itself |
| `timer_stop` | *violated*: a timeout function takes out the timer that the check has kept as its next |
| `video` | nodes of 3, pool of 14 that may fail to be allocated, frames of one to five full nodes and a rest, requests and restarts at any moment |
| `video_merge` | *violated*: frames that end with a full node |

Bounds: `MaxNest` (scheduler lock), `MaxHold` (recursion), `MaxBalance` (tokens). The counters they
bound only ever change by one and are compared with 0 or 1, so 2 or 3 shows every case but the wrap of
the 8- and 16-bit fields. `NewPrio` has one member, equal to another
thread's priority, so that two threads come to share a list. `MbSize = 2` is the least ring in which both offsets wrap
apart from each other, and with three threads each list of waiters can hold two. In `queue` the roles are split so that two
pushers can wait for a block at once; everyone-does-everything is the `mailbox` run's part.
`TickMod = 11` leaves timeouts of one and two ticks (`MCInitTicks`: one soft timer has both, the others one) well under half the range; `MaxLag = 1` is the assumption that nothing due
stays undone for more than a tick, without which no comparison modulo the range could be right.
The longest frames of `video` do not fit into the pool, in every way: a full node too many, a rest too long, or a full
node dropped before a rest that fits. No symmetry is used: the threads differ
by priority and one is the thread the system boots into, and timers and messages differ by kind.

In `queue` the waits for a block have no time limit, because with timed waits the code runs into the
`mempool_timed` defect first and nothing is defined after it; the waits for a message have every kind. `app.c:373` does push with a finite wait, so what
`queue` shows does not cover that caller; `SuspendCount` is checked by `mempool_timed` only.

Deadlock is checked in `video`. In the other runs it is not (`CHECK_DEADLOCK FALSE`): when every thread is suspended without a timer the
idle thread spins for ever, which is a legitimate end of the modelled behaviours, and in `timer` the lag bound can stop the clock.

**Fairness** (`LiveSpec`): weak fairness of `rt_tick_increase`, since the clock keeps interrupting and
each slice is finite, and of `ThreadStep(t)`, since a running thread executes its instructions.
Nothing is assumed of what applications call, so `RoundRobin` carries its conditions: critical sections
keep being left, and priorities are eventually no longer set (setting one moves a ready thread to the end of its list).
`VideoSpec`: weak fairness of the camera, which keeps delivering nodes and ends of frames while it is on, and of `Receive`,
since a thread whose event has been sent is scheduled in the end. Requests, returns and the shell have none.

## Findings

The five violated runs are what the code does against what its comments say; `PROJECT.json`
quotes both sides. They are: a timer that fires inside `rt_thread_delete` requeues a dead thread; the
pool's count of waiters is not told of timeouts; the soft-timer thread may suspend itself on a timer that was
just started; a soft timer that was taken out by another one's timeout function may still fire; and a frame whose length is a multiple of the node
length is joined to the next one.

Seen while modelling, without a comment of the source to set against it and so without a run:

- `rt_mutex_release` does not reschedule when it lowers the owner's priority without resuming a waiter; a more urgent ready thread waits for the next
  `rt_schedule`. The model leaves the thread at `unsched` there, where `NoMissedPreemption` demands nothing.
- `video_transfer_deinit` frees the pool before the camera is off, and a failed `rt_malloc` in `tvideo_pool_init` is only logged: in both cases the handlers
  copy to memory that is not the pool's. `WildOnlyKnown` says that these are the only ways.
- A thread as urgent as the timer thread that is preempted inside the `rt_thread_resume` of `rt_timer_start` can make the timer thread ready a second time,
  in the middle of a delay, whose end then fails the assertion of `rt_thread_timeout`.
- A thread that deletes itself may be preempted for good with the deletion half done.

## Proofs

Every invariant and every safety property of the passing runs is a theorem, under the rules below, for any number of threads, objects,
priorities, places, blocks and messages, any tick modulus and any frame lengths; so are both refinements. Only `RoundRobin` and `PictureServed`
are not: they are liveness under fairness, which the installed backends cannot handle, and stay with TLC.

The theorems carry the rules of the callers as hypotheses, no others. Each one has a run, or an instance, that shows
it is needed, and each is satisfied by the instance of a passing run:

| Hypothesis | In the theorems about | Without it |
|---|---|---|
| `Disciplined` (`MayManage`, `Untimed`, suspension of oneself only) | scheduler, semaphore, mutex, mailbox, queue | `sched_delete` |
| `~Nested` (and `Flag = "PRIO"` for `Inheritance`) | `PriorityRestored`, `Inheritance` | the first of two releases gives back too much |
| `RulesKept` (`manager`, `own`, `check`, `detach`; soft timers are used by threads less urgent than the timer thread, by timeout functions and by interrupt handlers) | timers, except `LostOnlyAtSuspend`, which needs none | `timer_stop` |
| `OwnEnd` (every frame has a full node and ends with a shorter one; the pool has room for the first) | `PictureWhole` | `video_merge` |
| `QueueCalled` (`Disciplined`, no push waits for a finite time) | pool and queue | `mempool_timed` |

Assumptions on the constants are named in the modules that declare them and TLC evaluates them. The one that is there for the
proofs only is that the set of threads is finite, which the counts of woken threads need.

**Scheduler.** `SchedInv` is inductive; none of the properties is alone:

- `ReadyQueueOK` needs to know what a call may assume of its argument between two sections
  (`TargetOK`: a thread being resumed is still suspended, the one being suspended is the caller and ready, at
  most one call is inside on any thread), or the final insertion could link a thread twice;
- `TargetOK` needs that no interrupt touches such a thread, hence `TimerOK`: an armed timer belongs to
  a suspended thread that is nobody's argument. This gives `TimeoutAssert`: a resume inside one section stops the timer it meets;
- `NoMissedPreemption` needs that the choice of `rt_schedule` is defined and right: the idle thread is always ready
  (`IdleOK`), so the bit set is never empty, and the first thread of the first non-empty list is ready
  (`ReadyQueueOK`). It also needs that whoever runs is ready or on its way to `rt_schedule`
  (`CurrentOK`), and the same property while idle frees a thread (`PreemptOK`);
- `DefunctOK` needs `TargetOK` for the threads between closing and linking, and between unlinking and freeing, and that a static thread the idle thread has
  cleaned up (label `cleaned`) is linked only once; `CurrentOK` allows for the thread that deletes itself (`DeletesItself`).

There is one lemma per action, on top of lemmas about the ready queue as a whole (`RqInsert`, `RqRemove`, `RqYield`, `RqChange`,
`RqHighest`), which rest on `RtListProofs`: what insertion, removal and the position found by `rt_ipc_list_suspend` do to
membership, distinctness and order.

**Blocking objects** share `BlockInv`, the part of the scheduler's invariant that their threads can disturb: the ready queue is right, an armed timer
belongs to a suspended thread, only started threads are inside a call, and whoever runs is ready or about to call `rt_schedule`.
The Block lemmas at the end of `RtSchedProofs` say once what waiting, waking one thread, giving up and timing out do to it.

- *Semaphore* (`SemInv`): a take that still waits has `error = RT_EOK`, so that the code a woken take finds tells whether it was given the token;
  `TokensConserved` depends on it.
- *Mutex* (`MutexInv`): the same for the hand-over (`AnswerOK`: a woken take without an error is the owner already), together with
  value, owner, hold and list telling the same story (`OwnerOK`). On top of it stand `PrioInv` (a thread
  owns one live mutex at most and waits for no other, and the mutex remembers its own priority) and
  `InheritInv` (the waiters are in the order of their priorities, so that the first waiter, the next owner, is the most urgent one). `MutexPreemption` carries `NoMissedPreemption` through
  inheritance, where the taker that raises the owner is on its way to `rt_schedule`, and the hand-over, which ends in `rt_schedule`.
- *Mailbox* (`MbInv`): the offsets are `entry` places apart modulo the size (`RingOK`), and the two halves of `MbNoLostWakeup` count woken threads; a
  wakeup adds one for each mail or place, and a thread that gives up was not among them.
- *Queue* (`QueueInv`): `MbInv`, `PoolInv` and where every block is: free, in the mailbox once, or with one thread that fills or empties it.
  There are as many blocks as places, so no push finds the mailbox full. `DeinitOK` follows `bk_rtos_deinit_queue`: the mailbox
  goes before the pool, and whoever is still in a list is about to be resumed; hence `NobodyLeft`.

**Refinements.** `MbImplementsFifo`: a first call of `rt_mb_send_wait` is `PutAtOnce` or `Offer`, the store after a wait `Put`, a refusal `Drop`, a fetch `Get`; storing
appends to `Contents` and fetching takes its head, also where an offset wraps. `QueueImplementsFifo`: the message is offered when the push begins and
put when the mailbox has stored its block; a refused push drops it; a push from an interrupt handler is `PutAtOnce`; a pop gets it when the block is fetched; the two copies and the
free are stuttering. This needs that a queued block's content is whole and that nobody else writes to a block
until it is freed, which is again that every block is in one place.

**Timers.** `TimerInv` says nothing of ticks: what each of the two checks and each call may rely on between its sections, the flag against the
lists, and that the node the soft check keeps stays linked. It gives `TimerTypeOK`, `FlagOK` and `FireOnlyStarted`.
`WindowInv` adds the order: measured from `MaxLag` ticks ago, every timeout in use lies in a window of less than half the range, in
which the comparison modulo the range is the comparison of numbers; the clock does not move on past a linked timer
by more than `MaxLag`. It gives `ListsOrdered` and `HardInTime`. `LostOnlyAtSuspend` stands apart: it needs only
that the state keeps its shape and its ticks in range (`ShapeInv`, `TicksInv`), and holds for any caller, threads more urgent than the timer thread and interrupt handlers included.

**Picture buffer.** `VideoInv` follows the hand-over of the pool between the handlers and the user and the phases of the shell; it gives `VideoTypeOK`,
`PictureStable` and `WildOnlyKnown` for all lengths. `PictureInv` adds what is in the pool: while a frame is gathered, its first full nodes in order, one
missing only where it had no room. It gives `PictureWhole`.

One thing in the models is there for the proofs: `InsertAll`, the insertion of all woken threads by the reset of a
mailbox, is a recursive function instead of a recursive operator.

## Not modelled

- Event set and message queue: variations of the waiting schemes already there; `VideoTransfer` has one event flag.
- `video_buffer.c`: it learns of the start of a frame from `add_pkt_header`, which `video_transfer.c` stores but never calls, and it does not call
  `tvideo_capture`; in this SDK `video_buffer_read_frame` waits for ever, so its other behaviour cannot be reached.
- Of the timers, the change between one-shot and periodic (`rt_timer_control`), which nothing in the SDK outside the kernel asks for; of the camera interface, the sensor's registers and the DMA ring
  behind the handlers; of `bk_rtos_init_queue`, failing allocations.
- Heap allocators, audio rings and mixer, buttons: left for later.
- Drivers, power save, Wi-Fi and vendored code (register I/O, binary libraries, third
  parties), dynamic modules and signals (not enabled in `rtconfig.h`).

## Plan

Done: list, scheduler with threads, mutex, semaphore, memory pool, mailbox, Beken queue, timers, picture buffer; the abstract FIFO and
its two refinements; theorems for every safety property and both refinements.

1. The event set, with a waiter's condition in its list, on the Block lemmas.
2. The audio rings, with the DMA engine as a second actor.
3. The heap (`memheap.c`), and with it the idle thread's free as a blocking step.

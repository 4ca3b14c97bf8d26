# Verification of the Ding Modbus Stack

TLA+ models of the Modbus stack in `src/Modbus` and of the cooperative operating
system in `src/OS/DING_OS` it runs on, TLC runs that check them on small instances,
and TLAPS proofs of the properties that matter most for every instance.

## 1. The system

A Modbus master or slave for RTU, ASCII and TCP. It is built in two ways:

* **DING OS build** (no threads). The user's `while` loop calls `DOS_Run` "as quickly
  as possible" and `DOS_Run1ms` once a millisecond (`d_os.c:20-34`). Components are
  *processes*: protothreads that a message activates. Only receive interrupts come
  between two statements of the main loop.
* **Preemptive build** (FreeRTOS, RT-Thread, uC/OS, Linux, Windows through `OSAL`).
  The same `DING_OS` code runs in three threads (process, message, task), and an API
  call of the master blocks on a semaphore until the response arrives.

| component | state it keeps | operations | talks to |
|---|---|---|---|
| main loop `d_os.c` | - | `DOS_Run`, `DOS_Run1ms` | processes, task queue, timers |
| processes `process.c` | `MyProcessList`, `PollRequested`, `NeedPoll` and state of each process | start, exit, poll, `Do_Poll` | task queue, timers |
| task queue `d_task.c` | `TaskElementList` and its pool | store, run one, run all, cancel, flush | handlers, heap |
| timers `message.c` | `TimerTick`, the hashed `MsgTimerTable`, each process's `TimerList`, pool | send (once, cyclic, instantly), resend, cancel, flush, `Msg_Run1ms` | task queue, heap |
| heap `d_mem.c` | block headers, `FreeHeader` | malloc, free | - |
| lists and pools | links, in-use flags | add, pop, remove, alloc, free | - |
| framing `mb_core.c`, interrupts `mb_bsp.c` | `RxBuf`, `RxData`, `TxBuf`, `T_Id` | byte received, line idle, packet received, transmit | `MB_OS_RxSignal` |
| master engine `mb_os.c` (DING OS) | protothread position, `txState`, `Tx_List` and pool, `TxData` | request, send, response, timeout, flush, init, exit | timers, polling, framing, application |
| master requests `mb_master.c` | `TxData`, `RespData`, `RespError` | one function per Modbus function, response parser | master engine |
| slave `mb_slave.c` | statistics, the application's data | dispatch, one handler per function | framing, application |
| blocking master, slave task `mb_os.c` (preemptive) | semaphore per channel, mailbox | wait, signal | OSAL |
| OSAL | semaphores, mailboxes, threads of each port | wait, signal, post, fetch | - |

The behaviours that are hard to get right or to test are listed under `hazards` in
`PROJECT.json`, each with its line and the properties that catch it; where the code does
go wrong and a property therefore excuses the case, the hazard names no property and its
note says which excuse it is. In short: a receive interrupt between two
statements of `Do_Poll`; TX_CHECK, response, timeout and poll messages meeting in one
queue in any order; pools that run out, with the result of the allocation ignored;
times compared modulo 2^32; the request buffer that every API call overwrites; an
answer that arrives late; bytes lost, damaged or made up within a frame; one receive
buffer under a mailbox of ten; shutting down and starting again in the middle of it
all; and, in the preemptive build, data that threads share without a lock.

What makes each component correct: the main loop never stops; no poll and no message
is lost or doubled; a timer fires in its millisecond, once, and never after it was
cancelled; arguments and blocks have one owner; requests are sent in order, one at a
time, each reported once, with its own response; a clean frame is acted on whatever
came before it; a slave answers the frames for it and no others, and its reply tells
what it wrote; a call of the master that returns without an error means that the slave
did what was asked.

## 2. Modules

| module | models | built from |
|---|---|---|
| `DosKernel` | operators for the timers and queue items of one process | `message.c`, `d_task.c` |
| `MasterTx` | the master engine of a DING OS build, main loop, line and application | `mb_os.c`, `mb_master.c`, part of `mb_core.c` |
| `TxService` | abstract: what the master engine promises | - |
| `ProcessPoll` | `Process_Poll` against `Do_Poll`, statement by statement, both builds | `process.c` |
| `MsgTimer` | the hashed timer table, its pool, cyclic timers, arguments, several processes, with the task queue | `message.c`, `d_task.c` |
| `TimerService` | abstract: messages come at their tick, in the order they were set | - |
| `DList` | what removing elements leaves of a list, for the two modules above | `DList.c` |
| `DMem` | the heap, one step per iteration of its loops | `d_mem.c` |
| `Slave` | every function of the slave, exceptions, broadcasts, statistics | `mb_slave.c`, `mb_slave_app.c` |
| `Framing` | a slave's serial channel byte by byte: interrupt, silence, check, reply | `mb_core.c`, `mb_bsp.c` |
| `Link` | a master and a slave of the preemptive build end to end; instantiates `Slave` | `mb_os.c`, `mb_master.c`, `mb_core.c`, `OSAL` |
| `DosKernelProofs`, `MasterTxProofs`, `ProcessPollProofs`, `DMemProofs`, `SlaveProofs`, `FramingProofs`, `LinkProofs`, `MsgTimerProofs` | theorems | |
| `MC...` | values of the constants for TLC | |

### MasterTx

One channel. The main loop is the variable `main`: `poll` (`Process_Run`), `task`
(`DTask_Run` of one item), `app` (the user's code and, in some turns, `Msg_Run1ms`).
Each of these runs to completion; a receive interrupt (`Receive`) comes between any
two. `Lc` is where the protothread `TxProcHandler` waits, `txState` is
`pch->txState`. Timers are `[id, left]` with `left = RemainTime()`, the task queue is
a sequence of message identifiers in which a cancelled item stays with
`SYS_MSG_NONE`. One action per branch of the handler: `TxSend`, `TxCheckInVain`,
`RespTimedOut`, `RespArrived`, `TaskDropped`. A request is a constant; two constants,
`SlaveAddr` and `Shape`, say what the code can tell about it: the address
(`TxData[0]`) and what a response is compared with. `air` holds the responses on
their way, which may be lost or come at any time, with the transaction identifier
they carry. `MBM_APP_RespCallback` may issue a request (`Complete`).

Abstracted: the bytes of frames, the content of `RespData`, framing. `sent`, `lost`
and the field `cur` of a frame are history, no guard reads them.

### ProcessPoll

`Process_Poll` is three steps (set `NeedPoll`, set `PollRequested`, signal),
`Do_Poll` one step per statement that reads or writes the shared flags. The variable
`preemptive` is the build. If it is FALSE a caller is an interrupt: once it has begun
nothing else runs until it returns. If it is TRUE everything interleaves, the process thread
waits for the semaphore and a task thread empties the queue. `owed` is history: the
processes polled for which no message has been stored since.

### MsgTimer

`MsgTimerTable` and `TimerList` are the two lists a timer is in, `pool` says which
timers are in use, `TaskList` is the task queue and `item` the item in the hand of
`DTask_Run` while its handler runs; calls come from the main loop or from that
handler. `Msg_Run1ms` is the tick, one step per iteration of the loop (`FireOnce`,
`FireCyclic`) and its end. `TimerTick` and `match` wrap at `TickRange`. An argument is
a block of `heap`; the model follows who holds it and who frees it. `DTask_RunAll` is
`DTask_Run` repeated. `set` and `lost` are history: the order in which timers were put
into the table, from which the refinement mapping to `TimerService` is built, and
whether a message with an argument met a full task pool.

Abstracted: link pointers (lists are sequences), which of the free timers the pool
gives out, what handlers do beside their calls. One interleaving is missing: a tick
in another thread while `Msg_Send` runs (preemptive build).

### DMem

`TheHeap[a]` is what a program would read as a header at address `a`; where a block
was joined to another the old header is still there until the memory is cleared or
given another header. A call of `DMem_Malloc` is the steps `Enter` (reads
`FreeHeader`), `Lock`, `Search`, `Found` or `NotFound`, `UpdateFreeHeader`, `Return`.
`held` is history: what applications were given. `Blocks` and `Free` are computed
from `held` alone, so the properties compare the headers with what was handed out
rather than with themselves. Sizes are aligned already. With `Preemptive = FALSE` a
call ends before the next begins. The statistics of `MEM_DEBUG` are left out.

### Slave

One step is one call of `MBS_RxTask`: the frame in `RxData` is picked, the handler of
its function code runs on the tables of the application (`coil`, `reg`, `file`, and
two that no request changes), and `reply` is what is sent or `NoReply`. Every handler
ends in `Ignore` (it returns false), `Refuse` (`MBS_ErrRespSet`) or `Answer`, and
`Conclude` is the end of `MBS_RTU_Task`, where a missing reply is counted. The order of
the checks in each handler is the order of the `IF`s in `ReadError`, `CoilsError`,
`RegsError`, `FileError`. A frame is a record of what the handlers read, so that one
that is too short, has a wrong byte count or carries too little data can be stated.
`answered` and `silentClear` are history, for the statistics.

Kept as the code has it: a multiple register write puts every value into the first
register; a function that is not supported is answered even if it was broadcast;
`data_ix` is a byte; a broadcast that clears the counters is then counted as unanswered.
Abstracted: bytes and bits of a coil reply (a reply holds the values), the file number.
Assumed (`DataAssumption`): the data that a handler takes from `RxData` is in the
frame; for a write of file records the code does not check that it is.

### Framing

The bytes of a frame are pairs of the frame and the place, so that a frame that lost a
byte, has one too many or is made of two is seen to be one. `RxBuf` is the buffer of the
interrupt, `RxData` what was copied from it, `timer` the timer that each byte of an RTU
frame restarts (TIM17), `rdr` the one byte that the UART holds while reception is
disabled, `receiving` the pair of interrupt enables that `MB_UART_TxStart` and
`MB_UART_TxByte` switch. `Check` and `Act` are the two reads of `RxData` by
`MBS_RxTask`: for the sum, and by the handler; an interrupt may come between them.
The line is an actor of its own: `SendByte` is what an orderly master does; losing,
damaging and making up bytes, pausing within a frame (`Silence`) and starting before
the slave has answered (`Start`) are faults, of which there are at most `MaxFaults`.
`clean`, `due`, `overlapped` and `checked` are history: which frame was sent to a quiet
channel and arrived whole, and whether a second frame was completed while the first was
being served.

Abstracted: the sums (they are taken to reveal whatever is not a whole frame), what is
in a reply, the flag that says a transmission is complete, which is set after reset.

### Link

The calling thread is `master`: it sends (`MBM_Request`), sleeps on the semaphore until
it is given or the time is over (`Woken`, `TimedOut`) and compares (`MBM_ParseResp`, one
operator per `.._Resp` function). At the slave, `SlaveReceives` and `Post` are the two
halves of the receiver; `Fetch`, `Serve` and `SendReply` are the loop of `Slave_Task`.
`Serve` runs the handler on `RxData` (`MBS_RxTask` of the instance `Sl` of module
`Slave`); `SendReply` is `MB_TCP_Tx`, which reads `T_Id` only then (`mb_core.c:376`), so
that a frame may arrive in between and its identifier goes out with the reply to the
last one. `answering` is the call whose reply is in `TxData`. `port` is the port of the
OSAL and decides what differs from port to port:

* `SemTrue`, `MboxTrue`: on Linux and Windows `os_sem_wait` returns true for a timeout
  and `os_mbox_fetch` true for a failure;
* `PostWaits`: FreeRTOS (from an interrupt), RT-Thread and uC/OS never wait in
  `os_mbox_post`;
* `TimedOut`: on Linux, Windows and uC/OS a token that comes as the time is over stays
  in the semaphore. On uC/OS it also turns the timeout into a success, since `sem_err`
  is one static variable that `os_sem_signal` writes too;
* `FetchFails`: likewise on uC/OS a post to a full mailbox writes the `mbox_err` that
  `os_mbox_fetch` is about to test, and the frame that it has fetched is dropped.

The line loses frames, delays them as long as it likes and damages responses on a
serial line. `call`, `result`, `late`, `fresh`, `overrun`, `served`, `damaged`, the value
of `answering` and the field `call` of a frame are history.

Abstracted: the bytes, which is `Framing`'s part; a damaged request counts as lost,
since the slave drops it. One channel of a master and one of a slave; both directions
keep the order of frames. The receiver copies a frame to `RxData` in one step and the
handler reads it in one, so that a frame torn while the handler runs is not shown. A
static result of a wait is shared by all threads of a machine on RT-Thread
(`rt_thread/osal.c:13`); in `Link` one thread of each machine waits, which keeps its own
result.

## 3. Runs

| run | question | result |
|---|---|---|
| `MasterTx_safety` | TCP with 3 identifiers, 2 requests to 2 slaves that may overlap, flush and restart, pools of 2 packets, 3 items, 2 timers: all safety properties, `MasterTx` implements `TxService`, and if flushes stop every request accepted is sent and every one sent is reported | holds under `FairSpec` |
| `MasterTx_late` | a late TCP response against the next request | **violated**: it is accepted |
| `MasterTx_flush` | the main loop never stops | **violated**: `MBM_OS_TxFlush` does not return |
| `ProcessPoll` | both builds, 2 processes, 2 interrupts or threads that poll: no poll lost, the process thread does not sleep on a request, every poll answered | holds |
| `MsgTimer_table` | 3 timers in a table of 2 lists, ticks modulo 5, once and cyclic: the two lists agree, and `MsgTimer` implements `TimerService` | holds |
| `MsgTimer_args` | 2 processes with 2 messages each and an argument: cancel, resend and exit take what they name and no more, the argument has one holder, is freed once, and leaks only when the task pool was full; refinement again | holds |
| `DMem_calls` | a heap of 10 units, requests of 1, 2 and 4 in any order, releases in any order | holds |
| `DMem_threads` | two threads | **violated**: `FreeHeader` ends at a block in use |
| `Slave` | 37 frames for all functions, right, malformed, out of range, broadcast, damaged, for another node, in any order, over tables of four sizes | holds |
| `Slave_registers` | a write of two registers that is answered normally | **violated**: only the first is written, with the second value |
| `Link` | six applications, each with two or three requests to a slave, ports `ucos` and `linux`, RTU and TCP, three calls, a mailbox of one, one damaged response | holds |
| `Framing` | RTU and ASCII, three requests of two lengths, two faults | holds |

Bounds. Two requests and two slaves are enough for a request to be overtaken, to be
flushed from behind another and to be mistaken for another. Delays of 2 and 3 ticks
let TX_CHECK and TX_RESP_TIMEOUT come due in the same tick and in either order. One
response under way (`MaxAir`) can be late for its transaction; with three identifiers
it cannot be taken for a newer one by wrap-around alone. Pools of 2 and 3 never run
out for one channel here (`PoolsSuffice`); that they do not run out at the sizes of
`d_os.h`, and what holds when they do, is proved (section 4).
`MaxPending` bounds the count of a semaphore that the code never bounds: a call begins
only below it, and calls that began together still reach one more.

In `MsgTimer` two lists of the table and ticks modulo 5 put timers of different
`TimeMatch` into one list and let their order turn over at the wrap; 5 is no multiple
of 2, as 2^32 is none of 13. Delays reach `TickRange - 1`, a cyclic timer and two
others fill the pool of three. Two timers and two items are enough for the argument to
be held twice and for the pool to be full. A heap of ten units with a header of one and
requests of 1, 2 and 4 gives blocks that are split and blocks too small to split, and
up to five at once, so that a block is released between two free ones, two held ones
and one of each.

In `Slave` a byte holds two coils and an index of a byte ends at 9, so that five coils
reach the byte where `data_ix` wraps; the counters wrap at 2. In `Link` three calls are
the least in which a response that came too late for the first call leaves a token that
the second takes and that reaches into the third; a mailbox of one is full as the second
frame comes, and a second request arrives between `Serve` and `SendReply`; a byte of
points ends at 3. The ports `ucos` and `linux` have between them every outcome of
waiting and posting that the ports have. In `Framing` the buffer is one byte (RTU)
longer than the short frame and is exceeded by the long one (ASCII) or by what merges
(RTU); two faults suffice to leave bytes behind and to spoil what comes after, and a
third frame shows that the channel recovers. No run uses `SYMMETRY`.

Fairness. `d_os.c:28-30` asks the user to call `DOS_Run` as quickly as possible and
`d_os.c:22` to call `DOS_Run1ms` every millisecond: weak fairness of `Process_Run` and
`DTask_Run`, strong fairness of `Msg_Run1ms`, since turns without a tick come between.
In `ProcessPoll` interrupts return and threads are scheduled (weak fairness of the
callers); the loop is strongly fair because interrupts disable it for a moment again
and again. A call of `DMem_Malloc` that has begun goes on (weak fairness for each
caller). In `Link` the threads run: the master's is woken by the semaphore or by the
clock of the system, the slave's by its mailbox, the receiver's when there is room. In
`Framing` a frame that was begun ends, the timer runs, and the interrupt and the slave
run. Nothing is assumed of the line or of the application.

Findings. The four violated runs are the findings of `PROJECT.json`; each quotes the
line of the documentation it contradicts. Met while modelling and kept in the models,
without a run of their own:

* an application that issues a request before the response to the last one has come
  has the response compared with the new request, because `TxData` is both
  (`overlapped` in `MasterTx`);
* a response that comes after its timeout leaves a token in the semaphore of its
  channel; the next call returns at once and parses the old frame, though
  `src/README.md:15` says that the call sleeps until it gets the response or timeout
  (`fresh` in `Link`);
* the ports of the OSAL do not agree on what `os_sem_wait` and `os_mbox_fetch` return
  (`SemTrue`, `MboxTrue`): with Linux and Windows a response is reported as a timeout
  and the slave never serves a frame;
* the master does not compare `RxCRC` with the sum of a response (`Damage`);
* a function that is not supported is answered by every slave when it is broadcast;
* the coils beyond the 1992nd of a multiple write are taken from the wrong byte;
* of two frames that arrive before the slave has read the first, the second is run
  twice and the first never (`overrun`);
* a request that arrives before a TCP slave has sent its reply to the last one, which
  takes a call that timed out, gives that reply its own identifier: the master takes it
  for the answer to the new call, which returns `NONE` (`overrun` in
  `NoneMeansAnswered`);
* on uC/OS a timeout is reported as success, and a fetched frame dropped, when the other
  side writes the static error variable in between (`TimedOut`, `FetchFails`).

Seen and not modelled: `MBM_ReadReg_Resp` copies two bytes for each byte of the
response (`mb_master.c:575`); `MB_ASCII_Tx` writes past `TxBuf` for more than 127 bytes
of data; the slave's thread is created before its mailbox (`mb_os.c:243`); the
timeout of an RTU frame is cut to 16 bits (`mb_bsp.c:28`); the count of a file
request is not compared with the size of the frame; a delay over the wrap of the tick
counter is one short (`SysTick.c:53`); on uC/OS a wait shorter than a tick is rounded to
0, which waits for ever, and a signal of any other semaphore makes a success of a
timeout (`ucos/osal.c:130-134`).

## 4. Proofs

For all values of the constants that satisfy the assumption each module states
(`KernelAssumption`, `MasterAssumption`, `PollAssumption`, `MemAssumption`,
`SlaveAssumption`, `DataAssumption`, `FramingAssumption`, `LinkAssumption`,
`RequestAssumption`, `TimerAssumption`; each as weak as the code
justifies: pools are not empty, delays are positive, counters have a width;
`NullAssumption` of `MsgTimer` says that the value for a free timer is no timer).

* `DosKernelProofs` holds the lemmas on the operators: what cancelling, starting a
  timer, storing and a tick do to `Pending` and `AtMostOnce`.
* `MasterTxProofs`: `Invariance` proves `Spec => []IInv`. No single property is
  inductive: that a timeout does not outlive its transaction needs that it is on its
  way at most once (`SingleShot`) and that the two variables that say whether a
  response is awaited agree (`StatesAgree`); that the wake-up is not lost needs that
  due timers have left the table (`KernelSound`); restarts need that a process that
  exited left nothing (`NothingLeft`). One lemma per action; the theorems
  `TypeCorrect`, `NoLostWakeup`, `TimeoutAlwaysPending`, `NoTimeoutLeft`,
  `MessagesSingle`, `NoPacketLeak` follow. `CallbackCorrect` and `ResponseNotRejected`
  claim nothing once the application has overlapped requests (`overlapped`) and have an
  invariant of their own. `ServiceImplemented` proves
  `Spec => Service!Spec`, step by step, from `IInv`.
  `PoolsAlwaysSuffice` is an argument about time. `Load` weighs what the task queue
  holds and what may still come into it: items, the poll that is asked for, responses
  on their way, and TX_CHECK and the timeout while they run, each once. Every step pays
  for what it adds with something it takes, except that TX_CHECK comes again every
  `TxCheckDelay` ticks; but a turn of the main loop with a tick in it also runs one item,
  so that a queue that is long has been worked on for as long as TX_CHECK was delayed
  (`LoadBounded`, by `NoHeavier`, `Lighter` and `TurnOver`). Its hypothesis
  `PoolsAssumption` is that there are two timers, `MaxAir + 5` items and a delay of
  three ticks; `d_os.h:43-47` has 100 and 100, and `TX_CHECK` is delayed by 10.
* `ProcessPollProofs`: `PollInvariance` from `IInv` of `ProcessPoll`, hence
  `PollNeverLost` and `ThreadNeverSleepsOnRequest`, for any number of processes and
  callers.
* `DMemProofs`: for callers that run one after the other, on a heap of any size whose
  lengths fit their bits (`HeapFits`: `MEM_HEAP` below 2^15 and no request that
  overflows 16 bits when the header is added), `HeapInvariance` proves
  `Spec => []IInv`. `HeapTiled` alone is not inductive: a call in progress must know
  that its `hdr` is a block and that nothing free before it fits (`CallKnows`), and
  release needs that every block follows another (`EachFollows`). Taking a block is
  one lemma for the split and one for the whole block; releasing one is the lemma
  `Join`, applied to the block and the next, then to the one before and the block.
  `HeapStaysTiled`, `BlocksDisjoint`, `LowestFreeKnown`, `NoFalseFailure` and
  `HeapTypeCorrect` follow. The hypotheses are needed: `DMem_threads` shows what
  threads do, and with `MEM_HEAP = LenRange`, which the guard of `d_os.h:29` lets
  through, the first block has length 0 and no call returns.
* `SlaveProofs`: each handler is a case of one shape (`StepShape`): it keeps or writes
  the tables and `Conclude`s. `Invariance` is inductive for `TypeOK`,
  `ReplyAccounting` and `OnlyOwnFramesAnswered` together. The arithmetic is in
  `BytesEnough` and `CoilsEnough`: that the byte count that was checked covers every
  coil that is read, and that the index stays below the wrap. `RepliesTell` and
  `FileWritesArePrefixes` are action properties, proved handler by handler from
  `TypeOK`.
* `FramingProofs`: `Inv == TypeOK /\ OnLine /\ GatheredIsTimed /\ OneAtATime /\ Awaited
  /\ InFlight`. That the
  slave acts on what it checked needs that, as long as no second frame was completed
  too soon, at most one signal is pending and none while a reply is being sent
  (`OneAtATime`). Bytes reach the receiver in five actions; what a byte may do is
  stated once (`RxByteType`, `RxByteSteps`). `CleanServed` follows a clean frame from
  the line to the slave: while it is being sent `RxBuf` holds what has come of it,
  whatever was gathered before (`InFlight`, by `Gathered` for each byte), and from its
  last byte on it is in `RxBuf` and timed, or in `RxData` and signalled or found sound,
  until it has been acted on (`Awaited`, by `Completed` and `AwaitedStep`).
* `LinkProofs`: `Inv` says where the frames of a call can be. Requests arrive in the
  order in which they were sent and are run after they arrived (`Order`), a response
  is one to a request that was run (`Answers`), the reply in `TxData` too (`Preparing`),
  identifiers name calls (`Identified`), those of replies as long as none was sent after
  the next request had come (`overrun`), and as long as no call has given up frames, mailbox and tokens together are one at
  most and belong to the call that waits (`OneUnderWay`). With identifiers and an empty
  semaphore at the start the last is not needed, but only as long as nothing overran: a
  token given during the call is then its own (`OwnToken`). One lemma per action; `AnsweredIfNone`, `RunOnce` and
  `OneAtATime` follow, for every application, port of the OSAL, size of the mailbox
  and number of calls. For these nothing of `Slave` is used.
  `DataInv` adds what is in the frames. Module `SlaveProofs`, instantiated as `Slave` is
  in `Link`, shows of each handler that its reply has the address and function of the
  request or the flag of an exception, a body of the form that the master compares, and
  that the tables are then as the reply says (`EveryReplyAnswers`). How frames move is
  stated once for all actions (`EveryStepMoves`); from it, a frame of the call carries
  its request (`OwnFrames`), what comes back undamaged is a reply to it (`OwnReplies`),
  and stays true until the next call, since as long as no call has given up nothing
  else can reach the slave (`StillTold`: `NoOverrun`, `NothingBackYet`). Runs of a
  request are paid for by calls (`TollPaid`), which bounds `served`. That the bytes of
  `nbr_points` modulo 2^8 differ from those of the whole number as soon as points are
  dropped is `CountedBytes`; of registers, whose bytes are themselves counted modulo
  2^8, they do not (`RemainderOfTwice`). `TypeCorrect`, `CallsDoneAsTold` and
  `ErrorsTellExceptions` follow. `RequestAssumption` says that requests are those of the
  functions of `mb_master.c` and that a byte holds fewer coils than a byte can count.
* `MsgTimerProofs`: that the table is hashed and sorted is a matter of efficiency, that
  it delivers what a plain set of timers would is the theorem `TimersImplemented`,
  `Spec => Service!Spec`. `Inv` is what it rests on: every timer in use is once in the
  table, at the index of its `TimeMatch`, once in the list of its process and once
  among those that were set (`Hashed`, `Listing`); each list of the table has the
  timers with the fewest ticks left first and, of those with as many, the one that was
  set first (`Sorted`); and nothing is due outside the loop of `Msg_Run1ms`
  (`NoneDue`). `Sorted` speaks of the ticks left and not of `TimeMatch`, whose order
  turns over at the wrap; that a tick keeps it needs `NoneDue`, since the ticks left of
  a timer that is due would become the longest of all (`TickFacts`, `WrapOnce`). When
  the head of the list at `TimerTick` is not due nothing is (`HeadFirst`), so that the
  loop may end there, and when it is due it is the first that was set of all that are
  (`FirstDue`). What is inserted and removed is followed through `InsertHashed` and
  `CancelHashed`, over lemmas on lists (`OnlyFacts`, `InsertFacts`, `HeadFacts`).
  `TimerListsAgree` follows from `Inv`. `ArgumentsHeldOnce` needs that the arguments of
  timers, queue and handler differ and are allocated (`HeldOnce`) and that all that are
  allocated are among them (`Kept`); its hypothesis is that cyclic timers carry none:
  a cyclic timer hands the same argument to every message (`message.c:101`), and the
  first handler that returns frees it.

Only model-checked: liveness (`EventuallyServed`, `PollAnswered`, `MallocReturns`,
`QuietAgain`, `NobodySleepsForEver`), which is out of the prover's reach, and of course
the violated properties. Every other property of the runs has a theorem.

## 5. Plan

Done: all modules of section 2 and the theorems of section 4. Left, in this order:

1. `MsgTimer` and the task queue in the preemptive build: a tick between the
   computation of `TimeMatch` and the insertion; the walks without `TaskListSem`; the
   walk of `Do_Poll` against a process that exits.
2. `Link` with several channels at one mailbox, and with `MB_OS_Exit`.
3. `SysTick`: delays over the wrap.

## 6. Not modelled

The example application and the stub board of the tests, register accesses, the unit
tests, `SysTick`, and the vendored FreeRTOS, RT-Thread and uC/OS kernels: they are nine
tenths of the lines of the repository, copied unchanged, and what the stack needs of
them is what `OSAL` promises, which `Link` and `ProcessPoll` state. The implementations
of the OSAL primitives, the walks of lists without a lock in the preemptive build, and
the destruction of semaphores and threads under their users (`MB_OS_Exit` of the
preemptive build) are left out. Statistics of the heap and debugging code are left out:
nothing in the stack reads them.

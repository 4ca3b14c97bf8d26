------------------------------ MODULE MasterTx ------------------------------
(***************************************************************************)
(* The master of a DING OS (non preemptive) build: one channel's           *)
(* TxProcHandler with its list of packets, its timers, its items of the    *)
(* task queue and its poll flag, the main loop that runs them, the receive *)
(* interrupt, and the application that issues requests.                    *)
(*                                                                         *)
(* Everything runs to completion in the main loop except the receive       *)
(* interrupt, which comes between any two of its parts (Process_Run, one   *)
(* message of DTask_Run, Msg_Run1ms, a call of the application).  Inside a *)
(* part only two things could tell the difference: Process_Poll against    *)
(* the scan of Do_Poll, which is module ProcessPoll, and a second frame    *)
(* that overwrites RxData while MBM_ParseResp reads it, which is left out. *)
(***************************************************************************)
EXTENDS DosKernel

CONSTANTS
  Req,            \* the requests the application issues
  NoReq,          \* TxData before the first request
  NoFrame,        \* RxData before the first frame
  Slave,          \* slave addresses
  SlaveAddr,      \* SlaveAddr[r]: the slave r is for, TxData[0]
  Shape,          \* Shape[r]: what a response to r is compared with
  MB_TX_MEM_NUM,  \* packets of the pool Tx_Mem
  TxCheckDelay,   \* delay of TX_CHECK, 10 ms in the code
  RespTimeout,    \* pch->RespTimeout in ms
  Mode,           \* pch->Mode, "TCP" or "SERIAL" (RTU, ASCII)
  TidNum,         \* number of transaction identifiers, 2^16 in the code
  MaxAir,         \* bound: responses under way at the same time
  Restart,        \* the application shuts the stack down and initialises it again
  FlushAddr       \* the slaves whose packets the application flushes

ASSUME MasterAssumption ==
  /\ SlaveAddr \in [Req -> Slave]
  /\ NoReq \notin Req
  /\ MB_TX_MEM_NUM \in Nat \ {0}
  /\ TxCheckDelay \in Nat \ {0}
  /\ RespTimeout \in Nat \ {0}
  /\ Mode \in {"TCP", "SERIAL"}
  /\ TidNum \in Nat \ {0}
  /\ MaxAir \in Nat \ {0}
  /\ Restart \in BOOLEAN
  /\ FlushAddr \subseteq Slave

(***************************************************************************)
(* A response: the request it answers, the transaction identifier it       *)
(* carries, and whether it answers the transaction that is outstanding     *)
(* (the last is not in the frame, it is kept to state properties).         *)
(***************************************************************************)
Frame == [req : Req, tid : 0 .. TidNum - 1, cur : BOOLEAN]

RespErrors == {"NONE", "TIME_OUT", "MISMATCH", "NOT_PREEMPTIVE_OS"}

VARIABLES
  main,           \* where the main loop is
  running,        \* TxProc.State = PROCESS_STATE_RUNNING
  Lc,             \* where TxProcHandler waits: "TxIdle" or "TxWaitingForResp"
  txState,        \* pch->txState
  Tx_List,        \* the packets that wait to be sent
  Tx_Mem,         \* number of free packets
  timers,         \* timers of TxProc
  TaskList,       \* items of TxProc in the task queue
  NeedPoll,       \* TxProc.NeedPoll
  PollRequested,
  TxData,         \* pch->TxData
  RxData,         \* pch->RxData
  RespError,      \* pch->RespError
  T_Id,           \* pch->T_Id
  air,            \* responses on their way to the master
  sent,           \* history: the request last put on the wire and outstanding
  overlapped,     \* history: a request has been issued since that one was sent
  lost            \* history: a full pool has made the kernel drop something

kernel  == <<timers, TaskList, NeedPoll, PollRequested, lost>>
packets == <<Tx_List, Tx_Mem>>
link    == <<RxData, T_Id, air>>
vars    == <<main, running, Lc, txState, Tx_List, Tx_Mem, timers, TaskList, NeedPoll,
             PollRequested, TxData, RxData, RespError, T_Id, air, sent,
             overlapped, lost>>

TypeOK ==
  /\ main \in {"poll", "task", "app", "hung"}
  /\ running \in BOOLEAN
  /\ Lc \in {"TxIdle", "TxWaitingForResp"}
  /\ txState \in {"IDLE", "WAITING_FOR_RESP"}
  /\ Tx_List \in Seq(Req)
  /\ Tx_Mem \in 0 .. MB_TX_MEM_NUM
  /\ timers \in SUBSET Timer
  /\ TaskList \in Seq(MsgId)
  /\ NeedPoll \in BOOLEAN
  /\ PollRequested \in BOOLEAN
  /\ TxData \in Req \cup {NoReq}
  /\ RxData \in Frame \cup {NoFrame}
  /\ RespError \in RespErrors
  /\ T_Id \in 0 .. TidNum - 1
  /\ air \in SUBSET Frame
  /\ sent \in Req \cup {NoReq}
  /\ overlapped \in BOOLEAN
  /\ lost \in BOOLEAN

(* MB_Init followed by the configuration of the channel as a master. *)
Init ==
  /\ main = "app"
  /\ running = TRUE
  /\ Lc = "TxIdle"
  /\ txState = "IDLE"
  /\ Tx_List = <<>>
  /\ Tx_Mem = MB_TX_MEM_NUM
  /\ timers = {}
  /\ TaskList = <<>>
  /\ NeedPoll = FALSE
  /\ PollRequested = FALSE
  /\ TxData = NoReq
  /\ RxData = NoFrame
  /\ RespError = "NONE"
  /\ T_Id = 0
  /\ air = {}
  /\ sent = NoReq
  /\ overlapped = FALSE
  /\ lost = FALSE

-----------------------------------------------------------------------------
(* What the actions are built from. *)

(* Mutant of ArmTxCheck: Msg_SendLater, which cancels nothing. *)
ArmTxCheck_SendLater(q) ==
  /\ TaskList' = q
  /\ timers' = IF running THEN StartTimer(timers, TX_CHECK, TxCheckDelay) ELSE timers
  /\ lost' = (lost \/ (running /\ StartFails(timers)))

(* Msg_ReSendLater(TxProc, TX_CHECK, NULL, 10) when the queue holds q. *)
ArmTxCheck(q) ==
  LET rest == CancelTimers(timers, TX_CHECK)
  IN /\ TaskList' = DTask_CancelMsg(q, TX_CHECK)
     /\ timers' = IF running THEN StartTimer(rest, TX_CHECK, TxCheckDelay) ELSE rest
     /\ lost' = (lost \/ (running /\ StartFails(rest)))

NoLongerCurrent(f) == IF f = NoFrame THEN f ELSE [f EXCEPT !.cur = FALSE]

(* The outstanding transaction is over: whatever arrives now is late. *)
EndTransaction ==
  /\ sent' = NoReq
  /\ overlapped' = FALSE
  /\ air' = {NoLongerCurrent(f) : f \in air}
  /\ RxData' = NoLongerCurrent(RxData)

(* MBM_ParseResp compares RxData with what TxData asks for. *)
MBM_ParseResp(tx, rx) ==
  IF tx # NoReq /\ rx # NoFrame /\ Shape[tx] = Shape[rx.req] THEN "NONE" ELSE "MISMATCH"

(* Mutant of Queued: the packet is taken without looking whether one is free. *)
Queued_Unchecked(r) == Tx_List' = Append(Tx_List, r) /\ Tx_Mem' = Tx_Mem - 1

(* Mutant of Queued: the packet goes to the head of the list, as List_Push does. *)
Queued_Front(r) ==
  IF Tx_Mem > 0
  THEN Tx_List' = <<r>> \o Tx_List /\ Tx_Mem' = Tx_Mem - 1
  ELSE UNCHANGED packets

(* MBM_OS_Tx: what becomes of the packets when r is issued; when none is *)
(* free the request is dropped without a word.                           *)
Queued(r) ==
  IF Tx_Mem > 0
  THEN Tx_List' = Append(Tx_List, r) /\ Tx_Mem' = Tx_Mem - 1
  ELSE UNCHANGED packets

-----------------------------------------------------------------------------
(* The application, between two turns of the main loop. *)

(***************************************************************************)
(* A call of MBM_ReadCoils, MBM_WriteSingleCoil...: the request is built   *)
(* in TxData and queued; MBM_OS_RxWait fails at once in this build and     *)
(* MBM_ParseResp stores that failure.                                      *)
(***************************************************************************)
MBM_Request(r) ==
  /\ main = "app"
  /\ TxData' = r
  /\ Queued(r)
  /\ IF Tx_Mem > 0 THEN ArmTxCheck(TaskList) ELSE UNCHANGED <<timers, TaskList, lost>>
  /\ RespError' = "NOT_PREEMPTIVE_OS"
  /\ overlapped' = (overlapped \/ sent # NoReq)
  /\ UNCHANGED <<main, running, Lc, txState, NeedPoll, PollRequested, link, sent>>

(***************************************************************************)
(* MBM_OS_TxFlush removes and frees the head if it is for slave a; nothing *)
(* more of the list, since the removal clears entry->next.  If the head is *)
(* for another slave and has a successor, entry never moves and the loop   *)
(* does not end.                                                           *)
(***************************************************************************)
HeadIsFor(a) == Tx_List # <<>> /\ SlaveAddr[Head(Tx_List)] = a

(* Mutant of MBM_TxFlush: the entry is removed and not freed. *)
MBM_TxFlush_Leak(a) ==
  /\ main = "app"
  /\ Tx_List' = IF HeadIsFor(a) THEN Tail(Tx_List) ELSE Tx_List
  /\ main' = IF Len(Tx_List) > 1 /\ ~ HeadIsFor(a) THEN "hung" ELSE "app"
  /\ UNCHANGED <<Tx_Mem, running, Lc, txState, kernel, TxData, link, RespError,
                 sent, overlapped>>

MBM_TxFlush(a) ==
  /\ main = "app"
  /\ IF HeadIsFor(a)
     THEN Tx_List' = Tail(Tx_List) /\ Tx_Mem' = Tx_Mem + 1
     ELSE UNCHANGED packets
  /\ main' = IF Len(Tx_List) > 1 /\ ~ HeadIsFor(a) THEN "hung" ELSE "app"
  /\ UNCHANGED <<running, Lc, txState, kernel, TxData, link, RespError,
                 sent, overlapped>>

(* The loop of MBM_OS_TxFlush that does not end. *)
MBM_TxFlush_Loop == main = "hung" /\ UNCHANGED vars

(* MB_OS_Exit: packets forgotten, Process_Exit of TxProc with Msg_Flush. *)
MB_Exit ==
  /\ main = "app"
  /\ Restart
  /\ running
  /\ running' = FALSE
  /\ Tx_List' = <<>>
  /\ Tx_Mem' = MB_TX_MEM_NUM
  /\ timers' = {}
  /\ TaskList' = DTask_FlushMsg(TaskList)
  /\ EndTransaction
  /\ UNCHANGED <<main, Lc, txState, NeedPoll, PollRequested, TxData, RespError, T_Id, lost>>

(* MB_Init and the configuration, after MB_Exit. NeedPoll keeps its value. *)
MB_Init ==
  /\ main = "app"
  /\ ~ running
  /\ running' = TRUE
  /\ Lc' = "TxIdle"
  /\ txState' = "IDLE"
  /\ Tx_List' = <<>>
  /\ Tx_Mem' = MB_TX_MEM_NUM
  /\ timers' = {}
  /\ TxData' = NoReq
  /\ RxData' = NoFrame
  /\ RespError' = "NONE"
  /\ T_Id' = 0
  /\ UNCHANGED <<main, TaskList, NeedPoll, PollRequested, air, sent, overlapped, lost>>

-----------------------------------------------------------------------------
(* The main loop: DOS_Run is Process_Run and DTask_Run; DOS_Run1ms comes  *)
(* in the turns in which a millisecond has passed.                        *)

(* Process_Run with Do_Poll; TxProc is in MyProcessList while it runs. *)
Process_Run ==
  /\ main = "poll"
  /\ main' = "task"
  /\ PollRequested' = FALSE
  /\ IF PollRequested /\ NeedPoll /\ running
     THEN /\ NeedPoll' = FALSE
          /\ TaskList' = DTask_Store(TaskList, <<SYS_MSG_POLL_PROCESS>>)
          /\ lost' = (lost \/ StoreFails(TaskList, <<SYS_MSG_POLL_PROCESS>>))
     ELSE UNCHANGED <<NeedPoll, TaskList, lost>>
  /\ UNCHANGED <<running, Lc, txState, packets, timers, TxData, link, RespError,
                 sent, overlapped>>

(* DTask_Run takes the oldest item and hands it to Process_HandleMsg. *)
Handles(m) ==
  /\ main = "task"
  /\ main' = "app"
  /\ TaskList # <<>>
  /\ Head(TaskList) = m

(* The messages the handler waits for, where it waits. *)
Awaited == IF Lc = "TxIdle" THEN {TX_CHECK} ELSE {TX_RESP_TIMEOUT, SYS_MSG_POLL_PROCESS}

TaskQueueEmpty ==
  /\ main = "task"
  /\ main' = "app"
  /\ TaskList = <<>>
  /\ UNCHANGED <<running, Lc, txState, packets, kernel, TxData, link, RespError,
                 sent, overlapped>>

(* A blanked item, a process that has exited, or a message the handler *)
(* does not wait for.                                                  *)
TaskDropped ==
  /\ \E m \in MsgId : Handles(m) /\ ~ (running /\ m \in Awaited)
  /\ TaskList' = Tail(TaskList)
  /\ UNCHANGED <<running, Lc, txState, packets, timers, NeedPoll, PollRequested, lost,
                 TxData, link, RespError, sent, overlapped>>

(* TX_CHECK with nothing to send, or (second case) while txState says that *)
(* a response is awaited.                                                  *)
TxCheckInVain ==
  /\ Handles(TX_CHECK)
  /\ running /\ Lc = "TxIdle"
  /\ txState # "IDLE" \/ Tx_List = <<>>
  /\ IF txState = "IDLE"
     THEN TaskList' = Tail(TaskList) /\ UNCHANGED <<timers, lost>>
     ELSE ArmTxCheck(Tail(TaskList))
  /\ UNCHANGED <<running, Lc, txState, packets, NeedPoll, PollRequested, TxData, link,
                 RespError, sent, overlapped>>

(* MBM_Tx: T_Id counts transactions over TCP. *)
NextTid == IF Mode = "TCP" THEN (T_Id + 1) % TidNum ELSE T_Id

(* Mutant of PacketCopied: TxData keeps the request issued last. *)
PacketCopied_Not(r) == UNCHANGED TxData

(* The bytes of the packet popped are copied to TxData. *)
PacketCopied(r) == TxData' = r

(* TX_CHECK: the head packet goes out and the response timer starts. *)
TxSend ==
  /\ Handles(TX_CHECK)
  /\ running /\ Lc = "TxIdle"
  /\ txState = "IDLE" /\ Tx_List # <<>>
  /\ LET r == Head(Tx_List) IN
       /\ PacketCopied(r)
       /\ sent' = r
       /\ overlapped' = FALSE
       /\ \/ air' = air
          \/ Cardinality(air) < MaxAir /\ air' = air \cup {[req |-> r, tid |-> NextTid, cur |-> TRUE]}
  /\ T_Id' = NextTid
  /\ Tx_List' = Tail(Tx_List)
  /\ Tx_Mem' = Tx_Mem + 1
  /\ TaskList' = Tail(TaskList)
  /\ timers' = StartTimer(timers, TX_RESP_TIMEOUT, RespTimeout)
  /\ lost' = (lost \/ StartFails(timers))
  /\ txState' = "WAITING_FOR_RESP"
  /\ Lc' = "TxWaitingForResp"
  /\ UNCHANGED <<running, NeedPoll, PollRequested, RxData, RespError>>

(* Mutant of Rearm: the list is not looked at again. *)
Rearm_Never(q, kept, nonempty) == TaskList' = q /\ timers' = kept /\ UNCHANGED lost

(***************************************************************************)
(* The end of the handler's turn when a response or the timeout has come:  *)
(* RespError is err when MBM_APP_RespCallback runs; the callback may issue *)
(* a request; a list that is not empty gets its TX_CHECK.                  *)
(* kept is the set of timers and q the task queue at that point.           *)
(***************************************************************************)
Rearm(q, kept, nonempty) ==
  IF nonempty
  THEN LET rest == CancelTimers(kept, TX_CHECK) IN
       /\ TaskList' = DTask_CancelMsg(q, TX_CHECK)
       /\ timers' = StartTimer(rest, TX_CHECK, TxCheckDelay)
       /\ lost' = (lost \/ StartFails(rest))
  ELSE TaskList' = q /\ timers' = kept /\ UNCHANGED lost

Complete(err, q, kept) ==
  /\ \/ /\ RespError' = err
        /\ UNCHANGED <<TxData, packets>>
     \/ \E r \in Req :
          /\ TxData' = r
          /\ Queued(r)
          /\ RespError' = "NOT_PREEMPTIVE_OS"
  /\ Rearm(q, kept, Tx_List' # <<>>)
  /\ EndTransaction
  /\ txState' = "IDLE"
  /\ Lc' = "TxIdle"
  /\ UNCHANGED <<running, NeedPoll, PollRequested, T_Id>>

RespTimedOut ==
  /\ Handles(TX_RESP_TIMEOUT)
  /\ running /\ Lc = "TxWaitingForResp"
  /\ Complete("TIME_OUT", Tail(TaskList), timers)

(* Msg_Cancel takes the response timer away, in the table and in the queue. *)
RespArrived ==
  /\ Handles(SYS_MSG_POLL_PROCESS)
  /\ running /\ Lc = "TxWaitingForResp"
  /\ Complete(MBM_ParseResp(TxData, RxData),
              DTask_CancelMsg(Tail(TaskList), TX_RESP_TIMEOUT),
              CancelTimers(timers, TX_RESP_TIMEOUT))

DTask_Run ==
  \/ TaskQueueEmpty
  \/ TaskDropped
  \/ TxCheckInVain
  \/ TxSend
  \/ RespTimedOut
  \/ RespArrived

(* A turn of the main loop without a millisecond, and one with Msg_Run1ms: *)
(* the timers that reach their TimeMatch go to the task queue.             *)
NoTick ==
  /\ main = "app"
  /\ main' = "poll"
  /\ UNCHANGED <<running, Lc, txState, packets, kernel, TxData, link, RespError,
                 sent, overlapped>>

Msg_Run1ms ==
  /\ main = "app"
  /\ main' = "poll"
  /\ timers' = {t \in Aged(timers) : t.left # 0}
  /\ \E s \in Orders(Due(Aged(timers))) :
       /\ TaskList' = DTask_Store(TaskList, s)
       /\ lost' = (lost \/ StoreFails(TaskList, s))
  /\ UNCHANGED <<running, Lc, txState, packets, NeedPoll, PollRequested, TxData, link,
                 RespError, sent, overlapped>>

-----------------------------------------------------------------------------
(* The line. *)

(* MB_OS_RxSignal, through Process_Poll. *)
RxSignal ==
  /\ NeedPoll' = (NeedPoll \/ running)
  /\ PollRequested' = (PollRequested \/ running)

(* A complete frame: RTU_RxVerify, ASCII_RxVerify or TCP_Rxhandle has      *)
(* copied it to RxData. Over TCP a frame whose identifier is not T_Id is   *)
(* ignored.                                                                *)
Receive(f) ==
  /\ air' = air \ {f}
  /\ IF Mode = "TCP" /\ f.tid # T_Id
     THEN UNCHANGED <<RxData, NeedPoll, PollRequested>>
     ELSE RxData' = f /\ RxSignal
  /\ UNCHANGED <<main, running, Lc, txState, packets, timers, TaskList, lost, TxData,
                 RespError, T_Id, sent, overlapped>>

Lose(f) ==
  /\ air' = air \ {f}
  /\ UNCHANGED <<main, running, Lc, txState, packets, kernel, TxData, RxData, RespError,
                 T_Id, sent, overlapped>>

-----------------------------------------------------------------------------
Application ==
  \/ \E r \in Req : MBM_Request(r)
  \/ \E a \in FlushAddr : MBM_TxFlush(a)
  \/ MBM_TxFlush_Loop
  \/ MB_Exit
  \/ MB_Init

MainLoop == Process_Run \/ DTask_Run \/ NoTick \/ Msg_Run1ms

Line == \E f \in air : Receive(f) \/ Lose(f)

Next == Application \/ MainLoop \/ Line

Spec == Init /\ [][Next]_vars

(***************************************************************************)
(* The main loop goes on (it calls DOS_Run as quickly as possible) and     *)
(* milliseconds keep passing, however often a turn comes without one.      *)
(***************************************************************************)
Fairness ==
  /\ WF_vars(Process_Run)
  /\ WF_vars(DTask_Run)
  /\ SF_vars(Msg_Run1ms)

FairSpec == Spec /\ Fairness
-----------------------------------------------------------------------------
(* Properties. *)

(* A message of TxProc is on its way. *)
Live(m) == Pending(timers, TaskList, m)

(***************************************************************************)
(* No lost wake-up: while packets wait and no response is awaited, a       *)
(* TX_CHECK is on its way, although TX_CHECKs are dropped while one is     *)
(* awaited and every request cancels the one before (mb_os.c, MBM_OS_Tx    *)
(* and the end of TxProcHandler).  Unless a pool was full.                 *)
(***************************************************************************)
WakeupPending ==
  ~ lost /\ running /\ Lc = "TxIdle" /\ Tx_List # <<>> => Live(TX_CHECK)

(***************************************************************************)
(* The handler never waits for a response without a timeout that is        *)
(* running or queued: nothing but the response cancels it.                 *)
(***************************************************************************)
TimeoutPending ==
  ~ lost /\ running /\ Lc = "TxWaitingForResp" => Live(TX_RESP_TIMEOUT)

(***************************************************************************)
(* No timeout outlives its transaction, in the timer table or in the task  *)
(* queue, so none can end the next transaction early (Msg_Cancel).         *)
(***************************************************************************)
NoStrayTimeout ==
  running /\ Lc = "TxIdle" => ~ Live(TX_RESP_TIMEOUT)

(***************************************************************************)
(* Each of the two timer messages is on its way at most once, as a timer   *)
(* or as an item of the queue, never as both.                              *)
(***************************************************************************)
SingleShot == \A m \in TimerId : AtMostOnce(timers, TaskList, m)

(* No packet is leaked or freed twice, over sends, flushes and restarts. *)
PacketsConserved == Tx_Mem + Len(Tx_List) = MB_TX_MEM_NUM

(* One channel never needs more of the pools than it has here. *)
PoolsSuffice == ~ lost

(***************************************************************************)
(* When the response is parsed and MBM_APP_RespCallback runs, TxData still *)
(* is the request that was sent: the application tells from it which       *)
(* request the response is for.  Unless it has issued another request      *)
(* since then: each one is built in TxData before it is queued.            *)
(***************************************************************************)
CallbackSeesItsRequest ==
  running /\ Lc = "TxWaitingForResp" /\ ~ overlapped => TxData = sent

(* The handler is about to parse RxData. *)
Parsing ==
  /\ main = "task" /\ running /\ Lc = "TxWaitingForResp"
  /\ TaskList # <<>> /\ Head(TaskList) = SYS_MSG_POLL_PROCESS

(* A response to the request that was sent is not rejected, again unless *)
(* another request was issued meanwhile.                                 *)
ResponseAccepted ==
  Parsing /\ RxData # NoFrame /\ RxData.cur /\ ~ overlapped => MBM_ParseResp(TxData, RxData) = "NONE"

(***************************************************************************)
(* A response to an earlier transaction, which ended with a timeout, is    *)
(* not taken for the response to the outstanding one.                      *)
(***************************************************************************)
LateResponseRejected ==
  Parsing /\ RxData # NoFrame /\ ~ RxData.cur => MBM_ParseResp(TxData, RxData) # "NONE"

(* The main loop never stops calling DOS_Run. *)
MainLoopTurns == []<>(main = "poll")

(***************************************************************************)
(* The inductive invariant: what the handler, its timers and its items of  *)
(* the task queue are to each other at every point of the main loop.       *)
(***************************************************************************)

(* The two places that say whether a response is awaited agree. *)
StatesAgree == running => (Lc = "TxIdle" <=> txState = "IDLE")

(* A process that has exited left nothing with the kernel. *)
NothingLeft ==
  ~ running => timers = {} /\ \A i \in 1 .. Len(TaskList) : TaskList[i] = SYS_MSG_NONE

(* A timer that is due has left the table, and the pool bounds the queue. *)
KernelSound ==
  /\ \A t \in timers : t.left # 0
  /\ Len(TaskList) <= TASK_ITEM_NUM

(* The request put on the wire is the one the handler waits for. *)
SentIsAwaited == (sent # NoReq) <=> (running /\ Lc = "TxWaitingForResp")

IInv ==
  /\ TypeOK
  /\ KernelSound
  /\ StatesAgree
  /\ NothingLeft
  /\ SentIsAwaited
  /\ SingleShot
  /\ WakeupPending
  /\ TimeoutPending
  /\ NoStrayTimeout
  /\ PacketsConserved

(***************************************************************************)
(* The engine implements the service of module TxService: requests are     *)
(* sent in order, one at a time, each ends in exactly one report.          *)
(***************************************************************************)
Service == INSTANCE TxService WITH
  queue <- IF running THEN Tx_List ELSE <<>>,
  busy <- sent

ImplementsService == Service!Spec

(* The application does not withdraw packets for ever. *)
FlushesStop == <>[][~ \E a \in FlushAddr : MBM_TxFlush(a)]_vars

(***************************************************************************)
(* ... and each accepted request is sent and each one sent is reported,    *)
(* whether its response is lost, late or never comes, unless the           *)
(* application withdraws it or shuts the stack down.  Two things are       *)
(* needed: the main loop turns, and flushes stop, since an application     *)
(* that issues a request and flushes another within every 10 ms moves      *)
(* TX_CHECK away each time and nothing is ever sent.                       *)
(***************************************************************************)
EventuallyServed == MainLoopTurns /\ FlushesStop => Service!Fairness
=============================================================================

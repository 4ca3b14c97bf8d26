---------------------------- MODULE MasterTxProofs ----------------------------
(***************************************************************************)
(* The safety of the master's transmit engine, for all requests, pools,    *)
(* delays and response times, and that it implements the service of        *)
(* module TxService.  The inductive invariant is IInv of module MasterTx.  *)
(***************************************************************************)
EXTENDS MasterTx, DosKernelProofs, FiniteSetTheorems

USE KernelAssumption, MasterAssumption
USE DEF TX_CHECK, TX_RESP_TIMEOUT, SYS_MSG_POLL_PROCESS, SYS_MSG_NONE

(* The initial states satisfy the invariant. *)
LEMMA InitIInv == Init => IInv
<1> SUFFICES ASSUME Init PROVE IInv
  OBVIOUS
<1>1. TypeOK
  <2>1. <<>> \in Seq(Req) /\ <<>> \in Seq(MsgId) /\ {} \in SUBSET Timer /\ {} \in SUBSET Frame
    OBVIOUS
  <2>2. MB_TX_MEM_NUM \in 0 .. MB_TX_MEM_NUM /\ 0 \in 0 .. TidNum - 1
    BY DEF MasterAssumption
  <2> QED BY <2>1, <2>2 DEF Init, TypeOK, RespErrors
<1>2. /\ KernelSound /\ StatesAgree /\ NothingLeft /\ SentIsAwaited
      /\ WakeupPending /\ TimeoutPending /\ PacketsConserved
  BY DEF Init, KernelSound, StatesAgree, NothingLeft, SentIsAwaited, WakeupPending,
         TimeoutPending, PacketsConserved, KernelAssumption, MasterAssumption
<1>3. SingleShot /\ NoStrayTimeout
  BY DEF Init, SingleShot, NoStrayTimeout, AtMostOnce, Live, Pending
<1> QED BY <1>1, <1>2, <1>3 DEF IInv

-----------------------------------------------------------------------------
(* What the actions are built from. *)

(* The part of the invariant that speaks of the handler and of the kernel *)
(* only, and the part that speaks of the packets.                         *)
KernelInv ==
  /\ timers \in SUBSET Timer
  /\ TaskList \in Seq(MsgId)
  /\ KernelSound
  /\ NothingLeft
  /\ SingleShot

PacketsInv ==
  /\ Tx_List \in Seq(Req)
  /\ Tx_Mem \in 0 .. MB_TX_MEM_NUM
  /\ PacketsConserved

(* Msg_ReSendLater of TX_CHECK: cancel, then start.  TX_CHECK is then on   *)
(* its way, once, and nothing changes for the response timer.              *)
LEMMA ReSendFacts ==
  ASSUME NEW T \in SUBSET Timer, \A t \in T : t.left # 0,
         NEW q \in Seq(MsgId), Len(q) <= TASK_ITEM_NUM,
         \A n \in TimerId : AtMostOnce(T, q, n)
  PROVE  LET rest == CancelTimers(T, TX_CHECK)
             T2 == StartTimer(rest, TX_CHECK, TxCheckDelay)
             q2 == DTask_CancelMsg(q, TX_CHECK) IN
         /\ T2 \in SUBSET Timer
         /\ \A t \in T2 : t.left # 0
         /\ q2 \in Seq(MsgId)
         /\ Len(q2) <= TASK_ITEM_NUM
         /\ \A n \in TimerId : AtMostOnce(T2, q2, n)
         /\ ~ StartFails(rest) => Pending(T2, q2, TX_CHECK)
         /\ Pending(T2, q2, TX_RESP_TIMEOUT) <=> Pending(T, q, TX_RESP_TIMEOUT)
<1> DEFINE rest == CancelTimers(T, TX_CHECK)
           T2 == StartTimer(rest, TX_CHECK, TxCheckDelay)
           q2 == DTask_CancelMsg(q, TX_CHECK)
<1>1. /\ TX_CHECK \in TimerId /\ TX_CHECK \in MsgId
      /\ TX_RESP_TIMEOUT \in TimerId \ {TX_CHECK}
      /\ TxCheckDelay \in Nat /\ TxCheckDelay # 0
  BY DEF TimerId, MsgId, MasterAssumption
<1>2. q2 \in Seq(MsgId) /\ Len(q2) = Len(q)
  BY <1>1, CancelMsgFacts
<1>3. /\ rest \in SUBSET Timer /\ rest \subseteq T
      /\ ~ Pending(rest, q2, TX_CHECK)
      /\ Pending(rest, q2, TX_RESP_TIMEOUT) <=> Pending(T, q, TX_RESP_TIMEOUT)
      /\ \A n \in TimerId : AtMostOnce(rest, q2, n)
  BY <1>1, CancelFacts
<1> HIDE DEF rest, q2
<1>4. /\ T2 \in SUBSET Timer
      /\ \A t \in T2 : t \in rest \/ t.left = TxCheckDelay
      /\ ~ StartFails(rest) => Pending(T2, q2, TX_CHECK)
      /\ Pending(T2, q2, TX_RESP_TIMEOUT) <=> Pending(rest, q2, TX_RESP_TIMEOUT)
      /\ \A n \in TimerId : AtMostOnce(T2, q2, n)
  BY <1>1, <1>2, <1>3, StartFacts
<1>5. \A t \in T2 : t.left # 0
  BY <1>1, <1>3, <1>4
<1> QED BY <1>2, <1>3, <1>4, <1>5 DEF rest, q2

(* A call that queues its packet, or finds none free, conserves packets. *)
LEMMA QueuedFacts ==
  ASSUME PacketsInv, NEW r \in Req, Queued(r)
  PROVE  /\ PacketsInv'
         /\ IF Tx_Mem > 0 THEN Tx_List' = Append(Tx_List, r) ELSE Tx_List' = Tx_List
BY DEF PacketsInv, PacketsConserved, Queued, packets, MasterAssumption

(* Popping the head conserves packets. *)
LEMMA PopFacts ==
  ASSUME PacketsInv, Tx_List # <<>>, Tx_List' = Tail(Tx_List), Tx_Mem' = Tx_Mem + 1
  PROVE  PacketsInv' /\ Head(Tx_List) \in Req
BY DEF PacketsInv, PacketsConserved, MasterAssumption

(* A response stays a response when its transaction ends. *)
LEMMA NoLongerCurrentFacts ==
  ASSUME NEW f \in Frame \cup {NoFrame}
  PROVE  /\ NoLongerCurrent(f) \in Frame \cup {NoFrame}
         /\ f \in Frame => NoLongerCurrent(f) \in Frame
BY DEF NoLongerCurrent, Frame

-----------------------------------------------------------------------------
(* Each action preserves the invariant: first the application's. *)

(* A request: its TX_CHECK replaces the one before. *)
LEMMA RequestStep ==
  ASSUME IInv, NEW r \in Req, MBM_Request(r)
  PROVE  IInv'
<1>1. PacketsInv /\ KernelInv
  BY DEF IInv, TypeOK, PacketsInv, KernelInv
<1>2. /\ PacketsInv'
      /\ IF Tx_Mem > 0 THEN Tx_List' = Append(Tx_List, r) ELSE Tx_List' = Tx_List
  BY <1>1, QueuedFacts DEF MBM_Request
<1>3. UNCHANGED <<main, running, Lc, txState, NeedPoll, PollRequested, RxData, T_Id, air, sent>>
  BY DEF MBM_Request, link
<1>4. TxData' = r /\ RespError' = "NOT_PREEMPTIVE_OS" /\ overlapped' \in BOOLEAN
  BY DEF MBM_Request, IInv, TypeOK
<1>5. /\ timers' \in SUBSET Timer /\ TaskList' \in Seq(MsgId) /\ lost' \in BOOLEAN
      /\ KernelSound' /\ NothingLeft' /\ SingleShot'
      /\ ~ lost' /\ running => ~ lost /\ (Tx_Mem > 0 => Live(TX_CHECK)')
      /\ running => (Live(TX_RESP_TIMEOUT)' <=> Live(TX_RESP_TIMEOUT))
      /\ ~ (Tx_Mem > 0) => Live(TX_CHECK)' = Live(TX_CHECK)
  <2>1. CASE Tx_Mem > 0
    <3> DEFINE rest == CancelTimers(timers, TX_CHECK)
               T2 == StartTimer(rest, TX_CHECK, TxCheckDelay)
               q2 == DTask_CancelMsg(TaskList, TX_CHECK)
    <3>1. /\ T2 \in SUBSET Timer
          /\ \A t \in T2 : t.left # 0
          /\ q2 \in Seq(MsgId)
          /\ Len(q2) <= TASK_ITEM_NUM
          /\ \A n \in TimerId : AtMostOnce(T2, q2, n)
          /\ ~ StartFails(rest) => Pending(T2, q2, TX_CHECK)
          /\ Pending(T2, q2, TX_RESP_TIMEOUT) <=> Pending(timers, TaskList, TX_RESP_TIMEOUT)
      BY <1>1, ReSendFacts DEF KernelInv, KernelSound, SingleShot
    <3>2. /\ TaskList' = q2
          /\ timers' = IF running THEN T2 ELSE rest
          /\ lost' = (lost \/ (running /\ StartFails(rest)))
      BY <2>1 DEF MBM_Request, ArmTxCheck
    <3>3. CASE running
      <4>1. timers' = T2
        BY <3>2, <3>3
      <4> HIDE DEF T2, q2, rest
      <4>2. KernelSound' /\ SingleShot' /\ NothingLeft'
        BY <1>3, <3>1, <3>2, <3>3, <4>1 DEF KernelSound, SingleShot, NothingLeft
      <4> QED BY <2>1, <3>1, <3>2, <3>3, <4>1, <4>2 DEF Live, IInv, TypeOK
    <3>4. CASE ~ running
      <4>1. timers = {} /\ \A i \in 1 .. Len(TaskList) : TaskList[i] = SYS_MSG_NONE
        BY <1>1, <3>4 DEF KernelInv, NothingLeft
      <4>2. rest = {}
        BY <4>1 DEF CancelTimers
      <4>3. /\ q2 \in Seq(MsgId) /\ Len(q2) = Len(TaskList)
            /\ \A i \in 1 .. Len(q2) : q2[i] = SYS_MSG_NONE
        BY <1>1, <4>1, CancelMsgFacts DEF KernelInv, MsgId, TimerId
      <4> HIDE DEF T2, q2, rest
      <4>4. timers' = {} /\ TaskList' = q2
        BY <3>2, <3>4, <4>2
      <4>5. KernelSound' /\ NothingLeft'
        BY <3>1, <4>3, <4>4 DEF KernelSound, NothingLeft
      <4>6. SingleShot'
        BY <4>3, <4>4 DEF SingleShot, AtMostOnce, TimerId
      <4> QED BY <2>1, <3>1, <3>2, <3>4, <4>4, <4>5, <4>6 DEF IInv, TypeOK
    <3> QED BY <3>3, <3>4
  <2>2. CASE ~ (Tx_Mem > 0)
    <3>1. UNCHANGED <<timers, TaskList, lost>>
      BY <2>2 DEF MBM_Request
    <3>2. KernelSound' /\ NothingLeft' /\ SingleShot'
      BY <1>1, <1>3, <3>1 DEF KernelInv, KernelSound, NothingLeft, SingleShot
    <3> QED BY <1>1, <2>2, <3>1, <3>2 DEF KernelInv, Live, IInv, TypeOK
  <2> QED BY <2>1, <2>2
<1>6. TypeOK'
  BY <1>2, <1>3, <1>4, <1>5 DEF IInv, TypeOK, PacketsInv, RespErrors
<1>7. StatesAgree' /\ SentIsAwaited' /\ PacketsConserved'
  BY <1>2, <1>3 DEF IInv, StatesAgree, SentIsAwaited, PacketsInv
<1>8. WakeupPending'
  BY <1>2, <1>3, <1>5 DEF IInv, WakeupPending
<1>9. TimeoutPending' /\ NoStrayTimeout'
  BY <1>3, <1>5 DEF IInv, TimeoutPending, NoStrayTimeout
<1> QED BY <1>5, <1>6, <1>7, <1>8, <1>9 DEF IInv

(* The packets of a slave withdrawn: the queue of messages is not touched. *)
LEMMA FlushStep ==
  ASSUME IInv, NEW a \in FlushAddr, MBM_TxFlush(a)
  PROVE  IInv'
<1>1. UNCHANGED <<running, Lc, txState, timers, TaskList, NeedPoll, PollRequested, lost, TxData,
                  RxData, T_Id, air, RespError, sent, overlapped>>
  BY DEF MBM_TxFlush, kernel, link
<1>2. main' \in {"app", "hung"}
  BY DEF MBM_TxFlush
<1>3. PacketsInv' /\ (Tx_List' # <<>> => Tx_List # <<>>)
  <2>1. PacketsInv
    BY DEF IInv, TypeOK, PacketsInv
  <2>2. CASE HeadIsFor(a)
    BY <2>1, <2>2, PopFacts DEF MBM_TxFlush, HeadIsFor
  <2>3. CASE ~ HeadIsFor(a)
    BY <2>1, <2>3 DEF MBM_TxFlush, packets, PacketsInv, PacketsConserved
  <2> QED BY <2>2, <2>3
<1>4. TypeOK'
  BY <1>1, <1>2, <1>3 DEF IInv, TypeOK, PacketsInv
<1>5. /\ KernelSound' /\ StatesAgree' /\ NothingLeft' /\ SentIsAwaited' /\ SingleShot'
      /\ TimeoutPending' /\ NoStrayTimeout'
  BY <1>1 DEF IInv, KernelSound, StatesAgree, NothingLeft, SentIsAwaited, SingleShot,
              TimeoutPending, NoStrayTimeout, Live
<1>6. WakeupPending' /\ PacketsConserved'
  BY <1>1, <1>3 DEF IInv, WakeupPending, Live, PacketsInv
<1> QED BY <1>4, <1>5, <1>6 DEF IInv

(* The end of a transaction only turns responses into late ones. *)
LEMMA EndTransactionFacts ==
  ASSUME TypeOK, EndTransaction
  PROVE  sent' = NoReq /\ overlapped' = FALSE /\ air' \in SUBSET Frame /\ RxData' \in Frame \cup {NoFrame}
BY NoLongerCurrentFacts DEF TypeOK, EndTransaction

(* MB_Exit leaves no timer and blanks what the queue holds. *)
LEMMA ExitStep ==
  ASSUME IInv, MB_Exit
  PROVE  IInv'
<1>1. /\ main' = main /\ running' = FALSE
      /\ Tx_List' = <<>> /\ Tx_Mem' = MB_TX_MEM_NUM
      /\ timers' = {} /\ TaskList' = DTask_FlushMsg(TaskList)
      /\ UNCHANGED <<Lc, txState, NeedPoll, PollRequested, TxData, RespError, T_Id, lost>>
  BY DEF MB_Exit
<1>2. sent' = NoReq /\ overlapped' = FALSE /\ air' \in SUBSET Frame /\ RxData' \in Frame \cup {NoFrame}
  BY EndTransactionFacts DEF MB_Exit, IInv
<1>3. /\ TaskList' \in Seq(MsgId) /\ Len(TaskList') = Len(TaskList)
      /\ \A i \in 1 .. Len(TaskList') : TaskList'[i] = SYS_MSG_NONE
  BY <1>1, FlushMsgFacts DEF IInv, TypeOK
<1>4. /\ MB_TX_MEM_NUM \in 0 .. MB_TX_MEM_NUM /\ MB_TX_MEM_NUM + 0 = MB_TX_MEM_NUM
      /\ <<>> \in Seq(Req) /\ {} \in SUBSET Timer
  BY DEF MasterAssumption
<1>5. TypeOK'
  BY <1>1, <1>2, <1>3, <1>4 DEF IInv, TypeOK
<1>6. KernelSound' /\ NothingLeft'
  BY <1>1, <1>3 DEF IInv, KernelSound, NothingLeft
<1>7. SingleShot'
  BY <1>1, <1>3 DEF SingleShot, AtMostOnce, TimerId
<1>8. StatesAgree' /\ SentIsAwaited' /\ WakeupPending' /\ TimeoutPending' /\ NoStrayTimeout'
  BY <1>1, <1>2 DEF StatesAgree, SentIsAwaited, WakeupPending, TimeoutPending, NoStrayTimeout
<1>9. PacketsConserved'
  BY <1>1, <1>4 DEF PacketsConserved
<1> QED BY <1>5, <1>6, <1>7, <1>8, <1>9 DEF IInv

(* MB_Init starts from what MB_Exit has left. *)
LEMMA InitStep ==
  ASSUME IInv, MB_Init
  PROVE  IInv'
<1>1. /\ ~ running /\ main' = main /\ running' = TRUE
      /\ Lc' = "TxIdle" /\ txState' = "IDLE"
      /\ Tx_List' = <<>> /\ Tx_Mem' = MB_TX_MEM_NUM
      /\ timers' = {} /\ TaskList' = TaskList
      /\ TxData' = NoReq /\ RxData' = NoFrame /\ RespError' = "NONE" /\ T_Id' = 0
      /\ UNCHANGED <<NeedPoll, PollRequested, air, sent, overlapped, lost>>
  BY DEF MB_Init
<1>2. TaskList \in Seq(MsgId) /\ \A i \in 1 .. Len(TaskList) : TaskList[i] = SYS_MSG_NONE
  BY <1>1 DEF IInv, TypeOK, NothingLeft
<1>3. MB_TX_MEM_NUM \in 0 .. MB_TX_MEM_NUM /\ 0 \in 0 .. TidNum - 1
  BY DEF MasterAssumption
<1>4. <<>> \in Seq(Req) /\ {} \in SUBSET Timer
  OBVIOUS
<1>5. TypeOK'
  BY <1>1, <1>3, <1>4 DEF IInv, TypeOK, RespErrors
<1>6. KernelSound' /\ NothingLeft' /\ StatesAgree' /\ SentIsAwaited'
  BY <1>1 DEF IInv, KernelSound, NothingLeft, StatesAgree, SentIsAwaited
<1>7. SingleShot' /\ NoStrayTimeout'
  BY <1>1, <1>2 DEF SingleShot, AtMostOnce, TimerId, NoStrayTimeout, Live, Pending
<1>8. WakeupPending' /\ TimeoutPending'
  BY <1>1 DEF WakeupPending, TimeoutPending
<1>9. PacketsConserved'
  BY <1>1 DEF PacketsConserved, MasterAssumption
<1> QED BY <1>5, <1>6, <1>7, <1>8, <1>9 DEF IInv

-----------------------------------------------------------------------------
(* The actions of the main loop. *)

(* Process_Run adds nothing but a poll message. *)
LEMMA PollStep ==
  ASSUME IInv, Process_Run
  PROVE  IInv'
<1>1. /\ main' = "task" /\ PollRequested' = FALSE
      /\ UNCHANGED <<running, Lc, txState, Tx_List, Tx_Mem, timers, TxData, RxData, T_Id, air,
                     RespError, sent, overlapped>>
  BY DEF Process_Run, packets, link
<1>2. /\ TaskList' \in Seq(MsgId) /\ Len(TaskList') <= TASK_ITEM_NUM
      /\ \A n \in TimerId : Pending(timers, TaskList', n) <=> Pending(timers, TaskList, n)
      /\ \A n \in TimerId : AtMostOnce(timers, TaskList', n)
      /\ ~ running => TaskList' = TaskList
      /\ NeedPoll' \in BOOLEAN /\ lost' \in BOOLEAN /\ (~ lost' => ~ lost)
  <2>1. CASE PollRequested /\ NeedPoll /\ running
    <3>1. /\ TaskList' = DTask_Store(TaskList, <<SYS_MSG_POLL_PROCESS>>)
          /\ NeedPoll' = FALSE
          /\ lost' = (lost \/ StoreFails(TaskList, <<SYS_MSG_POLL_PROCESS>>))
      BY <2>1 DEF Process_Run
    <3> QED BY <2>1, <3>1, StorePollFacts DEF IInv, TypeOK, KernelSound, SingleShot
  <2>2. CASE ~ (PollRequested /\ NeedPoll /\ running)
    <3>1. UNCHANGED <<NeedPoll, TaskList, lost>>
      BY <2>2 DEF Process_Run
    <3> QED BY <3>1 DEF IInv, TypeOK, KernelSound, SingleShot
  <2> QED BY <2>1, <2>2
<1>3. TypeOK'
  BY <1>1, <1>2 DEF IInv, TypeOK
<1>4. KernelSound' /\ NothingLeft' /\ SingleShot'
  BY <1>1, <1>2 DEF IInv, KernelSound, NothingLeft, SingleShot
<1>5. StatesAgree' /\ SentIsAwaited' /\ PacketsConserved'
  BY <1>1 DEF IInv, StatesAgree, SentIsAwaited, PacketsConserved
<1>6. TX_CHECK \in TimerId /\ TX_RESP_TIMEOUT \in TimerId
  BY DEF TimerId
<1>7. WakeupPending' /\ TimeoutPending' /\ NoStrayTimeout'
  BY <1>1, <1>2, <1>6 DEF IInv, WakeupPending, TimeoutPending, NoStrayTimeout, Live
<1> QED BY <1>3, <1>4, <1>5, <1>7 DEF IInv

(* What is known when DTask_Run hands message m to the process: the queue  *)
(* without it still satisfies what the invariant says of queues.           *)
LEMMA TakeFacts ==
  ASSUME IInv, NEW m \in MsgId, Handles(m)
  PROVE  /\ TaskList # <<>> /\ Head(TaskList) = m /\ main' = "app"
         /\ Tail(TaskList) \in Seq(MsgId)
         /\ Len(Tail(TaskList)) <= TASK_ITEM_NUM
         /\ \A n \in TimerId : AtMostOnce(timers, Tail(TaskList), n)
         /\ \A n \in TimerId : n = m => ~ Pending(timers, Tail(TaskList), n)
         /\ \A n \in TimerId :
              n # m => (Pending(timers, Tail(TaskList), n) <=> Pending(timers, TaskList, n))
<1>1. TaskList \in Seq(MsgId) /\ TaskList # <<>> /\ timers \in SUBSET Timer
  BY DEF IInv, TypeOK, Handles
<1>2. Head(TaskList) = m /\ main' = "app"
  BY DEF Handles
<1>3. \A n \in TimerId : n \in MsgId /\ AtMostOnce(timers, TaskList, n)
  BY DEF IInv, SingleShot, MsgId
<1>4. Tail(TaskList) \in Seq(MsgId) /\ Len(Tail(TaskList)) <= TASK_ITEM_NUM
  BY <1>1, TailFacts DEF IInv, KernelSound, KernelAssumption
<1>5. \A n \in TimerId :
        /\ AtMostOnce(timers, Tail(TaskList), n)
        /\ n = m => ~ Pending(timers, Tail(TaskList), n)
  BY <1>1, <1>2, <1>3, TailAtMostOnce
<1>6. \A n \in TimerId :
        n # m => (Pending(timers, Tail(TaskList), n) <=> Pending(timers, TaskList, n))
  BY <1>1, <1>2, <1>3, TailPending
<1> QED BY <1>1, <1>2, <1>4, <1>5, <1>6

(* A message dropped is one that the handler does not count on. *)
LEMMA DroppedStep ==
  ASSUME IInv, TaskDropped
  PROVE  IInv'
<1> PICK m \in MsgId : Handles(m) /\ ~ (running /\ m \in Awaited)
  BY DEF TaskDropped
<1>1. /\ TaskList' = Tail(TaskList)
      /\ UNCHANGED <<running, Lc, txState, Tx_List, Tx_Mem, timers, NeedPoll, PollRequested,
                     lost, TxData, RxData, T_Id, air, RespError, sent, overlapped>>
  BY DEF TaskDropped, packets, link
<1>2. /\ main' = "app" /\ TaskList # <<>> /\ Head(TaskList) = m
      /\ TaskList' \in Seq(MsgId) /\ Len(TaskList') <= TASK_ITEM_NUM
      /\ \A n \in TimerId : AtMostOnce(timers, TaskList', n)
      /\ \A n \in TimerId : n = m => ~ Pending(timers, TaskList', n)
      /\ \A n \in TimerId : n # m => (Pending(timers, TaskList', n) <=> Pending(timers, TaskList, n))
  BY <1>1, TakeFacts
<1>3. TypeOK'
  BY <1>1, <1>2 DEF IInv, TypeOK
<1>4. NothingLeft'
  <2> SUFFICES ASSUME ~ running
               PROVE  \A i \in 1 .. Len(Tail(TaskList)) : Tail(TaskList)[i] = SYS_MSG_NONE
    BY <1>1 DEF NothingLeft, IInv
  <2>1. \A i \in 1 .. Len(TaskList) : TaskList[i] = SYS_MSG_NONE
    BY DEF NothingLeft, IInv
  <2> QED BY <1>2, <2>1, TailFacts DEF IInv, TypeOK
<1>5. KernelSound' /\ SingleShot'
  BY <1>1, <1>2 DEF IInv, KernelSound, SingleShot
<1>6. StatesAgree' /\ SentIsAwaited' /\ PacketsConserved'
  BY <1>1 DEF IInv, StatesAgree, SentIsAwaited, PacketsConserved
<1>7. TX_CHECK \in TimerId /\ TX_RESP_TIMEOUT \in TimerId
  BY DEF TimerId
<1>8. WakeupPending'
  BY <1>1, <1>2, <1>7 DEF IInv, WakeupPending, Live, Awaited
<1>9. TimeoutPending' /\ NoStrayTimeout'
  BY <1>1, <1>2, <1>7 DEF IInv, TypeOK, TimeoutPending, NoStrayTimeout, Live, Awaited
<1> QED BY <1>3, <1>4, <1>5, <1>6, <1>8, <1>9 DEF IInv

(* A TX_CHECK taken in vain finds no packets, since txState is idle. *)
LEMMA InVainStep ==
  ASSUME IInv, TxCheckInVain
  PROVE  IInv'
<1>1. /\ Handles(TX_CHECK) /\ running /\ Lc = "TxIdle"
      /\ UNCHANGED <<running, Lc, txState, Tx_List, Tx_Mem, NeedPoll, PollRequested, TxData,
                     RxData, T_Id, air, RespError, sent, overlapped>>
  BY DEF TxCheckInVain, packets, link
<1>2. txState = "IDLE" /\ Tx_List = <<>>
  BY <1>1 DEF TxCheckInVain, IInv, StatesAgree
<1>3. TaskList' = Tail(TaskList) /\ UNCHANGED <<timers, lost>>
  BY <1>2 DEF TxCheckInVain
<1>4. TX_CHECK \in MsgId /\ TX_CHECK \in TimerId /\ TX_RESP_TIMEOUT \in TimerId
  BY DEF MsgId, TimerId
<1>5. /\ main' = "app"
      /\ TaskList' \in Seq(MsgId) /\ Len(TaskList') <= TASK_ITEM_NUM
      /\ \A n \in TimerId : AtMostOnce(timers, TaskList', n)
      /\ Pending(timers, TaskList', TX_RESP_TIMEOUT) <=> Pending(timers, TaskList, TX_RESP_TIMEOUT)
  BY <1>1, <1>3, <1>4, TakeFacts
<1>6. TypeOK'
  BY <1>1, <1>3, <1>5 DEF IInv, TypeOK
<1>7. KernelSound' /\ SingleShot' /\ NothingLeft'
  BY <1>1, <1>3, <1>5 DEF IInv, KernelSound, SingleShot, NothingLeft
<1>8. StatesAgree' /\ SentIsAwaited' /\ PacketsConserved'
  BY <1>1 DEF IInv, StatesAgree, SentIsAwaited, PacketsConserved
<1>9. WakeupPending' /\ TimeoutPending' /\ NoStrayTimeout'
  BY <1>1, <1>2, <1>3, <1>5 DEF IInv, WakeupPending, TimeoutPending, NoStrayTimeout, Live
<1> QED BY <1>6, <1>7, <1>8, <1>9 DEF IInv

(* A packet sent: the response timer starts, and it is the only one. *)
LEMMA SendStep ==
  ASSUME IInv, TxSend
  PROVE  IInv'
<1> DEFINE r  == Head(Tx_List)
           T2 == StartTimer(timers, TX_RESP_TIMEOUT, RespTimeout)
<1>1. /\ Handles(TX_CHECK) /\ running /\ Lc = "TxIdle" /\ Tx_List # <<>>
      /\ Tx_List' = Tail(Tx_List) /\ Tx_Mem' = Tx_Mem + 1
      /\ TaskList' = Tail(TaskList) /\ timers' = T2
      /\ lost' = (lost \/ StartFails(timers))
      /\ txState' = "WAITING_FOR_RESP" /\ Lc' = "TxWaitingForResp"
      /\ UNCHANGED <<running, NeedPoll, PollRequested, RxData, RespError>>
  BY DEF TxSend
<1>2. PacketsInv' /\ r \in Req
  BY <1>1, PopFacts DEF IInv, TypeOK, PacketsInv
<1>3. T_Id' \in 0 .. TidNum - 1 /\ T_Id' = NextTid
  BY DEF TxSend, NextTid, IInv, TypeOK, MasterAssumption
<1>4. TxData' = r /\ sent' = r /\ sent' # NoReq /\ overlapped' = FALSE
  BY <1>2 DEF TxSend, PacketCopied, MasterAssumption
<1>5. air' \in SUBSET Frame
  <2>1. [req |-> r, tid |-> NextTid, cur |-> TRUE] \in Frame
    BY <1>2, <1>3 DEF Frame
  <2>2. air \in SUBSET Frame
    BY DEF IInv, TypeOK
  <2> QED BY <2>1, <2>2 DEF TxSend
<1>6. TX_CHECK \in MsgId /\ TX_CHECK \in TimerId /\ TX_RESP_TIMEOUT \in TimerId
  BY DEF MsgId, TimerId
<1>7. /\ main' = "app"
      /\ TaskList' \in Seq(MsgId) /\ Len(TaskList') <= TASK_ITEM_NUM
      /\ \A n \in TimerId : AtMostOnce(timers, TaskList', n)
      /\ ~ Pending(timers, TaskList', TX_RESP_TIMEOUT)
  BY <1>1, <1>6, TakeFacts DEF IInv, NoStrayTimeout, Live
<1>8. RespTimeout \in Nat /\ RespTimeout # 0 /\ timers \in SUBSET Timer
  BY DEF MasterAssumption, IInv, TypeOK
<1>9. /\ T2 \in SUBSET Timer
      /\ \A t \in T2 : t \in timers \/ t.left = RespTimeout
      /\ ~ StartFails(timers) => Pending(T2, TaskList', TX_RESP_TIMEOUT)
      /\ \A n \in TimerId : AtMostOnce(T2, TaskList', n)
  BY <1>6, <1>7, <1>8, StartFacts
<1> HIDE DEF T2, r
<1>10. TypeOK'
  BY <1>1, <1>2, <1>3, <1>4, <1>5, <1>7, <1>9 DEF IInv, TypeOK, PacketsInv
<1>11. KernelSound' /\ SingleShot' /\ NothingLeft'
  BY <1>1, <1>7, <1>8, <1>9 DEF IInv, KernelSound, SingleShot, NothingLeft
<1>12. StatesAgree' /\ SentIsAwaited' /\ PacketsConserved'
  BY <1>1, <1>2, <1>4 DEF StatesAgree, SentIsAwaited, PacketsInv
<1>13. WakeupPending' /\ NoStrayTimeout'
  BY <1>1 DEF WakeupPending, NoStrayTimeout
<1>14. TimeoutPending'
  BY <1>1, <1>9 DEF TimeoutPending, Live
<1> QED BY <1>10, <1>11, <1>12, <1>13, <1>14 DEF IInv

(* The end of the handler's turn: the handler is idle again, and if packets *)
(* wait there is a TX_CHECK for them.                                       *)
LEMMA CompleteStep ==
  ASSUME IInv, running, main' = "app",
         NEW err \in RespErrors,
         NEW kept \in SUBSET Timer, \A t \in kept : t.left # 0,
         NEW q \in Seq(MsgId), Len(q) <= TASK_ITEM_NUM,
         \A n \in TimerId : AtMostOnce(kept, q, n),
         ~ Pending(kept, q, TX_RESP_TIMEOUT),
         Complete(err, q, kept)
  PROVE  IInv'
<1>1. /\ Rearm(q, kept, Tx_List' # <<>>)
      /\ txState' = "IDLE" /\ Lc' = "TxIdle"
      /\ UNCHANGED <<running, NeedPoll, PollRequested, T_Id>>
  BY DEF Complete
<1>2. sent' = NoReq /\ overlapped' = FALSE /\ air' \in SUBSET Frame /\ RxData' \in Frame \cup {NoFrame}
  BY EndTransactionFacts DEF Complete, IInv
<1>3. PacketsInv' /\ TxData' \in Req \cup {NoReq} /\ RespError' \in RespErrors
  <2>1. PacketsInv
    BY DEF IInv, TypeOK, PacketsInv
  <2>2. CASE RespError' = err /\ UNCHANGED <<TxData, packets>>
    BY <2>1, <2>2 DEF packets, IInv, TypeOK, PacketsInv, PacketsConserved
  <2>3. ASSUME NEW r \in Req, TxData' = r, Queued(r), RespError' = "NOT_PREEMPTIVE_OS"
        PROVE  PacketsInv' /\ TxData' \in Req \cup {NoReq} /\ RespError' \in RespErrors
    BY <2>1, <2>3, QueuedFacts DEF RespErrors
  <2> QED BY <2>2, <2>3 DEF Complete
<1>4. /\ timers' \in SUBSET Timer /\ TaskList' \in Seq(MsgId) /\ lost' \in BOOLEAN
      /\ KernelSound' /\ SingleShot'
      /\ ~ Live(TX_RESP_TIMEOUT)'
      /\ ~ lost' /\ Tx_List' # <<>> => Live(TX_CHECK)'
  <2>1. CASE Tx_List' # <<>>
    <3> DEFINE rest == CancelTimers(kept, TX_CHECK)
               T2 == StartTimer(rest, TX_CHECK, TxCheckDelay)
               q2 == DTask_CancelMsg(q, TX_CHECK)
    <3>1. /\ T2 \in SUBSET Timer
          /\ \A t \in T2 : t.left # 0
          /\ q2 \in Seq(MsgId)
          /\ Len(q2) <= TASK_ITEM_NUM
          /\ \A n \in TimerId : AtMostOnce(T2, q2, n)
          /\ ~ StartFails(rest) => Pending(T2, q2, TX_CHECK)
          /\ ~ Pending(T2, q2, TX_RESP_TIMEOUT)
      BY ReSendFacts
    <3>2. TaskList' = q2 /\ timers' = T2 /\ lost' = (lost \/ StartFails(rest))
      BY <1>1, <2>1 DEF Rearm
    <3> HIDE DEF rest, T2, q2
    <3>3. lost' \in BOOLEAN
      BY <3>2
    <3> QED BY <3>1, <3>2, <3>3 DEF KernelSound, SingleShot, Live
  <2>2. CASE ~ (Tx_List' # <<>>)
    <3>1. TaskList' = q /\ timers' = kept /\ lost' = lost
      BY <1>1, <2>2 DEF Rearm
    <3> QED BY <2>2, <3>1 DEF KernelSound, SingleShot, Live, IInv, TypeOK
  <2> QED BY <2>1, <2>2
<1>5. TypeOK'
  BY <1>1, <1>2, <1>3, <1>4 DEF IInv, TypeOK, PacketsInv
<1>6. StatesAgree' /\ NothingLeft' /\ SentIsAwaited' /\ PacketsConserved'
  BY <1>1, <1>2, <1>3 DEF StatesAgree, NothingLeft, SentIsAwaited, PacketsInv
<1>7. WakeupPending' /\ TimeoutPending' /\ NoStrayTimeout'
  BY <1>1, <1>4 DEF WakeupPending, TimeoutPending, NoStrayTimeout
<1> QED BY <1>4, <1>5, <1>6, <1>7 DEF IInv

(* The timeout: the message taken was the only one. *)
LEMMA TimedOutStep ==
  ASSUME IInv, RespTimedOut
  PROVE  IInv'
<1>1. TX_RESP_TIMEOUT \in MsgId /\ TX_RESP_TIMEOUT \in TimerId
  BY DEF MsgId, TimerId
<1>2. Handles(TX_RESP_TIMEOUT) /\ running /\ Complete("TIME_OUT", Tail(TaskList), timers)
  BY DEF RespTimedOut
<1>3. timers \in SUBSET Timer /\ \A t \in timers : t.left # 0
  BY DEF IInv, TypeOK, KernelSound
<1>4. "TIME_OUT" \in RespErrors
  BY DEF RespErrors
<1> QED BY <1>1, <1>2, <1>3, <1>4, TakeFacts, CompleteStep

(* The response: Msg_Cancel removes the timeout wherever it is. *)
LEMMA ArrivedStep ==
  ASSUME IInv, RespArrived
  PROVE  IInv'
<1> DEFINE m == SYS_MSG_POLL_PROCESS
           q == DTask_CancelMsg(Tail(TaskList), TX_RESP_TIMEOUT)
           kept == CancelTimers(timers, TX_RESP_TIMEOUT)
           err == MBM_ParseResp(TxData, RxData)
<1>1. TX_RESP_TIMEOUT \in MsgId /\ TX_RESP_TIMEOUT \in TimerId /\ m \in MsgId
  BY DEF MsgId, TimerId
<1>2. Handles(m) /\ running /\ Complete(err, q, kept)
  BY DEF RespArrived
<1>3. timers \in SUBSET Timer /\ \A t \in timers : t.left # 0
  BY DEF IInv, TypeOK, KernelSound
<1>4. err \in RespErrors
  BY DEF MBM_ParseResp, RespErrors
<1>5. /\ main' = "app"
      /\ Tail(TaskList) \in Seq(MsgId) /\ Len(Tail(TaskList)) <= TASK_ITEM_NUM
      /\ \A n \in TimerId : AtMostOnce(timers, Tail(TaskList), n)
  BY <1>1, <1>2, TakeFacts
<1>6. q \in Seq(MsgId) /\ Len(q) <= TASK_ITEM_NUM
  BY <1>1, <1>5, CancelMsgFacts
<1>7. /\ kept \in SUBSET Timer /\ kept \subseteq timers
      /\ ~ Pending(kept, q, TX_RESP_TIMEOUT)
      /\ \A n \in TimerId : AtMostOnce(kept, q, n)
  BY <1>1, <1>3, <1>5, CancelFacts
<1> HIDE DEF m, q, kept, err
<1> QED BY <1>2, <1>3, <1>4, <1>5, <1>6, <1>7, CompleteStep

(* Msg_Run1ms moves the messages that are due to the task queue. *)
LEMMA TickStep ==
  ASSUME IInv, Msg_Run1ms
  PROVE  IInv'
<1> DEFINE T2 == {t \in Aged(timers) : t.left # 0}
<1>1. PICK s \in Orders(Due(Aged(timers))) :
        TaskList' = DTask_Store(TaskList, s) /\ lost' = (lost \/ StoreFails(TaskList, s))
  BY DEF Msg_Run1ms
<1>2. /\ main' = "poll" /\ timers' = T2
      /\ UNCHANGED <<running, Lc, txState, Tx_List, Tx_Mem, NeedPoll, PollRequested, TxData,
                     RxData, T_Id, air, RespError, sent, overlapped>>
  BY DEF Msg_Run1ms, packets, link
<1>3. /\ timers \in SUBSET Timer /\ \A t \in timers : t.left # 0
      /\ TaskList \in Seq(MsgId) /\ Len(TaskList) <= TASK_ITEM_NUM
      /\ \A n \in TimerId : AtMostOnce(timers, TaskList, n)
  BY DEF IInv, TypeOK, KernelSound, SingleShot
<1>4. /\ T2 \in SUBSET Timer /\ TaskList' \in Seq(MsgId) /\ Len(TaskList') <= TASK_ITEM_NUM
      /\ \A n \in TimerId : AtMostOnce(T2, TaskList', n)
      /\ \A n \in TimerId : Pending(T2, TaskList', n) => Pending(timers, TaskList, n)
      /\ \A n \in TimerId :
           ~ StoreFails(TaskList, s) /\ Pending(timers, TaskList, n) => Pending(T2, TaskList', n)
  BY <1>1, <1>3, TickFacts
<1>5. \A t \in T2 : t.left # 0
  OBVIOUS
<1>6. ~ running => T2 = {} /\ \A i \in 1 .. Len(TaskList') : TaskList'[i] = SYS_MSG_NONE
  <2> SUFFICES ASSUME ~ running
               PROVE  T2 = {} /\ \A i \in 1 .. Len(TaskList') : TaskList'[i] = SYS_MSG_NONE
    OBVIOUS
  <2>1. timers = {} /\ \A i \in 1 .. Len(TaskList) : TaskList[i] = SYS_MSG_NONE
    BY DEF IInv, NothingLeft
  <2>2. Aged(timers) = {}
    BY <2>1 DEF Aged
  <2>3. Due(Aged(timers)) = {}
    BY <2>2 DEF Due
  <2>4. s \in Seq(MsgId) /\ Len(s) = 0
    <3>1. Due(Aged(timers)) \in SUBSET TimerId
      BY <2>3
    <3>2. s \in Seq(MsgId) /\ \A i \in 1 .. Len(s) : s[i] \in Due(Aged(timers))
      BY <3>1, OrdersFacts
    <3>3. ASSUME Len(s) # 0 PROVE FALSE
      <4>1. 1 \in 1 .. Len(s)
        BY <3>2, <3>3
      <4>2. s[1] \in Due(Aged(timers))
        BY <3>2, <4>1
      <4> QED BY <2>3, <4>2
    <3> QED BY <3>2, <3>3
  <2>5. s = <<>>
    BY <2>4
  <2>6. TaskList' = TaskList
    BY <1>1, <1>3, <2>5, StoreNothing
  <2> QED BY <2>1, <2>2, <2>6
<1> HIDE DEF T2
<1>7. lost' \in BOOLEAN /\ (~ lost' => ~ lost /\ ~ StoreFails(TaskList, s))
  BY <1>1
<1>8. TypeOK'
  BY <1>2, <1>4, <1>7 DEF IInv, TypeOK
<1>9. KernelSound' /\ NothingLeft' /\ SingleShot'
  BY <1>2, <1>4, <1>5, <1>6 DEF KernelSound, NothingLeft, SingleShot
<1>10. StatesAgree' /\ SentIsAwaited' /\ PacketsConserved'
  BY <1>2 DEF IInv, StatesAgree, SentIsAwaited, PacketsConserved
<1>11. TX_CHECK \in TimerId /\ TX_RESP_TIMEOUT \in TimerId
  BY DEF TimerId
<1>12. WakeupPending' /\ TimeoutPending' /\ NoStrayTimeout'
  BY <1>2, <1>4, <1>7, <1>11
     DEF IInv, WakeupPending, TimeoutPending, NoStrayTimeout, Live
<1> QED BY <1>8, <1>9, <1>10, <1>12 DEF IInv

-----------------------------------------------------------------------------
(* The steps that leave the handler, its messages and its packets alone. *)

(* The main loop going on, the receive interrupt, a response lost. *)
LEMMA QuietStep ==
  ASSUME IInv,
         UNCHANGED <<running, Lc, txState, Tx_List, Tx_Mem, timers, TaskList, TxData, RespError,
                     T_Id, sent, overlapped, lost>>,
         main' \in {"poll", "task", "app", "hung"},
         NeedPoll' \in BOOLEAN, PollRequested' \in BOOLEAN,
         RxData' \in Frame \cup {NoFrame}, air' \in SUBSET Frame
  PROVE  IInv'
<1>1. TypeOK'
  BY DEF IInv, TypeOK
<1>2. /\ KernelSound' /\ StatesAgree' /\ NothingLeft' /\ SentIsAwaited' /\ SingleShot'
      /\ WakeupPending' /\ TimeoutPending' /\ NoStrayTimeout' /\ PacketsConserved'
  BY DEF IInv, KernelSound, StatesAgree, NothingLeft, SentIsAwaited, SingleShot,
         WakeupPending, TimeoutPending, NoStrayTimeout, PacketsConserved, Live
<1> QED BY <1>1, <1>2 DEF IInv

(* A response received or lost. *)
LEMMA LineStep ==
  ASSUME IInv, NEW f \in air, Receive(f) \/ Lose(f)
  PROVE  IInv'
<1>1. f \in Frame /\ air' \in SUBSET Frame
  BY DEF Receive, Lose, IInv, TypeOK
<1>2. RxData' \in Frame \cup {NoFrame} /\ NeedPoll' \in BOOLEAN /\ PollRequested' \in BOOLEAN
  BY <1>1 DEF Receive, Lose, RxSignal, kernel, IInv, TypeOK
<1>3. /\ UNCHANGED <<running, Lc, txState, Tx_List, Tx_Mem, timers, TaskList, TxData, RespError,
                     T_Id, sent, overlapped, lost>>
      /\ main' \in {"poll", "task", "app", "hung"}
  BY DEF Receive, Lose, packets, kernel, IInv, TypeOK
<1> QED BY <1>1, <1>2, <1>3, QuietStep

(* Any step preserves the invariant. *)
LEMMA NextIInv == IInv /\ [Next]_vars => IInv'
<1> SUFFICES ASSUME IInv, [Next]_vars PROVE IInv'
  OBVIOUS
<1>1. CASE Application
  <2>1. CASE \E r \in Req : MBM_Request(r)
    BY <2>1, RequestStep
  <2>2. CASE \E a \in FlushAddr : MBM_TxFlush(a)
    BY <2>2, FlushStep
  <2>3. CASE MBM_TxFlush_Loop
    BY <2>3, QuietStep DEF MBM_TxFlush_Loop, vars, IInv, TypeOK
  <2>4. CASE MB_Exit
    BY <2>4, ExitStep
  <2>5. CASE MB_Init
    BY <2>5, InitStep
  <2> QED BY <1>1, <2>1, <2>2, <2>3, <2>4, <2>5 DEF Application
<1>2. CASE MainLoop
  <2>1. CASE Process_Run
    BY <2>1, PollStep
  <2>2. CASE TaskQueueEmpty \/ NoTick
    BY <2>2, QuietStep DEF TaskQueueEmpty, NoTick, packets, kernel, link, IInv, TypeOK
  <2>3. CASE TaskDropped
    BY <2>3, DroppedStep
  <2>4. CASE TxCheckInVain
    BY <2>4, InVainStep
  <2>5. CASE TxSend
    BY <2>5, SendStep
  <2>6. CASE RespTimedOut
    BY <2>6, TimedOutStep
  <2>7. CASE RespArrived
    BY <2>7, ArrivedStep
  <2>8. CASE Msg_Run1ms
    BY <2>8, TickStep
  <2> QED BY <1>2, <2>1, <2>2, <2>3, <2>4, <2>5, <2>6, <2>7, <2>8 DEF MainLoop, DTask_Run
<1>3. CASE Line
  BY <1>3, LineStep DEF Line
<1>4. CASE UNCHANGED vars
  BY <1>4, QuietStep DEF vars, IInv, TypeOK
<1> QED BY <1>1, <1>2, <1>3, <1>4 DEF Next

(* The invariant holds of every state that is reached. *)
THEOREM Invariance == Spec => []IInv
BY InitIInv, NextIInv, PTL DEF Spec

-----------------------------------------------------------------------------
(* What follows from the invariant. *)

(* Every variable keeps to its type. *)
THEOREM TypeCorrect == Spec => []TypeOK
<1>1. IInv => TypeOK
  BY DEF IInv
<1> QED BY <1>1, Invariance, PTL

(* Packets that wait while no response is awaited have a TX_CHECK on its   *)
(* way, unless a pool was full: MBM_OS_Tx and the end of TxProcHandler     *)
(* arm it, whatever TX_CHECKs were dropped meanwhile.                      *)
THEOREM NoLostWakeup == Spec => []WakeupPending
<1>1. IInv => WakeupPending
  BY DEF IInv
<1> QED BY <1>1, Invariance, PTL

(* The handler never waits for a response without its timeout. *)
THEOREM TimeoutAlwaysPending == Spec => []TimeoutPending
<1>1. IInv => TimeoutPending
  BY DEF IInv
<1> QED BY <1>1, Invariance, PTL

(* No timeout outlives its transaction. *)
THEOREM NoTimeoutLeft == Spec => []NoStrayTimeout
<1>1. IInv => NoStrayTimeout
  BY DEF IInv
<1> QED BY <1>1, Invariance, PTL

(* No timer message is on its way twice. *)
THEOREM MessagesSingle == Spec => []SingleShot
<1>1. IInv => SingleShot
  BY DEF IInv
<1> QED BY <1>1, Invariance, PTL

(* No packet is leaked or freed twice. *)
THEOREM NoPacketLeak == Spec => []PacketsConserved
<1>1. IInv => PacketsConserved
  BY DEF IInv
<1> QED BY <1>1, Invariance, PTL

-----------------------------------------------------------------------------
(***************************************************************************)
(* TxData is the request sent for as long as its response is awaited and   *)
(* no other is issued, and a frame counted as current answers it.          *)
(***************************************************************************)
Answers(f) == f # NoFrame /\ f.cur => f.req = sent

Discipline ==
  /\ CallbackSeesItsRequest
  /\ \A f \in air : Answers(f)
  /\ Answers(RxData)

(* When a transaction ends, no frame is current any more. *)
LEMMA NoneCurrent ==
  ASSUME TypeOK, EndTransaction
  PROVE  (\A f \in air' : Answers(f)') /\ Answers(RxData)'
<1>1. ASSUME NEW f \in Frame \cup {NoFrame}
      PROVE  NoLongerCurrent(f) = NoFrame \/ NoLongerCurrent(f).cur = FALSE
  <2>1. CASE f = NoFrame
    BY <2>1 DEF NoLongerCurrent
  <2>2. CASE f # NoFrame
    BY <2>2 DEF NoLongerCurrent, Frame
  <2> QED BY <2>1, <2>2
<1>2. RxData \in Frame \cup {NoFrame} /\ air \subseteq Frame
  BY DEF TypeOK
<1>3. RxData' = NoLongerCurrent(RxData) /\ air' = {NoLongerCurrent(f) : f \in air}
  BY DEF EndTransaction
<1> QED BY <1>1, <1>2, <1>3 DEF Answers

(* Every step keeps to that. *)
LEMMA NextDiscipline ==
  ASSUME IInv, IInv', Discipline, [Next]_vars
  PROVE  Discipline'
<1>1. TypeOK /\ StatesAgree /\ SentIsAwaited
  BY DEF IInv
<1>2. ASSUME UNCHANGED <<running, Lc, TxData, RxData, air, sent, overlapped>> PROVE Discipline'
  BY <1>2 DEF Discipline, CallbackSeesItsRequest, Answers
<1>3. ASSUME NEW r \in Req, MBM_Request(r) PROVE Discipline'
  <2>1. UNCHANGED <<running, Lc, RxData, air, sent>> /\ overlapped' = (overlapped \/ sent # NoReq)
    BY <1>3 DEF MBM_Request, link
  <2>2. running /\ Lc = "TxWaitingForResp" => overlapped'
    BY <1>1, <2>1 DEF SentIsAwaited
  <2> QED BY <1>1, <2>1, <2>2 DEF Discipline, CallbackSeesItsRequest, StatesAgree, Answers, TypeOK
<1>4. CASE MB_Exit
  <2>1. ~ running' /\ EndTransaction
    BY <1>4 DEF MB_Exit
  <2> QED BY <1>1, <2>1, NoneCurrent DEF Discipline, CallbackSeesItsRequest
<1>5. CASE MB_Init
  <2>1. Lc' = "TxIdle" /\ RxData' = NoFrame /\ UNCHANGED <<air, sent, overlapped>>
    BY <1>5 DEF MB_Init
  <2> QED BY <2>1 DEF Discipline, CallbackSeesItsRequest, Answers
<1>6. CASE TxSend
  <2> DEFINE r == Head(Tx_List)
             new == [req |-> r, tid |-> NextTid, cur |-> TRUE]
  <2>1. TxData' = r /\ sent' = r /\ RxData' = RxData /\ Lc = "TxIdle"
    BY <1>6 DEF TxSend, PacketCopied
  <2>2. air' = air \/ air' = air \cup {new}
    BY <1>6 DEF TxSend
  <2>3. new.cur /\ new.req = r
    OBVIOUS
  <2> HIDE DEF r, new
  <2>4. sent = NoReq
    BY <1>1, <2>1 DEF SentIsAwaited
  <2>5. ASSUME NEW f \in Frame, Answers(f) PROVE ~ f.cur \/ f = NoFrame
    BY <2>4, <2>5 DEF Answers, Frame, MasterAssumption
  <2>6. RxData = NoFrame \/ ~ RxData.cur
    BY <1>1, <2>5 DEF Discipline, TypeOK
  <2>7. \A f \in air : f = NoFrame \/ ~ f.cur
    BY <1>1, <2>5 DEF Discipline, TypeOK
  <2> QED BY <2>1, <2>2, <2>3, <2>6, <2>7 DEF Discipline, CallbackSeesItsRequest, Answers
<1>7. CASE RespTimedOut \/ RespArrived
  <2>1. Lc' = "TxIdle" /\ EndTransaction
    BY <1>7 DEF RespTimedOut, RespArrived, Complete
  <2> QED BY <1>1, <2>1, NoneCurrent DEF Discipline, CallbackSeesItsRequest
<1>8. ASSUME NEW f \in air, Receive(f) \/ Lose(f) PROVE Discipline'
  <2>1. /\ UNCHANGED <<running, Lc, TxData, sent, overlapped>>
        /\ air' = air \ {f}
        /\ RxData' = f \/ RxData' = RxData
    BY <1>8 DEF Receive, Lose
  <2> QED BY <2>1 DEF Discipline, CallbackSeesItsRequest, Answers
<1>9. CASE Application
  <2>1. CASE \E a \in FlushAddr : MBM_TxFlush(a)
    BY <1>2, <2>1 DEF MBM_TxFlush, link
  <2>2. CASE MBM_TxFlush_Loop
    BY <1>2, <2>2 DEF MBM_TxFlush_Loop, vars
  <2> QED BY <1>3, <1>4, <1>5, <1>9, <2>1, <2>2 DEF Application
<1>10. CASE MainLoop
  <2>1. CASE Process_Run \/ NoTick \/ Msg_Run1ms
    BY <1>2, <2>1 DEF Process_Run, NoTick, Msg_Run1ms, link
  <2>2. CASE TaskQueueEmpty \/ TaskDropped \/ TxCheckInVain
    BY <1>2, <2>2 DEF TaskQueueEmpty, TaskDropped, TxCheckInVain, link
  <2> QED BY <1>6, <1>7, <1>10, <2>1, <2>2 DEF MainLoop, DTask_Run
<1>11. CASE Line
  BY <1>8, <1>11 DEF Line
<1>12. CASE UNCHANGED vars
  BY <1>2, <1>12 DEF vars
<1> QED BY <1>9, <1>10, <1>11, <1>12 DEF Next

(* The discipline holds of every state. *)
LEMMA DisciplineHolds == Spec => []Discipline
<1>1. Init => Discipline
  BY DEF Init, Discipline, CallbackSeesItsRequest, Answers
<1>2. IInv /\ IInv' /\ Discipline /\ [Next]_vars => Discipline'
  BY NextDiscipline
<1> QED BY <1>1, <1>2, Invariance, PTL DEF Spec

(* MBM_APP_RespCallback can tell from TxData which request it is called for *)
(* if the application does not issue one while another is outstanding.      *)
THEOREM CallbackCorrect == Spec => []CallbackSeesItsRequest
<1>1. Discipline => CallbackSeesItsRequest
  BY DEF Discipline
<1> QED BY <1>1, DisciplineHolds, PTL

(* Unless another was issued, MBM_ParseResp rejects no response to the *)
(* request that is outstanding.                                      *)
THEOREM ResponseNotRejected == Spec => []ResponseAccepted
<1>1. IInv /\ Discipline => ResponseAccepted
  <2> SUFFICES ASSUME IInv, Discipline, Parsing, RxData # NoFrame, RxData.cur, ~ overlapped
               PROVE  MBM_ParseResp(TxData, RxData) = "NONE"
    BY DEF ResponseAccepted
  <2>1. RxData.req = sent /\ TxData = sent
    BY DEF Discipline, Answers, CallbackSeesItsRequest, Parsing
  <2>2. sent # NoReq
    BY DEF IInv, SentIsAwaited, Parsing
  <2> QED BY <2>1, <2>2 DEF MBM_ParseResp
<1> QED BY <1>1, Invariance, DisciplineHolds, PTL

-----------------------------------------------------------------------------
(* The engine implements the service of module TxService. *)

(* A call of the application is an acceptance, a withdrawal, a reset or, *)
(* when no packet is free or the stack is down, nothing.                 *)
LEMMA ApplicationRefines ==
  ASSUME IInv, Application
  PROVE  [Service!Next]_Service!vars
<1>1. ASSUME NEW r \in Req, MBM_Request(r) PROVE [Service!Next]_Service!vars
  <2>1. UNCHANGED <<running, sent>>
    BY <1>1 DEF MBM_Request
  <2>2. Tx_List' = Append(Tx_List, r) \/ Tx_List' = Tx_List
    BY <1>1 DEF MBM_Request, Queued, packets
  <2> QED BY <2>1, <2>2 DEF Service!Next, Service!Accept, Service!vars
<1>2. ASSUME NEW a \in FlushAddr, MBM_TxFlush(a) PROVE [Service!Next]_Service!vars
  <2>1. UNCHANGED <<running, sent, overlapped>>
    BY <1>2 DEF MBM_TxFlush
  <2>2. Tx_List' = Tx_List \/ (Tx_List # <<>> /\ Tx_List' = Tail(Tx_List))
    BY <1>2 DEF MBM_TxFlush, HeadIsFor, packets
  <2> QED BY <2>1, <2>2 DEF Service!Next, Service!Withdraw, Service!vars
<1>3. CASE MBM_TxFlush_Loop
  BY <1>3 DEF MBM_TxFlush_Loop, vars, Service!vars
<1>4. CASE MB_Exit
  BY <1>4 DEF MB_Exit, EndTransaction, Service!Next, Service!Reset
<1>5. CASE MB_Init
  <2>1. ~ running /\ running' /\ Tx_List' = <<>> /\ sent' = sent
    BY <1>5 DEF MB_Init
  <2> QED BY <2>1 DEF Service!vars
<1> QED BY <1>1, <1>2, <1>3, <1>4, <1>5 DEF Application

(* The main loop starts a request, reports an outcome, or does nothing *)
(* that the service can see.                                           *)
LEMMA MainLoopRefines ==
  ASSUME IInv, MainLoop
  PROVE  [Service!Next]_Service!vars
<1>1. ASSUME UNCHANGED <<running, Tx_List, sent>> PROVE [Service!Next]_Service!vars
  BY <1>1 DEF Service!vars
<1>2. CASE TxSend
  <2>1. /\ running /\ running' = running /\ Tx_List # <<>>
        /\ Tx_List' = Tail(Tx_List) /\ sent' = Head(Tx_List)
    BY <1>2 DEF TxSend
  <2>2. sent = NoReq
    BY <1>2 DEF TxSend, IInv, SentIsAwaited
  <2> QED BY <2>1, <2>2 DEF Service!Next, Service!Start
<1>3. CASE RespTimedOut \/ RespArrived
  <2>1. /\ running /\ running' = running /\ Lc = "TxWaitingForResp" /\ sent' = NoReq
        /\ Tx_List' = Tx_List \/ \E r \in Req : Tx_List' = Append(Tx_List, r)
    BY <1>3 DEF RespTimedOut, RespArrived, Complete, EndTransaction, Queued, packets
  <2>2. sent # NoReq
    BY <2>1 DEF IInv, SentIsAwaited
  <2> QED BY <2>1, <2>2 DEF Service!Next, Service!Report
<1>4. CASE Process_Run \/ NoTick \/ Msg_Run1ms
  BY <1>1, <1>4 DEF Process_Run, NoTick, Msg_Run1ms, packets
<1>5. CASE TaskQueueEmpty \/ TaskDropped \/ TxCheckInVain
  BY <1>1, <1>5 DEF TaskQueueEmpty, TaskDropped, TxCheckInVain, packets
<1> QED BY <1>2, <1>3, <1>4, <1>5 DEF MainLoop, DTask_Run

(* Requests are sent in the order of the calls, one at a time, and each *)
(* ends in exactly one report: the engine implements TxService.         *)
THEOREM ServiceImplemented == Spec => ImplementsService
<1>1. Init => Service!Init
  BY DEF Init, Service!Init
<1>2. IInv /\ [Next]_vars => [Service!Next]_Service!vars
  <2> SUFFICES ASSUME IInv, [Next]_vars PROVE [Service!Next]_Service!vars
    OBVIOUS
  <2>1. CASE Line
    BY <2>1 DEF Line, Receive, Lose, packets, Service!vars
  <2>2. CASE UNCHANGED vars
    BY <2>2 DEF vars, Service!vars
  <2> QED BY <2>1, <2>2, ApplicationRefines, MainLoopRefines DEF Next
<1> QED BY <1>1, <1>2, Invariance, PTL DEF Spec, ImplementsService, Service!Spec
-----------------------------------------------------------------------------
(***************************************************************************)
(* How much of the pools one channel needs.  DTask_Run takes an item in    *)
(* each turn of the main loop.  A TX_CHECK may bring three: itself, and    *)
(* when it sends a packet the timeout and the poll for its response; but   *)
(* it comes TxCheckDelay ticks after the one before at the earliest.  So   *)
(* what is queued and what can still follow from it, the load, stays       *)
(* below Full, and by the time the timer of TX_CHECK expires it is back    *)
(* to what the line and the handler can hold without one.                  *)
(***************************************************************************)
HIDE MasterAssumption
HIDE KernelAssumption

One(b) == IF b THEN 1 ELSE 0

Has(q, m) == \E i \in 1 .. Len(q) : q[i] = m

Runs(T, m) == \E t \in T : t.id = m

Load(q, T, responses, poll) ==
  Len(q) + 2 * One(Has(q, TX_CHECK)) + One(Runs(T, TX_RESP_TIMEOUT))
    + Cardinality(responses) + One(poll)

Full == MaxAir + 5
Rest == MaxAir + 2

(* taken: DTask_Run has had its item of this turn. *)
Within(load, T, taken) ==
  /\ load <= Full - One(taken)
  /\ \A t \in T : t.id = TX_CHECK =>
       load <= Rest \/ load <= Full - One(taken) - (TxCheckDelay - t.left)

Taken == main \notin {"poll", "task"}

LoadBounded ==
  /\ IsFiniteSet(air) /\ Cardinality(air) <= MaxAir
  /\ Within(Load(TaskList, timers, air, NeedPoll), timers, Taken)

PoolsAssumption ==
  /\ MSG_TIMER_NUM >= 2
  /\ TASK_ITEM_NUM >= Full
  /\ TxCheckDelay >= 3

LEMMA Numbers ==
  /\ {MaxAir, Full, Rest, TxCheckDelay, TASK_ITEM_NUM, MSG_TIMER_NUM} \subseteq Nat
  /\ Full = Rest + 3
BY KernelAssumption, MasterAssumption DEF KernelAssumption, MasterAssumption, Full, Rest

LEMMA LoadType ==
  ASSUME NEW q \in Seq(MsgId), NEW T, NEW a, IsFiniteSet(a), NEW poll
  PROVE  /\ Len(q) \in Nat /\ Cardinality(a) \in Nat
         /\ Load(q, T, a, poll) \in Nat
         /\ Len(q) + One(poll) <= Load(q, T, a, poll)
<1>1. Len(q) \in Nat /\ Cardinality(a) \in Nat
  BY FS_CardinalityType
<1>2. One(Has(q, TX_CHECK)) \in {0, 1} /\ One(Runs(T, TX_RESP_TIMEOUT)) \in {0, 1}
      /\ One(poll) \in {0, 1}
  BY DEF One
<1> QED BY <1>1, <1>2 DEF Load

(* What makes a load larger: items, and a message that can bring more. *)
LEMMA LoadChange ==
  ASSUME NEW q \in Seq(MsgId), NEW T, NEW a, IsFiniteSet(a), NEW poll,
         NEW q2 \in Seq(MsgId), NEW T2, NEW a2, IsFiniteSet(a2), NEW poll2,
         Has(q2, TX_CHECK) => Has(q, TX_CHECK),
         Runs(T2, TX_RESP_TIMEOUT) => Runs(T, TX_RESP_TIMEOUT),
         Cardinality(a2) <= Cardinality(a)
  PROVE  /\ Load(q2, T2, a2, poll2) \in Nat /\ Load(q, T, a, poll) \in Nat
         /\ Len(q2) = Len(q) /\ poll2 = poll => Load(q2, T2, a2, poll2) <= Load(q, T, a, poll)
         /\ Len(q2) = Len(q) - 1 /\ poll2 = poll =>
              Load(q2, T2, a2, poll2) + 1 <= Load(q, T, a, poll)
         /\ Len(q2) = Len(q) + 1 /\ poll /\ ~ poll2 =>
              Load(q2, T2, a2, poll2) <= Load(q, T, a, poll)
<1> DEFINE n    == Len(q)                       n2   == Len(q2)
           had  == One(Has(q, TX_CHECK))        has  == One(Has(q2, TX_CHECK))
           ran  == One(Runs(T, TX_RESP_TIMEOUT))
           runs == One(Runs(T2, TX_RESP_TIMEOUT))
           c    == Cardinality(a)               c2   == Cardinality(a2)
           p    == One(poll)                    p2   == One(poll2)
           L    == Load(q, T, a, poll)          L2   == Load(q2, T2, a2, poll2)
<1>1. n \in Nat /\ n2 \in Nat /\ c \in Nat /\ c2 \in Nat /\ L \in Nat /\ L2 \in Nat
  BY LoadType
<1>2. had \in Nat /\ has \in Nat /\ ran \in Nat /\ runs \in Nat /\ p \in Nat /\ p2 \in Nat
  BY DEF One
<1>3. has <= had /\ runs <= ran /\ c2 <= c
  BY DEF One
<1>4. L = n + 2 * had + ran + c + p /\ L2 = n2 + 2 * has + runs + c2 + p2
  BY DEF Load
<1>5. (poll2 = poll => p2 = p) /\ (poll => p = 1) /\ (~ poll2 => p2 = 0)
  BY DEF One
<1> HIDE DEF n, n2, had, has, ran, runs, c, c2, p, p2, L, L2
<1>6. n2 = n /\ p2 = p => L2 <= L
  BY <1>1, <1>2, <1>3, <1>4
<1>7. n2 = n - 1 /\ p2 = p => L2 + 1 <= L
  BY <1>1, <1>2, <1>3, <1>4
<1>8. n2 = n + 1 /\ p = 1 /\ p2 = 0 => L2 <= L
  BY <1>1, <1>2, <1>3, <1>4
<1> QED BY <1>1, <1>5, <1>6, <1>7, <1>8 DEF n, n2, L, L2

(* A load that does not grow, and one that is less when an item is taken. *)
LEMMA NoHeavier ==
  ASSUME NEW old \in Nat, NEW new \in Nat, NEW T \in SUBSET Timer, NEW T2 \in SUBSET T,
         NEW taken \in BOOLEAN, Within(old, T, taken), new <= old
  PROVE  Within(new, T2, taken)
<1> DEFINE one == One(taken)
           f == Full
           r == Rest
           d == TxCheckDelay
<1>1. one \in Nat /\ f \in Nat /\ r \in Nat /\ d \in Nat
  BY Numbers DEF One
<1>2. ASSUME NEW t \in T2, t.id = TX_CHECK
      PROVE  new <= r \/ new <= f - one - (d - t.left)
  <2> DEFINE left == t.left
  <2>1. t \in T /\ left \in Nat
    BY DEF Timer
  <2>2. old <= r \/ old <= f - one - (d - left)
    BY <1>2, <2>1 DEF Within
  <2> HIDE DEF left, f, r, d, one
  <2>3. new <= r \/ new <= f - one - (d - left)
    BY <1>1, <2>1, <2>2
  <2> QED BY <2>3 DEF left
<1>3. old <= f - one
  BY DEF Within
<1>4. new <= f - one
  <2> HIDE DEF f, one
  <2> QED BY <1>1, <1>3
<1> QED BY <1>2, <1>4 DEF Within

LEMMA Lighter ==
  ASSUME NEW old \in Nat, NEW new \in Nat, NEW T \in SUBSET Timer, NEW T2 \in SUBSET T,
         Within(old, T, FALSE), new + 1 <= old
  PROVE  Within(new, T2, TRUE) /\ new <= Full - 1
<1> DEFINE f == Full
           r == Rest
           d == TxCheckDelay
<1>1. f \in Nat /\ r \in Nat /\ d \in Nat
  BY Numbers
<1>2. One(FALSE) = 0 /\ One(TRUE) = 1
  BY DEF One
<1>3. ASSUME NEW t \in T2, t.id = TX_CHECK
      PROVE  new <= r \/ new <= f - 1 - (d - t.left)
  <2> DEFINE left == t.left
  <2>1. t \in T /\ left \in Nat
    BY DEF Timer
  <2>2. old <= r \/ old <= f - 0 - (d - left)
    BY <1>2, <1>3, <2>1 DEF Within
  <2> HIDE DEF left, f, r, d
  <2>3. new <= r \/ new <= f - 1 - (d - left)
    BY <1>1, <2>1, <2>2
  <2> QED BY <2>3 DEF left
<1>4. old <= f - 0
  BY <1>2 DEF Within
<1>5. new <= f - 1
  <2> HIDE DEF f
  <2> QED BY <1>1, <1>4
<1> QED BY <1>2, <1>3, <1>5 DEF Within

(* In the next turn an item may be taken again. *)
LEMMA TurnOver ==
  ASSUME NEW n \in Nat, NEW T \in SUBSET Timer, Within(n, T, TRUE)
  PROVE  Within(n, T, FALSE)
<1> DEFINE f == Full
           d == TxCheckDelay
<1>1. f \in Nat /\ d \in Nat
  BY Numbers
<1>2. One(FALSE) = 0 /\ One(TRUE) = 1
  BY DEF One
<1>3. ASSUME NEW t \in T, t.id = TX_CHECK
      PROVE  n <= Rest \/ n <= f - 0 - (d - t.left)
  <2> DEFINE left == t.left
  <2>1. left \in Nat
    BY DEF Timer
  <2>2. n <= Rest \/ n <= f - 1 - (d - left)
    BY <1>2, <1>3 DEF Within
  <2> HIDE DEF left, f, d
  <2>3. n <= f - 1 - (d - left) => n <= f - 0 - (d - left)
    BY <1>1, <2>1
  <2> QED BY <2>2, <2>3 DEF left
<1>4. n <= f - 1
  BY <1>2 DEF Within
<1>5. n <= f - 0
  <2> HIDE DEF f
  <2> QED BY <1>1, <1>4
<1> QED BY <1>2, <1>3, <1>5 DEF Within

(* No two timers of one message: the pool of timers has room. *)
LEMMA FewTimers ==
  ASSUME NEW T \in SUBSET Timer, NEW m,
         \A t \in T : t.id = m, \A t, u \in T : t = u
  PROVE  IsFiniteSet(T) /\ Cardinality(T) <= 1
<1>1. CASE T = {}
  BY <1>1, FS_EmptySet
<1>2. CASE T # {}
  <2>1. PICK t \in T : TRUE
    BY <1>2
  <2>2. T = {t}
    BY <2>1
  <2>3. IsFiniteSet({t}) /\ Cardinality({t}) = 1
    BY FS_Singleton
  <2> QED BY <2>2, <2>3
<1> QED BY <1>1, <1>2

(* Cancelling and taking items never adds to the load. *)
LEMMA CancelLoad ==
  ASSUME NEW q \in Seq(MsgId), NEW m \in MsgId
  PROVE  /\ Len(DTask_CancelMsg(q, m)) = Len(q)
         /\ Has(DTask_CancelMsg(q, m), TX_CHECK) => Has(q, TX_CHECK)
         /\ m = TX_CHECK => ~ Has(DTask_CancelMsg(q, m), TX_CHECK)
<1>1. \A i \in 1 .. Len(q) :
        DTask_CancelMsg(q, m)[i] = IF q[i] = m THEN SYS_MSG_NONE ELSE q[i]
  BY CancelMsgFacts
<1>2. Len(DTask_CancelMsg(q, m)) = Len(q)
  BY CancelMsgFacts
<1> QED BY <1>1, <1>2 DEF Has

LEMMA TakeLoad ==
  ASSUME NEW q \in Seq(MsgId), q # <<>>
  PROVE  /\ Len(q) \in Nat \ {0} /\ Len(Tail(q)) = Len(q) - 1 /\ Tail(q) \in Seq(MsgId)
         /\ Has(Tail(q), TX_CHECK) => Has(q, TX_CHECK)
         /\ Head(q) = TX_CHECK => Has(q, TX_CHECK)
<1>1. /\ Len(q) \in Nat \ {0} /\ Len(Tail(q)) = Len(q) - 1 /\ Tail(q) \in Seq(MsgId)
      /\ Head(q) = q[1]
      /\ \A i \in 1 .. Len(q) - 1 : Tail(q)[i] = q[i + 1]
  BY TailFacts
<1>2. \A i \in 1 .. Len(q) - 1 : i + 1 \in 1 .. Len(q)
  BY <1>1
<1>3. 1 \in 1 .. Len(q)
  BY <1>1
<1> QED BY <1>1, <1>2, <1>3 DEF Has

(* Responses that are no longer current are as many as before. *)
LEMMA AirLoad ==
  ASSUME IsFiniteSet(air), NEW a, a = {NoLongerCurrent(f) : f \in air}
  PROVE  IsFiniteSet(a) /\ Cardinality(a) <= Cardinality(air)
<1> DEFINE g == [f \in air |-> NoLongerCurrent(f)]
<1>1. g \in Surjection(air, a)
  BY DEF Surjection
<1> QED BY <1>1, FS_Surjection
(* Msg_ReSendLater of TX_CHECK finds a timer, and one that starts its delay *)
(* allows the full load.                                                    *)
LEMMA ReSendLoad ==
  ASSUME PoolsAssumption, NEW q \in Seq(MsgId), NEW T \in SUBSET Timer,
         \A t, u \in T : t.id = TX_RESP_TIMEOUT /\ u.id = TX_RESP_TIMEOUT => t = u,
         NEW a, IsFiniteSet(a), NEW poll \in BOOLEAN,
         Load(q, T, a, poll) <= Full - 1
  PROVE  LET rest == CancelTimers(T, TX_CHECK)
             T2 == StartTimer(rest, TX_CHECK, TxCheckDelay)
             q2 == DTask_CancelMsg(q, TX_CHECK) IN
         /\ ~ StartFails(rest)
         /\ Within(Load(q2, T2, a, poll), T2, TRUE)
         /\ Within(Load(q2, rest, a, poll), rest, TRUE)
<1> DEFINE rest == CancelTimers(T, TX_CHECK)
           T2 == StartTimer(rest, TX_CHECK, TxCheckDelay)
           q2 == DTask_CancelMsg(q, TX_CHECK)
<1>1. TX_CHECK \in TimerId /\ TX_CHECK \in MsgId
  BY DEF TimerId, MsgId
<1>2. \A t : t \in rest <=> t \in T /\ t.id # TX_CHECK
  BY DEF CancelTimers
<1> HIDE DEF rest
<1>3. ~ StartFails(rest)
  <2>1. \A t \in rest : t.id = TX_RESP_TIMEOUT
    BY <1>2 DEF Timer, TimerId
  <2>2. \A t, u \in rest : t = u
    BY <1>2, <2>1
  <2>3. rest \in SUBSET Timer
    BY <1>2
  <2>4. IsFiniteSet(rest) /\ Cardinality(rest) <= 1 /\ Cardinality(rest) \in Nat
    BY <2>1, <2>2, <2>3, FewTimers, FS_CardinalityType
  <2> QED BY <2>4, Numbers DEF StartFails, PoolsAssumption
<1>4. T2 = rest \cup {[id |-> TX_CHECK, left |-> TxCheckDelay]}
  BY <1>3 DEF StartTimer
<1>5. q2 \in Seq(MsgId) /\ Len(q2) = Len(q) /\ ~ Has(q2, TX_CHECK)
  BY <1>1, CancelMsgFacts, CancelLoad
<1>6. /\ Runs(rest, TX_RESP_TIMEOUT) => Runs(T, TX_RESP_TIMEOUT)
      /\ Runs(T2, TX_RESP_TIMEOUT) => Runs(T, TX_RESP_TIMEOUT)
  BY <1>2, <1>4 DEF Runs
<1> HIDE DEF q2, T2
<1>7. Len(q) \in Nat /\ Cardinality(a) \in Nat
  BY LoadType
<1>8. Load(q2, rest, a, poll) <= Full - 1 /\ Load(q2, T2, a, poll) <= Full - 1
  <2>1. ~ Has(q2, TX_CHECK) /\ Cardinality(a) <= Cardinality(a)
    BY <1>5, <1>7
  <2> DEFINE old == Load(q, T, a, poll)   x == Load(q2, rest, a, poll)
             f == Full                    y == Load(q2, T2, a, poll)
  <2>2. x <= old /\ y <= old
    BY <1>5, <1>6, <2>1, LoadChange
  <2>3. old \in Nat /\ x \in Nat /\ y \in Nat /\ f \in Nat /\ old <= f - 1
    BY <1>5, <1>6, <2>1, LoadChange, Numbers
  <2> HIDE DEF old, x, y, f
  <2>4. x <= f - 1 /\ y <= f - 1
    BY <2>2, <2>3
  <2> QED BY <2>4 DEF x, y, f
<1>9. Load(q2, rest, a, poll) \in Nat /\ Load(q2, T2, a, poll) \in Nat
  BY <1>5, LoadType
<1>10. \A t \in rest : t.id # TX_CHECK
  BY <1>2
<1>11. \A t \in T2 : t.id = TX_CHECK => t.left = TxCheckDelay
  BY <1>4, <1>10
<1>12. Within(Load(q2, rest, a, poll), rest, TRUE)
  BY <1>8, <1>10 DEF Within, One
<1>13. Within(Load(q2, T2, a, poll), T2, TRUE)
  <2>1. One(TRUE) = 1
    BY DEF One
  <2>2. Load(q2, T2, a, poll) <= Full - 1 - (TxCheckDelay - TxCheckDelay)
    BY <1>8, <1>9, Numbers
  <2> QED BY <1>8, <1>11, <2>1, <2>2 DEF Within
<1> QED BY <1>3, <1>12, <1>13 DEF rest, q2, T2

LoadInv == IInv /\ LoadBounded /\ PoolsSuffice

LEMMA LoadFacts ==
  ASSUME LoadInv
  PROVE  /\ TaskList \in Seq(MsgId) /\ timers \in SUBSET Timer /\ NeedPoll \in BOOLEAN
         /\ lost = FALSE /\ IsFiniteSet(air) /\ Cardinality(air) \in Nat
         /\ Cardinality(air) <= MaxAir
         /\ Load(TaskList, timers, air, NeedPoll) \in Nat
         /\ Within(Load(TaskList, timers, air, NeedPoll), timers, Taken)
         /\ Taken \in BOOLEAN
         /\ \A t, u \in timers : t.id = u.id => t = u
         /\ SYS_MSG_NONE \in MsgId /\ TX_CHECK \in MsgId /\ TX_RESP_TIMEOUT \in MsgId
<1>1. TaskList \in Seq(MsgId) /\ timers \in SUBSET Timer /\ NeedPoll \in BOOLEAN
  BY DEF LoadInv, IInv, TypeOK
<1>2. lost = FALSE
  BY DEF LoadInv, PoolsSuffice, IInv, TypeOK
<1>3. IsFiniteSet(air) /\ Cardinality(air) \in Nat /\ Cardinality(air) <= MaxAir
  BY FS_CardinalityType DEF LoadInv, LoadBounded
<1>4. Load(TaskList, timers, air, NeedPoll) \in Nat
  BY <1>1, <1>3, LoadType
<1>5. \A t, u \in timers : t.id = u.id => t = u
  <2>1. \A t \in timers : t.id \in TimerId
    BY <1>1 DEF Timer
  <2> QED BY <2>1 DEF LoadInv, IInv, SingleShot, AtMostOnce
<1>6. SYS_MSG_NONE \in MsgId /\ TX_CHECK \in MsgId /\ TX_RESP_TIMEOUT \in MsgId
  BY DEF MsgId, TimerId
<1> QED BY <1>1, <1>2, <1>3, <1>4, <1>5, <1>6 DEF LoadInv, LoadBounded, Taken

(* A request: TX_CHECK is taken from where it was and started anew. *)
LEMMA RequestLoad ==
  ASSUME LoadInv, PoolsAssumption, NEW r \in Req, MBM_Request(r)
  PROVE  LoadBounded' /\ PoolsSuffice'
<1> USE LoadFacts
<1>1. main = "app" /\ main' = main /\ UNCHANGED <<NeedPoll, air>>
  BY DEF MBM_Request, link
<1>2. CASE Tx_Mem > 0
  <2> DEFINE rest == CancelTimers(timers, TX_CHECK)
             T2 == StartTimer(rest, TX_CHECK, TxCheckDelay)
             q2 == DTask_CancelMsg(TaskList, TX_CHECK)
  <2>1. /\ TaskList' = q2 /\ timers' = IF running THEN T2 ELSE rest
        /\ lost' = (lost \/ (running /\ StartFails(rest)))
    BY <1>2 DEF MBM_Request, ArmTxCheck
  <2>2. Load(TaskList, timers, air, NeedPoll) <= Full - 1
    BY <1>1 DEF Within, Taken, One, Full
  <2>3. /\ ~ StartFails(rest)
        /\ Within(Load(q2, T2, air, NeedPoll), T2, TRUE)
        /\ Within(Load(q2, rest, air, NeedPoll), rest, TRUE)
    BY <2>2, ReSendLoad
  <2> HIDE DEF rest, T2, q2
  <2>4. Taken' = TRUE
    BY <1>1 DEF Taken
  <2> QED BY <1>1, <2>1, <2>3, <2>4 DEF LoadBounded, PoolsSuffice
<1>3. CASE ~ (Tx_Mem > 0)
  <2>1. UNCHANGED <<timers, TaskList, lost>>
    BY <1>3 DEF MBM_Request
  <2> QED BY <1>1, <2>1 DEF LoadBounded, PoolsSuffice, Taken, LoadInv
<1> QED BY <1>2, <1>3

(* What leaves the kernel and the line alone, and takes no item back. *)
LEMMA QuietLoad ==
  ASSUME LoadInv, UNCHANGED <<TaskList, timers, air, NeedPoll, lost>>,
         Taken' => Taken
  PROVE  LoadBounded' /\ PoolsSuffice'
<1> USE LoadFacts
<1>1. Taken' \in BOOLEAN
  BY DEF Taken
<1> DEFINE n == Load(TaskList, timers, air, NeedPoll)
<1>2. n \in Nat /\ Within(n, timers, Taken)
  OBVIOUS
<1> HIDE DEF n
<1>3. Within(n, timers, Taken')
  <2>1. CASE Taken' = Taken
    BY <1>2, <2>1
  <2>2. CASE Taken = TRUE /\ Taken' = FALSE
    BY <1>2, <2>2, TurnOver
  <2> QED BY <1>1, <2>1, <2>2
<1>4. Within(Load(TaskList, timers, air, NeedPoll), timers, Taken')
  BY <1>3 DEF n
<1> QED BY <1>4 DEF LoadBounded, PoolsSuffice

LEMMA ExitLoad ==
  ASSUME LoadInv, MB_Exit \/ MB_Init
  PROVE  LoadBounded' /\ PoolsSuffice'
<1> USE LoadFacts
<1>1. /\ main' = main /\ timers' = {} /\ UNCHANGED <<NeedPoll, lost>>
      /\ TaskList' = DTask_FlushMsg(TaskList) \/ TaskList' = TaskList
      /\ air' = {NoLongerCurrent(f) : f \in air} \/ air' = air
  BY DEF MB_Exit, MB_Init, EndTransaction
<1>2. IsFiniteSet(air') /\ Cardinality(air') <= Cardinality(air) /\ Cardinality(air') \in Nat
  BY <1>1, AirLoad, FS_CardinalityType
<1>3. /\ TaskList' \in Seq(MsgId) /\ Len(TaskList') = Len(TaskList)
      /\ Has(TaskList', TX_CHECK) => Has(TaskList, TX_CHECK)
  BY <1>1, FlushMsgFacts DEF Has
<1>4. ~ Runs(timers', TX_RESP_TIMEOUT)
  BY <1>1 DEF Runs
<1>5. Load(TaskList', timers', air', NeedPoll) \in Nat
  BY <1>2, <1>3, LoadType
<1>6. Load(TaskList', timers', air', NeedPoll) <= Load(TaskList, timers, air, NeedPoll)
  BY <1>2, <1>3, <1>4, LoadChange
<1>7. Within(Load(TaskList', timers', air', NeedPoll), timers', Taken)
  <2>1. timers' \in SUBSET timers
    BY <1>1
  <2> QED BY <1>5, <1>6, <2>1, NoHeavier
<1>8. Taken' = Taken
  BY <1>1 DEF Taken
<1>9. Cardinality(air') <= MaxAir
  BY <1>2, Numbers
<1> QED BY <1>1, <1>2, <1>7, <1>8, <1>9 DEF LoadBounded, PoolsSuffice

(* Do_Poll: the flag becomes an item. *)
LEMMA PollLoad ==
  ASSUME LoadInv, PoolsAssumption, Process_Run
  PROVE  LoadBounded' /\ PoolsSuffice'
<1> USE LoadFacts
<1> DEFINE s == <<SYS_MSG_POLL_PROCESS>>
           q2 == DTask_Store(TaskList, s)
<1>1. main = "poll" /\ main' = "task" /\ UNCHANGED <<timers, air>>
  BY DEF Process_Run, link
<1>2. Taken = FALSE /\ Taken' = FALSE
  BY <1>1 DEF Taken
<1>3. CASE PollRequested /\ NeedPoll /\ running
  <2>1. NeedPoll' = FALSE /\ TaskList' = q2 /\ lost' = (lost \/ StoreFails(TaskList, s))
    BY <1>3 DEF Process_Run
  <2>2. s \in Seq(MsgId) /\ Len(s) = 1 /\ s[1] = SYS_MSG_POLL_PROCESS
    BY DEF MsgId
  <2> HIDE DEF s
  <2>3. Len(TaskList) + 1 <= TASK_ITEM_NUM /\ Len(TaskList) \in Nat
    <3>1. Len(TaskList) + One(NeedPoll) <= Load(TaskList, timers, air, NeedPoll)
      BY LoadType
    <3>2. Load(TaskList, timers, air, NeedPoll) <= Full - 0
      BY <1>2 DEF Within, One
    <3>3. Len(TaskList) \in Nat /\ One(NeedPoll) = 1
      BY <1>3 DEF One
    <3> QED BY <3>1, <3>2, <3>3, Numbers DEF PoolsAssumption
  <2>4. ~ StoreFails(TaskList, s)
    BY <2>2, <2>3, Numbers DEF StoreFails
  <2>5. Len(TaskList) <= TASK_ITEM_NUM
    BY DEF LoadInv, IInv, KernelSound
  <2>6. /\ q2 \in Seq(MsgId) /\ Len(q2) = Len(TaskList) + 1
        /\ \A i \in 1 .. Len(q2) :
             q2[i] = IF i <= Len(TaskList) THEN TaskList[i] ELSE s[i - Len(TaskList)]
    <3>1. q2 = DTask_Store(TaskList, s) /\ TaskList \in Seq(MsgId) /\ s \in Seq(MsgId)
      BY <2>2
    <3> HIDE DEF q2
    <3>2. /\ q2 \in Seq(MsgId) /\ Len(q2) = Len(TaskList) + Len(s)
          /\ \A i \in 1 .. Len(q2) :
               q2[i] = IF i <= Len(TaskList) THEN TaskList[i] ELSE s[i - Len(TaskList)]
      BY <2>4, <2>5, <3>1, StoreFacts, KernelAssumption
    <3> DEFINE n == Len(TaskList)
               k == Len(s)
    <3>3. k = 1 /\ Len(q2) = n + k
      BY <2>2, <3>2
    <3> HIDE DEF n, k
    <3>4. Len(q2) = n + 1
      BY <3>3
    <3> QED BY <3>2, <3>4 DEF n
  <2>7. Has(q2, TX_CHECK) => Has(TaskList, TX_CHECK)
    <3> SUFFICES ASSUME NEW i \in 1 .. Len(q2), q2[i] = TX_CHECK
                 PROVE  Has(TaskList, TX_CHECK)
      BY DEF Has
    <3>1. i <= Len(TaskList)
      <4> SUFFICES ASSUME ~ (i <= Len(TaskList)) PROVE FALSE
        OBVIOUS
      <4>1. i - Len(TaskList) = 1
        BY <2>3, <2>6
      <4> QED BY <2>2, <2>6, <4>1
    <3>2. i \in 1 .. Len(TaskList)
      BY <2>3, <3>1
    <3> QED BY <2>6, <3>1, <3>2 DEF Has
  <2> HIDE DEF q2
  <2>8. Load(q2, timers, air, FALSE) <= Load(TaskList, timers, air, NeedPoll)
    <3>1. Cardinality(air) <= Cardinality(air) /\ NeedPoll
      BY <1>3
    <3> QED BY <2>6, <2>7, <3>1, LoadChange
  <2>9. Load(q2, timers, air, FALSE) \in Nat
    BY <2>6, LoadType
  <2>10. Within(Load(q2, timers, air, FALSE), timers, FALSE)
    <3>1. timers \in SUBSET timers /\ Within(Load(TaskList, timers, air, NeedPoll), timers, FALSE)
      BY <1>2
    <3> QED BY <2>8, <2>9, <3>1, NoHeavier
  <2> QED BY <1>1, <1>2, <2>1, <2>4, <2>10 DEF LoadBounded, PoolsSuffice
<1>4. CASE ~ (PollRequested /\ NeedPoll /\ running)
  BY <1>1, <1>2, <1>4, QuietLoad DEF Process_Run
<1> QED BY <1>3, <1>4
(* Nothing is queued: the load is what the line and the handler hold. *)
LEMMA EmptyLoad ==
  ASSUME LoadInv, TaskQueueEmpty
  PROVE  LoadBounded' /\ PoolsSuffice'
<1> USE LoadFacts
<1>1. /\ TaskList = <<>> /\ main' = "app"
      /\ UNCHANGED <<TaskList, timers, air, NeedPoll, lost>>
  BY DEF TaskQueueEmpty, kernel, link
<1>2. Len(TaskList) = 0 /\ ~ Has(TaskList, TX_CHECK)
  BY <1>1 DEF Has
<1>3. Load(TaskList, timers, air, NeedPoll) <= Rest
  <2>1. /\ One(Has(TaskList, TX_CHECK)) = 0
        /\ {One(Runs(timers, TX_RESP_TIMEOUT)), One(NeedPoll)} \subseteq {0, 1}
    BY <1>2 DEF One
  <2>2. Load(TaskList, timers, air, NeedPoll) =
          0 + 2 * 0 + One(Runs(timers, TX_RESP_TIMEOUT)) + Cardinality(air) + One(NeedPoll)
    BY <1>2, <2>1 DEF Load
  <2>3. Rest = MaxAir + 2
    BY DEF Rest
  <2> QED BY <2>1, <2>2, <2>3, Numbers
<1>4. Within(Load(TaskList, timers, air, NeedPoll), timers, TRUE)
  <2>1. One(TRUE) = 1
    BY DEF One
  <2>2. Load(TaskList, timers, air, NeedPoll) <= Full - 1
    BY <1>3, Numbers
  <2> QED BY <1>3, <2>1, <2>2 DEF Within
<1>5. Taken' = TRUE
  BY <1>1 DEF Taken
<1> QED BY <1>1, <1>4, <1>5 DEF LoadBounded, PoolsSuffice

(* An item is taken: what is left, with any of the timers. *)
LEMMA TakenLoad ==
  ASSUME LoadInv, NEW m \in MsgId, Handles(m)
  PROVE  /\ Taken' = TRUE /\ Tail(TaskList) \in Seq(MsgId)
         /\ \A T \in SUBSET timers :
              /\ Load(Tail(TaskList), T, air, NeedPoll) \in Nat
              /\ Load(Tail(TaskList), T, air, NeedPoll) <= Full - 1
              /\ Within(Load(Tail(TaskList), T, air, NeedPoll), T, TRUE)
<1> USE LoadFacts
<1>1. main = "task" /\ main' = "app" /\ TaskList # <<>>
  BY DEF Handles
<1>2. Taken = FALSE /\ Taken' = TRUE
  BY <1>1 DEF Taken
<1>3. /\ Len(TaskList) \in Nat \ {0} /\ Len(Tail(TaskList)) = Len(TaskList) - 1
      /\ Tail(TaskList) \in Seq(MsgId)
      /\ Has(Tail(TaskList), TX_CHECK) => Has(TaskList, TX_CHECK)
  BY <1>1, TakeLoad
<1>4. ASSUME NEW T \in SUBSET timers
      PROVE  /\ Load(Tail(TaskList), T, air, NeedPoll) \in Nat
             /\ Load(Tail(TaskList), T, air, NeedPoll) <= Full - 1
             /\ Within(Load(Tail(TaskList), T, air, NeedPoll), T, TRUE)
  <2>1. Runs(T, TX_RESP_TIMEOUT) => Runs(timers, TX_RESP_TIMEOUT)
    BY DEF Runs
  <2>2. Cardinality(air) <= Cardinality(air)
    OBVIOUS
  <2>3. /\ Load(Tail(TaskList), T, air, NeedPoll) \in Nat
        /\ Load(Tail(TaskList), T, air, NeedPoll) + 1 <= Load(TaskList, timers, air, NeedPoll)
    BY <1>3, <2>1, <2>2, LoadChange
  <2>4. Within(Load(TaskList, timers, air, NeedPoll), timers, FALSE)
    BY <1>2
  <2> QED BY <2>3, <2>4, Lighter
<1> QED BY <1>2, <1>3, <1>4

LEMMA DroppedLoad ==
  ASSUME LoadInv, TaskDropped
  PROVE  LoadBounded' /\ PoolsSuffice'
<1> USE LoadFacts
<1>1. PICK m \in MsgId : Handles(m)
  BY DEF TaskDropped
<1>2. TaskList' = Tail(TaskList) /\ UNCHANGED <<timers, NeedPoll, air, lost>>
  BY DEF TaskDropped, link
<1> QED BY <1>1, <1>2, TakenLoad DEF LoadBounded, PoolsSuffice

LEMMA InVainLoad ==
  ASSUME LoadInv, PoolsAssumption, TxCheckInVain
  PROVE  LoadBounded' /\ PoolsSuffice'
<1> USE LoadFacts
<1> DEFINE q == Tail(TaskList)
<1>1. Handles(TX_CHECK) /\ UNCHANGED <<NeedPoll, air>>
  BY DEF TxCheckInVain, link
<1>2. /\ Taken' = TRUE /\ q \in Seq(MsgId)
      /\ Load(q, timers, air, NeedPoll) <= Full - 1
      /\ Within(Load(q, timers, air, NeedPoll), timers, TRUE)
  BY <1>1, TakenLoad
<1> HIDE DEF q
<1>3. CASE txState = "IDLE"
  <2>1. TaskList' = q /\ timers' = timers /\ lost' = lost
    BY <1>3 DEF TxCheckInVain, q
  <2> QED BY <1>1, <1>2, <2>1 DEF LoadBounded, PoolsSuffice
<1>4. CASE txState # "IDLE"
  <2> DEFINE rest == CancelTimers(timers, TX_CHECK)
             T2 == StartTimer(rest, TX_CHECK, TxCheckDelay)
             q2 == DTask_CancelMsg(q, TX_CHECK)
  <2>1. /\ TaskList' = q2 /\ timers' = IF running THEN T2 ELSE rest
        /\ lost' = (lost \/ (running /\ StartFails(rest)))
    BY <1>4 DEF TxCheckInVain, ArmTxCheck, q
  <2>2. /\ ~ StartFails(rest)
        /\ Within(Load(q2, T2, air, NeedPoll), T2, TRUE)
        /\ Within(Load(q2, rest, air, NeedPoll), rest, TRUE)
    BY <1>2, ReSendLoad
  <2> HIDE DEF rest, T2, q2
  <2> QED BY <1>1, <1>2, <2>1, <2>2 DEF LoadBounded, PoolsSuffice
<1> QED BY <1>3, <1>4

(* A packet is sent: the TX_CHECK that is taken stood for the timeout and *)
(* the response.                                                          *)
LEMMA SendLoad ==
  ASSUME LoadInv, PoolsAssumption, TxSend
  PROVE  LoadBounded' /\ PoolsSuffice'
<1> USE LoadFacts
<1> DEFINE q == Tail(TaskList)
           u == [id |-> TX_RESP_TIMEOUT, left |-> RespTimeout]
<1>1. /\ Handles(TX_CHECK) /\ running /\ Lc = "TxIdle"
      /\ UNCHANGED NeedPoll /\ TaskList' = q
      /\ timers' = StartTimer(timers, TX_RESP_TIMEOUT, RespTimeout)
      /\ lost' = (lost \/ StartFails(timers))
      /\ air' = air \/ \E f : Cardinality(air) < MaxAir /\ air' = air \cup {f}
  BY DEF TxSend
<1>2. /\ main = "task" /\ Taken = FALSE /\ Taken' = TRUE
      /\ TaskList # <<>> /\ Head(TaskList) = TX_CHECK
  BY <1>1 DEF Handles, Taken
<1>3. /\ Len(TaskList) \in Nat \ {0} /\ Len(q) = Len(TaskList) - 1 /\ q \in Seq(MsgId)
      /\ Has(TaskList, TX_CHECK)
  BY <1>2, TakeLoad
<1>4. ~ Has(q, TX_CHECK)
  <2>1. TX_CHECK \in TimerId
    BY DEF TimerId
  <2>2. ~ Pending(timers, q, TX_CHECK)
    BY <1>1, <2>1, TakeFacts DEF LoadInv
  <2> QED BY <2>2 DEF Pending, Has
<1>5. /\ IsFiniteSet(air') /\ Cardinality(air') \in Nat /\ Cardinality(air') <= MaxAir
      /\ Cardinality(air') <= Cardinality(air) + 1
  <2>1. CASE air' = air
    BY <2>1
  <2>2. ASSUME NEW f, Cardinality(air) < MaxAir, air' = air \cup {f}
        PROVE  /\ IsFiniteSet(air') /\ Cardinality(air') \in Nat
               /\ Cardinality(air') <= MaxAir /\ Cardinality(air') <= Cardinality(air) + 1
    <3>1. /\ IsFiniteSet(air') /\ Cardinality(air') \in Nat
          /\ Cardinality(air') = Cardinality(air) \/ Cardinality(air') = Cardinality(air) + 1
      BY <2>2, FS_AddElement, FS_CardinalityType
    <3> QED BY <2>2, <3>1, Numbers
  <2> QED BY <1>1, <2>1, <2>2
<1>6. ~ Runs(timers, TX_RESP_TIMEOUT)
  BY <1>1 DEF LoadInv, IInv, NoStrayTimeout, Live, Pending, Runs
<1>7. ~ StartFails(timers)
  <2>1. \A t \in timers : t.id = TX_CHECK
    BY <1>6 DEF Runs, Timer, TimerId
  <2>2. \A t, v \in timers : t = v
    BY <2>1
  <2>3. IsFiniteSet(timers) /\ Cardinality(timers) <= 1 /\ Cardinality(timers) \in Nat
    BY <2>1, <2>2, FewTimers, FS_CardinalityType
  <2> QED BY <2>3, Numbers DEF StartFails, PoolsAssumption
<1>8. timers' = timers \cup {u} /\ lost' = FALSE
  BY <1>1, <1>7 DEF StartTimer
<1> HIDE DEF q
<1>9. Load(q, timers', air', NeedPoll) \in Nat
  BY <1>3, <1>5, LoadType
<1>10. Load(q, timers', air', NeedPoll) + 1 <= Load(TaskList, timers, air, NeedPoll)
  BY <1>3, <1>4, <1>5, <1>6 DEF Load, One
<1>11. Within(Load(q, timers', air', NeedPoll), timers, TRUE)
  <2>1. timers \in SUBSET timers /\ Within(Load(TaskList, timers, air, NeedPoll), timers, FALSE)
    BY <1>2
  <2> QED BY <1>9, <1>10, <2>1, Lighter
<1>12. u.id # TX_CHECK
  OBVIOUS
<1>13. Within(Load(q, timers', air', NeedPoll), timers', TRUE)
  BY <1>8, <1>11, <1>12 DEF Within
<1> QED BY <1>1, <1>2, <1>5, <1>8, <1>13 DEF LoadBounded, PoolsSuffice

(* The end of a transaction. *)
LEMMA CompleteLoad ==
  ASSUME LoadInv, PoolsAssumption, NEW err, NEW T \in SUBSET timers, NEW q \in Seq(MsgId),
         Load(q, T, air, NeedPoll) <= Full - 1,
         Within(Load(q, T, air, NeedPoll), T, TRUE),
         Taken' = TRUE, Complete(err, q, T)
  PROVE  LoadBounded' /\ PoolsSuffice'
<1> USE LoadFacts
<1>1. /\ air' = {NoLongerCurrent(f) : f \in air} /\ UNCHANGED NeedPoll
      /\ Rearm(q, T, Tx_List' # <<>>)
  BY DEF Complete, EndTransaction
<1>2. IsFiniteSet(air') /\ Cardinality(air') <= Cardinality(air) /\ Cardinality(air') \in Nat
  BY <1>1, AirLoad, FS_CardinalityType
<1>3. /\ Load(q, T, air', NeedPoll) \in Nat
      /\ Load(q, T, air', NeedPoll) <= Load(q, T, air, NeedPoll)
      /\ Load(q, T, air, NeedPoll) \in Nat
  BY <1>2, LoadChange
<1>4. Load(q, T, air', NeedPoll) <= Full - 1
  BY <1>3, Numbers
<1>5. Cardinality(air') <= MaxAir
  BY <1>2, Numbers
<1>6. CASE Tx_List' # <<>>
  <2> DEFINE rest == CancelTimers(T, TX_CHECK)
             T2 == StartTimer(rest, TX_CHECK, TxCheckDelay)
             q2 == DTask_CancelMsg(q, TX_CHECK)
  <2>1. TaskList' = q2 /\ timers' = T2 /\ lost' = (lost \/ StartFails(rest))
    BY <1>1, <1>6 DEF Rearm
  <2>2. \A t, v \in T : t.id = TX_RESP_TIMEOUT /\ v.id = TX_RESP_TIMEOUT => t = v
    OBVIOUS
  <2>3. T \in SUBSET Timer
    OBVIOUS
  <2>4. ~ StartFails(rest) /\ Within(Load(q2, T2, air', NeedPoll), T2, TRUE)
    BY <1>2, <1>4, <2>2, <2>3, ReSendLoad
  <2> HIDE DEF rest, T2, q2
  <2> QED BY <1>1, <1>2, <1>5, <2>1, <2>4 DEF LoadBounded, PoolsSuffice
<1>7. CASE ~ (Tx_List' # <<>>)
  <2>1. TaskList' = q /\ timers' = T /\ lost' = lost
    BY <1>1, <1>7 DEF Rearm
  <2>2. Within(Load(q, T, air', NeedPoll), T, TRUE)
    <3>1. T \in SUBSET Timer /\ T \in SUBSET T
      OBVIOUS
    <3> QED BY <1>3, <3>1, NoHeavier
  <2> QED BY <1>1, <1>2, <1>5, <2>1, <2>2 DEF LoadBounded, PoolsSuffice
<1> QED BY <1>6, <1>7

LEMMA ReportLoad ==
  ASSUME LoadInv, PoolsAssumption, RespTimedOut \/ RespArrived
  PROVE  LoadBounded' /\ PoolsSuffice'
<1> USE LoadFacts
<1>1. CASE RespTimedOut
  <2>1. Handles(TX_RESP_TIMEOUT) /\ Complete("TIME_OUT", Tail(TaskList), timers)
    BY <1>1 DEF RespTimedOut
  <2>2. timers \in SUBSET timers
    OBVIOUS
  <2> QED BY <2>1, <2>2, TakenLoad, CompleteLoad
<1>2. CASE RespArrived
  <2> DEFINE q == DTask_CancelMsg(Tail(TaskList), TX_RESP_TIMEOUT)
             T == CancelTimers(timers, TX_RESP_TIMEOUT)
  <2>1. Handles(SYS_MSG_POLL_PROCESS) /\ Complete(MBM_ParseResp(TxData, RxData), q, T)
    BY <1>2 DEF RespArrived
  <2>2. T \in SUBSET timers
    BY DEF CancelTimers
  <2>3. SYS_MSG_POLL_PROCESS \in MsgId
    BY DEF MsgId
  <2>4. /\ Taken' = TRUE /\ Tail(TaskList) \in Seq(MsgId)
        /\ Load(Tail(TaskList), T, air, NeedPoll) \in Nat
        /\ Load(Tail(TaskList), T, air, NeedPoll) <= Full - 1
        /\ Within(Load(Tail(TaskList), T, air, NeedPoll), T, TRUE)
    BY <2>1, <2>2, <2>3, TakenLoad
  <2>5. /\ q \in Seq(MsgId) /\ Len(q) = Len(Tail(TaskList)) /\ Len(q) \in Nat
        /\ Has(q, TX_CHECK) => Has(Tail(TaskList), TX_CHECK)
    <3>1. TX_RESP_TIMEOUT \in MsgId
      OBVIOUS
    <3>2. q \in Seq(MsgId) /\ Len(q) = Len(Tail(TaskList))
      BY <2>4, <3>1, CancelMsgFacts
    <3>3. Has(q, TX_CHECK) => Has(Tail(TaskList), TX_CHECK)
      BY <2>4, <3>1, CancelLoad
    <3> QED BY <3>2, <3>3
  <2> HIDE DEF q, T
  <2>6. /\ Load(q, T, air, NeedPoll) \in Nat
        /\ Load(q, T, air, NeedPoll) <= Load(Tail(TaskList), T, air, NeedPoll)
    <3>1. Cardinality(air) <= Cardinality(air)
      OBVIOUS
    <3> QED BY <2>4, <2>5, <3>1, LoadChange
  <2>7. /\ Load(q, T, air, NeedPoll) <= Full - 1
        /\ Within(Load(q, T, air, NeedPoll), T, TRUE)
    <3>1. T \in SUBSET Timer /\ T \in SUBSET T
      BY <2>2
    <3>2. Within(Load(q, T, air, NeedPoll), T, TRUE)
      BY <2>4, <2>6, <3>1, NoHeavier
    <3> DEFINE x == Load(q, T, air, NeedPoll)
               y == Load(Tail(TaskList), T, air, NeedPoll)
               f == Full
    <3>3. x \in Nat /\ y \in Nat /\ f \in Nat /\ x <= y /\ y <= f - 1
      BY <2>4, <2>6, Numbers
    <3> HIDE DEF x, y, f
    <3>4. x <= f - 1
      BY <3>3
    <3> QED BY <3>2, <3>4 DEF x, f
  <2> QED BY <2>1, <2>2, <2>4, <2>5, <2>7, CompleteLoad
<1> QED BY <1>1, <1>2

(* Of two messages, those that are due come once each. *)
LEMMA OrderLength ==
  ASSUME NEW D \in SUBSET TimerId, NEW s \in Orders(D)
  PROVE  Len(s) = One(TX_CHECK \in D) + One(TX_RESP_TIMEOUT \in D)
<1>1. /\ s \in Seq(MsgId) /\ \A i \in 1 .. Len(s) : s[i] \in D
      /\ \A d \in D : \E i \in 1 .. Len(s) : s[i] = d
      /\ \A i, j \in 1 .. Len(s) : s[i] = s[j] => i = j
  BY OrdersFacts
<1>2. Len(s) \in 0 .. 2
  <2>1. PICK n \in 0 .. 2 : s \in [1 .. n -> D]
    BY DEF Orders
  <2>2. Len(s) = n
    BY <1>1, <2>1
  <2> QED BY <2>2
<1>3. \A d \in D : d = TX_CHECK \/ d = TX_RESP_TIMEOUT
  BY DEF TimerId
<1>4. TX_CHECK # TX_RESP_TIMEOUT
  BY DEF TX_CHECK, TX_RESP_TIMEOUT
<1>5. CASE Len(s) = 0
  <2>1. TX_CHECK \notin D /\ TX_RESP_TIMEOUT \notin D
    BY <1>1, <1>5
  <2> QED BY <1>5, <2>1 DEF One
<1>6. CASE Len(s) = 1
  <2>1. \A d \in D : d = s[1]
    BY <1>1, <1>6
  <2>2. s[1] \in D
    BY <1>1, <1>6
  <2> QED BY <1>3, <1>4, <1>6, <2>1, <2>2 DEF One
<1>7. CASE Len(s) = 2
  <2>1. s[1] \in D /\ s[2] \in D /\ s[1] # s[2]
    BY <1>1, <1>7
  <2> QED BY <1>3, <1>7, <2>1 DEF One
<1> QED BY <1>2, <1>5, <1>6, <1>7

(* A tick: a timer that expires becomes an item, and with TX_CHECK comes  *)
(* what it can bring; by then the load is down to Rest.                    *)
LEMMA TickLoad ==
  ASSUME LoadInv, PoolsAssumption, Msg_Run1ms
  PROVE  LoadBounded' /\ PoolsSuffice'
<1> USE LoadFacts
<1> DEFINE T2 == {t \in Aged(timers) : t.left # 0}
           D  == Due(Aged(timers))
           L  == Load(TaskList, timers, air, NeedPoll)
<1>1. /\ main = "app" /\ main' = "poll" /\ timers' = T2 /\ UNCHANGED <<NeedPoll, air>>
  BY DEF Msg_Run1ms, link
<1>2. PICK s \in Orders(D) : /\ TaskList' = DTask_Store(TaskList, s)
                            /\ lost' = (lost \/ StoreFails(TaskList, s))
  BY DEF Msg_Run1ms
<1>3. Taken = TRUE /\ Taken' = FALSE
  BY <1>1 DEF Taken
<1>4. \A u \in T2 : \E t \in timers : t.id = u.id /\ t.left = u.left + 1
  <2> SUFFICES ASSUME NEW u \in T2
               PROVE  \E t \in timers : t.id = u.id /\ t.left = u.left + 1
    OBVIOUS
  <2>1. PICK t \in timers : u = [id |-> t.id, left |-> t.left - 1]
    BY DEF Aged
  <2>2. t.left \in Nat
    BY DEF Timer
  <2>3. t.left = u.left + 1 /\ t.id = u.id
    BY <2>1, <2>2
  <2> QED BY <2>3
<1>5. \A m \in D : \E t \in timers : t.id = m /\ t.left = 1
  <2> SUFFICES ASSUME NEW m \in D PROVE \E t \in timers : t.id = m /\ t.left = 1
    OBVIOUS
  <2>1. PICK u \in Aged(timers) : u.left = 0 /\ u.id = m
    BY DEF Due
  <2>2. PICK t \in timers : u = [id |-> t.id, left |-> t.left - 1]
    BY <2>1 DEF Aged
  <2>3. t.left \in Nat
    BY DEF Timer
  <2>4. t.left = 1 /\ t.id = m
    BY <2>1, <2>2, <2>3
  <2> QED BY <2>4
<1>6. D \in SUBSET TimerId
  BY <1>5 DEF Timer
<1>7. \A u \in T2 : u.left # 0 /\ u.left \in Nat /\ u.id \notin D
  <2> SUFFICES ASSUME NEW u \in T2 PROVE u.left # 0 /\ u.left \in Nat /\ u.id \notin D
    OBVIOUS
  <2>1. u.left # 0
    OBVIOUS
  <2>2. PICK t \in timers : u = [id |-> t.id, left |-> t.left - 1]
    BY DEF Aged
  <2>3. t.left \in Nat /\ t.left # 0
    BY DEF Timer, LoadInv, IInv, KernelSound
  <2>4. u.left \in Nat /\ t.left = u.left + 1 /\ t.id = u.id
    BY <2>2, <2>3
  <2>5. ASSUME u.id \in D PROVE FALSE
    <3>1. PICK v \in timers : v.id = u.id /\ v.left = 1
      BY <1>5, <2>5
    <3>2. v = t
      BY <2>4, <3>1
    <3> QED BY <2>1, <2>4, <3>1, <3>2
  <2> QED BY <2>1, <2>4, <2>5
<1> HIDE DEF T2, D
<1>8. Len(s) = One(TX_CHECK \in D) + One(TX_RESP_TIMEOUT \in D)
  BY <1>2, <1>6, OrderLength
<1>9. /\ s \in Seq(MsgId) /\ \A i \in 1 .. Len(s) : s[i] \in D
  BY <1>2, <1>6, OrdersFacts
<1>10. TX_RESP_TIMEOUT \in D => Runs(timers, TX_RESP_TIMEOUT)
  BY <1>5 DEF Runs
<1>11. Runs(T2, TX_RESP_TIMEOUT) => Runs(timers, TX_RESP_TIMEOUT) /\ TX_RESP_TIMEOUT \notin D
  BY <1>4, <1>7 DEF Runs
<1>12. Len(TaskList) \in Nat /\ MaxAir \in Nat /\ TASK_ITEM_NUM \in Nat /\ TxCheckDelay \in Nat
  BY Numbers
<1>13. L <= Full - 1 /\ L \in Nat
  <2>1. One(TRUE) = 1
    BY DEF One
  <2> QED BY <1>3, <2>1 DEF Within
<1>14. TX_CHECK \in D => L <= Rest
  <2> SUFFICES ASSUME TX_CHECK \in D PROVE L <= Rest
    OBVIOUS
  <2>1. PICK t \in timers : t.id = TX_CHECK /\ t.left = 1
    BY <1>5
  <2>2. L <= Rest \/ L <= Full - 1 - (TxCheckDelay - 1)
    BY <1>3, <2>1 DEF Within, One
  <2> HIDE DEF L
  <2> QED BY <1>12, <1>13, <2>2 DEF Full, Rest, PoolsAssumption
<1> DEFINE due == One(TX_RESP_TIMEOUT \in D)
           ran == One(Runs(timers, TX_RESP_TIMEOUT))
           had == One(Has(TaskList, TX_CHECK))
<1>15. Len(TaskList) + Len(s) <= L + 1
  <2>1. {One(TX_CHECK \in D), due, ran, had, One(NeedPoll)} \subseteq {0, 1} /\ due <= ran
    BY <1>10 DEF One
  <2>2. L = Len(TaskList) + 2 * had + ran + Cardinality(air) + One(NeedPoll)
    BY DEF Load
  <2>3. Len(s) = One(TX_CHECK \in D) + due
    BY <1>8
  <2> HIDE DEF due, ran, had, L
  <2> QED BY <1>12, <2>1, <2>2, <2>3
<1>16. ~ StoreFails(TaskList, s)
  <2> HIDE DEF L
  <2>1. Len(s) \in Nat
    BY <1>9
  <2> QED BY <1>12, <1>13, <1>15, <2>1, Numbers DEF StoreFails, PoolsAssumption
<1>17. /\ TaskList' \in Seq(MsgId) /\ Len(TaskList') = Len(TaskList) + Len(s)
       /\ \A i \in 1 .. Len(TaskList') :
            TaskList'[i] = IF i <= Len(TaskList) THEN TaskList[i] ELSE s[i - Len(TaskList)]
  <2>1. Len(TaskList) <= TASK_ITEM_NUM
    BY DEF LoadInv, IInv, KernelSound
  <2> QED BY <1>2, <1>9, <1>16, <2>1, StoreFacts, KernelAssumption
<1>18. Has(TaskList', TX_CHECK) => Has(TaskList, TX_CHECK) \/ TX_CHECK \in D
  <2> SUFFICES ASSUME NEW i \in 1 .. Len(TaskList'), TaskList'[i] = TX_CHECK, TX_CHECK \notin D
               PROVE  Has(TaskList, TX_CHECK)
    BY DEF Has
  <2>1. Len(s) \in Nat
    BY <1>9
  <2>2. i <= Len(TaskList)
    <3> SUFFICES ASSUME ~ (i <= Len(TaskList)) PROVE FALSE
      OBVIOUS
    <3>1. i - Len(TaskList) \in 1 .. Len(s)
      BY <1>12, <1>17, <2>1
    <3> QED BY <1>9, <1>17, <3>1
  <2>3. i \in 1 .. Len(TaskList)
    BY <1>12, <2>2
  <2> QED BY <1>17, <2>2, <2>3 DEF Has
<1> DEFINE N == Load(TaskList', T2, air, NeedPoll)
<1>19. N \in Nat
  BY <1>17, LoadType
<1> DEFINE runs == One(Runs(T2, TX_RESP_TIMEOUT))
           has == One(Has(TaskList', TX_CHECK))
           n == Len(TaskList)
           k == Len(s)
           c == Cardinality(air)
           p == One(NeedPoll)
<1>20. /\ n \in Nat /\ k \in Nat /\ c \in Nat /\ p \in Nat
       /\ due \in Nat /\ runs \in Nat /\ ran \in Nat /\ has \in Nat /\ had \in Nat
  BY <1>9, <1>12 DEF One
<1>21. has <= 1 /\ due + runs <= ran /\ (TX_CHECK \notin D => has <= had)
  BY <1>10, <1>11, <1>18 DEF One
<1>22. L = n + 2 * had + ran + c + p /\ N = n + k + 2 * has + runs + c + p
  BY <1>17 DEF Load
<1>23. /\ TX_CHECK \notin D => k = 0 + due
       /\ TX_CHECK \in D => k = 1 + due
  BY <1>8 DEF One
<1>24. L \in Nat /\ N \in Nat
  BY <1>13, <1>19, <1>20
<1> HIDE DEF due, runs, ran, has, had, c, p, n, k, N, L
<1>25. TX_CHECK \notin D => N <= L
  BY <1>20, <1>21, <1>22, <1>23, <1>24
<1>26. TX_CHECK \in D => N <= L + 3
  <2>1. has <= 1 /\ due + runs <= ran /\ k = 1 + due => N <= L + 3
    BY <1>20, <1>22, <1>24
  <2> QED BY <1>21, <1>23, <2>1
<1> HIDE DEF N, L
<1>27. Within(N, T2, FALSE)
  <2>1. CASE TX_CHECK \in D
    <3>1. N <= Full
      BY <1>12, <1>13, <1>14, <1>19, <1>26, <2>1 DEF Full, Rest
    <3>2. \A u \in T2 : u.id # TX_CHECK
      BY <1>7, <2>1
    <3> QED BY <1>12, <3>1, <3>2 DEF Within, One, Full
  <2>2. CASE TX_CHECK \notin D
    <3>1. N <= Full
      BY <1>12, <1>13, <1>19, <1>25, <2>2 DEF Full
    <3>2. ASSUME NEW u \in T2, u.id = TX_CHECK
          PROVE  N <= Rest \/ N <= Full - (TxCheckDelay - u.left)
      <4>1. PICK t \in timers : t.id = u.id /\ t.left = u.left + 1
        BY <1>4
      <4>2. L <= Rest \/ L <= Full - 1 - (TxCheckDelay - (u.left + 1))
        BY <1>3, <3>2, <4>1 DEF Within, One, L
      <4> QED BY <1>7, <1>12, <1>13, <1>19, <1>25, <2>2, <4>2 DEF Full, Rest
    <3> QED BY <1>12, <3>1, <3>2 DEF Within, One, Full
  <2> QED BY <2>1, <2>2
<1> QED BY <1>1, <1>2, <1>3, <1>16, <1>27 DEF LoadBounded, PoolsSuffice, N

(* A frame leaves the line; at most the poll for it is wanted now. *)
LEMMA LineLoad ==
  ASSUME LoadInv, NEW f \in air, Receive(f) \/ Lose(f)
  PROVE  LoadBounded' /\ PoolsSuffice'
<1> USE LoadFacts
<1>1. /\ air' = air \ {f} /\ NeedPoll' \in BOOLEAN
      /\ UNCHANGED <<main, TaskList, timers, lost>>
  BY DEF Receive, Lose, RxSignal, kernel, IInv, TypeOK, LoadInv
<1>2. /\ IsFiniteSet(air') /\ Cardinality(air') = Cardinality(air) - 1
      /\ Cardinality(air') \in Nat
  BY <1>1, FS_RemoveElement, FS_CardinalityType
<1>3. Taken' = Taken
  BY <1>1 DEF Taken
<1>4. /\ Load(TaskList, timers, air', NeedPoll') \in Nat
      /\ Load(TaskList, timers, air', NeedPoll') <= Load(TaskList, timers, air, NeedPoll)
  <2>1. Load(TaskList, timers, air', NeedPoll') \in Nat /\ Len(TaskList) \in Nat
    BY <1>1, <1>2, LoadType
  <2>2. {One(NeedPoll), One(NeedPoll')} \subseteq {0, 1}
    BY DEF One
  <2>3. {One(Has(TaskList, TX_CHECK)), One(Runs(timers, TX_RESP_TIMEOUT))} \subseteq {0, 1}
    BY DEF One
  <2> HIDE DEF One
  <2> QED BY <1>2, <2>1, <2>2, <2>3 DEF Load
<1>5. Within(Load(TaskList, timers, air', NeedPoll'), timers, Taken)
  <2>1. timers \in SUBSET timers
    OBVIOUS
  <2> QED BY <1>4, <2>1, NoHeavier
<1>6. Cardinality(air') <= MaxAir
  BY <1>2, Numbers
<1> QED BY <1>1, <1>2, <1>3, <1>5, <1>6 DEF LoadBounded, PoolsSuffice

LEMMA LoadStep ==
  ASSUME LoadInv, PoolsAssumption, [Next]_vars
  PROVE  LoadBounded' /\ PoolsSuffice'
<1>1. ASSUME UNCHANGED <<TaskList, timers, air, NeedPoll, lost>>, Taken' => Taken
      PROVE  LoadBounded' /\ PoolsSuffice'
  BY <1>1, QuietLoad
<1>2. CASE Application
  <2>1. ASSUME NEW r \in Req, MBM_Request(r) PROVE LoadBounded' /\ PoolsSuffice'
    BY <2>1, RequestLoad
  <2>2. ASSUME NEW a \in FlushAddr, MBM_TxFlush(a) PROVE LoadBounded' /\ PoolsSuffice'
    BY <1>1, <2>2 DEF MBM_TxFlush, kernel, link, Taken
  <2>3. CASE MBM_TxFlush_Loop
    BY <1>1, <2>3 DEF MBM_TxFlush_Loop, vars, Taken
  <2>4. CASE MB_Exit \/ MB_Init
    BY <2>4, ExitLoad
  <2> QED BY <1>2, <2>1, <2>2, <2>3, <2>4 DEF Application
<1>3. CASE MainLoop
  <2>1. CASE Process_Run
    BY <2>1, PollLoad
  <2>2. CASE DTask_Run
    BY <2>2, EmptyLoad, DroppedLoad, InVainLoad, SendLoad, ReportLoad DEF DTask_Run
  <2>3. CASE NoTick
    BY <1>1, <2>3 DEF NoTick, kernel, link, Taken
  <2>4. CASE Msg_Run1ms
    BY <2>4, TickLoad
  <2> QED BY <1>3, <2>1, <2>2, <2>3, <2>4 DEF MainLoop
<1>4. CASE Line
  BY <1>4, LineLoad DEF Line
<1>5. CASE UNCHANGED vars
  BY <1>1, <1>5 DEF vars, Taken
<1> QED BY <1>2, <1>3, <1>4, <1>5 DEF Next

(* The kernel drops nothing of a channel whose pools hold two timers and     *)
(* MaxAir + 5 items: the poll message, the timer messages and what is late   *)
(* never need more, at the rate at which DTask_Run takes items and TX_CHECK  *)
(* can come back (mb_os.c, TxProcHandler; d_os.h, the pools).                *)
THEOREM PoolsAlwaysSuffice ==
  ASSUME PoolsAssumption
  PROVE  Spec => []PoolsSuffice
<1>1. Init => LoadBounded /\ PoolsSuffice
  <2> SUFFICES ASSUME Init PROVE LoadBounded /\ PoolsSuffice
    OBVIOUS
  <2>1. /\ TaskList = <<>> /\ timers = {} /\ air = {} /\ NeedPoll = FALSE /\ lost = FALSE
        /\ main = "app"
    BY DEF Init
  <2>2. IsFiniteSet(air) /\ Cardinality(air) = 0
    BY <2>1, FS_EmptySet
  <2>3. Len(TaskList) = 0 /\ ~ Has(TaskList, TX_CHECK) /\ ~ Runs(timers, TX_RESP_TIMEOUT)
    BY <2>1 DEF Has, Runs
  <2>4. Load(TaskList, timers, air, NeedPoll) = 0
    BY <2>1, <2>2, <2>3 DEF Load, One
  <2>5. MaxAir \in Nat
    BY Numbers
  <2> QED BY <2>1, <2>2, <2>4, <2>5 DEF LoadBounded, PoolsSuffice, Within, One, Full, Rest
<1>2. IInv /\ LoadBounded /\ PoolsSuffice /\ [Next]_vars => LoadBounded' /\ PoolsSuffice'
  BY LoadStep DEF LoadInv
<1> QED BY <1>1, <1>2, Invariance, PTL DEF Spec
=============================================================================

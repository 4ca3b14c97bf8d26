------------------------------ MODULE DosKernel ------------------------------
(***************************************************************************)
(* The services of DING OS that a process uses, as operators on the two    *)
(* structures they work on, for one process:                               *)
(*                                                                         *)
(*  - its timers, the process's TimerList (message.c): a set of records    *)
(*    [id, left], left being RemainTime() = TimeMatch - TimerTick;         *)
(*  - its items of the task queue TaskElementList (d_task.c): a sequence   *)
(*    of message identifiers, oldest first.                                *)
(*                                                                         *)
(* The hashed timer table in which message.c keeps the timers is modelled  *)
(* in module MsgTimer.                                                     *)
(***************************************************************************)
EXTENDS Naturals, Sequences, FiniteSets

CONSTANTS
  TASK_ITEM_NUM,   \* items of the task pool TaskElementMem
  MSG_TIMER_NUM    \* timers of the pool MsgTimerMem

ASSUME KernelAssumption ==
  /\ TASK_ITEM_NUM \in Nat \ {0}
  /\ MSG_TIMER_NUM \in Nat \ {0}

(***************************************************************************)
(* Message identifiers: those of TxProcHandler, the poll message, and the  *)
(* mark that a cancelled item of the task queue carries.                   *)
(***************************************************************************)
TX_CHECK             == "TX_CHECK"
TX_RESP_TIMEOUT      == "TX_RESP_TIMEOUT"
SYS_MSG_POLL_PROCESS == "SYS_MSG_POLL_PROCESS"
SYS_MSG_NONE         == "SYS_MSG_NONE"

TimerId == {TX_CHECK, TX_RESP_TIMEOUT}
MsgId   == TimerId \cup {SYS_MSG_POLL_PROCESS, SYS_MSG_NONE}
Timer   == [id : TimerId, left : Nat]

-----------------------------------------------------------------------------
(* The task queue. *)

(* DTask_Store of every message of s, in order, as far as the pool has room. *)
DTask_Store(q, s) ==
  IF Len(q) + Len(s) <= TASK_ITEM_NUM
  THEN q \o s
  ELSE SubSeq(q \o s, 1, TASK_ITEM_NUM)

(* Whether that call drops a message. *)
StoreFails(q, s) == Len(q) + Len(s) > TASK_ITEM_NUM

(* Mutant of DTask_CancelMsg: what is queued already stays. *)
DTask_CancelMsg_Not(q, m) == q

(* DTask_CancelMsg keeps the item in the queue and blanks its identifier. *)
DTask_CancelMsg(q, m) ==
  [i \in 1 .. Len(q) |-> IF q[i] = m THEN SYS_MSG_NONE ELSE q[i]]

DTask_FlushMsg(q) == [i \in 1 .. Len(q) |-> SYS_MSG_NONE]

-----------------------------------------------------------------------------
(* The timers. *)

(* Mutant of CancelTimers: the message identifier is not compared. *)
CancelTimers_All(T, m) == {}

(* The first half of Msg_CancelAll. *)
CancelTimers(T, m) == {t \in T : t.id # m}

(* Msg_Send with a delay, AllocateTimer included. *)
StartFails(T) == ~ (Cardinality(T) < MSG_TIMER_NUM)

StartTimer(T, m, delay) ==
  IF StartFails(T) THEN T ELSE T \cup {[id |-> m, left |-> delay]}

(* One TimerTick later. *)
Aged(T) == {[id |-> t.id, left |-> t.left - 1] : t \in T}

Due(T) == {t.id : t \in {u \in T : u.left = 0}}

(* The orders in which the due timers can reach the task queue. *)
Orders(D) ==
  {s \in UNION {[1 .. n -> D] : n \in 0 .. 2} :
     /\ \A d \in D : \E i \in DOMAIN s : s[i] = d
     /\ \A i, j \in DOMAIN s : s[i] = s[j] => i = j}
-----------------------------------------------------------------------------
(* What a process can expect of its messages. *)

(* Message m is on its way: its timer runs or an item of the queue holds it. *)
Pending(T, q, m) ==
  \/ \E t \in T : t.id = m
  \/ \E i \in 1 .. Len(q) : q[i] = m

(* Message m is on its way at most once, as a timer or as an item. *)
AtMostOnce(T, q, m) ==
  /\ \A t, u \in T : t.id = m /\ u.id = m => t = u
  /\ \A i, j \in 1 .. Len(q) : q[i] = m /\ q[j] = m => i = j
  /\ \A t \in T : \A i \in 1 .. Len(q) : ~ (t.id = m /\ q[i] = m)
=============================================================================

----------------------------- MODULE ProcessPoll -----------------------------
(***************************************************************************)
(* Process_Poll against the scan of Do_Poll (process.c), statement by      *)
(* statement: how a receive interrupt, or in a preemptive build another    *)
(* thread, wakes a process up.  The two share NeedPoll of each process and *)
(* PollRequested, without a lock.                                          *)
(*                                                                         *)
(* Processes start and exit while Do_Poll is not walking MyProcessList, as *)
(* in a DING OS build, where both happen in the main loop.                 *)
(***************************************************************************)
EXTENDS Naturals, Sequences

CONSTANTS
  Process,        \* the processes
  Poller,         \* the interrupts or threads that call Process_Poll
  NoProcess,      \* not a process
  TASK_ITEM_NUM,  \* items of the task pool
  MaxPending      \* bound: ProcessPendingSem when Process_Poll is called

ASSUME PollAssumption ==
  /\ NoProcess \notin Process
  /\ TASK_ITEM_NUM \in Nat \ {0}
  /\ MaxPending \in Nat \ {0}

VARIABLES
  preemptive,         \* the build: threads run Process_Run and DTask_Run, callers
                      \* interleave with them; never changes
  MyProcessList,      \* the processes that run, in the order they started
  NeedPoll,           \* NeedPoll[p]
  PollRequested,
  ProcessPendingSem,  \* its count, which only a preemptive build keeps
  pc,                 \* where Process_Run and what follows it are
  tmp,                \* the processes Do_Poll has still to look at
  p,                  \* the process Do_Poll looks at
  TaskList,           \* the processes of the SYS_MSG_POLL_PROCESS items queued
  caller,             \* caller[i]: where Process_Poll is, and for which process
  owed,               \* history: processes polled for which nothing was stored since
  lost                \* history: DTask_Store found no item

list   == <<preemptive, MyProcessList>>
scan   == <<tmp, p>>
flags  == <<NeedPoll, PollRequested>>
queue  == <<TaskList, lost>>
vars   == <<list, scan, flags, queue, ProcessPendingSem, pc, caller, owed>>

Running == {MyProcessList[i] : i \in 1 .. Len(MyProcessList)}

(* The processes that the scan has still to look at. *)
Ahead == {tmp[i] : i \in 1 .. Len(tmp)}

Idle == [at |-> "idle", p |-> NoProcess]

Callers == [at : {"idle", "need", "request", "signal"}, p : Process \cup {NoProcess}]

TypeOK ==
  /\ preemptive \in BOOLEAN
  /\ MyProcessList \in Seq(Process)
  /\ NeedPoll \in [Process -> BOOLEAN]
  /\ PollRequested \in BOOLEAN
  /\ ProcessPendingSem \in Nat
  /\ pc \in {"wait", "run", "clear", "scan", "take", "store", "task"}
  /\ tmp \in Seq(Process)
  /\ p \in Process \cup {NoProcess}
  /\ TaskList \in Seq(Process \cup {NoProcess})
  /\ Len(TaskList) <= TASK_ITEM_NUM
  /\ caller \in [Poller -> Callers]
  /\ owed \in SUBSET Process
  /\ lost \in BOOLEAN

Init ==
  /\ preemptive \in BOOLEAN
  /\ MyProcessList = <<>>
  /\ NeedPoll = [q \in Process |-> FALSE]
  /\ PollRequested = FALSE
  /\ ProcessPendingSem = 0
  /\ pc = "wait"
  /\ tmp = <<>>
  /\ p = NoProcess
  /\ TaskList = <<>>
  /\ caller = [i \in Poller |-> Idle]
  /\ owed = {}
  /\ lost = FALSE

-----------------------------------------------------------------------------
(* Threads interleave; interrupts, which have one priority, do not interrupt *)
(* each other, and one returns before the main loop goes on.                 *)
MayRun == preemptive \/ \A i \in Poller : caller[i].at = "idle"

(* Process_Poll(q), called by i. *)
Call(i, q) ==
  /\ caller[i].at = "idle"
  /\ MayRun
  /\ q \in Running
  /\ ProcessPendingSem < MaxPending
  /\ caller' = [caller EXCEPT ![i] = [at |-> "need", p |-> q]]
  /\ UNCHANGED <<list, scan, flags, queue, ProcessPendingSem, pc, owed>>

SetNeedPoll(i) ==
  /\ caller[i].at = "need"
  /\ NeedPoll' = [NeedPoll EXCEPT ![caller[i].p] = TRUE]
  /\ owed' = owed \cup ({caller[i].p} \cap Running)
  /\ caller' = [caller EXCEPT ![i].at = "request"]
  /\ UNCHANGED <<list, scan, PollRequested, queue, ProcessPendingSem, pc>>

(* Mutant of SetPollRequested: os_sem_signal is left out. *)
SetPollRequested_NoSignal(i) ==
  /\ caller[i].at = "request"
  /\ PollRequested' = TRUE
  /\ caller' = [caller EXCEPT ![i] = Idle]
  /\ UNCHANGED <<list, scan, NeedPoll, queue, ProcessPendingSem, pc, owed>>

SetPollRequested(i) ==
  /\ caller[i].at = "request"
  /\ PollRequested' = TRUE
  /\ caller' = [caller EXCEPT ![i].at = "signal"]
  /\ UNCHANGED <<list, scan, NeedPoll, queue, ProcessPendingSem, pc, owed>>

Signal(i) ==
  /\ caller[i].at = "signal"
  /\ ProcessPendingSem' = IF preemptive THEN ProcessPendingSem + 1 ELSE ProcessPendingSem
  /\ caller' = [caller EXCEPT ![i] = Idle]
  /\ UNCHANGED <<list, scan, flags, queue, pc, owed>>

Process_Poll(i) == SetNeedPoll(i) \/ SetPollRequested(i) \/ Signal(i)

-----------------------------------------------------------------------------
(* The loop: Process_Run, then DTask_Run. *)

From(place) == pc = place /\ MayRun

(* Process_Thread waits for the semaphore; the main loop just goes on. *)
Wait ==
  /\ From("wait")
  /\ pc' = "run"
  /\ IF preemptive
     THEN ProcessPendingSem > 0 /\ ProcessPendingSem' = ProcessPendingSem - 1
     ELSE UNCHANGED ProcessPendingSem
  /\ UNCHANGED <<list, scan, flags, queue, caller, owed>>

Process_Run ==
  /\ From("run")
  /\ pc' = IF PollRequested THEN "clear" ELSE "task"
  /\ UNCHANGED <<list, scan, flags, queue, ProcessPendingSem, caller, owed>>

(* Do_Poll from here to ScanOver. *)
ClearPollRequested ==
  /\ From("clear")
  /\ pc' = "scan"
  /\ PollRequested' = FALSE
  /\ tmp' = MyProcessList
  /\ UNCHANGED <<list, p, NeedPoll, queue, ProcessPendingSem, caller, owed>>

Look ==
  /\ From("scan")
  /\ tmp # <<>>
  /\ p' = Head(tmp)
  /\ tmp' = Tail(tmp)
  /\ pc' = IF NeedPoll[Head(tmp)] THEN "take" ELSE "scan"
  /\ UNCHANGED <<list, flags, queue, ProcessPendingSem, caller, owed>>

ClearNeedPoll ==
  /\ From("take")
  /\ pc' = "store"
  /\ NeedPoll' = [NeedPoll EXCEPT ![p] = FALSE]
  /\ UNCHANGED <<list, scan, PollRequested, queue, ProcessPendingSem, caller, owed>>

(* Mutant of DTask_Store: the result of the allocation is not looked at. *)
DTask_Store_Unchecked ==
  /\ From("store")
  /\ pc' = "scan"
  /\ TaskList' = Append(TaskList, p)
  /\ owed' = owed \ {p}
  /\ UNCHANGED <<list, scan, flags, ProcessPendingSem, caller, lost>>

DTask_Store ==
  /\ From("store")
  /\ pc' = "scan"
  /\ IF Len(TaskList) < TASK_ITEM_NUM
     THEN TaskList' = Append(TaskList, p) /\ owed' = owed \ {p} /\ UNCHANGED lost
     ELSE lost' = TRUE /\ UNCHANGED <<TaskList, owed>>
  /\ UNCHANGED <<list, scan, flags, ProcessPendingSem, caller>>

(* Mutant of ScanOver: PollRequested is cleared after the scan, too. *)
ScanOver_Clears ==
  /\ From("scan")
  /\ tmp = <<>>
  /\ pc' = "task"
  /\ PollRequested' = FALSE
  /\ UNCHANGED <<list, scan, NeedPoll, queue, ProcessPendingSem, caller, owed>>

ScanOver ==
  /\ From("scan")
  /\ tmp = <<>>
  /\ pc' = "task"
  /\ UNCHANGED <<list, scan, flags, queue, ProcessPendingSem, caller, owed>>

(* DTask_Run takes the oldest item, if there is one. *)
Taken == TaskList' = IF TaskList = <<>> THEN TaskList ELSE Tail(TaskList)

DTask_Run ==
  /\ From("task")
  /\ pc' = "wait"
  /\ IF preemptive THEN UNCHANGED TaskList ELSE Taken
  /\ UNCHANGED <<list, scan, flags, ProcessPendingSem, caller, owed, lost>>

Loop ==
  \/ Wait \/ Process_Run \/ ClearPollRequested \/ Look \/ ClearNeedPoll
  \/ DTask_Store \/ ScanOver \/ DTask_Run

(* In a preemptive build a thread of its own takes the items. *)
DTask_Thread ==
  /\ preemptive
  /\ TaskList # <<>>
  /\ Taken
  /\ UNCHANGED <<list, scan, flags, ProcessPendingSem, pc, caller, owed, lost>>

-----------------------------------------------------------------------------
(* The rest of the program. *)

Walking == pc \in {"scan", "take", "store"}

MayChangeList == ~ Walking /\ MayRun

(* Process_Start appends to MyProcessList and leaves NeedPoll as it is. *)
Process_Start(q) ==
  /\ MayChangeList
  /\ q \notin Running
  /\ MyProcessList' = Append(MyProcessList, q)
  /\ UNCHANGED <<preemptive, scan, flags, queue, ProcessPendingSem, pc, caller, owed>>

(* DList_Remove of the k-th process. *)
Without(s, k) == [j \in 1 .. Len(s) - 1 |-> IF j < k THEN s[j] ELSE s[j + 1]]

(* Process_Exit; Msg_Flush blanks the items of q. *)
Process_Exit(q) ==
  /\ MayChangeList
  /\ \E k \in 1 .. Len(MyProcessList) :
       MyProcessList[k] = q /\ MyProcessList' = Without(MyProcessList, k)
  /\ TaskList' = [i \in 1 .. Len(TaskList) |-> IF TaskList[i] = q THEN NoProcess ELSE TaskList[i]]
  /\ owed' = owed \ {q}
  /\ UNCHANGED <<preemptive, scan, flags, ProcessPendingSem, pc, caller, lost>>

Program == \E q \in Process : Process_Start(q) \/ Process_Exit(q)

Next ==
  \/ \E i \in Poller : Process_Poll(i) \/ \E q \in Process : Call(i, q)
  \/ Loop
  \/ DTask_Thread
  \/ Program

Spec == Init /\ [][Next]_vars

(***************************************************************************)
(* The main loop calls DOS_Run as quickly as possible, however often it is *)
(* interrupted (frames are milliseconds apart); interrupts return and the  *)
(* OS schedules every thread.                                              *)
(***************************************************************************)
FairSpec ==
  /\ Spec
  /\ SF_vars(Loop)
  /\ \A i \in Poller : WF_vars(Process_Poll(i))
-----------------------------------------------------------------------------
(* Properties. *)

(* Process_Run will find PollRequested set, or a caller is about to set it. *)
ScanDue == PollRequested \/ \E i \in Poller : caller[i].at = "request"

(* The scan under way will still see, or has just seen, that q needs a poll. *)
ScanSees(q) == (Walking /\ q \in Ahead) \/ (pc = "take" /\ p = q)

(***************************************************************************)
(* No poll is lost between Process_Poll and Do_Poll, whichever way their   *)
(* statements interleave: as long as a process that was polled has had no  *)
(* message stored, its flag is set and a scan will see it, or the message  *)
(* is about to be stored.  Unless the task pool was full.                  *)
(***************************************************************************)
NoLostPoll ==
  lost \/ \A q \in owed :
            \/ NeedPoll[q] /\ (ScanDue \/ ScanSees(q))
            \/ pc = "store" /\ p = q

(***************************************************************************)
(* Process_Thread never sleeps on a request: while PollRequested is set    *)
(* and the thread has not yet come to read it, the semaphore has a token   *)
(* for it or a caller is about to give it one.                             *)
(***************************************************************************)
TokenForRequest ==
  preemptive /\ PollRequested /\ pc \notin {"run", "clear"} =>
    ProcessPendingSem > 0 \/ \E i \in Poller : caller[i].at = "signal"

(* A process polled gets its message, unless it exits or the pool is full. *)
PollAnswered == \A q \in Process : q \in owed ~> (q \notin owed \/ lost)

(***************************************************************************)
(* The inductive invariant: the parts above and what they rest on.         *)
(***************************************************************************)

(* A caller in the middle of Process_Poll has a process, and so has a scan *)
(* that has just found one to poll.                                        *)
ProcessesKnown ==
  /\ \A i \in Poller : caller[i].at # "idle" => caller[i].p \in Process
  /\ pc \in {"take", "store"} => p \in Process

(* Only processes that run are owed a message: the next scan sees them all. *)
OwedRun == owed \subseteq Running

IInv == TypeOK /\ ProcessesKnown /\ OwedRun /\ NoLostPoll /\ TokenForRequest
=============================================================================

-------------------------- MODULE ProcessPollProofs --------------------------
(***************************************************************************)
(* No poll is lost between Process_Poll and Do_Poll, and Process_Thread    *)
(* does not sleep on a request: for any number of processes and callers.   *)
(***************************************************************************)
EXTENDS ProcessPoll, TLAPS

USE PollAssumption

(* The initial states satisfy the invariant. *)
LEMMA InitIInv == Init => IInv
<1> SUFFICES ASSUME Init PROVE IInv
  OBVIOUS
<1>1. TypeOK
  <2>1. <<>> \in Seq(Process) /\ <<>> \in Seq(Process \cup {NoProcess}) /\ Len(<<>>) = 0
    OBVIOUS
  <2>2. [i \in Poller |-> Idle] \in [Poller -> Callers]
    BY DEF Callers, Idle
  <2>3. [q \in Process |-> FALSE] \in [Process -> BOOLEAN]
    OBVIOUS
  <2>4. TASK_ITEM_NUM \in Nat /\ 0 <= TASK_ITEM_NUM
    BY PollAssumption
  <2>5. Init => TypeOK
    BY <2>1, <2>2, <2>3, <2>4 DEF Init, TypeOK
  <2> QED BY <2>5
<1>2. ProcessesKnown /\ OwedRun /\ NoLostPoll /\ TokenForRequest
  BY DEF Init, ProcessesKnown, OwedRun, NoLostPoll, TokenForRequest, Idle
<1> QED BY <1>1, <1>2 DEF IInv

-----------------------------------------------------------------------------
(* The steps of a caller. *)

(* The call itself changes nothing the loop looks at. *)
LEMMA CallStep ==
  ASSUME IInv, NEW i \in Poller, NEW q \in Process, Call(i, q)
  PROVE  IInv'
<1>1. /\ caller[i].at = "idle"
      /\ caller' = [caller EXCEPT ![i] = [at |-> "need", p |-> q]]
      /\ UNCHANGED <<preemptive, MyProcessList, tmp, p, NeedPoll, PollRequested, TaskList, lost,
                     ProcessPendingSem, pc, owed>>
  BY DEF Call, list, scan, flags, queue
<1>2. caller \in [Poller -> Callers]
  BY DEF IInv, TypeOK
<1>3. /\ caller' \in [Poller -> Callers]
      /\ caller'[i].at = "need" /\ caller'[i].p = q
      /\ \A j \in Poller : j # i => caller'[j] = caller[j]
  BY <1>1, <1>2 DEF Callers
<1>4. TypeOK'
  BY <1>1, <1>3 DEF IInv, TypeOK
<1>5. ProcessesKnown' /\ OwedRun'
  BY <1>1, <1>3 DEF IInv, ProcessesKnown, OwedRun, Running
<1>6. ScanDue => ScanDue'
  BY <1>1, <1>3 DEF ScanDue
<1>7. NoLostPoll'
  BY <1>1, <1>6 DEF IInv, NoLostPoll, ScanSees, Ahead, Walking
<1>8. TokenForRequest'
  BY <1>1, <1>3 DEF IInv, TokenForRequest
<1> QED BY <1>4, <1>5, <1>7, <1>8 DEF IInv

(* NeedPoll is set: the caller goes on to request a scan. *)
LEMMA NeedStep ==
  ASSUME IInv, NEW i \in Poller, SetNeedPoll(i)
  PROVE  IInv'
<1> DEFINE c == caller[i].p
<1>1. /\ caller[i].at = "need"
      /\ NeedPoll' = [NeedPoll EXCEPT ![c] = TRUE]
      /\ owed' = owed \cup ({c} \cap Running)
      /\ caller' = [caller EXCEPT ![i].at = "request"]
      /\ UNCHANGED <<preemptive, MyProcessList, tmp, p, PollRequested, TaskList, lost,
                     ProcessPendingSem, pc>>
  BY DEF SetNeedPoll, list, scan, queue
<1>2. caller \in [Poller -> Callers] /\ c \in Process /\ NeedPoll \in [Process -> BOOLEAN]
  BY <1>1 DEF IInv, TypeOK, ProcessesKnown
<1>3. /\ caller' \in [Poller -> Callers]
      /\ caller'[i].at = "request" /\ caller'[i].p = c
      /\ \A j \in Poller : j # i => caller'[j] = caller[j]
  BY <1>1, <1>2 DEF Callers
<1> HIDE DEF c
<1>4. /\ NeedPoll' \in [Process -> BOOLEAN] /\ NeedPoll'[c]
      /\ \A q \in Process : q # c => NeedPoll'[q] = NeedPoll[q]
  BY <1>1, <1>2
<1>5. owed \in SUBSET Process /\ owed' \in SUBSET Process
  BY <1>1, <1>2 DEF IInv, TypeOK
<1>6. TypeOK'
  BY <1>1, <1>3, <1>4, <1>5 DEF IInv, TypeOK
<1>7. ProcessesKnown' /\ OwedRun'
  BY <1>1, <1>2, <1>3 DEF IInv, ProcessesKnown, OwedRun, Running
<1>8. ScanDue'
  BY <1>3 DEF ScanDue
<1>9. NoLostPoll'
  BY <1>1, <1>4, <1>5, <1>8 DEF IInv, NoLostPoll
<1>10. TokenForRequest'
  BY <1>1, <1>3 DEF IInv, TokenForRequest
<1> QED BY <1>6, <1>7, <1>9, <1>10 DEF IInv

(* PollRequested is set: the caller goes on to signal the semaphore. *)
LEMMA RequestStep ==
  ASSUME IInv, NEW i \in Poller, SetPollRequested(i)
  PROVE  IInv'
<1>1. /\ caller[i].at = "request" /\ PollRequested' = TRUE
      /\ caller' = [caller EXCEPT ![i].at = "signal"]
      /\ UNCHANGED <<preemptive, MyProcessList, tmp, p, NeedPoll, TaskList, lost, ProcessPendingSem, pc, owed>>
  BY DEF SetPollRequested, list, scan, queue
<1>2. caller \in [Poller -> Callers]
  BY DEF IInv, TypeOK
<1>3. /\ caller' \in [Poller -> Callers]
      /\ caller'[i].at = "signal" /\ caller'[i].p = caller[i].p
      /\ \A j \in Poller : j # i => caller'[j] = caller[j]
  BY <1>1, <1>2 DEF Callers
<1>4. TypeOK'
  BY <1>1, <1>3 DEF IInv, TypeOK
<1>5. ProcessesKnown' /\ OwedRun'
  BY <1>1, <1>3 DEF IInv, ProcessesKnown, OwedRun, Running
<1>6. NoLostPoll'
  BY <1>1 DEF IInv, NoLostPoll, ScanDue
<1>7. TokenForRequest'
  BY <1>3 DEF TokenForRequest
<1> QED BY <1>4, <1>5, <1>6, <1>7 DEF IInv

(* The semaphore has its token: the call is over. *)
LEMMA SignalStep ==
  ASSUME IInv, NEW i \in Poller, Signal(i)
  PROVE  IInv'
<1>1. /\ caller[i].at = "signal" /\ caller' = [caller EXCEPT ![i] = Idle]
      /\ ProcessPendingSem' = IF preemptive THEN ProcessPendingSem + 1 ELSE ProcessPendingSem
      /\ UNCHANGED <<preemptive, MyProcessList, tmp, p, NeedPoll, PollRequested, TaskList, lost, pc, owed>>
  BY DEF Signal, list, scan, flags, queue
<1>2. caller \in [Poller -> Callers] /\ ProcessPendingSem \in Nat
  BY DEF IInv, TypeOK
<1>3. /\ caller' \in [Poller -> Callers]
      /\ caller'[i].at = "idle"
      /\ \A j \in Poller : j # i => caller'[j] = caller[j]
  BY <1>1, <1>2 DEF Callers, Idle
<1>4. ProcessPendingSem' \in Nat /\ (preemptive => ProcessPendingSem' > 0)
  BY <1>1, <1>2
<1>5. TypeOK'
  BY <1>1, <1>3, <1>4 DEF IInv, TypeOK
<1>6. ProcessesKnown' /\ OwedRun'
  BY <1>1, <1>3 DEF IInv, ProcessesKnown, OwedRun, Running
<1>7. ScanDue => ScanDue'
  BY <1>1, <1>3 DEF ScanDue
<1>8. NoLostPoll'
  BY <1>1, <1>7 DEF IInv, NoLostPoll, ScanSees, Ahead, Walking
<1>9. TokenForRequest'
  BY <1>1, <1>4 DEF TokenForRequest
<1> QED BY <1>5, <1>6, <1>8, <1>9 DEF IInv

-----------------------------------------------------------------------------
(* The steps of the loop. *)

(* Wait and Process_Run: the flag is read after the token was taken. *)
LEMMA WaitStep ==
  ASSUME IInv, Wait \/ Process_Run
  PROVE  IInv'
<1>1. /\ UNCHANGED <<preemptive, MyProcessList, tmp, p, NeedPoll, PollRequested, TaskList, lost, caller, owed>>
      /\ pc \in {"wait", "run"}
      /\ pc' \in {"run", "clear", "task"}
      /\ PollRequested => pc' \in {"run", "clear"}
  BY DEF Wait, Process_Run, From, list, scan, flags, queue, IInv, TypeOK
<1>2. ProcessPendingSem' \in Nat
  BY DEF Wait, Process_Run, IInv, TypeOK
<1>3. TypeOK'
  BY <1>1, <1>2 DEF IInv, TypeOK
<1>4. ProcessesKnown' /\ OwedRun'
  BY <1>1 DEF IInv, ProcessesKnown, OwedRun, Running
<1>5. NoLostPoll'
  BY <1>1 DEF IInv, NoLostPoll, ScanDue, ScanSees, Walking
<1>6. TokenForRequest'
  BY <1>1 DEF TokenForRequest
<1> QED BY <1>3, <1>4, <1>5, <1>6 DEF IInv

(* The scan starts: every process that runs is ahead of it. *)
LEMMA ClearStep ==
  ASSUME IInv, ClearPollRequested
  PROVE  IInv'
<1>1. /\ pc = "clear" /\ pc' = "scan" /\ PollRequested' = FALSE /\ tmp' = MyProcessList
      /\ UNCHANGED <<preemptive, MyProcessList, p, NeedPoll, TaskList, lost, ProcessPendingSem, caller, owed>>
  BY DEF ClearPollRequested, From, list, queue
<1>2. TypeOK'
  BY <1>1 DEF IInv, TypeOK
<1>3. ProcessesKnown' /\ OwedRun'
  BY <1>1 DEF IInv, ProcessesKnown, OwedRun, Running
<1>4. \A q \in owed : ScanSees(q)'
  BY <1>1 DEF IInv, OwedRun, Running, ScanSees, Walking, Ahead
<1>5. NoLostPoll'
  BY <1>1, <1>4 DEF IInv, NoLostPoll
<1>6. TokenForRequest'
  BY <1>1 DEF TokenForRequest
<1> QED BY <1>2, <1>3, <1>5, <1>6 DEF IInv

(* The scan looks at a process: it is taken if its flag is set. *)
LEMMA LookStep ==
  ASSUME IInv, Look
  PROVE  IInv'
<1>1. /\ pc = "scan" /\ tmp # <<>> /\ p' = Head(tmp) /\ tmp' = Tail(tmp)
      /\ pc' = IF NeedPoll[Head(tmp)] THEN "take" ELSE "scan"
      /\ UNCHANGED <<preemptive, MyProcessList, NeedPoll, PollRequested, TaskList, lost, ProcessPendingSem,
                     caller, owed>>
  BY DEF Look, From, list, flags, queue
<1>2. tmp \in Seq(Process)
  BY DEF IInv, TypeOK
<1>3. /\ Tail(tmp) \in Seq(Process) /\ Head(tmp) \in Process
      /\ Len(Tail(tmp)) = Len(tmp) - 1 /\ Len(tmp) \in Nat \ {0}
      /\ Head(tmp) = tmp[1]
      /\ \A k \in 1 .. Len(tmp) - 1 : Tail(tmp)[k] = tmp[k + 1]
  BY <1>1, <1>2
<1>4. ASSUME NEW q \in Ahead PROVE q = Head(tmp) \/ q \in Ahead'
  <2>1. PICK k \in 1 .. Len(tmp) : q = tmp[k]
    BY DEF Ahead
  <2>2. CASE k = 1
    BY <1>3, <2>1, <2>2
  <2>3. CASE k # 1
    <3>1. k - 1 \in 1 .. Len(Tail(tmp)) /\ Tail(tmp)[k - 1] = q
      BY <1>3, <2>1, <2>3
    <3> QED BY <1>1, <3>1 DEF Ahead
  <2> QED BY <2>2, <2>3
<1>5. TypeOK'
  BY <1>1, <1>3 DEF IInv, TypeOK
<1>6. ProcessesKnown' /\ OwedRun'
  BY <1>1, <1>3 DEF IInv, ProcessesKnown, OwedRun, Running
<1>7. ASSUME NEW q \in Process, NeedPoll[q], ScanSees(q) PROVE ScanSees(q)'
  BY <1>1, <1>4, <1>7 DEF ScanSees, Walking
<1>8. owed \in SUBSET Process
  BY DEF IInv, TypeOK
<1>9. NoLostPoll'
  BY <1>1, <1>7, <1>8 DEF IInv, NoLostPoll, ScanDue
<1>10. TokenForRequest'
  BY <1>1 DEF IInv, TokenForRequest
<1> QED BY <1>5, <1>6, <1>9, <1>10 DEF IInv

(* The flag is cleared before the message is stored. *)
LEMMA TakeStep ==
  ASSUME IInv, ClearNeedPoll
  PROVE  IInv'
<1>1. /\ pc = "take" /\ pc' = "store" /\ NeedPoll' = [NeedPoll EXCEPT ![p] = FALSE]
      /\ UNCHANGED <<preemptive, MyProcessList, tmp, p, PollRequested, TaskList, lost, ProcessPendingSem,
                     caller, owed>>
  BY DEF ClearNeedPoll, From, list, scan, queue
<1>2. p \in Process /\ NeedPoll \in [Process -> BOOLEAN] /\ owed \in SUBSET Process
  BY <1>1 DEF IInv, TypeOK, ProcessesKnown
<1>3. /\ NeedPoll' \in [Process -> BOOLEAN]
      /\ \A q \in Process : q # p => NeedPoll'[q] = NeedPoll[q]
  BY <1>1, <1>2
<1>4. TypeOK'
  BY <1>1, <1>3 DEF IInv, TypeOK
<1>5. ProcessesKnown' /\ OwedRun'
  BY <1>1 DEF IInv, ProcessesKnown, OwedRun, Running
<1>6. ASSUME NEW q \in Process, q # p, ScanSees(q) PROVE ScanSees(q)'
  BY <1>1, <1>6 DEF ScanSees, Walking, Ahead
<1>7. NoLostPoll'
  BY <1>1, <1>2, <1>3, <1>6 DEF IInv, NoLostPoll, ScanDue
<1>8. TokenForRequest'
  BY <1>1 DEF IInv, TokenForRequest
<1> QED BY <1>4, <1>5, <1>7, <1>8 DEF IInv

(* The message is stored: the process is no longer owed one. *)
LEMMA StoreStep ==
  ASSUME IInv, DTask_Store
  PROVE  IInv'
<1>1. /\ pc = "store" /\ pc' = "scan"
      /\ UNCHANGED <<preemptive, MyProcessList, tmp, p, NeedPoll, PollRequested, ProcessPendingSem, caller>>
  BY DEF DTask_Store, From, list, scan, flags
<1>2. p \in Process /\ TaskList \in Seq(Process \cup {NoProcess}) /\ owed \in SUBSET Process
  BY <1>1 DEF IInv, TypeOK, ProcessesKnown
<1>3. /\ TaskList' \in Seq(Process \cup {NoProcess}) /\ Len(TaskList') <= TASK_ITEM_NUM
      /\ owed' \subseteq owed /\ lost' \in BOOLEAN
      /\ lost' \/ (~ lost /\ p \notin owed') \/ lost
  <2>1. CASE Len(TaskList) < TASK_ITEM_NUM
    <3>1. TaskList' = Append(TaskList, p) /\ owed' = owed \ {p} /\ lost' = lost
      BY <2>1 DEF DTask_Store
    <3>2. Len(TaskList) \in Nat /\ Append(TaskList, p) \in Seq(Process \cup {NoProcess})
          /\ Len(Append(TaskList, p)) = Len(TaskList) + 1
      BY <1>2
    <3> QED BY <2>1, <3>1, <3>2 DEF IInv, TypeOK, PollAssumption
  <2>2. CASE ~ (Len(TaskList) < TASK_ITEM_NUM)
    BY <2>2 DEF DTask_Store, IInv, TypeOK
  <2> QED BY <2>1, <2>2
<1>4. TypeOK'
  BY <1>1, <1>2, <1>3 DEF IInv, TypeOK
<1>5. ProcessesKnown' /\ OwedRun'
  BY <1>1, <1>3 DEF IInv, ProcessesKnown, OwedRun, Running
<1>6. ASSUME NEW q, ScanSees(q) PROVE ScanSees(q)'
  BY <1>1, <1>6 DEF ScanSees, Walking, Ahead
<1>7. lost => lost'
  BY DEF DTask_Store
<1>8. NoLostPoll'
  BY <1>1, <1>3, <1>6, <1>7 DEF IInv, NoLostPoll, ScanDue
<1>9. TokenForRequest'
  BY <1>1 DEF IInv, TokenForRequest
<1> QED BY <1>4, <1>5, <1>8, <1>9 DEF IInv

(* The scan is over: what it has not seen has a request of its own. *)
LEMMA OverStep ==
  ASSUME IInv, ScanOver
  PROVE  IInv'
<1>1. /\ pc = "scan" /\ pc' = "task" /\ tmp = <<>>
      /\ UNCHANGED <<preemptive, MyProcessList, tmp, p, NeedPoll, PollRequested, TaskList, lost,
                     ProcessPendingSem, caller, owed>>
  BY DEF ScanOver, From, list, scan, flags, queue
<1>2. TypeOK'
  BY <1>1 DEF IInv, TypeOK
<1>3. ProcessesKnown' /\ OwedRun'
  BY <1>1 DEF IInv, ProcessesKnown, OwedRun, Running
<1>4. ASSUME NEW q PROVE ~ ScanSees(q)
  BY <1>1 DEF ScanSees, Ahead
<1>5. NoLostPoll'
  BY <1>1, <1>4 DEF IInv, NoLostPoll, ScanDue
<1>6. TokenForRequest'
  BY <1>1 DEF IInv, TokenForRequest
<1> QED BY <1>2, <1>3, <1>5, <1>6 DEF IInv

(* Taking an item from the task queue, by the loop or by a thread. *)
LEMMA TaskStep ==
  ASSUME IInv, DTask_Run \/ DTask_Thread
  PROVE  IInv'
<1>1. /\ UNCHANGED <<preemptive, MyProcessList, tmp, p, NeedPoll, PollRequested, lost, ProcessPendingSem,
                     caller, owed>>
      /\ pc' = pc \/ (pc = "task" /\ pc' = "wait")
      /\ TaskList' = TaskList \/ (TaskList # <<>> /\ TaskList' = Tail(TaskList))
  BY DEF DTask_Run, DTask_Thread, From, Taken, list, scan, flags
<1>2. TaskList' \in Seq(Process \cup {NoProcess}) /\ Len(TaskList') <= TASK_ITEM_NUM
  <2> DEFINE Item == Process \cup {NoProcess}
  <2>1. TaskList \in Seq(Item) /\ Len(TaskList) <= TASK_ITEM_NUM /\ TASK_ITEM_NUM \in Nat
    BY PollAssumption DEF IInv, TypeOK
  <2>2. CASE TaskList' = TaskList
    BY <2>1, <2>2
  <2>3. CASE TaskList # <<>> /\ TaskList' = Tail(TaskList)
    <3> HIDE DEF Item
    <3>1. Tail(TaskList) \in Seq(Item) /\ Len(Tail(TaskList)) = Len(TaskList) - 1
      BY <2>1, <2>3
    <3>2. Len(TaskList) \in Nat
      BY <2>1
    <3> QED BY <2>1, <2>3, <3>1, <3>2 DEF Item
  <2> QED BY <1>1, <2>2, <2>3
<1>3. TypeOK'
  BY <1>1, <1>2 DEF IInv, TypeOK
<1>4. ProcessesKnown' /\ OwedRun'
  BY <1>1 DEF IInv, ProcessesKnown, OwedRun, Running
<1>5. NoLostPoll'
  BY <1>1 DEF IInv, NoLostPoll, ScanDue, ScanSees, Walking, Ahead
<1>6. TokenForRequest'
  BY <1>1 DEF IInv, TokenForRequest
<1> QED BY <1>3, <1>4, <1>5, <1>6 DEF IInv

-----------------------------------------------------------------------------
(* Processes that start and exit. *)

(* A process that starts is owed nothing. *)
LEMMA StartStep ==
  ASSUME IInv, NEW q \in Process, Process_Start(q)
  PROVE  IInv'
<1>1. /\ ~ Walking /\ MyProcessList' = Append(MyProcessList, q)
      /\ UNCHANGED <<preemptive, tmp, p, NeedPoll, PollRequested, TaskList, lost, ProcessPendingSem, pc, caller,
                     owed>>
  BY DEF Process_Start, MayChangeList, scan, flags, queue
<1>2. MyProcessList \in Seq(Process)
  BY DEF IInv, TypeOK
<1>3. /\ MyProcessList' \in Seq(Process)
      /\ Len(MyProcessList) \in Nat /\ Len(MyProcessList') = Len(MyProcessList) + 1
      /\ \A k \in 1 .. Len(MyProcessList) : MyProcessList'[k] = MyProcessList[k]
  BY <1>1, <1>2
<1>4. Running \subseteq Running'
  BY <1>3 DEF Running
<1>5. TypeOK'
  BY <1>1, <1>3 DEF IInv, TypeOK
<1>6. ProcessesKnown' /\ OwedRun'
  BY <1>1, <1>4 DEF IInv, ProcessesKnown, OwedRun
<1>7. NoLostPoll'
  BY <1>1 DEF IInv, NoLostPoll, ScanDue, ScanSees, Walking, Ahead
<1>8. TokenForRequest'
  BY <1>1 DEF IInv, TokenForRequest
<1> QED BY <1>5, <1>6, <1>7, <1>8 DEF IInv

(* A process that exits is owed nothing any more, the others still run. *)
LEMMA ExitStep ==
  ASSUME IInv, NEW q \in Process, Process_Exit(q)
  PROVE  IInv'
<1> PICK k \in 1 .. Len(MyProcessList) :
      MyProcessList[k] = q /\ MyProcessList' = Without(MyProcessList, k)
  BY DEF Process_Exit
<1>1. /\ ~ Walking /\ owed' = owed \ {q}
      /\ TaskList' = [i \in 1 .. Len(TaskList) |-> IF TaskList[i] = q THEN NoProcess ELSE TaskList[i]]
      /\ UNCHANGED <<preemptive, tmp, p, NeedPoll, PollRequested, lost, ProcessPendingSem, pc, caller>>
  BY DEF Process_Exit, MayChangeList, scan, flags
<1>2. /\ MyProcessList \in Seq(Process) /\ owed \in SUBSET Process
      /\ TaskList \in Seq(Process \cup {NoProcess}) /\ Len(TaskList) <= TASK_ITEM_NUM
  BY DEF IInv, TypeOK
<1>3. Len(MyProcessList) \in Nat \ {0}
  BY <1>2
<1>4. /\ MyProcessList' \in Seq(Process)
      /\ Len(MyProcessList') = Len(MyProcessList) - 1
      /\ \A j \in 1 .. Len(MyProcessList) - 1 :
           MyProcessList'[j] = IF j < k THEN MyProcessList[j] ELSE MyProcessList[j + 1]
  <2>1. \A j \in 1 .. Len(MyProcessList) : MyProcessList[j] \in Process
    BY <1>2
  <2> QED BY <1>3, <2>1 DEF Without
<1>5. ASSUME NEW r \in Running, r # q PROVE r \in Running'
  <2>1. PICK j \in 1 .. Len(MyProcessList) : MyProcessList[j] = r
    BY DEF Running
  <2>2. CASE j < k
    BY <1>3, <1>4, <2>1, <2>2 DEF Running
  <2>3. CASE ~ (j < k)
    <3>1. j # k
      BY <1>5, <2>1
    <3>2. j - 1 \in 1 .. Len(MyProcessList) - 1 /\ ~ (j - 1 < k) /\ (j - 1) + 1 = j
      BY <1>3, <2>3, <3>1
    <3>3. j - 1 \in 1 .. Len(MyProcessList') /\ MyProcessList'[j - 1] = r
      BY <1>4, <2>1, <3>2
    <3> QED BY <3>3 DEF Running
  <2> QED BY <2>2, <2>3
<1>6. TaskList' \in Seq(Process \cup {NoProcess}) /\ Len(TaskList') = Len(TaskList)
  <2>1. \A i \in 1 .. Len(TaskList) : TaskList[i] \in Process \cup {NoProcess}
    BY <1>2
  <2>2. Len(TaskList) \in Nat
    BY <1>2
  <2> QED BY <1>1, <2>1, <2>2
<1>7. TypeOK'
  BY <1>1, <1>2, <1>4, <1>6 DEF IInv, TypeOK
<1>8. ProcessesKnown' /\ OwedRun'
  BY <1>1, <1>5 DEF IInv, ProcessesKnown, OwedRun
<1>9. NoLostPoll'
  BY <1>1 DEF IInv, NoLostPoll, ScanDue, ScanSees, Walking, Ahead
<1>10. TokenForRequest'
  BY <1>1 DEF IInv, TokenForRequest
<1> QED BY <1>7, <1>8, <1>9, <1>10 DEF IInv

-----------------------------------------------------------------------------
(* Any step preserves the invariant. *)
LEMMA NextIInv == IInv /\ [Next]_vars => IInv'
<1> SUFFICES ASSUME IInv, [Next]_vars PROVE IInv'
  OBVIOUS
<1>1. ASSUME NEW i \in Poller, NEW q \in Process, Call(i, q) PROVE IInv'
  BY <1>1, CallStep
<1>2. ASSUME NEW i \in Poller, Process_Poll(i) PROVE IInv'
  BY <1>2, NeedStep, RequestStep, SignalStep DEF Process_Poll
<1>3. CASE Loop
  BY <1>3, WaitStep, ClearStep, LookStep, TakeStep, StoreStep, OverStep, TaskStep DEF Loop
<1>4. CASE DTask_Thread
  BY <1>4, TaskStep
<1>5. CASE Program
  BY <1>5, StartStep, ExitStep DEF Program
<1>6. CASE UNCHANGED vars
  <2>1. UNCHANGED <<preemptive, MyProcessList, tmp, p, NeedPoll, PollRequested, TaskList, lost,
                    ProcessPendingSem, pc, caller, owed>>
    BY <1>6 DEF vars, list, scan, flags, queue
  <2> QED BY <2>1 DEF IInv, TypeOK, ProcessesKnown, OwedRun, Running, NoLostPoll, ScanDue, ScanSees,
                     Walking, Ahead, TokenForRequest
<1> QED BY <1>1, <1>2, <1>3, <1>4, <1>5, <1>6 DEF Next

(* The invariant holds of every state that is reached. *)
THEOREM PollInvariance == Spec => []IInv
BY InitIInv, NextIInv, PTL DEF Spec

(* Every variable keeps to its type. *)
THEOREM PollTypeCorrect == Spec => []TypeOK
<1>1. IInv => TypeOK
  BY DEF IInv
<1> QED BY <1>1, PollInvariance, PTL

(* No poll is lost, however Process_Poll and Do_Poll interleave. *)
THEOREM PollNeverLost == Spec => []NoLostPoll
<1>1. IInv => NoLostPoll
  BY DEF IInv
<1> QED BY <1>1, PollInvariance, PTL

(* Process_Thread never sleeps while PollRequested is set for good. *)
THEOREM ThreadNeverSleepsOnRequest == Spec => []TokenForRequest
<1>1. IInv => TokenForRequest
  BY DEF IInv
<1> QED BY <1>1, PollInvariance, PTL
==============================================================================

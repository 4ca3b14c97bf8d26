------------------------------ MODULE MsgTimer ------------------------------
(***************************************************************************)
(* The message timers (message.c) with the task queue (d_task.c) that they *)
(* feed, for several processes, in a DING OS build: the hashed table of    *)
(* timers, kept sorted modulo the width of TimerTick, the pool, the        *)
(* TimerList of each process, and the argument that travels with a message *)
(* and is freed by whoever holds it last.                                  *)
(*                                                                         *)
(* Calls are made by the main loop or by a handler that DTask_Run runs.    *)
(* Msg_Run1ms is one step per iteration of its loop, during which nothing  *)
(* else runs.                                                              *)
(***************************************************************************)
EXTENDS Naturals, Sequences, SequencesExt, DList

CONSTANTS
  Process,
  MsgId,                 \* identifiers of the application
  Arg,                   \* blocks of the heap
  NoArg,                 \* NULL
  NoTimer,               \* a free timer of the pool
  NoItem,                \* DTask_Run has no item in hand
  TickRange,             \* 2^32: TimerTick and TimeMatch wrap
  MSG_TIMER_TABLE_SIZE,
  MSG_TIMER_NUM,
  TASK_ITEM_NUM,
  Delay,                 \* the delays applications ask for
  Period,                \* the periods, 0 for a timer that fires once
  CyclicArg              \* applications give an argument to cyclic timers

ASSUME TimerAssumption ==
  /\ NoArg \notin Arg
  /\ TickRange \in Nat \ {0}
  /\ MSG_TIMER_TABLE_SIZE \in Nat \ {0}
  /\ MSG_TIMER_NUM \in Nat \ {0}
  /\ TASK_ITEM_NUM \in Nat \ {0}
  /\ Delay \subseteq 0 .. TickRange - 1
  /\ Period \subseteq 0 .. TickRange - 1
  /\ 0 \in Period
  /\ CyclicArg \in BOOLEAN

SYS_MSG_NONE == "SYS_MSG_NONE"

Slot  == 1 .. MSG_TIMER_NUM
Index == 0 .. MSG_TIMER_TABLE_SIZE - 1

Timer == [p : Process, id : MsgId, arg : Arg \cup {NoArg}, period : Period,
          match : 0 .. TickRange - 1]

Item == [p : Process, id : MsgId \cup {SYS_MSG_NONE}, arg : Arg \cup {NoArg}]

ASSUME NullAssumption == NoTimer \notin Timer /\ NoItem \notin Item

VARIABLES
  TimerTick,
  firing,         \* Msg_Run1ms is in its loop
  pool,           \* MsgTimerMem: the timers in use and the free ones
  MsgTimerTable,  \* for each index the timers in the order of the list
  TimerList,      \* for each process the timers in the order of the list
  running,        \* the processes that run
  TaskList,       \* TaskElementList
  item,           \* the item whose handler DTask_Run runs
  heap,           \* the arguments that are allocated
  set,            \* history: the timers in the order they were put into the table
  lost            \* history: a message with an argument found the task pool full

vars == <<TimerTick, firing, pool, MsgTimerTable, TimerList, running, TaskList, item,
          heap, set, lost>>

TypeOK ==
  /\ TimerTick \in 0 .. TickRange - 1
  /\ firing \in BOOLEAN
  /\ pool \in [Slot -> Timer \cup {NoTimer}]
  /\ MsgTimerTable \in [Index -> Seq(Slot)]
  /\ TimerList \in [Process -> Seq(Slot)]
  /\ running \in SUBSET Process
  /\ TaskList \in Seq(Item)
  /\ Len(TaskList) + (IF item = NoItem THEN 0 ELSE 1) <= TASK_ITEM_NUM
  /\ item \in Item \cup {NoItem}
  /\ heap \in SUBSET Arg
  /\ set \in Seq(Slot)
  /\ lost \in BOOLEAN

Init ==
  /\ TimerTick = 0
  /\ firing = FALSE
  /\ pool = [s \in Slot |-> NoTimer]
  /\ MsgTimerTable = [i \in Index |-> <<>>]
  /\ TimerList = [p \in Process |-> <<>>]
  /\ running = {}
  /\ TaskList = <<>>
  /\ item = NoItem
  /\ heap = {}
  /\ set = <<>>
  /\ lost = FALSE

-----------------------------------------------------------------------------
(* The timer table. *)

RemainTime(t, now) == (t.match + TickRange - now) % TickRange

IndexOf(match) == match % MSG_TIMER_TABLE_SIZE

(* Mutant of Place: the timer goes to the end of the list. *)
Place_Last(list, timers, s, now) == Len(list) + 1

(* Where InsertToTimerTable puts timer s into a list: before the first one *)
(* that remains longer.                                                    *)
Place(list, timers, s, now) ==
  LET longer == {i \in 1 .. Len(list) :
                   RemainTime(timers[list[i]], now) > RemainTime(timers[s], now)}
  IN IF longer = {} THEN Len(list) + 1 ELSE CHOOSE i \in longer : \A j \in longer : i <= j

InsertToTimerTable(table, timers, s, now) ==
  LET list == table[IndexOf(timers[s].match)]
  IN [table EXCEPT ![IndexOf(timers[s].match)] = InsertAt(list, Place(list, timers, s, now), s)]

(* DList_Remove of the timers of D. *)
Removed(list, D) == Only(list, {i \in 1 .. Len(list) : list[i] \notin D})

Arguments(D) == {pool[s].arg : s \in D} \ {NoArg}

(* What Msg_FreeTimer(timer, true) for the timers of D and taking them out *)
(* of both lists leaves.                                                   *)
Cancelled(D) ==
  [pool  |-> [s \in Slot |-> IF s \in D THEN NoTimer ELSE pool[s]],
   table |-> [i \in Index |-> Removed(MsgTimerTable[i], D)],
   lists |-> [p \in Process |-> Removed(TimerList[p], D)],
   set   |-> Removed(set, D),
   heap  |-> heap \ Arguments(D)]

(* The timers in the TimerList of p with one of the identifiers. *)
Listed(p, ids) == {s \in ToSet(TimerList[p]) : pool[s].id \in ids}

(* Mutant of DTask_Blank: the process is not compared. *)
DTask_Blank_Any(p, ids) ==
  [i \in 1 .. Len(TaskList) |->
     IF TaskList[i].id \in ids THEN [TaskList[i] EXCEPT !.id = SYS_MSG_NONE] ELSE TaskList[i]]

(* DTask_CancelMsg, DTask_FlushMsg. *)
DTask_Blank(p, ids) ==
  [i \in 1 .. Len(TaskList) |->
     IF TaskList[i].p = p /\ TaskList[i].id \in ids
     THEN [TaskList[i] EXCEPT !.id = SYS_MSG_NONE] ELSE TaskList[i]]

-----------------------------------------------------------------------------
(* Calls of the application. *)

(* The main loop calls, or the handler whose item DTask_Run has in hand. *)
Callable == ~ firing

TaskPoolFull(q) == Len(q) + (IF item = NoItem THEN 0 ELSE 1) >= TASK_ITEM_NUM

(* AllocateTimer: which of the free timers it takes makes no difference. *)
FreeSlots(timers) == {s \in Slot : timers[s] = NoTimer}

AllocateTimer(timers) == CHOOSE s \in FreeSlots(timers) : \A r \in FreeSlots(timers) : s <= r

(***************************************************************************)
(* The rest of Msg_Send for process p that runs, when what was cancelled   *)
(* before has left the state k and the task queue q.  A refused argument   *)
(* stays with the caller, who frees it.                                    *)
(***************************************************************************)
Send(p, id, arg, delay, period, k, q) ==
  /\ IF delay = 0
     THEN /\ TaskList' = IF TaskPoolFull(q) THEN q
                         ELSE Append(q, [p |-> p, id |-> id, arg |-> arg])
          /\ heap' = IF TaskPoolFull(q) THEN k.heap ELSE k.heap \cup ({arg} \ {NoArg})
          /\ pool' = k.pool
          /\ MsgTimerTable' = k.table
          /\ TimerList' = k.lists
          /\ set' = k.set
     ELSE IF FreeSlots(k.pool) = {}
     THEN /\ TaskList' = q
          /\ heap' = k.heap
          /\ pool' = k.pool
          /\ MsgTimerTable' = k.table
          /\ TimerList' = k.lists
          /\ set' = k.set
     ELSE LET s == AllocateTimer(k.pool)
              t == [p |-> p, id |-> id, arg |-> arg, period |-> period,
                    match |-> (TimerTick + delay) % TickRange]
          IN /\ TaskList' = q
             /\ heap' = k.heap \cup ({arg} \ {NoArg})
             /\ pool' = [k.pool EXCEPT ![s] = t]
             /\ MsgTimerTable' = InsertToTimerTable(k.table, pool', s, TimerTick)
             /\ TimerList' = [k.lists EXCEPT ![p] = Append(@, s)]
             /\ set' = Append(k.set, s)
  /\ UNCHANGED <<TimerTick, firing, running, item, lost>>

(* Msg_SendLater, Msg_SendCycle, Msg_SendInstant, with an argument fresh *)
(* from DMem_Malloc or none.                                             *)
Fresh == (Arg \ heap) \cup {NoArg}

MayCarry(arg, period) == period = 0 \/ CyclicArg \/ arg = NoArg

Msg_Send(p, id, arg, delay, period) ==
  /\ Callable
  /\ p \in running
  /\ arg \in Fresh /\ MayCarry(arg, period)
  /\ Send(p, id, arg, delay, period, Cancelled({}), TaskList)

(* Msg_ReSendLater, Msg_ReSendCycle. *)
Msg_ReSend(p, id, arg, delay, period) ==
  /\ Callable
  /\ p \in running
  /\ arg \in Fresh /\ MayCarry(arg, period)
  /\ Send(p, id, arg, delay, period, Cancelled(Listed(p, {id})), DTask_Blank(p, {id}))

Cancel(D) ==
  LET k == Cancelled(D)
  IN /\ pool' = k.pool
     /\ MsgTimerTable' = k.table
     /\ TimerList' = k.lists
     /\ set' = k.set
     /\ heap' = k.heap

Msg_CancelAll(p, id) ==
  /\ Callable
  /\ Cancel(Listed(p, {id}))
  /\ TaskList' = DTask_Blank(p, {id})
  /\ UNCHANGED <<TimerTick, firing, running, item, lost>>

(* Msg_CancelFirst leaves the task queue alone. *)
Msg_CancelFirst(p, id) ==
  /\ Callable
  /\ \E i \in 1 .. Len(TimerList[p]) :
       /\ pool[TimerList[p][i]].id = id
       /\ \A j \in 1 .. i - 1 : pool[TimerList[p][j]].id # id
       /\ Cancel({TimerList[p][i]})
  /\ UNCHANGED <<TimerTick, firing, running, TaskList, item, lost>>

Process_Start(p) ==
  /\ Callable
  /\ p \notin running
  /\ running' = running \cup {p}
  /\ TimerList' = [TimerList EXCEPT ![p] = <<>>]
  /\ UNCHANGED <<TimerTick, firing, pool, MsgTimerTable, TaskList, item, heap, set, lost>>

(* Mutant of Process_Exit: Msg_Flush is left out. *)
Process_Exit_NoFlush(p) ==
  /\ Callable
  /\ p \in running
  /\ running' = running \ {p}
  /\ UNCHANGED <<TimerTick, firing, pool, MsgTimerTable, TimerList, TaskList, item, heap,
                 set, lost>>

(* Process_Exit with Msg_Flush. *)
Process_Exit(p) ==
  /\ Callable
  /\ p \in running
  /\ running' = running \ {p}
  /\ Cancel(Listed(p, MsgId))
  /\ TaskList' = DTask_Blank(p, MsgId)
  /\ UNCHANGED <<TimerTick, firing, item, lost>>

-----------------------------------------------------------------------------
(* DTask_Run. *)

Freed(arg) == heap \ {arg}

Runs(e) == e.id # SYS_MSG_NONE /\ e.p \in running

(* An item whose handler does not run is freed with its argument. *)
DropItem ==
  /\ ~ firing /\ item = NoItem
  /\ TaskList # <<>> /\ ~ Runs(Head(TaskList))
  /\ TaskList' = Tail(TaskList)
  /\ heap' = Freed(Head(TaskList).arg)
  /\ UNCHANGED <<TimerTick, firing, pool, MsgTimerTable, TimerList, running, item, set, lost>>

CallHandler ==
  /\ ~ firing /\ item = NoItem
  /\ TaskList # <<>> /\ Runs(Head(TaskList))
  /\ TaskList' = Tail(TaskList)
  /\ item' = Head(TaskList)
  /\ UNCHANGED <<TimerTick, firing, pool, MsgTimerTable, TimerList, running, heap, set, lost>>

HandlerReturns ==
  /\ item # NoItem
  /\ item' = NoItem
  /\ heap' = Freed(item.arg)
  /\ UNCHANGED <<TimerTick, firing, pool, MsgTimerTable, TimerList, running, TaskList, set,
                 lost>>

-----------------------------------------------------------------------------
(* Msg_Run1ms. *)

Msg_Run1ms ==
  /\ ~ firing /\ item = NoItem
  /\ firing' = TRUE
  /\ TimerTick' = (TimerTick + 1) % TickRange
  /\ UNCHANGED <<pool, MsgTimerTable, TimerList, running, TaskList, item, heap, set, lost>>

Bucket == MsgTimerTable[IndexOf(TimerTick)]

HeadIsDue == Bucket # <<>> /\ pool[Head(Bucket)].match = TimerTick

(* DTask_Store of the message of timer t; Msg_Run1ms ignores its result. *)
Deliver(t) ==
  IF TaskPoolFull(TaskList)
  THEN lost' = (lost \/ t.arg # NoArg) /\ UNCHANGED TaskList
  ELSE TaskList' = Append(TaskList, [p |-> t.p, id |-> t.id, arg |-> t.arg]) /\ UNCHANGED lost

(* Mutant of FireOnce: Msg_FreeTimer frees the argument, too. *)
FireOnce_FreesArg ==
  LET s == Head(Bucket) IN
  /\ firing /\ HeadIsDue /\ pool[s].period = 0
  /\ Deliver(pool[s])
  /\ pool' = [pool EXCEPT ![s] = NoTimer]
  /\ MsgTimerTable' = [MsgTimerTable EXCEPT ![IndexOf(TimerTick)] = Tail(@)]
  /\ TimerList' = [TimerList EXCEPT ![pool[s].p] = Removed(@, {s})]
  /\ set' = Removed(set, {s})
  /\ heap' = heap \ {pool[s].arg}
  /\ UNCHANGED <<TimerTick, firing, running, item>>

(* An iteration for a timer that fires once: it is freed, not its argument. *)
FireOnce ==
  LET s == Head(Bucket) IN
  /\ firing /\ HeadIsDue /\ pool[s].period = 0
  /\ Deliver(pool[s])
  /\ pool' = [pool EXCEPT ![s] = NoTimer]
  /\ MsgTimerTable' = [MsgTimerTable EXCEPT ![IndexOf(TimerTick)] = Tail(@)]
  /\ TimerList' = [TimerList EXCEPT ![pool[s].p] = Removed(@, {s})]
  /\ set' = Removed(set, {s})
  /\ UNCHANGED <<TimerTick, firing, running, item, heap>>

(* ... and for a cyclic one: it goes back into the table. *)
FireCyclic ==
  LET s == Head(Bucket) IN
  /\ firing /\ HeadIsDue /\ pool[s].period # 0
  /\ Deliver(pool[s])
  /\ pool' = [pool EXCEPT ![s].match = (TimerTick + pool[s].period) % TickRange]
  /\ MsgTimerTable' =
       InsertToTimerTable([MsgTimerTable EXCEPT ![IndexOf(TimerTick)] = Tail(@)],
                          pool', s, TimerTick)
  /\ set' = Append(Removed(set, {s}), s)
  /\ UNCHANGED <<TimerTick, firing, TimerList, running, item, heap>>

LoopEnds ==
  /\ firing /\ ~ HeadIsDue
  /\ firing' = FALSE
  /\ UNCHANGED <<TimerTick, pool, MsgTimerTable, TimerList, running, TaskList, item, heap,
                 set, lost>>

-----------------------------------------------------------------------------
Calls ==
  \/ \E p \in Process, id \in MsgId, arg \in Arg \cup {NoArg} :
       \/ \E delay \in Delay :
            Msg_Send(p, id, arg, delay, 0) \/ Msg_ReSend(p, id, arg, delay, 0)
       \/ \E period \in Period \ {0} :
            Msg_Send(p, id, arg, period, period) \/ Msg_ReSend(p, id, arg, period, period)
  \/ \E p \in Process, id \in MsgId : Msg_CancelAll(p, id) \/ Msg_CancelFirst(p, id)
  \/ \E p \in Process : Process_Start(p) \/ Process_Exit(p)

DTask_Run == DropItem \/ CallHandler \/ HandlerReturns

Next == Calls \/ DTask_Run \/ Msg_Run1ms \/ FireOnce \/ FireCyclic \/ LoopEnds

Spec == Init /\ [][Next]_vars
-----------------------------------------------------------------------------
(* Properties. *)

Armed == {s \in Slot : pool[s] # NoTimer}

(***************************************************************************)
(* Every variable keeps its type.  Every timer in use belongs to a process *)
(* that runs, is in that process's TimerList once and in the table once,   *)
(* at the index of its TimeMatch; nothing else is in a list.  A call that  *)
(* forgot one of the lists would leave a freed timer to be fired or a live *)
(* one beyond Msg_Cancel.                                                  *)
(***************************************************************************)
ListsAgree ==
  /\ TypeOK
  /\ \A p \in Process :
       /\ IsInjective(TimerList[p])
       /\ ToSet(TimerList[p]) = {s \in Armed : pool[s].p = p}
       /\ p \notin running => TimerList[p] = <<>>
  /\ \A i \in Index :
       /\ IsInjective(MsgTimerTable[i])
       /\ ToSet(MsgTimerTable[i]) = {s \in Armed : IndexOf(pool[s].match) = i}

(* The holders of an argument: timers, items of the queue and the handler. *)
Holders(a) ==
  {<<"timer", s>> : s \in {r \in Armed : pool[r].arg = a}}
    \cup {<<"item", i>> : i \in {j \in 1 .. Len(TaskList) : TaskList[j].arg = a}}
    \cup (IF item # NoItem /\ item.arg = a THEN {<<"handler", 0>>} ELSE {})

(***************************************************************************)
(* No message holds an argument that was freed, and no two hold the same:  *)
(* each is freed once, by the timer that is cancelled (Msg_FreeTimer) or   *)
(* by DTask_Run, whether the message was cancelled or its process exited.  *)
(* "argument will be released in task" (message.c:111): none is leaked     *)
(* unless the task pool was full when its timer fired.                     *)
(***************************************************************************)
ArgHeldOnce ==
  /\ \A a \in Arg : \A h, g \in Holders(a) : h = g /\ a \in heap
  /\ lost \/ \A a \in heap : Holders(a) # {}

(* The timers of the service: those in use, with the ticks they have left. *)
TimersSet ==
  [i \in 1 .. Len(set) |->
     LET t == pool[set[i]]
     IN [p |-> t.p, id |-> t.id, arg |-> t.arg, period |-> t.period,
         left |-> RemainTime(t, TimerTick)]]

(***************************************************************************)
(* The table delivers what module TimerService promises: every message in  *)
(* the tick it is due, in the order the timers were set, over the wrap of  *)
(* TimerTick and whatever the lists at one index hold.                     *)
(***************************************************************************)
Service == INSTANCE TimerService WITH
  Blank  <- SYS_MSG_NONE,
  Arg    <- Arg \cup {NoArg},
  timers <- TimersSet,
  queue  <- TaskList

ImplementsTimers == Service!Spec
=============================================================================

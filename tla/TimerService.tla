---------------------------- MODULE TimerService ----------------------------
(***************************************************************************)
(* What the message timers of DING OS promise: a message set to come after *)
(* n ticks is queued at the n-th tick from then, once or every period,     *)
(* unless it is cancelled first; messages due at the same tick are queued  *)
(* in the order in which they were set.                                    *)
(***************************************************************************)
EXTENDS Naturals, Sequences, DList

CONSTANTS
  TASK_ITEM_NUM,  \* items of the task pool
  Blank           \* the identifier of a cancelled message

VARIABLES
  timers,  \* the timers [p, id, arg, period, left], in the order they were set
  queue    \* the messages [p, id, arg] that are due, oldest first

vars == <<timers, queue>>

Init == timers = <<>> /\ queue = <<>>

NoneDue == \A i \in 1 .. Len(timers) : timers[i].left > 0

Message(t) == [p |-> t.p, id |-> t.id, arg |-> t.arg]

Blanked(m) == [m EXCEPT !.id = Blank]

(* What cancelling leaves of the timers and of the queue. *)
TimersWithout(p, ids) ==
  Only(timers, {i \in 1 .. Len(timers) : ~ (timers[i].p = p /\ timers[i].id \in ids)})

OthersThan(i) == Only(timers, 1 .. Len(timers) \ {i})

QueueWithout(p, ids) ==
  [i \in 1 .. Len(queue) |->
     IF queue[i].p = p /\ queue[i].id \in ids THEN Blanked(queue[i]) ELSE queue[i]]

(* One message more, now or in t.left ticks, after cancelling all with the *)
(* same name (again = TRUE), or without.                                   *)
Set(t, again) ==
  LET ids == IF again THEN {t.id} ELSE {}
      kept == TimersWithout(t.p, ids)
      q == QueueWithout(t.p, ids)
  IN \/ t.left > 0 /\ queue' = q /\ timers' = Append(kept, t)
     \/ t.left = 0 /\ queue' = Append(q, Message(t)) /\ timers' = kept

(* A message that finds no room is refused; the cancelling stands. *)
Refuse(p, ids) ==
  /\ queue' = QueueWithout(p, ids)
  /\ timers' = TimersWithout(p, ids)

(* Refused or not, that is also what cancelling all messages does. *)
Cancel(p, ids) == Refuse(p, ids)

CancelOne(i) == UNCHANGED queue /\ timers' = OthersThan(i)

Tick ==
  /\ timers' = [i \in 1 .. Len(timers) |-> [timers[i] EXCEPT !.left = @ - 1]]
  /\ UNCHANGED queue

(* The timer set first of those that are due delivers its message, unless *)
(* the pool is full, and goes, or begins its next period.                 *)
Fire(i) ==
  LET t == timers[i]
      rest == OthersThan(i)
  IN /\ t.left = 0
     /\ \A j \in 1 .. i - 1 : timers[j].left > 0
     /\ timers' = IF t.period = 0 THEN rest ELSE Append(rest, [t EXCEPT !.left = t.period])
     /\ queue' = IF Len(queue) < TASK_ITEM_NUM THEN Append(queue, Message(t)) ELSE queue

Take == queue # <<>> /\ queue' = Tail(queue) /\ UNCHANGED timers

CONSTANTS Process, MsgId, Arg, Delay, Period

Timer ==
  {t \in [p : Process, id : MsgId, arg : Arg, period : Period, left : Delay \cup Period] :
     t.period # 0 => t.left = t.period}

(* Calls are made and the clock moves when nothing is due. *)
Next ==
  \/ /\ NoneDue
     /\ \/ \E t \in Timer, again \in BOOLEAN : Set(t, again)
        \/ \E p \in Process : Cancel(p, MsgId) \/ \E m \in MsgId : Cancel(p, {m})
        \/ \E i \in 1 .. Len(timers) : CancelOne(i)
        \/ Tick
  \/ \E i \in 1 .. Len(timers) : Fire(i)
  \/ Take

Spec == Init /\ [][Next]_vars
=============================================================================

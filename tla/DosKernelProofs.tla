--------------------------- MODULE DosKernelProofs ---------------------------
(***************************************************************************)
(* What the kernel's operators return, preserve and bound: for any timers  *)
(* T, any task queue q and any message m of the process.                   *)
(***************************************************************************)
EXTENDS DosKernel, TLAPS

USE DEF TX_CHECK, TX_RESP_TIMEOUT, SYS_MSG_POLL_PROCESS, SYS_MSG_NONE

(* DTask_CancelMsg keeps the queue's length and every other item. *)
LEMMA CancelMsgFacts ==
  ASSUME NEW q \in Seq(MsgId), NEW m \in MsgId
  PROVE  /\ DTask_CancelMsg(q, m) \in Seq(MsgId)
         /\ Len(DTask_CancelMsg(q, m)) = Len(q)
         /\ \A i \in 1 .. Len(q) :
              DTask_CancelMsg(q, m)[i] = IF q[i] = m THEN SYS_MSG_NONE ELSE q[i]
<1>1. Len(q) \in Nat  OBVIOUS
<1>2. \A i \in 1 .. Len(q) : q[i] \in MsgId  OBVIOUS
<1> QED BY <1>1, <1>2 DEF DTask_CancelMsg, MsgId, TimerId

(* DTask_FlushMsg blanks every item. *)
LEMMA FlushMsgFacts ==
  ASSUME NEW q \in Seq(MsgId)
  PROVE  /\ DTask_FlushMsg(q) \in Seq(MsgId)
         /\ Len(DTask_FlushMsg(q)) = Len(q)
         /\ \A i \in 1 .. Len(q) : DTask_FlushMsg(q)[i] = SYS_MSG_NONE
BY DEF DTask_FlushMsg, MsgId, TimerId

(* DTask_Store appends, and what a full pool drops are the last messages. *)
LEMMA StoreFacts ==
  ASSUME KernelAssumption,
         NEW q \in Seq(MsgId), Len(q) <= TASK_ITEM_NUM,
         NEW s \in Seq(MsgId)
  PROVE  LET r == DTask_Store(q, s) IN
         /\ r \in Seq(MsgId)
         /\ Len(q) <= Len(r) /\ Len(r) <= Len(q) + Len(s) /\ Len(r) <= TASK_ITEM_NUM
         /\ ~ StoreFails(q, s) => Len(r) = Len(q) + Len(s)
         /\ \A i \in 1 .. Len(r) : r[i] = IF i <= Len(q) THEN q[i] ELSE s[i - Len(q)]
<1>1. Len(q) \in Nat /\ Len(s) \in Nat /\ TASK_ITEM_NUM \in Nat
  BY DEF KernelAssumption
<1>2. /\ q \o s \in Seq(MsgId)
      /\ Len(q \o s) = Len(q) + Len(s)
      /\ \A i \in 1 .. Len(q) + Len(s) :
           (q \o s)[i] = IF i <= Len(q) THEN q[i] ELSE s[i - Len(q)]
  OBVIOUS
<1>3. CASE Len(q) + Len(s) <= TASK_ITEM_NUM
  BY <1>1, <1>2, <1>3 DEF DTask_Store, StoreFails
<1>4. CASE ~ (Len(q) + Len(s) <= TASK_ITEM_NUM)
  <2> DEFINE c == q \o s
             r == SubSeq(c, 1, TASK_ITEM_NUM)
  <2>1. DTask_Store(q, s) = r
    BY <1>4 DEF DTask_Store
  <2>2. c \in Seq(MsgId) /\ Len(c) = Len(q) + Len(s)
    BY <1>2
  <2> HIDE DEF c
  <2>3. /\ r \in Seq(MsgId)
        /\ Len(r) = TASK_ITEM_NUM
        /\ \A i \in 1 .. TASK_ITEM_NUM : r[i] = c[i]
    BY <1>1, <1>4, <2>2 DEF KernelAssumption
  <2> QED BY <1>1, <1>2, <1>4, <2>1, <2>2, <2>3 DEF StoreFails, c
<1> QED BY <1>3, <1>4

(* A millisecond in which no timer is due leaves the queue as it is. *)
LEMMA StoreNothing ==
  ASSUME KernelAssumption, NEW q \in Seq(MsgId), Len(q) <= TASK_ITEM_NUM
  PROVE  DTask_Store(q, <<>>) = q
<1>1. q \o <<>> = q /\ Len(q) + Len(<<>>) = Len(q)
  OBVIOUS
<1> QED BY <1>1 DEF DTask_Store
-----------------------------------------------------------------------------
(* Taking the oldest item: the others move up by one. *)
LEMMA TailFacts ==
  ASSUME NEW q \in Seq(MsgId), q # <<>>
  PROVE  /\ Head(q) \in MsgId
         /\ Head(q) = q[1]
         /\ Len(q) \in Nat \ {0}
         /\ Tail(q) \in Seq(MsgId)
         /\ Len(Tail(q)) = Len(q) - 1
         /\ \A i \in 1 .. Len(q) - 1 : Tail(q)[i] = q[i + 1]
OBVIOUS

(* A message that was on its way still is, unless it was the one taken. *)
LEMMA TailPending ==
  ASSUME NEW T \in SUBSET Timer, NEW q \in Seq(MsgId), q # <<>>, NEW m \in MsgId
  PROVE  /\ Pending(T, Tail(q), m) => Pending(T, q, m)
         /\ Pending(T, q, m) /\ Head(q) # m => Pending(T, Tail(q), m)
<1>1. ASSUME NEW i \in 1 .. Len(Tail(q)), Tail(q)[i] = m
      PROVE  i + 1 \in 1 .. Len(q) /\ q[i + 1] = m
  BY <1>1, TailFacts
<1>2. ASSUME NEW i \in 1 .. Len(q), q[i] = m, Head(q) # m
      PROVE  i - 1 \in 1 .. Len(Tail(q)) /\ Tail(q)[i - 1] = m
  BY <1>2, TailFacts
<1> QED BY <1>1, <1>2 DEF Pending

(* A message taken that was on its way at most once is no longer. *)
LEMMA TailAtMostOnce ==
  ASSUME NEW T \in SUBSET Timer, NEW q \in Seq(MsgId), q # <<>>, NEW m \in MsgId,
         AtMostOnce(T, q, m)
  PROVE  /\ AtMostOnce(T, Tail(q), m)
         /\ Head(q) = m => ~ Pending(T, Tail(q), m)
<1>1. \A i \in 1 .. Len(Tail(q)) : i + 1 \in 1 .. Len(q) /\ Tail(q)[i] = q[i + 1]
  BY TailFacts
<1>2. AtMostOnce(T, Tail(q), m)
  <2>1. ASSUME NEW i \in 1 .. Len(Tail(q)), NEW j \in 1 .. Len(Tail(q)),
               Tail(q)[i] = m, Tail(q)[j] = m
        PROVE  i = j
    BY <1>1, <2>1 DEF AtMostOnce
  <2> QED BY <1>1, <2>1 DEF AtMostOnce
<1>3. Head(q) = m => ~ Pending(T, Tail(q), m)
  <2> SUFFICES ASSUME Head(q) = m PROVE ~ Pending(T, Tail(q), m)
    OBVIOUS
  <2>1. 1 \in 1 .. Len(q) /\ q[1] = m
    BY TailFacts
  <2>2. \A i \in 1 .. Len(Tail(q)) : Tail(q)[i] # m
    BY <1>1, <2>1, TailFacts DEF AtMostOnce
  <2> QED BY <2>1, <2>2 DEF AtMostOnce, Pending
<1> QED BY <1>2, <1>3

-----------------------------------------------------------------------------
(* Cancelling message m in the timer table and in the queue: it is no longer *)
(* on its way, and nothing changes for the other one.                        *)
LEMMA CancelFacts ==
  ASSUME NEW T \in SUBSET Timer, NEW q \in Seq(MsgId), NEW m \in TimerId
  PROVE  LET T2 == CancelTimers(T, m)
             q2 == DTask_CancelMsg(q, m) IN
         /\ T2 \in SUBSET Timer
         /\ T2 \subseteq T
         /\ ~ Pending(T2, q2, m)
         /\ \A n \in TimerId \ {m} : Pending(T2, q2, n) <=> Pending(T, q, n)
         /\ \A n \in TimerId : AtMostOnce(T, q, n) => AtMostOnce(T2, q2, n)
<1> DEFINE T2 == CancelTimers(T, m)
           q2 == DTask_CancelMsg(q, m)
<1>1. /\ m \in MsgId
      /\ Len(q2) = Len(q)
      /\ \A i \in 1 .. Len(q) : q2[i] = IF q[i] = m THEN SYS_MSG_NONE ELSE q[i]
  BY CancelMsgFacts DEF MsgId
<1>2. \A n \in TimerId : n # SYS_MSG_NONE
  BY DEF TimerId
<1>3. \A t : t \in T2 <=> t \in T /\ t.id # m
  BY DEF CancelTimers
<1> HIDE DEF T2, q2
<1>4. ~ Pending(T2, q2, m)
  BY <1>1, <1>2, <1>3 DEF Pending
<1>5. ASSUME NEW n \in TimerId \ {m} PROVE Pending(T2, q2, n) <=> Pending(T, q, n)
  BY <1>1, <1>2, <1>3 DEF Pending
<1>6. ASSUME NEW n \in TimerId, AtMostOnce(T, q, n) PROVE AtMostOnce(T2, q2, n)
  BY <1>1, <1>2, <1>3, <1>6 DEF AtMostOnce
<1> QED BY <1>3, <1>4, <1>5, <1>6 DEF T2, q2

(* A timer started for a message that is not on its way makes it pending,  *)
(* once, unless the pool of timers is empty.                               *)
LEMMA StartFacts ==
  ASSUME NEW T \in SUBSET Timer, NEW q \in Seq(MsgId), NEW m \in TimerId,
         NEW d \in Nat, ~ Pending(T, q, m)
  PROVE  LET T2 == StartTimer(T, m, d) IN
         /\ T2 \in SUBSET Timer
         /\ \A t \in T2 : t \in T \/ t.left = d
         /\ ~ StartFails(T) => Pending(T2, q, m)
         /\ \A n \in TimerId \ {m} : Pending(T2, q, n) <=> Pending(T, q, n)
         /\ \A n \in TimerId : AtMostOnce(T, q, n) => AtMostOnce(T2, q, n)
<1> DEFINE u  == [id |-> m, left |-> d]
           T2 == StartTimer(T, m, d)
<1>1. u \in Timer /\ u.id = m /\ u.left = d
  BY DEF Timer
<1>2. T2 = IF StartFails(T) THEN T ELSE T \cup {u}
  BY DEF StartTimer
<1> HIDE DEF u, T2
<1>3. \A t \in T : t.id # m
  BY DEF Pending
<1>4. \A i \in 1 .. Len(q) : q[i] # m
  BY DEF Pending
<1>5. T2 \in SUBSET Timer /\ \A t \in T2 : t \in T \/ t.left = d
  BY <1>1, <1>2
<1>6. ~ StartFails(T) => Pending(T2, q, m)
  BY <1>1, <1>2 DEF Pending
<1>7. ASSUME NEW n \in TimerId \ {m} PROVE Pending(T2, q, n) <=> Pending(T, q, n)
  BY <1>1, <1>2 DEF Pending
<1>8. ASSUME NEW n \in TimerId, AtMostOnce(T, q, n) PROVE AtMostOnce(T2, q, n)
  BY <1>1, <1>2, <1>3, <1>4, <1>8 DEF AtMostOnce
<1> QED BY <1>5, <1>6, <1>7, <1>8 DEF T2

-----------------------------------------------------------------------------
(* Storing the poll message changes nothing for the timer messages. *)
LEMMA StorePollFacts ==
  ASSUME KernelAssumption,
         NEW T \in SUBSET Timer, NEW q \in Seq(MsgId), Len(q) <= TASK_ITEM_NUM
  PROVE  LET q2 == DTask_Store(q, <<SYS_MSG_POLL_PROCESS>>) IN
         /\ q2 \in Seq(MsgId)
         /\ Len(q2) <= TASK_ITEM_NUM
         /\ \A n \in TimerId : Pending(T, q2, n) <=> Pending(T, q, n)
         /\ \A n \in TimerId : AtMostOnce(T, q, n) => AtMostOnce(T, q2, n)
<1> DEFINE s  == <<SYS_MSG_POLL_PROCESS>>
           q2 == DTask_Store(q, s)
<1>1. s \in Seq(MsgId) /\ Len(s) = 1 /\ s[1] = SYS_MSG_POLL_PROCESS
  BY DEF MsgId
<1> HIDE DEF s
<1>2. /\ q2 \in Seq(MsgId)
      /\ Len(q) \in Nat /\ Len(q2) \in Nat
      /\ Len(q) <= Len(q2) /\ Len(q2) <= Len(q) + 1 /\ Len(q2) <= TASK_ITEM_NUM
      /\ \A i \in 1 .. Len(q2) : q2[i] = IF i <= Len(q) THEN q[i] ELSE s[i - Len(q)]
  BY <1>1, StoreFacts
<1> HIDE DEF q2
<1>3. \A n \in TimerId : n # SYS_MSG_POLL_PROCESS
  BY DEF TimerId
<1>4. \A i \in 1 .. Len(q) : i \in 1 .. Len(q2) /\ q2[i] = q[i]
  BY <1>2
<1>5. ASSUME NEW i \in 1 .. Len(q2), NEW n \in TimerId, q2[i] = n
      PROVE  i \in 1 .. Len(q) /\ q[i] = n
  <2>1. CASE i <= Len(q)
    BY <1>2, <1>5, <2>1
  <2>2. CASE ~ (i <= Len(q))
    <3>1. i = Len(q) + 1
      BY <1>2, <2>2
    <3> QED BY <1>1, <1>2, <1>3, <1>5, <3>1
  <2> QED BY <2>1, <2>2
<1>6. ASSUME NEW n \in TimerId PROVE Pending(T, q2, n) <=> Pending(T, q, n)
  BY <1>4, <1>5 DEF Pending
<1>7. ASSUME NEW n \in TimerId, AtMostOnce(T, q, n) PROVE AtMostOnce(T, q2, n)
  BY <1>5, <1>7 DEF AtMostOnce
<1> QED BY <1>2, <1>6, <1>7 DEF q2, s

-----------------------------------------------------------------------------
(* A millisecond: an order of the due messages holds each exactly once. *)
LEMMA OrdersFacts ==
  ASSUME NEW D \in SUBSET TimerId, NEW s \in Orders(D)
  PROVE  /\ s \in Seq(MsgId)
         /\ \A i \in 1 .. Len(s) : s[i] \in D
         /\ \A d \in D : \E i \in 1 .. Len(s) : s[i] = d
         /\ \A i, j \in 1 .. Len(s) : s[i] = s[j] => i = j
<1>1. PICK n \in 0 .. 2 : s \in [1 .. n -> D]
  BY DEF Orders
<1>2. n \in Nat /\ D \subseteq MsgId
  BY DEF MsgId
<1>3. s \in Seq(MsgId) /\ Len(s) = n /\ DOMAIN s = 1 .. n
  BY <1>1, <1>2
<1> QED BY <1>1, <1>3 DEF Orders

(***************************************************************************)
(* Msg_Run1ms: T2 is what is left of the timers and q2 the task queue when *)
(* the due messages have been stored in the order s.  No message appears   *)
(* from nowhere or twice, and none is lost unless the pool was full.       *)
(***************************************************************************)
LEMMA TickFacts ==
  ASSUME KernelAssumption,
         NEW T \in SUBSET Timer, \A t \in T : t.left # 0,
         NEW q \in Seq(MsgId), Len(q) <= TASK_ITEM_NUM,
         \A n \in TimerId : AtMostOnce(T, q, n),
         NEW s \in Orders(Due(Aged(T)))
  PROVE  LET T2 == {t \in Aged(T) : t.left # 0}
             q2 == DTask_Store(q, s) IN
         /\ T2 \in SUBSET Timer
         /\ q2 \in Seq(MsgId)
         /\ Len(q2) <= TASK_ITEM_NUM
         /\ \A n \in TimerId : AtMostOnce(T2, q2, n)
         /\ \A n \in TimerId : Pending(T2, q2, n) => Pending(T, q, n)
         /\ \A n \in TimerId : ~ StoreFails(q, s) /\ Pending(T, q, n) => Pending(T2, q2, n)
<1> DEFINE A  == Aged(T)
           D  == Due(A)
           T2 == {t \in A : t.left # 0}
           q2 == DTask_Store(q, s)
           age(t) == [id |-> t.id, left |-> t.left - 1]
<1>1. \A t \in T : age(t) \in Timer /\ age(t).id = t.id /\ age(t).left = t.left - 1
  BY DEF Timer
<1>2. \A u : u \in A <=> \E t \in T : u = age(t)
  BY DEF Aged
<1> HIDE DEF age
<1>3. A \in SUBSET Timer
  BY <1>1, <1>2
<1>4. \A n : n \in D <=> \E u \in A : u.left = 0 /\ u.id = n
  BY DEF Due
<1> HIDE DEF A
<1>5. D \in SUBSET TimerId
  BY <1>3, <1>4 DEF Timer
<1>6. s \in Orders(D)
  BY DEF A
<1> HIDE DEF D
<1>7. /\ s \in Seq(MsgId)
      /\ Len(s) \in Nat
      /\ \A i \in 1 .. Len(s) : s[i] \in D
      /\ \A d \in D : \E i \in 1 .. Len(s) : s[i] = d
      /\ \A i, j \in 1 .. Len(s) : s[i] = s[j] => i = j
  BY <1>5, <1>6, OrdersFacts
<1>8. /\ q2 \in Seq(MsgId)
      /\ Len(q) \in Nat /\ Len(q2) \in Nat
      /\ Len(q) <= Len(q2) /\ Len(q2) <= Len(q) + Len(s) /\ Len(q2) <= TASK_ITEM_NUM
      /\ ~ StoreFails(q, s) => Len(q2) = Len(q) + Len(s)
      /\ \A i \in 1 .. Len(q2) : q2[i] = IF i <= Len(q) THEN q[i] ELSE s[i - Len(q)]
  BY <1>7, StoreFacts
<1>9. T2 \in SUBSET Timer /\ \A u : u \in T2 <=> u \in A /\ u.left # 0
  BY <1>3
<1> HIDE DEF q2, T2
<1>10. \A i \in 1 .. Len(q) : i \in 1 .. Len(q2) /\ q2[i] = q[i]
  BY <1>8
<1>11. ASSUME NEW i \in 1 .. Len(q2), ~ (i <= Len(q))
       PROVE  i - Len(q) \in 1 .. Len(s) /\ q2[i] = s[i - Len(q)] /\ q2[i] \in D
  <2>1. i - Len(q) \in 1 .. Len(s) /\ q2[i] = s[i - Len(q)]
    BY <1>7, <1>8, <1>11
  <2> QED BY <1>7, <2>1
<1>12. ASSUME NEW i \in 1 .. Len(q2), i <= Len(q)
       PROVE  i \in 1 .. Len(q) /\ q2[i] = q[i]
  BY <1>8, <1>12
<1>13. ASSUME NEW n \in D PROVE \E t \in T : t.id = n /\ t.left = 1
  <2>1. PICK t \in T : age(t).left = 0 /\ age(t).id = n
    BY <1>2, <1>4
  <2>2. t.left \in Nat /\ t.left - 1 = 0 /\ t.id = n
    BY <1>1, <2>1 DEF Timer
  <2> QED BY <2>2
<1>14. ASSUME NEW u \in T2
       PROVE  \E t \in T : t.id = u.id /\ u = age(t) /\ t.left # 1
  <2>1. PICK t \in T : u = age(t) /\ age(t).left # 0
    BY <1>2, <1>9
  <2>2. t.id = u.id /\ t.left # 1
    BY <1>1, <2>1 DEF Timer
  <2> QED BY <2>1, <2>2
<1>15. ASSUME NEW n \in TimerId PROVE AtMostOnce(T2, q2, n)
  <2>0. AtMostOnce(T, q, n)
    OBVIOUS
  <2>1. ASSUME NEW t \in T2, NEW u \in T2, t.id = n, u.id = n PROVE t = u
    BY <1>14, <2>0, <2>1 DEF AtMostOnce
  <2>1a. ASSUME NEW i \in 1 .. Len(q), q[i] = n PROVE n \notin D
    BY <1>13, <2>0, <2>1a DEF AtMostOnce
  <2>2. ASSUME NEW i \in 1 .. Len(q2), NEW j \in 1 .. Len(q2), q2[i] = n, q2[j] = n
        PROVE  i = j
    <3>1. CASE i <= Len(q) /\ j <= Len(q)
      BY <1>12, <2>0, <2>2, <3>1 DEF AtMostOnce
    <3>2. CASE i <= Len(q) /\ ~ (j <= Len(q))
      BY <1>11, <1>12, <2>2, <2>1a, <3>2
    <3>3. CASE ~ (i <= Len(q)) /\ j <= Len(q)
      BY <1>11, <1>12, <2>2, <2>1a, <3>3
    <3>4. CASE ~ (i <= Len(q)) /\ ~ (j <= Len(q))
      <4>1. i - Len(q) = j - Len(q)
        BY <1>7, <1>11, <2>2, <3>4
      <4> QED BY <1>8, <4>1
    <3> QED BY <3>1, <3>2, <3>3, <3>4
  <2>3. ASSUME NEW u \in T2, NEW i \in 1 .. Len(q2), u.id = n, q2[i] = n
        PROVE  FALSE
    <3>1. PICK t \in T : t.id = n /\ t.left # 1
      BY <1>14, <2>3
    <3>2. CASE i <= Len(q)
      BY <1>12, <2>0, <2>3, <3>1, <3>2 DEF AtMostOnce
    <3>3. CASE ~ (i <= Len(q))
      BY <1>11, <1>13, <2>0, <2>3, <3>1, <3>3 DEF AtMostOnce
    <3> QED BY <3>2, <3>3
  <2> QED BY <2>1, <2>2, <2>3 DEF AtMostOnce
<1>16. ASSUME NEW n \in TimerId, Pending(T2, q2, n) PROVE Pending(T, q, n)
  <2>1. CASE \E u \in T2 : u.id = n
    BY <1>14, <2>1 DEF Pending
  <2>2. CASE \E i \in 1 .. Len(q2) : q2[i] = n
    BY <1>11, <1>12, <1>13, <2>2 DEF Pending
  <2> QED BY <1>16, <2>1, <2>2 DEF Pending
<1>17. ASSUME NEW n \in TimerId, ~ StoreFails(q, s), Pending(T, q, n)
       PROVE  Pending(T2, q2, n)
  <2>1. CASE \E i \in 1 .. Len(q) : q[i] = n
    BY <1>10, <2>1 DEF Pending
  <2>2. ASSUME NEW t \in T, t.id = n, t.left # 1 PROVE Pending(T2, q2, n)
    <3>1. age(t) \in T2 /\ age(t).id = n
      BY <1>1, <1>2, <1>9, <2>2 DEF Timer
    <3> QED BY <3>1 DEF Pending
  <2>3. ASSUME NEW t \in T, t.id = n, t.left = 1 PROVE Pending(T2, q2, n)
    <3>1. n \in D
      BY <1>1, <1>2, <1>4, <2>3
    <3>2. PICK k \in 1 .. Len(s) : s[k] = n
      BY <1>7, <3>1
    <3>3. Len(q) + k \in 1 .. Len(q2) /\ q2[Len(q) + k] = n
      BY <1>7, <1>8, <1>17, <3>2
    <3> QED BY <3>3 DEF Pending
  <2> QED BY <1>17, <2>1, <2>2, <2>3 DEF Pending
<1> QED BY <1>8, <1>9, <1>15, <1>16, <1>17 DEF q2, T2, A
=============================================================================

----------------------------- MODULE LinkProofs -----------------------------
(***************************************************************************)
(* Proofs about module Link, for every application, port, mailbox and      *)
(* number of calls, whatever the line loses, delays or damages.            *)
(*                                                                         *)
(* Inv says whose frames, replies and tokens are under way; of the         *)
(* handlers of the slave it needs nothing but that they reply or do not.   *)
(* DataInv adds what is in the frames, from what module SlaveProofs shows  *)
(* of a reply.                                                             *)
(***************************************************************************)
EXTENDS Link, TLAPS

ToSlave == [tid : Nat, call : Nat, f : Request]

One(b) == IF b THEN 1 ELSE 0

Fetched == serving /\ answering = 0

(* What the slave has still to run. *)
Pending == One(posting) + Slave_Mbox + One(Fetched)

Elems(s) == {s[i] : i \in 1 .. Len(s)}

Rising(s) == \A i, j \in 1 .. Len(s) : i < j => s[i].call < s[j].call

(* Requests arrive in the order in which they were sent, each once, and the *)
(* slave runs none before it has received it.                              *)
Order ==
  /\ slaveRx.call \in 0 .. call
  /\ Pending > 0 => slaveRx.call > 0
  /\ \A p \in Elems(toSlave) : p.call \in slaveRx.call + 1 .. call
  /\ Rising(toSlave)
  /\ \A c \in 1 .. MaxCalls : served[c] > 0 => c <= slaveRx.call

(* The reply that is to be sent belongs to a request that was run, the last *)
(* one unless a frame came too soon.                                       *)
Preparing ==
  answering > 0 =>
    /\ serving /\ reply # NoReply
    /\ answering \in 1 .. slaveRx.call /\ served[answering] > 0
    /\ ~ overrun => answering = slaveRx.call

(* Unless a frame came too soon, there is one to run and it has not been run. *)
OnceEach ==
  /\ ~ overrun => Pending + One(answering > 0) <= 1
  /\ ~ overrun /\ Pending > 0 => served[slaveRx.call] = 0
  /\ ServedOnce

(* What comes back is the response to a request that the slave has run. *)
Answers ==
  /\ \A p \in Elems(toMaster) : p.call \in 1 .. call /\ served[p.call] > 0
  /\ RxData.call \in 0 .. call
  /\ RxData.call > 0 => served[RxData.call] > 0

(* With TCP the identifier of a request is the number of its call, and that of *)
(* a reply too if no frame came before it was sent.                           *)
Identified ==
  mode = "TCP" =>
    /\ T_Id = call
    /\ slaveRx.tid = slaveRx.call
    /\ \A p \in Elems(toSlave) : p.tid = p.call
    /\ ~ overrun => \A p \in Elems(toMaster) : p.tid = p.call

(* As long as no call has given up, there is one frame or token at most, of *)
(* the call that waits for it.                                             *)
OneUnderWay ==
  ~ late =>
    /\ Len(toSlave) + Pending + One(answering > 0) + Len(toMaster) + Master_Sem
         <= One(master.pc = "waiting")
    /\ \A p \in Elems(toSlave) \cup Elems(toMaster) : p.call = call
    /\ Pending > 0 => slaveRx.call = call
    /\ answering > 0 => answering = call

Trusted == SemTrue /\ (~ late \/ (mode = "TCP" /\ fresh /\ ~ overrun))

(* A token given, or taken, during the call stands for its own response. *)
OwnToken ==
  Trusted =>
    /\ master.pc = "waiting" /\ Master_Sem > 0 => RxData.call = call
    /\ master.pc = "parsing" /\ master.err = NONE => RxData.call = call

Called == master.pc # "idle" => call > 0

MasterType == [pc : {"idle", "waiting", "parsing"}, req : Request \cup {NoFrame},
               err : {NoError, NONE, TIME_OUT}]

(* The types that matter here; of a response only its identifier and call. *)
LinkType ==
  /\ call \in 0 .. MaxCalls
  /\ T_Id \in Nat /\ Master_Sem \in Nat /\ Slave_Mbox \in Nat /\ answering \in Nat
  /\ posting \in BOOLEAN /\ serving \in BOOLEAN
  /\ late \in BOOLEAN /\ fresh \in BOOLEAN /\ overrun \in BOOLEAN
  /\ master \in MasterType
  /\ served \in [1 .. MaxCalls -> Nat]
  /\ toSlave \in Seq(ToSlave)
  /\ slaveRx \in ToSlave \cup [tid : {0}, call : {0}, f : {NoFrame}]
  /\ \E S : toMaster \in Seq(S)
  /\ \A p \in Elems(toMaster) : {"tid", "call"} \subseteq DOMAIN p
  /\ application \subseteq Request

Inv ==
  /\ LinkType
  /\ Order
  /\ Preparing
  /\ OnceEach
  /\ Answers
  /\ Identified
  /\ OneUnderWay
  /\ OwnToken
  /\ Called
  /\ NoneMeansAnswered

-----------------------------------------------------------------------------
(* Sequences of frames. *)

LEMMA TailElems ==
  ASSUME NEW s, \E S : s \in Seq(S), s # << >>
  PROVE  /\ \E S : Tail(s) \in Seq(S)
         /\ Len(s) \in Nat \ {0} /\ Len(Tail(s)) = Len(s) - 1
         /\ Elems(Tail(s)) \subseteq Elems(s)
         /\ Head(s) \in Elems(s)
<1>1. PICK S : s \in Seq(S)
  OBVIOUS
<1>2. /\ Tail(s) \in Seq(S)
      /\ Len(s) \in Nat \ {0} /\ Len(Tail(s)) = Len(s) - 1
      /\ \A i \in 1 .. Len(s) - 1 : Tail(s)[i] = s[i + 1]
      /\ Head(s) = s[1]
  BY <1>1
<1>3. Elems(Tail(s)) \subseteq Elems(s)
  <2>1. \A i \in 1 .. Len(s) - 1 : i + 1 \in 1 .. Len(s)
    BY <1>2
  <2> QED
    BY <1>2, <2>1 DEF Elems
<1>4. Head(s) \in Elems(s)
  BY <1>2 DEF Elems
<1> QED
  BY <1>2, <1>3, <1>4

LEMMA AppendElems ==
  ASSUME NEW s, \E S : s \in Seq(S), NEW e
  PROVE  /\ \E S : s \o <<e>> \in Seq(S)
         /\ Len(s) \in Nat /\ Len(s \o <<e>>) = Len(s) + 1
         /\ Elems(s \o <<e>>) = Elems(s) \cup {e}
<1>1. PICK S : s \in Seq(S)
  OBVIOUS
<1>2. s \in Seq(S \cup {e}) /\ <<e>> \in Seq(S \cup {e}) /\ Len(<<e>>) = 1 /\ <<e>>[1] = e
  BY <1>1
<1>3. /\ s \o <<e>> \in Seq(S \cup {e})
      /\ Len(s) \in Nat /\ Len(s \o <<e>>) = Len(s) + 1
      /\ \A i \in 1 .. Len(s) : (s \o <<e>>)[i] = s[i]
      /\ (s \o <<e>>)[Len(s) + 1] = e
  BY <1>2
<1>4. Elems(s \o <<e>>) = Elems(s) \cup {e}
  BY <1>3 DEF Elems
<1> QED
  BY <1>3, <1>4

LEMMA NothingAdded ==
  ASSUME NEW s, \E S : s \in Seq(S)
  PROVE  s \o << >> = s /\ Len(s) \in Nat
<1>1. PICK S : s \in Seq(S)
  OBVIOUS
<1> QED
  BY <1>1

LEMMA NoElems ==
  ASSUME NEW s, \E S : s \in Seq(S), Len(s) = 0
  PROVE  s = << >>
<1>1. PICK S : s \in Seq(S)
  OBVIOUS
<1> QED
  BY <1>1

LEMMA SeqElems ==
  ASSUME NEW S, NEW s \in Seq(S)
  PROVE  Elems(s) \subseteq S /\ Len(s) \in Nat /\ DOMAIN s = 1 .. Len(s)
BY DEF Elems

(* A request that is sent is the last; the one that arrives comes before those left. *)
LEMMA SendShape ==
  ASSUME NEW s \in Seq(ToSlave), NEW p \in ToSlave, Rising(s),
         \A q \in Elems(s) : q.call < p.call
  PROVE  /\ Append(s, p) \in Seq(ToSlave)
         /\ Len(Append(s, p)) = Len(s) + 1
         /\ Elems(Append(s, p)) = Elems(s) \cup {p}
         /\ Rising(Append(s, p))
<1>1. /\ Append(s, p) \in Seq(ToSlave)
      /\ Len(s) \in Nat /\ Len(Append(s, p)) = Len(s) + 1
      /\ \A i \in 1 .. Len(s) : Append(s, p)[i] = s[i]
      /\ Append(s, p)[Len(s) + 1] = p
  OBVIOUS
<1>2. Elems(Append(s, p)) = Elems(s) \cup {p}
  BY <1>1 DEF Elems
<1>3. ASSUME NEW i \in 1 .. Len(s) + 1, NEW j \in 1 .. Len(s) + 1, i < j
      PROVE  Append(s, p)[i].call < Append(s, p)[j].call
  <2>1. i \in 1 .. Len(s) /\ Append(s, p)[i] = s[i] /\ s[i] \in Elems(s)
    BY <1>1, <1>3 DEF Elems
  <2>2. CASE j = Len(s) + 1
    BY <1>1, <2>1, <2>2
  <2>3. CASE j # Len(s) + 1
    <3>1. j \in 1 .. Len(s) /\ Append(s, p)[j] = s[j]
      BY <1>1, <2>3
    <3> QED
      BY <1>3, <2>1, <3>1 DEF Rising
  <2> QED
    BY <2>2, <2>3
<1> QED
  BY <1>1, <1>2, <1>3 DEF Rising

LEMMA ArriveShape ==
  ASSUME NEW s \in Seq(ToSlave), s # << >>, Rising(s)
  PROVE  /\ Tail(s) \in Seq(ToSlave)
         /\ Rising(Tail(s))
         /\ Head(s) \in ToSlave
         /\ \A p \in Elems(Tail(s)) : Head(s).call < p.call
<1>1. /\ Tail(s) \in Seq(ToSlave)
      /\ Len(s) \in Nat \ {0} /\ Len(Tail(s)) = Len(s) - 1
      /\ \A i \in 1 .. Len(s) - 1 : Tail(s)[i] = s[i + 1] /\ i + 1 \in 1 .. Len(s)
      /\ Head(s) = s[1] /\ 1 \in 1 .. Len(s)
      /\ Head(s) \in ToSlave
  OBVIOUS
<1>2. Rising(Tail(s))
  <2>1. ASSUME NEW i \in 1 .. Len(s) - 1, NEW j \in 1 .. Len(s) - 1, i < j
        PROVE  Tail(s)[i].call < Tail(s)[j].call
    BY <1>1, <2>1 DEF Rising
  <2> QED
    BY <1>1, <2>1 DEF Rising
<1>3. \A i \in 1 .. Len(s) - 1 : Head(s).call < Tail(s)[i].call
  BY <1>1 DEF Rising
<1> QED
  BY <1>1, <1>2, <1>3 DEF Elems

LEMMA Counts ==
  ASSUME LinkType
  PROVE  /\ Pending \in Nat /\ Len(toSlave) \in Nat /\ Len(toMaster) \in Nat
         /\ Master_Sem \in Nat /\ One(answering > 0) \in {0, 1}
<1>1. Pending \in Nat /\ Len(toSlave) \in Nat /\ Master_Sem \in Nat
  BY DEF LinkType, Pending, One
<1>2. Len(toMaster) \in Nat
  BY NothingAdded DEF LinkType
<1>3. One(answering > 0) \in {0, 1}
  BY DEF One
<1> QED
  BY <1>1, <1>2, <1>3

LEMMA NothingUnderWay ==
  ASSUME Inv, ~ late, master.pc # "waiting"
  PROVE  /\ Len(toSlave) = 0 /\ Pending = 0 /\ Len(toMaster) = 0 /\ Master_Sem = 0
         /\ answering = 0
<1> DEFINE a == Len(toSlave)
           m == Pending
           v == One(answering > 0)
           b == Len(toMaster)
<1>1. (((a + m) + v) + b) + Master_Sem <= 0
  BY DEF Inv, OneUnderWay, One
<1>2. a \in Nat /\ m \in Nat /\ v \in {0, 1} /\ b \in Nat /\ Master_Sem \in Nat
  BY Counts DEF Inv
<1>3. v = 0 => ~ (answering > 0)
  BY DEF One
<1>4. answering \in Nat
  BY DEF Inv, LinkType
<1> HIDE DEF a, m, v, b
<1>5. a = 0 /\ m = 0 /\ v = 0 /\ b = 0 /\ Master_Sem = 0
  BY <1>1, <1>2
<1> QED
  BY <1>3, <1>4, <1>5 DEF a, m, b


-----------------------------------------------------------------------------
(* One lemma per action. *)

LEMMA Typed ==
  ASSUME LinkAssumption, Inv
  PROVE  /\ MaxCalls \in Nat /\ call \in 0 .. MaxCalls /\ call \in Nat
         /\ T_Id \in Nat /\ Master_Sem \in Nat /\ Slave_Mbox \in Nat /\ answering \in Nat
         /\ posting \in BOOLEAN /\ serving \in BOOLEAN
         /\ late \in BOOLEAN /\ fresh \in BOOLEAN /\ overrun \in BOOLEAN
         /\ served \in [1 .. MaxCalls -> Nat]
         /\ application \subseteq Request
         /\ master \in MasterType
<1>1. MaxCalls \in Nat
  BY DEF LinkAssumption
<1>2. call \in 0 .. MaxCalls
  BY DEF Inv, LinkType
<1> QED
  BY <1>1, <1>2 DEF Inv, LinkType

LEMMA MasterStep ==
  ASSUME master \in MasterType, NEW pc \in {"idle", "waiting", "parsing"},
         NEW err \in {NoError, NONE, TIME_OUT}
  PROVE  /\ [master EXCEPT !.pc = pc, !.err = err] \in MasterType
         /\ [master EXCEPT !.pc = pc, !.err = err].pc = pc
         /\ [master EXCEPT !.pc = pc, !.err = err].err = err
BY DEF MasterType

USE DEF NoError, NONE, TIME_OUT

LEMMA RequestKeeps ==
  ASSUME LinkAssumption, Inv, NEW f \in application, MBM_Request(f)
  PROVE  Inv'
<1> DEFINE p == [tid |-> T_Id', call |-> call', f |-> f]
<1>1. /\ call' = call + 1 /\ call \in Nat /\ call' \in 0 .. MaxCalls /\ MaxCalls \in Nat
      /\ T_Id \in Nat /\ T_Id' = (IF mode = "TCP" THEN T_Id + 1 ELSE T_Id)
      /\ master.pc = "idle" /\ master' = [pc |-> "waiting", req |-> f, err |-> NoError]
      /\ fresh' = (Master_Sem = 0)
      /\ toSlave' = Append(toSlave, p)
      /\ f \in Request /\ master' \in MasterType
  <2>1. call \in Nat /\ MaxCalls \in Nat /\ T_Id \in Nat /\ f \in Request
    BY Typed
  <2>2. [pc |-> "waiting", req |-> f, err |-> NoError] \in MasterType
    BY <2>1 DEF MasterType
  <2> QED
    BY <2>1, <2>2 DEF MBM_Request
<1>2. /\ Master_Sem' = Master_Sem /\ RxData' = RxData /\ toMaster' = toMaster
      /\ slaveRx' = slaveRx /\ posting' = posting /\ Slave_Mbox' = Slave_Mbox
      /\ answering' = answering /\ reply' = reply
      /\ serving' = serving /\ result' = result /\ late' = late /\ overrun' = overrun
      /\ served' = served /\ mode' = mode /\ port' = port /\ application' = application
  BY DEF MBM_Request, config, slaveVars, handler
<1>3. p \in ToSlave /\ p.call = call + 1 /\ p.tid = T_Id'
  BY <1>1 DEF ToSlave
<1>4. /\ toSlave' \in Seq(ToSlave) /\ Len(toSlave') = Len(toSlave) + 1
      /\ Elems(toSlave') = Elems(toSlave) \cup {p} /\ Rising(toSlave')
  <2>1. toSlave \in Seq(ToSlave) /\ Rising(toSlave)
    BY DEF Inv, LinkType, Order
  <2>2. \A q \in Elems(toSlave) : q.call < p.call
    BY <1>1, <1>3 DEF Inv, Order
  <2> QED
    BY <1>1, <1>3, <2>1, <2>2, SendShape
<1> HIDE DEF p
<1>5. Pending' = Pending
  BY <1>2 DEF Pending, Fetched
<1>6. ~ late => /\ Len(toSlave) = 0 /\ Pending = 0 /\ Len(toMaster) = 0 /\ Master_Sem = 0
                /\ answering = 0 /\ Elems(toSlave) = {} /\ Elems(toMaster) = {}
  BY <1>1, NothingUnderWay DEF Elems
<1>7. LinkType'
  BY <1>1, <1>2, <1>4 DEF Inv, LinkType
<1>8. Order'
  BY <1>1, <1>2, <1>3, <1>4, <1>5 DEF Inv, Order
<1>9. OnceEach' /\ Preparing'
  BY <1>2, <1>5 DEF Inv, OnceEach, ServedOnce, Preparing
<1>10. Answers'
  BY <1>1, <1>2 DEF Inv, Answers
<1>11. Identified'
  BY <1>1, <1>2, <1>3, <1>4 DEF Inv, Identified
<1>12. OneUnderWay'
  BY <1>1, <1>2, <1>3, <1>4, <1>5, <1>6 DEF OneUnderWay, One
<1>13. OwnToken' /\ Called' /\ NoneMeansAnswered'
  <2>1. Called' /\ NoneMeansAnswered'
    BY <1>1 DEF Called, NoneMeansAnswered, Returned
  <2>2. Trusted' => ~ (Master_Sem' > 0)
    <3>1. fresh' => Master_Sem = 0
      BY <1>1, Zenon
    <3> QED
      BY <1>2, <1>6, <3>1 DEF Trusted
  <2> QED
    BY <1>1, <2>1, <2>2 DEF OwnToken
<1> QED
  BY <1>7, <1>8, <1>9, <1>10, <1>11, <1>12, <1>13 DEF Inv

LEMMA WokenKeeps ==
  ASSUME LinkAssumption, Inv, Woken
  PROVE  Inv'
<1>1. /\ master.pc = "waiting" /\ Master_Sem > 0 /\ Master_Sem \in Nat
      /\ Master_Sem' = Master_Sem - 1
      /\ master'.pc = "parsing" /\ master'.err = (IF SemTrue THEN NONE ELSE TIME_OUT)
      /\ master' \in MasterType
  <2>1. master \in MasterType /\ Master_Sem \in Nat
    BY Typed
  <2>2. CASE SemTrue
    <3>1. master' = [master EXCEPT !.pc = "parsing", !.err = NONE]
      BY <2>2 DEF Woken
    <3> QED
      BY <2>1, <2>2, <3>1, MasterStep DEF Woken
  <2>3. CASE ~ SemTrue
    <3>1. master' = [master EXCEPT !.pc = "parsing", !.err = TIME_OUT]
      BY <2>3 DEF Woken
    <3> QED
      BY <2>1, <2>3, <3>1, MasterStep DEF Woken
  <2> QED
    BY <2>2, <2>3
<1>2. /\ T_Id' = T_Id /\ RxData' = RxData /\ toSlave' = toSlave /\ toMaster' = toMaster
      /\ slaveRx' = slaveRx /\ posting' = posting /\ Slave_Mbox' = Slave_Mbox
      /\ answering' = answering /\ reply' = reply
      /\ serving' = serving /\ call' = call /\ result' = result /\ late' = late
      /\ fresh' = fresh /\ overrun' = overrun /\ served' = served
      /\ mode' = mode /\ port' = port /\ application' = application
  BY DEF Woken, config, slaveVars, handler, callVars, line
<1>3. Pending' = Pending /\ Pending \in Nat /\ Len(toSlave) \in Nat /\ Len(toMaster) \in Nat
  BY <1>2, Counts DEF Pending, Fetched, Inv
<1>4. LinkType'
  BY <1>1, <1>2 DEF Inv, LinkType
<1>5. Order' /\ Preparing' /\ OnceEach' /\ Answers' /\ Identified'
  BY <1>2, <1>3 DEF Inv, Order, Preparing, OnceEach, ServedOnce, Answers, Identified
<1>6. OneUnderWay'
  BY <1>1, <1>2, <1>3 DEF Inv, OneUnderWay, One
<1>7. OwnToken' /\ Called' /\ NoneMeansAnswered'
  BY <1>1, <1>2 DEF Inv, OwnToken, Trusted, SemTrue, Called, NoneMeansAnswered, Returned
<1> QED
  BY <1>4, <1>5, <1>6, <1>7 DEF Inv

LEMMA TimedOutKeeps ==
  ASSUME LinkAssumption, Inv, TimedOut
  PROVE  Inv'
<1>1. /\ master.pc = "waiting" /\ late' = TRUE
      /\ master'.pc = "parsing" /\ (master'.err = NONE /\ SemTrue => Master_Sem > 0)
      /\ master' \in MasterType
  <2>1. master \in MasterType /\ Master_Sem \in Nat
    BY Typed
  <2>2. CASE SemTrue /\ Master_Sem = 0
    <3>1. master' = [master EXCEPT !.pc = "parsing", !.err = TIME_OUT]
      BY <2>2 DEF TimedOut
    <3> QED
      BY <2>1, <2>2, <3>1, MasterStep DEF TimedOut
  <2>3. CASE ~ (SemTrue /\ Master_Sem = 0)
    <3>1. master' = [master EXCEPT !.pc = "parsing", !.err = NONE]
      <4>1. CASE ~ SemTrue
        BY <4>1 DEF TimedOut
      <4>2. CASE Master_Sem # 0
        BY <4>2 DEF TimedOut
      <4> QED
        BY <2>3, <4>1, <4>2
    <3> QED
      BY <2>1, <2>3, <3>1, MasterStep DEF TimedOut
  <2> QED
    BY <2>2, <2>3
<1>2. /\ T_Id' = T_Id /\ RxData' = RxData /\ toSlave' = toSlave /\ toMaster' = toMaster
      /\ slaveRx' = slaveRx /\ posting' = posting /\ Slave_Mbox' = Slave_Mbox
      /\ answering' = answering /\ reply' = reply
      /\ serving' = serving /\ call' = call /\ result' = result /\ Master_Sem' = Master_Sem
      /\ fresh' = fresh /\ overrun' = overrun /\ served' = served
      /\ mode' = mode /\ port' = port /\ application' = application
  BY DEF TimedOut, config, slaveVars, handler, line
<1>3. Pending' = Pending
  BY <1>2 DEF Pending, Fetched
<1>4. LinkType'
  BY <1>1, <1>2 DEF Inv, LinkType
<1>5. Order' /\ Preparing' /\ OnceEach' /\ Answers' /\ Identified'
  BY <1>2, <1>3 DEF Inv, Order, Preparing, OnceEach, ServedOnce, Answers, Identified
<1>6. OneUnderWay'
  BY <1>1 DEF OneUnderWay
<1>7. OwnToken' /\ Called' /\ NoneMeansAnswered'
  BY <1>1, <1>2 DEF Inv, OwnToken, Trusted, SemTrue, Called, NoneMeansAnswered, Returned
<1> QED
  BY <1>4, <1>5, <1>6, <1>7 DEF Inv

LEMMA ParseKeeps ==
  ASSUME LinkAssumption, Inv, MBM_ParseResp
  PROVE  Inv'
<1>1. /\ master.pc = "parsing" /\ master'.pc = "idle"
      /\ result'.took = RxData
      /\ result'.err = NONE => master.err = NONE
      /\ master' \in MasterType
  BY Typed, MasterStep DEF MBM_ParseResp
<1>2. /\ T_Id' = T_Id /\ RxData' = RxData /\ toSlave' = toSlave /\ toMaster' = toMaster
      /\ slaveRx' = slaveRx /\ posting' = posting /\ Slave_Mbox' = Slave_Mbox
      /\ answering' = answering /\ reply' = reply
      /\ serving' = serving /\ call' = call /\ late' = late /\ Master_Sem' = Master_Sem
      /\ fresh' = fresh /\ overrun' = overrun /\ served' = served
      /\ mode' = mode /\ port' = port /\ application' = application
  BY DEF MBM_ParseResp, config, slaveVars, handler, line
<1>3. Pending' = Pending
  BY <1>2 DEF Pending, Fetched
<1>4. LinkType'
  BY <1>1, <1>2 DEF Inv, LinkType
<1>5. Order' /\ Preparing' /\ OnceEach' /\ Answers' /\ Identified'
  BY <1>2, <1>3 DEF Inv, Order, Preparing, OnceEach, ServedOnce, Answers, Identified
<1>6. OneUnderWay'
  BY <1>1, <1>2, <1>3 DEF Inv, OneUnderWay, One
<1>7. OwnToken' /\ Called'
  BY <1>1 DEF OwnToken, Called
<1>8. NoneMeansAnswered'
  <2>1. Trusted /\ result'.err = NONE => RxData.call = call
    BY <1>1 DEF Inv, OwnToken
  <2>2. call > 0 /\ (RxData.call > 0 => served[RxData.call] > 0)
    BY <1>1 DEF Inv, Called, Answers
  <2> QED
    BY <1>1, <1>2, <2>1, <2>2 DEF NoneMeansAnswered, Returned, Trusted, SemTrue
<1> QED
  BY <1>4, <1>5, <1>6, <1>7, <1>8 DEF Inv

LEMMA MasterReceivesKeeps ==
  ASSUME LinkAssumption, Inv, MasterReceives
  PROVE  Inv'
<1> DEFINE h == Head(toMaster)
<1>1. /\ T_Id' = T_Id /\ toSlave' = toSlave /\ master' = master
      /\ slaveRx' = slaveRx /\ posting' = posting /\ Slave_Mbox' = Slave_Mbox
      /\ answering' = answering /\ reply' = reply
      /\ serving' = serving /\ call' = call /\ late' = late /\ result' = result
      /\ fresh' = fresh /\ overrun' = overrun /\ served' = served
      /\ mode' = mode /\ port' = port /\ application' = application
  BY DEF MasterReceives, config, slaveVars, handler, callVars
<1>2. /\ \E S : toMaster' \in Seq(S)
      /\ Len(toMaster) \in Nat \ {0} /\ Len(toMaster') = Len(toMaster) - 1
      /\ Elems(toMaster') \subseteq Elems(toMaster)
      /\ h \in Elems(toMaster)
  BY TailElems DEF Inv, LinkType, MasterReceives
<1>3. \/ RxData' = h /\ Master_Sem' = Master_Sem + 1 /\ (mode = "TCP" => h.tid = T_Id)
      \/ RxData' = RxData /\ Master_Sem' = Master_Sem
  BY DEF MasterReceives, Accepts
<1>4. /\ h.call \in 1 .. call /\ served[h.call] > 0
      /\ mode = "TCP" /\ ~ overrun => h.tid = h.call
  BY <1>2 DEF Inv, Answers, Identified
<1> HIDE DEF h
<1>5. /\ Pending' = Pending /\ Pending \in Nat /\ Len(toSlave) \in Nat
      /\ Master_Sem \in Nat /\ call \in Nat
  BY <1>1, Counts DEF Pending, Fetched, Inv, LinkType
<1>6. LinkType'
  BY <1>1, <1>2, <1>3, <1>5 DEF Inv, LinkType
<1>7. Order' /\ Preparing' /\ OnceEach'
  BY <1>1, <1>5 DEF Inv, Order, Preparing, OnceEach, ServedOnce
<1>8. Answers' /\ Identified'
  BY <1>1, <1>2, <1>3, <1>4, <1>5 DEF Inv, Answers, Identified
<1>9. OneUnderWay'
  BY <1>1, <1>2, <1>3, <1>5 DEF Inv, OneUnderWay, One
<1>10. OwnToken'
  <2>1. CASE RxData' = h /\ (mode = "TCP" => h.tid = T_Id)
    <3>1. Trusted => h.call = call
      BY <1>2, <1>4, <2>1 DEF Inv, Trusted, OneUnderWay, Identified
    <3> QED
      BY <1>1, <2>1, <3>1 DEF OwnToken, Trusted, SemTrue
  <2>2. CASE RxData' = RxData /\ Master_Sem' = Master_Sem
    BY <1>1, <2>2 DEF Inv, OwnToken, Trusted, SemTrue
  <2> QED
    BY <1>3, <2>1, <2>2
<1>11. Called' /\ NoneMeansAnswered'
  BY <1>1 DEF Inv, Called, NoneMeansAnswered, Returned, SemTrue
<1> QED
  BY <1>6, <1>7, <1>8, <1>9, <1>10, <1>11 DEF Inv

LEMMA SlaveReceivesKeeps ==
  ASSUME LinkAssumption, Inv, SlaveReceives
  PROVE  Inv'
<1> DEFINE h == Head(toSlave)
<1>1. /\ T_Id' = T_Id /\ master' = master /\ Master_Sem' = Master_Sem /\ RxData' = RxData
      /\ toMaster' = toMaster /\ Slave_Mbox' = Slave_Mbox
      /\ answering' = answering /\ reply' = reply
      /\ serving' = serving /\ call' = call /\ late' = late /\ result' = result
      /\ fresh' = fresh /\ served' = served
      /\ mode' = mode /\ port' = port /\ application' = application
  BY DEF SlaveReceives, config, masterVars, callVars, handler
<1>2. /\ posting = FALSE /\ posting' = TRUE /\ slaveRx' = h
      /\ overrun' = (overrun \/ Slave_Mbox > 0 \/ serving)
      /\ toSlave' = Tail(toSlave) /\ toSlave # << >> /\ toSlave \in Seq(ToSlave)
      /\ Rising(toSlave) /\ MaxCalls \in Nat /\ call \in 0 .. MaxCalls
      /\ Slave_Mbox \in Nat /\ serving \in BOOLEAN /\ overrun \in BOOLEAN
      /\ served \in [1 .. MaxCalls -> Nat]
  BY DEF Inv, LinkType, Order, SlaveReceives, LinkAssumption
<1>3. /\ toSlave' \in Seq(ToSlave) /\ Rising(toSlave') /\ h \in ToSlave
      /\ \A p \in Elems(toSlave') : h.call < p.call
  BY <1>2, ArriveShape
<1>4. /\ Len(toSlave) \in Nat \ {0} /\ Len(toSlave') = Len(toSlave) - 1
      /\ Elems(toSlave') \subseteq Elems(toSlave) /\ h \in Elems(toSlave)
  BY <1>2, TailElems
<1>5. h.call \in slaveRx.call + 1 .. call /\ slaveRx.call \in 0 .. call
  BY <1>4 DEF Inv, Order
<1> HIDE DEF h
<1>6. /\ Pending' = Pending + 1 /\ Pending \in Nat /\ Len(toMaster) \in Nat
      /\ Master_Sem \in Nat /\ One(answering > 0) \in {0, 1}
      /\ ~ (Slave_Mbox > 0 \/ serving) => Pending = 0
  BY <1>1, <1>2, Counts DEF Pending, Fetched, One, Inv
<1>7. LinkType'
  BY <1>1, <1>2, <1>3 DEF Inv, LinkType
<1>8. Order'
  <2>1. \A c \in 1 .. MaxCalls : served[c] > 0 => c <= h.call
    BY <1>2, <1>5 DEF Inv, Order
  <2>2. \A p \in Elems(toSlave') : p.call \in h.call + 1 .. call
    <3>1. \A p \in Elems(toSlave') : p.call \in slaveRx.call + 1 .. call
      BY <1>4 DEF Inv, Order
    <3>2. call \in Nat /\ slaveRx.call \in Nat /\ h.call \in Nat
      BY <1>2, <1>5
    <3>3. ASSUME NEW p \in Elems(toSlave')
          PROVE  p.call \in h.call + 1 .. call
      BY <1>3, <3>1, <3>2, <3>3
    <3> QED
      BY <3>3
  <2> QED
    BY <1>1, <1>2, <1>3, <1>5, <2>1, <2>2 DEF Order
<1>9. OnceEach'
  <2>1. served[h.call] = 0
    <3>1. h.call \in 1 .. MaxCalls /\ h.call > slaveRx.call
      BY <1>2, <1>5
    <3>2. served[h.call] \in Nat /\ ~ (served[h.call] > 0)
      BY <1>2, <1>5, <3>1 DEF Inv, Order
    <3> QED
      BY <3>2
  <2>2. ServedOnce'
    BY <1>1, <1>2 DEF Inv, OnceEach, ServedOnce
  <2>3. ~ overrun' => Pending = 0 /\ One(answering > 0) = 0
    <3>1. ~ overrun' => ~ (Slave_Mbox > 0 \/ serving)
      BY <1>2, Zenon
    <3>2. answering > 0 => serving
      BY DEF Inv, Preparing
    <3> QED
      BY <1>6, <3>1, <3>2 DEF One
  <2> QED
    BY <1>1, <1>2, <1>6, <2>1, <2>2, <2>3 DEF OnceEach
<1>13. Preparing'
  <2>1. ASSUME answering > 0
        PROVE  /\ serving /\ reply # NoReply /\ answering \in 1 .. slaveRx.call
               /\ served[answering] > 0
    BY <2>1 DEF Inv, Preparing
  <2>2. answering > 0 => overrun'
    BY <1>2, <2>1, Zenon
  <2>3. answering > 0 => answering \in 1 .. h.call
    BY <1>2, <1>5, <2>1
  <2> QED
    BY <1>1, <1>2, <2>1, <2>2, <2>3 DEF Preparing
<1>14. overrun => overrun'
  BY <1>2, Zenon
<1>10. Answers' /\ Identified'
  BY <1>1, <1>2, <1>4, <1>14 DEF Inv, Answers, Identified
<1>11. OneUnderWay'
  BY <1>1, <1>2, <1>4, <1>6 DEF Inv, OneUnderWay
<1>12. OwnToken' /\ Called' /\ NoneMeansAnswered'
  BY <1>1, <1>14 DEF Inv, OwnToken, Trusted, Called, NoneMeansAnswered, Returned, SemTrue
<1> QED
  BY <1>7, <1>8, <1>9, <1>10, <1>11, <1>12, <1>13 DEF Inv

(* The mailbox and the thread of the slave: at most what was to be run is. *)
LEMMA HandedOnKeeps ==
  ASSUME LinkAssumption, Inv, Post \/ Fetch
  PROVE  Inv'
<1>1. /\ T_Id' = T_Id /\ master' = master /\ Master_Sem' = Master_Sem /\ RxData' = RxData
      /\ toMaster' = toMaster /\ toSlave' = toSlave /\ slaveRx' = slaveRx
      /\ overrun' = overrun /\ call' = call /\ late' = late /\ result' = result
      /\ fresh' = fresh /\ served' = served /\ answering' = answering /\ reply' = reply
      /\ mode' = mode /\ port' = port /\ application' = application
  BY DEF Post, Fetch, config, masterVars, callVars, line, handler
<1>8. answering > 0 /\ serving => serving'
  <2>1. ASSUME Post, answering > 0, serving
        PROVE  serving'
    <3>1. ~ FetchFails
      BY <2>1 DEF FetchFails
    <3> QED
      BY <2>1, <3>1, Zenon DEF Post
  <2>2. CASE Fetch
    BY <2>2 DEF Fetch
  <2> QED
    BY <2>1, <2>2
<1>2. /\ posting' \in BOOLEAN /\ serving' \in BOOLEAN /\ Slave_Mbox' \in Nat
      /\ Pending' \in Nat /\ Pending' <= Pending /\ Pending \in Nat
  <2>1. posting \in BOOLEAN /\ serving \in BOOLEAN /\ Slave_Mbox \in Nat /\ MboxSize \in Nat
    BY Typed DEF LinkAssumption
  <2>2. CASE Post
    <3>1. /\ posting = TRUE /\ posting' = FALSE
          /\ serving' \in {serving, serving /\ ~ FetchFails} /\ answering' = answering
      BY <2>1, <2>2 DEF Post
    <3>2. Slave_Mbox' = Slave_Mbox + 1 \/ Slave_Mbox' = Slave_Mbox
      BY <2>2 DEF Post
    <3>3. /\ One(posting) = 1 /\ One(posting') = 0
          /\ One(Fetched) \in {0, 1} /\ One(Fetched') \in {0, One(Fetched)}
      <4>1. posting /\ ~ posting' /\ (Fetched' => Fetched)
        BY <3>1, Zenon DEF Fetched
      <4> QED
        BY <4>1 DEF One
    <3>4. posting' \in BOOLEAN /\ serving' \in BOOLEAN
      BY <2>1, <3>1, Zenon
    <3>5. Slave_Mbox' \in Nat /\ Pending' \in Nat /\ Pending' <= Pending /\ Pending \in Nat
      <4> HIDE DEF One
      <4> QED
        BY <2>1, <3>2, <3>3 DEF Pending
    <3> QED
      BY <3>4, <3>5
  <2>3. CASE Fetch
    BY <2>1, <2>3 DEF Fetch, MboxTrue, Pending, Fetched, One
  <2> QED
    BY <2>2, <2>3
<1>3. Len(toSlave) \in Nat /\ Len(toMaster) \in Nat /\ Master_Sem \in Nat
  BY Counts DEF Inv
<1>4. LinkType'
  BY <1>1, <1>2 DEF Inv, LinkType
<1>9. Preparing'
  BY <1>1, <1>8 DEF Inv, Preparing
<1>5. Order' /\ Answers' /\ Identified'
  BY <1>1, <1>2 DEF Inv, Order, Answers, Identified
<1>10. OnceEach'
  <2>1. One(answering > 0) \in {0, 1}
    BY DEF One
  <2>2. One((answering > 0)') = One(answering > 0)
    BY <1>1 DEF One
  <2> QED
    BY <1>1, <1>2, <2>1, <2>2 DEF Inv, OnceEach, ServedOnce
<1>6. OneUnderWay'
  BY <1>1, <1>2, <1>3 DEF Inv, OneUnderWay, One
<1>7. OwnToken' /\ Called' /\ NoneMeansAnswered'
  BY <1>1 DEF Inv, OwnToken, Trusted, Called, NoneMeansAnswered, Returned, SemTrue
<1> QED
  BY <1>4, <1>5, <1>6, <1>7, <1>9, <1>10 DEF Inv

LEMMA ServeKeeps ==
  ASSUME LinkAssumption, Inv, Serve
  PROVE  Inv'
<1>1. /\ T_Id' = T_Id /\ master' = master /\ Master_Sem' = Master_Sem /\ RxData' = RxData
      /\ toSlave' = toSlave /\ toMaster' = toMaster /\ slaveRx' = slaveRx
      /\ posting' = posting /\ Slave_Mbox' = Slave_Mbox
      /\ overrun' = overrun /\ call' = call /\ late' = late /\ result' = result
      /\ fresh' = fresh
      /\ mode' = mode /\ port' = port /\ application' = application
  BY DEF Serve, config, masterVars, callVars, line
<1>2. /\ serving /\ answering = 0 /\ MaxCalls \in Nat /\ call \in 0 .. MaxCalls
      /\ serving' = (reply' # NoReply)
      /\ answering' = IF reply' = NoReply THEN 0 ELSE slaveRx.call
      /\ served' = [served EXCEPT ![slaveRx.call] = @ + 1]
      /\ served \in [1 .. MaxCalls -> Nat]
  BY DEF Serve, Inv, LinkType, LinkAssumption
<1>3. /\ One(Fetched) = 1 /\ One(posting) \in Nat /\ Slave_Mbox \in Nat
      /\ Len(toSlave) \in Nat /\ Len(toMaster) \in Nat /\ Master_Sem \in Nat
  BY <1>2, Counts, Typed DEF Fetched, One, Inv
<1>4. slaveRx.call \in 1 .. call /\ slaveRx.call \in 1 .. MaxCalls
  <2>1. Pending > 0
    BY <1>3 DEF Pending
  <2> QED
    BY <1>2, <2>1 DEF Inv, Order
<1>5. /\ served' \in [1 .. MaxCalls -> Nat]
      /\ \A c \in 1 .. MaxCalls :
           served'[c] = IF c = slaveRx.call THEN served[c] + 1 ELSE served[c]
  BY <1>2, <1>4
<1>6. /\ answering' \in Nat /\ serving' \in BOOLEAN /\ ~ Fetched'
      /\ answering' > 0 => serving' /\ reply' # NoReply /\ answering' = slaveRx.call
  <2>1. slaveRx.call \in Nat \ {0}
    BY <1>2, <1>4
  <2>2. CASE reply' = NoReply
    <3>1. answering' = 0 /\ serving' = FALSE
      BY <1>2, <2>2, Zenon
    <3>2. answering' \in Nat /\ ~ (answering' > 0)
      BY <3>1
    <3>3. serving' \in BOOLEAN /\ ~ Fetched'
      BY <3>1, Zenon DEF Fetched
    <3> QED
      BY <3>2, <3>3
  <2>3. CASE reply' # NoReply
    BY <1>2, <2>1, <2>3 DEF Fetched
  <2> QED
    BY <2>2, <2>3
<1>7. /\ Pending' = Pending - 1 /\ Pending \in Nat \ {0}
      /\ One(answering > 0) = 0 /\ One((answering > 0)') \in {0, 1}
  <2>1. One(posting') = One(posting) /\ One(Fetched') = 0 /\ Slave_Mbox' = Slave_Mbox
    BY <1>1, <1>6 DEF One
  <2>2. One(answering > 0) = 0 /\ One((answering > 0)') \in {0, 1}
    BY <1>2 DEF One
  <2> QED
    BY <1>3, <2>1, <2>2 DEF Pending
<1>8. LinkType'
  BY <1>1, <1>5, <1>6 DEF Inv, LinkType
<1>9. Order'
  BY <1>1, <1>2, <1>4, <1>5, <1>7 DEF Inv, Order
<1>10. OnceEach'
  <2>1. ~ overrun => /\ Pending <= 1
                     /\ \A c \in 1 .. MaxCalls : served[c] <= 1
                     /\ served[slaveRx.call] = 0
    BY <1>7 DEF Inv, OnceEach, ServedOnce
  <2>2. ~ overrun => Pending' = 0
    BY <1>7, <2>1
  <2>3. ServedOnce'
    BY <1>1, <1>5, <2>1 DEF ServedOnce
  <2> QED
    BY <1>1, <1>7, <2>2, <2>3 DEF OnceEach
<1>11. Answers' /\ Preparing'
  <2>1. \A c \in 1 .. call : c \in 1 .. MaxCalls /\ (served[c] > 0 => served'[c] > 0)
    BY <1>2, <1>4, <1>5
  <2>2. served'[slaveRx.call] > 0
    BY <1>2, <1>4, <1>5
  <2>3. Answers'
    BY <1>1, <1>2, <2>1 DEF Inv, Answers
  <2>4. Preparing'
    BY <1>1, <1>4, <1>6, <2>2 DEF Preparing
  <2> QED
    BY <2>3, <2>4
<1>12. Identified'
  BY <1>1 DEF Inv, Identified
<1>13. OneUnderWay'
  <2>1. slaveRx.call = call \/ late
    BY <1>7 DEF Inv, OneUnderWay
  <2> DEFINE a == Len(toSlave)
             m == Pending
             v == One(answering > 0)
             b == Len(toMaster)
             w == One(master.pc = "waiting")
             y == One((answering > 0)')
  <2>2. ~ late => (((a + m) + v) + b) + Master_Sem <= w
    BY DEF Inv, OneUnderWay
  <2>3. /\ a \in Nat /\ m \in Nat \ {0} /\ v = 0 /\ b \in Nat /\ Master_Sem \in Nat
        /\ y \in {0, 1} /\ w \in {0, 1}
    BY <1>3, <1>7 DEF One
  <2>4. Pending' = m - 1
    BY <1>7
  <2>5. ~ late => (((a + Pending') + y) + b) + Master_Sem <= w
    <3> HIDE DEF a, m, v, b, w, y
    <3> QED
      BY <2>2, <2>3, <2>4
  <2> QED
    BY <1>1, <1>6, <1>7, <2>1, <2>5 DEF Inv, OneUnderWay
<1>14. OwnToken' /\ Called'
  BY <1>1 DEF Inv, OwnToken, Trusted, Called, SemTrue
<1>15. NoneMeansAnswered'
  <2>1. call > 0 /\ served[call] > 0 => served'[call] > 0
    BY <1>2, <1>4, <1>5
  <2> QED
    BY <1>1, <2>1 DEF Inv, NoneMeansAnswered, Returned, SemTrue
<1> QED
  BY <1>8, <1>9, <1>10, <1>11, <1>12, <1>13, <1>14, <1>15 DEF Inv

(* What the slave has in TxData, as it would be sent now. *)
Held == [tid |-> slaveRx.tid, call |-> answering, ok |-> TRUE, r |-> reply]

LEMMA SendReplyKeeps ==
  ASSUME LinkAssumption, Inv, SendReply
  PROVE  Inv'
<1>1. /\ T_Id' = T_Id /\ master' = master /\ Master_Sem' = Master_Sem /\ RxData' = RxData
      /\ toSlave' = toSlave /\ slaveRx' = slaveRx /\ posting' = posting
      /\ Slave_Mbox' = Slave_Mbox /\ served' = served
      /\ overrun' = overrun /\ call' = call /\ late' = late /\ result' = result
      /\ fresh' = fresh
      /\ mode' = mode /\ port' = port /\ application' = application
  BY DEF SendReply, config, masterVars, callVars
<1>2. /\ answering > 0 /\ answering' = 0 /\ serving' = FALSE
      /\ toMaster' = Append(toMaster, Held)
  BY Typed DEF SendReply, Held
<1>3. /\ serving /\ reply # NoReply /\ answering \in 1 .. slaveRx.call
      /\ answering \in 1 .. call /\ served[answering] > 0
      /\ ~ overrun => answering = slaveRx.call
  <2>1. /\ serving /\ reply # NoReply /\ answering \in 1 .. slaveRx.call
        /\ served[answering] > 0 /\ (~ overrun => answering = slaveRx.call)
    BY <1>2 DEF Inv, Preparing
  <2>2. slaveRx.call \in 0 .. call /\ call \in Nat
    BY Typed DEF Inv, Order
  <2> QED
    BY <2>1, <2>2
<1>4. /\ \E S : toMaster' \in Seq(S)
      /\ Len(toMaster) \in Nat /\ Len(toMaster') = Len(toMaster) + 1
      /\ Elems(toMaster') = Elems(toMaster) \cup {Held}
  <2>1. \E S : toMaster \in Seq(S)
    BY DEF Inv, LinkType
  <2>2. toMaster' = toMaster \o <<Held>>
    BY <1>2, <2>1
  <2> QED
    BY <2>1, <2>2, AppendElems
<1>5. /\ Held.call = answering /\ Held.tid = slaveRx.tid /\ {"tid", "call"} \subseteq DOMAIN Held
  BY DEF Held
<1>6. /\ Pending' = Pending /\ Pending \in Nat /\ Len(toSlave) \in Nat /\ Master_Sem \in Nat
      /\ One(answering > 0) = 1 /\ One((answering > 0)') = 0
  <2>1. ~ Fetched /\ ~ Fetched'
    BY <1>2 DEF Fetched
  <2>2. One(Fetched') = One(Fetched) /\ One(posting') = One(posting)
    BY <1>1, <2>1 DEF One
  <2>3. One(answering > 0) = 1 /\ One((answering > 0)') = 0
    BY <1>2 DEF One
  <2> QED
    BY <1>1, <2>2, <2>3, Counts DEF Pending, Inv
<1>7. LinkType'
  BY <1>1, <1>2, <1>4, <1>5 DEF Inv, LinkType
<1>8. Order' /\ Preparing'
  BY <1>1, <1>2, <1>6 DEF Inv, Order, Preparing
<1>9. OnceEach'
  BY <1>1, <1>6 DEF Inv, OnceEach, ServedOnce
<1>10. Answers'
  BY <1>1, <1>3, <1>4, <1>5 DEF Inv, Answers
<1>11. Identified'
  BY <1>1, <1>3, <1>4, <1>5 DEF Inv, Identified
<1>12. OneUnderWay'
  <2> DEFINE a == Len(toSlave)
             m == Pending
             v == One(answering > 0)
             b == Len(toMaster)
             w == One(master.pc = "waiting")
             y == One((answering > 0)')
             c == Len(toMaster')
  <2>1. ~ late => (((a + m) + v) + b) + Master_Sem <= w
    BY DEF Inv, OneUnderWay
  <2>2. /\ a \in Nat /\ m \in Nat /\ v = 1 /\ b \in Nat /\ Master_Sem \in Nat
        /\ y = 0 /\ w \in {0, 1} /\ c = b + 1
    BY <1>4, <1>6 DEF One
  <2>3. ~ late => (((a + m) + y) + c) + Master_Sem <= w
    <3> HIDE DEF a, m, v, b, w, y, c
    <3> QED
      BY <2>1, <2>2
  <2> QED
    BY <1>1, <1>2, <1>4, <1>5, <1>6, <2>3 DEF Inv, OneUnderWay
<1>13. OwnToken' /\ Called' /\ NoneMeansAnswered'
  BY <1>1 DEF Inv, OwnToken, Trusted, Called, NoneMeansAnswered, Returned, SemTrue
<1> QED
  BY <1>7, <1>8, <1>9, <1>10, <1>11, <1>12, <1>13 DEF Inv

LEMMA LoseKeeps ==
  ASSUME LinkAssumption, Inv, Lose
  PROVE  Inv'
<1>1. /\ T_Id' = T_Id /\ master' = master /\ Master_Sem' = Master_Sem /\ RxData' = RxData
      /\ slaveRx' = slaveRx /\ posting' = posting /\ Slave_Mbox' = Slave_Mbox
      /\ answering' = answering /\ reply' = reply
      /\ serving' = serving /\ served' = served
      /\ overrun' = overrun /\ call' = call /\ late' = late /\ result' = result
      /\ fresh' = fresh
      /\ mode' = mode /\ port' = port /\ application' = application
  BY DEF Lose, config, masterVars, slaveVars, handler, callVars
<1>2. /\ Pending' = Pending /\ Pending \in Nat /\ Master_Sem \in Nat
      /\ Len(toSlave) \in Nat /\ Len(toMaster) \in Nat
      /\ toSlave \in Seq(ToSlave) /\ Rising(toSlave) /\ (\E S : toMaster \in Seq(S))
  BY <1>1, Counts DEF Pending, Fetched, Inv, LinkType, Order
<1>3. /\ toSlave' \in Seq(ToSlave) /\ Rising(toSlave')
      /\ Len(toSlave') \in Nat /\ Len(toSlave') <= Len(toSlave)
      /\ Elems(toSlave') \subseteq Elems(toSlave)
  <2>1. CASE toSlave' = toSlave
    BY <1>2, <2>1
  <2>2. CASE toSlave # << >> /\ toSlave' = Tail(toSlave)
    BY <1>2, <2>2, ArriveShape, TailElems
  <2> QED
    BY <2>1, <2>2 DEF Lose
<1>4. /\ \E S : toMaster' \in Seq(S)
      /\ Len(toMaster') \in Nat /\ Len(toMaster') <= Len(toMaster)
      /\ Elems(toMaster') \subseteq Elems(toMaster)
  <2>1. CASE toMaster' = toMaster
    BY <1>2, <2>1
  <2>2. CASE toMaster # << >> /\ toMaster' = Tail(toMaster)
    BY <1>2, <2>2, TailElems
  <2> QED
    BY <2>1, <2>2 DEF Lose
<1>5. LinkType'
  BY <1>1, <1>3, <1>4 DEF Inv, LinkType
<1>6. Order' /\ Preparing' /\ OnceEach'
  BY <1>1, <1>2, <1>3 DEF Inv, Order, Preparing, OnceEach, ServedOnce
<1>7. Answers' /\ Identified'
  BY <1>1, <1>3, <1>4 DEF Inv, Answers, Identified
<1>8. OneUnderWay'
  BY <1>1, <1>2, <1>3, <1>4 DEF Inv, OneUnderWay, One
<1>9. OwnToken' /\ Called' /\ NoneMeansAnswered'
  BY <1>1 DEF Inv, OwnToken, Trusted, Called, NoneMeansAnswered, Returned, SemTrue
<1> QED
  BY <1>5, <1>6, <1>7, <1>8, <1>9 DEF Inv

(* Damage leaves the identifier and the call of a response as they are. *)
LEMMA DamageKeeps ==
  ASSUME LinkAssumption, Inv, Damage
  PROVE  Inv'
<1>1. /\ T_Id' = T_Id /\ master' = master /\ Master_Sem' = Master_Sem /\ RxData' = RxData
      /\ toSlave' = toSlave
      /\ slaveRx' = slaveRx /\ posting' = posting /\ Slave_Mbox' = Slave_Mbox
      /\ answering' = answering /\ reply' = reply
      /\ serving' = serving /\ served' = served
      /\ overrun' = overrun /\ call' = call /\ late' = late /\ result' = result
      /\ fresh' = fresh
      /\ mode' = mode /\ port' = port /\ application' = application
  BY DEF Damage, config, masterVars, slaveVars, handler, callVars
<1>2. PICK S : toMaster \in Seq(S)
  BY DEF Inv, LinkType
<1>3. /\ toMaster # << >>
      /\ Len(toMaster) \in Nat /\ 1 \in 1 .. Len(toMaster) /\ DOMAIN toMaster = 1 .. Len(toMaster)
  <2>1. toMaster # << >>
    BY DEF Damage
  <2> QED
    BY <1>2, <2>1
<1>4. /\ toMaster' \in Seq(S \cup {toMaster'[1]}) /\ Len(toMaster') = Len(toMaster)
      /\ \A i \in 1 .. Len(toMaster) : i # 1 => toMaster'[i] = toMaster[i]
      /\ DOMAIN toMaster'[1] = DOMAIN toMaster[1]
      /\ \A x \in {"tid", "call"} :
           x \in DOMAIN toMaster[1] => toMaster'[1][x] = toMaster[1][x]
  <2>1. PICK v \in Value :
          toMaster' = [toMaster EXCEPT ![1].ok = FALSE,
                                       ![1].r.body = [i \in 1 .. Len(@) |-> v]]
    BY DEF Damage
  <2>2. /\ DOMAIN toMaster' = DOMAIN toMaster
        /\ toMaster' = [i \in DOMAIN toMaster |-> toMaster'[i]]
        /\ \A i \in 1 .. Len(toMaster) : i # 1 => toMaster'[i] = toMaster[i]
    BY <1>3, <2>1
  <2>3. /\ DOMAIN toMaster'[1] = DOMAIN toMaster[1]
        /\ \A x \in {"tid", "call"} :
             x \in DOMAIN toMaster[1] => toMaster'[1][x] = toMaster[1][x]
    BY <1>3, <2>1
  <2>4. /\ toMaster' \in Seq(S \cup {toMaster'[1]})
        /\ Len(toMaster') = Len(toMaster)
    <3>1. \A i \in 1 .. Len(toMaster) : toMaster'[i] \in S \cup {toMaster'[1]}
      BY <1>2, <2>2
    <3> QED
      BY <1>3, <2>2, <3>1
  <2> QED
    BY <2>2, <2>3, <2>4
<1>5. \A p \in Elems(toMaster') : \E q \in Elems(toMaster) :
        /\ p.call = q.call /\ p.tid = q.tid /\ {"tid", "call"} \subseteq DOMAIN p
  <2>1. ASSUME NEW i \in 1 .. Len(toMaster)
        PROVE  /\ toMaster[i] \in Elems(toMaster)
               /\ toMaster'[i].call = toMaster[i].call /\ toMaster'[i].tid = toMaster[i].tid
               /\ {"tid", "call"} \subseteq DOMAIN toMaster'[i]
    <3>1. toMaster[i] \in Elems(toMaster)
      BY DEF Elems
    <3>2. {"tid", "call"} \subseteq DOMAIN toMaster[i]
      BY <3>1 DEF Inv, LinkType
    <3> QED
      BY <1>4, <3>1, <3>2
  <2>2. \A p \in Elems(toMaster') : \E i \in 1 .. Len(toMaster) : p = toMaster'[i]
    BY <1>4 DEF Elems
  <2> QED
    BY <2>1, <2>2
<1>6. Pending' = Pending
  BY <1>1 DEF Pending, Fetched
<1>7. LinkType'
  BY <1>1, <1>4, <1>5 DEF Inv, LinkType
<1>8. Order' /\ Preparing' /\ OnceEach'
  BY <1>1, <1>6 DEF Inv, Order, Preparing, OnceEach, ServedOnce
<1>9. Answers'
  BY <1>1, <1>5 DEF Inv, Answers
<1>10. Identified'
  BY <1>1, <1>5 DEF Inv, Identified
<1>11. OneUnderWay'
  BY <1>1, <1>4, <1>5, <1>6 DEF Inv, OneUnderWay
<1>12. OwnToken' /\ Called' /\ NoneMeansAnswered'
  BY <1>1 DEF Inv, OwnToken, Trusted, Called, NoneMeansAnswered, Returned, SemTrue
<1> QED
  BY <1>7, <1>8, <1>9, <1>10, <1>11, <1>12 DEF Inv

-----------------------------------------------------------------------------
(* Together. *)

LEMMA InitInv ==
  ASSUME LinkAssumption, Init
  PROVE  Inv
<1>1. /\ call = 0 /\ T_Id = 0 /\ Master_Sem = 0 /\ Slave_Mbox = 0
      /\ posting = FALSE /\ serving = FALSE /\ answering = 0
      /\ late = FALSE /\ fresh = TRUE /\ overrun = FALSE
      /\ master = [pc |-> "idle", req |-> NoFrame, err |-> NoError]
      /\ served = [c \in 1 .. MaxCalls |-> 0]
      /\ toSlave = << >> /\ toMaster = << >>
      /\ slaveRx = [tid |-> 0, call |-> 0, f |-> NoFrame]
      /\ RxData.call = 0 /\ application \in Application /\ MaxCalls \in Nat
  BY DEF Init, Blank, LinkAssumption
<1>2. Len(toSlave) = 0 /\ Len(toMaster) = 0 /\ Pending = 0 /\ One(answering > 0) = 0
  BY <1>1 DEF Pending, Fetched, One
<1>3. Elems(toSlave) = {} /\ Elems(toMaster) = {} /\ Rising(toSlave)
  BY <1>2 DEF Elems, Rising
<1>4. LinkType
  <2>1. toSlave \in Seq(ToSlave) /\ toMaster \in Seq({})
    BY <1>1
  <2>2. application \subseteq Request
    BY <1>1 DEF Request
  <2>3. master \in MasterType
    BY <1>1 DEF MasterType
  <2>4. served \in [1 .. MaxCalls -> Nat] /\ call \in 0 .. MaxCalls
    BY <1>1
  <2>5. slaveRx \in [tid : {0}, call : {0}, f : {NoFrame}]
    BY <1>1
  <2> QED
    BY <1>1, <1>3, <2>1, <2>2, <2>3, <2>4, <2>5 DEF LinkType
<1>5. Order /\ Preparing /\ OnceEach
  BY <1>1, <1>2, <1>3 DEF Order, Preparing, OnceEach, ServedOnce
<1>6. Answers /\ Identified /\ OneUnderWay
  BY <1>1, <1>2, <1>3 DEF Answers, Identified, OneUnderWay, One
<1>7. OwnToken /\ Called /\ NoneMeansAnswered
  BY <1>1 DEF OwnToken, Called, NoneMeansAnswered, Returned
<1> QED
  BY <1>4, <1>5, <1>6, <1>7 DEF Inv

LEMMA NextInv ==
  ASSUME LinkAssumption, Inv, [Next]_vars
  PROVE  Inv'
<1>1. CASE \E f \in application : MBM_Request(f)
  BY <1>1, RequestKeeps
<1>2. CASE Woken
  BY <1>2, WokenKeeps
<1>3. CASE TimedOut
  BY <1>3, TimedOutKeeps
<1>4. CASE MBM_ParseResp
  BY <1>4, ParseKeeps
<1>5. CASE MasterReceives
  BY <1>5, MasterReceivesKeeps
<1>6. CASE SlaveReceives
  BY <1>6, SlaveReceivesKeeps
<1>7. CASE Post \/ Fetch
  BY <1>7, HandedOnKeeps
<1>8. CASE Serve
  BY <1>8, ServeKeeps
<1>12. CASE SendReply
  BY <1>12, SendReplyKeeps
<1>9. CASE Lose
  BY <1>9, LoseKeeps
<1>10. CASE Damage
  BY <1>10, DamageKeeps
<1>11. CASE UNCHANGED vars
  <2>1. /\ T_Id' = T_Id /\ master' = master /\ Master_Sem' = Master_Sem /\ RxData' = RxData
        /\ toSlave' = toSlave /\ toMaster' = toMaster
        /\ slaveRx' = slaveRx /\ posting' = posting /\ Slave_Mbox' = Slave_Mbox
        /\ answering' = answering /\ reply' = reply
        /\ serving' = serving /\ served' = served
        /\ overrun' = overrun /\ call' = call /\ late' = late /\ result' = result
        /\ fresh' = fresh
        /\ mode' = mode /\ port' = port /\ application' = application
    BY <1>11 DEF vars, config, masterVars, slaveVars, handler, callVars, line
  <2>2. Pending' = Pending
    BY <2>1 DEF Pending, Fetched
  <2>3. LinkType'
    BY <2>1 DEF Inv, LinkType
  <2>6. Order' /\ Preparing' /\ OnceEach'
    BY <2>1, <2>2 DEF Inv, Order, Preparing, OnceEach, ServedOnce
  <2>4. Answers' /\ Identified' /\ OneUnderWay'
    BY <2>1, <2>2 DEF Inv, Answers, Identified, OneUnderWay
  <2>5. OwnToken' /\ Called' /\ NoneMeansAnswered'
    BY <2>1 DEF Inv, OwnToken, Trusted, Called, NoneMeansAnswered, Returned, SemTrue
  <2> QED
    BY <2>3, <2>4, <2>5, <2>6 DEF Inv
<1> QED
  BY <1>1, <1>2, <1>3, <1>4, <1>5, <1>6, <1>7, <1>8, <1>9, <1>10, <1>11, <1>12 DEF Next

LEMMA Invariance == FairSpec => []Inv
<1>1. Init => Inv
  BY InitInv, LinkAssumption
<1>2. Inv /\ [Next]_vars => Inv'
  BY NextInv, LinkAssumption
<1> QED
  BY <1>1, <1>2, PTL DEF FairSpec

(* A call that returns without an error has taken the response to its own    *)
(* request, which the slave has run, whatever the line lost, delayed or      *)
(* damaged: as long as no call has given up, or with TCP if no token was     *)
(* left and the slave sent each reply before the next request came, since    *)
(* MB_TCP_Tx reads the identifier of the request that came last.  What the   *)
(* call relies on in mb_os.c is a token and a frame of its own, and neither  *)
(* the semaphore nor RxData says whose it is.                                *)
THEOREM AnsweredIfNone == FairSpec => []NoneMeansAnswered
<1>1. Inv => NoneMeansAnswered
  BY DEF Inv
<1> QED
  BY <1>1, Invariance, PTL

(* No request is run twice by the slave unless a frame came while the mailbox *)
(* or the slave's thread still had the one before, on every port.             *)
THEOREM RunOnce == FairSpec => []ServedOnce
<1>1. Inv => ServedOnce
  BY DEF Inv, OnceEach
<1> QED
  BY <1>1, Invariance, PTL

(* As long as no call has given up there is one frame or token at most between *)
(* master and slave, and it belongs to the call that waits for it: the single  *)
(* RxData of each side and the counting semaphore then suffice.                *)
THEOREM OneAtATime == FairSpec => []OneUnderWay
<1>1. Inv => OneUnderWay
  BY DEF Inv
<1> QED
  BY <1>1, Invariance, PTL
-----------------------------------------------------------------------------
(* What is in the frames.  The slave's step is that of module SlaveProofs,  *)
(* whose lemmas say what a reply tells of a request and of the tables.      *)
SP == INSTANCE SlaveProofs WITH NodeAddr <- 1, Checked <- TRUE, StatRange <- 1, Frame <- Request

ToMaster == [tid : Nat, call : Nat, ok : BOOLEAN, r : Sl!Reply]

DataType ==
  /\ port \in Port /\ mode \in Mode /\ application \in Application
  /\ Elems(toMaster) \subseteq ToMaster
  /\ RxData \in ToMaster
  /\ Slave_Mbox \in 0 .. MboxSize
  /\ damaged \in 0 .. MaxDamaged
  /\ Sl!TypeOK

(* No number is beyond that of the last call, and no call is served more   *)
(* often than there were calls: each brings one frame to the slave at most. *)
Numbers ==
  /\ T_Id <= call
  /\ \A p \in Elems(toSlave) : p.tid <= call
  /\ \A p \in Elems(toMaster) : p.tid <= call
  /\ slaveRx.tid <= call /\ RxData.tid <= call
  /\ result.took.tid \in 0 .. call /\ result.took.call \in 0 .. call
  /\ \A c \in 1 .. MaxCalls : served[c] + Pending + Len(toSlave) <= call

(* A frame of the call carries its request, and what comes back as it was *)
(* sent is a reply to that.                                                *)
OwnFrames ==
  /\ call > 0 => master.req \in Request
  /\ \A p \in Elems(toSlave) : p.call = call => p.f = master.req
  /\ call > 0 /\ slaveRx.call = call => slaveRx.f = master.req

Fitting(p) == call > 0 /\ p.call = call /\ p.ok => SP!ReplyTo(master.req, p.r)

OwnReplies ==
  /\ answering > 0 => Fitting(Held)
  /\ \A p \in Elems(toMaster) : Fitting(p)
  /\ Fitting(RxData)

(* As long as no call has given up the slave keeps up, and what a reply of *)
(* this call told is still so.                                             *)
Telling(p) == call > 0 /\ p.call = call /\ p.ok => SP!Told(master.req, p.r)

StillTold ==
  ~ late =>
    /\ ~ overrun
    /\ answering > 0 => Telling(Held)
    /\ \A p \in Elems(toMaster) : Telling(p)
    /\ Telling(RxData)

ResultTold ==
  Returned({NONE}) /\ SemTrue /\ ~ late /\ result.took.ok =>
    SP!Holding(master.req, result.took.r.body)

DataInv ==
  /\ Inv
  /\ DataType
  /\ Numbers
  /\ OwnFrames
  /\ OwnReplies
  /\ StillTold
  /\ ResultTold
  /\ NoneIffNormal

-----------------------------------------------------------------------------
(* The slave of Link is that of SlaveProofs. *)

LEMMA SlaveAssumed == SP!SlaveAssumption /\ SP!DataAssumption
BY RequestAssumption DEF Sl!SlaveAssumption, SP!SlaveAssumption, Sl!DataAssumption,
   SP!DataAssumption, Sl!Coil, SP!Coil, Sl!Reply, SP!Reply, Sl!FrameType, SP!FrameType

LEMMA SameType == (Sl!TypeOK <=> SP!TypeOK) /\ (Sl!TypeOK' <=> SP!TypeOK')
BY DEF Sl!TypeOK, SP!TypeOK, Sl!Coil, SP!Coil, Sl!Reply, SP!Reply, Sl!Counter, SP!Counter

LEMMA SameStep ==
  ASSUME NEW f, Sl!MBS_RxTask(f)
  PROVE  SP!MBS_RxTask(f)
BY DEF
  Sl!MBS_RxTask, SP!MBS_RxTask, Sl!BadSum, SP!BadSum, Sl!NotForUs, SP!NotForUs,
  Sl!Unsupported, SP!Unsupported, Sl!Misfit, SP!Misfit, Sl!MBS_ReadCoils, SP!MBS_ReadCoils,
  Sl!MBS_ReadDiscreteInputs, SP!MBS_ReadDiscreteInputs, Sl!MBS_ReadHoldingRegs,
  SP!MBS_ReadHoldingRegs, Sl!MBS_ReadInputRegs, SP!MBS_ReadInputRegs, Sl!Read, SP!Read,
  Sl!MBS_ReadFileRecord, SP!MBS_ReadFileRecord, Sl!MBS_Loopback, SP!MBS_Loopback,
  Sl!MBS_StatInit, SP!MBS_StatInit, Sl!MBS_WriteSingleCoil, SP!MBS_WriteSingleCoil,
  Sl!MBS_WriteSingleHoldingReg, SP!MBS_WriteSingleHoldingReg, Sl!MBS_WriteMultipleCoils,
  SP!MBS_WriteMultipleCoils, Sl!MBS_WriteMultipleHoldingRegs,
  SP!MBS_WriteMultipleHoldingRegs, Sl!MBS_WriteFileRecord, SP!MBS_WriteFileRecord,
  Sl!Conclude, SP!Conclude, Sl!Tally, SP!Tally, Sl!Taken, SP!Taken, Sl!Ignore, SP!Ignore,
  Sl!Refuse, SP!Refuse, Sl!Answer, SP!Answer, Sl!Unicast, SP!Unicast, Sl!Normal, SP!Normal,
  Sl!Exception, SP!Exception, Sl!Sound, SP!Sound, Sl!Asked, SP!Asked, Sl!tables, SP!tables,
  Sl!Span, SP!Span, Sl!Holds, SP!Holds, Sl!Slice, SP!Slice, Sl!Wrapped, SP!Wrapped,
  Sl!Count, SP!Count, Sl!NoCounts, SP!NoCounts, Sl!ReadError, SP!ReadError, Sl!FileError,
  SP!FileError, Sl!CoilsError, SP!CoilsError, Sl!RegsError, SP!RegsError, Sl!RxCoil,
  SP!RxCoil, Sl!Bit, SP!Bit, Sl!BytesOf, SP!BytesOf, Sl!Prefix, SP!Prefix, Sl!Counter,
  SP!Counter, Sl!Supported, SP!Supported, Sl!DiagCounter, SP!DiagCounter, Sl!QUERY,
  SP!QUERY, Sl!CLR_CTR, SP!CLR_CTR, Sl!NONE, SP!NONE, Sl!ILLEGAL_FC, SP!ILLEGAL_FC,
  Sl!ILLEGAL_DATA_ADDR, SP!ILLEGAL_DATA_ADDR, Sl!ILLEGAL_DATA_QTY, SP!ILLEGAL_DATA_QTY,
  Sl!ILLEGAL_DATA_VAL, SP!ILLEGAL_DATA_VAL, Sl!RD_COIL, SP!RD_COIL, Sl!RD_DI, SP!RD_DI,
  Sl!RD_HOLDING, SP!RD_HOLDING, Sl!RD_INPUT, SP!RD_INPUT, Sl!WR_COIL, SP!WR_COIL,
  Sl!WR_REG, SP!WR_REG, Sl!LOOPBACK, SP!LOOPBACK, Sl!WR_COILS, SP!WR_COILS, Sl!WR_REGS,
  SP!WR_REGS, Sl!RD_FILE, SP!RD_FILE, Sl!WR_FILE, SP!WR_FILE

(* What the slave's thread does with a request of the master. *)
LEMMA ServeFacts ==
  ASSUME LinkAssumption, Inv, DataType, Serve
  PROVE  /\ Sl!TypeOK'
         /\ slaveRx.call \in 1 .. call /\ slaveRx.f \in Request
         /\ reply' # NoReply =>
              /\ reply' \in Sl!Reply
              /\ SP!ReplyTo(slaveRx.f, reply') /\ SP!Told(slaveRx.f, reply)'
<1>1. Pending > 0 /\ call \in Nat
  <2>1. Slave_Mbox \in Nat /\ Fetched /\ posting \in BOOLEAN
    BY Typed DEF Serve, Fetched
  <2> QED
    BY <2>1, Typed DEF Pending, One
<1>2. slaveRx.call \in 1 .. call
  BY <1>1 DEF Inv, Order
<1>3. slaveRx.f \in Request
  BY <1>2 DEF Inv, LinkType, ToSlave
<1>4. SP!TypeOK /\ SP!MBS_RxTask(slaveRx.f)
  BY SameType, SameStep DEF DataType, Serve
<1>5. SP!TypeOK'
  BY <1>3, <1>4, SlaveAssumed, SP!TypeStep
<1>6. slaveRx.f.fc \in SP!MasterFunctions
  BY <1>3, RequestAssumption DEF SP!MasterFunctions, Sl!RD_COIL, SP!RD_COIL, Sl!RD_DI, SP!RD_DI,
     Sl!RD_HOLDING, SP!RD_HOLDING, Sl!RD_INPUT, SP!RD_INPUT, Sl!WR_COIL, SP!WR_COIL,
     Sl!WR_REG, SP!WR_REG, Sl!LOOPBACK, SP!LOOPBACK, Sl!WR_COILS, SP!WR_COILS, Sl!WR_REGS,
     SP!WR_REGS
<1>7. SP!Answers(slaveRx.f)
  BY <1>3, <1>4, <1>6, SlaveAssumed, SP!EveryReplyAnswers
<1>8. slaveRx' = slaveRx
  BY DEF Serve
<1>9. reply' # NoReply => SP!ReplyTo(slaveRx.f, reply') /\ SP!Told(slaveRx.f, reply)'
  BY <1>7, <1>8 DEF SP!Answers, SP!Told, SP!Holding, SP!Slice, SP!ReplyTo
<1>10. Sl!TypeOK'
  BY <1>5, SameType
<1>11. reply' # NoReply => reply' \in Sl!Reply
  BY <1>10 DEF Sl!TypeOK
<1> QED
  BY <1>2, <1>3, <1>9, <1>10, <1>11

(* A step that serves a request shows: the request is no longer as it was fetched. *)
LEMMA ServeShows ==
  ASSUME LinkAssumption, Inv, DataType, UNCHANGED <<serving, answering>>
  PROVE  ~ Serve
<1> SUFFICES ASSUME Serve PROVE FALSE
  OBVIOUS
<1>1. slaveRx.call # 0
  BY ServeFacts, Typed
<1>2. serving /\ answering = 0 /\ serving' = (reply' # NoReply)
  BY DEF Serve
<1>3. reply' # NoReply
  <2>1. serving' = serving /\ serving = TRUE
    BY <1>2, Typed
  <2>2. (reply' # NoReply) = TRUE
    BY <1>2, <2>1
  <2> QED
    BY <2>2
<1>4. answering' = slaveRx.call
  BY <1>3 DEF Serve
<1> QED
  BY <1>1, <1>2, <1>4

-----------------------------------------------------------------------------
(* How a step moves frames, whatever step it is. *)

CallMoves ==
  \/ call' = call /\ T_Id' = T_Id /\ master'.req = master.req
  \/ /\ call' = call + 1 /\ T_Id' \in {T_Id, T_Id + 1}
     /\ master'.pc = "waiting" /\ master'.req \in Request
     /\ UNCHANGED <<toMaster, RxData, slaveRx, result, answering>>

Ended == master'.pc = "idle" => MBM_ParseResp \/ UNCHANGED <<master, call, result>>

RequestsMove ==
  /\ \A p \in Elems(toSlave') :
       \/ p \in Elems(toSlave)
       \/ call' = call + 1 /\ p.tid = T_Id' /\ p.call = call' /\ p.f = master'.req
  /\ slaveRx' = slaveRx \/ slaveRx' \in Elems(toSlave)

RepliesMove ==
  /\ \A p \in Elems(toMaster') :
       \/ p \in Elems(toMaster)
       \/ SendReply /\ p = Held
       \/ p \in ToMaster /\ ~ p.ok /\ \E q \in Elems(toMaster) : p.tid = q.tid
  /\ RxData' = RxData \/ RxData' \in Elems(toMaster)
  /\ result' = result \/ result'.took = RxData
  /\ \/ answering' = 0
     \/ answering' = answering /\ UNCHANGED handler
     \/ Serve /\ reply' # NoReply /\ answering' = slaveRx.call

SlaveMoves ==
  /\ Serve \/ UNCHANGED handler
  /\ Serve => UNCHANGED <<master, call, late, RxData, toMaster, slaveRx, overrun>>
  /\ ~ late' => ~ late
  /\ SlaveReceives \/ overrun' = overrun
  /\ Slave_Mbox' \in 0 .. MboxSize
  /\ damaged' \in 0 .. MaxDamaged
  /\ UNCHANGED config

Moves == CallMoves /\ Ended /\ RequestsMove /\ RepliesMove /\ SlaveMoves

LEMMA DataTyped ==
  ASSUME LinkAssumption, Inv, DataType
  PROVE  /\ call \in Nat /\ MboxSize \in Nat /\ Slave_Mbox \in 0 .. MboxSize
         /\ MaxDamaged \in Nat /\ damaged \in 0 .. MaxDamaged
         /\ \E S : toMaster \in Seq(S) /\ toSlave \in Seq(ToSlave)
<1>1. call \in Nat
  BY Typed
<1>2. MboxSize \in Nat
  BY DEF LinkAssumption
<1> QED
  BY <1>1, <1>2 DEF LinkAssumption, DataType, Inv, LinkType

LEMMA RequestMoves ==
  ASSUME LinkAssumption, Inv, DataType, NEW f \in application, MBM_Request(f)
  PROVE  Moves
<1> USE DataTyped
<1> DEFINE e == [tid |-> T_Id', call |-> call', f |-> f]
<1>1. /\ call' = call + 1 /\ T_Id' \in {T_Id, T_Id + 1}
      /\ master' = [pc |-> "waiting", req |-> f, err |-> NoError]
      /\ toSlave' = Append(toSlave, e)
      /\ UNCHANGED <<config, RxData, toMaster, damaged, slaveRx, Slave_Mbox, serving, answering,
                     handler, result, late, overrun>>
  BY DEF MBM_Request, slaveVars
<1>2. master'.pc = "waiting" /\ master'.req = f /\ f \in Request
  BY <1>1, Typed
<1>3. Elems(toSlave') = Elems(toSlave) \cup {e}
  <2>1. toSlave \in Seq(ToSlave)
    BY DEF Inv, LinkType
  <2>2. Append(toSlave, e) = toSlave \o <<e>>
    BY <2>1
  <2> QED
    BY <1>1, <2>1, <2>2, AppendElems
<1>4. CallMoves /\ Ended
  BY <1>1, <1>2 DEF CallMoves, Ended
<1>5. RequestsMove
  BY <1>1, <1>2, <1>3 DEF RequestsMove
<1>6. RepliesMove /\ SlaveMoves
  BY <1>1, ServeShows DEF RepliesMove, SlaveMoves
<1> QED
  BY <1>4, <1>5, <1>6 DEF Moves

LEMMA MasterMoves ==
  ASSUME LinkAssumption, Inv, DataType, Woken \/ TimedOut \/ MBM_ParseResp \/ MasterReceives
  PROVE  Moves
<1> USE DataTyped
<1>1. /\ UNCHANGED <<config, T_Id, call, toSlave, damaged, slaveRx, Slave_Mbox, answering,
                     handler, overrun>>
      /\ (late' = late \/ late' = TRUE)
  BY DEF Woken, TimedOut, MBM_ParseResp, MasterReceives, slaveVars, callVars, line
<1>2. ~ Serve
  BY ServeShows DEF Woken, TimedOut, MBM_ParseResp, MasterReceives, slaveVars
<1>3. master'.req = master.req
  <2>1. master \in MasterType
    BY Typed
  <2> QED
    <3>1. CASE Woken
      BY <2>1, <3>1 DEF Woken, MasterType
    <3>2. CASE TimedOut
      BY <2>1, <3>2 DEF TimedOut, MasterType
    <3>3. CASE MBM_ParseResp
      BY <2>1, <3>3 DEF MBM_ParseResp, MasterType
    <3>4. CASE MasterReceives
      BY <3>4 DEF MasterReceives
    <3> QED
      BY <3>1, <3>2, <3>3, <3>4
<1>4. Ended
  <2>1. master \in MasterType
    BY Typed
  <2>2. Woken \/ TimedOut => master'.pc = "parsing"
    <3>1. CASE Woken
      BY <2>1, <3>1 DEF Woken, MasterType
    <3>2. CASE TimedOut
      BY <2>1, <3>2 DEF TimedOut, MasterType
    <3> QED
      BY <3>1, <3>2
  <2>3. MasterReceives => UNCHANGED <<master, call, result>>
    BY DEF MasterReceives, callVars
  <2> QED
    BY <2>2, <2>3 DEF Ended
<1>5. /\ \A p \in Elems(toMaster') : p \in Elems(toMaster)
      /\ RxData' = RxData \/ RxData' \in Elems(toMaster)
  <2>1. CASE MasterReceives
    <3>1. /\ toMaster # <<>> /\ toMaster' = Tail(toMaster)
          /\ RxData' = RxData \/ RxData' = Head(toMaster)
      BY <2>1 DEF MasterReceives
    <3> QED
      BY <3>1, TailElems
  <2>2. CASE ~ MasterReceives
    BY <2>2 DEF Woken, TimedOut, MBM_ParseResp, line
  <2> QED
    BY <2>1, <2>2
<1>6. result' = result \/ result'.took = RxData
  BY DEF Woken, TimedOut, MBM_ParseResp, MasterReceives, callVars
<1>7. CallMoves /\ RequestsMove
  BY <1>1, <1>3 DEF CallMoves, RequestsMove
<1>8. RepliesMove
  BY <1>1, <1>5, <1>6 DEF RepliesMove
<1>9. SlaveMoves
  BY <1>1, <1>2 DEF SlaveMoves
<1> QED
  BY <1>4, <1>7, <1>8, <1>9 DEF Moves

LEMMA SlaveSideMoves ==
  ASSUME LinkAssumption, Inv, DataType, SlaveReceives \/ Post \/ Fetch
  PROVE  Moves
<1> USE DataTyped
<1>1. UNCHANGED <<config, T_Id, call, master, toMaster, RxData, result, damaged, answering,
                  handler, late>>
  BY DEF SlaveReceives, Post, Fetch, masterVars, callVars, line
<1>2. ~ Serve
  <2>1. CASE SlaveReceives \/ Post
    BY <2>1 DEF SlaveReceives, Post, Serve
  <2>2. CASE Fetch
    BY <2>2 DEF Fetch, Serve
  <2> QED
    BY <2>1, <2>2
<1>3. /\ \A p \in Elems(toSlave') : p \in Elems(toSlave)
      /\ slaveRx' = slaveRx \/ slaveRx' \in Elems(toSlave)
  <2>1. CASE SlaveReceives
    <3>1. toSlave # <<>> /\ toSlave' = Tail(toSlave) /\ slaveRx' = Head(toSlave)
      BY <2>1 DEF SlaveReceives
    <3> QED
      BY <3>1, TailElems
  <2>2. CASE Post \/ Fetch
    BY <2>2 DEF Post, Fetch, line
  <2> QED
    BY <2>1, <2>2
<1>4. Slave_Mbox' \in 0 .. MboxSize
  BY DEF SlaveReceives, Post, Fetch
<1>5. SlaveReceives \/ overrun' = overrun
  BY DEF Post, Fetch
<1>6. CallMoves /\ Ended /\ RequestsMove /\ RepliesMove
  BY <1>1, <1>3 DEF CallMoves, Ended, RequestsMove, RepliesMove
<1>7. SlaveMoves
  BY <1>1, <1>2, <1>4, <1>5 DEF SlaveMoves
<1> QED
  BY <1>6, <1>7 DEF Moves

LEMMA ServeMoves ==
  ASSUME LinkAssumption, Inv, DataType, Serve \/ SendReply
  PROVE  Moves
<1> USE DataTyped
<1>1. UNCHANGED <<config, T_Id, call, master, toSlave, RxData, result, damaged, slaveRx,
                  Slave_Mbox, late, overrun>>
  BY DEF Serve, SendReply, masterVars, callVars, line
<1>2. CallMoves /\ Ended /\ RequestsMove
  BY <1>1 DEF CallMoves, Ended, RequestsMove
<1>3. CASE Serve
  <2>1. /\ toMaster' = toMaster
        /\ answering' = 0 \/ (reply' # NoReply /\ answering' = slaveRx.call)
    BY <1>3 DEF Serve, line
  <2>2. RepliesMove
    BY <1>1, <1>3, <2>1 DEF RepliesMove
  <2>3. SlaveMoves
    BY <1>1, <1>3, <2>1 DEF SlaveMoves
  <2> QED
    BY <1>2, <2>2, <2>3 DEF Moves
<1>4. CASE SendReply
  <2>1. ~ Serve /\ UNCHANGED handler /\ answering' = 0
    BY <1>4 DEF SendReply, Serve
  <2>2. \A p \in Elems(toMaster') : p \in Elems(toMaster) \/ p = Held
    <3>1. PICK S : toMaster \in Seq(S)
      OBVIOUS
    <3>2. toMaster' = toMaster \o <<Held>>
      <4>1. toMaster' = Append(toMaster, Held)
        BY <1>4 DEF SendReply, Held
      <4> QED
        BY <3>1, <4>1
    <3>3. Elems(toMaster \o <<Held>>) = Elems(toMaster) \cup {Held}
      BY <3>1, AppendElems
    <3> QED
      BY <3>2, <3>3
  <2>3. RepliesMove
    BY <1>1, <1>4, <2>1, <2>2 DEF RepliesMove
  <2>4. SlaveMoves
    BY <1>1, <2>1 DEF SlaveMoves
  <2> QED
    BY <1>2, <2>3, <2>4 DEF Moves
<1> QED
  BY <1>3, <1>4

LEMMA LineMoves ==
  ASSUME LinkAssumption, Inv, DataType, Lose \/ Damage
  PROVE  Moves
<1> USE DataTyped
<1>1. UNCHANGED <<config, T_Id, call, master, RxData, result, slaveRx, Slave_Mbox, answering,
                  handler, late, overrun>>
  BY DEF Lose, Damage, masterVars, callVars, slaveVars
<1>2. ~ Serve
  BY ServeShows DEF Lose, Damage, slaveVars
<1>3. damaged' \in 0 .. MaxDamaged
  BY DEF Lose, Damage
<1>4. \A p \in Elems(toSlave') : p \in Elems(toSlave)
  <2>1. toSlave' = toSlave \/ (toSlave # <<>> /\ toSlave' = Tail(toSlave))
    BY DEF Lose, Damage
  <2> QED
    BY <2>1, TailElems
<1>5. \A p \in Elems(toMaster') :
        \/ p \in Elems(toMaster)
        \/ p \in ToMaster /\ ~ p.ok /\ \E q \in Elems(toMaster) : p.tid = q.tid
  <2>1. CASE Lose
    <3>1. toMaster' = toMaster \/ (toMaster # <<>> /\ toMaster' = Tail(toMaster))
      BY <2>1 DEF Lose
    <3> QED
      BY <3>1, TailElems
  <2>2. CASE Damage
    <3>1. /\ toMaster # <<>> /\ Len(toMaster) \in Nat \ {0}
          /\ DOMAIN toMaster = 1 .. Len(toMaster) /\ 1 \in 1 .. Len(toMaster)
      <4>1. toMaster # <<>>
        BY <2>2 DEF Damage
      <4>2. PICK S : toMaster \in Seq(S)
        OBVIOUS
      <4> QED
        BY <4>1, <4>2
    <3>2. PICK v \in Value :
            toMaster' = [toMaster EXCEPT ![1].ok = FALSE,
                                         ![1].r.body = [i \in 1 .. Len(@) |-> v]]
      BY <2>2 DEF Damage
    <3>3. toMaster[1] \in Elems(toMaster) /\ toMaster[1] \in ToMaster
      BY <3>1 DEF Elems, DataType
    <3> DEFINE q == toMaster[1]
               b == [i \in 1 .. Len(q.r.body) |-> v]
    <3>4. /\ DOMAIN toMaster' = DOMAIN toMaster
          /\ \A i \in 1 .. Len(toMaster) : i # 1 => toMaster'[i] = toMaster[i]
          /\ toMaster'[1] = [q EXCEPT !.ok = FALSE, !.r.body = b]
      BY <3>1, <3>2, <3>3 DEF ToMaster, Sl!Reply
    <3>5. v \in Nat /\ q.r.body \in Seq(Nat)
      BY <3>3 DEF LinkAssumption, ToMaster, Sl!Reply
    <3>6. b \in Seq(Nat)
      BY <3>5
    <3>7. [q.r EXCEPT !.body = b] \in Sl!Reply
      <4> HIDE DEF b
      <4> QED
        BY <3>3, <3>6 DEF ToMaster, Sl!Reply
    <3>8. /\ toMaster'[1] \in ToMaster /\ ~ toMaster'[1].ok /\ toMaster'[1].tid = q.tid
      <4> HIDE DEF b
      <4> QED
        BY <3>3, <3>4, <3>7 DEF ToMaster
    <3>9. Len(toMaster') = Len(toMaster)
      <4>1. toMaster' = [i \in 1 .. Len(toMaster) |-> toMaster'[i]]
        BY <3>1, <3>2
      <4> QED
        BY <3>1, <4>1
    <3>10. ASSUME NEW i \in 1 .. Len(toMaster)
           PROVE  \/ toMaster'[i] \in Elems(toMaster)
                  \/ /\ toMaster'[i] \in ToMaster /\ ~ toMaster'[i].ok
                     /\ \E p \in Elems(toMaster) : toMaster'[i].tid = p.tid
      <4>1. CASE i = 1
        BY <3>3, <3>8, <4>1
      <4>2. CASE i # 1
        BY <3>4, <4>2 DEF Elems
      <4> QED
        BY <4>1, <4>2
    <3> QED
      BY <3>9, <3>10 DEF Elems
  <2> QED
    BY <2>1, <2>2
<1>6. CallMoves /\ Ended /\ RequestsMove
  BY <1>1, <1>4 DEF CallMoves, Ended, RequestsMove
<1>7. RepliesMove
  BY <1>1, <1>5 DEF RepliesMove
<1>8. SlaveMoves
  BY <1>1, <1>2, <1>3 DEF SlaveMoves
<1> QED
  BY <1>6, <1>7, <1>8 DEF Moves

LEMMA EveryStepMoves ==
  ASSUME LinkAssumption, Inv, DataType, [Next]_vars
  PROVE  Moves
<1>1. CASE UNCHANGED vars
  <2>1. /\ UNCHANGED <<config, call, T_Id, master, toSlave, slaveRx, toMaster, RxData, result,
                       answering, handler, late, overrun, Slave_Mbox, damaged, served>>
        /\ serving' = serving
    BY <1>1 DEF vars, masterVars, slaveVars, line, callVars
  <2>2. Serve => FALSE
    <3>1. Serve => serving /\ answering = 0 /\ (serving' => answering' = slaveRx.call)
      BY DEF Serve
    <3>2. Serve => slaveRx.call # 0
      BY ServeFacts
    <3> QED
      BY <2>1, <3>1, <3>2
  <2>3. CallMoves /\ Ended /\ RequestsMove /\ RepliesMove
    BY <2>1 DEF CallMoves, Ended, RequestsMove, RepliesMove
  <2>4. SlaveMoves
    BY <2>1, <2>2, DataTyped DEF SlaveMoves
  <2> QED
    BY <2>3, <2>4 DEF Moves
<1> QED
  BY <1>1, RequestMoves, MasterMoves, SlaveSideMoves, ServeMoves, LineMoves DEF Next

-----------------------------------------------------------------------------
(* The conjuncts of DataInv, one lemma each. *)

LEMMA DataTypeKept ==
  ASSUME LinkAssumption, Inv, DataType, [Next]_vars
  PROVE  DataType'
<1>1. Moves
  BY EveryStepMoves
<1>2. /\ port' \in Port /\ mode' \in Mode /\ application' \in Application
      /\ Slave_Mbox' \in 0 .. MboxSize /\ damaged' \in 0 .. MaxDamaged
  BY <1>1 DEF Moves, SlaveMoves, config, DataType
<1>3. Sl!TypeOK'
  <2>1. CASE Serve
    BY <2>1, ServeFacts
  <2>2. CASE UNCHANGED handler
    BY <2>2 DEF handler, DataType, Sl!TypeOK
  <2> QED
    BY <1>1, <2>1, <2>2 DEF Moves, SlaveMoves
<1>4. ASSUME NEW p \in Elems(toMaster')
      PROVE  p \in ToMaster
  <2>1. CASE SendReply /\ p = Held
    <3>1. answering \in Nat /\ answering > 0
      BY <2>1, Typed DEF SendReply
    <3>2. reply # NoReply /\ answering \in 1 .. slaveRx.call
      BY <3>1 DEF Inv, Preparing
    <3>3. reply \in Sl!Reply
      BY <3>2 DEF DataType, Sl!TypeOK
    <3>4. slaveRx.tid \in Nat
      BY DEF Inv, LinkType, ToSlave
    <3> QED
      BY <2>1, <3>1, <3>3, <3>4 DEF Held, ToMaster
  <2> QED
    BY <1>1, <2>1 DEF Moves, RepliesMove, DataType
<1>5. RxData' \in ToMaster
  BY <1>1 DEF Moves, RepliesMove, DataType
<1> QED
  BY <1>2, <1>3, <1>4, <1>5 DEF DataType

LEMMA IdentifiersKept ==
  ASSUME LinkAssumption, Inv, DataType, Numbers, [Next]_vars
  PROVE  /\ T_Id' <= call'
         /\ \A p \in Elems(toSlave') : p.tid <= call'
         /\ \A p \in Elems(toMaster') : p.tid <= call'
         /\ slaveRx'.tid <= call' /\ RxData'.tid <= call'
         /\ result'.took.tid \in 0 .. call' /\ result'.took.call \in 0 .. call'
<1>1. Moves
  BY EveryStepMoves
<1>2. /\ call \in Nat /\ T_Id \in Nat /\ T_Id <= call
      /\ slaveRx.tid \in Nat /\ RxData.tid \in Nat /\ RxData.call \in 0 .. call
  BY Typed DEF Inv, LinkType, ToSlave, DataType, ToMaster, Numbers, Answers
<1>3. \A p \in Elems(toSlave) : p.tid \in Nat /\ p.tid <= call
  <2>1. Elems(toSlave) \subseteq ToSlave
    BY SeqElems DEF Inv, LinkType
  <2> QED
    BY <2>1 DEF ToSlave, Numbers
<1>4. \A p \in Elems(toMaster) : p.tid \in Nat /\ p.tid <= call
  BY DEF DataType, ToMaster, Numbers
<1>5. call' \in Nat /\ call <= call' /\ T_Id' \in Nat /\ T_Id' <= call'
  BY <1>1, <1>2 DEF Moves, CallMoves
<1>6. \A p \in Elems(toSlave') : p.tid <= call'
  BY <1>1, <1>2, <1>3, <1>5 DEF Moves, RequestsMove
<1>7. slaveRx'.tid <= call'
  BY <1>1, <1>2, <1>3, <1>5 DEF Moves, RequestsMove, Numbers
<1>8. ASSUME NEW p \in Elems(toMaster')
      PROVE  p.tid <= call'
  <2>1. p \in Elems(toMaster) \/ p.tid = slaveRx.tid \/ \E q \in Elems(toMaster) : p.tid = q.tid
    BY <1>1 DEF Moves, RepliesMove, Held
  <2> QED
    BY <1>2, <1>4, <1>5, <2>1 DEF Numbers
<1>9. RxData'.tid <= call'
  BY <1>1, <1>2, <1>4, <1>5 DEF Moves, RepliesMove, Numbers
<1>10. result'.took.tid \in 0 .. call' /\ result'.took.call \in 0 .. call'
  <2>1. RxData.tid \in 0 .. call
    BY <1>2 DEF Numbers
  <2>2. result'.took.tid \in 0 .. call /\ result'.took.call \in 0 .. call
    BY <1>1, <1>2, <2>1 DEF Moves, RepliesMove, Numbers
  <2> QED
    BY <1>2, <1>5, <2>2
<1> QED
  BY <1>5, <1>6, <1>7, <1>8, <1>9, <1>10

(* Each call pays for one frame at the slave; each run of a request uses one. *)
Toll == Pending + Len(toSlave)

LEMMA TollPaid ==
  ASSUME LinkAssumption, Inv, [Next]_vars
  PROVE  /\ Toll \in Nat
         /\ \/ call' = call + 1 /\ served' = served /\ Toll' = Toll + 1
            \/ /\ call' = call /\ Toll' \in Nat
               /\ \/ served' = served /\ Toll' <= Toll
                  \/ /\ Toll' = Toll - 1
                     /\ \A c \in 1 .. MaxCalls : served'[c] \in {served[c], served[c] + 1}
<1> DEFINE a == Len(toSlave)
           b == Len(toSlave')
           x == One(posting)
           y == One(posting')
           u == One(Fetched)
           v == One(Fetched')
<1>1. /\ a \in Nat /\ Slave_Mbox \in Nat /\ x \in Nat /\ u \in Nat
      /\ toSlave \in Seq(ToSlave) /\ posting \in BOOLEAN /\ serving \in BOOLEAN
  BY Counts, Typed DEF Inv, LinkType, One
<1>2. Toll = ((x + Slave_Mbox) + u) + a /\ Toll' = ((y + Slave_Mbox') + v) + b
  BY DEF Toll, Pending
<1>3. toSlave # <<>> => a > 0 /\ Len(Tail(toSlave)) = a - 1
  BY <1>1, TailElems
<1>4. /\ (posting => x = 1) /\ (~ posting => x = 0)
      /\ (posting' => y = 1) /\ (~ posting' => y = 0)
      /\ (Fetched => u = 1) /\ (~ Fetched => u = 0)
      /\ (Fetched' => v = 1) /\ (~ Fetched' => v = 0)
  BY DEF One
<1>5. CASE \E f \in application : MBM_Request(f)
  <2>1. /\ call' = call + 1 /\ served' = served /\ y = x /\ Slave_Mbox' = Slave_Mbox /\ v = u
    BY <1>5 DEF MBM_Request, slaveVars, Fetched
  <2>2. b = a + 1
    BY <1>1, <1>5 DEF MBM_Request
  <2> HIDE DEF a, b, x, y, u, v
  <2> QED
    BY <1>1, <1>2, <2>1, <2>2
<1>6. CASE Woken \/ TimedOut \/ MBM_ParseResp \/ MasterReceives \/ Damage \/ UNCHANGED vars
  <2>1. /\ call' = call /\ served' = served /\ y = x /\ Slave_Mbox' = Slave_Mbox /\ v = u
        /\ b = a
    BY <1>6 DEF Woken, TimedOut, MBM_ParseResp, MasterReceives, Damage, vars, callVars, slaveVars,
                line, Fetched
  <2> HIDE DEF a, b, x, y, u, v
  <2> QED
    BY <1>1, <1>2, <2>1
<1>7. CASE SlaveReceives
  <2>1. /\ call' = call /\ served' = served /\ Slave_Mbox' = Slave_Mbox /\ v = u
        /\ ~ posting /\ posting' /\ toSlave # <<>> /\ b = Len(Tail(toSlave))
    BY <1>7 DEF SlaveReceives, callVars, Fetched
  <2> HIDE DEF a, b, x, y, u, v
  <2> QED
    BY <1>1, <1>2, <1>3, <1>4, <2>1
<1>8. CASE Post
  <2>1. /\ call' = call /\ served' = served /\ b = a /\ posting /\ ~ posting'
        /\ Slave_Mbox' = Slave_Mbox \/ Slave_Mbox' = Slave_Mbox + 1
    BY <1>8 DEF Post, callVars, line
  <2>2. y = 0 /\ x = 1
    BY <1>4, <2>1
  <2>3. Fetched' => Fetched
    <3>1. answering' = answering /\ serving' \in {serving, serving /\ ~ FetchFails}
      BY <1>8 DEF Post
    <3> QED
      BY <3>1, Zenon DEF Fetched
  <2>4. v \in {0, u}
    BY <1>4, <2>3, Zenon
  <2> HIDE DEF a, b, x, y, u, v
  <2> QED
    BY <1>1, <1>2, <2>1, <2>2, <2>4
<1>9. CASE Fetch
  <2>1. /\ call' = call /\ served' = served /\ y = x /\ b = a
        /\ ~ Fetched /\ Slave_Mbox > 0 /\ Slave_Mbox' = Slave_Mbox - 1
    BY <1>9 DEF Fetch, callVars, line, Fetched
  <2>2. v \in {0, 1}
    BY DEF One
  <2> HIDE DEF a, b, x, y, u, v
  <2> QED
    BY <1>1, <1>2, <1>4, <2>1, <2>2
<1>10. CASE Serve
  <2>1. /\ call' = call /\ y = x /\ b = a /\ Slave_Mbox' = Slave_Mbox /\ Fetched
        /\ served' = [served EXCEPT ![slaveRx.call] = @ + 1]
    BY <1>10 DEF Serve, callVars, line, Fetched
  <2>2. served \in [1 .. MaxCalls -> Nat]
    BY Typed
  <2>3. \A c \in 1 .. MaxCalls : served'[c] \in {served[c], served[c] + 1}
    BY <2>1, <2>2
  <2>4. ~ Fetched'
    <3>1. slaveRx.call # 0
      <4>1. Pending > 0
        <5>1. Pending = (x + Slave_Mbox) + u /\ u = 1
          BY <1>4, <2>1 DEF Pending
        <5> HIDE DEF x, u
        <5> QED
          BY <1>1, <5>1
      <4> QED
        BY <4>1 DEF Inv, Order
    <3>2. serving' => answering' = slaveRx.call
      BY <1>10 DEF Serve
    <3> QED
      BY <3>1, <3>2 DEF Fetched
  <2>5. u = 1 /\ v = 0
    BY <1>4, <2>1, <2>4
  <2> HIDE DEF a, b, x, y, u, v
  <2>6. Toll \in Nat /\ Toll' \in Nat /\ Toll' = Toll - 1
    BY <1>1, <1>2, <2>1, <2>5
  <2> QED
    BY <2>1, <2>3, <2>6
<1>12. CASE SendReply
  <2>1. /\ call' = call /\ served' = served /\ y = x /\ b = a /\ Slave_Mbox' = Slave_Mbox
        /\ ~ Fetched /\ ~ Fetched'
    BY <1>12 DEF SendReply, callVars, Fetched
  <2>2. u = 0 /\ v = 0
    BY <1>4, <2>1
  <2> HIDE DEF a, b, x, y, u, v
  <2> QED
    BY <1>1, <1>2, <2>1, <2>2
<1>11. CASE Lose
  <2>1. /\ call' = call /\ served' = served /\ y = x /\ Slave_Mbox' = Slave_Mbox /\ v = u
    BY <1>11 DEF Lose, callVars, slaveVars, Fetched
  <2>2. b = a \/ (toSlave # <<>> /\ b = Len(Tail(toSlave)))
    BY <1>11 DEF Lose
  <2> HIDE DEF a, b, x, y, u, v
  <2> QED
    BY <1>1, <1>2, <1>3, <2>1, <2>2
<1> QED
  BY <1>5, <1>6, <1>7, <1>8, <1>9, <1>10, <1>11, <1>12 DEF Next

LEMMA NumbersKept ==
  ASSUME LinkAssumption, Inv, DataType, Numbers, [Next]_vars
  PROVE  Numbers'
<1>1. call \in Nat /\ served \in [1 .. MaxCalls -> Nat]
  BY Typed
<1>2. Pending \in Nat /\ Len(toSlave) \in Nat
  BY Counts DEF Inv
<1>3. ASSUME NEW c \in 1 .. MaxCalls
      PROVE  served[c] + Toll <= call
  <2>1. (served[c] + Pending) + Len(toSlave) <= call /\ served[c] \in Nat
    BY <1>1 DEF Numbers
  <2> DEFINE s == served[c]
             m == Pending
             a == Len(toSlave)
  <2>2. (s + m) + a <= call /\ s \in Nat /\ m \in Nat /\ a \in Nat
    BY <1>2, <2>1
  <2> HIDE DEF s, m, a
  <2>3. s + (m + a) <= call
    BY <1>1, <2>2
  <2> QED
    BY <2>3 DEF s, m, a, Toll
<1>4. ASSUME NEW c \in 1 .. MaxCalls
      PROVE  ((served[c] + Pending) + Len(toSlave) <= call)'
  <2> DEFINE s == served[c]
             t == served'[c]
             x == Toll
             y == Toll'
  <2>1. s + x <= call /\ s \in Nat /\ x \in Nat
    BY <1>1, <1>3, TollPaid
  <2>2. \/ call' = call + 1 /\ t = s /\ y = x + 1
        \/ call' = call /\ t = s /\ y <= x /\ y \in Nat
        \/ call' = call /\ y = x - 1 /\ y \in Nat /\ t \in {s, s + 1}
    BY TollPaid
  <2>3. t + y <= call' /\ t \in Nat /\ y \in Nat
    <3> HIDE DEF s, t, x, y
    <3> QED
      BY <1>1, <2>1, <2>2
  <2>4. Pending' \in Nat /\ Len(toSlave') \in Nat
    <3>1. LinkType'
      BY NextInv DEF Inv
    <3>2. toSlave' \in Seq(ToSlave) /\ Slave_Mbox' \in Nat
      BY <3>1 DEF LinkType
    <3>3. One(posting') \in Nat /\ One(Fetched') \in Nat
      BY DEF One
    <3>4. Pending' \in Nat
      BY <3>2, <3>3 DEF Pending
    <3> QED
      BY <3>2, <3>4
  <2> DEFINE m == Pending'
             a == Len(toSlave')
  <2>5. y = m + a
    BY DEF Toll
  <2>6. call' \in Nat
    BY <1>1, <2>2
  <2>7. m \in Nat /\ a \in Nat
    BY <2>4
  <2>8. (t + m) + a <= call'
    <3> HIDE DEF t, y, m, a
    <3> QED
      BY <2>3, <2>5, <2>6, <2>7
  <2> QED
    BY <2>8
<1> QED
  BY <1>4, IdentifiersKept DEF Numbers

(* Whose frames are under way. *)
LEMMA OwnFramesKept ==
  ASSUME LinkAssumption, Inv, DataType, OwnFrames, [Next]_vars
  PROVE  OwnFrames'
<1>1. Moves
  BY EveryStepMoves
<1>2. /\ call \in Nat /\ slaveRx.call \in 0 .. call
      /\ \A p \in Elems(toSlave) : p.call \in Nat /\ p.call <= call
  <2>1. call \in Nat /\ slaveRx.call \in 0 .. call
        /\ \A p \in Elems(toSlave) : p.call \in slaveRx.call + 1 .. call
    BY Typed DEF Inv, Order
  <2> QED
    BY <2>1
<1>3. CASE call' = call /\ master'.req = master.req
  <2>1. \A p \in Elems(toSlave') : p \in Elems(toSlave)
    BY <1>1, <1>2, <1>3 DEF Moves, RequestsMove
  <2>2. slaveRx' = slaveRx \/ slaveRx' \in Elems(toSlave)
    BY <1>1 DEF Moves, RequestsMove
  <2> QED
    BY <1>3, <2>1, <2>2 DEF OwnFrames
<1>4. CASE call' = call + 1 /\ master'.req \in Request /\ slaveRx' = slaveRx
  <2>1. \A p \in Elems(toSlave') : p.call = call' => p.f = master'.req
    BY <1>1, <1>2, <1>4 DEF Moves, RequestsMove
  <2>2. slaveRx'.call # call'
    BY <1>2, <1>4
  <2> QED
    BY <1>4, <2>1, <2>2 DEF OwnFrames
<1> QED
  BY <1>1, <1>3, <1>4 DEF Moves, CallMoves

(* The request that the slave has just run, if it is that of the call. *)
LEMMA ServedIsAsked ==
  ASSUME LinkAssumption, Inv, DataType, OwnFrames, Serve, reply' # NoReply, slaveRx.call = call
  PROVE  SP!ReplyTo(master.req, reply') /\ SP!Told(master.req, reply)'
<1>1. slaveRx.call \in 1 .. call /\ call \in Nat
  BY ServeFacts, Typed
<1>2. slaveRx.f = master.req
  BY <1>1 DEF OwnFrames
<1>3. slaveRx' = slaveRx /\ master' = master
  BY DEF Serve, masterVars
<1>4. SP!ReplyTo(slaveRx.f, reply') /\ SP!Told(slaveRx.f, reply)'
  BY ServeFacts
<1> QED
  BY <1>2, <1>3, <1>4

LEMMA RepliesNumbered ==
  ASSUME LinkAssumption, Inv
  PROVE  /\ call \in Nat /\ RxData.call \in Nat /\ RxData.call <= call
         /\ answering \in Nat /\ answering <= call
         /\ \A p \in Elems(toMaster) : p.call \in Nat /\ p.call <= call
<1>1. /\ call \in Nat /\ RxData.call \in 0 .. call
      /\ \A p \in Elems(toMaster) : p.call \in 1 .. call
      /\ answering \in Nat /\ slaveRx.call \in 0 .. call
      /\ answering > 0 => answering \in 1 .. slaveRx.call
  BY Typed DEF Inv, Answers, Order, Preparing
<1> QED
  BY <1>1

LEMMA OwnRepliesKept ==
  ASSUME LinkAssumption, Inv, DataType, OwnFrames, OwnReplies, [Next]_vars
  PROVE  OwnReplies'
<1>1. Moves
  BY EveryStepMoves
<1>2. CASE call' = call /\ master'.req = master.req
  <2>1. ASSUME NEW p, Fitting(p)
        PROVE  Fitting(p)'
    BY <1>2, <2>1 DEF Fitting
  <2>2. ASSUME NEW p \in Elems(toMaster')
        PROVE  Fitting(p)'
    <3>1. CASE p \in Elems(toMaster)
      BY <2>1, <3>1 DEF OwnReplies
    <3>2. CASE SendReply /\ p = Held
      <4>1. answering > 0
        BY <3>2, Typed DEF SendReply
      <4> QED
        BY <2>1, <3>2, <4>1 DEF OwnReplies
    <3>3. CASE ~ p.ok
      BY <3>3 DEF Fitting
    <3> QED
      BY <1>1, <3>1, <3>2, <3>3 DEF Moves, RepliesMove
  <2>3. Fitting(RxData)'
    <3>1. CASE RxData' = RxData
      BY <1>2, <3>1 DEF OwnReplies, Fitting
    <3>2. CASE RxData' \in Elems(toMaster)
      BY <1>2, <3>2 DEF OwnReplies, Fitting
    <3> QED
      BY <1>1, <3>1, <3>2 DEF Moves, RepliesMove
  <2>4. ASSUME (answering > 0)'
        PROVE  Fitting(Held)'
    <3>1. CASE answering' = answering /\ UNCHANGED handler
      <4>1. answering > 0 => Fitting(Held)
        BY DEF OwnReplies
      <4> QED
        BY <1>2, <2>4, <3>1, <4>1 DEF Fitting, Held, handler
    <3>2. CASE Serve /\ reply' # NoReply /\ answering' = slaveRx.call
      <4>1. slaveRx.call = call => SP!ReplyTo(master.req, reply')
        BY <3>2, ServedIsAsked
      <4> QED
        BY <1>2, <3>2, <4>1 DEF Fitting, Held
    <3> QED
      BY <1>1, <2>4, <3>1, <3>2 DEF Moves, RepliesMove
  <2> QED
    BY <2>2, <2>3, <2>4 DEF OwnReplies
<1>3. CASE call' = call + 1 /\ toMaster' = toMaster /\ RxData' = RxData /\ answering' = answering
  <2>1. /\ \A p \in Elems(toMaster') : p.call # call'
        /\ RxData'.call # call' /\ Held'.call # call'
    BY <1>3, RepliesNumbered DEF Held
  <2> QED
    BY <2>1 DEF OwnReplies, Fitting
<1> QED
  BY <1>1, <1>2, <1>3 DEF Moves, CallMoves

(* What a reply tells is about the tables alone, and only a request that is run *)
(* changes them.                                                               *)
LEMMA TablesKeepWord ==
  ASSUME NEW f, NEW r, UNCHANGED handler
  PROVE  SP!Told(f, r)' <=> SP!Told(f, r)
BY DEF handler, SP!Told, SP!Holding, SP!Slice

LEMMA OneAtMost ==
  ASSUME Inv, ~ late
  PROVE  /\ Len(toSlave) # 0 => Pending = 0 /\ ~ (answering > 0)
         /\ Pending # 0 => Len(toMaster) = 0
<1> DEFINE a == Len(toSlave)
           m == Pending
           v == One(answering > 0)
           b == Len(toMaster)
           w == One(master.pc = "waiting")
<1>1. (((a + m) + v) + b) + Master_Sem <= w
  BY DEF Inv, OneUnderWay
<1>2. w = 0 \/ w = 1
  BY DEF One
<1>3. a \in Nat /\ m \in Nat /\ v \in {0, 1} /\ b \in Nat /\ Master_Sem \in Nat
  BY Counts DEF Inv
<1>5. v = 0 => ~ (answering > 0)
  BY DEF One
<1> HIDE DEF a, m, v, b, w
<1>4. (a # 0 => m = 0 /\ v = 0) /\ (m # 0 => b = 0)
  BY <1>1, <1>2, <1>3
<1> QED
  BY <1>4, <1>5 DEF a, m, b

(* Without a call that has given up the slave's one RxData is enough. *)
LEMMA NoOverrun ==
  ASSUME LinkAssumption, Inv, SlaveReceives, ~ late, ~ overrun
  PROVE  ~ overrun'
<1>1. Len(toSlave) # 0
  BY TailElems DEF SlaveReceives, Inv, LinkType
<1>2. Pending = 0 /\ answering = 0
  BY <1>1, OneAtMost, Typed
<1>3. Slave_Mbox \in Nat /\ One(posting) \in Nat /\ One(Fetched) \in Nat
  BY Typed DEF One
<1>4. Slave_Mbox = 0 /\ One(Fetched) = 0
  BY <1>2, <1>3 DEF Pending
<1>5. Slave_Mbox = 0 /\ ~ serving
  BY <1>2, <1>4 DEF One, Fetched
<1>6. ~ (overrun \/ Slave_Mbox > 0 \/ serving)
  BY <1>5
<1>7. overrun' = (overrun \/ Slave_Mbox > 0 \/ serving)
  BY DEF SlaveReceives
<1> QED
  BY <1>6, <1>7, Zenon

(* When the slave runs a request in time nothing has come back for it yet. *)
LEMMA NothingBackYet ==
  ASSUME LinkAssumption, Inv, Serve, ~ late, ~ overrun
  PROVE  Elems(toMaster) = {} /\ RxData.call # call
<1>1. Fetched
  BY DEF Serve, Fetched
<1>2. Slave_Mbox \in Nat /\ One(posting) \in Nat /\ One(Fetched) = 1
  BY <1>1, Typed DEF One
<1>3. Pending \in Nat \ {0}
  BY <1>2 DEF Pending
<1>5. Len(toMaster) = 0
  BY <1>3, OneAtMost
<1>6. Elems(toMaster) = {}
  BY <1>5 DEF Elems
<1>7. slaveRx.call = call /\ served[slaveRx.call] = 0 /\ slaveRx.call > 0
  BY <1>3 DEF Inv, OneUnderWay, OnceEach, Order
<1>8. RxData.call # call
  BY <1>7 DEF Inv, Answers
<1> QED
  BY <1>6, <1>8

LEMMA StillToldKept ==
  ASSUME LinkAssumption, Inv, DataType, OwnFrames, StillTold, [Next]_vars
  PROVE  StillTold'
<1> SUFFICES ASSUME ~ late'
             PROVE  /\ ~ overrun'
                    /\ (answering > 0)' => Telling(Held)'
                    /\ \A p \in Elems(toMaster') : Telling(p)'
                    /\ Telling(RxData)'
  BY DEF StillTold
<1>1. Moves
  BY EveryStepMoves
<1>2. /\ ~ late /\ ~ overrun /\ Telling(RxData)
      /\ answering > 0 => Telling(Held)
      /\ \A p \in Elems(toMaster) : Telling(p)
  BY <1>1 DEF Moves, SlaveMoves, StillTold
<1>3. ~ overrun'
  BY <1>1, <1>2, NoOverrun DEF Moves, SlaveMoves
<1>4. CASE call' = call + 1 /\ toMaster' = toMaster /\ RxData' = RxData /\ answering' = answering
  <2>1. /\ \A p \in Elems(toMaster') : p.call # call'
        /\ RxData'.call # call' /\ Held'.call # call'
    BY <1>4, RepliesNumbered DEF Held
  <2> QED
    BY <1>3, <2>1 DEF Telling
<1>5. CASE call' = call /\ master'.req = master.req /\ ~ Serve
  <2>1. UNCHANGED handler
    BY <1>1, <1>5 DEF Moves, SlaveMoves
  <2>2. ASSUME NEW p, Telling(p)
        PROVE  call' > 0 /\ p.call = call' /\ p.ok => SP!Told(master.req, p.r)'
    <3>1. SP!Told(master.req, p.r)' <=> SP!Told(master.req, p.r)
      BY <1>5, <2>1 DEF handler, SP!Told, SP!Holding, SP!Slice
    <3> QED
      BY <1>5, <2>2, <3>1 DEF Telling
  <2>3. ASSUME NEW p \in Elems(toMaster')
        PROVE  Telling(p)'
    <3>1. CASE p \in Elems(toMaster)
      BY <1>2, <2>2, <3>1 DEF Telling
    <3>2. CASE ~ p.ok
      BY <3>2 DEF Telling
    <3>3. CASE SendReply /\ p = Held
      <4>1. answering > 0
        BY <3>3, Typed DEF SendReply
      <4> QED
        BY <1>2, <2>2, <3>3, <4>1 DEF Telling
    <3> QED
      BY <1>1, <3>1, <3>2, <3>3 DEF Moves, RepliesMove
  <2>4. Telling(RxData)'
    <3>1. PICK p : p = RxData'
      OBVIOUS
    <3>2. Telling(p)
      BY <1>1, <1>2, <3>1 DEF Moves, RepliesMove
    <3>3. call' > 0 /\ p.call = call' /\ p.ok => SP!Told(master.req, p.r)'
      BY <2>2, <3>2
    <3> QED
      BY <3>1, <3>3 DEF Telling
  <2>5. ASSUME (answering > 0)'
        PROVE  Telling(Held)'
    <3>1. answering' = answering
      BY <1>1, <1>5, <2>5 DEF Moves, RepliesMove
    <3>2. Telling(Held) /\ Held.ok /\ Held.call = answering /\ Held.r = reply
      BY <1>2, <2>5, <3>1 DEF Held
    <3>3. PICK p : p = Held
      OBVIOUS
    <3>4. call' > 0 /\ p.call = call' /\ p.ok => SP!Told(master.req, p.r)'
      BY <2>2, <3>2, <3>3
    <3>5. p.ok /\ p.call = answering /\ p.r = reply /\ reply' = reply
      BY <2>1, <3>2, <3>3 DEF handler
    <3>6. Held'.ok /\ Held'.call = p.call /\ Held'.r = p.r
      BY <3>1, <3>5 DEF Held
    <3> QED
      BY <3>4, <3>5, <3>6 DEF Telling
  <2> QED
    BY <1>3, <2>3, <2>4, <2>5
<1>6. CASE call' = call /\ master'.req = master.req /\ Serve
  <2>1. /\ Elems(toMaster) = {} /\ RxData' = RxData /\ RxData.call # call
        /\ toMaster' = toMaster
    BY <1>1, <1>2, <1>6, NothingBackYet DEF Moves, SlaveMoves
  <2>2. Telling(RxData)' /\ Elems(toMaster') = {}
    BY <1>6, <2>1 DEF Telling
  <2>3. ASSUME (answering > 0)'
        PROVE  Telling(Held)'
    <3>1. reply' # NoReply /\ answering' = slaveRx.call
      BY <1>6, <2>3 DEF Serve
    <3>2. slaveRx.call = call => SP!Told(master.req, reply)'
      BY <1>6, <3>1, ServedIsAsked
    <3>3. Held'.call = slaveRx.call /\ Held'.r = reply'
      BY <3>1 DEF Held
    <3> QED
      BY <1>6, <3>2, <3>3 DEF Telling
  <2> QED
    BY <1>3, <2>2, <2>3
<1> QED
  BY <1>1, <1>4, <1>5, <1>6 DEF Moves, CallMoves

-----------------------------------------------------------------------------
(* What the .._Resp functions make of a reply to their request. *)

LEMMA Remainder ==
  ASSUME NEW n \in Nat, NEW d \in Nat \ {0}
  PROVE  /\ n % d \in Nat /\ n % d < d
         /\ n < d => n % d = n
         /\ n >= d => n >= (n % d) + d
<1> DEFINE m == n % d
           q == n \div d
<1>1. m \in Nat /\ m < d
  OBVIOUS
<1>2. n = d * q + m /\ q \in Nat
  OBVIOUS
<1>3. CASE q = 0
  <2>1. n = m
    BY <1>1, <1>2, <1>3
  <2> HIDE DEF m, q
  <2>2. m < d /\ m = n /\ ~ (n >= d)
    BY <1>1, <2>1
  <2> QED
    BY <2>2 DEF m
<1>4. CASE q # 0
  <2>1. d * 1 <= d * q /\ d * q \in Nat /\ d * 1 = d
    <3>1. 1 <= q /\ q \in Nat /\ d \in Nat
      BY <1>2, <1>4
    <3> HIDE DEF q
    <3> QED
      BY <3>1
  <2> DEFINE t == d * q
  <2>2. n = t + m /\ t >= d /\ t \in Nat
    BY <1>2, <2>1
  <2> HIDE DEF m, q, t
  <2>3. n >= m + d /\ ~ (n < d)
    BY <1>1, <2>2
  <2> QED
    BY <1>1, <2>3 DEF m
<1> QED
  BY <1>3, <1>4

LEMMA OneQuotient ==
  ASSUME NEW d \in Nat \ {0}, NEW i \in Nat, NEW j \in Nat, NEW x \in Nat, NEW y \in Nat,
         x < d, d * i + x = d * j + y
  PROVE  j <= i
<1> SUFFICES ASSUME j >= i + 1 PROVE FALSE
  OBVIOUS
<1> DEFINE s == d * i
           t == d * j
           k == j - (i + 1)
           u == d * k
<1>1. k \in Nat /\ j = i + 1 + k
  OBVIOUS
<1>2. t = s + d + u /\ s \in Nat /\ t \in Nat /\ u \in Nat
  <2>1. d * (i + 1 + k) = d * i + d + d * k
    <3> HIDE DEF k
    <3> QED
      BY <1>1
  <2>2. d * i \in Nat /\ d * j \in Nat /\ d * k \in Nat
    <3> HIDE DEF k
    <3> QED
      BY <1>1
  <2> QED
    BY <1>1, <2>1, <2>2
<1>3. s + x = t + y
  OBVIOUS
<1> HIDE DEF s, t, u, k
<1> QED
  BY <1>2, <1>3

(* Of a number of registers taken modulo 2^8, the bytes are the same modulo 2^8. *)
LEMMA RemainderOfTwice ==
  ASSUME NEW n \in Nat, NEW d \in Nat \ {0}
  PROVE  (2 * n) % d = (2 * (n % d)) % d
<1> DEFINE m == n % d
           q == n \div d
           x == (2 * n) % d
           i == (2 * n) \div d
           y == (2 * m) % d
           j == (2 * m) \div d
<1>1. m \in Nat /\ q \in Nat /\ n = d * q + m
  OBVIOUS
<1>2. 2 * n \in Nat /\ 2 * m \in Nat
  <2> HIDE DEF m
  <2> QED
    BY <1>1
<1>3. x \in Nat /\ x < d /\ i \in Nat /\ 2 * n = d * i + x
  <2> DEFINE a == 2 * n
  <2>1. a \in Nat
    BY <1>2
  <2> HIDE DEF a
  <2>2. a % d \in Nat /\ a % d < d /\ a \div d \in Nat /\ a = d * (a \div d) + (a % d)
    BY <2>1
  <2> QED
    BY <2>2 DEF a
<1>4. y \in Nat /\ y < d /\ j \in Nat /\ 2 * m = d * j + y
  <2> DEFINE a == 2 * m
  <2>1. a \in Nat
    BY <1>2
  <2> HIDE DEF a
  <2>2. a % d \in Nat /\ a % d < d /\ a \div d \in Nat /\ a = d * (a \div d) + (a % d)
    BY <2>1
  <2> QED
    BY <2>2 DEF a
<1> DEFINE p == j + 2 * q
<1>5. p \in Nat /\ d * i + x = d * p + y
  <2> HIDE DEF m, q, x, i, y, j
  <2>1. d * (j + 2 * q) = d * j + 2 * (d * q)
    BY <1>1, <1>4
  <2>2. 2 * n = 2 * (d * q) + 2 * m
    <3>1. d * q \in Nat
      BY <1>1
    <3> QED
      BY <1>1, <3>1
  <2>3. d * i \in Nat /\ d * j \in Nat /\ d * q \in Nat
    BY <1>1, <1>3, <1>4
  <2> QED
    BY <1>1, <1>3, <1>4, <2>1, <2>2, <2>3
<1> HIDE DEF m, q, x, i, y, j, p
<1>6. i = p
  <2>1. p <= i
    BY <1>3, <1>4, <1>5, OneQuotient
  <2>2. i <= p
    BY <1>3, <1>4, <1>5, OneQuotient
  <2> QED
    BY <1>3, <1>5, <2>1, <2>2
<1>7. x = y
  <2> DEFINE s == d * i
  <2>1. s \in Nat /\ s + x = s + y
    BY <1>3, <1>5, <1>6
  <2> HIDE DEF s
  <2> QED
    BY <1>3, <1>4, <2>1
<1> QED
  BY <1>7 DEF x, y, m

(* nbr_points counts modulo 2^8: the bytes of the points that are left are as *)
(* many as those of all of them only if none was dropped.                     *)
LEMMA CountedBytes ==
  ASSUME LinkAssumption, RequestAssumption, NEW n \in Nat \ {0}
  PROVE  Sl!BytesOf(n) = CoilBytes(n % PointRange) <=> n < PointRange
<1> DEFINE c == CoilsPerByte
           m == n % PointRange
           x == SP!BytesOf(n)
           y == SP!BytesOf(m)
<1>1. c \in Nat \ {0} /\ PointRange \in Nat \ {0} /\ c < PointRange
  BY RequestAssumption DEF LinkAssumption, Sl!SlaveAssumption
<1>2. /\ m \in Nat /\ m < PointRange
      /\ n < PointRange => m = n
      /\ n >= PointRange => n >= m + PointRange
  <2>1. PointRange \in Nat \ {0} /\ n \in Nat
    BY <1>1
  <2>2. n < PointRange => m = n
    BY <2>1, Remainder
  <2> QED
    BY <2>1, <2>2, Remainder
<1>3. /\ x \in Nat /\ y \in Nat
      /\ c * x \in Nat /\ c * x >= n
      /\ c * y \in Nat /\ c * y <= m + c - 1
  <2>1. /\ x \in Nat /\ c * x \in Nat /\ c * x >= n
        /\ y \in Nat /\ c * y \in Nat
    BY <1>1, <1>2, SlaveAssumed, SP!BytesEnough
  <2>2. m + c - 1 \in Nat
    BY <1>1, <1>2
  <2>3. c * y <= m + c - 1
    <3> DEFINE d == m + c - 1
    <3>1. y = d \div c
      BY DEF SP!BytesOf
    <3>2. d \in Nat /\ c \in Nat \ {0}
      BY <1>1, <2>2
    <3> HIDE DEF c, d, y
    <3>3. c * (d \div c) <= d
      BY <3>2, SlaveAssumed, SP!Division
    <3>4. c * y <= d
      BY <3>1, <3>3
    <3> QED
      BY <3>4 DEF d
  <2> QED
    BY <2>1, <2>3
<1>4. Sl!BytesOf(n) = x /\ Sl!BytesOf(m) = y
  BY DEF Sl!BytesOf, SP!BytesOf
<1>5. CASE n < PointRange
  BY <1>2, <1>4, <1>5 DEF CoilBytes
<1>6. CASE n >= PointRange
  <2>1. x # 1 /\ x # y
    <3> DEFINE u == c * x
               v == c * y
    <3>1. u > v /\ u > c
      <4>1. u \in Nat /\ v \in Nat /\ u >= n /\ v <= m + c - 1
        BY <1>3
      <4> HIDE DEF c, m, x, y, u, v
      <4> QED
        BY <1>1, <1>2, <1>6, <4>1
    <3>2. u # v /\ u # c /\ c * 1 = c
      <4>1. c \in Nat /\ u \in Nat /\ v \in Nat
        BY <1>1, <1>3
      <4> HIDE DEF c, u, v
      <4> QED
        BY <3>1, <4>1
    <3> QED
      BY <3>2
  <2>2. Sl!BytesOf(n) # CoilBytes(m)
    BY <1>4, <2>1 DEF CoilBytes
  <2>3. ~ (n < PointRange)
    BY <1>1, <1>6
  <2> QED
    BY <2>2, <2>3
<1> QED
  BY <1>1, <1>5, <1>6

LEMMA RequestTyped ==
  ASSUME RequestAssumption, NEW f \in Request
  PROVE  /\ f.fc \in {1, 2, 3, 4, 5, 6, 8, 15, 16}
         /\ f.qty \in Nat
<1>1. f.fc \in {1, 2, 3, 4, 5, 6, 8, 15, 16}
  BY RequestAssumption DEF Sl!RD_COIL, Sl!RD_DI, Sl!RD_HOLDING, Sl!RD_INPUT, Sl!WR_COIL,
     Sl!WR_REG, Sl!LOOPBACK, Sl!WR_COILS, Sl!WR_REGS
<1>2. f \in Sl!FrameType
  BY RequestAssumption DEF Sl!SlaveAssumption
<1> QED
  BY <1>1, <1>2 DEF Sl!FrameType

TooMany(f) == f.fc \in {Sl!RD_COIL, Sl!RD_DI} /\ f.qty >= PointRange

LEMMA ComparedFormed ==
  ASSUME LinkAssumption, RequestAssumption, NEW f \in Request, NEW r, SP!Formed(f, r.body)
  PROVE  Compared(f, r) = NONE <=> ~ TooMany(f)
<1> USE DEF Sl!RD_COIL, Sl!RD_DI, Sl!RD_HOLDING, Sl!RD_INPUT, Sl!WR_COIL,
     Sl!WR_REG, Sl!LOOPBACK, Sl!WR_COILS, Sl!WR_REGS, Sl!QUERY, Sl!CLR_CTR,
     SP!RD_COIL, SP!RD_DI, SP!RD_HOLDING, SP!RD_INPUT, SP!WR_COIL,
     SP!WR_REG, SP!LOOPBACK, SP!WR_COILS, SP!WR_REGS, SP!QUERY, SP!CLR_CTR
<1>1. CASE f.fc \in {1, 2}
  <2>1. Len(r.body) = f.qty /\ f.qty \in Nat \ {0}
    <3>1. f.qty \in Nat
      BY RequestTyped
    <3> QED
      BY <1>1, <3>1 DEF SP!Formed
  <2>2. Compared(f, r) = MBM_ReadCoil_Resp(f, r)
    BY <1>1 DEF Compared
  <2>3. MBM_ReadCoil_Resp(f, r) = NONE <=> Sl!BytesOf(f.qty) = CoilBytes(f.qty % PointRange)
    BY <2>1 DEF MBM_ReadCoil_Resp, BYTE_COUNT
  <2>4. Sl!BytesOf(f.qty) = CoilBytes(f.qty % PointRange) <=> f.qty < PointRange
    BY <2>1, CountedBytes
  <2>5. TooMany(f) <=> ~ (f.qty < PointRange)
    <3>1. f.qty \in Nat /\ PointRange \in Nat
      BY <2>1 DEF LinkAssumption
    <3> QED
      BY <1>1, <3>1 DEF TooMany
  <2> QED
    BY <2>2, <2>3, <2>4, <2>5
<1>2. CASE f.fc \in {3, 4}
  <2>1. Compared(f, r) = MBM_ReadReg_Resp(f, r)
    BY <1>2 DEF Compared
  <2>2. Len(r.body) = f.qty /\ f.qty \in Nat /\ PointRange \in Nat \ {0}
    <3>1. f.qty \in Nat
      BY RequestTyped
    <3>2. PointRange \in Nat \ {0}
      BY DEF LinkAssumption
    <3> QED
      BY <1>2, <3>1, <3>2 DEF SP!Formed
  <2>3. (2 * f.qty) % PointRange = (2 * (f.qty % PointRange)) % PointRange
    BY <2>2, RemainderOfTwice
  <2>4. MBM_ReadReg_Resp(f, r) = NONE
    BY <2>2, <2>3 DEF MBM_ReadReg_Resp
  <2>5. ~ TooMany(f)
    BY <1>2 DEF TooMany
  <2> QED
    BY <2>1, <2>4, <2>5
<1>3. CASE f.fc \in {5, 6, 15, 16}
  <2>1. Compared(f, r) \in {MBM_WriteSingleCoil_Resp(f, r), MBM_WriteSingleReg_Resp(f, r),
                            MBM_WriteMultipleCoils_Resp(f, r), MBM_WriteMultipleReg_Resp(f, r)}
    BY <1>3 DEF Compared
  <2> QED
    BY <1>3, <2>1 DEF SP!Formed, MBM_WriteSingleCoil_Resp, MBM_WriteSingleReg_Resp,
       MBM_WriteMultipleCoils_Resp, MBM_WriteMultipleReg_Resp, TooMany
<1>4. CASE f.fc = 8
  <2>1. Compared(f, r) = MBM_Diag_Resp(f, r)
    BY <1>4 DEF Compared
  <2> QED
    BY <1>4, <2>1 DEF SP!Formed, MBM_Diag_Resp, TooMany
<1> QED
  BY <1>1, <1>2, <1>3, <1>4, RequestTyped

LEMMA ParsedReply ==
  ASSUME LinkAssumption, RequestAssumption, NEW f \in Request, NEW r, SP!ReplyTo(f, r)
  PROVE  Parsed(f, r) = NONE <=> r.err = NONE /\ ~ TooMany(f)
<1>1. r.addr = f.addr /\ SP!NONE = NONE
  BY DEF SP!ReplyTo, SP!NONE
<1>2. CASE r.err = NONE
  <2>1. r.fc = f.fc /\ SP!Formed(f, r.body)
    BY <1>1, <1>2 DEF SP!ReplyTo
  <2>2. Parsed(f, r) = Compared(f, r)
    BY <1>1, <2>1 DEF Parsed
  <2> QED
    BY <1>2, <2>1, <2>2, ComparedFormed
<1>3. CASE r.err # NONE
  <2>1. r.fc = f.fc + 128 /\ r.fc # f.fc
    <3>1. r.fc = f.fc + 128
      BY <1>1, <1>3 DEF SP!ReplyTo
    <3>2. f.fc \in Nat
      <4>1. f.fc \in {1, 2, 3, 4, 5, 6, 8, 15, 16}
        BY RequestTyped
      <4> QED
        BY <4>1
    <3>3. \A n \in Nat : n + 128 # n
      OBVIOUS
    <3> QED
      BY <3>1, <3>2, <3>3, Zenon
  <2>2. Parsed(f, r) = FC
    BY <1>1, <2>1 DEF Parsed
  <2> QED
    BY <1>3, <2>2 DEF FC
<1> QED
  BY <1>2, <1>3

-----------------------------------------------------------------------------
(* What a call that returns has to say. *)

(* The error of a call that returns. *)
LEMMA ParsedCall ==
  ASSUME LinkAssumption, RequestAssumption, Inv, OwnFrames, OwnReplies, MBM_ParseResp,
         result'.err \in Nat \ {TIME_OUT}
  PROVE  /\ master.err = NONE /\ result'.took = RxData
         /\ RxData.call = call /\ RxData.ok =>
              (result'.err = NONE <=> RxData.r.err = NONE /\ ~ TooMany(master.req))
<1>1. master \in MasterType /\ call > 0
  BY Typed DEF MBM_ParseResp, Inv, Called
<1>2. /\ result'.took = RxData
      /\ result'.err = IF master.err # NONE THEN master.err ELSE Parsed(master.req, RxData.r)
  BY DEF MBM_ParseResp
<1>3. master.err = NONE
  <2>1. master.err \in {NoError, NONE, TIME_OUT}
    BY <1>1 DEF MasterType
  <2> QED
    BY <1>2, <2>1
<1>4. ASSUME RxData.call = call, RxData.ok
      PROVE  Parsed(master.req, RxData.r) = NONE <=> RxData.r.err = NONE /\ ~ TooMany(master.req)
  <2>1. SP!ReplyTo(master.req, RxData.r) /\ master.req \in Request
    BY <1>1, <1>4 DEF OwnReplies, Fitting, OwnFrames
  <2> QED
    BY <2>1, ParsedReply
<1> QED
  BY <1>2, <1>3, <1>4

LEMMA NoneIffNormalKept ==
  ASSUME LinkAssumption, RequestAssumption, Inv, DataType, OwnFrames, OwnReplies,
         NoneIffNormal, [Next]_vars
  PROVE  NoneIffNormal'
<1> SUFFICES ASSUME Returned(Nat \ {TIME_OUT})', SemTrue',
                    (result.took.call = call)', (result.took.ok)'
             PROVE  result'.err = NONE <=> result'.took.r.err = NONE /\ ~ TooMany(master'.req)
  BY DEF NoneIffNormal, TooMany
<1>1. Moves
  BY EveryStepMoves
<1>2. port' = port
  BY <1>1 DEF Moves, SlaveMoves, config
<1>3. CASE MBM_ParseResp
  <2>1. call' = call /\ master'.req = master.req
    BY <1>3, Typed DEF MBM_ParseResp, callVars, MasterType
  <2>2. result'.err \in Nat \ {TIME_OUT}
    BY DEF Returned
  <2> QED
    BY <1>3, <2>1, <2>2, ParsedCall
<1>4. CASE UNCHANGED <<master, call, result>>
  BY <1>2, <1>4 DEF NoneIffNormal, TooMany, Returned, SemTrue
<1> QED
  BY <1>1, <1>3, <1>4 DEF Moves, Ended, Returned

LEMMA ResultToldKept ==
  ASSUME LinkAssumption, RequestAssumption, Inv, DataType, OwnFrames, OwnReplies, StillTold,
         ResultTold, [Next]_vars
  PROVE  ResultTold'
<1> SUFFICES ASSUME Returned({NONE})', SemTrue', ~ late', (result.took.ok)'
             PROVE  SP!Holding(master.req, result.took.r.body)'
  BY DEF ResultTold
<1>1. Moves
  BY EveryStepMoves
<1>2. port' = port /\ ~ late /\ call' > 0 /\ master'.pc = "idle" /\ result'.err = NONE
  BY <1>1 DEF Moves, SlaveMoves, config, Returned
<1>3. CASE MBM_ParseResp
  <2>1. /\ call' = call /\ master'.req = master.req /\ master.pc = "parsing" /\ call > 0
        /\ UNCHANGED handler
    BY <1>3, Typed DEF MBM_ParseResp, callVars, slaveVars, MasterType, Inv, Called
  <2>2. master.err = NONE /\ result'.took = RxData
    BY <1>2, <1>3, ParsedCall
  <2>3. RxData.call = call
    BY <1>2, <2>1, <2>2 DEF Inv, OwnToken, Trusted, SemTrue
  <2>4. RxData.r.err = NONE
    BY <1>2, <1>3, <2>2, <2>3, ParsedCall
  <2>5. SP!Told(master.req, RxData.r)
    BY <1>2, <2>1, <2>2, <2>3 DEF StillTold, Telling
  <2>6. SP!Holding(master.req, RxData.r.body)
    BY <2>4, <2>5 DEF SP!Told, SP!NONE
  <2>7. PICK f, b : f = master.req /\ b = RxData.r.body
    OBVIOUS
  <2>8. SP!Holding(f, b)'
    BY <2>1, <2>6, <2>7 DEF handler, SP!Holding, SP!Slice
  <2>9. (master.req = f /\ result.took.r.body = b)'
    BY <2>1, <2>2, <2>7
  <2> QED
    BY <2>8, <2>9
<1>4. CASE UNCHANGED <<master, call, result>>
  <2>1. Pending = 0
    BY <1>2, <1>4, NothingUnderWay
  <2>2. ~ Fetched
    <3>1. Slave_Mbox \in Nat /\ One(posting) \in Nat /\ One(Fetched) \in Nat
      BY Typed DEF One
    <3>2. One(Fetched) = 0
      BY <2>1, <3>1 DEF Pending
    <3> QED
      BY <3>2 DEF One
  <2>3. UNCHANGED handler
    BY <1>1, <2>2 DEF Moves, SlaveMoves, Serve, Fetched
  <2>4. SP!Holding(master.req, result.took.r.body)
    BY <1>2, <1>4 DEF ResultTold, Returned, SemTrue
  <2> QED
    BY <1>4, <2>3, <2>4 DEF handler, SP!Holding, SP!Slice
<1> QED
  BY <1>1, <1>2, <1>3, <1>4 DEF Moves, Ended

-----------------------------------------------------------------------------
LEMMA InitData ==
  ASSUME LinkAssumption, RequestAssumption, Init
  PROVE  DataInv
<1>1. /\ port \in Port /\ mode \in Mode /\ application \in Application
      /\ call = 0 /\ T_Id = 0 /\ Slave_Mbox = 0 /\ posting = FALSE /\ serving = FALSE
      /\ answering = 0
      /\ overrun = FALSE /\ damaged = 0
      /\ toSlave = << >> /\ toMaster = << >> /\ RxData = Blank
      /\ slaveRx = [tid |-> 0, call |-> 0, f |-> NoFrame]
      /\ result = [err |-> NoError, took |-> Blank]
      /\ served = [c \in 1 .. MaxCalls |-> 0]
      /\ MboxSize \in Nat /\ MaxDamaged \in Nat
  BY DEF Init, LinkAssumption
<1>2. Inv
  BY InitInv
<1>3. Elems(toSlave) = {} /\ Elems(toMaster) = {} /\ Len(toSlave) = 0
  BY <1>1 DEF Elems
<1>4. Blank \in ToMaster /\ Blank.tid = 0 /\ Blank.call = 0
  BY DEF Blank, ToMaster, Sl!Reply
<1>5. Sl!TypeOK
  <2>1. SP!Init
    BY DEF Init, Sl!Init, SP!Init, Sl!NoCounts, SP!NoCounts, Sl!Counter, SP!Counter
  <2>2. SP!TypeOK
    BY <2>1, SlaveAssumed, SP!InitInv DEF SP!Inv
  <2> QED
    BY <2>2, SameType
<1>6. DataType
  BY <1>1, <1>3, <1>4, <1>5 DEF DataType
<1>7. Numbers
  <2>1. Pending = 0
    BY <1>1 DEF Pending, Fetched, One
  <2>2. \A c \in 1 .. MaxCalls : served[c] + Pending + Len(toSlave) <= call
    BY <1>1, <1>3, <2>1
  <2> QED
    BY <1>1, <1>3, <1>4, <2>2 DEF Numbers
<1>8. OwnFrames /\ OwnReplies /\ StillTold
  BY <1>1, <1>3 DEF OwnFrames, OwnReplies, Fitting, StillTold, Telling
<1>9. ResultTold /\ NoneIffNormal
  BY <1>1 DEF ResultTold, NoneIffNormal, Returned
<1> QED
  BY <1>2, <1>6, <1>7, <1>8, <1>9 DEF DataInv

LEMMA NextData ==
  ASSUME LinkAssumption, RequestAssumption, DataInv, [Next]_vars
  PROVE  DataInv'
<1>1. Inv'
  BY NextInv DEF DataInv
<1>2. DataType'
  BY DataTypeKept DEF DataInv
<1>3. Numbers'
  BY NumbersKept DEF DataInv
<1>4. OwnFrames'
  BY OwnFramesKept DEF DataInv
<1>5. OwnReplies'
  BY OwnRepliesKept DEF DataInv
<1>6. StillTold'
  BY StillToldKept DEF DataInv
<1>7. ResultTold'
  BY ResultToldKept DEF DataInv
<1>8. NoneIffNormal'
  BY NoneIffNormalKept DEF DataInv
<1> QED
  BY <1>1, <1>2, <1>3, <1>4, <1>5, <1>6, <1>7, <1>8 DEF DataInv

LEMMA DataInvariance == FairSpec => []DataInv
<1>1. Init => DataInv
  BY InitData, LinkAssumption, RequestAssumption
<1>2. DataInv /\ [Next]_vars => DataInv'
  BY NextData, LinkAssumption, RequestAssumption
<1> QED
  BY <1>1, <1>2, PTL DEF FairSpec

LEMMA DataInvTypes ==
  ASSUME LinkAssumption, DataInv
  PROVE  TypeOK
<1>1. /\ MaxCalls \in Nat /\ call \in 0 .. MaxCalls /\ call \in Nat /\ T_Id \in Nat
      /\ Master_Sem \in Nat /\ posting \in BOOLEAN /\ serving \in BOOLEAN
      /\ late \in BOOLEAN /\ fresh \in BOOLEAN /\ overrun \in BOOLEAN
      /\ served \in [1 .. MaxCalls -> Nat] /\ master \in MasterType
  BY Typed DEF DataInv
<1>2. \A n \in Nat : n <= call => n \in 0 .. MaxCalls
  BY <1>1
<1>3. T_Id \in 0 .. MaxCalls
  BY <1>1, <1>2 DEF DataInv, Numbers
<1>4. RxData \in ToMaster /\ Packet(RxData)
  BY <1>2, RepliesNumbered DEF DataInv, DataType, ToMaster, Numbers, Packet
<1>5. ASSUME NEW i \in DOMAIN toSlave
      PROVE  Packet(toSlave[i]) /\ toSlave[i].f \in Request
  <2>1. toSlave \in Seq(ToSlave)
    BY DEF DataInv, Inv, LinkType
  <2>2. toSlave[i] \in ToSlave /\ toSlave[i] \in Elems(toSlave)
    BY <2>1, SeqElems DEF Elems
  <2>3. toSlave[i].tid <= call /\ toSlave[i].call <= call
    <3>1. toSlave[i].call \in slaveRx.call + 1 .. call
      BY <2>2 DEF DataInv, Inv, Order
    <3>2. toSlave[i].tid <= call
      BY <2>2 DEF DataInv, Numbers
    <3> QED
      BY <3>1, <3>2
  <2> QED
    BY <1>2, <2>2, <2>3 DEF ToSlave, Packet
<1>6. ASSUME NEW i \in DOMAIN toMaster
      PROVE  Packet(toMaster[i]) /\ toMaster[i].r \in Sl!Reply
  <2>1. PICK S : toMaster \in Seq(S)
    BY DEF DataInv, Inv, LinkType
  <2>2. toMaster[i] \in Elems(toMaster)
    BY <2>1, SeqElems DEF Elems
  <2>3. toMaster[i].tid <= call /\ toMaster[i].call \in Nat /\ toMaster[i].call <= call
    BY <2>2, RepliesNumbered DEF DataInv, Numbers
  <2>4. toMaster[i] \in ToMaster
    BY <2>2 DEF DataInv, DataType
  <2> QED
    BY <1>2, <2>3, <2>4 DEF ToMaster, Packet
<1>7. Packet(slaveRx) /\ slaveRx.f \in Request \cup {NoFrame}
  <2>1. slaveRx.tid \in Nat /\ slaveRx.f \in Request \cup {NoFrame} /\ slaveRx.call \in 0 .. call
    BY DEF DataInv, Inv, LinkType, Order, ToSlave
  <2>2. slaveRx.tid <= call
    BY DEF DataInv, Numbers
  <2> QED
    BY <1>1, <1>2, <2>1, <2>2 DEF Packet
<1>8. Packet(result.took)
  <2>1. result.took.tid \in 0 .. call /\ result.took.call \in 0 .. call
    BY DEF DataInv, Numbers
  <2> QED
    BY <1>1, <2>1 DEF Packet
<1>9. served \in [1 .. MaxCalls -> 0 .. MaxCalls]
  <2>1. ASSUME NEW c \in 1 .. MaxCalls
        PROVE  served[c] \in 0 .. MaxCalls
    <3> DEFINE s == served[c]
               m == Pending
               a == Len(toSlave)
    <3>1. (s + m) + a <= call
      BY DEF DataInv, Numbers
    <3>2. s \in Nat /\ m \in Nat /\ a \in Nat
      BY <1>1, Counts DEF DataInv, Inv
    <3> HIDE DEF s, m, a
    <3>3. s <= call
      BY <1>1, <3>1, <3>2
    <3> QED
      BY <1>2, <3>2, <3>3 DEF s
  <2> QED
    BY <1>1, <2>1
<1>10. DataType
  BY DEF DataInv
<1>11. answering \in 0 .. MaxCalls
  BY <1>2, RepliesNumbered DEF DataInv
<1> QED
  BY <1>1, <1>3, <1>4, <1>5, <1>6, <1>7, <1>8, <1>9, <1>10, <1>11
     DEF TypeOK, DataType, ToMaster, MasterType

LEMMA DataInvTells ==
  ASSUME DataInv
  PROVE  DoneAsTold
<1> SUFFICES ASSUME Returned({NONE}), SemTrue, ~ late, result.took.ok
             PROVE  SP!Holding(master.req, result.took.r.body) => DoneAsTold
  BY DEF DataInv, ResultTold, DoneAsTold
<1> DEFINE f == master.req
<1>1. SP!Slice(reg, f) = Sl!Slice(reg, f) /\ SP!Slice(coil, f) = Sl!Slice(coil, f)
  BY DEF SP!Slice, Sl!Slice
<1>2. SP!Bit(f.qty) = Sl!Bit(f.qty) /\ SP!BytesOf(f.qty) = Sl!BytesOf(f.qty)
  BY DEF SP!Bit, Sl!Bit, SP!BytesOf, Sl!BytesOf
<1> QED
  BY <1>1, <1>2 DEF DoneAsTold, SP!Holding, Sl!RD_HOLDING, SP!RD_HOLDING, Sl!RD_COIL, SP!RD_COIL,
     Sl!WR_REG, SP!WR_REG, Sl!WR_COIL, SP!WR_COIL, Sl!WR_COILS, SP!WR_COILS

(* Every variable of the two stations and of the line keeps its type: T_Id and  *)
(* the identifiers stay within the calls made, the mailbox within its size, and *)
(* no request is run more often than there were calls.                          *)
THEOREM TypeCorrect == FairSpec => []TypeOK
<1>1. DataInv => TypeOK
  BY DataInvTypes, LinkAssumption
<1> QED
  BY <1>1, DataInvariance, PTL

(* What a call that returns without an error says of the registers and coils of *)
(* the slave is so, and stays so until the next call, as long as no call has    *)
(* given up: the MBM_.. functions need not look at the data that a write repeats. *)
THEOREM CallsDoneAsTold == FairSpec => []DoneAsTold
<1>1. DataInv => DoneAsTold
  BY DataInvTells
<1> QED
  BY <1>1, DataInvariance, PTL

(* The .._Resp functions of mb_master.c tell an exception from a normal reply   *)
(* whatever the request, but for a read of more points than nbr_points counts.  *)
THEOREM ErrorsTellExceptions == FairSpec => []NoneIffNormal
<1>1. DataInv => NoneIffNormal
  BY DEF DataInv
<1> QED
  BY <1>1, DataInvariance, PTL
=============================================================================

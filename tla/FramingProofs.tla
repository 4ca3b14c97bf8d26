--------------------------- MODULE FramingProofs ---------------------------
(***************************************************************************)
(* Proofs about module Framing, for frames, buffers and replies of every   *)
(* size and any number of faults.  A byte that is received, wherever it    *)
(* comes from, goes through MB_UART_RxByte: what that may change is stated *)
(* once, in RxByteType and RxByteSteps.                                    *)
(***************************************************************************)
EXTENDS Framing, SequenceTheorems, TLAPS

Due == Frame \cup {NoFrame}

(* What reception works on. *)
ReceiverOK ==
  /\ RxBuf \in Seq(Byte) /\ Len(RxBuf) <= BufSize[mode]
  /\ RxData \in Seq(Byte)
  /\ timer \in BOOLEAN
  /\ rdr \in Byte \cup {NoByte}
  /\ signals \in Nat
  /\ overlapped \in BOOLEAN
  /\ due \in Due

(* One frame at a time is signalled, served or answered. *)
OneAtATime ==
  ~ overlapped =>
    /\ signals <= 1
    /\ signals = 1 => task = "idle" /\ receiving
    /\ task = "act" => receiving /\ RxData = checked

(* There is a byte left to send of the frame on the line. *)
OnLine == cur # NoFrame => pos < Len(Wire(cur))

(* A frame that was received clean and has not been acted on is in RxBuf and *)
(* timed, or in RxData and signalled or found sound.                         *)
Held ==
  \/ signals = 1 /\ task = "idle" /\ receiving /\ RxData = Body(due)
  \/ signals = 0 /\ task = "act" /\ RxData = Body(due)

Awaited ==
  due # NoFrame =>
    \/ /\ mode = RTU /\ RxBuf = Body(due) /\ Len(RxBuf) >= MinSize[RTU] /\ timer
       /\ cur = NoFrame /\ ~ Busy
    \/ Held

(* While a clean frame is being sent, RxBuf holds what has come of it. *)
InFlight ==
  clean /\ cur # NoFrame =>
    /\ ~ Busy /\ due = NoFrame
    /\ pos = 0 => ~ timer
    /\ Fits(cur) /\ pos > 0 => RxBuf = SubSeq(Wire(cur), 1, pos)

Inv ==
  /\ TypeOK
  /\ OnLine
  /\ GatheredIsTimed
  /\ OneAtATime
  /\ Awaited
  /\ InFlight

-----------------------------------------------------------------------------
LEMMA Sizes ==
  ASSUME mode \in {RTU, ASCII}
  PROVE  BufSize[mode] \in Nat /\ MinSize[mode] \in Nat
BY FramingAssumption

LEMMA Bounds ==
  ReplySize \in Nat \ {0} /\ MaxFrames \in Nat /\ MaxFaults \in Nat
BY FramingAssumption

LEMMA StoredType ==
  ASSUME mode \in {RTU, ASCII}, NEW buf \in Seq(Byte), Len(buf) <= BufSize[mode],
         NEW b \in Byte
  PROVE  Stored(buf, b) \in Seq(Byte) /\ Len(Stored(buf, b)) <= BufSize[mode]
<1>1. Len(buf) \in Nat /\ BufSize[mode] \in Nat
  BY Sizes
<1>2. CASE Len(buf) < BufSize[mode]
  <2>1. Append(buf, b) \in Seq(Byte) /\ Len(Append(buf, b)) = Len(buf) + 1
    BY AppendProperties
  <2> QED
    BY <1>1, <1>2, <2>1 DEF Stored
<1>3. CASE ~ Len(buf) < BufSize[mode]
  BY <1>3 DEF Stored
<1> QED
  BY <1>2, <1>3

LEMMA RestartedType ==
  ASSUME mode \in {RTU, ASCII}, NEW buf \in Seq(Byte), Len(buf) <= BufSize[mode], NEW b
  PROVE  Restarted(buf, b) \in Seq(Byte) /\ Len(Restarted(buf, b)) <= BufSize[mode]
<1>1. << >> \in Seq(Byte) /\ Len(<< >>) = 0
  OBVIOUS
<1>2. 0 <= BufSize[mode]
  BY Sizes
<1> QED
  BY <1>1, <1>2 DEF Restarted

LEMMA MiddleType ==
  ASSUME NEW buf \in Seq(Byte)
  PROVE  SubSeq(buf, 2, Len(buf) - 2) \in Seq(Byte)
<1>1. Len(buf) \in Nat
  OBVIOUS
<1>2. \A i \in 2 .. Len(buf) - 2 : buf[i] \in Byte
  BY <1>1
<1> QED
  BY <1>1, <1>2, SubSeqProperties

LEMMA ForwardType ==
  ASSUME ReceiverOK, NEW data \in Seq(Byte), NEW done \in Due,
         Forward(data, done) \/ Drop(done)
  PROVE  /\ RxData' \in Seq(Byte)
         /\ signals' \in Nat
         /\ overlapped' \in BOOLEAN
         /\ due' \in Due
<1>1. CASE Forward(data, done)
  <2>1. RxData' \in Seq(Byte) /\ signals' \in Nat
    BY <1>1 DEF Forward, ReceiverOK
  <2>2. overlapped' \in BOOLEAN
    BY <1>1 DEF Forward, Busy
  <2>3. due' \in Due
    BY <1>1, Zenon DEF Forward, Due
  <2> QED
    BY <2>1, <2>2, <2>3
<1>2. CASE Drop(done)
  BY <1>2 DEF Drop, ReceiverOK
<1> QED
  BY <1>1, <1>2

(* What a byte may do. *)
LEMMA RxByteType ==
  ASSUME mode \in {RTU, ASCII}, ReceiverOK, NEW b \in Byte, NEW done \in Due,
         MB_UART_RxByte(b, done)
  PROVE  /\ RxBuf' \in Seq(Byte) /\ Len(RxBuf') <= BufSize[mode]
         /\ RxData' \in Seq(Byte)
         /\ timer' \in BOOLEAN
         /\ signals' \in Nat
         /\ overlapped' \in BOOLEAN
         /\ due' \in Due
<1>1. CASE mode = RTU /\ MB_RTU_RxByte(b, done)
  BY <1>1, StoredType DEF ReceiverOK, MB_RTU_RxByte, Drop
<1>2. CASE mode = ASCII /\ MB_ASCII_RxByte(b, done)
  <2> DEFINE buf == Stored(Restarted(RxBuf, b), b)
  <2>1. buf \in Seq(Byte) /\ Len(buf) <= BufSize[mode]
    BY RestartedType, StoredType DEF ReceiverOK
  <2> HIDE DEF buf
  <2>2. SubSeq(buf, 2, Len(buf) - 2) \in Seq(Byte)
    BY <2>1, MiddleType
  <2>3. /\ RxBuf' = IF b = LF THEN << >> ELSE buf
        /\ \/ Forward(SubSeq(buf, 2, Len(buf) - 2), done)
           \/ Drop(done)
        /\ UNCHANGED timer
    BY <1>2 DEF MB_ASCII_RxByte, buf
  <2>4. RxBuf' \in Seq(Byte) /\ Len(RxBuf') <= BufSize[mode]
    <3>1. << >> \in Seq(Byte) /\ Len(<< >>) = 0 /\ 0 <= BufSize[mode]
      BY Sizes
    <3> QED
      BY <2>1, <2>3, <3>1
  <2> QED
    BY <2>2, <2>3, <2>4, ForwardType DEF ReceiverOK
<1> QED
  BY <1>1, <1>2 DEF MB_UART_RxByte

(* It signals a frame, or leaves RxData alone. *)
Signalled ==
  \/ UNCHANGED <<RxData, signals, overlapped>>
  \/ signals' = signals + 1 /\ overlapped' = (overlapped \/ Busy)

LEMMA RxByteSteps ==
  ASSUME NEW b, NEW done, MB_UART_RxByte(b, done)
  PROVE  Signalled /\ (mode = RTU => timer')
BY DEF MB_UART_RxByte, MB_RTU_RxByte, MB_ASCII_RxByte, Forward, Drop, Signalled, RTU, ASCII

LEMMA ArriveType ==
  ASSUME mode \in {RTU, ASCII}, ReceiverOK, NEW b \in Byte, NEW done \in Due, Arrive(b, done)
  PROVE  /\ RxBuf' \in Seq(Byte) /\ Len(RxBuf') <= BufSize[mode]
         /\ RxData' \in Seq(Byte)
         /\ timer' \in BOOLEAN
         /\ rdr' \in Byte \cup {NoByte}
         /\ signals' \in Nat
         /\ overlapped' \in BOOLEAN
         /\ due' \in Due
<1>1. CASE receiving
  BY <1>1, RxByteType DEF Arrive, ReceiverOK
<1>2. CASE ~ receiving
  BY <1>2 DEF Arrive, Drop, ReceiverOK
<1> QED
  BY <1>1, <1>2

LEMMA ArriveSteps ==
  ASSUME NEW b, NEW done, Arrive(b, done)
  PROVE  Signalled /\ ((mode = RTU /\ timer') \/ mode # RTU \/ UNCHANGED <<RxBuf, timer>>)
BY RxByteSteps DEF Arrive, Drop, Signalled

LEMMA TimeoutType ==
  ASSUME mode \in {RTU, ASCII}, ReceiverOK, MB_UART_RxTimeout
  PROVE  /\ RxBuf' = << >> /\ Len(RxBuf') <= BufSize[mode]
         /\ RxData' \in Seq(Byte)
         /\ timer' \in BOOLEAN
         /\ signals' \in Nat
         /\ overlapped' \in BOOLEAN
         /\ due' \in Due
         /\ Signalled
<1>1. Len(<< >>) = 0 /\ 0 <= BufSize[mode]
  BY Sizes
<1>2. Forward(RxBuf, due) \/ Drop(due)
  BY DEF MB_UART_RxTimeout
<1>3. Signalled
  BY <1>2 DEF Forward, Drop, Signalled
<1>4. RxBuf \in Seq(Byte) /\ due \in Due
  BY DEF ReceiverOK
<1>5. /\ RxData' \in Seq(Byte)
      /\ signals' \in Nat
      /\ overlapped' \in BOOLEAN
      /\ due' \in Due
  BY <1>2, <1>4, ForwardType
<1> QED
  BY <1>1, <1>3, <1>5 DEF MB_UART_RxTimeout

-----------------------------------------------------------------------------
(* The bytes of a frame. *)

LEMMA BodyType ==
  ASSUME mode \in {RTU, ASCII}, NEW f \in Frame
  PROVE  Body(f) \in Seq(Byte) /\ Len(Body(f)) \in Nat \ {0}
<1> DEFINE n == IF mode = RTU THEN Size[f] + 2 ELSE 2 * (Size[f] + 1)
<1>1. n \in Nat \ {0}
  BY FramingAssumption
<1> HIDE DEF n
<1>2. \A i \in 1 .. n : <<f, i>> \in Byte
  BY <1>1 DEF Byte
<1>3. Body(f) = [i \in 1 .. n |-> <<f, i>>]
  BY DEF Body, n
<1>4. Body(f) \in [1 .. n -> Byte]
  BY <1>2, <1>3
<1> QED
  BY <1>1, <1>4

LEMMA WireType ==
  ASSUME mode \in {RTU, ASCII}, NEW f \in Frame
  PROVE  Wire(f) \in Seq(Byte) /\ Len(Wire(f)) \in Nat \ {0}
<1>1. Body(f) \in Seq(Byte) /\ Len(Body(f)) \in Nat \ {0}
  BY BodyType
<1>2. <<Colon>> \in Seq(Byte) /\ <<CR, LF>> \in Seq(Byte)
  BY DEF Byte
<1>3. CASE mode = RTU
  BY <1>1, <1>3 DEF Wire
<1>4. CASE mode # RTU
  <2> DEFINE s == <<Colon>> \o Body(f)
  <2>1. s \in Seq(Byte) /\ Len(s) = Len(<<Colon>>) + Len(Body(f))
    BY <1>1, <1>2, ConcatProperties
  <2> HIDE DEF s
  <2>2. s \o <<CR, LF>> \in Seq(Byte) /\ Len(s \o <<CR, LF>>) = Len(s) + 2
    BY <1>2, <2>1, ConcatProperties
  <2>3. Wire(f) = s \o <<CR, LF>>
    BY <1>4 DEF Wire, s
  <2> QED
    BY <1>1, <2>1, <2>2, <2>3
<1> QED
  BY <1>3, <1>4

LEMMA NextByteType ==
  ASSUME TypeOK, OnLine, cur # NoFrame
  PROVE  Wire(cur)[pos + 1] \in Byte
<1>1. Wire(cur) \in Seq(Byte) /\ Len(Wire(cur)) \in Nat
  BY WireType DEF TypeOK
<1>2. pos + 1 \in 1 .. Len(Wire(cur))
  BY <1>1 DEF TypeOK, OnLine
<1> QED
  BY <1>1, <1>2

LEMMA NoiseType ==
  Noise \subseteq Byte
BY DEF Noise, Byte

LEMMA WireKept ==
  ASSUME mode' = mode, cur' = cur
  PROVE  Wire(cur)' = Wire(cur)
BY DEF Wire, Body

LEMMA AdvanceType ==
  ASSUME TypeOK, OnLine, mode' = mode, Advance
  PROVE  cur' \in Frame \cup {NoFrame} /\ pos' \in Nat /\ OnLine'
<1>1. Wire(cur) \in Seq(Byte) /\ Len(Wire(cur)) \in Nat
  BY WireType DEF TypeOK, Advance
<1>2. cur' \in Frame \cup {NoFrame} /\ pos' \in Nat
  BY DEF TypeOK, Advance
<1>3. CASE Last
  BY <1>3 DEF Advance, OnLine
<1>4. CASE ~ Last
  <2>1. cur' = cur /\ pos' = pos + 1
    BY <1>4 DEF Advance
  <2>2. pos + 1 < Len(Wire(cur))
    BY <1>1, <1>4 DEF Last, OnLine, TypeOK, Advance
  <2>3. Wire(cur)' = Wire(cur)
    BY <2>1, WireKept
  <2> QED
    BY <1>2, <2>1, <2>2, <2>3 DEF OnLine
<1> QED
  BY <1>2, <1>3, <1>4

-----------------------------------------------------------------------------
(* Types. *)

LEMMA ReceiverTyped ==
  ASSUME TypeOK
  PROVE  ReceiverOK /\ mode \in {RTU, ASCII}
BY DEF TypeOK, ReceiverOK, Due

LEMMA FaultType ==
  ASSUME TypeOK, Fault
  PROVE  faults' \in 0 .. MaxFaults
BY FramingAssumption DEF TypeOK, Fault

LEMMA LineType ==
  ASSUME TypeOK, OnLine, SendByte \/ LoseByte \/ DamageByte \/ Disturb
  PROVE  TypeOK' /\ OnLine'
<1>0. ReceiverOK /\ mode \in {RTU, ASCII} /\ due \in Due
  BY ReceiverTyped DEF ReceiverOK
<1>1. Spoilt \in Due
  BY <1>0 DEF Spoilt, Due
<1>2. CASE SendByte
  <2>1. cur # NoFrame /\ cur \in Due
    BY <1>2 DEF SendByte, Advance, TypeOK, Due
  <2>2. Wire(cur)[pos + 1] \in Byte
    BY <2>1, NextByteType
  <2>3. (IF Last /\ clean /\ Fits(cur) THEN cur ELSE due) \in Due
    BY <1>0, <2>1, Zenon
  <2>4. PICK b \in Byte, done \in Due : Arrive(b, done)
    BY <1>2, <2>2, <2>3 DEF SendByte
  <2>5. OnLine' /\ cur' \in Frame \cup {NoFrame} /\ pos' \in Nat
    BY <1>2, AdvanceType DEF SendByte, Unchanged
  <2> QED
    BY <1>0, <1>2, <2>4, <2>5, ArriveType DEF SendByte, Unchanged, Advance, TypeOK, Due
<1>3. CASE LoseByte
  <2>1. OnLine' /\ cur' \in Frame \cup {NoFrame} /\ pos' \in Nat
    BY <1>3, AdvanceType DEF LoseByte, channel
  <2> QED
    BY <1>3, <2>1, FaultType DEF LoseByte, channel, Advance, TypeOK
<1>4. CASE DamageByte
  <2>1. PICK b \in Byte : Arrive(b, Spoilt)
    BY <1>4, NoiseType DEF DamageByte
  <2>2. OnLine' /\ cur' \in Frame \cup {NoFrame} /\ pos' \in Nat
    BY <1>4, AdvanceType DEF DamageByte, Unchanged
  <2> QED
    BY <1>0, <1>1, <1>4, <2>1, <2>2, ArriveType, FaultType
       DEF DamageByte, Unchanged, Advance, TypeOK, Due
<1>5. CASE Disturb
  <2>1. PICK b \in Byte : Arrive(b, Spoilt)
    BY <1>5, NoiseType DEF Disturb
  <2>2. OnLine'
    BY <1>5, WireKept DEF Disturb, Unchanged, OnLine
  <2> QED
    BY <1>0, <1>1, <1>5, <2>1, <2>2, ArriveType, FaultType
       DEF Disturb, Unchanged, TypeOK, Due
<1> QED
  BY <1>2, <1>3, <1>4, <1>5

LEMMA StartType ==
  ASSUME TypeOK, NEW f \in Frame, Start(f)
  PROVE  TypeOK' /\ OnLine'
<1>1. faults' \in 0 .. MaxFaults
  BY FaultType DEF Start, TypeOK
<1>2. sent' \in 0 .. MaxFrames
  BY FramingAssumption DEF Start, TypeOK
<1>3. due' \in Frame \cup {NoFrame}
  BY DEF Start, Spoilt, TypeOK
<1>4. clean' \in BOOLEAN /\ overlapped' \in BOOLEAN
  BY DEF Start, Quiet
<1>5. Wire(f)' = Wire(f) /\ Len(Wire(f)) \in Nat \ {0}
  BY WireType DEF Start, channel, Wire, Body, TypeOK
<1>6. cur' = f /\ pos' = 0
  BY DEF Start
<1>7. OnLine'
  BY <1>5, <1>6 DEF OnLine
<1> QED
  BY <1>1, <1>2, <1>3, <1>4, <1>6, <1>7 DEF Start, channel, TypeOK

LEMMA SilenceType ==
  ASSUME TypeOK, OnLine, Silence
  PROVE  TypeOK' /\ OnLine'
<1>1. OnLine'
  BY WireKept DEF Silence, Unchanged, OnLine
<1>2. faults' \in 0 .. MaxFaults /\ clean' \in BOOLEAN
  BY FaultType DEF Silence, TypeOK
<1>3. << >> \in Seq(Byte)
  OBVIOUS
<1> QED
  BY <1>1, <1>2, <1>3, ReceiverTyped, TimeoutType
     DEF Silence, Unchanged, TypeOK, Due

LEMMA SlaveType ==
  ASSUME TypeOK, OnLine, Check \/ Act
  PROVE  TypeOK' /\ OnLine'
<1>1. OnLine'
  BY WireKept DEF Check, Act, sender, OnLine
<1>2. CASE Check
  BY <1>1, <1>2 DEF Check, sender, TypeOK
<1>3. CASE Act
  <2>1. due' \in Frame \cup {NoFrame}
    BY <1>3 DEF Act, TypeOK
  <2>2. receiving' \in BOOLEAN /\ TxBufNum' \in 0 .. ReplySize - 1
    <3>1. receiving \in BOOLEAN /\ TxBufNum \in 0 .. ReplySize - 1
      BY DEF TypeOK
    <3>2. ReplySize - 1 \in 0 .. ReplySize - 1
      BY Bounds
    <3> QED
      BY <1>3, <3>1, <3>2 DEF Act, MB_UART_TxStart
  <2> QED
    BY <1>1, <1>3, <2>1, <2>2 DEF Act, sender, TypeOK
<1> QED
  BY <1>2, <1>3

LEMMA InterruptType ==
  ASSUME TypeOK, OnLine, USART1_IRQHandler
  PROVE  TypeOK' /\ OnLine'
<1>0. ReceiverOK /\ mode \in {RTU, ASCII} /\ due \in Due
  BY ReceiverTyped DEF ReceiverOK
<1>1. OnLine'
  BY WireKept DEF USART1_IRQHandler, sender, OnLine
<1>2. receiving' \in BOOLEAN /\ TxBufNum' \in 0 .. ReplySize - 1
  <2>1. receiving \in BOOLEAN /\ TxBufNum \in 0 .. ReplySize - 1
    BY DEF TypeOK
  <2>2. CASE TxBufNum > 0
    BY <2>1, <2>2, Bounds DEF USART1_IRQHandler, MB_UART_TxByte
  <2>3. CASE ~ TxBufNum > 0
    BY <2>1, <2>3 DEF USART1_IRQHandler, MB_UART_TxByte
  <2> QED
    BY <2>2, <2>3
<1>3. /\ RxBuf' \in Seq(Byte) /\ Len(RxBuf') <= BufSize[mode]
      /\ RxData' \in Seq(Byte)
      /\ timer' \in BOOLEAN
      /\ signals' \in Nat
      /\ overlapped' \in BOOLEAN
      /\ due' \in Due
  <2>1. CASE rdr = NoByte
    BY <1>0, <2>1 DEF USART1_IRQHandler, Drop, ReceiverOK
  <2>2. CASE rdr # NoByte
    BY <1>0, <2>2, RxByteType DEF USART1_IRQHandler, ReceiverOK
  <2> QED
    BY <2>1, <2>2
<1> QED
  BY <1>1, <1>2, <1>3 DEF USART1_IRQHandler, sender, TypeOK, Due

LEMMA TypeStep ==
  ASSUME TypeOK, OnLine, [Next]_vars
  PROVE  TypeOK' /\ OnLine'
<1>1. CASE Next
  BY <1>1, LineType, StartType, SilenceType, SlaveType, InterruptType DEF Next
<1>2. CASE UNCHANGED vars
  BY <1>2, WireKept DEF vars, channel, sender, TypeOK, OnLine
<1> QED
  BY <1>1, <1>2

-----------------------------------------------------------------------------
(* Silence, and one frame at a time. *)

LEMMA TimedStep ==
  ASSUME TypeOK, GatheredIsTimed, [Next]_vars
  PROVE  GatheredIsTimed'
<1>1. CASE SendByte \/ DamageByte \/ Disturb
  BY <1>1, ArriveSteps DEF SendByte, DamageByte, Disturb, Unchanged, GatheredIsTimed
<1>2. CASE Silence
  BY <1>2 DEF Silence, MB_UART_RxTimeout, GatheredIsTimed
<1>3. CASE USART1_IRQHandler
  BY <1>3, RxByteSteps DEF USART1_IRQHandler, GatheredIsTimed
<1>4. CASE LoseByte \/ (\E f \in Frame : Start(f)) \/ Check \/ Act \/ UNCHANGED vars
  BY <1>4 DEF LoseByte, Start, Check, Act, vars, channel, GatheredIsTimed
<1> QED
  BY <1>1, <1>2, <1>3, <1>4 DEF Next

(* A frame is signalled to a slave that is free, or there is an overlap. *)
LEMMA SignalStep ==
  ASSUME TypeOK, OneAtATime, Signalled, UNCHANGED <<task, checked, receiving>>
  PROVE  OneAtATime'
<1>1. CASE UNCHANGED <<RxData, signals, overlapped>>
  BY <1>1 DEF OneAtATime
<1>2. CASE signals' = signals + 1 /\ overlapped' = (overlapped \/ Busy)
  <2>1. SUFFICES ASSUME ~ overlapped' PROVE OneAtATime'
    BY DEF OneAtATime
  <2>2. ~ Busy
    BY <1>2, <2>1
  <2>3. signals = 0 /\ task = "idle" /\ receiving
    BY <2>2 DEF Busy, TypeOK
  <2> QED
    BY <1>2, <2>3 DEF OneAtATime
<1> QED
  BY <1>1, <1>2 DEF Signalled

LEMMA OneStep ==
  ASSUME TypeOK, OneAtATime, [Next]_vars
  PROVE  OneAtATime'
<1>1. CASE SendByte \/ DamageByte \/ Disturb
  BY <1>1, ArriveSteps, SignalStep DEF SendByte, DamageByte, Disturb, Unchanged
<1>2. CASE Silence
  BY <1>2, TimeoutType, ReceiverTyped, SignalStep DEF Silence, Unchanged
<1>3. CASE USART1_IRQHandler
  <2>1. UNCHANGED <<RxData, signals, overlapped>> \/ overlapped'
    BY <1>3, RxByteSteps DEF USART1_IRQHandler, Signalled, Drop, Busy
  <2>2. receiving => receiving'
    BY <1>3 DEF USART1_IRQHandler
  <2> QED
    BY <1>3, <2>1, <2>2 DEF USART1_IRQHandler, OneAtATime
<1>4. CASE \E f \in Frame : Start(f)
  <2>1. PICK f \in Frame : Start(f)
    BY <1>4
  <2>2. CASE Quiet
    BY <2>1, <2>2 DEF Start, channel, OneAtATime, Quiet, Busy, TypeOK
  <2>3. CASE ~ Quiet
    BY <2>1, <2>3 DEF Start, channel, OneAtATime, TypeOK
  <2> QED
    BY <2>2, <2>3
<1>5. CASE Check
  BY <1>5 DEF Check, OneAtATime, TypeOK
<1>6. CASE Act
  BY <1>6 DEF Act, OneAtATime, TypeOK
<1>7. CASE LoseByte \/ UNCHANGED vars
  BY <1>7 DEF LoseByte, vars, channel, OneAtATime
<1> QED
  BY <1>1, <1>2, <1>3, <1>4, <1>5, <1>6, <1>7 DEF Next

-----------------------------------------------------------------------------
(* What arrives of a clean frame. *)

LEMMA Grown ==
  ASSUME NEW S, NEW s \in Seq(S), NEW k \in 0 .. Len(s) - 1
  PROVE  Append(SubSeq(s, 1, k), s[k + 1]) = SubSeq(s, 1, k + 1)
<1>1. Len(s) \in Nat /\ k \in Nat /\ k + 1 \in 1 .. Len(s) /\ s[k + 1] \in S
  OBVIOUS
<1>2. /\ SubSeq(s, 1, k + 1) \in Seq(S) /\ Len(SubSeq(s, 1, k + 1)) = k + 1
      /\ \A i \in 1 .. k + 1 : SubSeq(s, 1, k + 1)[i] = s[i]
  BY <1>1
<1>3. /\ SubSeq(s, 1, k) \in Seq(S) /\ Len(SubSeq(s, 1, k)) = k
      /\ \A i \in 1 .. k : SubSeq(s, 1, k)[i] = s[i]
  BY <1>1
<1> DEFINE p == SubSeq(s, 1, k)
           q == SubSeq(s, 1, k + 1)
           e == s[k + 1]
<1>4. p \in Seq(S) /\ Len(p) = k /\ e \in S
  BY <1>1, <1>3
<1> HIDE DEF p, q, e
<1>5. /\ Append(p, e) \in Seq(S) /\ Len(Append(p, e)) = k + 1
      /\ \A i \in 1 .. k : Append(p, e)[i] = p[i]
      /\ Append(p, e)[k + 1] = e
  BY <1>4, AppendProperties
<1>6. q \in Seq(S) /\ Len(q) = k + 1 /\ \A i \in 1 .. k + 1 : q[i] = s[i]
  BY <1>2 DEF q
<1>7. \A i \in 1 .. k : p[i] = s[i]
  BY <1>3 DEF p
<1>8. \A i \in 1 .. k + 1 : Append(p, e)[i] = q[i]
  <2> TAKE i \in 1 .. k + 1
  <2>1. CASE i = k + 1
    BY <1>1, <1>5, <1>6, <2>1 DEF e
  <2>2. CASE i # k + 1
    BY <1>1, <1>5, <1>6, <1>7, <2>2
  <2> QED
    BY <2>1, <2>2
<1>9. Append(p, e) = q
  BY <1>5, <1>6, <1>8, SeqEqual
<1> QED
  BY <1>9 DEF p, q, e

LEMMA BodyShape ==
  ASSUME mode \in {RTU, ASCII}, NEW f \in Frame
  PROVE  /\ Size[f] \in Nat
         /\ Len(Body(f)) = IF mode = RTU THEN Size[f] + 2 ELSE 2 * (Size[f] + 1)
         /\ \A i \in 1 .. Len(Body(f)) : Body(f)[i] = <<f, i>>
<1> DEFINE n == IF mode = RTU THEN Size[f] + 2 ELSE 2 * (Size[f] + 1)
<1>1. Size[f] \in Nat /\ n \in Nat
  BY FramingAssumption
<1>2. Body(f) = [i \in 1 .. n |-> <<f, i>>]
  BY DEF Body
<1> HIDE DEF n
<1>3. Len(Body(f)) = n /\ \A i \in 1 .. n : Body(f)[i] = <<f, i>>
  <2>1. DOMAIN Body(f) = 1 .. n /\ \A i \in 1 .. n : Body(f)[i] = <<f, i>>
    BY <1>2
  <2>2. Body(f) \in Seq(Byte) /\ Len(Body(f)) \in Nat
    BY BodyType
  <2>3. 1 .. Len(Body(f)) = 1 .. n
    BY <2>1, <2>2, LenProperties
  <2> QED
    BY <1>1, <2>1, <2>2, <2>3
<1> QED
  BY <1>1, <1>3 DEF n

(* The characters of an ASCII frame. *)
LEMMA WireShape ==
  ASSUME mode = ASCII, NEW f \in Frame, NEW n, n = Len(Body(f))
  PROVE  /\ n \in Nat \ {0} /\ n % 2 = 0
         /\ Len(Wire(f)) = n + 3
         /\ Wire(f)[1] = Colon
         /\ \A i \in 1 .. n : Wire(f)[i + 1] = <<f, i>>
         /\ Wire(f)[n + 2] = CR /\ Wire(f)[n + 3] = LF
         /\ SubSeq(Wire(f), 2, n + 1) = Body(f)
<1> DEFINE s == <<Colon>> \o Body(f)
           e == <<CR, LF>>
<1>1. Body(f) \in Seq(Byte) /\ n \in Nat \ {0} /\ \A i \in 1 .. n : Body(f)[i] = <<f, i>>
  BY BodyType, BodyShape
<1>2. n % 2 = 0
  <2>1. Size[f] \in Nat /\ n = 2 * (Size[f] + 1)
    BY BodyShape DEF RTU, ASCII
  <2> QED
    BY <2>1
<1>3. <<Colon>> \in Seq(Byte) /\ e \in Seq(Byte) /\ Len(<<Colon>>) = 1 /\ Len(e) = 2
      /\ e[1] = CR /\ e[2] = LF
  BY DEF Byte
<1>4. /\ s \in Seq(Byte) /\ Len(s) = n + 1
      /\ \A i \in 1 .. n + 1 : s[i] = IF i <= 1 THEN <<Colon>>[i] ELSE Body(f)[i - 1]
  <2>1. Len(<<Colon>>) + Len(Body(f)) = n + 1
    BY <1>1, <1>3
  <2> QED
    BY <1>1, <1>3, <2>1, ConcatProperties
<1>5. Wire(f) = s \o e
  BY DEF Wire, RTU, ASCII
<1> HIDE DEF s, e
<1>6. /\ Wire(f) \in Seq(Byte) /\ Len(Wire(f)) = n + 3
      /\ \A i \in 1 .. n + 3 : Wire(f)[i] = IF i <= n + 1 THEN s[i] ELSE e[i - (n + 1)]
  <2>1. Len(s) + Len(e) = n + 3
    BY <1>1, <1>3, <1>4
  <2>2. /\ s \o e \in Seq(Byte) /\ Len(s \o e) = Len(s) + Len(e)
        /\ \A i \in 1 .. Len(s) + Len(e) :
             (s \o e)[i] = IF i <= Len(s) THEN s[i] ELSE e[i - Len(s)]
    BY <1>3, <1>4, ConcatProperties
  <2> QED
    BY <1>4, <1>5, <2>1, <2>2
<1>7. Wire(f)[1] = Colon
  BY <1>1, <1>4, <1>6
<1>8. \A i \in 1 .. n : Wire(f)[i + 1] = <<f, i>>
  BY <1>1, <1>4, <1>6
<1>9. Wire(f)[n + 2] = CR /\ Wire(f)[n + 3] = LF
  BY <1>1, <1>3, <1>6
<1>10. SubSeq(Wire(f), 2, n + 1) = Body(f)
  <2> DEFINE m == SubSeq(Wire(f), 2, n + 1)
  <2>1. m \in Seq(Byte) /\ Len(m) = n /\ \A i \in 1 .. n : m[i] = Wire(f)[i + 1]
    BY <1>1, <1>6
  <2> HIDE DEF m
  <2>2. \A i \in 1 .. n : m[i] = Body(f)[i]
    BY <1>1, <1>8, <2>1
  <2>3. m = Body(f)
    BY <1>1, <2>1, <2>2, SeqEqual
  <2> QED
    BY <2>3 DEF m
<1> QED
  BY <1>1, <1>2, <1>6, <1>7, <1>8, <1>9, <1>10

(* Within an ASCII frame there is no colon, and no line feed before the last. *)
LEMMA WithinFrame ==
  ASSUME mode = ASCII, NEW f \in Frame, NEW k \in Nat, k < Len(Wire(f))
  PROVE  /\ k = 0 <=> Wire(f)[k + 1] = Colon
         /\ k + 1 = Len(Wire(f)) <=> Wire(f)[k + 1] = LF
<1> DEFINE n == Len(Body(f))
<1>1. /\ n \in Nat \ {0} /\ Len(Wire(f)) = n + 3
      /\ Wire(f)[1] = Colon
      /\ \A i \in 1 .. n : Wire(f)[i + 1] = <<f, i>>
      /\ Wire(f)[n + 2] = CR /\ Wire(f)[n + 3] = LF
  BY WireShape
<1> HIDE DEF n
<1>2. Colon # CR /\ Colon # LF /\ CR # LF
  BY DEF Colon, CR, LF
<1>3. CASE k = 0
  BY <1>1, <1>2, <1>3
<1>4. CASE k \in 1 .. n
  <2>1. Wire(f)[k + 1] = <<f, k>> /\ k # 0
    BY <1>1, <1>4
  <2>2. <<f, k>> # Colon /\ <<f, k>> # LF
    BY <2>1 DEF Colon, LF
  <2> QED
    BY <1>1, <1>4, <2>1, <2>2
<1>5. CASE k = n + 1
  BY <1>1, <1>2, <1>5
<1>6. CASE k = n + 2
  BY <1>1, <1>2, <1>6
<1> QED
  BY <1>1, <1>3, <1>4, <1>5, <1>6

LEMMA Gathered ==
  ASSUME TypeOK, OnLine, GatheredIsTimed, InFlight, clean, cur # NoFrame, Fits(cur),
         NEW b, b = Wire(cur)[pos + 1]
  PROVE  Stored(IF mode = RTU THEN RxBuf ELSE Restarted(RxBuf, b), b)
           = SubSeq(Wire(cur), 1, pos + 1)
<1> DEFINE old == IF mode = RTU THEN RxBuf ELSE Restarted(RxBuf, b)
<1>1. /\ mode \in {RTU, ASCII} /\ cur \in Frame /\ pos \in Nat
      /\ Wire(cur) \in Seq(Byte) /\ Len(Wire(cur)) \in Nat /\ pos < Len(Wire(cur))
      /\ Len(Wire(cur)) <= BufSize[mode] /\ BufSize[mode] \in Nat
  <2>1. mode \in {RTU, ASCII} /\ cur \in Frame /\ pos \in Nat
    BY DEF TypeOK
  <2>2. Wire(cur) \in Seq(Byte) /\ Len(Wire(cur)) \in Nat /\ pos < Len(Wire(cur))
    BY <2>1, WireType DEF OnLine
  <2>3. BufSize[mode] \in Nat /\ MinSize[mode] \in Nat
    BY <2>1, Sizes
  <2> QED
    BY <2>1, <2>2, <2>3 DEF Fits
<1>2. old = SubSeq(Wire(cur), 1, pos)
  <2>1. CASE pos = 0
    <3>1. old = << >>
      <4>1. CASE mode = RTU
        BY <2>1, <4>1 DEF InFlight, GatheredIsTimed
      <4>2. CASE mode # RTU
        <5>1. b = Colon
          BY <1>1, <2>1, <4>2, WithinFrame
        <5> QED
          BY <4>2, <5>1 DEF Restarted
      <4> QED
        BY <4>1, <4>2
    <3>2. SubSeq(Wire(cur), 1, pos) = << >>
      BY <1>1, <2>1, SubSeqEmpty
    <3> QED
      BY <3>1, <3>2
  <2>2. CASE pos # 0
    <3>1. RxBuf = SubSeq(Wire(cur), 1, pos)
      BY <1>1, <2>2 DEF InFlight
    <3>2. CASE mode = RTU
      BY <3>1, <3>2
    <3>3. CASE mode # RTU
      <4>1. b # Colon
        BY <1>1, <2>2, <3>3, WithinFrame
      <4> QED
        BY <3>1, <3>3, <4>1 DEF Restarted
    <3> QED
      BY <3>2, <3>3
  <2> QED
    BY <2>1, <2>2
<1>3. Len(SubSeq(Wire(cur), 1, pos)) = pos
  BY <1>1
<1>4. Append(SubSeq(Wire(cur), 1, pos), b) = SubSeq(Wire(cur), 1, pos + 1)
  BY <1>1, Grown
<1> HIDE DEF old
<1>5. Stored(old, b) = Append(old, b)
  BY <1>1, <1>2, <1>3 DEF Stored
<1> QED
  BY <1>2, <1>4, <1>5 DEF old

-----------------------------------------------------------------------------
(* What is due. *)

DueStep(done) ==
  \/ due' = NoFrame
  \/ due' = done /\ (UNCHANGED <<RxData, signals>> \/ ~ Busy)

LEMMA ForwardDue ==
  ASSUME NEW data, NEW done, Forward(data, done) \/ Drop(done)
  PROVE  DueStep(done)
BY DEF Forward, Drop, DueStep

LEMMA RxByteDue ==
  ASSUME NEW b, NEW done, MB_UART_RxByte(b, done)
  PROVE  DueStep(done)
<1>1. \E data : Forward(data, done) \/ Drop(done)
  BY DEF MB_UART_RxByte, MB_RTU_RxByte, MB_ASCII_RxByte
<1> QED
  BY <1>1, ForwardDue

LEMMA ArriveDue ==
  ASSUME NEW b, NEW done, Arrive(b, done)
  PROVE  DueStep(done)
BY RxByteDue DEF Arrive, Drop, DueStep

LEMMA TimeoutDue ==
  ASSUME MB_UART_RxTimeout
  PROVE  DueStep(due)
BY ForwardDue DEF MB_UART_RxTimeout

LEMMA BodyKept ==
  ASSUME mode' = mode, due' = due
  PROVE  Body(due)' = Body(due)
BY DEF Body

LEMMA NotEmpty ==
  ASSUME TypeOK, due # NoFrame
  PROVE  Body(due) # << >>
BY BodyType DEF TypeOK

LEMMA HeldStep ==
  ASSUME TypeOK, Awaited, NEW done \in {due, NoFrame}, DueStep(done),
         mode' = mode, task' = task, receiving => receiving',
         Busy \/ done = NoFrame
  PROVE  Awaited'
<1>1. CASE due' = NoFrame
  BY <1>1 DEF Awaited
<1>2. CASE due' # NoFrame
  <2>1. due' = due /\ Busy /\ due # NoFrame
    BY <1>2 DEF DueStep
  <2>2. Held /\ RxData' = RxData /\ signals' = signals
    BY <1>2, <2>1 DEF DueStep, Awaited
  <2>3. Body(due)' = Body(due)
    BY <2>1, BodyKept
  <2>4. Held'
    BY <2>2, <2>3 DEF Held
  <2> QED
    BY <2>4 DEF Awaited
<1> QED
  BY <1>1, <1>2

LEMMA BusyIfHeld ==
  ASSUME Held
  PROVE  Busy
BY DEF Held, Busy

(* The last byte of a clean frame: it waits for silence, or it is signalled. *)
LEMMA Completed ==
  ASSUME TypeOK, OnLine, GatheredIsTimed, InFlight, SendByte, Last, clean, Fits(cur)
  PROVE  Awaited'
<1> DEFINE b == Wire(cur)[pos + 1]
           buf == Stored(IF mode = RTU THEN RxBuf ELSE Restarted(RxBuf, b), b)
<1>1. /\ mode \in {RTU, ASCII} /\ cur \in Frame /\ cur # NoFrame /\ pos \in Nat
      /\ pos + 1 = Len(Wire(cur)) /\ Wire(cur) \in Seq(Byte)
  <2>1. mode \in {RTU, ASCII} /\ cur \in Frame /\ cur # NoFrame /\ pos \in Nat
    BY DEF TypeOK, SendByte, Advance
  <2> QED
    BY <2>1, WireType DEF Last
<1>2. /\ ~ Busy /\ receiving /\ signals = 0 /\ task = "idle"
  BY <1>1 DEF InFlight, Busy, TypeOK
<1>3. /\ MB_UART_RxByte(b, cur)
      /\ cur' = NoFrame /\ mode' = mode /\ task' = task /\ receiving' = receiving
  BY <1>2 DEF SendByte, Advance, Unchanged, Arrive
<1>4. buf = Wire(cur)
  <2>1. buf = SubSeq(Wire(cur), 1, pos + 1)
    BY <1>1, Gathered
  <2> QED
    BY <1>1, <2>1, SubSeqFull
<1>5. CASE mode = RTU
  <2>1. Wire(cur) = Body(cur) /\ Len(Wire(cur)) >= MinSize[RTU]
    <3>1. Len(Wire(cur)) \in MinSize[mode] .. BufSize[mode]
      BY DEF Fits
    <3>2. MinSize[mode] \in Nat /\ BufSize[mode] \in Nat /\ Len(Wire(cur)) \in Nat
      BY <1>1, Sizes
    <3>3. Wire(cur) = Body(cur)
      BY <1>5 DEF Wire
    <3> QED
      BY <1>5, <3>1, <3>2, <3>3
  <2>2. /\ RxBuf' = Wire(cur) /\ timer' = TRUE /\ due' = cur
        /\ signals' = signals
    BY <1>3, <1>4, <1>5 DEF MB_UART_RxByte, MB_RTU_RxByte, Drop, RTU, ASCII
  <2>3. Body(due)' = Body(cur)
    BY <1>3, <2>2 DEF Body
  <2>4. ~ Busy'
    BY <1>2, <1>3, <2>2 DEF Busy
  <2> QED
    BY <1>3, <1>5, <2>1, <2>2, <2>3, <2>4 DEF Awaited
<1>6. CASE mode = ASCII
  <2> DEFINE n == Len(Body(cur))
  <2>1. /\ n \in Nat \ {0} /\ n % 2 = 0 /\ Len(Wire(cur)) = n + 3
        /\ Wire(cur)[1] = Colon /\ Wire(cur)[n + 2] = CR /\ Wire(cur)[n + 3] = LF
        /\ SubSeq(Wire(cur), 2, n + 1) = Body(cur)
    BY <1>1, <1>6, WireShape
  <2> HIDE DEF n
  <2>2. b = LF
    BY <1>1, <2>1
  <2>3. MB_ASCII_RxVerify(Wire(cur))
    <3>1. Len(Wire(cur)) % 2 = 1
      BY <2>1
    <3>2. Len(Wire(cur)) >= MinSize[ASCII]
      <4>1. Len(Wire(cur)) \in MinSize[mode] .. BufSize[mode]
        BY DEF Fits
      <4>2. MinSize[mode] \in Nat /\ BufSize[mode] \in Nat
        BY <1>1, Sizes
      <4> QED
        BY <1>6, <4>1, <4>2
    <3>3. Len(Wire(cur)) - 1 = n + 2
      BY <2>1
    <3> QED
      BY <2>1, <3>1, <3>2, <3>3 DEF MB_ASCII_RxVerify
  <2>4. Len(Wire(cur)) - 2 = n + 1
    BY <2>1
  <2>5. buf = Stored(Restarted(RxBuf, b), b)
    BY <1>6 DEF RTU, ASCII
  <2>6. Forward(Body(cur), cur)
    <3>1. MB_ASCII_RxByte(b, cur)
      BY <1>3, <1>6 DEF MB_UART_RxByte, RTU, ASCII
    <3> HIDE DEF b, buf
    <3>2. Forward(SubSeq(buf, 2, Len(buf) - 2), cur)
      BY <1>4, <2>2, <2>3, <2>5, <3>1 DEF MB_ASCII_RxByte
    <3> QED
      BY <1>4, <2>1, <2>4, <3>2
  <2>7. RxData' = Body(cur) /\ signals' = 1 /\ due' = cur
    BY <1>2, <2>6 DEF Forward
  <2>8. Body(due)' = Body(cur)
    BY <1>3, <2>7 DEF Body
  <2>9. Held'
    BY <1>2, <1>3, <2>7, <2>8 DEF Held
  <2> QED
    BY <2>9 DEF Awaited
<1> QED
  BY <1>1, <1>5, <1>6

LEMMA AwaitedStep ==
  ASSUME TypeOK, OnLine, GatheredIsTimed, InFlight, Awaited, [Next]_vars
  PROVE  Awaited'
<1>1. CASE SendByte
  <2>1. CASE Last /\ clean /\ Fits(cur)
    BY <1>1, <2>1, Completed
  <2>2. CASE ~ (Last /\ clean /\ Fits(cur))
    <3>1. DueStep(due) /\ cur # NoFrame
      BY <1>1, <2>2, ArriveDue DEF SendByte, Advance
    <3>2. Busy \/ due = NoFrame
      BY <3>1, BusyIfHeld DEF Awaited
    <3> QED
      BY <1>1, <3>1, <3>2, HeldStep DEF SendByte, Unchanged
  <2> QED
    BY <2>1, <2>2
<1>2. CASE DamageByte \/ Disturb
  <2>1. DueStep(Spoilt)
    BY <1>2, ArriveDue DEF DamageByte, Disturb
  <2>2. Spoilt \in {due, NoFrame}
    BY DEF Spoilt
  <2>3. Busy \/ Spoilt = NoFrame
    BY NotEmpty, BusyIfHeld DEF Spoilt, Awaited
  <2> QED
    BY <1>2, <2>1, <2>2, <2>3, HeldStep DEF DamageByte, Disturb, Unchanged
<1>3. CASE Silence
  <2>1. DueStep(due) /\ mode' = mode /\ task' = task /\ receiving' = receiving
    BY <1>3, TimeoutDue DEF Silence, Unchanged
  <2>2. CASE Busy \/ due = NoFrame
    BY <2>1, <2>2, HeldStep
  <2>3. CASE ~ Busy /\ due # NoFrame
    <3>1. mode = RTU /\ RxBuf = Body(due) /\ Len(RxBuf) >= MinSize[RTU]
      BY <2>3, BusyIfHeld DEF Awaited
    <3>2. Forward(RxBuf, due)
      BY <1>3, <3>1 DEF Silence, MB_UART_RxTimeout
    <3>3. signals = 0 /\ task = "idle" /\ receiving
      BY <2>3 DEF Busy, TypeOK
    <3>4. RxData' = Body(due) /\ signals' = 1 /\ due' = due
      BY <2>3, <3>1, <3>2, <3>3 DEF Forward
    <3>5. Body(due)' = Body(due)
      BY <2>1, <3>4, BodyKept
    <3>6. Held'
      BY <2>1, <3>3, <3>4, <3>5 DEF Held
    <3> QED
      BY <3>6 DEF Awaited
  <2> QED
    BY <2>2, <2>3
<1>4. CASE \E f \in Frame : Start(f)
  <2>1. PICK f \in Frame : Start(f)
    BY <1>4
  <2>2. /\ mode' = mode /\ task' = task /\ receiving' = receiving
        /\ RxData' = RxData /\ signals' = signals
        /\ due' = IF Quiet THEN due ELSE Spoilt
    BY <2>1 DEF Start, channel
  <2>3. CASE Quiet
    <3>1. due = NoFrame
      BY <2>3, BusyIfHeld DEF Quiet, Awaited
    <3> QED
      BY <2>2, <2>3, <3>1 DEF Awaited
  <2>4. CASE ~ Quiet
    <3>1. DueStep(Spoilt) /\ Spoilt \in {due, NoFrame}
      BY <2>2, <2>4 DEF DueStep, Spoilt
    <3>2. Busy \/ Spoilt = NoFrame
      BY NotEmpty, BusyIfHeld DEF Spoilt, Awaited
    <3> QED
      BY <2>2, <3>1, <3>2, HeldStep
  <2> QED
    BY <2>3, <2>4
<1>5. CASE Check
  <2>1. /\ signals > 0 /\ task = "idle" /\ signals' = signals - 1
        /\ due' = due /\ RxData' = RxData /\ mode' = mode
        /\ task' = IF Sound(RxData) THEN "act" ELSE "idle"
    BY <1>5 DEF Check
  <2>2. CASE due = NoFrame
    BY <2>1, <2>2 DEF Awaited
  <2>3. CASE due # NoFrame
    <3>1. signals = 1 /\ RxData = Body(due)
      BY <2>1, <2>3 DEF Awaited, Held, Busy
    <3>2. task' = "act" /\ signals' = 0
      BY <2>1, <2>3, <3>1 DEF Sound, TypeOK
    <3>3. Body(due)' = Body(due)
      BY <2>1, BodyKept
    <3> QED
      BY <2>1, <3>1, <3>2, <3>3 DEF Awaited, Held
  <2> QED
    BY <2>2, <2>3
<1>6. CASE Act
  <2>1. due' = NoFrame
    BY <1>6 DEF Act, Awaited, Held, Busy
  <2> QED
    BY <2>1 DEF Awaited
<1>7. CASE USART1_IRQHandler
  <2>1. DueStep(due)
    BY <1>7, RxByteDue DEF USART1_IRQHandler, Drop, DueStep
  <2>2. Busy
    BY <1>7 DEF USART1_IRQHandler, Busy
  <2>3. receiving => receiving'
    BY <1>7 DEF USART1_IRQHandler
  <2> QED
    BY <1>7, <2>1, <2>2, <2>3, HeldStep DEF USART1_IRQHandler
<1>8. CASE LoseByte
  <2>1. DueStep(due) /\ cur # NoFrame
    BY <1>8 DEF LoseByte, channel, DueStep, Advance
  <2>2. Busy \/ due = NoFrame
    BY <2>1, BusyIfHeld DEF Awaited
  <2> QED
    BY <1>8, <2>1, <2>2, HeldStep DEF LoseByte, channel
<1>9. CASE UNCHANGED vars
  <2>1. Body(due)' = Body(due)
    BY <1>9, BodyKept DEF vars, channel
  <2> QED
    BY <1>9, <2>1 DEF vars, channel, sender, Awaited, Held, Busy
<1> QED
  BY <1>1, <1>2, <1>3, <1>4, <1>5, <1>6, <1>7, <1>8, <1>9 DEF Next

(* A byte of a clean frame that is not the last is gathered and nothing else. *)
LEMMA GatherStep ==
  ASSUME TypeOK, OnLine, GatheredIsTimed, InFlight, SendByte, ~ Last, clean
  PROVE  InFlight'
<1> DEFINE b == Wire(cur)[pos + 1]
           buf == Stored(IF mode = RTU THEN RxBuf ELSE Restarted(RxBuf, b), b)
<1>1. /\ mode \in {RTU, ASCII} /\ cur \in Frame /\ cur # NoFrame /\ pos \in Nat
      /\ pos < Len(Wire(cur)) /\ Len(Wire(cur)) \in Nat
  <2>1. mode \in {RTU, ASCII} /\ cur \in Frame /\ cur # NoFrame /\ pos \in Nat
    BY DEF TypeOK, SendByte, Advance
  <2> QED
    BY <2>1, WireType DEF OnLine
<1>2. ~ Busy /\ receiving /\ due = NoFrame
  BY <1>1 DEF InFlight, Busy
<1>3. /\ MB_UART_RxByte(b, NoFrame)
      /\ cur' = cur /\ pos' = pos + 1
      /\ mode' = mode /\ task' = task /\ receiving' = receiving
  BY <1>2 DEF SendByte, Advance, Unchanged, Arrive
<1>4. RxBuf' = buf /\ signals' = signals /\ due' = NoFrame
  <2>1. CASE mode = RTU
    BY <1>3, <2>1 DEF MB_UART_RxByte, MB_RTU_RxByte, Drop, RTU, ASCII
  <2>2. CASE mode = ASCII
    <3>1. b # LF
      BY <1>1, <2>2, WithinFrame DEF Last
    <3>2. MB_ASCII_RxByte(b, NoFrame)
      BY <1>3, <2>2 DEF MB_UART_RxByte, RTU, ASCII
    <3>3. buf = Stored(Restarted(RxBuf, b), b)
      BY <2>2 DEF RTU, ASCII
    <3> HIDE DEF b, buf
    <3> QED
      BY <3>1, <3>2, <3>3 DEF MB_ASCII_RxByte, Drop
  <2> QED
    BY <1>1, <2>1, <2>2
<1>5. Wire(cur)' = Wire(cur)
  BY <1>3, WireKept
<1>6. Fits(cur)' => RxBuf' = SubSeq(Wire(cur), 1, pos')
  <2>1. Fits(cur)' <=> Fits(cur)
    BY <1>3, <1>5 DEF Fits
  <2>2. Fits(cur) => buf = SubSeq(Wire(cur), 1, pos + 1)
    BY <1>1, Gathered
  <2> HIDE DEF buf
  <2> QED
    BY <1>3, <1>4, <2>1, <2>2
<1>7. ~ Busy'
  BY <1>2, <1>3, <1>4 DEF Busy
<1> QED
  BY <1>1, <1>3, <1>4, <1>5, <1>6, <1>7 DEF InFlight

LEMMA InFlightStep ==
  ASSUME TypeOK, OnLine, GatheredIsTimed, InFlight, Awaited, [Next]_vars
  PROVE  InFlight'
<1>1. CASE SendByte
  <2>1. CASE Last
    BY <1>1, <2>1 DEF SendByte, Advance, InFlight
  <2>2. CASE ~ Last /\ clean
    BY <1>1, <2>2, GatherStep
  <2>3. CASE ~ clean
    BY <1>1, <2>3 DEF SendByte, InFlight
  <2> QED
    BY <2>1, <2>2, <2>3
<1>2. CASE LoseByte \/ DamageByte \/ Disturb
  BY <1>2 DEF LoseByte, DamageByte, Disturb, InFlight
<1>3. CASE Silence
  <2>1. timer /\ (cur = NoFrame \/ pos = 0 \/ clean' = FALSE) /\ cur' = cur
    BY <1>3 DEF Silence, MB_UART_RxTimeout
  <2>2. cur # NoFrame /\ pos = 0 => ~ clean
    BY <2>1 DEF InFlight
  <2>3. clean' => clean
    BY <1>3 DEF Silence
  <2> QED
    BY <2>1, <2>2, <2>3 DEF InFlight
<1>4. CASE \E f \in Frame : Start(f)
  <2>1. PICK f \in Frame : Start(f)
    BY <1>4
  <2>2. CASE Quiet
    <3>1. due = NoFrame
      BY <2>2, BusyIfHeld DEF Quiet, Awaited
    <3> QED
      BY <2>1, <2>2, <3>1 DEF Start, channel, InFlight, Quiet, Busy
  <2>3. CASE ~ Quiet
    BY <2>1, <2>3 DEF Start, InFlight
  <2> QED
    BY <2>2, <2>3
<1>5. CASE Check
  <2>1. Busy /\ clean' = clean /\ cur' = cur
    BY <1>5 DEF Check, sender, Busy
  <2> QED
    BY <2>1 DEF InFlight
<1>6. CASE Act
  <2>1. Busy /\ clean' = clean /\ cur' = cur
    BY <1>6 DEF Act, sender, Busy
  <2> QED
    BY <2>1 DEF InFlight
<1>7. CASE USART1_IRQHandler
  <2>1. Busy /\ clean' = clean /\ cur' = cur
    BY <1>7 DEF USART1_IRQHandler, sender, Busy
  <2> QED
    BY <2>1 DEF InFlight
<1>8. CASE UNCHANGED vars
  <2>1. Wire(cur)' = Wire(cur) /\ (Fits(cur)' <=> Fits(cur))
    BY <1>8, WireKept DEF vars, channel, sender, Fits
  <2> QED
    BY <1>8, <2>1 DEF vars, channel, sender, InFlight, Busy
<1> QED
  BY <1>1, <1>2, <1>3, <1>4, <1>5, <1>6, <1>7, <1>8 DEF Next

-----------------------------------------------------------------------------
LEMMA InitInv ==
  Init => Inv
<1> SUFFICES ASSUME Init PROVE Inv
  OBVIOUS
<1>1. << >> \in Seq(Byte) /\ Len(<< >>) = 0 /\ 0 <= BufSize[mode]
  BY Sizes DEF Init
<1>2. TypeOK
  <2>1. /\ TxBufNum \in 0 .. ReplySize - 1 /\ sent \in 0 .. MaxFrames
        /\ faults \in 0 .. MaxFaults
    BY Bounds DEF Init
  <2> QED
    BY <1>1, <2>1 DEF Init, TypeOK
<1> QED
  BY <1>2 DEF Init, Inv, OnLine, GatheredIsTimed, OneAtATime, Awaited, InFlight

LEMMA Invariance == Spec => []Inv
<1>1. Inv /\ [Next]_vars => Inv'
  BY TypeStep, TimedStep, OneStep, AwaitedStep, InFlightStep DEF Inv
<1> QED
  BY <1>1, InitInv, PTL DEF Spec

(* Whatever comes, RxBuf is not written beyond its end, and no counter or  *)
(* flag of the channel leaves its range.                                   *)
THEOREM TypeCorrect == Spec => []TypeOK
<1>1. Inv => TypeOK
  BY DEF Inv
<1> QED
  BY <1>1, Invariance, PTL

(* Silence always finds the timer running over the bytes before it. *)
THEOREM SilenceIsTimed == Spec => []GatheredIsTimed
<1>1. Inv => GatheredIsTimed
  BY DEF Inv
<1> QED
  BY <1>1, Invariance, PTL

(* RxData is overwritten under the slave only by an overlap. *)
THEOREM ActsOnChecked == Spec => []ActsOnWhatItChecked
<1>1. Inv => ActsOnWhatItChecked
  BY DEF Inv, OneAtATime, ActsOnWhatItChecked
<1> QED
  BY <1>1, Invariance, PTL

(* A frame that fits and is sent whole to a quiet channel is acted on before *)
(* the channel is quiet again, whatever the line carried before: neither the *)
(* interrupt, nor the timer, nor the slave leaves it behind.                 *)
THEOREM CleanServed == Spec => []CleanFrameServed
<1>1. Inv => CleanFrameServed
  BY BusyIfHeld DEF Inv, Awaited, CleanFrameServed, Quiet
<1> QED
  BY <1>1, Invariance, PTL
=============================================================================

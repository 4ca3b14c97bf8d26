------------------------------ MODULE Framing ------------------------------
(***************************************************************************)
(* A channel of a slave on a serial line (mb_core.c and the interrupts of  *)
(* the STM32G0 port): the interrupt of the UART gathers bytes in RxBuf;    *)
(* the silence after an RTU frame, or the line feed that ends an ASCII     *)
(* one, copies them to RxData and signals the slave; the slave checks the  *)
(* sum of RxData, acts on RxData and starts a reply, which the interrupt   *)
(* sends byte by byte with reception disabled.                             *)
(*                                                                         *)
(* A byte is a pair: the frame it belongs to and its place.  In ASCII mode *)
(* a byte is a character, two of which make one of RxData.                 *)
(***************************************************************************)
EXTENDS Integers, Sequences

CONSTANTS
  Frame,      \* the requests that may be sent
  Size,       \* [Frame -> Nat]: bytes before the sum
  BufSize,    \* MB_RX_BUF_SIZE, scaled for each mode
  MinSize,    \* MODBUS_RTU_MIN_MSG_SIZE, MODBUS_ASCII_MIN_MSG_SIZE + 1
  ReplySize,  \* bytes of a reply
  MaxFrames,  \* bound: requests sent
  MaxFaults   \* bound: faults of the line and of the sender

RTU   == "RTU"
ASCII == "ASCII"

ASSUME FramingAssumption ==
  /\ "none" \notin Frame
  /\ Size \in [Frame -> Nat]
  /\ BufSize \in [{RTU, ASCII} -> Nat]
  /\ MinSize \in [{RTU, ASCII} -> Nat]
  /\ ReplySize \in Nat \ {0}
  /\ MaxFrames \in Nat /\ MaxFaults \in Nat

Colon    == <<":", 0>>
CR       == <<"CR", 0>>
LF       == <<"LF", 0>>
Bad      == <<"bad", 0>>
NoByte   == <<"none", 0>>
NoFrame  == "none"

VARIABLES
  mode,
  RxBuf,       \* RxBuf up to RxBufNum
  RxData,      \* the bytes that RxData and RxCRC were made of
  timer,       \* the silence is being timed
  rdr,         \* a byte that came while reception was disabled
  receiving,   \* reception is enabled, and the interrupt that sends is not
  TxBufNum,    \* bytes of the reply still to be sent
  signals,     \* RxSignals that the slave has not taken
  task,        \* what MBS_RxTask is about to do
  checked,     \* history: what it found sound
  cur, pos,    \* the frame on the line, and how much of it has been sent
  clean,       \* history: it was started on a quiet channel and is intact so far
  due,         \* history: it was received so and has not been acted on
  overlapped,  \* history: a frame was completed while another was being served
  sent, faults

channel == <<mode, RxBuf, RxData, timer, rdr, receiving, TxBufNum, signals, task>>
sender  == <<cur, pos, sent, faults>>
vars    == <<channel, sender, checked, clean, due, overlapped>>

-----------------------------------------------------------------------------
(* What is on the line. *)

(* The bytes of a frame with its sum; two characters for each in ASCII mode. *)
Body(f) == [i \in 1 .. (IF mode = RTU THEN Size[f] + 2 ELSE 2 * (Size[f] + 1)) |-> <<f, i>>]

Wire(f) == IF mode = RTU THEN Body(f) ELSE <<Colon>> \o Body(f) \o <<CR, LF>>

(* The sum is taken to reveal whatever is not a whole frame. *)
Sound(data) == \E f \in Frame : data = Body(f)

Fits(f) == Len(Wire(f)) \in MinSize[mode] .. BufSize[mode]

Noise == IF mode = RTU THEN {Bad} ELSE {Bad, Colon, LF}

Busy  == signals > 0 \/ task # "idle" \/ ~ receiving
Quiet == ~ Busy /\ ~ timer /\ cur = NoFrame

Init ==
  /\ mode \in {RTU, ASCII}
  /\ RxBuf = <<>> /\ RxData = <<>>
  /\ timer = FALSE
  /\ rdr = NoByte
  /\ receiving = TRUE
  /\ TxBufNum = 0
  /\ signals = 0
  /\ task = "idle"
  /\ checked = <<>>
  /\ cur = NoFrame /\ pos = 0
  /\ clean = FALSE
  /\ due = NoFrame
  /\ overlapped = FALSE
  /\ sent = 0 /\ faults = 0

-----------------------------------------------------------------------------
(* Reception.  done is the frame that has now been received clean, if any. *)

(* Mutant of Stored: one byte more than the buffer has. *)
Stored_OneMore(buf, b) == IF Len(buf) <= BufSize[mode] THEN Append(buf, b) ELSE buf

Stored(buf, b) == IF Len(buf) < BufSize[mode] THEN Append(buf, b) ELSE buf

(* ..RxVerify copies the frame, and MB_OS_RxSignal follows. *)
Forward(data, done) ==
  /\ RxData' = data
  /\ signals' = signals + 1
  /\ overlapped' = (overlapped \/ Busy)
  /\ due' = IF Busy THEN NoFrame ELSE done

Drop(done) == due' = done /\ UNCHANGED <<RxData, signals, overlapped>>

(* Mutant of MB_RTU_RxByte: bytes are copied to RxData as they come. *)
MB_RTU_RxByte_InPlace(b, done) ==
  /\ RxBuf' = Stored(RxBuf, b)
  /\ RxData' = RxBuf'
  /\ timer' = TRUE
  /\ due' = done
  /\ UNCHANGED <<signals, overlapped>>

MB_RTU_RxByte(b, done) ==
  /\ RxBuf' = Stored(RxBuf, b)
  /\ timer' = TRUE
  /\ Drop(done)

(* Mutant of Restarted: a colon does not empty the buffer. *)
Restarted_Never(buf, b) == buf

Restarted(buf, b) == IF b = Colon THEN <<>> ELSE buf

MB_ASCII_RxVerify(buf) ==
  /\ Len(buf) % 2 = 1
  /\ Len(buf) >= MinSize[ASCII]
  /\ buf[1] = Colon /\ buf[Len(buf) - 1] = CR /\ buf[Len(buf)] = LF

MB_ASCII_RxByte(b, done) ==
  LET buf == Stored(Restarted(RxBuf, b), b)
  IN /\ RxBuf' = IF b = LF THEN <<>> ELSE buf
     /\ IF b = LF /\ MB_ASCII_RxVerify(buf) THEN Forward(SubSeq(buf, 2, Len(buf) - 2), done)
        ELSE Drop(done)
     /\ UNCHANGED timer

MB_UART_RxByte(b, done) ==
  \/ mode = RTU /\ MB_RTU_RxByte(b, done)
  \/ mode = ASCII /\ MB_ASCII_RxByte(b, done)

(* The interrupt of a byte.  One that comes while the reply is being sent  *)
(* waits for the interrupt of the next byte sent; a second one is lost.    *)
Arrive(b, done) ==
  IF receiving THEN MB_UART_RxByte(b, done) /\ UNCHANGED rdr
  ELSE /\ rdr' = IF rdr = NoByte THEN b ELSE rdr
       /\ Drop(done)
       /\ UNCHANGED <<RxBuf, timer>>

(* Mutant of MB_UART_RxTimeout: what is too short is kept. *)
MB_UART_RxTimeout_KeepsShort ==
  /\ timer
  /\ timer' = FALSE
  /\ IF Len(RxBuf) >= MinSize[RTU] THEN Forward(RxBuf, due) /\ RxBuf' = <<>>
     ELSE Drop(due) /\ UNCHANGED RxBuf

(* TIM17_IRQHandler. *)
MB_UART_RxTimeout ==
  /\ timer
  /\ timer' = FALSE
  /\ IF Len(RxBuf) >= MinSize[RTU] THEN Forward(RxBuf, due) ELSE Drop(due)
  /\ RxBuf' = <<>>

-----------------------------------------------------------------------------
(* The line.  An orderly sender waits until the channel is quiet, and does *)
(* not pause within a frame; everything else is a fault.                   *)

Fault == faults < MaxFaults /\ faults' = faults + 1

(* A frame that has not been passed on is spoilt by what follows it. *)
Spoilt == IF RxBuf = <<>> THEN due ELSE NoFrame

Start(f) ==
  /\ cur = NoFrame
  /\ sent < MaxFrames
  /\ IF Quiet THEN UNCHANGED faults ELSE Fault
  /\ cur' = f /\ pos' = 0 /\ sent' = sent + 1
  /\ clean' = Quiet
  /\ due' = IF Quiet THEN due ELSE Spoilt
  /\ overlapped' = (overlapped /\ ~ Quiet)
  /\ UNCHANGED <<channel, checked>>

Last == pos + 1 = Len(Wire(cur))

Advance ==
  /\ cur # NoFrame
  /\ pos' = IF Last THEN 0 ELSE pos + 1
  /\ cur' = IF Last THEN NoFrame ELSE cur
  /\ UNCHANGED sent

Unchanged == UNCHANGED <<mode, receiving, TxBufNum, task, checked>>

SendByte ==
  /\ Advance
  /\ Arrive(Wire(cur)[pos + 1], IF Last /\ clean /\ Fits(cur) THEN cur ELSE due)
  /\ UNCHANGED <<clean, faults>> /\ Unchanged

LoseByte ==
  /\ Advance
  /\ Fault
  /\ clean' = FALSE
  /\ UNCHANGED <<channel, checked, due, overlapped>>

DamageByte ==
  /\ Advance
  /\ Fault
  /\ clean' = FALSE
  /\ \E b \in Noise : Arrive(b, Spoilt)
  /\ Unchanged

Disturb ==
  /\ Fault
  /\ clean' = FALSE
  /\ \E b \in Noise : Arrive(b, Spoilt)
  /\ UNCHANGED <<cur, pos, sent>> /\ Unchanged

(* Silence: after a frame, or within one that pauses for as long. *)
Silence ==
  /\ MB_UART_RxTimeout
  /\ IF cur = NoFrame \/ pos = 0 THEN UNCHANGED <<clean, faults>> ELSE Fault /\ clean' = FALSE
  /\ UNCHANGED <<cur, pos, sent, rdr>> /\ Unchanged

-----------------------------------------------------------------------------
(* The slave, and its reply. *)

(* MBS_RxTask computes the sum of what is in RxData. *)
Check ==
  /\ task = "idle"
  /\ signals > 0
  /\ signals' = signals - 1
  /\ task' = IF Sound(RxData) THEN "act" ELSE "idle"
  /\ checked' = RxData
  /\ UNCHANGED <<mode, RxBuf, RxData, timer, rdr, receiving, TxBufNum, sender, clean, due,
                 overlapped>>

MB_UART_TxStart == receiving' = FALSE /\ TxBufNum' = ReplySize - 1

(* MBS_FCxx_Handler reads RxData again. *)
Act ==
  /\ task = "act"
  /\ task' = "idle"
  /\ due' = IF due # NoFrame /\ RxData = Body(due) THEN NoFrame ELSE due
  /\ MB_UART_TxStart \/ UNCHANGED <<receiving, TxBufNum>>
  /\ UNCHANGED <<mode, RxBuf, RxData, timer, rdr, signals, sender, checked, clean, overlapped>>

(* Mutant of MB_UART_TxByte: reception is not enabled again. *)
MB_UART_TxByte_Deaf ==
  IF TxBufNum > 0 THEN TxBufNum' = TxBufNum - 1 /\ UNCHANGED receiving
  ELSE UNCHANGED <<receiving, TxBufNum>>

MB_UART_TxByte ==
  IF TxBufNum > 0 THEN TxBufNum' = TxBufNum - 1 /\ UNCHANGED receiving
  ELSE receiving' = TRUE /\ UNCHANGED TxBufNum

(* USART1_IRQHandler, when a byte has been sent: first it takes one that has come. *)
USART1_IRQHandler ==
  /\ ~ receiving
  /\ IF rdr = NoByte THEN Drop(due) /\ UNCHANGED <<RxBuf, timer>>
     ELSE MB_UART_RxByte(rdr, due)
  /\ rdr' = NoByte
  /\ MB_UART_TxByte
  /\ UNCHANGED <<mode, task, sender, checked, clean>>

-----------------------------------------------------------------------------
Next ==
  \/ \E f \in Frame : Start(f)
  \/ SendByte
  \/ LoseByte
  \/ DamageByte
  \/ Disturb
  \/ Silence
  \/ Check
  \/ Act
  \/ USART1_IRQHandler

Spec == Init /\ [][Next]_vars

(* A frame that has been started ends, silence is timed, and the slave and *)
(* the interrupt run.                                                      *)
FairSpec ==
  Spec /\ WF_vars(SendByte) /\ WF_vars(Silence) /\ WF_vars(Check) /\ WF_vars(Act)
       /\ WF_vars(USART1_IRQHandler)

-----------------------------------------------------------------------------
(* Properties. *)

Byte == {Colon, CR, LF, Bad} \cup (Frame \X Nat)

(* Every variable keeps its type, and RxBuf its size. *)
TypeOK ==
  /\ mode \in {RTU, ASCII}
  /\ RxBuf \in Seq(Byte) /\ Len(RxBuf) <= BufSize[mode]
  /\ RxData \in Seq(Byte) /\ checked \in Seq(Byte)
  /\ timer \in BOOLEAN /\ receiving \in BOOLEAN
  /\ rdr \in Byte \cup {NoByte}
  /\ TxBufNum \in 0 .. ReplySize - 1
  /\ signals \in Nat
  /\ task \in {"idle", "act"}
  /\ cur \in Frame \cup {NoFrame} /\ pos \in Nat
  /\ clean \in BOOLEAN /\ overlapped \in BOOLEAN
  /\ due \in Frame \cup {NoFrame}
  /\ sent \in 0 .. MaxFrames /\ faults \in 0 .. MaxFaults

(* In RTU mode bytes that are gathered are being timed, so that none is left *)
(* to precede a frame that begins after silence.                            *)
GatheredIsTimed == mode = RTU /\ RxBuf # <<>> => timer

(* Whatever the line carried before, cut off, damaged or too long, a frame  *)
(* that fits and is sent to a quiet channel has been acted on when the      *)
(* channel is quiet again.                                                  *)
CleanFrameServed == Quiet => due = NoFrame

(* What the slave acts on is what it found sound, and its reply is not       *)
(* started over one that is still being sent, unless a second frame was      *)
(* completed in between: neither RxData nor TxBuf is protected.              *)
ActsOnWhatItChecked == task = "act" /\ ~ overlapped => RxData = checked /\ receiving

(* The channel always becomes quiet again: it neither stays deaf nor keeps *)
(* the bytes of a frame that never ended.                                  *)
QuietAgain == []<>Quiet
=============================================================================

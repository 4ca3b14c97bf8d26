------------------------------- MODULE Slave -------------------------------
(***************************************************************************)
(* The slave (mb_slave.c): one step per call of MBS_RxTask, which takes    *)
(* the frame in RxData, runs the handler of its function code on the       *)
(* tables of the application and leaves a reply in TxData, or none.        *)
(*                                                                         *)
(* A frame is what the handlers read of RxData: num is RxDataNum, and a    *)
(* field that lies beyond num holds what an earlier frame left there.  The *)
(* 16-bit fields at 2 and 4, or at 6 and 8 for a file, are start and qty   *)
(* whatever the function calls them (a value, a diagnostic code, a record  *)
(* number and count); data is a sequence of coils, one per bit, or of      *)
(* registers.                                                              *)
(***************************************************************************)
EXTENDS Integers, Sequences

CONSTANTS
  NodeAddr,
  Checked,        \* frames carry a sum: RTU and ASCII, not TCP
  StatRange,      \* 2^16: the counters wrap
  CoilsPerByte,   \* 8
  IxRange,        \* 2^8: data_ix of MBS_WriteMultipleCoils wraps
  Layout,         \* the sizes of the tables an application may have
  DiscreteInput,  \* the tables that no request changes
  InputReg,
  Frame,          \* the frames that may arrive
  NoFrame,        \* none has arrived
  NoReply         \* nothing is sent

FrameType == [addr : Nat, fc : Nat, num : Nat, ok : BOOLEAN, start : Nat, qty : Nat,
              bytes : Nat, type : Nat, data : Seq(Nat)]

Coil == {0, 1}

Reply == [addr : Nat, fc : Nat, err : 0 .. 4, body : Seq(Nat)]

ASSUME SlaveAssumption ==
  /\ NodeAddr \in Nat \ {0}
  /\ Checked \in BOOLEAN
  /\ StatRange \in Nat \ {0}
  /\ CoilsPerByte \in Nat \ {0}
  /\ IxRange \in Nat \ 0 .. 7
  /\ Layout \subseteq [coil : Nat, reg : Nat, file : Nat]
  /\ DiscreteInput \in [DOMAIN DiscreteInput -> Coil] /\ DOMAIN DiscreteInput \subseteq Nat
  /\ InputReg \in [DOMAIN InputReg -> Nat] /\ DOMAIN InputReg \subseteq Nat
  /\ Frame \subseteq FrameType
  /\ NoFrame \notin Frame
  /\ NoReply \notin Reply

(* RxData is long enough for what a handler takes from it.  No check of    *)
(* mb_slave.c sees to it for WR_FILE, whose record count is not compared   *)
(* with the byte count or the size of the frame.                           *)
ASSUME DataAssumption ==
  \A f \in Frame :
    /\ f.fc = 15 => f.data \in Seq(Coil) /\ Len(f.data) >= CoilsPerByte * f.bytes
    /\ f.fc = 16 => 2 * Len(f.data) + 1 >= f.bytes
    /\ f.fc = 21 => Len(f.data) >= f.qty

ILLEGAL_FC        == 1
ILLEGAL_DATA_ADDR == 2
ILLEGAL_DATA_QTY  == 3
ILLEGAL_DATA_VAL  == 4
NONE              == 0

RD_COIL     == 1
RD_DI       == 2
RD_HOLDING  == 3
RD_INPUT    == 4
WR_COIL     == 5
WR_REG      == 6
LOOPBACK    == 8
WR_COILS    == 15
WR_REGS     == 16
RD_FILE     == 20
WR_FILE     == 21

Supported == {RD_COIL, RD_DI, RD_HOLDING, RD_INPUT, WR_COIL, WR_REG, LOOPBACK,
              WR_COILS, WR_REGS, RD_FILE, WR_FILE}

Counter == {"Msg", "CRCErr", "Except", "SlaveMsg", "NoResp"}

QUERY       == 0
CLR_CTR     == 10
DiagCounter == <<"Msg", "CRCErr", "Except", "SlaveMsg", "NoResp">>  \* codes 11 to 15

VARIABLES
  coil, reg, file,  \* the tables of the application that requests write
  stat,             \* StatMsgCtr, StatCRCErrCtr, ...
  rx,               \* RxData as MBS_RxTask last found it
  reply,            \* TxData if MBS_RxTask sent it, else NoReply
  answered,         \* history: replies since the counters were cleared
  silentClear       \* history: what cleared them was a broadcast

tables == <<coil, reg, file>>
vars   == <<coil, reg, file, stat, rx, reply, answered, silentClear>>

-----------------------------------------------------------------------------
(* Requests and replies. *)

Normal(f, body)   == [addr |-> f.addr, fc |-> f.fc, err |-> NONE, body |-> body]
Exception(f, err) == [addr |-> f.addr, fc |-> f.fc + 128, err |-> err, body |-> <<>>]

Span(f) == f.start .. f.start + f.qty - 1

(* MBS_APP_..Verify: the application has all that is asked for. *)
Holds(table, span) == span \subseteq DOMAIN table

Slice(table, f) == [i \in 1 .. f.qty |-> table[f.start + i - 1]]

Wrapped(n) == IF n = StatRange - 1 THEN 0 ELSE n + 1

Count(base, counters) ==
  [c \in Counter |-> IF c \in counters THEN Wrapped(base[c]) ELSE base[c]]

NoCounts == [c \in Counter |-> 0]

Init ==
  /\ \E size \in Layout :
       /\ coil = [a \in 0 .. size.coil - 1 |-> 0]
       /\ reg  = [a \in 0 .. size.reg - 1 |-> 0]
       /\ file = [a \in 0 .. size.file - 1 |-> 0]
  /\ stat = NoCounts
  /\ rx = NoFrame
  /\ reply = NoReply
  /\ answered = 0
  /\ silentClear = FALSE

-----------------------------------------------------------------------------
(* How MBS_RxTask ends: what it sends, and the counters. *)

Conclude(f, stats, r) ==
  /\ rx' = f
  /\ reply' = r
  /\ stat' = IF r = NoReply THEN Count(stats, {"NoResp"}) ELSE stats

Tally ==
  /\ answered' = IF reply' = NoReply THEN answered ELSE Wrapped(answered)
  /\ UNCHANGED silentClear

Taken == Count(stat, {"Msg", "SlaveMsg"})

(* Mutant of Unicast: broadcasts are answered. *)
Unicast_Always(f, r) == r

(* A broadcast is not answered. *)
Unicast(f, r) == IF f.addr = 0 THEN NoReply ELSE r

(* Mutant of Ignore: StatNoRespCtr is only counted for a bad sum. *)
Ignore_Uncounted(f) == rx' = f /\ reply' = NoReply /\ stat' = Taken

Ignore(f) == Conclude(f, Taken, NoReply)
Refuse(f, err)  == Conclude(f, Count(Taken, {"Except"}), Unicast(f, Exception(f, err)))
Answer(f, body) == Conclude(f, Taken, Unicast(f, Normal(f, body)))

-----------------------------------------------------------------------------
(* Frames that no handler sees. *)

Sound(f) == Checked => f.ok

BadSum(f) ==
  /\ ~ Sound(f)
  /\ Conclude(f, Count(stat, {"Msg", "CRCErr"}), NoReply)
  /\ Tally
  /\ UNCHANGED tables

NotForUs(f) ==
  /\ Sound(f)
  /\ f.addr \notin {NodeAddr, 0}
  /\ Conclude(f, Count(stat, {"Msg"}), NoReply)
  /\ Tally
  /\ UNCHANGED tables

Asked(f, functions) ==
  /\ Sound(f)
  /\ f.addr \in {NodeAddr, 0}
  /\ f.fc \in functions

(* This one answers a broadcast. *)
Unsupported(f) ==
  /\ Sound(f)
  /\ f.addr \in {NodeAddr, 0}
  /\ f.fc \notin Supported
  /\ Conclude(f, Count(Taken, {"Except"}), Exception(f, ILLEGAL_FC))
  /\ Tally
  /\ UNCHANGED tables

(* A frame too short, or too long, for its function is ignored. *)
Misfit(f, functions, fits) ==
  /\ Asked(f, functions)
  /\ ~ fits
  /\ Ignore(f)
  /\ Tally
  /\ UNCHANGED tables

-----------------------------------------------------------------------------
(* The handlers that read. *)

ReadError(f, table, most) ==
  IF f.qty \notin 1 .. most THEN ILLEGAL_DATA_QTY
  ELSE IF ~ Holds(table, Span(f)) THEN ILLEGAL_DATA_ADDR
  ELSE NONE

Read(f, fc, table, most) ==
  /\ Asked(f, {fc})
  /\ f.num = 6
  /\ IF ReadError(f, table, most) # NONE THEN Refuse(f, ReadError(f, table, most))
     ELSE Answer(f, Slice(table, f))
  /\ Tally
  /\ UNCHANGED tables

MBS_ReadCoils(f) == Read(f, RD_COIL, coil, 2000)
MBS_ReadDiscreteInputs(f) == Read(f, RD_DI, DiscreteInput, 2000)
MBS_ReadHoldingRegs(f) == Read(f, RD_HOLDING, reg, 125)
MBS_ReadInputRegs(f) == Read(f, RD_INPUT, InputReg, 125)

(* Only the byte count and the type are checked; the application refuses a *)
(* record it does not have.                                                *)
FileError(f) ==
  IF f.bytes \notin 7 .. 245 THEN ILLEGAL_DATA_QTY
  ELSE IF f.type # 6 THEN ILLEGAL_DATA_ADDR
  ELSE NONE

MBS_ReadFileRecord(f) ==
  /\ Asked(f, {RD_FILE})
  /\ IF FileError(f) # NONE THEN Refuse(f, FileError(f))
     ELSE IF ~ Holds(file, Span(f)) THEN Refuse(f, ILLEGAL_DATA_ADDR)
     ELSE Answer(f, Slice(file, f))
  /\ Tally
  /\ UNCHANGED tables

(* MBS_Loopback, but for the code that clears the counters.  The statistics *)
(* it returns count the request itself.                                     *)
MBS_Loopback(f) ==
  /\ Asked(f, {LOOPBACK})
  /\ f.num = 6
  /\ f.start # CLR_CTR
  /\ IF f.start = QUERY THEN Answer(f, <<f.start, f.qty>>)
     ELSE IF f.start - 10 \in DOMAIN DiagCounter
          THEN Answer(f, <<f.start, Taken[DiagCounter[f.start - 10]]>>)
     ELSE Refuse(f, ILLEGAL_DATA_VAL)
  /\ Tally
  /\ UNCHANGED tables

(* A broadcast that clears them counts as unanswered right afterwards. *)
MBS_StatInit(f) ==
  /\ Asked(f, {LOOPBACK})
  /\ f.num = 6
  /\ f.start = CLR_CTR
  /\ Conclude(f, NoCounts, Unicast(f, Normal(f, <<f.start, f.qty>>)))
  /\ answered' = 0
  /\ silentClear' = (reply' = NoReply)
  /\ UNCHANGED tables

-----------------------------------------------------------------------------
(* The handlers that write. *)

(* Mutant of Bit: the value is stored as it comes. *)
Bit_Raw(n) == n

Bit(n) == IF n = 0 THEN 0 ELSE 1

MBS_WriteSingleCoil(f) ==
  /\ Asked(f, {WR_COIL})
  /\ f.num = 6
  /\ IF ~ Holds(coil, {f.start}) THEN Refuse(f, ILLEGAL_DATA_ADDR) /\ UNCHANGED coil
     ELSE /\ coil' = [coil EXCEPT ![f.start] = Bit(f.qty)]
          /\ Answer(f, <<f.start, f.qty>>)
  /\ Tally
  /\ UNCHANGED <<reg, file>>

(* Mutant of MBS_WriteSingleHoldingReg: the value passes through a bool, as in *)
(* the handler above.                                                         *)
MBS_WriteSingleHoldingReg_Bool(f) ==
  /\ Asked(f, {WR_REG})
  /\ f.num = 6
  /\ IF ~ Holds(reg, {f.start}) THEN Refuse(f, ILLEGAL_DATA_ADDR) /\ UNCHANGED reg
     ELSE /\ reg' = [reg EXCEPT ![f.start] = Bit(f.qty)]
          /\ Answer(f, <<f.start, f.qty>>)
  /\ Tally
  /\ UNCHANGED <<coil, file>>

MBS_WriteSingleHoldingReg(f) ==
  /\ Asked(f, {WR_REG})
  /\ f.num = 6
  /\ IF ~ Holds(reg, {f.start}) THEN Refuse(f, ILLEGAL_DATA_ADDR) /\ UNCHANGED reg
     ELSE /\ reg' = [reg EXCEPT ![f.start] = f.qty]
          /\ Answer(f, <<f.start, f.qty>>)
  /\ Tally
  /\ UNCHANGED <<coil, file>>

BytesOf(coils) == (coils + CoilsPerByte - 1) \div CoilsPerByte

CoilsError(f) ==
  IF f.qty \notin 1 .. 2000 \/ ~ Holds(coil, Span(f)) THEN ILLEGAL_DATA_QTY
  ELSE IF BytesOf(f.qty) # f.bytes \/ f.num # f.bytes + 7 THEN ILLEGAL_DATA_VAL
  ELSE NONE

(* Mutant of RxCoil: data_ix is not advanced. *)
RxCoil_FirstByte(f, i) == f.data[(i % CoilsPerByte) + 1]

(* The coil that is taken for the i-th one, from 0.  data_ix starts at 7; *)
(* if it wraps, the last byte is RxData[0], which is the address.         *)
RxCoil(f, i) ==
  IF i \div CoilsPerByte + 7 < IxRange THEN f.data[i + 1]
  ELSE Bit((f.addr \div 2 ^ (i % CoilsPerByte)) % 2)

MBS_WriteMultipleCoils(f) ==
  /\ Asked(f, {WR_COILS})
  /\ f.num >= 8
  /\ IF CoilsError(f) # NONE THEN Refuse(f, CoilsError(f)) /\ UNCHANGED coil
     ELSE /\ coil' = [a \in DOMAIN coil |-> IF a \in Span(f) THEN RxCoil(f, a - f.start)
                                                             ELSE coil[a]]
          /\ Answer(f, <<f.start, f.qty>>)
  /\ Tally
  /\ UNCHANGED <<reg, file>>

(* The second check is that f.bytes \div f.qty is 2. *)
RegsError(f) ==
  IF f.qty \notin 1 .. 125 \/ f.num # f.bytes + 7 THEN ILLEGAL_DATA_QTY
  ELSE IF f.bytes \notin 2 * f.qty .. 3 * f.qty - 1 THEN ILLEGAL_DATA_VAL
  ELSE IF ~ Holds(reg, Span(f)) THEN ILLEGAL_DATA_QTY
  ELSE NONE

(* The loop writes every value to the first register. *)
MBS_WriteMultipleHoldingRegs(f) ==
  /\ Asked(f, {WR_REGS})
  /\ f.num >= 9
  /\ IF RegsError(f) # NONE THEN Refuse(f, RegsError(f)) /\ UNCHANGED reg
     ELSE /\ reg' = [reg EXCEPT ![f.start] = f.data[f.qty]]
          /\ Answer(f, <<f.start, f.qty>>)
  /\ Tally
  /\ UNCHANGED <<coil, file>>

(* The records that are written before the application refuses one. *)
Prefix(f) == {r \in Span(f) : Holds(file, f.start .. r)}

(* Mutant of MBS_WriteFileRecord: the refusal of a record ends the loop and *)
(* not the function.                                                       *)
MBS_WriteFileRecord_Breaks(f) ==
  /\ Asked(f, {WR_FILE})
  /\ IF FileError(f) # NONE THEN Refuse(f, FileError(f)) /\ UNCHANGED file
     ELSE /\ file' = [r \in DOMAIN file |-> IF r \in Prefix(f) THEN f.data[r - f.start + 1]
                                                             ELSE file[r]]
          /\ Answer(f, SubSeq(f.data, 1, f.qty))
  /\ Tally
  /\ UNCHANGED <<coil, reg>>

MBS_WriteFileRecord(f) ==
  /\ Asked(f, {WR_FILE})
  /\ IF FileError(f) # NONE THEN Refuse(f, FileError(f)) /\ UNCHANGED file
     ELSE /\ file' = [r \in DOMAIN file |-> IF r \in Prefix(f) THEN f.data[r - f.start + 1]
                                                             ELSE file[r]]
          /\ IF Prefix(f) # Span(f) THEN Refuse(f, ILLEGAL_DATA_ADDR)
             ELSE Answer(f, SubSeq(f.data, 1, f.qty))
  /\ Tally
  /\ UNCHANGED <<coil, reg>>

-----------------------------------------------------------------------------
MBS_RxTask(f) ==
  \/ BadSum(f)
  \/ NotForUs(f)
  \/ Unsupported(f)
  \/ Misfit(f, {RD_COIL, RD_DI, RD_HOLDING, RD_INPUT, WR_COIL, WR_REG, LOOPBACK}, f.num = 6)
  \/ Misfit(f, {WR_COILS}, f.num >= 8)
  \/ Misfit(f, {WR_REGS}, f.num >= 9)
  \/ MBS_ReadCoils(f)
  \/ MBS_ReadDiscreteInputs(f)
  \/ MBS_ReadHoldingRegs(f)
  \/ MBS_ReadInputRegs(f)
  \/ MBS_ReadFileRecord(f)
  \/ MBS_Loopback(f)
  \/ MBS_StatInit(f)
  \/ MBS_WriteSingleCoil(f)
  \/ MBS_WriteSingleHoldingReg(f)
  \/ MBS_WriteMultipleCoils(f)
  \/ MBS_WriteMultipleHoldingRegs(f)
  \/ MBS_WriteFileRecord(f)

Next == \E f \in Frame : MBS_RxTask(f)

Spec == Init /\ [][Next]_vars

-----------------------------------------------------------------------------
(* Properties. *)

(* Every variable keeps its type; the tables of the application keep their size. *)
TypeOK ==
  /\ \E size \in Layout :
       /\ coil \in [0 .. size.coil - 1 -> Coil]
       /\ reg \in [0 .. size.reg - 1 -> Nat]
       /\ file \in [0 .. size.file - 1 -> Nat]
  /\ stat \in [Counter -> 0 .. StatRange - 1]
  /\ rx \in Frame \cup {NoFrame}
  /\ reply \in Reply \cup {NoReply}
  /\ answered \in 0 .. StatRange - 1
  /\ silentClear \in BOOLEAN

(* The statistics that a master reads with LOOPBACK add up over any sequence *)
(* of frames, over the wrap of the counters: what was received is what was   *)
(* answered and what was not, but for the one that a broadcast LOOPBACK      *)
(* loses when it clears the counters before its own silence is counted.      *)
ReplyAccounting ==
  LET received   == stat["Msg"] + IF silentClear THEN 1 ELSE 0
      accounted  == stat["NoResp"] + answered
  IN received - accounted \in {- StatRange, 0, StatRange}

(* On a line that many slaves share: nothing is sent unless the frame is     *)
(* sound and addressed to this slave, but for a function it does not support *)
(* that is broadcast, to which every slave sends its exception.              *)
OnlyOwnFramesAnswered ==
  reply # NoReply =>
    /\ Sound(rx)
    /\ rx.addr = NodeAddr \/ (rx.addr = 0 /\ reply.err = ILLEGAL_FC)

(* What a request asks the tables to become. *)
Overlay(table, start, values) ==
  [a \in DOMAIN table |-> IF a - start + 1 \in DOMAIN values THEN values[a - start + 1]
                          ELSE table[a]]

Wanted(f) ==
  <<IF f.fc = WR_COIL THEN Overlay(coil, f.start, <<Bit(f.qty)>>)
    ELSE IF f.fc = WR_COILS THEN Overlay(coil, f.start, SubSeq(f.data, 1, f.qty)) ELSE coil,
    IF f.fc = WR_REG THEN Overlay(reg, f.start, <<f.qty>>)
    ELSE IF f.fc = WR_REGS THEN Overlay(reg, f.start, SubSeq(f.data, 1, f.qty)) ELSE reg,
    IF f.fc = WR_FILE THEN Overlay(file, f.start, SubSeq(f.data, 1, f.qty)) ELSE file>>

Fits(f) ==
  /\ f.fc = WR_COIL => f.start \in DOMAIN coil
  /\ f.fc = WR_REG => f.start \in DOMAIN reg
  /\ f.fc = WR_COILS => Span(f) \subseteq DOMAIN coil
  /\ f.fc = WR_REGS => Span(f) \subseteq DOMAIN reg
  /\ f.fc = WR_FILE => Span(f) \subseteq DOMAIN file

ToldEffect(f) ==
  \/ /\ reply' = NoReply
     /\ tables' = tables \/ (f.addr = 0 /\ tables' = Wanted(f))
  \/ /\ reply' # NoReply
     /\ IF reply'.err = NONE THEN Fits(f) /\ tables' = Wanted(f) ELSE UNCHANGED tables

(* The master can tell from the reply what its request did: all of it after *)
(* a normal reply, nothing after an exception; a broadcast is done entirely *)
(* or not at all and no other frame that goes unanswered does anything.     *)
(* Left out are WR_FILE, which writes record by record, a WR_REGS of more   *)
(* than one register that is not refused (see RegistersWritten), and a      *)
(* WR_COILS of more than IxRange - 7 bytes, whose last coils are taken from *)
(* the wrong byte.                                                          *)
ReplyTellsEffect ==
  [][\/ rx'.fc = WR_FILE
     \/ (rx'.fc = WR_REGS /\ rx'.qty > 1 /\ (reply' # NoReply => reply'.err = NONE))
     \/ (rx'.fc = WR_COILS /\ BytesOf(rx'.qty) > IxRange - 7)
     \/ ToldEffect(rx')]_vars

(* An exception to WR_FILE leaves the records before the refused one written *)
(* and no other, and a normal reply means that all were.                     *)
FileWriteIsPrefix ==
  [][rx'.fc = WR_FILE =>
       /\ UNCHANGED <<coil, reg>>
       /\ \E n \in 0 .. rx'.qty :
            /\ file' = Overlay(file, rx'.start, SubSeq(rx'.data, 1, n))
            /\ (reply' # NoReply /\ reply'.err = NONE) => (n = rx'.qty /\ Fits(rx'))]_vars

(* Multiple registers that are written with a normal reply hold what was *)
(* sent (mb_slave.c:790).                                                *)
RegistersWritten == [][rx'.fc = WR_REGS => ToldEffect(rx')]_vars
=============================================================================

---------------------------- MODULE SlaveProofs ----------------------------
(***************************************************************************)
(* Proofs about module Slave.  Every frame ends in Conclude and, but for   *)
(* the one that clears the counters, in Tally: StepShape states what they  *)
(* are called with, and types, accounting and silence follow from it for   *)
(* all function codes at once.  What a request does to the tables is shown *)
(* handler by handler.                                                     *)
(***************************************************************************)
EXTENDS Slave, SequenceTheorems, TLAPS

Counts == [Counter -> 0 .. StatRange - 1]

TablesOK(size) ==
  /\ coil \in [0 .. size.coil - 1 -> Coil]
  /\ reg \in [0 .. size.reg - 1 -> Nat]
  /\ file \in [0 .. size.file - 1 -> Nat]

-----------------------------------------------------------------------------
(* The counters. *)

LEMMA WrappedType ==
  ASSUME NEW n \in 0 .. StatRange - 1
  PROVE  Wrapped(n) \in 0 .. StatRange - 1
BY SlaveAssumption DEF Wrapped

LEMMA CountType ==
  ASSUME NEW base \in Counts, NEW S
  PROVE  Count(base, S) \in Counts
BY WrappedType DEF Count, Counts

LEMMA CountAt ==
  ASSUME NEW base, NEW S, NEW c \in Counter
  PROVE  Count(base, S)[c] = IF c \in S THEN Wrapped(base[c]) ELSE base[c]
BY DEF Count

(* What a handler makes of the counters, whatever it counts besides. *)
CountsFrame(stats) ==
  /\ stats \in Counts
  /\ stats["Msg"] = Wrapped(stat["Msg"])
  /\ stats["NoResp"] = stat["NoResp"]

LEMMA TakenCounts ==
  ASSUME stat \in Counts
  PROVE  /\ CountsFrame(Count(stat, {"Msg"}))
         /\ CountsFrame(Count(stat, {"Msg", "CRCErr"}))
         /\ CountsFrame(Taken)
         /\ CountsFrame(Count(Taken, {"Except"}))
<1>1. Taken \in Counts
  BY CountType DEF Taken
<1>2. {"Msg", "NoResp"} \subseteq Counter
  BY DEF Counter
<1> QED
  BY <1>1, <1>2, CountType, CountAt DEF CountsFrame, Taken

-----------------------------------------------------------------------------
(* How a frame ends. *)

(* What may be sent for f. *)
OwnReply(f, r) ==
  r # NoReply =>
    /\ r \in Reply
    /\ Sound(f)
    /\ f.addr = NodeAddr \/ (f.addr = 0 /\ r.err = ILLEGAL_FC)

Concluded(f) ==
  \E stats \in Counts, r \in Reply \cup {NoReply} :
    Conclude(f, stats, r) /\ CountsFrame(stats) /\ OwnReply(f, r)

LEMMA IgnoreConcludes ==
  ASSUME stat \in Counts, NEW f \in Frame, Ignore(f)
  PROVE  Concluded(f)
BY TakenCounts DEF Ignore, Concluded, CountsFrame, OwnReply

(* The fields of a frame. *)
LEMMA FrameFields ==
  ASSUME NEW f \in Frame
  PROVE  /\ f.addr \in Nat /\ f.fc \in Nat /\ f.num \in Nat /\ f.ok \in BOOLEAN
         /\ f.start \in Nat /\ f.qty \in Nat /\ f.bytes \in Nat /\ f.type \in Nat
         /\ f.data \in Seq(Nat) /\ Len(f.data) \in Nat
<1>1. f \in FrameType
  BY SlaveAssumption
<1>2. f.data \in Seq(Nat)
  BY <1>1 DEF FrameType
<1>3. Len(f.data) \in Nat
  BY <1>2, LenProperties
<1> QED
  BY <1>1, <1>2, <1>3 DEF FrameType

LEMMA AnswerConcludes ==
  ASSUME stat \in Counts, NEW f \in Frame, NEW functions, Asked(f, functions),
         NEW body \in Seq(Nat), Answer(f, body)
  PROVE  Concluded(f)
<1> DEFINE r == Unicast(f, Normal(f, body))
<1>1. Normal(f, body) \in Reply
  BY FrameFields DEF Normal, Reply, NONE
<1>2. r \in Reply \cup {NoReply} /\ OwnReply(f, r)
  BY <1>1 DEF Unicast, OwnReply, Asked
<1>3. Conclude(f, Taken, r) /\ CountsFrame(Taken)
  BY TakenCounts DEF Answer
<1> QED
  BY <1>2, <1>3 DEF Concluded, CountsFrame

Errors == {ILLEGAL_FC, ILLEGAL_DATA_ADDR, ILLEGAL_DATA_QTY, ILLEGAL_DATA_VAL}

LEMMA ExceptionType ==
  ASSUME NEW f \in Frame, NEW err \in Errors
  PROVE  Exception(f, err) \in Reply
<1>1. f.addr \in Nat /\ f.fc + 128 \in Nat
  BY FrameFields
<1>2. err \in 0 .. 4
  BY DEF Errors, ILLEGAL_FC, ILLEGAL_DATA_ADDR, ILLEGAL_DATA_QTY, ILLEGAL_DATA_VAL
<1>3. << >> \in Seq(Nat)
  OBVIOUS
<1> QED
  BY <1>1, <1>2, <1>3 DEF Exception, Reply

LEMMA RefuseConcludes ==
  ASSUME stat \in Counts, NEW f \in Frame, NEW functions, Asked(f, functions),
         NEW err \in Errors, Refuse(f, err)
  PROVE  Concluded(f)
<1> DEFINE r == Unicast(f, Exception(f, err))
<1>1. r \in Reply \cup {NoReply} /\ OwnReply(f, r)
  BY ExceptionType DEF Unicast, OwnReply, Asked
<1>2. Conclude(f, Count(Taken, {"Except"}), r) /\ CountsFrame(Count(Taken, {"Except"}))
  BY TakenCounts DEF Refuse
<1> QED
  BY <1>1, <1>2 DEF Concluded, CountsFrame

LEMMA SliceType ==
  ASSUME NEW f \in Frame, NEW D, D \subseteq Nat, NEW table \in [D -> Nat],
         Span(f) \subseteq D
  PROVE  Slice(table, f) \in Seq(Nat)
<1>1. f.start \in Nat /\ f.qty \in Nat
  BY FrameFields
<1>2. \A i \in 1 .. f.qty : f.start + i - 1 \in Span(f)
  BY <1>1 DEF Span
<1>3. \A i \in 1 .. f.qty : table[f.start + i - 1] \in Nat
  BY <1>2
<1>4. Slice(table, f) \in [1 .. f.qty -> Nat]
  BY <1>3 DEF Slice
<1> QED
  BY <1>1, <1>4

LEMMA PairType ==
  ASSUME NEW m \in Nat, NEW n \in Nat
  PROVE  <<m, n>> \in Seq(Nat)
OBVIOUS

LEMMA PrefixType ==
  ASSUME NEW f \in Frame, Len(f.data) >= f.qty
  PROVE  /\ SubSeq(f.data, 1, f.qty) \in Seq(Nat)
         /\ Len(SubSeq(f.data, 1, f.qty)) = f.qty
         /\ \A i \in 1 .. f.qty : SubSeq(f.data, 1, f.qty)[i] = f.data[i]
<1>1. f.data \in Seq(Nat) /\ f.qty \in Nat
  BY FrameFields
<1>2. 1 \in 1 .. Len(f.data) + 1 /\ f.qty \in 1 - 1 .. Len(f.data)
  BY <1>1
<1> QED
  BY <1>1, <1>2, SubSeqProperties

-----------------------------------------------------------------------------
(* Every frame is concluded and tallied, but for the one that clears the   *)
(* counters.                                                               *)

TypedTable(table) == \E D \in SUBSET Nat : table \in [D -> Nat]

LEMMA TypedTables ==
  ASSUME TypeOK
  PROVE  /\ TypedTable(coil) /\ TypedTable(reg) /\ TypedTable(file)
         /\ TypedTable(DiscreteInput) /\ TypedTable(InputReg)
<1>1. PICK size \in Layout : TablesOK(size)
  BY DEF TypeOK, TablesOK
<1>2. \A m \in Nat : 0 .. m - 1 \in SUBSET Nat
  OBVIOUS
<1>3. size.coil \in Nat /\ size.reg \in Nat /\ size.file \in Nat
  BY SlaveAssumption
<1>4. coil \in [0 .. size.coil - 1 -> Nat]
  BY <1>1 DEF TablesOK, Coil
<1>5. TypedTable(coil)
  BY <1>2, <1>3, <1>4 DEF TypedTable
<1>6. TypedTable(reg)
  BY <1>1, <1>2, <1>3 DEF TablesOK, TypedTable
<1>7. TypedTable(file)
  BY <1>1, <1>2, <1>3 DEF TablesOK, TypedTable
<1>8. DiscreteInput \in [DOMAIN DiscreteInput -> Nat]
  BY SlaveAssumption DEF Coil
<1>9. TypedTable(DiscreteInput) /\ TypedTable(InputReg)
  BY <1>8, SlaveAssumption DEF TypedTable
<1> QED
  BY <1>5, <1>6, <1>7, <1>9

LEMMA SliceTyped ==
  ASSUME NEW f \in Frame, NEW table, TypedTable(table), Holds(table, Span(f))
  PROVE  Slice(table, f) \in Seq(Nat)
BY SliceType DEF TypedTable, Holds

LEMMA MisfitConcludes ==
  ASSUME TypeOK, NEW f \in Frame, NEW functions, NEW fits, Misfit(f, functions, fits)
  PROVE  Concluded(f) /\ Tally
BY IgnoreConcludes DEF Misfit, TypeOK, Counts

LEMMA ReadConcludes ==
  ASSUME TypeOK, NEW f \in Frame, NEW fc, NEW table, TypedTable(table), NEW most,
         Read(f, fc, table, most)
  PROVE  Concluded(f) /\ Tally
<1>1. stat \in Counts /\ Asked(f, {fc}) /\ Tally
  BY DEF TypeOK, Counts, Read
<1>2. CASE ReadError(f, table, most) # NONE
  <2>1. ReadError(f, table, most) \in Errors
    BY <1>2 DEF ReadError, Errors
  <2> QED
    BY <1>1, <1>2, <2>1, RefuseConcludes DEF Read
<1>3. CASE ReadError(f, table, most) = NONE
  <2>1. Holds(table, Span(f))
    BY <1>3 DEF ReadError, ILLEGAL_DATA_QTY, ILLEGAL_DATA_ADDR, NONE
  <2>2. Slice(table, f) \in Seq(Nat)
    BY <2>1, SliceTyped
  <2> QED
    BY <1>1, <1>3, <2>2, AnswerConcludes DEF Read
<1> QED
  BY <1>2, <1>3

LEMMA LoopbackConcludes ==
  ASSUME TypeOK, NEW f \in Frame, MBS_Loopback(f)
  PROVE  Concluded(f) /\ Tally
<1>1. stat \in Counts /\ Asked(f, {LOOPBACK}) /\ Tally
  BY DEF TypeOK, Counts, MBS_Loopback
<1>2. f.start \in Nat /\ f.qty \in Nat
  BY FrameFields
<1>3. CASE f.start = QUERY
  <2>1. Answer(f, <<f.start, f.qty>>)
    BY <1>3 DEF MBS_Loopback
  <2> QED
    BY <1>1, <1>2, <2>1, PairType, AnswerConcludes
<1>4. CASE f.start # QUERY /\ f.start - 10 \in DOMAIN DiagCounter
  <2>1. Answer(f, <<f.start, Taken[DiagCounter[f.start - 10]]>>)
    BY <1>4 DEF MBS_Loopback
  <2>2. DiagCounter[f.start - 10] \in Counter
    BY <1>4 DEF DiagCounter, Counter
  <2>3. Taken[DiagCounter[f.start - 10]] \in Nat
    BY <1>1, <2>2, CountType, SlaveAssumption DEF Taken, Counts
  <2> QED
    BY <1>1, <1>2, <2>1, <2>3, PairType, AnswerConcludes
<1>5. CASE f.start # QUERY /\ f.start - 10 \notin DOMAIN DiagCounter
  <2>1. Refuse(f, ILLEGAL_DATA_VAL)
    BY <1>5 DEF MBS_Loopback
  <2> QED
    BY <1>1, <2>1, RefuseConcludes DEF Errors
<1> QED
  BY <1>3, <1>4, <1>5

LEMMA FileErrorType ==
  ASSUME NEW f, FileError(f) # NONE
  PROVE  FileError(f) \in Errors
BY DEF FileError, Errors

LEMMA ReadFileConcludes ==
  ASSUME TypeOK, NEW f \in Frame, MBS_ReadFileRecord(f)
  PROVE  Concluded(f) /\ Tally
<1>1. stat \in Counts /\ Asked(f, {RD_FILE}) /\ Tally
  BY DEF TypeOK, Counts, MBS_ReadFileRecord
<1>2. CASE FileError(f) # NONE
  BY <1>1, <1>2, FileErrorType, RefuseConcludes DEF MBS_ReadFileRecord
<1>3. CASE FileError(f) = NONE /\ ~ Holds(file, Span(f))
  BY <1>1, <1>3, RefuseConcludes DEF MBS_ReadFileRecord, Errors
<1>4. CASE FileError(f) = NONE /\ Holds(file, Span(f))
  <2>1. Slice(file, f) \in Seq(Nat)
    BY <1>4, SliceTyped, TypedTables
  <2> QED
    BY <1>1, <1>4, <2>1, AnswerConcludes DEF MBS_ReadFileRecord
<1> QED
  BY <1>2, <1>3, <1>4

LEMMA WriteCoilConcludes ==
  ASSUME TypeOK, NEW f \in Frame, MBS_WriteSingleCoil(f)
  PROVE  Concluded(f) /\ Tally
<1>1. stat \in Counts /\ Asked(f, {WR_COIL}) /\ Tally /\ <<f.start, f.qty>> \in Seq(Nat)
  BY FrameFields, PairType DEF TypeOK, Counts, MBS_WriteSingleCoil
<1>2. \/ Refuse(f, ILLEGAL_DATA_ADDR)
      \/ Answer(f, <<f.start, f.qty>>)
  BY DEF MBS_WriteSingleCoil
<1> QED
  BY <1>1, <1>2, RefuseConcludes, AnswerConcludes DEF Errors

LEMMA WriteRegConcludes ==
  ASSUME TypeOK, NEW f \in Frame, MBS_WriteSingleHoldingReg(f)
  PROVE  Concluded(f) /\ Tally
<1>1. stat \in Counts /\ Asked(f, {WR_REG}) /\ Tally /\ <<f.start, f.qty>> \in Seq(Nat)
  BY FrameFields, PairType DEF TypeOK, Counts, MBS_WriteSingleHoldingReg
<1>2. \/ Refuse(f, ILLEGAL_DATA_ADDR)
      \/ Answer(f, <<f.start, f.qty>>)
  BY DEF MBS_WriteSingleHoldingReg
<1> QED
  BY <1>1, <1>2, RefuseConcludes, AnswerConcludes DEF Errors

LEMMA WriteCoilsConcludes ==
  ASSUME TypeOK, NEW f \in Frame, MBS_WriteMultipleCoils(f)
  PROVE  Concluded(f) /\ Tally
<1>1. stat \in Counts /\ Asked(f, {WR_COILS}) /\ Tally /\ <<f.start, f.qty>> \in Seq(Nat)
  BY FrameFields, PairType DEF TypeOK, Counts, MBS_WriteMultipleCoils
<1>2. \/ CoilsError(f) # NONE /\ Refuse(f, CoilsError(f))
      \/ Answer(f, <<f.start, f.qty>>)
  BY DEF MBS_WriteMultipleCoils
<1>3. CoilsError(f) # NONE => CoilsError(f) \in Errors
  BY DEF CoilsError, Errors
<1> QED
  BY <1>1, <1>2, <1>3, RefuseConcludes, AnswerConcludes

LEMMA WriteRegsConcludes ==
  ASSUME TypeOK, NEW f \in Frame, MBS_WriteMultipleHoldingRegs(f)
  PROVE  Concluded(f) /\ Tally
<1>1. stat \in Counts /\ Asked(f, {WR_REGS}) /\ Tally /\ <<f.start, f.qty>> \in Seq(Nat)
  BY FrameFields, PairType DEF TypeOK, Counts, MBS_WriteMultipleHoldingRegs
<1>2. \/ RegsError(f) # NONE /\ Refuse(f, RegsError(f))
      \/ Answer(f, <<f.start, f.qty>>)
  BY DEF MBS_WriteMultipleHoldingRegs
<1>3. RegsError(f) # NONE => RegsError(f) \in Errors
  BY DEF RegsError, Errors
<1> QED
  BY <1>1, <1>2, <1>3, RefuseConcludes, AnswerConcludes

LEMMA WriteFileConcludes ==
  ASSUME TypeOK, NEW f \in Frame, MBS_WriteFileRecord(f)
  PROVE  Concluded(f) /\ Tally
<1>1. stat \in Counts /\ Asked(f, {WR_FILE}) /\ Tally
  BY DEF TypeOK, Counts, MBS_WriteFileRecord
<1>2. SubSeq(f.data, 1, f.qty) \in Seq(Nat)
  BY <1>1, DataAssumption, PrefixType DEF Asked, WR_FILE
<1>3. \/ FileError(f) # NONE /\ Refuse(f, FileError(f))
      \/ Refuse(f, ILLEGAL_DATA_ADDR)
      \/ Answer(f, SubSeq(f.data, 1, f.qty))
  BY DEF MBS_WriteFileRecord
<1> QED
  BY <1>1, <1>2, <1>3, FileErrorType, RefuseConcludes, AnswerConcludes DEF Errors

LEMMA StepShape ==
  ASSUME TypeOK, NEW f \in Frame, MBS_RxTask(f)
  PROVE  (Concluded(f) /\ Tally) \/ MBS_StatInit(f)
<1>0. stat \in Counts
  BY DEF TypeOK, Counts
<1>1. CASE BadSum(f)
  BY <1>0, <1>1, TakenCounts DEF BadSum, Concluded, CountsFrame, OwnReply
<1>2. CASE NotForUs(f)
  BY <1>0, <1>2, TakenCounts DEF NotForUs, Concluded, CountsFrame, OwnReply
<1>3. CASE Unsupported(f)
  <2>1. Exception(f, ILLEGAL_FC) \in Reply
    BY ExceptionType DEF Errors
  <2>2. OwnReply(f, Exception(f, ILLEGAL_FC))
    BY <1>3, <2>1 DEF Unsupported, OwnReply, Exception
  <2>3. CountsFrame(Count(Taken, {"Except"}))
    BY <1>0, TakenCounts
  <2> QED
    BY <1>3, <2>1, <2>2, <2>3 DEF Unsupported, Concluded, CountsFrame
<1>4. CASE \/ Misfit(f, {RD_COIL, RD_DI, RD_HOLDING, RD_INPUT, WR_COIL, WR_REG, LOOPBACK},
                        f.num = 6)
           \/ Misfit(f, {WR_COILS}, f.num >= 8)
           \/ Misfit(f, {WR_REGS}, f.num >= 9)
  BY <1>4, MisfitConcludes
<1>5. CASE \/ MBS_ReadCoils(f) \/ MBS_ReadDiscreteInputs(f)
           \/ MBS_ReadHoldingRegs(f) \/ MBS_ReadInputRegs(f)
  BY <1>5, ReadConcludes, TypedTables DEF MBS_ReadCoils, MBS_ReadDiscreteInputs,
     MBS_ReadHoldingRegs, MBS_ReadInputRegs
<1> QED
  BY <1>1, <1>2, <1>3, <1>4, <1>5, ReadFileConcludes, LoopbackConcludes, WriteCoilConcludes,
     WriteRegConcludes, WriteCoilsConcludes, WriteRegsConcludes, WriteFileConcludes
     DEF MBS_RxTask

-----------------------------------------------------------------------------
(* The tables keep their type. *)

LEMMA Division ==
  ASSUME NEW n \in Nat, NEW c \in Nat \ {0}
  PROVE  /\ n \div c \in Nat
         /\ c * (n \div c) <= n
         /\ n < c * (n \div c) + c
OBVIOUS

LEMMA ProductMonotone ==
  ASSUME NEW c \in Nat, NEW m \in Nat, NEW n \in Nat, m <= n
  PROVE  c * m <= c * n
<1>1. c * (n - m) \in Nat
  OBVIOUS
<1>2. c * n = c * m + c * (n - m)
  OBVIOUS
<1> QED
  BY <1>1, <1>2

(* The bytes that hold qty coils have room for them, and the byte of each  *)
(* coil is one of them.                                                    *)
LEMMA BytesEnough ==
  ASSUME NEW qty \in Nat
  PROVE  /\ BytesOf(qty) \in Nat
         /\ CoilsPerByte * BytesOf(qty) \in Nat
         /\ CoilsPerByte * BytesOf(qty) >= qty
         /\ \A i \in Nat : i < qty => i \div CoilsPerByte < BytesOf(qty)
<1> DEFINE c == CoilsPerByte
           b == BytesOf(qty)
<1>1. c \in Nat \ {0}
  BY SlaveAssumption
<1>2. b \in Nat /\ qty + c - 1 < c * b + c
  <2>1. qty + c - 1 \in Nat
    BY <1>1
  <2> QED
    BY <1>1, <2>1, Division DEF BytesOf
<1> HIDE DEF b
<1>3. c * b >= qty
  <2>1. c * b \in Nat
    BY <1>1, <1>2
  <2> QED
    BY <1>1, <1>2, <2>1
<1>4. ASSUME NEW i \in Nat, i < qty
      PROVE  i \div c < b
  <2> DEFINE d == i \div c
  <2>1. d \in Nat /\ c * d <= i
    BY <1>1, Division
  <2> HIDE DEF d
  <2>2. SUFFICES ASSUME b <= d PROVE FALSE
    BY <1>2, <2>1 DEF d
  <2>3. c * b <= c * d
    BY <1>1, <1>2, <2>1, <2>2, ProductMonotone
  <2>4. c * b \in Nat /\ c * d \in Nat
    BY <1>1, <1>2, <2>1
  <2> QED
    BY <1>3, <1>4, <2>1, <2>3, <2>4
<1>5. c * b \in Nat
  BY <1>1, <1>2
<1> QED
  BY <1>2, <1>3, <1>4, <1>5 DEF b

(* A WR_COILS that is not refused brings the coils it counts. *)
LEMMA CoilsEnough ==
  ASSUME NEW f \in Frame, f.fc = 15, f.bytes = BytesOf(f.qty)
  PROVE  Len(f.data) >= f.qty
<1> DEFINE room == CoilsPerByte * f.bytes
<1>1. f.qty \in Nat
  BY FrameFields
<1>2. Len(f.data) \in Nat
  BY FrameFields
<1>3. /\ CoilsPerByte * BytesOf(f.qty) \in Nat
      /\ CoilsPerByte * BytesOf(f.qty) >= f.qty
  BY <1>1, BytesEnough
<1>4. room \in Nat /\ room >= f.qty
  BY <1>3
<1>5. Len(f.data) >= room
  BY DataAssumption
<1> HIDE DEF room
<1> QED
  BY <1>1, <1>2, <1>4, <1>5

LEMMA CoilsKept ==
  ASSUME NEW size \in Layout, TablesOK(size), NEW f \in Frame,
         MBS_WriteSingleCoil(f) \/ MBS_WriteMultipleCoils(f)
  PROVE  TablesOK(size)'
<1>0. coil \in [0 .. size.coil - 1 -> Coil]
  BY DEF TablesOK
<1>1. CASE MBS_WriteSingleCoil(f)
  <2>1. Bit(f.qty) \in Coil
    BY DEF Bit, Coil
  <2>2. coil' \in [0 .. size.coil - 1 -> Coil]
    BY <1>0, <1>1, <2>1 DEF MBS_WriteSingleCoil
  <2> QED
    BY <1>1, <2>2 DEF MBS_WriteSingleCoil, TablesOK
<1>2. CASE MBS_WriteMultipleCoils(f) /\ CoilsError(f) # NONE
  BY <1>0, <1>2 DEF MBS_WriteMultipleCoils, TablesOK
<1>3. CASE MBS_WriteMultipleCoils(f) /\ CoilsError(f) = NONE
  <2>1. f.data \in Seq(Coil) /\ Len(f.data) >= CoilsPerByte * f.bytes
    BY <1>3, DataAssumption DEF MBS_WriteMultipleCoils, Asked, WR_COILS
  <2>2. f.bytes = BytesOf(f.qty) /\ f.qty \in 1 .. 2000
    BY <1>3 DEF CoilsError, NONE, ILLEGAL_DATA_QTY, ILLEGAL_DATA_VAL
  <2>3. Len(f.data) >= f.qty
    BY <1>3, <2>2, CoilsEnough DEF MBS_WriteMultipleCoils, Asked, WR_COILS
  <2>4. \A a \in Span(f) : RxCoil(f, a - f.start) \in Coil
    <3> SUFFICES ASSUME NEW a \in Span(f) PROVE RxCoil(f, a - f.start) \in Coil
      OBVIOUS
    <3>1. a - f.start + 1 \in 1 .. Len(f.data)
      BY <2>1, <2>3, FrameFields DEF Span
    <3>2. f.data[a - f.start + 1] \in Coil
      BY <2>1, <3>1
    <3> QED
      BY <3>2 DEF RxCoil, Bit, Coil
  <2>5. coil' \in [0 .. size.coil - 1 -> Coil]
    BY <1>0, <1>3, <2>4 DEF MBS_WriteMultipleCoils
  <2> QED
    BY <1>3, <2>5 DEF MBS_WriteMultipleCoils, TablesOK
<1> QED
  BY <1>1, <1>2, <1>3

(* A WR_REGS that is not refused brings the registers it counts. *)
LEMMA RegsEnough ==
  ASSUME NEW f \in Frame, f.fc = 16, RegsError(f) = NONE
  PROVE  f.qty \in 1 .. Len(f.data)
<1>1. f.qty \in 1 .. 125 /\ f.bytes \in 2 * f.qty .. 3 * f.qty - 1
  BY DEF RegsError, NONE, ILLEGAL_DATA_QTY, ILLEGAL_DATA_VAL
<1>2. 2 * Len(f.data) + 1 >= f.bytes
  BY DataAssumption
<1>3. f.qty \in Nat /\ f.bytes \in Nat
  BY FrameFields
<1>4. Len(f.data) \in Nat
  BY FrameFields
<1> QED
  BY <1>1, <1>2, <1>3, <1>4

LEMMA RegsKept ==
  ASSUME NEW size \in Layout, TablesOK(size), NEW f \in Frame,
         MBS_WriteSingleHoldingReg(f) \/ MBS_WriteMultipleHoldingRegs(f)
  PROVE  TablesOK(size)'
<1>0. reg \in [0 .. size.reg - 1 -> Nat]
  BY DEF TablesOK
<1>1. CASE MBS_WriteSingleHoldingReg(f)
  <2>1. f.qty \in Nat
    BY FrameFields
  <2>2. reg' \in [0 .. size.reg - 1 -> Nat]
    BY <1>0, <1>1, <2>1 DEF MBS_WriteSingleHoldingReg
  <2> QED
    BY <1>1, <2>2 DEF MBS_WriteSingleHoldingReg, TablesOK
<1>2. CASE MBS_WriteMultipleHoldingRegs(f) /\ RegsError(f) # NONE
  BY <1>0, <1>2 DEF MBS_WriteMultipleHoldingRegs, TablesOK
<1>3. CASE MBS_WriteMultipleHoldingRegs(f) /\ RegsError(f) = NONE
  <2>1. f.qty \in 1 .. Len(f.data)
    BY <1>3, RegsEnough DEF MBS_WriteMultipleHoldingRegs, Asked, WR_REGS
  <2>2. f.data[f.qty] \in Nat
    BY <2>1, FrameFields
  <2>3. reg' \in [0 .. size.reg - 1 -> Nat]
    BY <1>0, <1>3, <2>2 DEF MBS_WriteMultipleHoldingRegs
  <2> QED
    BY <1>3, <2>3 DEF MBS_WriteMultipleHoldingRegs, TablesOK
<1> QED
  BY <1>1, <1>2, <1>3

LEMMA FileKept ==
  ASSUME NEW size \in Layout, TablesOK(size), NEW f \in Frame, MBS_WriteFileRecord(f)
  PROVE  TablesOK(size)'
<1>0. file \in [0 .. size.file - 1 -> Nat]
  BY DEF TablesOK
<1>1. CASE FileError(f) # NONE
  BY <1>0, <1>1 DEF MBS_WriteFileRecord, TablesOK
<1>2. CASE FileError(f) = NONE
  <2>1. Len(f.data) >= f.qty
    BY DataAssumption DEF MBS_WriteFileRecord, Asked, WR_FILE
  <2>2. \A r \in Prefix(f) : r - f.start + 1 \in 1 .. Len(f.data)
    BY <2>1, FrameFields DEF Prefix, Span
  <2>3. \A r \in Prefix(f) : f.data[r - f.start + 1] \in Nat
    BY <2>2, FrameFields
  <2>4. file' \in [0 .. size.file - 1 -> Nat]
    BY <1>0, <1>2, <2>3 DEF MBS_WriteFileRecord
  <2> QED
    BY <1>2, <2>4 DEF MBS_WriteFileRecord, TablesOK
<1> QED
  BY <1>1, <1>2

LEMMA ReadersKeep ==
  ASSUME NEW f, MBS_RxTask(f)
  PROVE  \/ UNCHANGED tables
         \/ MBS_WriteSingleCoil(f) \/ MBS_WriteMultipleCoils(f)
         \/ MBS_WriteSingleHoldingReg(f) \/ MBS_WriteMultipleHoldingRegs(f)
         \/ MBS_WriteFileRecord(f)
BY DEF MBS_RxTask, BadSum, NotForUs, Unsupported, Misfit, MBS_ReadCoils,
   MBS_ReadDiscreteInputs, MBS_ReadHoldingRegs, MBS_ReadInputRegs, Read, MBS_ReadFileRecord,
   MBS_Loopback, MBS_StatInit

LEMMA TablesKept ==
  ASSUME NEW size \in Layout, TablesOK(size), NEW f \in Frame, MBS_RxTask(f)
  PROVE  TablesOK(size)'
<1>1. CASE UNCHANGED tables
  BY <1>1 DEF tables, TablesOK
<1> QED
  BY <1>1, ReadersKeep, CoilsKept, RegsKept, FileKept

-----------------------------------------------------------------------------
(* Types, accounting and silence are one inductive invariant. *)

Inv == TypeOK /\ ReplyAccounting /\ OnlyOwnFramesAnswered

LEMMA StateType ==
  ASSUME TypeOK, NEW f \in Frame, Concluded(f), Tally
  PROVE  /\ stat' \in Counts
         /\ rx' = f
         /\ reply' \in Reply \cup {NoReply}
         /\ answered' \in 0 .. StatRange - 1
         /\ silentClear' = silentClear
BY CountType, WrappedType DEF TypeOK, Concluded, Conclude, Tally

LEMMA ClearType ==
  ASSUME TypeOK, NEW f \in Frame, MBS_StatInit(f)
  PROVE  /\ stat' \in Counts
         /\ rx' = f
         /\ reply' \in Reply \cup {NoReply}
         /\ answered' \in 0 .. StatRange - 1
         /\ silentClear' \in BOOLEAN
<1> DEFINE r == Unicast(f, Normal(f, <<f.start, f.qty>>))
<1>1. NoCounts \in Counts
  BY SlaveAssumption DEF NoCounts, Counts
<1>2. <<f.start, f.qty>> \in Seq(Nat) /\ f.addr \in Nat /\ f.fc \in Nat
  BY FrameFields, PairType
<1>3. r \in Reply \cup {NoReply}
  BY <1>2 DEF Unicast, Normal, Reply, NONE
<1>4. Conclude(f, NoCounts, r)
  BY DEF MBS_StatInit
<1> HIDE DEF r
<1>5. stat' \in Counts
  BY <1>1, <1>4, CountType DEF Conclude
<1> QED
  BY <1>3, <1>4, <1>5, SlaveAssumption DEF Conclude, MBS_StatInit

LEMMA TypeStep ==
  ASSUME TypeOK, NEW f \in Frame, MBS_RxTask(f)
  PROVE  TypeOK'
<1>1. PICK size \in Layout : TablesOK(size)
  BY DEF TypeOK, TablesOK
<1>2. TablesOK(size)'
  BY <1>1, TablesKept
<1>3. silentClear \in BOOLEAN
  BY DEF TypeOK
<1> QED
  BY <1>2, <1>3, StepShape, StateType, ClearType DEF TypeOK, TablesOK, Counts

(* One more received, and either one more answered or one more that was not. *)
LEMMA CountersMove ==
  ASSUME TypeOK, NEW f \in Frame, Concluded(f), Tally
  PROVE  /\ stat'["Msg"] = Wrapped(stat["Msg"])
         /\ \/ stat'["NoResp"] = Wrapped(stat["NoResp"]) /\ answered' = answered
            \/ stat'["NoResp"] = stat["NoResp"] /\ answered' = Wrapped(answered)
<1>1. PICK stats \in Counts, r \in Reply \cup {NoReply} :
        Conclude(f, stats, r) /\ CountsFrame(stats)
  BY DEF Concluded
<1>2. "Msg" \in Counter /\ "NoResp" \in Counter
  BY DEF Counter
<1> QED
  BY <1>1, <1>2, CountAt DEF Conclude, CountsFrame, Tally

(* received - accounted, with b for the broadcast that was lost. *)
Balanced(m, b, n, a) == m + b - (n + a) \in {- StatRange, 0, StatRange}

LEMMA BalanceKept ==
  ASSUME NEW m \in 0 .. StatRange - 1, NEW n \in 0 .. StatRange - 1,
         NEW a \in 0 .. StatRange - 1, NEW b \in {0, 1}, Balanced(m, b, n, a)
  PROVE  Balanced(Wrapped(m), b, Wrapped(n), a) /\ Balanced(Wrapped(m), b, n, Wrapped(a))
<1>1. StatRange \in Nat \ {0}
  BY SlaveAssumption
<1>2. \A x \in 0 .. StatRange - 1 :
        \/ x < StatRange - 1 /\ Wrapped(x) = x + 1
        \/ x = StatRange - 1 /\ Wrapped(x) = 0
  BY <1>1 DEF Wrapped
<1>3. \/ m + b = n + a - StatRange
      \/ m + b = n + a
      \/ m + b = n + a + StatRange
  BY <1>1 DEF Balanced
<1>4. Balanced(Wrapped(m), b, Wrapped(n), a)
  <2>1. \/ m < StatRange - 1 /\ Wrapped(m) = m + 1
        \/ m = StatRange - 1 /\ Wrapped(m) = 0
    BY <1>2
  <2>2. \/ n < StatRange - 1 /\ Wrapped(n) = n + 1
        \/ n = StatRange - 1 /\ Wrapped(n) = 0
    BY <1>2
  <2> QED
    BY <1>1, <1>3, <2>1, <2>2 DEF Balanced
<1>5. Balanced(Wrapped(m), b, n, Wrapped(a))
  <2>1. \/ m < StatRange - 1 /\ Wrapped(m) = m + 1
        \/ m = StatRange - 1 /\ Wrapped(m) = 0
    BY <1>2
  <2>2. \/ a < StatRange - 1 /\ Wrapped(a) = a + 1
        \/ a = StatRange - 1 /\ Wrapped(a) = 0
    BY <1>2
  <2> QED
    BY <1>1, <1>3, <2>1, <2>2 DEF Balanced
<1> QED
  BY <1>4, <1>5

LEMMA AccountStep ==
  ASSUME TypeOK, ReplyAccounting, NEW f \in Frame, MBS_RxTask(f)
  PROVE  ReplyAccounting'
<1> DEFINE Below == 0 .. StatRange - 1
<1>0. /\ stat["Msg"] \in Below /\ stat["NoResp"] \in Below /\ answered \in Below
      /\ silentClear \in BOOLEAN /\ StatRange \in Nat \ {0}
  BY SlaveAssumption DEF TypeOK, Counter
<1>1. CASE Concluded(f) /\ Tally
  <2>1. /\ stat'["Msg"] = Wrapped(stat["Msg"])
        /\ \/ stat'["NoResp"] = Wrapped(stat["NoResp"]) /\ answered' = answered
           \/ stat'["NoResp"] = stat["NoResp"] /\ answered' = Wrapped(answered)
        /\ silentClear' = silentClear
    BY <1>1, CountersMove DEF Tally
  <2> DEFINE lost == IF silentClear THEN 1 ELSE 0
  <2>2. lost \in {0, 1}
    OBVIOUS
  <2>3. Balanced(stat["Msg"], lost, stat["NoResp"], answered)
    <3>1. CASE silentClear
      BY <1>0, <3>1 DEF ReplyAccounting, Balanced
    <3>2. CASE ~ silentClear
      BY <1>0, <3>2 DEF ReplyAccounting, Balanced
    <3> QED
      BY <3>1, <3>2
  <2> HIDE DEF lost
  <2>4. /\ Balanced(Wrapped(stat["Msg"]), lost, Wrapped(stat["NoResp"]), answered)
        /\ Balanced(Wrapped(stat["Msg"]), lost, stat["NoResp"], Wrapped(answered))
    BY <1>0, <2>2, <2>3, BalanceKept
  <2>5. Balanced(stat'["Msg"], lost, stat'["NoResp"], answered')
    BY <2>1, <2>4, Zenon
  <2>6. stat'["Msg"] \in Below /\ stat'["NoResp"] \in Below /\ answered' \in Below
    BY <1>0, <2>1, WrappedType
  <2> QED
    <3>1. CASE silentClear
      <4>1. silentClear' /\ lost = 1
        BY <2>1, <3>1 DEF lost
      <4>2. Balanced(stat'["Msg"], 1, stat'["NoResp"], answered')
        BY <2>5, <4>1
      <4> QED
        BY <1>0, <2>6, <4>1, <4>2 DEF ReplyAccounting, Balanced
    <3>2. CASE ~ silentClear
      <4>1. ~ silentClear' /\ lost = 0
        BY <2>1, <3>2 DEF lost
      <4>2. Balanced(stat'["Msg"], 0, stat'["NoResp"], answered')
        BY <2>5, <4>1
      <4> QED
        BY <1>0, <2>6, <4>1, <4>2 DEF ReplyAccounting, Balanced
    <3> QED
      BY <3>1, <3>2
<1>2. CASE MBS_StatInit(f)
  <2>1. "Msg" \in Counter /\ "NoResp" \in Counter
    BY DEF Counter
  <2>2. NoCounts["Msg"] = 0 /\ NoCounts["NoResp"] = 0
    BY <2>1 DEF NoCounts
  <2>3. /\ answered' = 0
        /\ silentClear' = (reply' = NoReply)
        /\ stat' = IF reply' = NoReply THEN Count(NoCounts, {"NoResp"}) ELSE NoCounts
    BY <1>2 DEF MBS_StatInit, Conclude
  <2>4. /\ stat'["Msg"] = 0
        /\ stat'["NoResp"] = IF reply' = NoReply THEN Wrapped(0) ELSE 0
    BY <2>1, <2>2, <2>3, CountAt
  <2>5. CASE reply' = NoReply
    <3>1. silentClear' /\ stat'["NoResp"] = Wrapped(0)
      BY <2>3, <2>4, <2>5
    <3>2. (StatRange = 1 /\ Wrapped(0) = 0) \/ Wrapped(0) = 1
      BY <1>0 DEF Wrapped
    <3>3. (stat'["NoResp"] = 0 /\ StatRange = 1) \/ stat'["NoResp"] = 1
      BY <3>1, <3>2
    <3> QED
      BY <2>3, <2>4, <3>1, <3>3 DEF ReplyAccounting
  <2>6. CASE reply' # NoReply
    <3>1. ~ silentClear' /\ stat'["NoResp"] = 0
      BY <2>3, <2>4, <2>6
    <3> QED
      BY <1>0, <2>3, <2>4, <3>1 DEF ReplyAccounting
  <2> QED
    BY <2>5, <2>6
<1> QED
  BY <1>1, <1>2, StepShape

LEMMA SilenceStep ==
  ASSUME TypeOK, NEW f \in Frame, MBS_RxTask(f)
  PROVE  OnlyOwnFramesAnswered'
<1>1. CASE Concluded(f) /\ Tally
  BY <1>1 DEF Concluded, Conclude, OwnReply, OnlyOwnFramesAnswered, Sound
<1>2. CASE MBS_StatInit(f)
  BY <1>2 DEF MBS_StatInit, Conclude, Unicast, Asked, OnlyOwnFramesAnswered, Sound
<1> QED
  BY <1>1, <1>2, StepShape

LEMMA InitInv ==
  Init => Inv
<1> SUFFICES ASSUME Init PROVE Inv
  OBVIOUS
<1>1. PICK size \in Layout :
        /\ coil = [a \in 0 .. size.coil - 1 |-> 0]
        /\ reg  = [a \in 0 .. size.reg - 1 |-> 0]
        /\ file = [a \in 0 .. size.file - 1 |-> 0]
  BY DEF Init
<1>2. StatRange \in Nat \ {0}
  BY SlaveAssumption
<1>3. stat \in Counts /\ stat["Msg"] = 0 /\ stat["NoResp"] = 0
  BY <1>2 DEF Init, NoCounts, Counts, Counter
<1>4. /\ coil \in [0 .. size.coil - 1 -> Coil]
      /\ reg \in [0 .. size.reg - 1 -> Nat]
      /\ file \in [0 .. size.file - 1 -> Nat]
  BY <1>1 DEF Coil
<1>5. TypeOK
  <2>1. answered \in 0 .. StatRange - 1
    BY <1>2 DEF Init
  <2>2. /\ rx \in Frame \cup {NoFrame} /\ reply \in Reply \cup {NoReply}
        /\ silentClear \in BOOLEAN
    BY DEF Init
  <2>3. stat \in [Counter -> 0 .. StatRange - 1]
    BY <1>3 DEF Counts
  <2> QED
    BY <1>4, <2>1, <2>2, <2>3 DEF TypeOK
<1>6. ReplyAccounting
  BY <1>3 DEF ReplyAccounting, Init
<1>7. OnlyOwnFramesAnswered
  BY DEF OnlyOwnFramesAnswered, Init
<1> QED
  BY <1>5, <1>6, <1>7 DEF Inv

LEMMA NextInv ==
  Inv /\ [Next]_vars => Inv'
<1> SUFFICES ASSUME Inv, [Next]_vars PROVE Inv'
  OBVIOUS
<1>1. CASE Next
  <2>1. PICK f \in Frame : MBS_RxTask(f)
    BY <1>1 DEF Next
  <2> QED
    BY <2>1, TypeStep, AccountStep, SilenceStep DEF Inv
<1>2. CASE UNCHANGED vars
  BY <1>2 DEF Inv, vars, TypeOK, ReplyAccounting, OnlyOwnFramesAnswered
<1> QED
  BY <1>1, <1>2

LEMMA Invariance == Spec => []Inv
BY InitInv, NextInv, PTL DEF Spec

(* The tables keep the size the application gave them and hold coils and   *)
(* registers; the counters stay in their 16 bits; what is sent is a reply. *)
THEOREM TypeCorrect == Spec => []TypeOK
<1>1. Inv => TypeOK
  BY DEF Inv
<1> QED
  BY <1>1, Invariance, PTL

(* The statistics add up after any sequence of frames and any number of    *)
(* wraps, for counters of any width.                                       *)
THEOREM StatisticsAddUp == Spec => []ReplyAccounting
<1>1. Inv => ReplyAccounting
  BY DEF Inv
<1> QED
  BY <1>1, Invariance, PTL

(* Two slaves on a line do not both answer, but to the broadcast of a      *)
(* function they do not support.                                           *)
THEOREM OthersFramesUnanswered == Spec => []OnlyOwnFramesAnswered
<1>1. Inv => OnlyOwnFramesAnswered
  BY DEF Inv
<1> QED
  BY <1>1, Invariance, PTL

-----------------------------------------------------------------------------
(* What a reply tells. *)

LEMMA ToldSilent ==
  ASSUME NEW f, reply' = NoReply, UNCHANGED tables
  PROVE  ToldEffect(f)
BY DEF ToldEffect

LEMMA ToldRefused ==
  ASSUME NEW f \in Frame, NEW err \in Errors, Refuse(f, err), UNCHANGED tables
  PROVE  ToldEffect(f)
<1>1. err # NONE
  BY DEF Errors, NONE, ILLEGAL_FC, ILLEGAL_DATA_ADDR, ILLEGAL_DATA_QTY, ILLEGAL_DATA_VAL
<1>2. reply' = NoReply \/ reply'.err = err
  BY DEF Refuse, Conclude, Unicast, Exception
<1> QED
  BY <1>1, <1>2 DEF ToldEffect

LEMMA ToldAnswered ==
  ASSUME NEW f \in Frame, NEW body \in Seq(Nat), Answer(f, body), Fits(f),
         tables' = Wanted(f)
  PROVE  ToldEffect(f)
<1>1. Normal(f, body) \in Reply
  BY FrameFields DEF Normal, Reply, NONE
<1>2. Normal(f, body) # NoReply
  BY <1>1, SlaveAssumption
<1>3. \/ reply' = NoReply /\ f.addr = 0
      \/ reply' # NoReply /\ reply'.err = NONE
  BY <1>2 DEF Answer, Conclude, Unicast, Normal
<1> QED
  BY <1>3 DEF ToldEffect

Writers == {WR_COIL, WR_REG, WR_COILS, WR_REGS, WR_FILE}

LEMMA WantedOfReaders ==
  ASSUME NEW f, f.fc \notin Writers
  PROVE  Wanted(f) = tables /\ Fits(f)
BY DEF Wanted, Fits, tables, Writers

LEMMA ToldRead ==
  ASSUME TypeOK, NEW f \in Frame, NEW fc \in {RD_COIL, RD_DI, RD_HOLDING, RD_INPUT},
         NEW table, TypedTable(table), NEW most, Read(f, fc, table, most)
  PROVE  ToldEffect(f)
<1>1. UNCHANGED tables /\ f.fc \notin Writers
  BY DEF Read, Asked, Writers, RD_COIL, RD_DI, RD_HOLDING, RD_INPUT,
     WR_COIL, WR_REG, WR_COILS, WR_REGS, WR_FILE
<1>2. CASE ReadError(f, table, most) # NONE
  <2>1. ReadError(f, table, most) \in Errors
    BY <1>2 DEF ReadError, Errors
  <2> QED
    BY <1>1, <1>2, <2>1, ToldRefused DEF Read
<1>3. CASE ReadError(f, table, most) = NONE
  <2>1. Holds(table, Span(f))
    BY <1>3 DEF ReadError, ILLEGAL_DATA_QTY, ILLEGAL_DATA_ADDR, NONE
  <2>2. Slice(table, f) \in Seq(Nat)
    BY <2>1, SliceTyped
  <2> QED
    BY <1>1, <1>3, <2>2, WantedOfReaders, ToldAnswered DEF Read
<1> QED
  BY <1>2, <1>3

LEMMA ToldReadFile ==
  ASSUME TypeOK, NEW f \in Frame, MBS_ReadFileRecord(f)
  PROVE  ToldEffect(f)
<1>1. UNCHANGED tables /\ f.fc \notin Writers
  BY DEF MBS_ReadFileRecord, Asked, Writers, RD_FILE,
     WR_COIL, WR_REG, WR_COILS, WR_REGS, WR_FILE
<1>2. CASE FileError(f) # NONE
  BY <1>1, <1>2, FileErrorType, ToldRefused DEF MBS_ReadFileRecord
<1>3. CASE FileError(f) = NONE /\ ~ Holds(file, Span(f))
  BY <1>1, <1>3, ToldRefused DEF MBS_ReadFileRecord, Errors
<1>4. CASE FileError(f) = NONE /\ Holds(file, Span(f))
  <2>1. Slice(file, f) \in Seq(Nat)
    BY <1>4, SliceTyped, TypedTables
  <2> QED
    BY <1>1, <1>4, <2>1, WantedOfReaders, ToldAnswered DEF MBS_ReadFileRecord
<1> QED
  BY <1>2, <1>3, <1>4

LEMMA ToldLoopback ==
  ASSUME TypeOK, NEW f \in Frame, MBS_Loopback(f) \/ MBS_StatInit(f)
  PROVE  ToldEffect(f)
<1>1. UNCHANGED tables /\ f.fc \notin Writers
  BY DEF MBS_Loopback, MBS_StatInit, Asked, Writers, LOOPBACK,
     WR_COIL, WR_REG, WR_COILS, WR_REGS, WR_FILE
<1>2. Wanted(f) = tables /\ Fits(f)
  BY <1>1, WantedOfReaders
<1>3. f.start \in Nat /\ f.qty \in Nat
  BY FrameFields
<1>4. CASE MBS_StatInit(f)
  <2>1. <<f.start, f.qty>> \in Seq(Nat)
    BY <1>3, PairType
  <2>2. Normal(f, <<f.start, f.qty>>) \in Reply
    BY <2>1, FrameFields DEF Normal, Reply, NONE
  <2>3. \/ reply' = NoReply
        \/ reply' # NoReply /\ reply'.err = NONE
    BY <1>4, <2>2, SlaveAssumption DEF MBS_StatInit, Conclude, Unicast, Normal
  <2> QED
    BY <1>1, <1>2, <2>3 DEF ToldEffect
<1>5. CASE MBS_Loopback(f) /\ f.start = QUERY
  <2>1. Answer(f, <<f.start, f.qty>>)
    BY <1>5 DEF MBS_Loopback
  <2> QED
    BY <1>1, <1>2, <1>3, <2>1, PairType, ToldAnswered
<1>6. CASE MBS_Loopback(f) /\ f.start # QUERY /\ f.start - 10 \in DOMAIN DiagCounter
  <2>1. Answer(f, <<f.start, Taken[DiagCounter[f.start - 10]]>>)
    BY <1>6 DEF MBS_Loopback
  <2>2. DiagCounter[f.start - 10] \in Counter /\ stat \in Counts
    BY <1>6 DEF DiagCounter, Counter, TypeOK, Counts
  <2>3. Taken[DiagCounter[f.start - 10]] \in Nat
    BY <2>2, CountType, SlaveAssumption DEF Taken, Counts
  <2> QED
    BY <1>1, <1>2, <1>3, <2>1, <2>3, PairType, ToldAnswered
<1>7. CASE MBS_Loopback(f) /\ f.start # QUERY /\ f.start - 10 \notin DOMAIN DiagCounter
  <2>1. Refuse(f, ILLEGAL_DATA_VAL)
    BY <1>7 DEF MBS_Loopback
  <2> QED
    BY <1>1, <2>1, ToldRefused DEF Errors
<1> QED
  BY <1>4, <1>5, <1>6, <1>7

LEMMA OverlayOne ==
  ASSUME NEW table, DOMAIN table \subseteq Int, NEW start \in Nat, NEW v
  PROVE  Overlay(table, start, <<v>>) =
           [a \in DOMAIN table |-> IF a = start THEN v ELSE table[a]]
<1>1. DOMAIN <<v>> = {1} /\ <<v>>[1] = v
  OBVIOUS
<1>2. \A a \in Int : a - start + 1 \in {1} <=> a = start
  OBVIOUS
<1> QED
  BY <1>1, <1>2 DEF Overlay

LEMMA OverlaySpan ==
  ASSUME NEW table, DOMAIN table \subseteq Int, NEW f \in Frame,
         Len(f.data) >= f.qty
  PROVE  Overlay(table, f.start, SubSeq(f.data, 1, f.qty)) =
           [a \in DOMAIN table |-> IF a \in Span(f) THEN f.data[a - f.start + 1] ELSE table[a]]
<1> DEFINE values == SubSeq(f.data, 1, f.qty)
<1>1. f.start \in Nat /\ f.qty \in Nat
  BY FrameFields
<1>2. values \in Seq(Nat) /\ Len(values) = f.qty
      /\ \A i \in 1 .. f.qty : values[i] = f.data[i]
  BY PrefixType
<1>3. DOMAIN values = 1 .. f.qty
  BY <1>2, LenProperties
<1> HIDE DEF values
<1>4. ASSUME NEW a \in DOMAIN table
      PROVE  /\ a \in Span(f) <=> a - f.start + 1 \in DOMAIN values
             /\ a \in Span(f) => values[a - f.start + 1] = f.data[a - f.start + 1]
  <2>1. a \in Span(f) <=> a - f.start + 1 \in 1 .. f.qty
    BY <1>1 DEF Span
  <2> QED
    BY <1>2, <1>3, <2>1
<1> QED
  BY <1>4 DEF Overlay, values

LEMMA ToldWriteCoil ==
  ASSUME TypeOK, NEW f \in Frame, MBS_WriteSingleCoil(f)
  PROVE  ToldEffect(f)
<1>1. PICK size \in Layout : TablesOK(size)
  BY DEF TypeOK, TablesOK
<1>2. size.coil \in Nat /\ f.start \in Nat /\ <<f.start, f.qty>> \in Seq(Nat) /\ f.fc = WR_COIL
  BY SlaveAssumption, FrameFields, PairType DEF MBS_WriteSingleCoil, Asked
<1>3. CASE ~ Holds(coil, {f.start})
  <2>1. Refuse(f, ILLEGAL_DATA_ADDR) /\ UNCHANGED tables
    BY <1>3 DEF MBS_WriteSingleCoil, tables
  <2> QED
    BY <2>1, ToldRefused DEF Errors
<1>4. CASE Holds(coil, {f.start})
  <2>1. coil' = Overlay(coil, f.start, <<Bit(f.qty)>>)
    <3>1. coil \in [0 .. size.coil - 1 -> Coil]
      BY <1>1 DEF TablesOK
    <3>2. DOMAIN coil \subseteq Int
      BY <3>1
    <3>3. Overlay(coil, f.start, <<Bit(f.qty)>>) =
            [a \in DOMAIN coil |-> IF a = f.start THEN Bit(f.qty) ELSE coil[a]]
      BY <1>2, <3>2, OverlayOne
    <3>4. coil' = [coil EXCEPT ![f.start] = Bit(f.qty)]
      BY <1>4 DEF MBS_WriteSingleCoil
    <3> QED
      BY <3>1, <3>3, <3>4
  <2>2. tables' = Wanted(f) /\ Fits(f)
    BY <1>2, <1>4, <2>1 DEF MBS_WriteSingleCoil, tables, Wanted, Fits, Holds,
       WR_COIL, WR_REG, WR_COILS, WR_REGS, WR_FILE
  <2> QED
    BY <1>2, <1>4, <2>2, ToldAnswered DEF MBS_WriteSingleCoil
<1> QED
  BY <1>3, <1>4

LEMMA ToldWriteReg ==
  ASSUME TypeOK, NEW f \in Frame, MBS_WriteSingleHoldingReg(f)
  PROVE  ToldEffect(f)
<1>1. PICK size \in Layout : TablesOK(size)
  BY DEF TypeOK, TablesOK
<1>2. size.reg \in Nat /\ f.start \in Nat /\ <<f.start, f.qty>> \in Seq(Nat) /\ f.fc = WR_REG
  BY SlaveAssumption, FrameFields, PairType DEF MBS_WriteSingleHoldingReg, Asked
<1>3. CASE ~ Holds(reg, {f.start})
  <2>1. Refuse(f, ILLEGAL_DATA_ADDR) /\ UNCHANGED tables
    BY <1>3 DEF MBS_WriteSingleHoldingReg, tables
  <2> QED
    BY <2>1, ToldRefused DEF Errors
<1>4. CASE Holds(reg, {f.start})
  <2>1. reg' = Overlay(reg, f.start, <<f.qty>>)
    <3>1. reg \in [0 .. size.reg - 1 -> Nat]
      BY <1>1 DEF TablesOK
    <3>2. DOMAIN reg \subseteq Int
      BY <3>1
    <3>3. Overlay(reg, f.start, <<f.qty>>) =
            [a \in DOMAIN reg |-> IF a = f.start THEN f.qty ELSE reg[a]]
      BY <1>2, <3>2, OverlayOne
    <3>4. reg' = [reg EXCEPT ![f.start] = f.qty]
      BY <1>4 DEF MBS_WriteSingleHoldingReg
    <3> QED
      BY <3>1, <3>3, <3>4
  <2>2. tables' = Wanted(f) /\ Fits(f)
    BY <1>2, <1>4, <2>1 DEF MBS_WriteSingleHoldingReg, tables, Wanted, Fits, Holds,
       WR_COIL, WR_REG, WR_COILS, WR_REGS, WR_FILE
  <2> QED
    BY <1>2, <1>4, <2>2, ToldAnswered DEF MBS_WriteSingleHoldingReg
<1> QED
  BY <1>3, <1>4

LEMMA ToldWriteCoils ==
  ASSUME TypeOK, NEW f \in Frame, MBS_WriteMultipleCoils(f),
         BytesOf(f.qty) <= IxRange - 7
  PROVE  ToldEffect(f)
<1>1. PICK size \in Layout : TablesOK(size)
  BY DEF TypeOK, TablesOK
<1>2. /\ size.coil \in Nat /\ f.start \in Nat /\ f.qty \in Nat
      /\ <<f.start, f.qty>> \in Seq(Nat) /\ f.fc = WR_COILS
  BY SlaveAssumption, FrameFields, PairType DEF MBS_WriteMultipleCoils, Asked
<1>3. CASE CoilsError(f) # NONE
  <2>1. CoilsError(f) \in Errors
    BY <1>3 DEF CoilsError, Errors
  <2>2. Refuse(f, CoilsError(f)) /\ UNCHANGED tables
    BY <1>3 DEF MBS_WriteMultipleCoils, tables
  <2> QED
    BY <2>1, <2>2, ToldRefused
<1>4. CASE CoilsError(f) = NONE
  <2>1. f.bytes = BytesOf(f.qty) /\ Holds(coil, Span(f))
    BY <1>4 DEF CoilsError, NONE, ILLEGAL_DATA_QTY, ILLEGAL_DATA_VAL
  <2>2. Len(f.data) >= f.qty
    BY <1>2, <2>1, CoilsEnough DEF WR_COILS
  <2>3. ASSUME NEW a \in Span(f)
        PROVE  RxCoil(f, a - f.start) = f.data[a - f.start + 1]
    <3> DEFINE i == a - f.start
    <3>1. i \in Nat /\ i < f.qty
      BY <1>2 DEF Span
    <3>2. i \div CoilsPerByte < BytesOf(f.qty)
      BY <1>2, <3>1, BytesEnough
    <3>3. i \div CoilsPerByte \in Nat /\ BytesOf(f.qty) \in Nat /\ IxRange \in Nat
      BY <1>2, <3>1, BytesEnough, Division, SlaveAssumption
    <3>4. i \div CoilsPerByte + 7 < IxRange
      BY <3>2, <3>3
    <3> QED
      BY <3>4 DEF RxCoil
  <2>4. coil' = Overlay(coil, f.start, SubSeq(f.data, 1, f.qty))
    <3>1. coil' = [a \in DOMAIN coil |-> IF a \in Span(f) THEN f.data[a - f.start + 1]
                                         ELSE coil[a]]
      BY <1>4, <2>3 DEF MBS_WriteMultipleCoils
    <3>2. coil \in [0 .. size.coil - 1 -> Coil]
      BY <1>1 DEF TablesOK
    <3>3. Overlay(coil, f.start, SubSeq(f.data, 1, f.qty)) =
            [a \in DOMAIN coil |-> IF a \in Span(f) THEN f.data[a - f.start + 1] ELSE coil[a]]
      <4>1. DOMAIN coil \subseteq Int
        BY <3>2
      <4> QED
        BY <2>2, <4>1, OverlaySpan
    <3> QED
      BY <3>1, <3>3
  <2>5. tables' = Wanted(f) /\ Fits(f)
    BY <1>2, <1>4, <2>1, <2>4 DEF MBS_WriteMultipleCoils, tables, Wanted, Fits, Holds,
       WR_COIL, WR_REG, WR_COILS, WR_REGS, WR_FILE
  <2> QED
    BY <1>2, <1>4, <2>5, ToldAnswered DEF MBS_WriteMultipleCoils
<1> QED
  BY <1>3, <1>4

LEMMA ToldWriteRegs ==
  ASSUME TypeOK, NEW f \in Frame, MBS_WriteMultipleHoldingRegs(f),
         ~ (f.qty > 1 /\ (reply' # NoReply => reply'.err = NONE))
  PROVE  ToldEffect(f)
<1>1. PICK size \in Layout : TablesOK(size)
  BY DEF TypeOK, TablesOK
<1>2. /\ size.reg \in Nat /\ f.start \in Nat /\ f.qty \in Nat
      /\ <<f.start, f.qty>> \in Seq(Nat) /\ f.fc = WR_REGS
  BY SlaveAssumption, FrameFields, PairType DEF MBS_WriteMultipleHoldingRegs, Asked
<1>3. CASE RegsError(f) # NONE
  <2>1. RegsError(f) \in Errors
    BY <1>3 DEF RegsError, Errors
  <2>2. Refuse(f, RegsError(f)) /\ UNCHANGED tables
    BY <1>3 DEF MBS_WriteMultipleHoldingRegs, tables
  <2> QED
    BY <2>1, <2>2, ToldRefused
<1>4. CASE RegsError(f) = NONE
  <2>1. Answer(f, <<f.start, f.qty>>)
    BY <1>4 DEF MBS_WriteMultipleHoldingRegs
  <2>2. f.qty = 1
    <3>1. Normal(f, <<f.start, f.qty>>) \in Reply
      BY <1>2, FrameFields DEF Normal, Reply, NONE
    <3>2. reply' = NoReply \/ (reply' # NoReply /\ reply'.err = NONE)
      BY <2>1, <3>1, SlaveAssumption DEF Answer, Conclude, Unicast, Normal
    <3>3. f.qty \in 1 .. 125
      BY <1>4 DEF RegsError, NONE, ILLEGAL_DATA_QTY, ILLEGAL_DATA_VAL
    <3> QED
      BY <3>2, <3>3
  <2>3. Len(f.data) >= f.qty /\ Holds(reg, Span(f))
    <3>1. f.qty \in 1 .. Len(f.data)
      BY <1>2, <1>4, RegsEnough DEF WR_REGS
    <3>2. Holds(reg, Span(f))
      BY <1>4 DEF RegsError, NONE, ILLEGAL_DATA_QTY, ILLEGAL_DATA_VAL
    <3>3. Len(f.data) \in Nat
      BY FrameFields
    <3> QED
      BY <3>1, <3>2, <3>3
  <2>4. reg' = Overlay(reg, f.start, SubSeq(f.data, 1, f.qty))
    <3>1. reg \in [0 .. size.reg - 1 -> Nat]
      BY <1>1 DEF TablesOK
    <3>2. DOMAIN reg \subseteq Int
      BY <3>1
    <3>3. Overlay(reg, f.start, SubSeq(f.data, 1, f.qty)) =
            [a \in DOMAIN reg |-> IF a \in Span(f) THEN f.data[a - f.start + 1] ELSE reg[a]]
      BY <2>3, <3>2, OverlaySpan
    <3>4. \A a \in DOMAIN reg : /\ a \in Span(f) <=> a = f.start
                                /\ a = f.start => a - f.start + 1 = 1
      BY <1>2, <2>2, <3>2 DEF Span
    <3>5. reg' = [reg EXCEPT ![f.start] = f.data[1]]
      BY <1>4, <2>2 DEF MBS_WriteMultipleHoldingRegs
    <3>6. Overlay(reg, f.start, SubSeq(f.data, 1, f.qty)) =
            [a \in DOMAIN reg |-> IF a = f.start THEN f.data[1] ELSE reg[a]]
      <4>1. \A a \in DOMAIN reg :
              (IF a \in Span(f) THEN f.data[a - f.start + 1] ELSE reg[a]) =
              (IF a = f.start THEN f.data[1] ELSE reg[a])
        <5> TAKE a \in DOMAIN reg
        <5>1. CASE a = f.start
          <6>1. a \in Span(f) /\ a - f.start + 1 = 1
            BY <3>4, <5>1
          <6> QED
            BY <5>1, <6>1
        <5>2. CASE a # f.start
          BY <3>4, <5>2
        <5> QED
          BY <5>1, <5>2
      <4> QED
        BY <3>3, <4>1
    <3>7. reg' = [a \in DOMAIN reg |-> IF a = f.start THEN f.data[1] ELSE reg[a]]
      BY <3>1, <3>5
    <3> QED
      BY <3>6, <3>7
  <2>5. tables' = Wanted(f) /\ Fits(f)
    BY <1>2, <1>4, <2>3, <2>4 DEF MBS_WriteMultipleHoldingRegs, tables, Wanted, Fits, Holds,
       WR_COIL, WR_REG, WR_COILS, WR_REGS, WR_FILE
  <2> QED
    BY <1>2, <2>1, <2>5, ToldAnswered
<1> QED
  BY <1>3, <1>4

(* The steps that ReplyTellsEffect leaves out. *)
LeftOut(f) ==
  \/ f.fc = WR_FILE
  \/ (f.fc = WR_REGS /\ f.qty > 1 /\ (reply' # NoReply => reply'.err = NONE))
  \/ (f.fc = WR_COILS /\ BytesOf(f.qty) > IxRange - 7)

LEMMA ToldStep ==
  ASSUME TypeOK, NEW f \in Frame, MBS_RxTask(f)
  PROVE  LeftOut(f) \/ ToldEffect(f)
<1>1. CASE BadSum(f) \/ NotForUs(f)
  BY <1>1, ToldSilent DEF BadSum, NotForUs, Conclude
<1>2. CASE Unsupported(f)
  BY <1>2, ExceptionType, SlaveAssumption DEF Unsupported, Errors, Conclude, Exception, ToldEffect, ILLEGAL_FC, NONE
<1>3. CASE \/ Misfit(f, {RD_COIL, RD_DI, RD_HOLDING, RD_INPUT, WR_COIL, WR_REG, LOOPBACK},
                        f.num = 6)
           \/ Misfit(f, {WR_COILS}, f.num >= 8)
           \/ Misfit(f, {WR_REGS}, f.num >= 9)
  BY <1>3, ToldSilent DEF Misfit, Ignore, Conclude
<1>4. CASE \/ MBS_ReadCoils(f) \/ MBS_ReadDiscreteInputs(f)
           \/ MBS_ReadHoldingRegs(f) \/ MBS_ReadInputRegs(f)
  BY <1>4, ToldRead, TypedTables DEF MBS_ReadCoils, MBS_ReadDiscreteInputs,
     MBS_ReadHoldingRegs, MBS_ReadInputRegs
<1>5. CASE MBS_WriteMultipleCoils(f)
  <2>1. f.fc = WR_COILS /\ f.qty \in Nat
    BY <1>5, FrameFields DEF MBS_WriteMultipleCoils, Asked
  <2>2. BytesOf(f.qty) \in Nat /\ IxRange \in Nat
    BY <2>1, BytesEnough, SlaveAssumption
  <2> QED
    BY <1>5, <2>1, <2>2, ToldWriteCoils DEF LeftOut
<1>6. CASE MBS_WriteMultipleHoldingRegs(f)
  <2>1. f.fc = WR_REGS
    BY <1>6 DEF MBS_WriteMultipleHoldingRegs, Asked
  <2> QED
    BY <1>6, <2>1, ToldWriteRegs DEF LeftOut
<1>7. CASE MBS_WriteFileRecord(f)
  BY <1>7 DEF MBS_WriteFileRecord, Asked, LeftOut
<1> QED
  BY <1>1, <1>2, <1>3, <1>4, <1>5, <1>6, <1>7, ToldReadFile, ToldLoopback, ToldWriteCoil,
     ToldWriteReg DEF MBS_RxTask

LEMMA ReceivedIs ==
  ASSUME NEW f \in Frame, MBS_RxTask(f), TypeOK
  PROVE  rx' = f
BY StepShape, StateType, ClearType

(* But for what RegistersWritten and FileWriteIsPrefix are about, and for  *)
(* more coils than data_ix can count, a reply and the tables agree, for    *)
(* every request and tables of every size.                                 *)
THEOREM RepliesTell == Spec => ReplyTellsEffect
<1>1. Inv /\ [Next]_vars =>
        [\/ rx'.fc = WR_FILE
         \/ (rx'.fc = WR_REGS /\ rx'.qty > 1 /\ (reply' # NoReply => reply'.err = NONE))
         \/ (rx'.fc = WR_COILS /\ BytesOf(rx'.qty) > IxRange - 7)
         \/ ToldEffect(rx')]_vars
  BY ToldStep, ReceivedIs DEF Inv, Next, LeftOut
<1> QED
  BY <1>1, Invariance, PTL DEF Spec, ReplyTellsEffect

(* The records written before the refused one. *)
LEMMA PrefixIsInterval ==
  ASSUME NEW size \in Layout, TablesOK(size), NEW f \in Frame
  PROVE  \E n \in 0 .. f.qty : /\ Prefix(f) = f.start .. f.start + n - 1
                               /\ Prefix(f) = Span(f) => n = f.qty
<1>1. size.file \in Nat /\ f.start \in Nat /\ f.qty \in Nat
  BY SlaveAssumption, FrameFields
<1>2. DOMAIN file = 0 .. size.file - 1
  BY DEF TablesOK
<1>3. CASE size.file <= f.start
  <2>1. Prefix(f) = {}
    BY <1>1, <1>2, <1>3 DEF Prefix, Span, Holds
  <2>2. f.start .. f.start + 0 - 1 = {}
    BY <1>1
  <2>3. Prefix(f) = Span(f) => f.qty = 0
    BY <1>1, <2>1 DEF Span
  <2> QED
    BY <1>1, <2>1, <2>2, <2>3
<1>4. CASE f.start < size.file /\ f.start + f.qty <= size.file
  <2>1. Prefix(f) = f.start .. f.start + f.qty - 1
    BY <1>1, <1>2, <1>4 DEF Prefix, Span, Holds
  <2> QED
    BY <1>1, <2>1
<1>5. CASE f.start < size.file /\ size.file < f.start + f.qty
  <2> DEFINE n == size.file - f.start
  <2>1. n \in 0 .. f.qty
    BY <1>1, <1>5
  <2>2. Prefix(f) = f.start .. f.start + n - 1
    BY <1>1, <1>2, <1>5 DEF Prefix, Span, Holds
  <2>3. Prefix(f) # Span(f)
    <3>1. f.start + f.qty - 1 \in Span(f)
      BY <1>1, <1>5 DEF Span
    <3>2. f.start + f.qty - 1 \notin f.start .. f.start + n - 1
      BY <1>1, <1>5
    <3> QED
      BY <2>2, <3>1, <3>2
  <2> QED
    BY <2>1, <2>2, <2>3
<1> QED
  BY <1>1, <1>3, <1>4, <1>5

(* The file after n records of f. *)
Written(f, n) ==
  [r \in DOMAIN file |-> IF r \in f.start .. f.start + n - 1 THEN f.data[r - f.start + 1]
                         ELSE file[r]]

LEMMA WrittenIsOverlay ==
  ASSUME NEW f \in Frame, DOMAIN file \subseteq Int, NEW n \in Nat, n <= Len(f.data)
  PROVE  Written(f, n) = Overlay(file, f.start, SubSeq(f.data, 1, n))
<1> DEFINE values == SubSeq(f.data, 1, n)
<1>1. f.start \in Nat /\ f.data \in Seq(Nat)
  BY FrameFields
<1>2. Len(f.data) \in Nat
  BY FrameFields
<1>3. \A i \in 1 .. n : f.data[i] \in Nat
  BY <1>1, <1>2
<1>4. values \in Seq(Nat) /\ Len(values) = n /\ \A i \in 1 .. n : values[i] = f.data[i]
  BY <1>3, SubSeqProperties
<1>5. DOMAIN values = 1 .. n
  BY <1>4, LenProperties
<1> HIDE DEF values
<1>6. ASSUME NEW r \in DOMAIN file
      PROVE  /\ r \in f.start .. f.start + n - 1 <=> r - f.start + 1 \in DOMAIN values
             /\ r - f.start + 1 \in DOMAIN values =>
                  values[r - f.start + 1] = f.data[r - f.start + 1]
  BY <1>1, <1>4, <1>5
<1> QED
  BY <1>6 DEF Written, Overlay, values

(* What FileWriteIsPrefix says of the file. *)
PrefixWritten(f) ==
  \E n \in 0 .. f.qty :
    /\ file' = Overlay(file, f.start, SubSeq(f.data, 1, n))
    /\ (reply' # NoReply /\ reply'.err = NONE) => (n = f.qty /\ Fits(f))

LEMMA NothingWritten ==
  ASSUME TypeOK, NEW f \in Frame, UNCHANGED file,
         reply' = NoReply \/ reply'.err # NONE
  PROVE  PrefixWritten(f)
<1>1. PICK size \in Layout : TablesOK(size)
  BY DEF TypeOK, TablesOK
<1>2. file \in [0 .. size.file - 1 -> Nat] /\ size.file \in Nat
  BY <1>1, SlaveAssumption DEF TablesOK
<1>3. DOMAIN file \subseteq Int
  BY <1>2
<1>4. f.start \in Nat /\ f.qty \in Nat
  BY FrameFields
<1>5. 0 <= Len(f.data)
  BY FrameFields
<1>6. Written(f, 0) = Overlay(file, f.start, SubSeq(f.data, 1, 0))
  BY <1>3, <1>5, WrittenIsOverlay
<1>7. Written(f, 0) = file
  BY <1>2, <1>4 DEF Written
<1> QED
  BY <1>4, <1>6, <1>7 DEF PrefixWritten

LEMMA RecordsWritten ==
  ASSUME TypeOK, NEW f \in Frame, MBS_WriteFileRecord(f), FileError(f) = NONE
  PROVE  PrefixWritten(f)
<1>1. PICK size \in Layout : TablesOK(size)
  BY DEF TypeOK, TablesOK
<1>2. PICK n \in 0 .. f.qty : /\ Prefix(f) = f.start .. f.start + n - 1
                              /\ Prefix(f) = Span(f) => n = f.qty
  BY <1>1, PrefixIsInterval
<1>3. file' = Written(f, n)
  BY <1>2 DEF MBS_WriteFileRecord, Written
<1>4. file' = Overlay(file, f.start, SubSeq(f.data, 1, n))
  <2>1. file \in [0 .. size.file - 1 -> Nat]
    BY <1>1 DEF TablesOK
  <2>2. DOMAIN file \subseteq Int
    BY <2>1
  <2>3. f.fc = 21
    BY DEF MBS_WriteFileRecord, Asked, WR_FILE
  <2>4. f.qty \in Nat
    BY FrameFields
  <2>5. Len(f.data) \in Nat
    BY FrameFields
  <2>6. n \in Nat /\ n <= Len(f.data)
    BY <1>2, <2>3, <2>4, <2>5, DataAssumption
  <2> QED
    BY <1>3, <2>2, <2>6, WrittenIsOverlay
<1>5. CASE Prefix(f) # Span(f)
  <2>1. Refuse(f, ILLEGAL_DATA_ADDR)
    BY <1>5 DEF MBS_WriteFileRecord
  <2>2. reply' = NoReply \/ reply'.err = ILLEGAL_DATA_ADDR
    BY <2>1 DEF Refuse, Conclude, Unicast, Exception
  <2> QED
    BY <1>2, <1>4, <2>2 DEF PrefixWritten, ILLEGAL_DATA_ADDR, NONE
<1>6. CASE Prefix(f) = Span(f)
  <2>1. Span(f) \subseteq DOMAIN file
    BY <1>6 DEF Prefix, Holds, Span
  <2>2. Fits(f)
    BY <2>1 DEF MBS_WriteFileRecord, Asked, Fits, WR_COIL, WR_REG, WR_COILS, WR_REGS, WR_FILE
  <2> QED
    BY <1>2, <1>4, <1>6, <2>2 DEF PrefixWritten
<1> QED
  BY <1>5, <1>6

LEMMA FileStep ==
  ASSUME TypeOK, NEW f \in Frame, MBS_RxTask(f), f.fc = WR_FILE
  PROVE  UNCHANGED <<coil, reg>> /\ PrefixWritten(f)
<1>1. CASE MBS_WriteFileRecord(f)
  <2>1. UNCHANGED <<coil, reg>>
    BY <1>1 DEF MBS_WriteFileRecord
  <2>2. CASE FileError(f) # NONE
    <3>1. UNCHANGED file /\ Refuse(f, FileError(f))
      BY <1>1, <2>2 DEF MBS_WriteFileRecord
    <3>2. reply' = NoReply \/ reply'.err = FileError(f)
      BY <3>1 DEF Refuse, Conclude, Unicast, Exception
    <3> QED
      BY <2>1, <2>2, <3>1, <3>2, NothingWritten
  <2> QED
    BY <1>1, <2>1, <2>2, RecordsWritten
<1>2. CASE BadSum(f) \/ NotForUs(f)
  BY <1>2, NothingWritten DEF BadSum, NotForUs, Conclude, tables
<1>3. f.fc \in Supported
  BY DEF Supported
<1> QED
  BY <1>1, <1>2, <1>3 DEF MBS_RxTask, Unsupported, Misfit, Asked, MBS_ReadCoils,
     MBS_ReadDiscreteInputs, MBS_ReadHoldingRegs, MBS_ReadInputRegs, Read,
     MBS_ReadFileRecord, MBS_Loopback, MBS_StatInit, MBS_WriteSingleCoil,
     MBS_WriteSingleHoldingReg, MBS_WriteMultipleCoils, MBS_WriteMultipleHoldingRegs,
     RD_COIL, RD_DI, RD_HOLDING, RD_INPUT, WR_COIL, WR_REG, LOOPBACK, WR_COILS, WR_REGS,
     RD_FILE, WR_FILE

(* A refused WR_FILE has written the records before the refused one and    *)
(* no other, wherever the file ends.                                       *)
THEOREM FileWritesArePrefixes == Spec => FileWriteIsPrefix
<1>1. Inv /\ [Next]_vars =>
        [rx'.fc = WR_FILE =>
           /\ UNCHANGED <<coil, reg>>
           /\ \E n \in 0 .. rx'.qty :
                /\ file' = Overlay(file, rx'.start, SubSeq(rx'.data, 1, n))
                /\ (reply' # NoReply /\ reply'.err = NONE) => (n = rx'.qty /\ Fits(rx'))]_vars
  BY FileStep, ReceivedIs DEF Inv, Next, PrefixWritten
<1> QED
  BY <1>1, Invariance, PTL DEF Spec, FileWriteIsPrefix
-----------------------------------------------------------------------------
(* What a master can make of a reply to a function that it knows. *)

MasterFunctions == {RD_COIL, RD_DI, RD_HOLDING, RD_INPUT, WR_COIL, WR_REG, LOOPBACK,
                    WR_COILS, WR_REGS}

(* The body of a normal reply, as far as its form goes. *)
Formed(f, body) ==
  /\ f.fc \in {RD_COIL, RD_DI} => f.qty > 0
  /\ f.fc \in {RD_COIL, RD_DI, RD_HOLDING, RD_INPUT} => Len(body) = f.qty
  /\ f.fc \in {WR_COIL, WR_REG, WR_COILS, WR_REGS} => body[1] = f.start /\ body[2] = f.qty
  /\ f.fc = LOOPBACK =>
       /\ body[1] = f.start /\ f.start \in {QUERY} \cup 10 .. 15
       /\ f.start \in {QUERY, CLR_CTR} => body[2] = f.qty

ReplyTo(f, r) ==
  /\ r.addr = f.addr
  /\ \/ r.err = NONE /\ r.fc = f.fc /\ Formed(f, r.body)
     \/ r.err # NONE /\ r.fc = f.fc + 128

(* The body of a normal reply and the tables, now. *)
Holding(f, body) ==
  /\ f.fc = RD_HOLDING => body = Slice(reg, f)
  /\ f.fc = RD_COIL => body = Slice(coil, f)
  /\ f.fc = WR_REG => reg[f.start] = f.qty
  /\ f.fc = WR_COIL => coil[f.start] = Bit(f.qty)
  /\ f.fc = WR_COILS /\ BytesOf(f.qty) <= IxRange - 7 =>
       Slice(coil, f) = SubSeq(f.data, 1, f.qty)

Told(f, r) == r.err = NONE => Holding(f, r.body)

Answers(f) == reply' # NoReply => ReplyTo(f, reply') /\ Told(f, reply)'

LEMMA SilenceAnswers ==
  ASSUME NEW f, NEW stats, Conclude(f, stats, NoReply)
  PROVE  Answers(f)
BY DEF Answers, Conclude

LEMMA RefusalAnswers ==
  ASSUME NEW f \in Frame, NEW err \in Errors, Refuse(f, err)
  PROVE  Answers(f)
<1>1. err # NONE
  BY DEF Errors, NONE, ILLEGAL_FC, ILLEGAL_DATA_ADDR, ILLEGAL_DATA_QTY, ILLEGAL_DATA_VAL
<1>2. reply' = NoReply \/ reply' = Exception(f, err)
  BY DEF Refuse, Conclude, Unicast
<1>3. /\ Exception(f, err).addr = f.addr /\ Exception(f, err).err = err
      /\ Exception(f, err).fc = f.fc + 128
  BY DEF Exception
<1> QED
  BY <1>1, <1>2, <1>3 DEF Answers, ReplyTo, Told

LEMMA NormalAnswers ==
  ASSUME NEW f \in Frame, NEW stats, NEW body,
         Conclude(f, stats, Unicast(f, Normal(f, body))),
         Formed(f, body), Holding(f, body)'
  PROVE  Answers(f)
<1>1. reply' = NoReply \/ reply' = Normal(f, body)
  BY DEF Conclude, Unicast
<1>2. /\ Normal(f, body).addr = f.addr /\ Normal(f, body).err = NONE
      /\ Normal(f, body).fc = f.fc /\ Normal(f, body).body = body
  BY DEF Normal
<1> QED
  BY <1>1, <1>2 DEF Answers, ReplyTo, Told

LEMMA ReadAnswers ==
  ASSUME NEW f \in Frame, NEW fc, NEW table, NEW most, Read(f, fc, table, most),
         \/ fc = RD_COIL /\ table = coil
         \/ fc = RD_HOLDING /\ table = reg
         \/ fc \in {RD_DI, RD_INPUT}
  PROVE  Answers(f)
<1> USE DEF RD_COIL, RD_DI, RD_HOLDING, RD_INPUT, WR_COIL, WR_REG, LOOPBACK, WR_COILS, WR_REGS
<1>1. f.fc = fc /\ UNCHANGED tables
  BY DEF Read, Asked
<1>2. CASE ReadError(f, table, most) # NONE
  <2>1. ReadError(f, table, most) \in Errors
    BY <1>2 DEF ReadError, Errors
  <2> QED
    BY <1>2, <2>1, RefusalAnswers DEF Read
<1>3. CASE ReadError(f, table, most) = NONE
  <2>1. f.qty \in 1 .. most /\ f.qty \in Nat
    BY <1>3, FrameFields DEF ReadError, NONE, ILLEGAL_DATA_QTY
  <2>2. Len(Slice(table, f)) = f.qty
    BY <2>1 DEF Slice
  <2>3. Formed(f, Slice(table, f))
    BY <1>1, <2>1, <2>2 DEF Formed
  <2>4. Holding(f, Slice(table, f))'
    BY <1>1 DEF Holding, tables, Slice
  <2> QED
    BY <1>3, <2>3, <2>4, NormalAnswers DEF Read, Answer
<1> QED
  BY <1>2, <1>3

LEMMA LoopbackAnswers ==
  ASSUME NEW f \in Frame, MBS_Loopback(f) \/ MBS_StatInit(f)
  PROVE  Answers(f)
<1> USE DEF RD_COIL, RD_DI, RD_HOLDING, RD_INPUT, WR_COIL, WR_REG, LOOPBACK, WR_COILS, WR_REGS
<1>1. f.fc = LOOPBACK
  BY DEF MBS_Loopback, MBS_StatInit, Asked
<1>2. \A v : Holding(f, <<f.start, v>>)'
  BY <1>1 DEF Holding
<1>3. ASSUME NEW v, f.start \in {QUERY} \cup 10 .. 15,
             f.start \in {QUERY, CLR_CTR} => v = f.qty
      PROVE  Formed(f, <<f.start, v>>)
  BY <1>1, <1>3 DEF Formed
<1>4. CASE MBS_StatInit(f)
  <2>1. Formed(f, <<f.start, f.qty>>)
    BY <1>3, <1>4 DEF MBS_StatInit, CLR_CTR
  <2> QED
    BY <1>2, <1>4, <2>1, NormalAnswers DEF MBS_StatInit
<1>5. CASE MBS_Loopback(f)
  <2>1. CASE f.start = QUERY
    <3>1. Formed(f, <<f.start, f.qty>>)
      BY <1>3, <2>1
    <3> QED
      BY <1>2, <1>5, <2>1, <3>1, NormalAnswers DEF MBS_Loopback, Answer
  <2>2. CASE f.start # QUERY /\ f.start - 10 \in DOMAIN DiagCounter
    <3> DEFINE v == Taken[DiagCounter[f.start - 10]]
    <3>1. f.start \in 11 .. 15
      BY <2>2, FrameFields DEF DiagCounter
    <3>2. Formed(f, <<f.start, v>>)
      BY <1>3, <3>1 DEF QUERY, CLR_CTR
    <3>3. Answer(f, <<f.start, v>>)
      BY <1>5, <2>2 DEF MBS_Loopback
    <3> QED
      BY <1>2, <3>2, <3>3, NormalAnswers DEF Answer
  <2>3. CASE f.start # QUERY /\ f.start - 10 \notin DOMAIN DiagCounter
    <3>1. Refuse(f, ILLEGAL_DATA_VAL)
      BY <1>5, <2>3 DEF MBS_Loopback
    <3> QED
      BY <3>1, RefusalAnswers DEF Errors
  <2> QED
    BY <2>1, <2>2, <2>3
<1> QED
  BY <1>4, <1>5

LEMMA WriteOneAnswers ==
  ASSUME TypeOK, NEW f \in Frame, MBS_WriteSingleCoil(f) \/ MBS_WriteSingleHoldingReg(f)
  PROVE  Answers(f)
<1> USE DEF RD_COIL, RD_DI, RD_HOLDING, RD_INPUT, WR_COIL, WR_REG, LOOPBACK, WR_COILS, WR_REGS
<1>1. Formed(f, <<f.start, f.qty>>)
  BY DEF Formed, MBS_WriteSingleCoil, MBS_WriteSingleHoldingReg, Asked
<1>2. PICK size \in Layout : TablesOK(size)
  BY DEF TypeOK, TablesOK
<1>3. CASE MBS_WriteSingleCoil(f)
  <2>1. CASE ~ Holds(coil, {f.start})
    <3>1. Refuse(f, ILLEGAL_DATA_ADDR)
      BY <1>3, <2>1 DEF MBS_WriteSingleCoil
    <3> QED
      BY <3>1, RefusalAnswers DEF Errors
  <2>2. CASE Holds(coil, {f.start})
    <3>1. /\ coil' = [coil EXCEPT ![f.start] = Bit(f.qty)] /\ f.fc = WR_COIL
          /\ Answer(f, <<f.start, f.qty>>)
      BY <1>3, <2>2 DEF MBS_WriteSingleCoil, Asked
    <3>2. coil'[f.start] = Bit(f.qty)
      BY <1>2, <2>2, <3>1 DEF TablesOK, Holds
    <3>3. Holding(f, <<f.start, f.qty>>)'
      BY <3>1, <3>2 DEF Holding
    <3> QED
      BY <1>1, <3>1, <3>3, NormalAnswers DEF Answer
  <2> QED
    BY <2>1, <2>2
<1>4. CASE MBS_WriteSingleHoldingReg(f)
  <2>1. CASE ~ Holds(reg, {f.start})
    <3>1. Refuse(f, ILLEGAL_DATA_ADDR)
      BY <1>4, <2>1 DEF MBS_WriteSingleHoldingReg
    <3> QED
      BY <3>1, RefusalAnswers DEF Errors
  <2>2. CASE Holds(reg, {f.start})
    <3>1. /\ reg' = [reg EXCEPT ![f.start] = f.qty] /\ f.fc = WR_REG
          /\ Answer(f, <<f.start, f.qty>>)
      BY <1>4, <2>2 DEF MBS_WriteSingleHoldingReg, Asked
    <3>2. reg'[f.start] = f.qty
      BY <1>2, <2>2, <3>1 DEF TablesOK, Holds
    <3>3. Holding(f, <<f.start, f.qty>>)'
      BY <3>1, <3>2 DEF Holding
    <3> QED
      BY <1>1, <3>1, <3>3, NormalAnswers DEF Answer
  <2> QED
    BY <2>1, <2>2
<1> QED
  BY <1>3, <1>4

(* The coils that data_ix can count are those of the request. *)
LEMMA WriteCoilsAnswers ==
  ASSUME TypeOK, NEW f \in Frame, MBS_WriteMultipleCoils(f)
  PROVE  Answers(f)
<1> USE DEF RD_COIL, RD_DI, RD_HOLDING, RD_INPUT, WR_COIL, WR_REG, LOOPBACK, WR_COILS, WR_REGS
<1>1. Formed(f, <<f.start, f.qty>>)
  BY DEF Formed, MBS_WriteMultipleCoils, Asked
<1>2. PICK size \in Layout : TablesOK(size)
  BY DEF TypeOK, TablesOK
<1>3. CASE CoilsError(f) # NONE
  <2>1. CoilsError(f) \in Errors
    BY <1>3 DEF CoilsError, Errors
  <2>2. Refuse(f, CoilsError(f))
    BY <1>3 DEF MBS_WriteMultipleCoils
  <2> QED
    BY <2>1, <2>2, RefusalAnswers
<1>4. CASE CoilsError(f) = NONE
  <2>1. /\ Holds(coil, Span(f)) /\ f.bytes = BytesOf(f.qty) /\ f.fc = WR_COILS
        /\ coil' = [a \in DOMAIN coil |-> IF a \in Span(f) THEN RxCoil(f, a - f.start)
                                                            ELSE coil[a]]
        /\ Answer(f, <<f.start, f.qty>>)
    BY <1>4 DEF CoilsError, NONE, ILLEGAL_DATA_QTY, ILLEGAL_DATA_VAL,
                MBS_WriteMultipleCoils, Asked
  <2>2. f.start \in Nat /\ f.qty \in Nat /\ f.data \in Seq(Nat) /\ IxRange \in Nat
    BY FrameFields, SlaveAssumption
  <2>3. Len(f.data) >= f.qty /\ Len(f.data) \in Nat
    BY <2>1, CoilsEnough, FrameFields
  <2>4. ASSUME BytesOf(f.qty) <= IxRange - 7
        PROVE  Slice(coil, f)' = SubSeq(f.data, 1, f.qty)
    <3>1. ASSUME NEW i \in 1 .. f.qty
          PROVE  coil'[f.start + i - 1] = f.data[i]
      <4>1. /\ f.start + i - 1 \in Span(f) /\ i - 1 \in Nat
            /\ (f.start + i - 1) - f.start = i - 1
        BY <2>2 DEF Span
      <4>2. coil'[f.start + i - 1] = RxCoil(f, i - 1)
        <5> DEFINE a == f.start + i - 1
        <5>1. a \in Span(f) /\ a - f.start = i - 1
          BY <4>1
        <5> HIDE DEF a
        <5>2. a \in DOMAIN coil
          BY <2>1, <5>1 DEF Holds
        <5>3. coil'[a] = RxCoil(f, a - f.start)
          BY <2>1, <5>1, <5>2
        <5> QED
          BY <5>1, <5>3 DEF a
      <4>3. (i - 1) \div CoilsPerByte < BytesOf(f.qty) /\ BytesOf(f.qty) \in Nat
        <5> DEFINE k == i - 1
        <5>1. k \in Nat /\ k < f.qty
          BY <2>2, <4>1
        <5> HIDE DEF k
        <5>2. k \div CoilsPerByte < BytesOf(f.qty) /\ BytesOf(f.qty) \in Nat
          BY <2>2, <5>1, BytesEnough
        <5> QED
          BY <5>2 DEF k
      <4>4. CoilsPerByte \in Nat \ {0}
        BY SlaveAssumption
      <4>5. (i - 1) \div CoilsPerByte \in Nat
        BY <4>1, <4>4, Division
      <4>6. (i - 1) \div CoilsPerByte + 7 < IxRange
        <5> DEFINE b == (i - 1) \div CoilsPerByte
        <5>1. b < BytesOf(f.qty) /\ b \in Nat /\ BytesOf(f.qty) \in Nat
          BY <4>3, <4>5
        <5> HIDE DEF b
        <5>2. b + 7 < IxRange
          BY <2>2, <2>4, <5>1
        <5> QED
          BY <5>2 DEF b
      <4>7. RxCoil(f, i - 1) = f.data[i - 1 + 1] /\ i - 1 + 1 = i
        BY <4>6 DEF RxCoil
      <4> QED
        BY <4>2, <4>7
    <3>2. Slice(coil, f)' = [i \in 1 .. f.qty |-> coil'[f.start + i - 1]]
      BY DEF Slice
    <3>3. SubSeq(f.data, 1, f.qty) = [i \in 1 .. f.qty |-> f.data[i]]
      BY <2>2, <2>3
    <3> QED
      BY <3>1, <3>2, <3>3
  <2>5. Holding(f, <<f.start, f.qty>>)'
    BY <2>1, <2>4 DEF Holding
  <2> QED
    BY <1>1, <2>1, <2>5, NormalAnswers DEF Answer
<1> QED
  BY <1>3, <1>4

LEMMA WriteRegsAnswers ==
  ASSUME NEW f \in Frame, MBS_WriteMultipleHoldingRegs(f)
  PROVE  Answers(f)
<1> USE DEF RD_COIL, RD_DI, RD_HOLDING, RD_INPUT, WR_COIL, WR_REG, LOOPBACK, WR_COILS, WR_REGS
<1>1. f.fc = WR_REGS
  BY DEF MBS_WriteMultipleHoldingRegs, Asked
<1>2. Formed(f, <<f.start, f.qty>>) /\ Holding(f, <<f.start, f.qty>>)'
  BY <1>1 DEF Formed, Holding
<1>3. CASE RegsError(f) # NONE
  <2>1. RegsError(f) \in Errors /\ Refuse(f, RegsError(f))
    BY <1>3 DEF RegsError, Errors, MBS_WriteMultipleHoldingRegs
  <2> QED
    BY <2>1, RefusalAnswers
<1>4. CASE RegsError(f) = NONE
  BY <1>2, <1>4, NormalAnswers DEF MBS_WriteMultipleHoldingRegs, Answer
<1> QED
  BY <1>3, <1>4

(* Every reply to a function of the master can be told from every other and *)
(* says what the tables are when it is sent.                                *)
LEMMA EveryReplyAnswers ==
  ASSUME TypeOK, NEW f \in Frame, f.fc \in MasterFunctions, MBS_RxTask(f)
  PROVE  Answers(f)
<1>1. CASE BadSum(f) \/ NotForUs(f)
  BY <1>1, SilenceAnswers DEF BadSum, NotForUs
<1>2. ASSUME NEW functions, NEW fits, Misfit(f, functions, fits) PROVE Answers(f)
  BY <1>2, SilenceAnswers DEF Misfit, Ignore
<1>3. CASE MBS_ReadCoils(f) \/ MBS_ReadDiscreteInputs(f)
           \/ MBS_ReadHoldingRegs(f) \/ MBS_ReadInputRegs(f)
  BY <1>3, ReadAnswers DEF MBS_ReadCoils, MBS_ReadDiscreteInputs, MBS_ReadHoldingRegs,
     MBS_ReadInputRegs
<1>4. ~ Unsupported(f) /\ ~ MBS_ReadFileRecord(f) /\ ~ MBS_WriteFileRecord(f)
  BY DEF Unsupported, MBS_ReadFileRecord, MBS_WriteFileRecord, Asked, MasterFunctions,
     Supported, RD_COIL, RD_DI, RD_HOLDING, RD_INPUT, WR_COIL, WR_REG, LOOPBACK, WR_COILS,
     WR_REGS, RD_FILE, WR_FILE
<1> QED
  BY <1>1, <1>2, <1>3, <1>4, LoopbackAnswers, WriteOneAnswers, WriteCoilsAnswers,
     WriteRegsAnswers DEF MBS_RxTask
=============================================================================

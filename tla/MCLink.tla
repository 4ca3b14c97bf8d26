------------------------------- MODULE MCLink -------------------------------
(***************************************************************************)
(* Values of the constants of Link: six applications, which between them   *)
(* have every .._Resp function called.  A register beyond the table is     *)
(* read, a register is broadcast, and more inputs are read than nbr_points *)
(* can count.                                                              *)
(***************************************************************************)
EXTENDS Link

(* As in Slave, whose instance in Link takes its frames from here. *)
RD_COIL    == 1
RD_DI      == 2
RD_HOLDING == 3
WR_COIL    == 5
WR_REG     == 6
LOOPBACK   == 8
WR_COILS   == 15
WR_REGS    == 16

MCLayout        == { [coil |-> 3, reg |-> 1, file |-> 0] }
MCDiscreteInput == [a \in 0 .. 2 |-> 1]
MCInputReg      == [a \in 0 .. 0 |-> 1]

Short(addr, fc, start, qty) ==
  [addr |-> addr, fc |-> fc, num |-> 6, ok |-> TRUE, start |-> start, qty |-> qty,
   bytes |-> 0, type |-> 0, data |-> <<>>]

Long(fc, start, data) ==
  [Short(1, fc, start, 0) EXCEPT !.num = 9, !.qty = Len(data), !.bytes = 2, !.data = data]

MCApplication ==
  { { Short(1, RD_HOLDING, 0, 1), Short(1, WR_REG, 0, 2) },
    { Short(1, RD_HOLDING, 1, 1), Long(WR_REGS, 0, <<2>>) },
    { Short(1, RD_COIL, 0, 2), Short(1, WR_COIL, 2, 255) },
    { Short(1, RD_COIL, 0, 2), Long(WR_COILS, 1, <<0, 1>>) },
    { Short(1, RD_DI, 0, 3), Short(0, WR_REG, 0, 2) },
    { Short(1, LOOPBACK, 14, 0) } }
=============================================================================

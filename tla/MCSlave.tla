------------------------------ MODULE MCSlave ------------------------------
(***************************************************************************)
(* Values of the constants of Slave: requests of every function that are   *)
(* right, malformed, out of range, broadcast, damaged or for another node. *)
(***************************************************************************)
EXTENDS Slave

(* Five coils in bytes of two: the third byte is the one where data_ix wraps. *)
MCLayout == { [coil |-> 5, reg |-> 0, file |-> 0], [coil |-> 0, reg |-> 2, file |-> 0],
              [coil |-> 0, reg |-> 0, file |-> 2], [coil |-> 1, reg |-> 1, file |-> 1] }

MCDiscreteInput == [a \in 0 .. 1 |-> a]
MCInputReg      == [a \in 0 .. 0 |-> 2]

Short(addr, fc, start, qty) ==
  [addr |-> addr, fc |-> fc, num |-> 6, ok |-> TRUE, start |-> start, qty |-> qty,
   bytes |-> 0, type |-> 0, data |-> <<>>]

Long(addr, fc, start, qty, bytes, data) ==
  [Short(addr, fc, start, qty) EXCEPT !.num = 7 + bytes, !.bytes = bytes, !.type = 6,
                                      !.data = data]

MCShort ==
  { Short(1, RD_COIL, 0, q) : q \in {0, 1, 2001} } \cup
  { Short(1, RD_DI, 1, q) : q \in {1, 2} } \cup
  { Short(1, RD_HOLDING, 0, q) : q \in {1, 126} } \cup
  { Short(1, RD_INPUT, 0, 1), Short(0, WR_COIL, 0, 255), Short(1, WR_COIL, 4, 0),
    Short(2, WR_REG, 0, 1), Short(0, WR_REG, 0, 2), Short(0, 7, 0, 0), Short(1, 7, 0, 0),
    [Short(1, WR_COIL, 0, 1) EXCEPT !.num = 5], [Short(1, WR_REG, 0, 1) EXCEPT !.ok = FALSE] }
    \cup
  { Short(a, LOOPBACK, CLR_CTR, 0) : a \in {0, 1} } \cup
  { Short(1, LOOPBACK, c, 1) : c \in {QUERY, 1, 11, 15} }

MCLong ==
  { Long(1, WR_COILS, 0, 5, 3, <<1, 0, 0, 1, 0, 0>>), Long(0, WR_COILS, 1, 3, 2, <<1, 1, 0, 0>>),
    Long(1, WR_COILS, 0, 0, 1, <<1, 1>>), Long(1, WR_COILS, 0, 4, 1, <<1, 1>>),
    [Long(1, WR_COILS, 0, 1, 1, <<1, 1>>) EXCEPT !.num = 7], Long(1, WR_REGS, 0, 1, 2, <<1>>),
    Long(1, WR_REGS, 0, 2, 4, <<1, 2>>),
    Long(1, WR_REGS, 1, 1, 3, <<2>>), Long(1, WR_REGS, 0, 2, 2, <<1>>),
    [Long(1, WR_REGS, 0, 1, 2, <<2>>) EXCEPT !.num = 8],
    Long(1, RD_FILE, 0, 2, 7, <<>>), Long(1, RD_FILE, 1, 1, 6, <<>>),
    Long(1, WR_FILE, 0, 2, 11, <<1, 2>>), Long(0, WR_FILE, 1, 1, 9, <<1>>),
    [Long(1, WR_FILE, 0, 1, 9, <<2>>) EXCEPT !.type = 5] }

MCFrame == MCShort \cup MCLong
=============================================================================

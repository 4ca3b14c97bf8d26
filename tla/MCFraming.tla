----------------------------- MODULE MCFraming -----------------------------
(* A short and a long request; in ASCII mode the long one exceeds the buffer, *)
(* in RTU mode what merges with another frame does.                          *)
EXTENDS Framing

MCFrame   == {"short", "long"}
MCSize    == [f \in MCFrame |-> IF f = "short" THEN 2 ELSE 3]
MCBufSize == [m \in {RTU, ASCII} |-> IF m = RTU THEN 5 ELSE 10]
MCMinSize == [m \in {RTU, ASCII} |-> IF m = RTU THEN 4 ELSE 9]
=============================================================================

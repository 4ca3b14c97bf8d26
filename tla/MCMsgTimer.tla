----------------------------- MODULE MCMsgTimer -----------------------------
(* Values of the constants of MsgTimer. *)
EXTENDS MsgTimer

CONSTANTS p1, p2, a1

MCProcess == {p1, p2}
=============================================================================

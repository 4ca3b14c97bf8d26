---------------------------- MODULE MCProcessPoll ----------------------------
(* Values of the constants of ProcessPoll. *)
EXTENDS ProcessPoll

CONSTANTS p1, p2, i1, i2

MCProcess == {p1, p2}
MCPoller  == {i1, i2}
==============================================================================

----------------------------- MODULE MCMasterTx -----------------------------
(***************************************************************************)
(* Values of the constants of MasterTx.  Two requests, to two slaves,      *)
(* whose responses differ; or two reads of one slave whose responses look  *)
(* the same, since a read response does not repeat the start address.      *)
(***************************************************************************)
EXTENDS MasterTx

MCReq           == {"r1", "r2"}
MCSlave         == {"s1", "s2"}
MCSlaveAddr     == [r \in MCReq |-> IF r = "r1" THEN "s1" ELSE "s2"]
MCShape         == [r \in MCReq |-> r]
MCSlaveAddrSame == [r \in MCReq |-> "s1"]
MCShapeSame     == [r \in MCReq |-> "two registers of s1"]
=============================================================================

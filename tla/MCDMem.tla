------------------------------- MODULE MCDMem -------------------------------
(* Values of the constants of DMem. *)
EXTENDS DMem

(* The callers of the runs, who are alike. *)
MCOne == {"c"}
MCTwo == {"c", "d"}
=============================================================================

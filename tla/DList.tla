-------------------------------- MODULE DList --------------------------------
(***************************************************************************)
(* The lists of DList.c as sequences: what DList_Remove leaves.            *)
(***************************************************************************)
EXTENDS Naturals, Sequences, FiniteSets

(* The k-th smallest of the places I. *)
Nth(I, k) == CHOOSE i \in I : Cardinality({j \in I : j <= i}) = k

(* A list when all but the elements at the places I have been removed: the *)
(* others keep their order.                                                *)
Only(list, I) ==
  IF I = 1 .. Len(list) THEN list ELSE [k \in 1 .. Cardinality(I) |-> list[Nth(I, k)]]
=============================================================================

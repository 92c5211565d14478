------------------------------ MODULE MCList2 ------------------------------
(***************************************************************************)
(* Three elements: a list with a first, a middle and a last element, and   *)
(* unlinked ones that are added, replace another or are left with stale    *)
(* pointers.                                                               *)
(***************************************************************************)
EXTENDS List2, TLC

CONSTANTS e1, e2, e3

MCEl == {e1, e2, e3}

ElSymmetry == Permutations(MCEl)

==============================================================================

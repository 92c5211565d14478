---------------------------- MODULE MCSharedList ----------------------------
(***************************************************************************)
(* Three elements: the first added to an empty list, one added behind the  *)
(* head and one behind another element, each with any pointers to start.   *)
(***************************************************************************)
EXTENDS SharedList

CONSTANTS e1, e2, e3

MCEl == {e1, e2, e3}

BothUses == {"find", "take"}
OnlyTake == {"take"}

==============================================================================

------------------------------ MODULE MCNetdev ------------------------------
(***************************************************************************)
(* Model checking of Netdev: the main thread and one receive thread.       *)
(***************************************************************************)
EXTENDS Netdev

CONSTANTS main, recv

Threads == {main, recv}

==============================================================================

---------------------------- MODULE MCSerialCmd ----------------------------
(***************************************************************************)
(* Two threads are the smallest server with commands that overlap.         *)
(***************************************************************************)
EXTENDS SerialClient

CONSTANTS t1, t2
MCThreads == {t1, t2}

=============================================================================

------------------------------ MODULE MCEsp01 ------------------------------
(***************************************************************************)
(* Model checking of Esp01: two links are enough for a link to be used     *)
(* again while another is open.                                            *)
(***************************************************************************)
EXTENDS Esp01
=============================================================================

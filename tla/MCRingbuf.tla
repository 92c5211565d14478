------------------------------ MODULE MCRingbuf ------------------------------
(***************************************************************************)
(* Model checking of Ringbuf: two byte values are enough to tell a byte    *)
(* from its neighbours, requests may exceed the capacity, and SizeMod is   *)
(* the smallest modulus the arithmetic of ringbuf_left can wrap in: a      *)
(* power of two larger than Size.                                          *)
(***************************************************************************)
EXTENDS Ringbuf
=============================================================================

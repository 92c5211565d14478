---------------------------- MODULE RingbufFifo ----------------------------
(***************************************************************************)
(* What a ring buffer promises to the one thread that writes it and the    *)
(* one thread that reads it: a bounded first-in first-out byte queue.      *)
(*                                                                         *)
(* The two threads run without a lock, so either end may learn late what   *)
(* the other has done: lagW accepted bytes are not yet visible to the      *)
(* reader, lagR read bytes still occupy room in the writer's eyes.  A call *)
(* may therefore end short, but never loses, repeats, reorders or invents  *)
(* a byte it has accepted.                                                 *)
(***************************************************************************)
EXTENDS Naturals, Sequences

CONSTANTS Byte,      \* the values of a byte
          Capacity,  \* bytes the queue holds
          MaxCall    \* longest request of one call (a model bound)

VARIABLES queue,  \* accepted bytes that no read call has taken
          lagW,   \* of these, the newest ones the reader cannot see yet
          lagR,   \* bytes taken whose room the writer cannot see yet
          w,      \* the write call in progress
          r       \* the read call in progress

fifoVars == <<queue, lagW, lagR, w, r>>

NoWrite == [active |-> FALSE, input |-> <<>>, acc |-> 0]
NoRead  == [active |-> FALSE, want |-> 0, got |-> <<>>]

FifoInit ==
    /\ queue = <<>>
    /\ lagW = 0
    /\ lagR = 0
    /\ w = NoWrite
    /\ r = NoRead

\* A write call is made with the bytes d.
BeginWrite ==
    /\ ~w.active
    /\ \E n \in 0..MaxCall : \E d \in [1..n -> Byte] :
           w' = [active |-> TRUE, input |-> d, acc |-> 0]
    /\ UNCHANGED <<queue, lagW, lagR, r>>

\* The next byte of the call is accepted.
Put ==
    /\ w.active
    /\ w.acc < Len(w.input)
    /\ Len(queue) + lagR < Capacity
    /\ queue' = Append(queue, w.input[w.acc + 1])
    /\ lagW' = lagW + 1
    /\ w' = [w EXCEPT !.acc = @ + 1]
    /\ UNCHANGED <<lagR, r>>

\* The call returns: everything was accepted, or the writer sees no room.
EndWrite ==
    /\ w.active
    /\ w.acc = Len(w.input) \/ Len(queue) + lagR = Capacity
    /\ w' = NoWrite
    /\ UNCHANGED <<queue, lagW, lagR, r>>

\* A read call is made for n bytes.
BeginRead ==
    /\ ~r.active
    /\ \E n \in 0..MaxCall : r' = [active |-> TRUE, want |-> n, got |-> <<>>]
    /\ UNCHANGED <<queue, lagW, lagR, w>>

\* The oldest byte is handed to the call.
Get ==
    /\ r.active
    /\ Len(r.got) < r.want
    /\ lagW < Len(queue)
    /\ queue' = Tail(queue)
    /\ lagR' = lagR + 1
    /\ r' = [active |-> TRUE, want |-> r.want, got |-> Append(r.got, Head(queue))]
    /\ UNCHANGED <<lagW, w>>

\* The call returns: it has all it asked for, or the reader sees no byte.
EndRead ==
    /\ r.active
    /\ Len(r.got) = r.want \/ lagW = Len(queue)
    /\ r' = NoRead
    /\ UNCHANGED <<queue, lagW, lagR, w>>

\* The reader learns of an accepted byte.
Publish ==
    /\ lagW > 0
    /\ lagW' = lagW - 1
    /\ UNCHANGED <<queue, lagR, w, r>>

\* The writer learns of freed room.
Release ==
    /\ lagR > 0
    /\ lagR' = lagR - 1
    /\ UNCHANGED <<queue, lagW, w, r>>

FifoNext ==
    \/ BeginWrite \/ Put \/ EndWrite
    \/ BeginRead  \/ Get \/ EndRead
    \/ Publish    \/ Release

FifoSpec == FifoInit /\ [][FifoNext]_fifoVars
=============================================================================

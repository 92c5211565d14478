------------------------------ MODULE Ringbuf ------------------------------
(***************************************************************************)
(* sys/ringbuf.c: the receive buffer of a stream socket.                   *)
(*                                                                         *)
(* One thread writes it (the serial read_thread, through recv in           *)
(* esp01/esp01.c) and one thread reads it (the application, through        *)
(* bos_recvfrom in net/netdev.c).  There is no lock and neither index is   *)
(* volatile or atomic: the build uses no optimisation, so every access is  *)
(* a load or a store in program order, and on the x86 host a store becomes *)
(* visible to the other thread late but in order.  rd and wr are what      *)
(* their owner last stored, rdMem and wrMem what the other thread loads.   *)
(* A data byte is stored before the index that publishes it, so wrMem also *)
(* bounds the data the reader can rely on.                                 *)
(*                                                                         *)
(* Every step below holds at most one access to memory the other thread    *)
(* writes, so the two calls interleave as the machine lets them.           *)
(***************************************************************************)
EXTENDS Naturals, Sequences

CONSTANTS Size,     \* buf->size
          Byte,     \* the values of a byte
          MaxCall,  \* longest request of one call (a model bound)
          SizeMod   \* number of values of size_t

ASSUME SizeAssumption    == Size \in Nat \ {0}
ASSUME MaxCallAssumption == MaxCall \in Nat
ASSUME SizeModAssumption == SizeMod \in Nat /\ Size < SizeMod

VARIABLES data,   \* buf->data
          rd,     \* buf->rd as its owner, the reader, sees it
          wr,     \* buf->wr as its owner, the writer, sees it
          rdMem,  \* buf->rd as the writer sees it
          wrMem,  \* buf->wr as the reader sees it
          wpc,    \* where the write call is
          wbuf,   \* the bytes passed to ringbuf_write
          wi,     \* i of ringbuf_write
          rpc,    \* where the read call is
          rn,     \* n of ringbuf_read
          rbuf    \* the bytes ringbuf_read has stored, so i = Len(rbuf)

bufVars    == <<data, rd, wr, rdMem, wrMem>>
writerVars == <<wpc, wbuf, wi>>
readerVars == <<rpc, rn, rbuf>>
vars       == <<data, rd, wr, rdMem, wrMem, wpc, wbuf, wi, rpc, rn, rbuf>>

Index == 0..(Size - 1)

\* Mutant: the index does not wrap.
IncNoWrap(i) == i + 1

\* Both threads advance an index this way.
Inc(i) == (i + 1) % Size

(***************************************************************************)
(* ringbuf_init.  The array comes from malloc, its content is arbitrary.   *)
(***************************************************************************)
Init ==
    /\ data \in [Index -> Byte]
    /\ rd = Size - 1
    /\ wr = 0
    /\ rdMem = rd
    /\ wrMem = wr
    /\ wpc = "idle" /\ wbuf = <<>> /\ wi = 0
    /\ rpc = "idle" /\ rn = 0 /\ rbuf = <<>>

-----------------------------------------------------------------------------
(* ringbuf_write *)

WriteCall ==
    /\ wpc = "idle"
    /\ \E n \in 0..MaxCall : wbuf' \in [1..n -> Byte]
    /\ wpc' = "test"
    /\ UNCHANGED <<bufVars, wi, readerVars>>

\* Mutant: the loop bounds only i.
WriteContinueUnchecked ==
    /\ wpc = "test"
    /\ wi < Len(wbuf)
    /\ wpc' = "store"
    /\ UNCHANGED <<bufVars, wbuf, wi, readerVars>>

\* The loop condition holds.
WriteContinue ==
    /\ wpc = "test"
    /\ wi < Len(wbuf)
    /\ wr # rdMem
    /\ wpc' = "store"
    /\ UNCHANGED <<bufVars, wbuf, wi, readerVars>>

WriteStore ==
    /\ wpc = "store"
    /\ data' = [data EXCEPT ![wr] = wbuf[wi + 1]]
    /\ wpc' = "advance"
    /\ UNCHANGED <<rd, wr, rdMem, wrMem, wbuf, wi, readerVars>>

WriteAdvance ==
    /\ wpc = "advance"
    /\ wr' = Inc(wr)
    /\ wi' = wi + 1
    /\ wpc' = "test"
    /\ UNCHANGED <<data, rd, rdMem, wrMem, wbuf, readerVars>>

\* The loop condition fails: everything is stored, or the buffer looks full.
WriteReturn ==
    /\ wpc = "test"
    /\ wi = Len(wbuf) \/ wr = rdMem
    /\ wpc' = "idle" /\ wbuf' = <<>> /\ wi' = 0
    /\ UNCHANGED <<bufVars, readerVars>>

-----------------------------------------------------------------------------
(* ringbuf_read *)

ReadCall ==
    /\ rpc = "idle"
    /\ rn' \in 0..MaxCall
    /\ rpc' = "test"
    /\ UNCHANGED <<bufVars, rbuf, writerVars>>

\* Mutant: the read loop tests rd instead of its successor.
ReadContinueAtRd ==
    /\ rpc = "test"
    /\ Len(rbuf) < rn
    /\ rd # wrMem
    /\ rpc' = "advance"
    /\ UNCHANGED <<bufVars, rn, rbuf, writerVars>>

\* Mutant: the last byte stays in the buffer.
ReadContinueKeepOne ==
    /\ rpc = "test"
    /\ Len(rbuf) < rn
    /\ Inc(rd) # wrMem /\ Inc(Inc(rd)) # wrMem
    /\ rpc' = "advance"
    /\ UNCHANGED <<bufVars, rn, rbuf, writerVars>>

\* The loop condition holds.
ReadContinue ==
    /\ rpc = "test"
    /\ Len(rbuf) < rn
    /\ Inc(rd) # wrMem
    /\ rpc' = "advance"
    /\ UNCHANGED <<bufVars, rn, rbuf, writerVars>>

\* The index is stored before the byte it makes room for is loaded.
ReadAdvance ==
    /\ rpc = "advance"
    /\ rd' = Inc(rd)
    /\ rpc' = "load"
    /\ UNCHANGED <<data, wr, rdMem, wrMem, rn, rbuf, writerVars>>

ReadLoad ==
    /\ rpc = "load"
    /\ rbuf' = Append(rbuf, data[rd])
    /\ rpc' = "test"
    /\ UNCHANGED <<bufVars, rn, writerVars>>

\* The loop condition fails: n bytes are read, or the buffer looks empty.
ReadReturn ==
    /\ rpc = "test"
    /\ Len(rbuf) = rn \/ Inc(rd) = wrMem
    /\ rpc' = "idle" /\ rn' = 0 /\ rbuf' = <<>>
    /\ UNCHANGED <<bufVars, writerVars>>

-----------------------------------------------------------------------------
(* The memory system: the oldest store still hidden becomes visible. *)

CommitWr ==
    /\ wrMem # wr
    /\ wrMem' = Inc(wrMem)
    /\ UNCHANGED <<data, rd, wr, rdMem, writerVars, readerVars>>

CommitRd ==
    /\ rdMem # rd
    /\ rdMem' = Inc(rdMem)
    /\ UNCHANGED <<data, rd, wr, wrMem, writerVars, readerVars>>

-----------------------------------------------------------------------------

Writer == WriteCall \/ WriteContinue \/ WriteStore \/ WriteAdvance \/ WriteReturn
Reader == ReadCall \/ ReadContinue \/ ReadAdvance \/ ReadLoad \/ ReadReturn
Memory == CommitWr \/ CommitRd

Next == Writer \/ Reader \/ Memory

Spec == Init /\ [][Next]_vars

(***************************************************************************)
(* The application's receive loop (recv_thread in main/main.c) calls again *)
(* whenever a call returns, always for at least one byte (SF: calls for    *)
(* zero bytes may come in between), and the host's store buffers drain.    *)
(* Nothing is assumed of the writer.                                       *)
(***************************************************************************)
Fairness ==
    /\ SF_vars(ReadCall /\ rn' > 0)
    /\ WF_vars(ReadContinue \/ ReadAdvance \/ ReadLoad \/ ReadReturn)
    /\ WF_vars(Memory)

FairSpec == Spec /\ Fairness
-----------------------------------------------------------------------------
(* The counting functions.  size_t wraps modulo SizeMod. *)

\* Mutant: the wrap-around is not compensated.
RingbufLeftNoWrap == (rd + SizeMod - wr) % SizeMod

RingbufLeft ==
    (((rd + SizeMod - wr) % SizeMod) + (IF rd < wr THEN Size ELSE 0)) % SizeMod

RingbufContains == (Size + 2 * SizeMod - RingbufLeft - 1) % SizeMod

RingbufEmpty == Inc(rd) = wr

RingbufFull == wr = rd

-----------------------------------------------------------------------------
(* What the indices stand for. *)

\* Slots from a up to b, in the direction the indices move.
Dist(a, b) == IF a <= b THEN b - a ELSE b + Size - a

\* The i-th slot after a, for i at most Size.
Slot(a, i) == IF a + i < Size THEN a + i ELSE a + i - Size

\* Bytes written and not yet read.
Unread == Dist(Inc(rd), wr)

Queue == [k \in 1..Unread |-> data[Slot(rd, k)]]

-----------------------------------------------------------------------------
(* Properties *)

\* Every variable has its type; bytes a call counts are bytes it was given.
TypeOK ==
    /\ data \in [Index -> Byte]
    /\ rd \in Index /\ wr \in Index /\ rdMem \in Index /\ wrMem \in Index
    /\ wpc \in {"idle", "test", "store", "advance"}
    /\ wbuf \in Seq(Byte)
    /\ wi \in 0..Len(wbuf)
    /\ wpc \in {"store", "advance"} => wi < Len(wbuf)
    /\ wpc = "idle" => wbuf = <<>>
    /\ rpc \in {"idle", "test", "advance", "load"}
    /\ rn \in 0..MaxCall
    /\ rbuf \in Seq(Byte)
    /\ Len(rbuf) <= rn
    /\ rpc = "idle" => rbuf = <<>>
    /\ rpc \in {"advance", "load"} => Len(rbuf) < rn

\* ringbuf_read moves rd before it loads data[rd] (ringbuf.c:28-29) and
\* ringbuf_write stores data[wr] before it moves wr (ringbuf.c:40-41).  The
\* slot the writer is about to fill is never the one the reader is about to
\* load, whatever the two threads know of each other's index.
SlotExclusive == wpc = "store" /\ rpc = "load" => wr # rd

\* Whatever the interleaving, ringbuf_left and ringbuf_contains count the free
\* and the unread bytes exactly in size_t arithmetic, add up to the capacity
\* of size - 1, and ringbuf_empty and ringbuf_full agree with them.
Accounting ==
    /\ RingbufContains = Unread
    /\ RingbufLeft + RingbufContains = Size - 1
    /\ RingbufEmpty <=> Unread = 0
    /\ RingbufFull <=> RingbufLeft = 0

(***************************************************************************)
(* The inductive invariant.  Seen from the freed slot the writer knows     *)
(* (rdMem), the indices keep their order: rdMem, rd, wrMem, wr.  An index  *)
(* that catches up with rdMem from behind is a whole lap ahead of it.      *)
(***************************************************************************)
Ahead(i) == IF i = rdMem THEN Size ELSE Dist(rdMem, i)

Order ==
    /\ Dist(rdMem, rd) < Ahead(wrMem)
    /\ Ahead(wrMem) <= Ahead(wr)

\* A test that has succeeded stays true until the index moves.
Claims ==
    /\ wpc \in {"store", "advance"} => wr # rdMem
    /\ rpc = "advance" => Inc(rd) # wrMem

\* A stored byte stays in its slot until the index publishes it.
Stored == wpc = "advance" => data[wr] = wbuf[wi + 1]

IndInv == TypeOK /\ Order /\ Claims /\ Stored

\* The ring buffer implements the bounded FIFO of RingbufFifo: no accepted
\* byte is lost, repeated, reordered or invented, and a call ends short only
\* when its thread can see no room (ringbuf_write) or no byte (ringbuf_read).
Fifo == INSTANCE RingbufFifo WITH
    Capacity <- Size - 1,
    queue    <- Queue,
    lagW     <- Dist(wrMem, wr),
    lagR     <- Dist(rdMem, rd),
    w        <- [active |-> wpc # "idle", input |-> wbuf, acc |-> wi],
    r        <- [active |-> rpc # "idle", want |-> rn,
                 got |-> rbuf \o (IF rpc = "load" THEN <<data[rd]>> ELSE <<>>)]

FifoRefinement == Fifo!FifoSpec

\* A byte in the buffer is eventually read by a receive loop that keeps
\* asking, even when the writer never runs again.
Delivery == Unread > 0 ~> rpc = "load"
=============================================================================

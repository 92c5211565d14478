---------------------------- MODULE RingbufProofs ----------------------------
(***************************************************************************)
(* Proofs about Ringbuf, for every size, byte type and request length.     *)
(***************************************************************************)
EXTENDS Ringbuf, SequenceTheorems, TLAPS

\* The successor of an index, without the modulus.
LEMMA IncValue ==
    ASSUME NEW i \in Index
    PROVE  /\ Inc(i) \in Index
           /\ Inc(i) = IF i + 1 = Size THEN 0 ELSE i + 1
<1>1. CASE i + 1 = Size
  BY <1>1, SizeAssumption DEF Inc, Index
<1>2. CASE i + 1 < Size
  BY <1>2, SizeAssumption DEF Inc, Index
<1> QED
  BY <1>1, <1>2, SizeAssumption DEF Index

LEMMA InitInd == Init => IndInv
  BY SizeAssumption, MaxCallAssumption
  DEF Init, IndInv, TypeOK, Order, Claims, Stored, Ahead, Dist, Index

LEMMA TypeStep == TypeOK /\ [Next]_vars => TypeOK'
<1> SUFFICES ASSUME TypeOK, [Next]_vars
             PROVE  TypeOK'
  OBVIOUS
<1> USE SizeAssumption, MaxCallAssumption DEF TypeOK, bufVars, writerVars, readerVars
<1>1. CASE WriteCall
  BY <1>1 DEF WriteCall
<1>2. CASE WriteContinue
  BY <1>2 DEF WriteContinue
<1>3. CASE WriteStore
  BY <1>3 DEF WriteStore
<1>4. CASE WriteAdvance
  BY <1>4, IncValue DEF WriteAdvance
<1>5. CASE WriteReturn
  BY <1>5 DEF WriteReturn
<1>6. CASE ReadCall
  BY <1>6 DEF ReadCall
<1>7. CASE ReadContinue
  BY <1>7 DEF ReadContinue
<1>8. CASE ReadAdvance
  BY <1>8, IncValue DEF ReadAdvance
<1>9. CASE ReadLoad
  BY <1>9 DEF ReadLoad
<1>10. CASE ReadReturn
  BY <1>10 DEF ReadReturn
<1>11. CASE CommitWr
  BY <1>11, IncValue DEF CommitWr
<1>12. CASE CommitRd
  BY <1>12, IncValue DEF CommitRd
<1>13. CASE UNCHANGED vars
  BY <1>13 DEF vars
<1> QED
  BY <1>1, <1>2, <1>3, <1>4, <1>5, <1>6, <1>7, <1>8, <1>9, <1>10, <1>11,
     <1>12, <1>13 DEF Next, Writer, Reader, Memory

LEMMA OrderStep == IndInv /\ [Next]_vars => Order' /\ Claims'
<1> SUFFICES ASSUME IndInv, [Next]_vars
             PROVE  Order' /\ Claims'
  OBVIOUS
<1>0. /\ rd \in Index /\ wr \in Index /\ rdMem \in Index /\ wrMem \in Index
      /\ Order /\ Claims
  BY DEF IndInv, TypeOK
<1> USE SizeAssumption, <1>0 DEF Order, Claims, Ahead, Dist, Index
<1>1. CASE \/ WriteCall \/ WriteContinue \/ WriteStore \/ WriteReturn
           \/ ReadCall \/ ReadContinue \/ ReadLoad \/ ReadReturn
           \/ UNCHANGED vars
  BY <1>1 DEF WriteCall, WriteContinue, WriteStore, WriteReturn, ReadCall,
     ReadContinue, ReadLoad, ReadReturn, vars, bufVars, writerVars, readerVars
<1>2. CASE WriteAdvance
  BY <1>2, IncValue DEF WriteAdvance, readerVars
<1>3. CASE ReadAdvance
  BY <1>3, IncValue DEF ReadAdvance, writerVars
<1>4. CASE CommitWr
  BY <1>4, IncValue DEF CommitWr, readerVars, writerVars
<1>5. CASE CommitRd
  BY <1>5, IncValue DEF CommitRd, readerVars, writerVars
<1> QED
  BY <1>1, <1>2, <1>3, <1>4, <1>5 DEF Next, Writer, Reader, Memory

LEMMA StoredStep == IndInv /\ [Next]_vars => Stored'
<1> SUFFICES ASSUME IndInv, [Next]_vars
             PROVE  Stored'
  OBVIOUS
<1>1. CASE WriteStore
  BY <1>1 DEF WriteStore, Stored, IndInv, TypeOK
<1>2. CASE WriteCall \/ WriteContinue \/ WriteAdvance \/ WriteReturn
  BY <1>2 DEF WriteCall, WriteContinue, WriteAdvance, WriteReturn, Stored
<1>3. CASE Reader \/ Memory \/ UNCHANGED vars
  BY <1>3 DEF Reader, ReadCall, ReadContinue, ReadAdvance, ReadLoad, ReadReturn,
     Memory, CommitWr, CommitRd, vars, bufVars, writerVars, Stored, IndInv
<1> QED
  BY <1>1, <1>2, <1>3 DEF Next, Writer

LEMMA SpecInd == Spec => []IndInv
<1>1. IndInv /\ [Next]_vars => IndInv'
  BY TypeStep, OrderStep, StoredStep DEF IndInv
<1> QED
  BY <1>1, InitInd, PTL DEF Spec

(***************************************************************************)
(* ringbuf_read and ringbuf_write keep every index inside the buffer and   *)
(* every count inside the request.                                         *)
(***************************************************************************)
THEOREM TypeCorrect == Spec => []TypeOK
<1>1. IndInv => TypeOK
  BY DEF IndInv
<1> QED
  BY <1>1, SpecInd, PTL

(***************************************************************************)
(* The writer never stores into the slot the reader is loading, although   *)
(* ringbuf_read gives the slot up before it loads it.                      *)
(***************************************************************************)
THEOREM SlotsExclusive == Spec => []SlotExclusive
<1>1. IndInv => SlotExclusive
  BY SizeAssumption
  DEF IndInv, TypeOK, Order, Claims, SlotExclusive, Ahead, Dist, Index
<1> QED
  BY <1>1, SpecInd, PTL

\* Subtraction of two indices in size_t arithmetic.
LEMMA SizeSub ==
    ASSUME NEW a \in Nat, NEW b \in Nat, a < SizeMod, b < SizeMod
    PROVE  (a + SizeMod - b) % SizeMod = IF a < b THEN a + SizeMod - b ELSE a - b
<1>1. CASE a < b
  BY <1>1, SizeModAssumption, SizeAssumption
<1>2. CASE b <= a
  BY <1>2, SizeModAssumption, SizeAssumption
<1> QED
  BY <1>1, <1>2

(***************************************************************************)
(* ringbuf_left, ringbuf_contains, ringbuf_empty and ringbuf_full agree    *)
(* with the bytes in the buffer, for every size and width of size_t.       *)
(***************************************************************************)
THEOREM AccountingExact == Spec => []Accounting
<1>1. ASSUME IndInv
      PROVE  Accounting
  <2>0. rd \in Index /\ wr \in Index
    BY <1>1 DEF IndInv, TypeOK
  <2> USE SizeAssumption, SizeModAssumption
  <2>1. RingbufLeft = IF rd < wr THEN rd + Size - wr ELSE rd - wr
    <3>1. CASE rd < wr
      <4>1. RingbufLeft = (rd + SizeMod - wr + Size) % SizeMod
        BY <3>1, <2>0, SizeSub DEF RingbufLeft, Index
      <4>2. rd + SizeMod - wr + Size = 1 * SizeMod + (rd + Size - wr)
        BY <2>0 DEF Index
      <4>3. rd + Size - wr \in Nat /\ rd + Size - wr < SizeMod
        BY <3>1, <2>0 DEF Index
      <4> QED
        BY <3>1, <4>1, <4>2, <4>3
    <3>2. CASE ~(rd < wr)
      <4>0. rd \in Nat /\ wr \in Nat /\ rd < SizeMod /\ wr < SizeMod
        BY <2>0 DEF Index
      <4>1. (rd + SizeMod - wr) % SizeMod = rd - wr
        BY <3>2, <4>0, SizeSub
      <4>2. rd - wr \in Nat /\ rd - wr < SizeMod
        BY <3>2, <2>0 DEF Index
      <4> QED
        BY <3>2, <4>1, <4>2, <2>0 DEF RingbufLeft, Index
    <3> QED
      BY <3>1, <3>2
  <2>2. /\ RingbufLeft \in 0..(Size - 1)
        /\ RingbufLeft = Dist(wr, rd)
    BY <2>0, <2>1 DEF Dist, Index
  <2>3. RingbufContains = Size - 1 - RingbufLeft
    <3>1. /\ Size - 1 - RingbufLeft \in Nat
          /\ Size - 1 - RingbufLeft < SizeMod
          /\ Size + 2 * SizeMod - RingbufLeft - 1 = 2 * SizeMod + (Size - 1 - RingbufLeft)
      BY <2>2
    <3> HIDE DEF RingbufLeft
    <3> QED
      BY <3>1 DEF RingbufContains
  <2>4. Unread = Size - 1 - Dist(wr, rd)
    BY <2>0, IncValue DEF Unread, Dist, Index
  <2>5. Inc(rd) = wr <=> Unread = 0
    BY <2>0, IncValue DEF Unread, Dist, Index
  <2>6. wr = rd <=> Dist(wr, rd) = 0
    BY <2>0 DEF Dist, Index
  <2> QED
    BY <2>2, <2>3, <2>4, <2>5, <2>6 DEF Accounting, RingbufEmpty, RingbufFull
<1> QED
  BY <1>1, SpecInd, PTL

-----------------------------------------------------------------------------
(* The refinement of the bounded FIFO. *)

\* The queue is a sequence of bytes.
LEMMA QueueType ==
    ASSUME IndInv
    PROVE  /\ Unread \in Nat
           /\ Queue \in Seq(Byte)
           /\ Len(Queue) = Unread
<1>1. /\ rd \in Index /\ wr \in Index
      /\ data \in [Index -> Byte]
  BY DEF IndInv, TypeOK
<1>2. Unread \in 0..(Size - 1)
  <2>1. Inc(rd) \in Index
    BY <1>1, IncValue
  <2> QED
    BY <1>1, <2>1, SizeAssumption DEF Unread, Dist, Index
<1>3. \A k \in 1..Unread : Slot(rd, k) \in Index
  BY <1>1, <1>2, SizeAssumption DEF Slot, Index
<1>4. Queue \in [1..Unread -> Byte]
  BY <1>1, <1>3 DEF Queue
<1> QED
  BY <1>2, <1>4

\* The counts of the FIFO, measured from the slot the writer knows is free.
LEMMA Counts ==
    ASSUME IndInv
    PROVE  /\ Dist(wrMem, wr) = Ahead(wr) - Ahead(wrMem)
           /\ Unread = Ahead(wr) - 1 - Dist(rdMem, rd)
           /\ Dist(rdMem, rd) \in Nat
           /\ Ahead(wr) \in 1..Size
           /\ Ahead(wrMem) \in 1..Size
<1>1. rd \in Index /\ wr \in Index /\ rdMem \in Index /\ wrMem \in Index /\ Order
  BY DEF IndInv, TypeOK
<1>2. Inc(rd) = IF rd + 1 = Size THEN 0 ELSE rd + 1
  BY <1>1, IncValue
<1> QED
  BY <1>1, <1>2, SizeAssumption DEF Order, Ahead, Unread, Dist, Index

LEMMA InitFifo == Init => Fifo!FifoInit
<1> SUFFICES ASSUME Init PROVE Fifo!FifoInit
  OBVIOUS
<1>1. Unread = 0
  <2>1. rd \in Index
    BY SizeAssumption DEF Init, Index
  <2>2. Inc(rd) = 0
    BY <2>1, IncValue, SizeAssumption DEF Init
  <2> QED
    BY <2>2, SizeAssumption DEF Init, Unread, Dist
<1>2. Queue = <<>>
  BY <1>1 DEF Queue
<1>3. Dist(wrMem, wr) = 0 /\ Dist(rdMem, rd) = 0
  BY SizeAssumption DEF Init, Dist
<1>4. rbuf \o (IF rpc = "load" THEN <<data[rd]>> ELSE <<>>) = <<>>
  BY DEF Init
<1>5. (wpc # "idle") = FALSE /\ (rpc # "idle") = FALSE
  BY DEF Init
<1> QED
  BY <1>2, <1>3, <1>4, <1>5 DEF Init, Fifo!FifoInit, Fifo!NoWrite, Fifo!NoRead

\* A write call that is made, ends, stores a byte or only tests.
LEMMA WriterFifo ==
    ASSUME IndInv, IndInv', WriteCall \/ WriteContinue \/ WriteReturn
    PROVE  Fifo!BeginWrite \/ Fifo!EndWrite \/ UNCHANGED Fifo!fifoVars
<1>1. CASE WriteCall
  <2>1. wi = 0
    BY <1>1 DEF WriteCall, IndInv, TypeOK
  <2>2. Fifo!BeginWrite
    BY <1>1, <2>1 DEF WriteCall, Fifo!BeginWrite, bufVars, readerVars, Queue, Unread
  <2> QED
    BY <2>2
<1>2. CASE WriteContinue
  BY <1>2 DEF WriteContinue, Fifo!fifoVars, bufVars, readerVars, Queue, Unread
<1>3. CASE WriteReturn
  <2>1. wr = rdMem => Len(Queue) + Dist(rdMem, rd) = Size - 1
    BY Counts, QueueType, SizeAssumption DEF Ahead
  <2>2. Fifo!EndWrite
    BY <1>3, <2>1 DEF WriteReturn, Fifo!EndWrite, Fifo!NoWrite, bufVars,
       readerVars, Queue, Unread
  <2> QED
    BY <2>2
<1> QED
  BY <1>1, <1>2, <1>3

\* A byte stored into the free slot changes nothing the FIFO shows: the slot
\* is neither in the queue nor the one the reader is loading.
LEMMA StoreFifo ==
    ASSUME IndInv, IndInv', WriteStore
    PROVE  UNCHANGED Fifo!fifoVars
<1>1. /\ rd \in Index /\ wr \in Index
      /\ data \in [Index -> Byte]
  BY DEF IndInv, TypeOK
<1>2. /\ UNCHANGED <<rd, wr, rdMem, wrMem, wbuf, wi, rpc, rn, rbuf>>
      /\ wpc = "store" /\ wpc' = "advance"
      /\ data' = [data EXCEPT ![wr] = wbuf[wi + 1]]
  BY DEF WriteStore, readerVars
<1>3. Unread' = Unread
  BY <1>2 DEF Unread
<1>4. \A k \in 1..Unread : Slot(rd, k) \in Index /\ Slot(rd, k) # wr
  <2>1. Inc(rd) = IF rd + 1 = Size THEN 0 ELSE rd + 1
    BY <1>1, IncValue
  <2> QED
    BY <1>1, <2>1, SizeAssumption DEF Unread, Dist, Slot, Index
<1>5. \A k \in 1..Unread : data'[Slot(rd, k)] = data[Slot(rd, k)]
  BY <1>1, <1>2, <1>4
<1>6. Queue' = Queue
  <2>1. \A k \in 1..Unread : Slot(rd, k)' = Slot(rd, k)
    BY <1>2 DEF Slot
  <2> QED
    BY <1>2, <1>3, <1>5, <2>1 DEF Queue, Slot
<1>7. rpc = "load" => data'[rd] = data[rd]
  <2>1. rpc = "load" => wr # rd
    BY <1>2, SizeAssumption
    DEF IndInv, TypeOK, Order, Claims, Ahead, Dist, Index
  <2> QED
    BY <1>1, <1>2, <2>1
<1>8. (rbuf \o (IF rpc = "load" THEN <<data[rd]>> ELSE <<>>))'
      = rbuf \o (IF rpc = "load" THEN <<data[rd]>> ELSE <<>>)
  BY <1>2, <1>7
<1> QED
  BY <1>2, <1>6, <1>8 DEF Fifo!fifoVars, Dist

\* Moving wr accepts the byte.
LEMMA AdvanceFifo ==
    ASSUME IndInv, IndInv', WriteAdvance
    PROVE  Fifo!Put
<1>1. /\ rd \in Index /\ wr \in Index /\ wrMem \in Index /\ rdMem \in Index
      /\ Order
      /\ wi \in Nat /\ wi < Len(wbuf)
      /\ data[wr] = wbuf[wi + 1]
      /\ wr # rdMem
  BY DEF IndInv, TypeOK, WriteAdvance, Stored, Claims
<1>2. /\ UNCHANGED <<data, rd, rdMem, wrMem, wbuf, rpc, rn, rbuf>>
      /\ wpc = "advance" /\ wpc' = "test"
      /\ wi' = wi + 1
      /\ wr' = Inc(wr)
  BY DEF WriteAdvance, readerVars
<1>3. /\ Inc(wr) = IF wr + 1 = Size THEN 0 ELSE wr + 1
      /\ Inc(rd) = IF rd + 1 = Size THEN 0 ELSE rd + 1
  BY <1>1, IncValue
<1>4. Len(Queue) + Dist(rdMem, rd) < Size - 1
  <2>1. Ahead(wr) <= Size - 1
    BY <1>1, SizeAssumption DEF Ahead, Dist, Index
  <2>2. /\ Len(Queue) = Ahead(wr) - 1 - Dist(rdMem, rd)
        /\ Dist(rdMem, rd) \in Nat /\ Ahead(wr) \in Nat
    BY Counts, QueueType
  <2> HIDE DEF Queue, Dist
  <2> QED
    BY <2>1, <2>2, SizeAssumption
<1>5. wr # rd
  BY <1>1, SizeAssumption DEF Order, Ahead, Dist, Index
<1>6. /\ Unread \in Nat /\ Unread' = Unread + 1
      /\ Slot(rd, Unread + 1) = wr
  <2>1. Unread' = Dist(Inc(rd), Inc(wr))
    BY <1>2 DEF Unread, Dist, Inc
  <2> QED
    BY <1>1, <1>3, <1>5, <2>1, SizeAssumption DEF Unread, Dist, Slot, Index
<1>7. Queue' = Append(Queue, wbuf[wi + 1])
  <2>1. Queue' = [k \in 1..(Unread + 1) |-> data[Slot(rd, k)]]
    BY <1>2, <1>6 DEF Queue, Slot
  <2>2. /\ Queue \in Seq(Byte) /\ Len(Queue) = Unread
        /\ \A k \in 1..Unread : Queue[k] = data[Slot(rd, k)]
    BY QueueType DEF Queue
  <2>3. data[Slot(rd, Unread + 1)] = wbuf[wi + 1]
    BY <1>1, <1>6
  <2> HIDE DEF Queue
  <2> QED
    BY <2>1, <2>2, <2>3, <1>6
<1>8. Dist(wrMem, wr)' = Dist(wrMem, wr) + 1
  <2>1. wrMem # Inc(wr)
    BY <1>1, <1>3, SizeAssumption DEF Order, Ahead, Dist, Index
  <2> QED
    BY <1>1, <1>2, <1>3, <2>1, SizeAssumption DEF Dist, Index
<1>9. Dist(rdMem, rd)' = Dist(rdMem, rd)
  BY <1>2 DEF Dist
<1>10. [active |-> wpc # "idle", input |-> wbuf, acc |-> wi]'
       = [[active |-> wpc # "idle", input |-> wbuf, acc |-> wi] EXCEPT !.acc = @ + 1]
  BY <1>2
<1> HIDE DEF Queue, Dist
<1> QED
  BY <1>1, <1>2, <1>4, <1>7, <1>8, <1>9, <1>10 DEF Fifo!Put

\* A read call that is made, ends, only tests, or stores the byte it took.
LEMMA ReaderFifo ==
    ASSUME IndInv, IndInv', ReadCall \/ ReadContinue \/ ReadLoad \/ ReadReturn
    PROVE  Fifo!BeginRead \/ Fifo!EndRead \/ UNCHANGED Fifo!fifoVars
<1>0. rbuf \in Seq(Byte) /\ data \in [Index -> Byte] /\ rd \in Index
  BY DEF IndInv, TypeOK
<1>1. CASE ReadCall
  <2>1. rbuf = <<>> /\ rbuf \o <<>> = <<>>
    BY <1>1 DEF ReadCall, IndInv, TypeOK
  <2>2. Fifo!BeginRead
    BY <1>1, <2>1 DEF ReadCall, Fifo!BeginRead, bufVars, writerVars, Queue, Unread
  <2> QED
    BY <2>2
<1>2. CASE ReadContinue
  BY <1>2 DEF ReadContinue, Fifo!fifoVars, bufVars, writerVars, Queue, Unread
<1>3. CASE ReadLoad
  <2>1. data[rd] \in Byte
    BY <1>0
  <2>2. Append(rbuf, data[rd]) \o <<>> = rbuf \o <<data[rd]>>
    BY <1>0, <2>1
  <2> QED
    BY <1>3, <2>2 DEF ReadLoad, Fifo!fifoVars, bufVars, writerVars, Queue, Unread
<1>4. CASE ReadReturn
  <2>1. Inc(rd) = wrMem => Dist(wrMem, wr) = Len(Queue)
    BY QueueType DEF Unread
  <2>2. rbuf \o <<>> = rbuf /\ <<>> \o <<>> = <<>>
    BY <1>0
  <2>3. Fifo!EndRead
    BY <1>4, <2>1, <2>2 DEF ReadReturn, Fifo!EndRead, Fifo!NoRead, bufVars,
       writerVars, Queue, Unread
  <2> QED
    BY <2>3
<1> QED
  BY <1>1, <1>2, <1>3, <1>4

\* Moving rd takes the oldest byte: the load that follows still finds it.
LEMMA TakeFifo ==
    ASSUME IndInv, IndInv', ReadAdvance
    PROVE  Fifo!Get
<1>1. /\ rd \in Index /\ wr \in Index /\ rdMem \in Index /\ wrMem \in Index
      /\ Order
      /\ rbuf \in Seq(Byte) /\ Len(rbuf) < rn
      /\ data \in [Index -> Byte]
      /\ Inc(rd) # wrMem
  BY DEF IndInv, TypeOK, ReadAdvance, Claims
<1>2. /\ UNCHANGED <<data, wr, rdMem, wrMem, wpc, wbuf, wi, rn, rbuf>>
      /\ rpc = "advance" /\ rpc' = "load"
      /\ rd' = Inc(rd)
  BY DEF ReadAdvance, writerVars
<1>3. /\ Inc(rd) \in Index
      /\ Inc(rd) = IF rd + 1 = Size THEN 0 ELSE rd + 1
  BY <1>1, IncValue
<1>4. Inc(Inc(rd)) = IF Inc(rd) + 1 = Size THEN 0 ELSE Inc(rd) + 1
  BY <1>3, IncValue
<1>5. Dist(wrMem, wr) < Unread
  BY <1>1, <1>3, SizeAssumption DEF Order, Ahead, Unread, Dist, Index
<1>6. /\ Unread \in Nat \ {0} /\ Unread' = Unread - 1
  <2>1. Unread' = Dist(Inc(Inc(rd)), wr)
    BY <1>2 DEF Unread, Dist, Inc
  <2>2. Inc(rd) # wr
    BY <1>1, <1>3, SizeAssumption DEF Order, Ahead, Dist, Index
  <2> QED
    BY <1>1, <1>3, <1>4, <2>1, <2>2, SizeAssumption DEF Unread, Dist, Index
<1>7. \A k \in 1..(Unread - 1) : Slot(Inc(rd), k) = Slot(rd, k + 1)
  <2>1. Unread < Size
    BY <1>1, <1>3, SizeAssumption DEF Unread, Dist, Index
  <2> HIDE DEF Unread
  <2> QED
    BY <1>1, <1>3, <1>6, <2>1, SizeAssumption DEF Slot, Index
<1>8. /\ Queue \in Seq(Byte) /\ Len(Queue) = Unread
      /\ \A k \in 1..Unread : Queue[k] = data[Slot(rd, k)]
  BY QueueType DEF Queue
<1>9. Queue' = Tail(Queue)
  <2>1. Queue' = [k \in 1..(Unread - 1) |-> data[Slot(Inc(rd), k)]]
    BY <1>2, <1>6 DEF Queue, Slot
  <2> HIDE DEF Queue, Unread, Slot
  <2>2. /\ Len(Queue') = Unread - 1
        /\ \A k \in 1..(Unread - 1) : Queue'[k] = Queue[k + 1]
    BY <2>1, <1>6, <1>7, <1>8
  <2>3. Queue # <<>>
    BY <1>6, <1>8
  <2>4. /\ Tail(Queue) \in Seq(Byte) /\ Len(Tail(Queue)) = Unread - 1
        /\ \A k \in 1..(Unread - 1) : Tail(Queue)[k] = Queue[k + 1]
    BY <2>3, <1>8, HeadTailProperties
  <2>5. Queue' \in Seq(Byte)
    <3>1. \A k \in 1..(Unread - 1) : data[Slot(Inc(rd), k)] \in Byte
      BY <1>6, <1>7, <1>8
    <3>2. Queue' \in [1..(Unread - 1) -> Byte]
      BY <2>1, <3>1
    <3> QED
      BY <3>2, <1>6
  <2> QED
    BY <2>2, <2>4, <2>5, SeqEqual
<1>10. Head(Queue) = data[Inc(rd)]
  <2>1. Slot(rd, 1) = Inc(rd)
    BY <1>1, <1>3, SizeAssumption DEF Slot, Index
  <2> HIDE DEF Queue, Unread, Slot
  <2> QED
    BY <2>1, <1>6, <1>8
<1>11. Dist(rdMem, rd)' = Dist(rdMem, rd) + 1
  <2>1. Inc(rd) # rdMem
    BY <1>1, <1>3, SizeAssumption DEF Order, Ahead, Dist, Index
  <2> QED
    BY <1>1, <1>2, <1>3, <2>1, SizeAssumption DEF Dist, Index
<1>12. Dist(wrMem, wr)' = Dist(wrMem, wr)
  BY <1>2 DEF Dist
<1>13. /\ rbuf \o <<>> = rbuf
       /\ rbuf \o <<data[Inc(rd)]>> = Append(rbuf, data[Inc(rd)])
  <2>1. data[Inc(rd)] \in Byte
    BY <1>1, <1>3
  <2> QED
    BY <1>1, <2>1
<1>14. rbuf \o (IF rpc = "load" THEN <<data[rd]>> ELSE <<>>) = rbuf
  BY <1>2, <1>13
<1>15. [active |-> rpc # "idle", want |-> rn,
        got |-> rbuf \o (IF rpc = "load" THEN <<data[rd]>> ELSE <<>>)]
       = [active |-> TRUE, want |-> rn, got |-> rbuf]
  <2>1. (rpc # "idle") = TRUE
    BY <1>2
  <2> QED
    BY <1>14, <2>1
<1>16. [active |-> rpc # "idle", want |-> rn,
        got |-> rbuf \o (IF rpc = "load" THEN <<data[rd]>> ELSE <<>>)]'
       = [active |-> TRUE, want |-> rn, got |-> Append(rbuf, Head(Queue))]
  <2>1. (rpc # "idle")' = TRUE
    BY <1>2
  <2>2. (rbuf \o (IF rpc = "load" THEN <<data[rd]>> ELSE <<>>))' = Append(rbuf, Head(Queue))
    BY <1>2, <1>10, <1>13
  <2>3. rn' = rn
    BY <1>2
  <2> QED
    BY <2>1, <2>2, <2>3
<1>17. UNCHANGED [active |-> wpc # "idle", input |-> wbuf, acc |-> wi]
  BY <1>2
<1>18. rpc # "idle"
  BY <1>2
<1> HIDE DEF Queue, Dist, Unread
<1> QED
  BY <1>1, <1>5, <1>8, <1>9, <1>11, <1>12, <1>14, <1>15, <1>16, <1>17, <1>18
  DEF Fifo!Get

\* A store that becomes visible changes only what the other thread knows.
LEMMA MemoryFifo ==
    ASSUME IndInv, IndInv', Memory
    PROVE  Fifo!Publish \/ Fifo!Release
<1>1. rd \in Index /\ wr \in Index /\ rdMem \in Index /\ wrMem \in Index
  BY DEF IndInv, TypeOK
<1>2. /\ Inc(wrMem) = IF wrMem + 1 = Size THEN 0 ELSE wrMem + 1
      /\ Inc(rdMem) = IF rdMem + 1 = Size THEN 0 ELSE rdMem + 1
  BY <1>1, IncValue
<1>3. CASE CommitWr
  <2>1. /\ wrMem # wr /\ wrMem' = Inc(wrMem)
        /\ UNCHANGED <<data, rd, wr, rdMem, wpc, wbuf, wi, rpc, rn, rbuf>>
    BY <1>3 DEF CommitWr, writerVars, readerVars
  <2>2. /\ Dist(wrMem, wr) \in Nat \ {0}
        /\ Dist(wrMem, wr)' = Dist(wrMem, wr) - 1
    BY <1>1, <1>2, <2>1, SizeAssumption DEF Dist, Index
  <2>3. Queue' = Queue /\ Dist(rdMem, rd)' = Dist(rdMem, rd)
    BY <2>1 DEF Queue, Unread, Dist, Slot, Inc
  <2> HIDE DEF Queue, Dist
  <2>4. Fifo!Publish
    BY <2>1, <2>2, <2>3 DEF Fifo!Publish
  <2> QED
    BY <2>4
<1>4. CASE CommitRd
  <2>1. /\ rdMem # rd /\ rdMem' = Inc(rdMem)
        /\ UNCHANGED <<data, rd, wr, wrMem, wpc, wbuf, wi, rpc, rn, rbuf>>
    BY <1>4 DEF CommitRd, writerVars, readerVars
  <2>2. /\ Dist(rdMem, rd) \in Nat \ {0}
        /\ Dist(rdMem, rd)' = Dist(rdMem, rd) - 1
    BY <1>1, <1>2, <2>1, SizeAssumption DEF Dist, Index
  <2>3. Queue' = Queue /\ Dist(wrMem, wr)' = Dist(wrMem, wr)
    BY <2>1 DEF Queue, Unread, Dist, Slot, Inc
  <2> HIDE DEF Queue, Dist
  <2>4. Fifo!Release
    BY <2>1, <2>2, <2>3 DEF Fifo!Release
  <2> QED
    BY <2>4
<1> QED
  BY <1>3, <1>4 DEF Memory

(***************************************************************************)
(* ringbuf.c is a bounded FIFO between its two threads: every call of      *)
(* ringbuf_read and ringbuf_write, interleaved in any way and with index   *)
(* stores seen late, is a behaviour of RingbufFifo.                        *)
(***************************************************************************)
THEOREM RingbufImplementsFifo == Spec => FifoRefinement
<1>1. ASSUME IndInv, IndInv', [Next]_vars
      PROVE  [Fifo!FifoNext]_Fifo!fifoVars
  <2>1. CASE WriteCall \/ WriteContinue \/ WriteReturn
    BY <1>1, <2>1, WriterFifo DEF Fifo!FifoNext
  <2>2. CASE WriteStore
    BY <1>1, <2>2, StoreFifo
  <2>3. CASE WriteAdvance
    BY <1>1, <2>3, AdvanceFifo DEF Fifo!FifoNext
  <2>4. CASE ReadCall \/ ReadContinue \/ ReadLoad \/ ReadReturn
    BY <1>1, <2>4, ReaderFifo DEF Fifo!FifoNext
  <2>5. CASE ReadAdvance
    BY <1>1, <2>5, TakeFifo DEF Fifo!FifoNext
  <2>6. CASE Memory
    BY <1>1, <2>6, MemoryFifo DEF Fifo!FifoNext
  <2>7. CASE UNCHANGED vars
    BY <2>7 DEF vars, Fifo!fifoVars, Queue, Unread, Dist, Slot, Inc
  <2> QED
    BY <1>1, <2>1, <2>2, <2>3, <2>4, <2>5, <2>6, <2>7 DEF Next, Writer, Reader
<1> QED
  BY <1>1, InitFifo, SpecInd, PTL DEF Spec, FifoRefinement, Fifo!FifoSpec

=============================================================================

---------------------------- MODULE NetdevProofs ----------------------------
(***************************************************************************)
(* Theorems about Netdev: counts, descriptors and nodes agree, a call      *)
(* blocked in the driver finds the node it has looked up, a socket is in   *)
(* one place, and datagrams are read without a gap, for any number of      *)
(* threads, descriptors, sockets and datagrams.                            *)
(*                                                                         *)
(* The first two rest on three facts.  A node is made for one descriptor   *)
(* and has its number, so its count is 1 while that descriptor exists and  *)
(* 0 afterwards (Own).  bos_close never lets go of a descriptor, and the   *)
(* close operation is never in progress together with another call on the  *)
(* same descriptor, so what a call has looked up is still there (Held).    *)
(***************************************************************************)
EXTENDS Netdev, FiniteSetTheorems, TLAPS

Closing(t) == call[t].op \in {"close", "fs_close"}

Own ==
    /\ \A i \in Id : fdNode[i] \in {None, i}
    /\ \A i \in Id : i > last => fdNode[i] = None
    /\ \A i \in Id : ref_cnt[i] = IF fdNode[i] = i THEN 1 ELSE 0
    /\ \A i \in Id : fdNode[i] = i => i \in live
    /\ ~fault => \A n \in live : fdNode[n] = n

Held ==
    /\ \A t \in Thread : Closing(t) =>
           /\ call[t].id \in Id /\ call[t].node = call[t].id
           /\ fdNode[call[t].id] = call[t].id
    /\ \A t, u \in Thread :
           t # u /\ call[t].op = "fs_close" => call[u].id # call[t].id
    /\ \A t \in Thread : call[t].op = "accept" => call[t].sock \in Sock

IInv == TypeOK /\ Own /\ Held

-----------------------------------------------------------------------------
(* Types *)

LEMMA Bounds == MaxId \in Nat /\ MaxSock \in Nat
  BY BoundsAssumption

LEMMA InitType == Init => TypeOK
<1> SUFFICES ASSUME Init PROVE TypeOK
  OBVIOUS
<1>1. clients \in [Sock -> Seq(Sock)] /\ dgrams \in [Sock -> Seq(Dgram)]
  BY DEF Init
<1>2. call \in [Thread -> [op : {"none", "accept", "close", "fs_close"},
                           id : Id \cup {None}, node : Id \cup {None},
                           sock : Sock \cup {None}]]
  BY DEF Init, Idle
<1>3. /\ fdNode \in [Id -> Id \cup {None}] /\ data \in [Id -> Sock \cup {None}]
      /\ ref_cnt \in [Id -> Nat]
  BY DEF Init
<1>4. last \in 0..MaxId /\ nsock \in 0..MaxSock
  BY Bounds DEF Init
<1>5. /\ live \subseteq Id /\ stream \subseteq Sock /\ dev \subseteq Sock
      /\ closed \subseteq Id /\ tcp_server \in Sock \cup {None} /\ fault \in BOOLEAN
  BY DEF Init
<1> QED
  BY <1>1, <1>2, <1>3, <1>4, <1>5 DEF TypeOK

\* A descriptor that can be used refers to a node.
LEMMA UsableId ==
    ASSUME TypeOK, NEW t \in Thread, NEW i \in Id, Usable(t, i)
    PROVE  fdNode[i] \in Id /\ SockOf(i) \in Sock \cup {None}
  BY DEF TypeOK, Usable, SockOf

\* fs_node_create and fs_fd_alloc together keep the types of the file system.
LEMMA AllocType ==
    ASSUME TypeOK, NEW s \in Sock, fs_node_create(last + 1, s), fs_fd_alloc(last + 1)
    PROVE  /\ last' \in 0..MaxId /\ last + 1 \in Id
           /\ fdNode' \in [Id -> Id \cup {None}] /\ live' \subseteq Id
           /\ data' \in [Id -> Sock \cup {None}] /\ ref_cnt' \in [Id -> Nat]
  BY Bounds DEF TypeOK, fs_node_create, fs_fd_alloc, Id

LEMMA SocketType == TypeOK /\ Socket => TypeOK'
<1> SUFFICES ASSUME TypeOK, Socket PROVE TypeOK'
  OBVIOUS
<1>1. nsock + 1 \in Sock
  BY Bounds DEF Socket, TypeOK, Sock
<1>2. nsock' \in 0..MaxSock /\ stream' \subseteq Sock
  <2>1. nsock' \in 0..MaxSock
    BY Bounds DEF Socket, TypeOK
  <2>2. stream' \subseteq Sock
    BY <1>1 DEF Socket, TypeOK
  <2> QED
    BY <2>1, <2>2
<1>3. /\ last' \in 0..MaxId /\ fdNode' \in [Id -> Id \cup {None}] /\ live' \subseteq Id
      /\ data' \in [Id -> Sock \cup {None}] /\ ref_cnt' \in [Id -> Nat]
  BY <1>1, AllocType DEF Socket
<1> QED
  BY <1>2, <1>3 DEF Socket, TypeOK

LEMMA AcceptTakeType ==
    ASSUME TypeOK, NEW i \in Id, AcceptTake(i)
    PROVE  TypeOK'
<1>1. Main \in Thread
  BY MainAssumption
<1>2. fdNode[i] \in Id /\ SockOf(i) \in Sock
  BY UsableId, <1>1 DEF AcceptTake, TypeOK
<1> DEFINE cs == clients[SockOf(i)]
<1>3. cs \in Seq(Sock) /\ cs # <<>>
  BY <1>2 DEF AcceptTake, TypeOK
<1>4. Head(cs) \in Sock /\ Tail(cs) \in Seq(Sock)
  BY <1>3
<1>5. clients' \in [Sock -> Seq(Sock)] /\ dev' \subseteq Sock
  BY <1>2, <1>4 DEF AcceptTake, TypeOK
<1>6. call' \in [Thread -> [op : {"none", "accept", "close", "fs_close"},
                            id : Id \cup {None}, node : Id \cup {None},
                            sock : Sock \cup {None}]]
  BY <1>1, <1>4 DEF AcceptTake, TypeOK, Idle
<1> QED
  BY <1>5, <1>6 DEF AcceptTake, TypeOK, fsVars

LEMMA AcceptNodeType ==
    ASSUME TypeOK, Held, AcceptNode
    PROVE  TypeOK'
<1>1. call[Main].sock \in Sock
  BY MainAssumption DEF AcceptNode, Held
<1>2. /\ last' \in 0..MaxId /\ fdNode' \in [Id -> Id \cup {None}] /\ live' \subseteq Id
      /\ data' \in [Id -> Sock \cup {None}] /\ ref_cnt' \in [Id -> Nat]
  BY <1>1, AllocType DEF AcceptNode
<1>3. call' \in [Thread -> [op : {"none", "accept", "close", "fs_close"},
                            id : Id \cup {None}, node : Id \cup {None},
                            sock : Sock \cup {None}]]
  BY MainAssumption DEF AcceptNode, TypeOK, Idle
<1> QED
  BY <1>2, <1>3 DEF AcceptNode, TypeOK, sockVars

LEMMA Remainder == ASSUME NEW a \in Int PROVE a % SIZE \in 0..(SIZE - 1)
  BY SizeAssumption

LEMMA RecvFromType ==
    ASSUME TypeOK, NEW t \in Thread, NEW i \in Id, NEW want \in 1..MaxLen,
           RecvFrom(t, i, want)
    PROVE  TypeOK'
<1> DEFINE s == SockOf(i)
           d == Head(dgrams[s])
           n == Copied(want, d)
           idx == (d.idx + n) % SIZE
           rest == Tail(dgrams[s])
           kept == [dgrams[s] EXCEPT ![1].idx = idx, ![1].got = (d.got + n) % SIZE]
<1>1. s \in Sock /\ dgrams[s] \in Seq(Dgram) /\ dgrams[s] # <<>>
  <2>1. s \in Sock
    BY UsableId DEF RecvFrom
  <2> QED
    BY <2>1 DEF RecvFrom, TypeOK
<1>2. d \in Dgram /\ rest \in Seq(Dgram)
  BY <1>1
<1>3. n \in Nat
  <2>1. d.len - d.idx \in Int
    BY <1>2, SizeAssumption DEF Dgram
  <2>2. (d.len - d.idx) % SIZE \in 0..(SIZE - 1)
    BY <2>1, Remainder
  <2> QED
    BY <2>2, SizeAssumption DEF Copied
<1>4. idx \in 0..(SIZE - 1) /\ (d.got + n) % SIZE \in Nat
  <2> HIDE DEF n, d
  <2>1. d.idx + n \in Int /\ d.got + n \in Int
    BY <1>2, <1>3, SizeAssumption DEF Dgram
  <2>2. idx \in 0..(SIZE - 1) /\ (d.got + n) % SIZE \in 0..(SIZE - 1)
    BY <2>1, Remainder
  <2> QED
    BY <2>2, SizeAssumption
<1>5. kept \in Seq(Dgram)
  <2>1. [d EXCEPT !.idx = idx, !.got = (d.got + n) % SIZE] \in Dgram
    BY <1>2, <1>4 DEF Dgram
  <2>2. d = dgrams[s][1] /\ 1 \in 1..Len(dgrams[s])
    BY <1>1
  <2>3. kept = [dgrams[s] EXCEPT ![1] = [d EXCEPT !.idx = idx, !.got = (d.got + n) % SIZE]]
    BY <2>2, <1>1
  <2> QED
    BY <2>1, <2>2, <2>3, <1>1
<1>6. dgrams' = [dgrams EXCEPT ![s] = IF idx = d.len THEN rest ELSE kept]
  BY <1>1 DEF RecvFrom
<1>7. dgrams' \in [Sock -> Seq(Dgram)]
  BY <1>1, <1>2, <1>5, <1>6 DEF TypeOK
<1> QED
  BY <1>7 DEF RecvFrom, TypeOK, fsVars

LEMMA CloseType ==
    ASSUME TypeOK, NEW t \in Thread, NEW i \in Id,
           CloseCall(t, i) \/ FsCloseCall(t, i)
    PROVE  TypeOK'
<1>1. fdNode[i] \in Id /\ SockOf(i) \in Sock \cup {None}
  BY UsableId DEF CloseCall, FsCloseCall
<1>2. call' \in [Thread -> [op : {"none", "accept", "close", "fs_close"},
                            id : Id \cup {None}, node : Id \cup {None},
                            sock : Sock \cup {None}]]
  <2>1. PICK op \in {"close", "fs_close"} :
            call' = [call EXCEPT ![t] =
                        [op |-> op, id |-> i, node |-> fdNode[i], sock |-> SockOf(i)]]
    BY DEF CloseCall, FsCloseCall
  <2> QED
    BY <1>1, <2>1 DEF TypeOK
<1> QED
  BY <1>2 DEF CloseCall, FsCloseCall, TypeOK, fsVars, sockVars

\* A call that returns leaves its thread idle.
LEMMA IdleType ==
    ASSUME TypeOK, NEW t \in Thread, call' = [call EXCEPT ![t] = Idle]
    PROVE  call' \in [Thread -> [op : {"none", "accept", "close", "fs_close"},
                                  id : Id \cup {None}, node : Id \cup {None},
                                  sock : Sock \cup {None}]]
  BY DEF TypeOK, Idle

LEMMA CloseReturnType ==
    ASSUME TypeOK, Held, NEW t \in Thread, CloseReturn(t)
    PROVE  TypeOK'
<1>1. call[t].id \in Id /\ call[t].sock \in Sock \cup {None}
  BY DEF CloseReturn, Held, Closing, TypeOK
<1>2. live' \subseteq Id /\ closed' \subseteq Id /\ fault' \in BOOLEAN
  BY <1>1 DEF CloseReturn, fs_node_destroy, TypeOK
<1>3. tcp_server' \in Sock \cup {None}
  BY DEF CloseReturn, DriverClosed, TypeOK
<1>4. call' \in [Thread -> [op : {"none", "accept", "close", "fs_close"},
                            id : Id \cup {None}, node : Id \cup {None},
                            sock : Sock \cup {None}]]
  BY IdleType DEF CloseReturn
<1> QED
  BY <1>2, <1>3, <1>4 DEF CloseReturn, TypeOK

LEMMA FsCloseReturnType ==
    ASSUME TypeOK, Own, Held, NEW t \in Thread, FsCloseReturn(t)
    PROVE  TypeOK'
<1> DEFINE i == call[t].id
<1>1. i \in Id /\ call[t].node = i /\ ref_cnt[i] = 1
  BY DEF FsCloseReturn, Held, Own, Closing
<1>2. fdNode' \in [Id -> Id \cup {None}] /\ ref_cnt' \in [Id -> Nat]
  BY <1>1 DEF FsCloseReturn, RefsWithout, TypeOK
<1>3. live' \subseteq Id /\ fault' \in BOOLEAN
  BY <1>1 DEF FsCloseReturn, fs_node_destroy, TypeOK
<1>4. tcp_server' \in Sock \cup {None}
  BY DEF FsCloseReturn, DriverClosed, TypeOK
<1>5. call' \in [Thread -> [op : {"none", "accept", "close", "fs_close"},
                            id : Id \cup {None}, node : Id \cup {None},
                            sock : Sock \cup {None}]]
  BY IdleType DEF FsCloseReturn
<1> QED
  BY <1>2, <1>3, <1>4, <1>5 DEF FsCloseReturn, TypeOK

LEMMA ClientType == TypeOK /\ Client => TypeOK'
<1> SUFFICES ASSUME TypeOK, Client PROVE TypeOK'
  OBVIOUS
<1>1. nsock + 1 \in Sock /\ nsock' \in 0..MaxSock
  BY Bounds DEF Client, TypeOK, Sock
<1>2. tcp_server \in Sock /\ clients[tcp_server] \in Seq(Sock)
  BY DEF Client, TypeOK
<1>3. Append(clients[tcp_server], nsock + 1) \in Seq(Sock)
  BY <1>1, <1>2
<1>4. clients' \in [Sock -> Seq(Sock)] /\ stream' \subseteq Sock
  BY <1>1, <1>2, <1>3 DEF Client, TypeOK
<1> QED
  BY <1>1, <1>4 DEF Client, TypeOK, fsVars

LEMMA DatagramType ==
    ASSUME TypeOK, NEW s \in Sock, NEW len \in 1..MaxLen, NEW idx \in 0..(SIZE - 1),
           Datagram(s, len, idx)
    PROVE  TypeOK'
<1>1. [len |-> len, idx |-> idx, start |-> idx, got |-> 0] \in Dgram
  BY DEF Dgram
<1>2. Append(dgrams[s], [len |-> len, idx |-> idx, start |-> idx, got |-> 0]) \in Seq(Dgram)
  BY <1>1 DEF TypeOK
<1>3. dgrams' \in [Sock -> Seq(Dgram)]
  BY <1>2 DEF Datagram, TypeOK
<1> QED
  BY <1>3 DEF Datagram, TypeOK, fsVars

LEMMA OtherType ==
    ASSUME TypeOK,
           \/ \E t \in Thread, i \in Id : Assign(t, i) \/ Listen(t, i)
           \/ \E s \in Sock : Disconnect(s)
    PROVE  TypeOK'
<1>1. CASE \E t \in Thread, i \in Id : Assign(t, i)
  <2>1. PICK t \in Thread, i \in Id : Assign(t, i)
    BY <1>1
  <2>2. SockOf(i) \in Sock
    BY <2>1, UsableId DEF Assign
  <2> QED
    BY <2>1, <2>2 DEF Assign, TypeOK, fsVars
<1>2. CASE \E t \in Thread, i \in Id : Listen(t, i)
  <2>1. PICK t \in Thread, i \in Id : Listen(t, i)
    BY <1>2
  <2> QED
    BY <2>1 DEF Listen, TypeOK, fsVars
<1>3. CASE \E s \in Sock : Disconnect(s)
  BY <1>3 DEF Disconnect, TypeOK, sockVars
<1> QED
  BY <1>1, <1>2, <1>3

LEMMA TypeStep == IInv /\ [Next]_vars => TypeOK'
<1> SUFFICES ASSUME IInv, [Next]_vars PROVE TypeOK'
  OBVIOUS
<1>1. CASE Socket \/ AcceptNode \/ Client
  BY <1>1, SocketType, AcceptNodeType, ClientType DEF IInv
<1>2. CASE \E i \in Id : AcceptTake(i)
  BY <1>2, AcceptTakeType DEF IInv
<1>3. CASE \E t \in Thread, i \in Id :
               CloseCall(t, i) \/ FsCloseCall(t, i) \/ \E want \in 1..MaxLen : RecvFrom(t, i, want)
  BY <1>3, CloseType, RecvFromType DEF IInv
<1>4. CASE \E t \in Thread : CloseReturn(t) \/ FsCloseReturn(t)
  BY <1>4, CloseReturnType, FsCloseReturnType DEF IInv
<1>5. CASE \E s \in Sock, len \in 1..MaxLen, idx \in 0..(SIZE - 1) : Datagram(s, len, idx)
  BY <1>5, DatagramType DEF IInv
<1>6. CASE \/ \E t \in Thread, i \in Id : Assign(t, i) \/ Listen(t, i)
           \/ \E s \in Sock : Disconnect(s)
  BY <1>6, OtherType DEF IInv
<1>7. CASE UNCHANGED vars
  BY <1>7 DEF IInv, TypeOK, vars, fsVars, sockVars
<1> QED
  BY <1>1, <1>2, <1>3, <1>4, <1>5, <1>6, <1>7 DEF Next

-----------------------------------------------------------------------------
(* The file system *)

LEMMA OwnKept ==
    ASSUME Own, UNCHANGED <<last, fdNode, ref_cnt, live, fault>>
    PROVE  Own'
  BY DEF Own

\* A new node and its descriptor are beyond all others.
LEMMA OwnAlloc ==
    ASSUME TypeOK, Own, NEW s \in Sock, UNCHANGED fault,
           fs_node_create(last + 1, s), fs_fd_alloc(last + 1)
    PROVE  Own'
<1>1. last + 1 \in Id /\ fdNode[last + 1] = None /\ ref_cnt[last + 1] = 0
  BY AllocType DEF Own, TypeOK, None, Id
<1>2. \A i \in Id : fdNode'[i] = (IF i = last + 1 THEN i ELSE fdNode[i])
  BY <1>1 DEF fs_fd_alloc, TypeOK
<1>3. \A i \in Id : ref_cnt'[i] = (IF i = last + 1 THEN 1 ELSE ref_cnt[i])
  BY <1>1 DEF fs_fd_alloc, TypeOK
<1>4. last' = last + 1 /\ live' = live \cup {last + 1} /\ last \in Nat
  BY DEF fs_fd_alloc, fs_node_create, TypeOK
<1>5. \A i \in Id : i > last' => i > last /\ i # last + 1
  BY <1>4 DEF Id
<1>6. live \subseteq Id
  BY DEF TypeOK
<1> QED
  BY <1>1, <1>2, <1>3, <1>4, <1>5, <1>6 DEF Own

\* bos_close never destroys: its descriptor still counts.
LEMMA CloseReturnKeeps ==
    ASSUME TypeOK, Own, Held, ~fault, NEW t \in Thread, CloseReturn(t)
    PROVE  UNCHANGED <<last, fdNode, ref_cnt, live, fault>>
<1>1. /\ call[t].node \in Id /\ call[t].node \in live
      /\ ref_cnt[call[t].node] = 1
  BY DEF CloseReturn, Held, Own, Closing
<1>2. fs_node_destroy(call[t].node, ref_cnt) = live
  BY <1>1 DEF fs_node_destroy
<1>3. live' = live /\ fault' = fault
  BY <1>1, <1>2 DEF CloseReturn, TypeOK
<1> QED
  BY <1>3 DEF CloseReturn

\* The close operation takes the descriptor and its count away, and the node
\* with them, unless it is misled by the freed descriptor.
LEMMA OwnFsCloseReturn ==
    ASSUME TypeOK, Own, Held, NEW t \in Thread, FsCloseReturn(t)
    PROVE  Own'
<1> DEFINE c == call[t].id
<1>1. c \in Id /\ call[t].node = c /\ fdNode[c] = c /\ ref_cnt[c] = 1
  BY DEF FsCloseReturn, Held, Own, Closing
<1>2. /\ \A i \in Id : fdNode'[i] = (IF i = c THEN None ELSE fdNode[i])
      /\ None \notin Id
  BY <1>1 DEF FsCloseReturn, TypeOK, None, Id
<1>3. \A i \in Id : ref_cnt'[i] = (IF i = c THEN 0 ELSE ref_cnt[i])
  BY <1>1 DEF FsCloseReturn, RefsWithout, TypeOK
<1>4. \/ live' = live \ {c} /\ fault' = fault
      \/ live' = live /\ fault' = TRUE
  BY <1>1, <1>3 DEF FsCloseReturn, fs_node_destroy
<1>5. last' = last
  BY DEF FsCloseReturn
<1>6. live \subseteq Id
  BY DEF TypeOK
<1> HIDE DEF c
<1>7. ASSUME NEW i \in Id
      PROVE  /\ fdNode'[i] \in {None, i}
             /\ i > last' => fdNode'[i] = None
             /\ ref_cnt'[i] = IF fdNode'[i] = i THEN 1 ELSE 0
             /\ fdNode'[i] = i => i \in live'
  <2>1. CASE i = c
    BY <2>1, <1>2, <1>3, <1>4 DEF None
  <2>2. CASE i # c
    <3>1. fdNode'[i] = fdNode[i] /\ ref_cnt'[i] = ref_cnt[i] /\ (i \in live => i \in live')
      BY <2>2, <1>2, <1>3, <1>4
    <3> QED
      BY <3>1, <1>5 DEF Own
  <2> QED
    BY <2>1, <2>2
<1>8. ~fault' => \A n \in live' : fdNode'[n] = n
  BY <1>2, <1>4, <1>6 DEF Own
<1> QED
  BY <1>7, <1>8 DEF Own

LEMMA OwnStep == IInv /\ [Next]_vars => Own'
<1> SUFFICES ASSUME IInv, [Next]_vars PROVE Own'
  OBVIOUS
<1>1. CASE Socket
  <2>1. nsock + 1 \in Sock
    BY <1>1, Bounds DEF Socket, IInv, TypeOK, Sock
  <2> QED
    BY <1>1, <2>1, OwnAlloc DEF Socket, IInv
<1>2. CASE AcceptNode
  <2>1. call[Main].sock \in Sock
    BY <1>2, MainAssumption DEF AcceptNode, IInv, Held
  <2> QED
    BY <1>2, <2>1, OwnAlloc DEF AcceptNode, IInv
<1>3. CASE ~fault /\ \E t \in Thread : CloseReturn(t)
  BY <1>3, CloseReturnKeeps, OwnKept DEF IInv
<1>4. CASE \E t \in Thread : FsCloseReturn(t)
  BY <1>4, OwnFsCloseReturn DEF IInv
<1>5. CASE \/ Client \/ \E i \in Id : AcceptTake(i)
           \/ \E t \in Thread, i \in Id :
                  \/ Assign(t, i) \/ Listen(t, i) \/ CloseCall(t, i) \/ FsCloseCall(t, i)
                  \/ \E want \in 1..MaxLen : RecvFrom(t, i, want)
           \/ \E s \in Sock : Disconnect(s)
           \/ \E s \in Sock, len \in 1..MaxLen, idx \in 0..(SIZE - 1) : Datagram(s, len, idx)
           \/ UNCHANGED vars
  <2>1. UNCHANGED <<last, fdNode, ref_cnt, live, fault>>
    BY <1>5 DEF Client, AcceptTake, Assign, Listen, CloseCall, FsCloseCall, RecvFrom,
                Disconnect, Datagram, vars, fsVars
  <2> QED
    BY <2>1, OwnKept DEF IInv
<1> QED
  BY <1>1, <1>2, <1>3, <1>4, <1>5 DEF Next

-----------------------------------------------------------------------------
(* Calls in progress *)

LEMMA HeldKept ==
    ASSUME Held, UNCHANGED call,
           \A i \in Id : fdNode[i] = i => fdNode'[i] = i
    PROVE  Held'
  BY DEF Held, Closing

\* A call that is not closing, begun by a thread that was idle or a call of
\* whose has ended.
LEMMA HeldOpen ==
    ASSUME TypeOK, Held, NEW t \in Thread,
           NEW c \in [op : {"none", "accept"}, id : {None}, node : {None},
                      sock : Sock \cup {None}],
           c.op = "accept" => c.sock \in Sock,
           call' = [call EXCEPT ![t] = c],
           \A u \in Thread \ {t} : Closing(u) =>
               fdNode'[call[u].id] = fdNode[call[u].id]
    PROVE  Held'
<1>1. call'[t] = c /\ \A u \in Thread \ {t} : call'[u] = call[u]
  BY DEF TypeOK
<1>2. None \notin Id
  BY DEF None, Id
<1> QED
  BY <1>1, <1>2 DEF Held, Closing

\* A closing call begins on a descriptor of its own node.
LEMMA HeldClosing ==
    ASSUME TypeOK, Own, Held, NEW t \in Thread, NEW i \in Id,
           CloseCall(t, i) \/ FsCloseCall(t, i)
    PROVE  Held'
<1>1. fdNode[i] = i /\ fdNode' = fdNode
  BY DEF CloseCall, FsCloseCall, Usable, Own, fsVars
<1>2. /\ call'[t].id = i /\ call'[t].node = i
      /\ \A u \in Thread \ {t} : call'[u] = call[u]
  BY <1>1 DEF CloseCall, FsCloseCall, TypeOK
<1>3. CASE CloseCall(t, i)
  <2>1. call'[t].op = "close"
    BY <1>3 DEF CloseCall, TypeOK
  <2>2. \A u \in Thread : call[u].op = "fs_close" => call[u].id # i
    BY <1>3 DEF CloseCall, Usable
  <2> QED
    BY <1>1, <1>2, <2>1, <2>2 DEF Held, Closing
<1>4. CASE FsCloseCall(t, i)
  <2>1. call'[t].op = "fs_close"
    BY <1>4 DEF FsCloseCall, TypeOK
  <2>2. \A u \in Thread : call[u].id # i
    BY <1>4 DEF FsCloseCall
  <2> QED
    BY <1>1, <1>2, <2>1, <2>2 DEF Held, Closing
<1> QED
  BY <1>3, <1>4

LEMMA IdleCall ==
    Idle \in [op : {"none", "accept"}, id : {None}, node : {None}, sock : Sock \cup {None}]
  BY DEF Idle

\* A descriptor that exists is not the one that is made next.
LEMMA AllocApart ==
    ASSUME TypeOK, Own, fs_fd_alloc(last + 1)
    PROVE  \A i \in Id : fdNode[i] = i => fdNode'[i] = fdNode[i]
<1>1. \A i \in Id : fdNode[i] = i => i # last + 1
  BY DEF Own, TypeOK, Id, None
<1> QED
  BY <1>1 DEF fs_fd_alloc, TypeOK

LEMMA HeldStep == IInv /\ [Next]_vars => Held'
<1> SUFFICES ASSUME IInv, [Next]_vars PROVE Held'
  OBVIOUS
<1> USE DEF IInv
<1>1. CASE Socket
  <2>1. \A i \in Id : fdNode[i] = i => fdNode'[i] = i
    BY <1>1, AllocApart DEF Socket
  <2> QED
    BY <1>1, <2>1, HeldKept DEF Socket
<1>2. CASE AcceptNode
  <2>1. \A i \in Id : fdNode[i] = i => fdNode'[i] = fdNode[i]
    BY <1>2, AllocApart DEF AcceptNode
  <2>2. \A u \in Thread : Closing(u) => fdNode'[call[u].id] = fdNode[call[u].id]
    BY <2>1 DEF Held
  <2> QED
    BY <1>2, <2>2, MainAssumption, IdleCall, HeldOpen DEF AcceptNode, Idle
<1>3. CASE \E i \in Id : AcceptTake(i)
  <2>1. PICK i \in Id : AcceptTake(i)
    BY <1>3
  <2> DEFINE cl == Head(clients[SockOf(i)])
             c == [Idle EXCEPT !.op = "accept", !.sock = cl]
  <2>2. SockOf(i) \in Sock
    BY <2>1, UsableId, MainAssumption DEF AcceptTake, TypeOK
  <2>3. clients[SockOf(i)] \in Seq(Sock) /\ clients[SockOf(i)] # <<>>
    BY <2>1, <2>2 DEF AcceptTake, TypeOK
  <2>4. cl \in Sock
    BY <2>3
  <2>5. /\ c \in [op : {"none", "accept"}, id : {None}, node : {None},
                  sock : Sock \cup {None}]
        /\ c.op = "accept" /\ c.sock \in Sock
    BY <2>4 DEF Idle
  <2>6. call' = [call EXCEPT ![Main] = c] /\ fdNode' = fdNode
    BY <2>1 DEF AcceptTake, fsVars
  <2> HIDE DEF c
  <2> QED
    BY <2>5, <2>6, MainAssumption, HeldOpen
<1>4. CASE \E t \in Thread : CloseReturn(t)
  BY <1>4, IdleCall, HeldOpen DEF CloseReturn, Idle
<1>5. CASE \E t \in Thread : FsCloseReturn(t)
  <2>1. PICK t \in Thread : FsCloseReturn(t)
    BY <1>5
  <2>2. \A u \in Thread \ {t} : Closing(u) => call[u].id \in Id /\ call[u].id # call[t].id
    BY <2>1 DEF Held, FsCloseReturn
  <2>3. fdNode' = [fdNode EXCEPT ![call[t].id] = None]
    BY <2>1 DEF FsCloseReturn
  <2>4. \A u \in Thread \ {t} : Closing(u) => fdNode'[call[u].id] = fdNode[call[u].id]
    BY <2>2, <2>3 DEF TypeOK
  <2> QED
    BY <2>1, <2>4, IdleCall, HeldOpen DEF FsCloseReturn, Idle
<1>6. CASE \E t \in Thread, i \in Id : CloseCall(t, i) \/ FsCloseCall(t, i)
  BY <1>6, HeldClosing
<1>7. CASE \/ Client
           \/ \E t \in Thread, i \in Id :
                  Assign(t, i) \/ Listen(t, i) \/ \E want \in 1..MaxLen : RecvFrom(t, i, want)
           \/ \E s \in Sock : Disconnect(s)
           \/ \E s \in Sock, len \in 1..MaxLen, idx \in 0..(SIZE - 1) : Datagram(s, len, idx)
           \/ UNCHANGED vars
  <2>1. UNCHANGED <<fdNode, call>>
    BY <1>7 DEF Client, Assign, Listen, RecvFrom, Disconnect, Datagram, vars, fsVars
  <2> QED
    BY <2>1, HeldKept
<1> QED
  BY <1>1, <1>2, <1>3, <1>4, <1>5, <1>6, <1>7 DEF Next

-----------------------------------------------------------------------------
(* Theorems *)

LEMMA InitInv == Init => IInv
<1> SUFFICES ASSUME Init PROVE IInv
  OBVIOUS
<1>1. None \notin Id
  BY DEF None, Id
<1>2. Own
  BY <1>1 DEF Init, Own
<1>3. Held
  BY DEF Init, Held, Closing, Idle
<1> QED
  BY <1>2, <1>3, InitType DEF IInv

LEMMA StepInv == IInv /\ [Next]_vars => IInv'
  BY TypeStep, OwnStep, HeldStep DEF IInv

LEMMA Invariance == Spec => []IInv
  BY InitInv, StepInv, PTL DEF Spec

\* The variables of the socket layer and the file system keep their types: a
\* call blocked in the driver holds a descriptor and a node.
THEOREM TypeCorrect == Spec => []TypeOK
<1>1. IInv => TypeOK
  BY DEF IInv
<1> QED
  BY <1>1, Invariance, PTL

\* ref_cnt is the number of descriptors of a node (fs.c 82, 93).
THEOREM CountsExact == Spec => []RefsCounted
<1>1. ASSUME IInv PROVE RefsCounted
  <2> SUFFICES ASSUME NEW n \in live
               PROVE  ref_cnt[n] = Cardinality({i \in Id : fdNode[i] = n})
    BY DEF RefsCounted
  <2>1. n \in Id /\ None \notin Id
    BY <1>1 DEF IInv, TypeOK, None, Id
  <2>2. \A i \in Id : fdNode[i] = n => i = n
    BY <1>1, <2>1 DEF IInv, Own
  <2>3. CASE fdNode[n] = n
    <3>1. {i \in Id : fdNode[i] = n} = {n} /\ ref_cnt[n] = 1
      BY <1>1, <2>1, <2>2, <2>3 DEF IInv, Own
    <3> QED
      BY <3>1, FS_Singleton
  <2>4. CASE fdNode[n] # n
    <3>1. {i \in Id : fdNode[i] = n} = {} /\ ref_cnt[n] = 0
      BY <1>1, <2>1, <2>2, <2>4 DEF IInv, Own
    <3> QED
      BY <3>1, FS_EmptySet
  <2> QED
    BY <2>3, <2>4
<1> QED
  BY <1>1, Invariance, PTL

\* The nodes of the socket directory are those the descriptors refer to.
THEOREM NodesMatch == Spec => []NodesAgree
<1>1. ASSUME IInv PROVE NodesAgree
  <2> SUFFICES ASSUME ~fault PROVE live = {fdNode[i] : i \in Id} \ {None}
    BY DEF NodesAgree
  <2>1. live \subseteq Id /\ None \notin Id
    BY <1>1 DEF IInv, TypeOK, None, Id
  <2>2. \A n \in live : fdNode[n] = n
    BY <1>1 DEF IInv, Own
  <2>3. \A i \in Id : fdNode[i] = None \/ (fdNode[i] = i /\ i \in live)
    BY <1>1 DEF IInv, Own
  <2> QED
    BY <2>1, <2>2, <2>3
<1> QED
  BY <1>1, Invariance, PTL

\* bos_close and the close operation find the node they looked up before they
\* blocked in the driver (netdev.c 421, 446).
THEOREM NodeOutlivesCall == Spec => []CloseNodeAlive
<1>1. IInv => CloseNodeAlive
  BY DEF IInv, Own, Held, Closing, CloseNodeAlive
<1> QED
  BY <1>1, Invariance, PTL

-----------------------------------------------------------------------------
(* Datagrams *)

LEMMA Modulo == ASSUME NEW a \in 0..(SIZE - 1) PROVE a % SIZE = a
  BY SizeAssumption

Orderly(d) == d.start <= d.len => d.idx = d.start + d.got /\ d.idx <= d.len

\* A call that starts inside a datagram stays inside it.
LEMMA CopyInside ==
    ASSUME NEW d \in Dgram, NEW want \in 1..MaxLen, Orderly(d), d.start <= d.len
    PROVE  /\ (d.idx + Copied(want, d)) % SIZE = d.start + ((d.got + Copied(want, d)) % SIZE)
           /\ (d.idx + Copied(want, d)) % SIZE <= d.len
<1> DEFINE n == Copied(want, d)
<1>1. /\ d.len \in Nat /\ d.len < SIZE /\ SIZE \in Nat
      /\ d.start \in Nat /\ d.got \in Nat /\ d.idx = d.start + d.got /\ d.idx <= d.len
  BY SizeAssumption DEF Orderly, Dgram
<1>2. (d.len - d.idx) % SIZE = d.len - d.idx
  <2>1. d.len - d.idx \in 0..(SIZE - 1)
    BY <1>1
  <2> QED
    BY <2>1, Modulo
<1>3. n \in Nat /\ n <= d.len - d.idx
  BY <1>1, <1>2, SizeAssumption DEF Copied
<1> HIDE DEF n
<1>4. d.idx + n \in 0..(SIZE - 1) /\ d.got + n \in 0..(SIZE - 1)
  BY <1>1, <1>3
<1>5. (d.idx + n) % SIZE = d.idx + n /\ (d.got + n) % SIZE = d.got + n
  BY <1>4, Modulo
<1>6. /\ (d.idx + n) % SIZE = d.start + ((d.got + n) % SIZE)
      /\ (d.idx + n) % SIZE <= d.len
  BY <1>1, <1>3, <1>5
<1> QED
  BY <1>6 DEF n

\* The part of the datagram's header that bos_recvfrom updates (netdev.c 374-376).
Read(want, d) == [d EXCEPT !.idx = (d.idx + Copied(want, d)) % SIZE,
                           !.got = (d.got + Copied(want, d)) % SIZE]

LEMMA ReadOrderly ==
    ASSUME NEW d \in Dgram, NEW want \in 1..MaxLen, Orderly(d)
    PROVE  Orderly(Read(want, d))
<1> DEFINE idx == (d.idx + Copied(want, d)) % SIZE
           got == (d.got + Copied(want, d)) % SIZE
<1>1. /\ Read(want, d).start = d.start /\ Read(want, d).len = d.len
      /\ Read(want, d).idx = idx /\ Read(want, d).got = got
  BY DEF Dgram, Read
<1>2. ASSUME d.start <= d.len PROVE idx = d.start + got /\ idx <= d.len
  BY <1>2, CopyInside
<1> HIDE DEF idx, got
<1> QED
  BY <1>1, <1>2 DEF Orderly

\* What DgramInOrder says of one socket.
QueueInOrder(ds) == \A k \in DOMAIN ds : (k > 1 => ds[k].got = 0) /\ Orderly(ds[k])

LEMMA RecvFromInOrder ==
    ASSUME TypeOK, NEW t \in Thread, NEW i \in Id, NEW want \in 1..MaxLen,
           RecvFrom(t, i, want), \A s \in Sock : QueueInOrder(dgrams[s])
    PROVE  \A s \in Sock : QueueInOrder(dgrams'[s])
<1> DEFINE s == SockOf(i)
           d == Head(dgrams[s])
           read == Read(want, d)
<1>1. s \in Sock /\ dgrams[s] \in Seq(Dgram) /\ dgrams[s] # <<>>
  <2>1. s \in Sock
    BY UsableId DEF RecvFrom
  <2> QED
    BY <2>1 DEF RecvFrom, TypeOK
<1>2. d = dgrams[s][1] /\ d \in Dgram /\ 1 \in DOMAIN dgrams[s]
  BY <1>1
<1>3. Orderly(d)
  BY <1>1, <1>2 DEF QueueInOrder
<1>4. Orderly(read)
  BY <1>2, <1>3, ReadOrderly
<1>5. \/ dgrams' = [dgrams EXCEPT ![s] = Tail(dgrams[s])]
      \/ dgrams' = [dgrams EXCEPT ![s] = [dgrams[s] EXCEPT ![1] = read]]
  <2>1. [dgrams[s] EXCEPT ![1].idx = (d.idx + Copied(want, d)) % SIZE,
                          ![1].got = (d.got + Copied(want, d)) % SIZE]
            = [dgrams[s] EXCEPT ![1] = read]
    BY <1>1, <1>2 DEF Read
  <2> QED
    BY <1>1, <2>1 DEF RecvFrom
<1> HIDE DEF read, d
<1>6. CASE dgrams' = [dgrams EXCEPT ![s] = Tail(dgrams[s])]
  <2>1. QueueInOrder(dgrams[s])
    BY <1>1
  <2>2. \A k \in DOMAIN Tail(dgrams[s]) :
            k \in Nat \ {0} /\ k + 1 \in DOMAIN dgrams[s]
            /\ Tail(dgrams[s])[k] = dgrams[s][k + 1]
    BY <1>1
  <2>3. QueueInOrder(Tail(dgrams[s]))
    BY <2>1, <2>2 DEF QueueInOrder
  <2> QED
    BY <1>1, <1>6, <2>3 DEF TypeOK
<1>7. CASE dgrams' = [dgrams EXCEPT ![s] = [dgrams[s] EXCEPT ![1] = read]]
  <2>1. QueueInOrder(dgrams[s])
    BY <1>1
  <2>2. QueueInOrder([dgrams[s] EXCEPT ![1] = read])
    BY <1>1, <1>2, <1>4, <2>1 DEF QueueInOrder
  <2> QED
    BY <1>1, <1>7, <2>2 DEF TypeOK
<1> QED
  BY <1>5, <1>6, <1>7

LEMMA DatagramInOrder ==
    ASSUME TypeOK, NEW s \in Sock, NEW len \in 1..MaxLen, NEW idx \in 0..(SIZE - 1),
           Datagram(s, len, idx), \A u \in Sock : QueueInOrder(dgrams[u])
    PROVE  \A u \in Sock : QueueInOrder(dgrams'[u])
<1> DEFINE d == [len |-> len, idx |-> idx, start |-> idx, got |-> 0]
           more == Append(dgrams[s], d)
<1>1. Orderly(d) /\ d.got = 0
  BY SizeAssumption DEF Orderly
<1>2. dgrams[s] \in Seq(Dgram) /\ QueueInOrder(dgrams[s]) /\ d \in Dgram
  BY DEF TypeOK, Dgram
<1> HIDE DEF d
<1>3. \A k \in DOMAIN more : \/ k \in DOMAIN dgrams[s] /\ more[k] = dgrams[s][k]
                             \/ more[k] = d
  BY <1>2
<1>4. QueueInOrder(more)
  BY <1>1, <1>2, <1>3 DEF QueueInOrder
<1>5. dgrams' = [dgrams EXCEPT ![s] = more]
  BY DEF Datagram, d
<1> QED
  BY <1>4, <1>5 DEF TypeOK

\* A datagram whose idx happens to start inside it is read from there to its
\* end without a gap, whatever calls come in between (netdev.c 374-383).
THEOREM DgramsInOrder == Spec => []DgramInOrder
<1> DEFINE Inv == \A s \in Sock : QueueInOrder(dgrams[s])
<1>1. Init => Inv
  BY DEF Init, QueueInOrder
<1>2. IInv /\ Inv /\ [Next]_vars => Inv'
  <2> SUFFICES ASSUME IInv, Inv, [Next]_vars PROVE Inv'
    OBVIOUS
  <2>1. CASE \E t \in Thread, i \in Id, want \in 1..MaxLen : RecvFrom(t, i, want)
    BY <2>1, RecvFromInOrder DEF IInv
  <2>2. CASE \E s \in Sock, len \in 1..MaxLen, idx \in 0..(SIZE - 1) : Datagram(s, len, idx)
    BY <2>2, DatagramInOrder DEF IInv
  <2>3. CASE \/ Socket \/ AcceptNode \/ Client \/ \E i \in Id : AcceptTake(i)
             \/ \E t \in Thread, i \in Id :
                    Assign(t, i) \/ Listen(t, i) \/ CloseCall(t, i) \/ FsCloseCall(t, i)
             \/ \E t \in Thread : CloseReturn(t) \/ FsCloseReturn(t)
             \/ \E s \in Sock : Disconnect(s)
             \/ UNCHANGED vars
    <3>1. UNCHANGED dgrams
      BY <2>3 DEF Socket, AcceptNode, Client, AcceptTake, Assign, Listen, CloseCall,
                  FsCloseCall, CloseReturn, FsCloseReturn, Disconnect, vars, sockVars
    <3> QED
      BY <3>1
  <2> QED
    BY <2>1, <2>2, <2>3 DEF Next
<1>3. Inv => DgramInOrder
  BY DEF QueueInOrder, Orderly, DgramInOrder
<1> QED
  BY <1>1, <1>2, <1>3, Invariance, PTL DEF Spec

-----------------------------------------------------------------------------
(* Places *)

\* Nodes, clients lists and the accept in progress hold sockets that have been
\* made, and each holds different ones.
Made ==
    /\ \A n \in live : data[n] # None => data[n] \in 1..nsock
    /\ \A r \in Sock : \A k \in DOMAIN clients[r] : clients[r][k] \in 1..nsock
    /\ \A t \in Thread : call[t].op = "accept" => t = Main /\ call[t].sock \in 1..nsock

Apart ==
    /\ \A n, m \in live : data[n] = data[m] /\ data[n] # None => n = m
    /\ \A n \in live, r \in Sock : \A k \in DOMAIN clients[r] : clients[r][k] # data[n]
    /\ \A q, r \in Sock : \A k \in DOMAIN clients[q], l \in DOMAIN clients[r] :
           clients[q][k] = clients[r][l] => q = r /\ k = l
    /\ call[Main].op = "accept" => \A n \in live : data[n] # call[Main].sock
    /\ call[Main].op = "accept" =>
           \A r \in Sock : \A k \in DOMAIN clients[r] : clients[r][k] # call[Main].sock

\* Sockets only lose their places.
LEMMA PlacesLost ==
    ASSUME Made, Apart, UNCHANGED <<clients, nsock>>, live' \subseteq live,
           \A n \in live' : data'[n] \in {data[n], None},
           \A t \in Thread : call'[t].op = "accept" => call'[t] = call[t]
    PROVE  Made' /\ Apart'
<1>1. \A r \in Sock : \A k \in DOMAIN clients[r] : clients[r][k] # None
  BY DEF Made, None
<1>2. \A t \in Thread : call'[t].op = "accept" => call'[t].sock # None
  BY DEF Made, None
<1>3. Made'
  BY DEF Made
<1>4. Apart'
  BY <1>1, <1>2, MainAssumption DEF Apart
<1> QED
  BY <1>3, <1>4

\* A socket gets a node: a new one, or the one being accepted.
LEMMA PlaceNode ==
    ASSUME TypeOK, Made, Apart, NEW s \in Sock, s \in 1..nsock',
           nsock' \in Nat, nsock <= nsock', UNCHANGED clients,
           fs_node_create(last + 1, s), fs_fd_alloc(last + 1),
           call'[Main].op # "accept",
           \A t \in Thread \ {Main} : call'[t] = call[t],
           \A n \in live : data[n] # s,
           \A r \in Sock : \A k \in DOMAIN clients[r] : clients[r][k] # s
    PROVE  Made' /\ Apart'
<1>1. last + 1 \in Id
  BY AllocType
<1>2. \A n \in live' : data'[n] = (IF n = last + 1 THEN s ELSE data[n])
  BY <1>1 DEF fs_node_create, TypeOK
<1>3. \A n \in live' : n = last + 1 \/ n \in live
  BY DEF fs_node_create
<1>4. 1..nsock \subseteq 1..nsock'
  BY DEF TypeOK
<1>5. Made'
  <2>1. \A n \in live' : data'[n] # None => data'[n] \in 1..nsock'
    BY <1>2, <1>3, <1>4 DEF Made
  <2>2. \A r \in Sock : \A k \in DOMAIN clients[r] : clients[r][k] \in 1..nsock'
    BY <1>4 DEF Made
  <2>3. \A t \in Thread : call'[t].op # "accept"
    BY DEF Made
  <2> QED
    BY <2>1, <2>2, <2>3 DEF Made
<1>6. Apart'
  <2>1. \A n, m \in live' : data'[n] = data'[m] /\ data'[n] # None => n = m
    BY <1>2, <1>3 DEF Apart
  <2>2. \A n \in live', r \in Sock : \A k \in DOMAIN clients[r] : clients[r][k] # data'[n]
    BY <1>2, <1>3 DEF Apart
  <2> QED
    BY <2>1, <2>2 DEF Apart
<1> QED
  BY <1>5, <1>6

LEMMA SocketPlace == TypeOK /\ Made /\ Apart /\ Socket => Made' /\ Apart'
<1> SUFFICES ASSUME TypeOK, Made, Apart, Socket PROVE Made' /\ Apart'
  OBVIOUS
<1>1. nsock + 1 \in Sock /\ nsock \in Nat /\ nsock' = nsock + 1 /\ nsock' \in Nat
  BY Bounds DEF Socket, TypeOK, Sock
<1>2. nsock + 1 \in 1..nsock' /\ nsock <= nsock' /\ nsock + 1 \notin 1..nsock
  BY <1>1
<1>3. nsock + 1 # None
  BY <1>1 DEF None
<1>4. \A n \in live : data[n] # nsock + 1
  BY <1>2, <1>3 DEF Made
<1>5. \A r \in Sock : \A k \in DOMAIN clients[r] : clients[r][k] # nsock + 1
  BY <1>2 DEF Made
<1>6. call' = call /\ call[Main].op # "accept"
  BY DEF Socket, Idle
<1>7. /\ fs_node_create(last + 1, nsock + 1) /\ fs_fd_alloc(last + 1)
      /\ UNCHANGED clients
  BY DEF Socket
<1> QED
  BY <1>1, <1>2, <1>4, <1>5, <1>6, <1>7, PlaceNode

LEMMA AcceptNodePlace == TypeOK /\ Held /\ Made /\ Apart /\ AcceptNode => Made' /\ Apart'
<1> SUFFICES ASSUME TypeOK, Held, Made, Apart, AcceptNode PROVE Made' /\ Apart'
  OBVIOUS
<1> DEFINE s == call[Main].sock
<1>1. s \in Sock /\ nsock' = nsock /\ s \in 1..nsock' /\ nsock \in Nat /\ nsock <= nsock'
  BY MainAssumption DEF AcceptNode, Held, Made, TypeOK, sockVars
<1>2. /\ \A n \in live : data[n] # s
      /\ \A r \in Sock : \A k \in DOMAIN clients[r] : clients[r][k] # s
  BY DEF AcceptNode, Apart
<1>3. /\ call'[Main].op # "accept"
      /\ \A t \in Thread \ {Main} : call'[t] = call[t]
  BY MainAssumption DEF AcceptNode, TypeOK, Idle
<1>4. fs_node_create(last + 1, s) /\ fs_fd_alloc(last + 1) /\ UNCHANGED clients
  BY DEF AcceptNode, sockVars
<1> HIDE DEF s
<1> QED
  BY <1>1, <1>2, <1>3, <1>4, PlaceNode

\* A new client is in one list, and nowhere else.
LEMMA ClientPlace == TypeOK /\ Made /\ Apart /\ Client => Made' /\ Apart'
<1> SUFFICES ASSUME TypeOK, Made, Apart, Client PROVE Made' /\ Apart'
  OBVIOUS
<1> DEFINE s == nsock + 1
           srv == tcp_server
           end == Len(clients[srv]) + 1
<1>1. /\ srv \in Sock /\ nsock \in Nat /\ nsock' = s /\ clients[srv] \in Seq(Sock)
      /\ s \in Sock
  BY Bounds DEF Client, TypeOK, Sock
<1>2. s \in 1..nsock' /\ s \notin 1..nsock /\ 1..nsock \subseteq 1..nsock' /\ s # None
  BY <1>1 DEF None
<1>3. UNCHANGED <<live, data, call>>
  BY DEF Client, fsVars
<1>4. \A r \in Sock : r # srv => clients'[r] = clients[r]
  BY DEF Client, TypeOK
<1>5. /\ clients'[srv] = Append(clients[srv], s)
      /\ end \notin DOMAIN clients[srv]
      /\ \A k \in DOMAIN clients'[srv] :
            \/ k = end /\ clients'[srv][k] = s
            \/ k \in DOMAIN clients[srv] /\ clients'[srv][k] = clients[srv][k]
  BY <1>1 DEF Client, TypeOK
<1> HIDE DEF s, end, srv
<1>6. \A r \in Sock : \A k \in DOMAIN clients'[r] :
          \/ r = srv /\ k = end /\ clients'[r][k] = s
          \/ k \in DOMAIN clients[r] /\ clients'[r][k] = clients[r][k]
  BY <1>4, <1>5
<1>7. /\ \A n \in live : data[n] # s
      /\ \A r \in Sock : \A k \in DOMAIN clients[r] : clients[r][k] # s
      /\ call[Main].op = "accept" => call[Main].sock # s
  BY <1>2, MainAssumption DEF Made
<1>8. Made'
  BY <1>2, <1>3, <1>6 DEF Made
<1>9. Apart'
  <2>1. \A n \in live, r \in Sock : \A k \in DOMAIN clients'[r] : clients'[r][k] # data[n]
    BY <1>6, <1>7 DEF Apart
  <2>2. \A q, r \in Sock : \A k \in DOMAIN clients'[q], l \in DOMAIN clients'[r] :
            clients'[q][k] = clients'[r][l] => q = r /\ k = l
    BY <1>6, <1>7 DEF Apart
  <2>3. call[Main].op = "accept" =>
            \A r \in Sock : \A k \in DOMAIN clients'[r] : clients'[r][k] # call[Main].sock
    BY <1>6, <1>7 DEF Apart
  <2> QED
    BY <1>3, <2>1, <2>2, <2>3 DEF Apart
<1> QED
  BY <1>8, <1>9

\* The first client moves from the list to the accept in progress.
LEMMA AcceptTakePlace ==
    ASSUME TypeOK, Made, Apart, NEW i \in Id, AcceptTake(i)
    PROVE  Made' /\ Apart'
<1> DEFINE srv == SockOf(i)
           cl == Head(clients[srv])
<1>1. /\ srv \in Sock /\ clients[srv] \in Seq(Sock) /\ clients[srv] # <<>>
      /\ 1 \in DOMAIN clients[srv] /\ cl = clients[srv][1]
  <2>1. srv \in Sock
    BY UsableId, MainAssumption DEF AcceptTake, TypeOK
  <2>2. clients[srv] \in Seq(Sock) /\ clients[srv] # <<>>
    BY <2>1 DEF AcceptTake, TypeOK
  <2> QED
    BY <2>1, <2>2
<1>2. UNCHANGED <<live, data, nsock>>
  BY DEF AcceptTake, fsVars
<1>3. \A r \in Sock : r # srv => clients'[r] = clients[r]
  BY DEF AcceptTake, TypeOK
<1>4. clients'[srv] = Tail(clients[srv])
  BY <1>1 DEF AcceptTake, TypeOK
<1>5. /\ call'[Main].op = "accept" /\ call'[Main].sock = cl
      /\ \A t \in Thread \ {Main} : call'[t] = call[t]
  BY MainAssumption DEF AcceptTake, TypeOK, Idle
<1> HIDE DEF srv, cl
<1>6. \A k \in DOMAIN clients'[srv] :
          /\ k \in Nat \ {0} /\ k + 1 \in DOMAIN clients[srv]
          /\ clients'[srv][k] = clients[srv][k + 1]
  BY <1>1, <1>4
<1>7. \A r \in Sock : \A k \in DOMAIN clients'[r] :
          \E l \in DOMAIN clients[r] :
              /\ l = IF r = srv THEN k + 1 ELSE k
              /\ clients'[r][k] = clients[r][l]
              /\ r = srv => l # 1
  BY <1>3, <1>6
<1>8. cl \in 1..nsock
  BY <1>1 DEF Made
<1>9. Made'
  BY <1>2, <1>5, <1>7, <1>8 DEF Made
<1>10. Apart'
  <2>1. \A n, m \in live : data[n] = data[m] /\ data[n] # None => n = m
    BY DEF Apart
  <2>2. \A n \in live, r \in Sock : \A k \in DOMAIN clients'[r] : clients'[r][k] # data[n]
    BY <1>7 DEF Apart
  <2>3. ASSUME NEW q \in Sock, NEW r \in Sock,
               NEW k \in DOMAIN clients'[q], NEW l \in DOMAIN clients'[r],
               clients'[q][k] = clients'[r][l]
        PROVE  q = r /\ k = l
    <3>1. PICK k0 \in DOMAIN clients[q] :
              k0 = (IF q = srv THEN k + 1 ELSE k) /\ clients'[q][k] = clients[q][k0]
      BY <1>7
    <3>2. PICK l0 \in DOMAIN clients[r] :
              l0 = (IF r = srv THEN l + 1 ELSE l) /\ clients'[r][l] = clients[r][l0]
      BY <1>7
    <3>3. q = r /\ k0 = l0
      <4>1. clients[q][k0] = clients[r][l0]
        BY <2>3, <3>1, <3>2
      <4> QED
        BY <4>1 DEF Apart
    <3>4. CASE q = srv
      <4>1. k \in Nat /\ l \in Nat /\ k + 1 = l + 1
        BY <1>6, <3>1, <3>2, <3>3, <3>4
      <4> QED
        BY <4>1, <3>3
    <3>5. CASE q # srv
      BY <3>1, <3>2, <3>3, <3>5
    <3> QED
      BY <3>4, <3>5
  <2>4. \A n \in live : data[n] # cl
    BY <1>1 DEF Apart
  <2>5. \A r \in Sock : \A k \in DOMAIN clients'[r] : clients'[r][k] # cl
    BY <1>1, <1>7 DEF Apart
  <2> QED
    BY <1>2, <1>5, <2>1, <2>2, <2>3, <2>4, <2>5 DEF Apart
<1> QED
  BY <1>9, <1>10

LEMMA PlaceStep == IInv /\ Made /\ Apart /\ [Next]_vars => Made' /\ Apart'
<1> SUFFICES ASSUME IInv, Made, Apart, [Next]_vars PROVE Made' /\ Apart'
  OBVIOUS
<1> USE DEF IInv
<1>1. CASE Socket \/ AcceptNode \/ Client \/ \E i \in Id : AcceptTake(i)
  BY <1>1, SocketPlace, AcceptNodePlace, ClientPlace, AcceptTakePlace
<1>2. CASE \E s \in Sock : Disconnect(s)
  <2>1. UNCHANGED <<clients, nsock, live, call>>
    BY <1>2 DEF Disconnect, sockVars
  <2>2. \A n \in live : data'[n] \in {data[n], None}
    BY <1>2 DEF Disconnect, TypeOK
  <2> QED
    BY <2>1, <2>2, PlacesLost
<1>3. CASE \E t \in Thread : CloseReturn(t) \/ FsCloseReturn(t)
  <2>1. PICK t \in Thread : CloseReturn(t) \/ FsCloseReturn(t)
    BY <1>3
  <2>2. UNCHANGED <<clients, nsock, data>> /\ live' \subseteq live
    BY <2>1 DEF CloseReturn, FsCloseReturn, fs_node_destroy
  <2>3. \A u \in Thread : call'[u].op = "accept" => call'[u] = call[u]
    BY <2>1 DEF CloseReturn, FsCloseReturn, TypeOK, Idle
  <2> QED
    BY <2>2, <2>3, PlacesLost
<1>4. CASE \E t \in Thread, i \in Id : CloseCall(t, i) \/ FsCloseCall(t, i)
  <2>1. PICK t \in Thread, i \in Id : CloseCall(t, i) \/ FsCloseCall(t, i)
    BY <1>4
  <2>2. UNCHANGED <<clients, nsock, data, live>>
    BY <2>1 DEF CloseCall, FsCloseCall, fsVars, sockVars
  <2>3. \A u \in Thread : call'[u].op = "accept" => call'[u] = call[u]
    BY <2>1 DEF CloseCall, FsCloseCall, TypeOK
  <2> QED
    BY <2>2, <2>3, PlacesLost
<1>5. CASE \/ \E t \in Thread, i \in Id :
                  Assign(t, i) \/ Listen(t, i) \/ \E want \in 1..MaxLen : RecvFrom(t, i, want)
           \/ \E s \in Sock, len \in 1..MaxLen, idx \in 0..(SIZE - 1) : Datagram(s, len, idx)
           \/ UNCHANGED vars
  <2>1. UNCHANGED <<clients, nsock, data, live, call>>
    BY <1>5 DEF Assign, Listen, RecvFrom, Datagram, vars, fsVars, sockVars
  <2> QED
    BY <2>1, PlacesLost
<1> QED
  BY <1>1, <1>2, <1>3, <1>4, <1>5 DEF Next

\* A set without two different elements.
LEMMA AtMostOne ==
    ASSUME NEW S, \A x, y \in S : x = y
    PROVE  (S = {} /\ Cardinality(S) = 0) \/ (S # {} /\ Cardinality(S) = 1)
<1>1. CASE S = {}
  BY <1>1, FS_EmptySet
<1>2. CASE S # {}
  <2>1. PICK x \in S : S = {x}
    BY <1>2
  <2> QED
    BY <1>2, <2>1, FS_Singleton
<1> QED
  BY <1>1, <1>2

LEMMA ApartOnePlace == Made /\ Apart => OnePlace
<1> SUFFICES ASSUME Made, Apart, NEW s \in Sock
             PROVE  Cardinality({n \in live : data[n] = s})
                        + Cardinality({p \in Sock \X Id : p[2] \in DOMAIN clients[p[1]]
                                                          /\ clients[p[1]][p[2]] = s})
                        + Cardinality({t \in Thread : call[t].op = "accept"
                                                      /\ call[t].sock = s}) <= 1
  BY DEF OnePlace
<1> DEFINE N == {n \in live : data[n] = s}
           C == {p \in Sock \X Id : p[2] \in DOMAIN clients[p[1]] /\ clients[p[1]][p[2]] = s}
           A == {t \in Thread : call[t].op = "accept" /\ call[t].sock = s}
<1>1. (N = {} /\ Cardinality(N) = 0) \/ (N # {} /\ Cardinality(N) = 1)
  <2>1. s # None
    BY DEF Sock, None
  <2>2. \A x, y \in N : x = y
    BY <2>1 DEF Apart
  <2> QED
    BY <2>2, AtMostOne
<1>2. (C = {} /\ Cardinality(C) = 0) \/ (C # {} /\ Cardinality(C) = 1)
  <2>1. ASSUME NEW x \in C, NEW y \in C PROVE x = y
    <3>1. x = <<x[1], x[2]>> /\ y = <<y[1], y[2]>> /\ x[1] \in Sock /\ y[1] \in Sock
      OBVIOUS
    <3>2. x[1] = y[1] /\ x[2] = y[2]
      BY <3>1 DEF Apart
    <3> QED
      BY <3>1, <3>2
  <2> QED
    BY <2>1, AtMostOne
<1>3. (A = {} /\ Cardinality(A) = 0) \/ (A # {} /\ Cardinality(A) = 1)
  <2>1. \A x, y \in A : x = y
    BY DEF Made
  <2> QED
    BY <2>1, AtMostOne
<1>4. ~(N # {} /\ C # {}) /\ ~(N # {} /\ A # {}) /\ ~(C # {} /\ A # {})
  BY DEF Made, Apart
<1> HIDE DEF N, C, A
<1>5. Cardinality(N) + Cardinality(C) + Cardinality(A) <= 1
  BY <1>1, <1>2, <1>3, <1>4
<1> QED
  BY <1>5 DEF N, C, A

\* A socket is in one place: the search of netdev_sock_disconnect for a node by
\* its data finds the only one there is (netdev.c 130).
THEOREM PlacesUnique == Spec => []OnePlace
<1>1. Init => Made /\ Apart
  BY MainAssumption DEF Init, Made, Apart, Idle
<1>2. IInv /\ Made /\ Apart /\ [Next]_vars => Made' /\ Apart'
  BY PlaceStep
<1> QED
  BY <1>1, <1>2, ApartOnePlace, Invariance, PTL DEF Spec


-----------------------------------------------------------------------------
(* The table of sockets *)

\* What listens has been made.
ServerMade == tcp_server \in 0..nsock

LEMMA ServerStep == IInv /\ Made /\ ServerMade /\ [Next]_vars => ServerMade'
<1> SUFFICES ASSUME IInv, Made, ServerMade, [Next]_vars PROVE ServerMade'
  OBVIOUS
<1>1. nsock \in Nat
  BY DEF IInv, TypeOK
<1>2. CASE Socket \/ Client
  BY <1>1, <1>2 DEF Socket, Client, ServerMade
<1>3. CASE \E t \in Thread, i \in Id : Listen(t, i)
  <2>1. PICK t \in Thread, i \in Id : Listen(t, i)
    BY <1>3
  <2>2. fdNode[i] \in live /\ SockOf(i) # None
    BY <2>1 DEF Listen, Usable, IInv, TypeOK, Own, Sock, None
  <2>3. SockOf(i) \in 1..nsock
    BY <2>2 DEF Made, SockOf
  <2> QED
    BY <1>1, <2>1, <2>3 DEF Listen, ServerMade
<1>4. CASE \E t \in Thread : CloseReturn(t) \/ FsCloseReturn(t)
  <2>1. nsock' = nsock /\ tcp_server' \in {tcp_server, None}
    BY <1>4 DEF CloseReturn, FsCloseReturn, DriverClosed
  <2> QED
    BY <1>1, <2>1 DEF ServerMade, None
<1>5. CASE \/ AcceptNode \/ \E i \in Id : AcceptTake(i)
           \/ \E t \in Thread, i \in Id :
                  \/ Assign(t, i) \/ CloseCall(t, i) \/ FsCloseCall(t, i)
                  \/ \E want \in 1..MaxLen : RecvFrom(t, i, want)
           \/ \E s \in Sock : Disconnect(s)
           \/ \E s \in Sock, len \in 1..MaxLen, idx \in 0..(SIZE - 1) : Datagram(s, len, idx)
           \/ UNCHANGED vars
  <2>1. nsock' = nsock /\ tcp_server' = tcp_server
    BY <1>5 DEF AcceptNode, AcceptTake, Assign, CloseCall, FsCloseCall, RecvFrom, Disconnect,
                Datagram, vars, sockVars
  <2> QED
    BY <2>1 DEF ServerMade
<1> QED
  BY <1>2, <1>3, <1>4, <1>5 DEF Next

\* A node and a descriptor for s are a new entry of the table.
LEMMA AllocGives ==
    ASSUME TypeOK, Own, NEW s \in Sock, fs_node_create(last + 1, s), fs_fd_alloc(last + 1)
    PROVE  Table!Give(last + 1, s)
<1> DEFINE k == last + 1
<1>1. k \in Id /\ k \notin 1..last /\ 1..last' = 1..last \cup {k} /\ k # None
  BY AllocType, Bounds DEF TypeOK, fs_fd_alloc, Id, None
<1>2. \A i \in Id : fdNode'[i] = IF i = k THEN k ELSE fdNode[i]
  BY <1>1 DEF fs_fd_alloc, TypeOK
<1>3. \A i \in Id : data'[i] = IF i = k THEN s ELSE data[i]
  BY <1>1 DEF fs_node_create, TypeOK
<1> HIDE DEF k
<1>4. Opened' = Opened \cup {k}
  BY <1>1, <1>2 DEF Opened
<1>5. Sockets' = [Sockets EXCEPT ![k] = s]
  <2>1. \A i \in Id : i # k => fdNode'[i] = fdNode[i] /\ fdNode[i] \in {None, i}
    BY <1>2 DEF Own
  <2>2. \A i \in Id : Sockets'[i] = IF i = k THEN s ELSE Sockets[i]
    BY <1>1, <1>2, <1>3, <2>1 DEF Sockets, SockOf
  <2> QED
    BY <1>1, <2>2 DEF Sockets
<1> QED
  BY <1>1, <1>4, <1>5 DEF Table!Give, k

\* A step that changes neither descriptors nor nodes nor sockets.
LEMMA TableSame ==
    ASSUME UNCHANGED <<last, fdNode, data, nsock, clients>>, Taken' = Taken
    PROVE  UNCHANGED Table!tableVars
  BY DEF Table!tableVars, Opened, Sockets, SockOf

LEMMA SocketCreates ==
    ASSUME TypeOK, Own, Socket
    PROVE  Table!TableNext
<1>1. nsock + 1 \in Sock /\ nsock + 1 \notin 1..nsock /\ 1..nsock' = 1..nsock \cup {nsock + 1}
  BY Bounds DEF Socket, TypeOK, Sock
<1>2. Table!Give(last + 1, nsock + 1)
  BY <1>1, AllocGives DEF Socket
<1>3. clients' = clients /\ Taken' = Taken
  BY DEF Socket, Taken
<1>4. Table!Create(last + 1, nsock + 1)
  BY <1>1, <1>2, <1>3 DEF Table!Create, Table!New
<1>5. last + 1 \in Id
  BY <1>2 DEF Table!Give
<1> QED
  BY <1>1, <1>4, <1>5 DEF Table!TableNext

LEMMA AcceptNodeHands ==
    ASSUME TypeOK, Own, Held, Made, AcceptNode
    PROVE  Table!TableNext
<1>1. Main \in Thread /\ call[Main].sock \in Sock /\ call[Main].sock # None
  BY MainAssumption DEF AcceptNode, Held, Sock, None
<1>2. Taken = call[Main].sock /\ Taken' = None
  BY <1>1 DEF Taken, AcceptNode, TypeOK, Idle
<1>3. Table!Give(last + 1, call[Main].sock)
  BY <1>1, AllocGives DEF AcceptNode
<1>4. nsock' = nsock /\ clients' = clients
  BY DEF AcceptNode, sockVars
<1>5. Table!Hand(last + 1)
  BY <1>1, <1>2, <1>3, <1>4 DEF Table!Hand
<1>6. last + 1 \in Id
  BY <1>3 DEF Table!Give
<1> QED
  BY <1>5, <1>6 DEF Table!TableNext

LEMMA ClientComes ==
    ASSUME TypeOK, ServerMade, Client
    PROVE  Table!TableNext
<1>1. nsock + 1 \in Sock /\ nsock + 1 \notin 1..nsock /\ 1..nsock' = 1..nsock \cup {nsock + 1}
  BY Bounds DEF Client, TypeOK, Sock
<1>2. tcp_server \in Sock /\ tcp_server \in 1..nsock
  BY DEF Client, TypeOK, ServerMade, None
<1>3. UNCHANGED <<last, fdNode, data, call>>
  BY DEF Client, fsVars
<1>4. Opened' = Opened /\ Sockets' = Sockets /\ Taken' = Taken
  BY <1>3 DEF Opened, Sockets, SockOf, Taken
<1>5. clients' = [clients EXCEPT ![tcp_server] = Append(@, nsock + 1)]
  BY DEF Client
<1>6. Table!Come(tcp_server, nsock + 1)
  BY <1>1, <1>2, <1>3, <1>4, <1>5 DEF Table!Come, Table!New
<1> QED
  BY <1>1, <1>2, <1>6 DEF Table!TableNext

LEMMA AcceptTakes ==
    ASSUME TypeOK, NEW i \in Id, AcceptTake(i)
    PROVE  Table!TableNext
<1>1. Main \in Thread /\ fdNode[i] # None /\ SockOf(i) \in Sock /\ SockOf(i) # None
  BY MainAssumption DEF AcceptTake, Usable, TypeOK, Sock, None
<1>2. i \in Opened /\ Sockets[i] = SockOf(i)
  BY <1>1 DEF Opened, Sockets
<1>3. Taken = None /\ Taken' = Head(clients[SockOf(i)])
  BY <1>1 DEF Taken, AcceptTake, Usable, Idle, TypeOK
<1>4. UNCHANGED <<last, fdNode, data, nsock>>
  BY DEF AcceptTake, fsVars
<1>5. Opened' = Opened /\ Sockets' = Sockets
  BY <1>4 DEF Opened, Sockets, SockOf
<1>6. /\ clients[SockOf(i)] # <<>>
      /\ clients' = [clients EXCEPT ![SockOf(i)] = Tail(@)]
  BY DEF AcceptTake
<1>7. Table!Take(i)
  BY <1>1, <1>2, <1>3, <1>4, <1>5, <1>6 DEF Table!Take
<1> QED
  BY <1>7 DEF Table!TableNext

LEMMA FsCloseCloses ==
    ASSUME TypeOK, Own, Held, NEW t \in Thread, FsCloseReturn(t)
    PROVE  Table!TableNext
<1> DEFINE k == call[t].id
<1>1. k \in Id /\ fdNode[k] = k /\ k # None
  BY DEF FsCloseReturn, Held, Closing, Id, None
<1>2. fdNode' = [fdNode EXCEPT ![k] = None] /\ UNCHANGED <<last, data, nsock, clients>>
  BY DEF FsCloseReturn
<1>3. Taken' = Taken
  BY MainAssumption DEF Taken, FsCloseReturn, TypeOK, Idle
<1> HIDE DEF k
<1>4. \A i \in Id : fdNode'[i] = IF i = k THEN None ELSE fdNode[i]
  BY <1>1, <1>2 DEF TypeOK
<1>5. k \in Opened /\ Opened' = Opened \ {k}
  BY <1>1, <1>4 DEF Opened
<1>6. Sockets' = [Sockets EXCEPT ![k] = None]
  <2>1. \A i \in Id : fdNode[i] \in {None, i}
    BY DEF Own
  <2>2. \A i \in Id : Sockets'[i] = IF i = k THEN None ELSE Sockets[i]
    BY <1>2, <1>4, <2>1 DEF Sockets, SockOf
  <2> QED
    BY <1>1, <2>2 DEF Sockets
<1>7. Table!Close(k)
  BY <1>2, <1>3, <1>5, <1>6 DEF Table!Close
<1> QED
  BY <1>1, <1>7 DEF Table!TableNext

\* netdev_sock_disconnect finds the only node of s there is.
LEMMA DisconnectHangsUp ==
    ASSUME TypeOK, Own, Apart, NEW s \in Sock, Disconnect(s)
    PROVE  Table!TableNext
<1>1. PICK k \in live : data[k] = s /\ data' = [data EXCEPT ![k] = None]
  BY DEF Disconnect
<1>2. UNCHANGED <<last, fdNode, nsock, clients, call>>
  BY DEF Disconnect, sockVars
<1>3. \A i \in Id : data'[i] = IF i = k THEN None ELSE data[i]
  BY <1>1 DEF TypeOK
<1>4. s # None
  BY DEF Sock, None
<1>5. \A i \in live : data[i] = s => i = k
  BY <1>1, <1>4 DEF Apart
<1>6. ASSUME NEW i \in Id PROVE Sockets'[i] = IF Sockets[i] = s THEN None ELSE Sockets[i]
  <2>1. CASE fdNode[i] = None
    BY <1>2, <1>4, <2>1 DEF Sockets
  <2>2. CASE fdNode[i] # None
    <3>1. fdNode[i] = i /\ i \in live
      BY <2>2 DEF Own
    <3>2. Sockets[i] = data[i] /\ Sockets'[i] = data'[i]
      BY <1>2, <2>2, <3>1 DEF Sockets, SockOf
    <3> QED
      BY <1>1, <1>3, <1>5, <3>1, <3>2
  <2> QED
    BY <2>1, <2>2
<1>7. Sockets' = [i \in Id |-> IF Sockets[i] = s THEN None ELSE Sockets[i]]
  BY <1>6 DEF Sockets
<1>8. Opened' = Opened /\ Taken' = Taken
  BY <1>2 DEF Opened, Taken
<1>9. Table!Hangup(s)
  BY <1>2, <1>7, <1>8 DEF Table!Hangup
<1> QED
  BY <1>9 DEF Table!TableNext

\* Every step is one of the table or changes nothing of it.
LEMMA TableStep ==
    ASSUME IInv, Made, Apart, ServerMade, [Next]_vars
    PROVE  [Table!TableNext]_(Table!tableVars)
<1> USE DEF IInv
<1>1. CASE Socket \/ AcceptNode \/ Client \/ \E i \in Id : AcceptTake(i)
  BY <1>1, SocketCreates, AcceptNodeHands, ClientComes, AcceptTakes
<1>2. CASE \E s \in Sock : Disconnect(s)
  BY <1>2, DisconnectHangsUp
<1>3. CASE \E t \in Thread : FsCloseReturn(t)
  BY <1>3, FsCloseCloses
<1>4. CASE \E t \in Thread : CloseReturn(t)
  <2>1. PICK t \in Thread : CloseReturn(t)
    BY <1>4
  <2>2. UNCHANGED <<last, fdNode, data, nsock, clients>>
    BY <2>1 DEF CloseReturn
  <2>3. Taken' = Taken
    BY <2>1, MainAssumption DEF Taken, CloseReturn, TypeOK, Idle
  <2> QED
    BY <2>2, <2>3, TableSame
<1>5. CASE \E t \in Thread, i \in Id : CloseCall(t, i) \/ FsCloseCall(t, i)
  <2>1. PICK t \in Thread, i \in Id : CloseCall(t, i) \/ FsCloseCall(t, i)
    BY <1>5
  <2>2. UNCHANGED <<last, fdNode, data, nsock, clients>>
    BY <2>1 DEF CloseCall, FsCloseCall, fsVars, sockVars
  <2>3. Taken' = Taken
    <3>1. CASE t = Main
      <4>1. call[Main].op = "none" /\ call'[Main].op \in {"close", "fs_close"}
        BY <2>1, <3>1, MainAssumption DEF CloseCall, FsCloseCall, Usable, TypeOK, Idle
      <4> QED
        BY <4>1 DEF Taken
    <3>2. CASE t # Main
      <4>1. call'[Main] = call[Main]
        BY <2>1, <3>2, MainAssumption DEF CloseCall, FsCloseCall, TypeOK
      <4> QED
        BY <4>1 DEF Taken
    <3> QED
      BY <3>1, <3>2
  <2> QED
    BY <2>2, <2>3, TableSame
<1>6. CASE \/ \E t \in Thread, i \in Id :
                  Assign(t, i) \/ Listen(t, i) \/ \E want \in 1..MaxLen : RecvFrom(t, i, want)
           \/ \E s \in Sock, len \in 1..MaxLen, idx \in 0..(SIZE - 1) : Datagram(s, len, idx)
           \/ UNCHANGED vars
  <2>1. UNCHANGED <<last, fdNode, data, nsock, clients, call>>
    BY <1>6 DEF Assign, Listen, RecvFrom, Datagram, vars, fsVars, sockVars
  <2>2. Taken' = Taken
    BY <2>1 DEF Taken
  <2> QED
    BY <2>1, <2>2, TableSame
<1> QED
  BY <1>1, <1>2, <1>3, <1>4, <1>5, <1>6 DEF Next

\* Nodes, reference counts and a bos_accept in two steps are the table of
\* SocketTable (netdev.c 126-136, 147-165, 247-289, 432-450; fs.c 61-191).
THEOREM ImplementsTable == Spec => TableRefinement
<1>1. Init => Table!TableInit
  <2> SUFFICES ASSUME Init PROVE Table!TableInit
    OBVIOUS
  <2>1. 1..last = {} /\ 1..nsock = {} /\ Opened = {} /\ Taken = None
    BY MainAssumption DEF Init, Opened, Taken, Idle
  <2>2. Sockets = [i \in Id |-> None]
    BY DEF Init, Sockets
  <2> QED
    BY <2>1, <2>2 DEF Table!TableInit, Init
<1>2. Init => Made /\ Apart /\ ServerMade
  <2>1. Init => Made /\ Apart
    BY MainAssumption DEF Init, Made, Apart, Idle
  <2>2. Init => ServerMade
    BY DEF Init, ServerMade, None
  <2> QED
    BY <2>1, <2>2
<1>3. IInv /\ Made /\ Apart /\ ServerMade /\ [Next]_vars
          => Made' /\ Apart' /\ ServerMade' /\ [Table!TableNext]_(Table!tableVars)
  BY PlaceStep, ServerStep, TableStep
<1> QED
  BY <1>1, <1>2, <1>3, Invariance, PTL DEF Spec, TableRefinement, Table!TableSpec

=============================================================================

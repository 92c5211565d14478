------------------------------- MODULE Netdev -------------------------------
(***************************************************************************)
(* Descriptors, nodes and sockets: bos/fs.c under the bos_* calls and the  *)
(* file operations of net/netdev.c.                                        *)
(*                                                                         *)
(* Several threads make calls.  One of them, Main, makes all sockets and   *)
(* accepts the clients, as in main/main.c; any thread may use and close    *)
(* any descriptor.  read_thread has calls of its own in between: a client, *)
(* a datagram, the end of a connection.  A call that talks to the driver   *)
(* blocks there, so what it has read before may have changed after.  What  *)
(* the driver does with the ESP8266 is in Esp01; here it may succeed or    *)
(* fail.                                                                   *)
(*                                                                         *)
(* fs_node_create and fs_fd_alloc are only called together, so a node has  *)
(* the number of the descriptor it was made for.  The node "." of the      *)
(* socket directory is left out: it never has a descriptor and its data is *)
(* no socket.  Names are left out, nothing looks them up.                  *)
(***************************************************************************)
EXTENDS Integers, Sequences, FiniteSets, SequencesExt

CONSTANTS Thread,       \* the threads that make calls
          Main,         \* the one that makes sockets
          SIZE,         \* size_t holds 0..(SIZE - 1)
          MaxId,        \* descriptors ever made (a bound)
          MaxSock,      \* sockets ever made (a bound)
          MaxDgram,     \* datagrams waiting, on one socket at a time (a bound)
          MaxLen        \* bytes in a datagram, bytes asked for (a bound)

ASSUME MainAssumption == Main \in Thread
ASSUME SizeAssumption == SIZE \in Nat /\ MaxLen \in Nat /\ MaxLen < SIZE
ASSUME BoundsAssumption == {MaxId, MaxSock, MaxDgram} \subseteq Nat

Id   == 1..MaxId
Sock == 1..MaxSock
None == 0               \* 0x0

VARIABLES last,         \* the counter of fs_fd_alloc
          fdNode,       \* the node of each descriptor in fd_lst, or None
          live,         \* the nodes in the socket directory
          data,         \* node->data
          ref_cnt,      \* node->ref_cnt
          nsock,        \* sockets made so far
          stream,       \* the sockets of type SOCK_STREAM
          dev,          \* the sockets with a device
          clients,      \* the clients list of each socket
          dgrams,       \* the datagrams of each socket
          tcp_server,   \* the socket that listens
          call,         \* the call each thread is blocked in
          fault,        \* freed memory has been used
          closed        \* ghost: ids whose bos_close has returned 0 from the driver

fsVars   == <<last, fdNode, live, data, ref_cnt>>
sockVars == <<nsock, stream, dev, clients, dgrams, tcp_server>>
vars     == <<fsVars, sockVars, call, fault, closed>>

Idle == [op |-> "none", id |-> None, node |-> None, sock |-> None]

\* fd->node->data of a descriptor in fd_lst.
SockOf(i) == data[fdNode[i]]

\* Thread t may call with descriptor i: it exists and is not being closed
\* through the file operations.
Usable(t, i) ==
    /\ call[t] = Idle
    /\ fdNode[i] # None
    /\ \A u \in Thread : call[u].op = "fs_close" => call[u].id # i

Init ==
    /\ last = 0 /\ live = {}
    /\ fdNode = [i \in Id |-> None]
    /\ data = [n \in Id |-> None]
    /\ ref_cnt = [n \in Id |-> 0]
    /\ nsock = 0 /\ stream = {} /\ dev = {}
    /\ clients = [s \in Sock |-> <<>>]
    /\ dgrams = [s \in Sock |-> <<>>]
    /\ tcp_server = None
    /\ call = [t \in Thread |-> Idle]
    /\ fault = FALSE
    /\ closed = {}

------------------------------------------------------------------------------
(* bos/fs.c *)

\* fs_node_create for socket s; n is new.
fs_node_create(n, s) ==
    /\ live' = live \cup {n}
    /\ data' = [data EXCEPT ![n] = s]

\* Mutant: the descriptor is not counted.
fs_fd_allocUncounted(n) ==
    /\ last < MaxId
    /\ last' = last + 1
    /\ fdNode' = [fdNode EXCEPT ![last + 1] = n]
    /\ UNCHANGED ref_cnt

\* fs_fd_alloc for node n
fs_fd_alloc(n) ==
    /\ last < MaxId
    /\ last' = last + 1
    /\ fdNode' = [fdNode EXCEPT ![last + 1] = n]
    /\ ref_cnt' = [ref_cnt EXCEPT ![n] = @ + 1]

\* Mutant: fs_fd_free leaves the count.
RefsWithoutKept(n) == ref_cnt

\* The counts after fs_fd_free.
RefsWithout(n) == [ref_cnt EXCEPT ![n] = @ - 1]

\* Mutant: nobody asks who still refers to the node.
fs_node_destroyAlways(n, refs) == live \ {n}

\* fs_node_destroy: the nodes that are left, given the counts at that time.
fs_node_destroy(n, refs) == IF refs[n] > 0 THEN live ELSE live \ {n}

------------------------------------------------------------------------------
(* net/netdev.c: making and naming sockets *)

\* bos_socket
Socket ==
    /\ call[Main] = Idle
    /\ nsock < MaxSock
    /\ nsock' = nsock + 1
    /\ \/ stream' = stream \cup {nsock + 1}
       \/ UNCHANGED stream
    /\ fs_node_create(last + 1, nsock + 1)
    /\ fs_fd_alloc(last + 1)
    /\ UNCHANGED <<dev, clients, dgrams, tcp_server, call, fault, closed>>

\* assign_netdev in bos_connect, bos_bind, and bos_sendto with an address.
Assign(t, i) ==
    /\ Usable(t, i)
    /\ SockOf(i) \notin dev \cup {None}
    /\ dev' = dev \cup {SockOf(i)}
    /\ UNCHANGED <<fsVars, nsock, stream, clients, dgrams, tcp_server, call, fault, closed>>

\* bos_listen when the driver can listen.
Listen(t, i) ==
    /\ Usable(t, i)
    /\ SockOf(i) \in stream \cap dev
    /\ tcp_server = None
    /\ tcp_server' = SockOf(i)
    /\ UNCHANGED <<fsVars, nsock, stream, dev, clients, dgrams, call, fault, closed>>

\* Mutant: the client stays in the list.
AcceptTakeKeep(i) ==
    /\ Usable(Main, i)
    /\ SockOf(i) \in stream \cap dev
    /\ clients[SockOf(i)] # <<>>
    /\ LET cl == Head(clients[SockOf(i)])
       IN /\ dev' = dev \cup {cl}
          /\ call' = [call EXCEPT ![Main] = [Idle EXCEPT !.op = "accept", !.sock = cl]]
    /\ UNCHANGED <<fsVars, nsock, stream, clients, dgrams, tcp_server, fault, closed>>

\* Mutant: the client that came last.
AcceptTakeLast(i) ==
    /\ Usable(Main, i)
    /\ SockOf(i) \in stream \cap dev
    /\ clients[SockOf(i)] # <<>>
    /\ LET cl == Last(clients[SockOf(i)])
       IN /\ dev' = dev \cup {cl}
          /\ call' = [call EXCEPT ![Main] = [Idle EXCEPT !.op = "accept", !.sock = cl]]
    /\ clients' = [clients EXCEPT ![SockOf(i)] = Front(@)]
    /\ UNCHANGED <<fsVars, nsock, stream, dgrams, tcp_server, fault, closed>>

\* bos_accept: the first client gets the device and leaves the list ...
AcceptTake(i) ==
    /\ Usable(Main, i)
    /\ SockOf(i) \in stream \cap dev
    /\ clients[SockOf(i)] # <<>>
    /\ LET cl == Head(clients[SockOf(i)])
       IN /\ dev' = dev \cup {cl}
          /\ call' = [call EXCEPT ![Main] = [Idle EXCEPT !.op = "accept", !.sock = cl]]
    /\ clients' = [clients EXCEPT ![SockOf(i)] = Tail(@)]
    /\ UNCHANGED <<fsVars, nsock, stream, dgrams, tcp_server, fault, closed>>

\* ... and then gets a node and a descriptor.
AcceptNode ==
    /\ call[Main].op = "accept"
    /\ fs_node_create(last + 1, call[Main].sock)
    /\ fs_fd_alloc(last + 1)
    /\ call' = [call EXCEPT ![Main] = Idle]
    /\ UNCHANGED <<sockVars, fault, closed>>

------------------------------------------------------------------------------
(* Datagrams.  idx comes from malloc; start and got are ghosts: its first   *)
(* value, and the bytes copied out so far.                                  *)

Dgram == [len : 1..MaxLen, idx : 0..(SIZE - 1), start : 0..(SIZE - 1), got : Nat]

\* Mutant: as many bytes as asked for.
CopiedAll(want, d) == want

\* MIN in size_t
Copied(want, d) ==
    LET left == (d.len - d.idx) % SIZE
    IN  IF want > left THEN left ELSE want

\* bos_recvfrom, also as bos_recv and the read operation: the first datagram
\* is copied from idx on and goes when idx has reached its length.
RecvFrom(t, i, want) ==
    /\ Usable(t, i)
    /\ SockOf(i) \notin stream \cup {None}
    /\ dgrams[SockOf(i)] # <<>>
    /\ LET s == SockOf(i)
           d == Head(dgrams[s])
           n == Copied(want, d)
           idx == (d.idx + n) % SIZE
       IN dgrams' = [dgrams EXCEPT ![s] =
                        IF idx = d.len
                          THEN Tail(@)
                          ELSE [@ EXCEPT ![1].idx = idx, ![1].got = (d.got + n) % SIZE]]
    /\ UNCHANGED <<fsVars, nsock, stream, dev, clients, tcp_server, call, fault, closed>>

------------------------------------------------------------------------------
(* Closing *)

\* The driver's close of socket s has succeeded.
DriverClosed(s) == tcp_server' = IF s = tcp_server THEN None ELSE tcp_server

\* bos_close up to the driver, unless the socket is gone or has no device.
CloseCall(t, i) ==
    /\ Usable(t, i)
    /\ SockOf(i) \in dev
    /\ call' = [call EXCEPT ![t] =
                   [op |-> "close", id |-> i, node |-> fdNode[i], sock |-> SockOf(i)]]
    /\ UNCHANGED <<fsVars, sockVars, fault, closed>>

\* The rest of bos_close, with the node looked up before.
CloseReturn(t) ==
    /\ call[t].op = "close"
    /\ \/ UNCHANGED <<live, tcp_server, closed, fault>>
       \/ /\ DriverClosed(call[t].sock)
          /\ live' = fs_node_destroy(call[t].node, ref_cnt)
          /\ fault' = (call[t].node \notin live)
          /\ closed' = closed \cup {call[t].id}
    /\ call' = [call EXCEPT ![t] = Idle]
    /\ UNCHANGED <<last, fdNode, data, ref_cnt, nsock, stream, dev, clients, dgrams>>

\* The close operation of the socket file system.  Nothing in this program
\* calls it; whoever does must not be using the descriptor elsewhere.
FsCloseCall(t, i) ==
    /\ Usable(t, i)
    /\ \A u \in Thread : call[u].id # i
    /\ call' = [call EXCEPT ![t] =
                   [op |-> "fs_close", id |-> i, node |-> fdNode[i], sock |-> SockOf(i)]]
    /\ UNCHANGED <<fsVars, sockVars, fault, closed>>

\* After the driver, whose result is ignored: fs_fd_free, and then fd->node is
\* read from the freed descriptor.  It holds the node still, or, if another
\* thread has been given the memory, anything.
FsCloseReturn(t) ==
    /\ call[t].op = "fs_close"
    /\ LET i == call[t].id
           n == call[t].node
       IN /\ fdNode' = [fdNode EXCEPT ![i] = None]
          /\ ref_cnt' = RefsWithout(n)
          /\ \/ live' = fs_node_destroy(n, ref_cnt') /\ UNCHANGED fault
             \/ fault' = TRUE /\ UNCHANGED live
    /\ \/ UNCHANGED tcp_server
       \/ call[t].sock \in dev /\ DriverClosed(call[t].sock)
    /\ call' = [call EXCEPT ![t] = Idle]
    /\ UNCHANGED <<last, data, nsock, stream, dev, clients, dgrams, closed>>

------------------------------------------------------------------------------
(* read_thread, through the driver *)

\* accept of esp01.c: a client for the server.
Client ==
    /\ tcp_server # None
    /\ nsock < MaxSock
    /\ nsock' = nsock + 1
    /\ stream' = stream \cup {nsock + 1}
    /\ clients' = [clients EXCEPT ![tcp_server] = Append(@, nsock + 1)]
    /\ UNCHANGED <<fsVars, dev, dgrams, tcp_server, call, fault, closed>>

\* recv of esp01.c for a datagram: idx is not initialised.
Datagram(s, len, idx) ==
    /\ s \in dev \ stream
    /\ Len(dgrams[s]) < MaxDgram
    /\ \A r \in Sock \ {s} : dgrams[r] = <<>>
    /\ dgrams' = [dgrams EXCEPT ![s] =
                     Append(@, [len |-> len, idx |-> idx, start |-> idx, got |-> 0])]
    /\ UNCHANGED <<fsVars, nsock, stream, dev, clients, tcp_server, call, fault, closed>>

\* netdev_sock_disconnect: the node whose data is s, if there is one.
Disconnect(s) ==
    /\ \E n \in live : data[n] = s /\ data' = [data EXCEPT ![n] = None]
    /\ UNCHANGED <<last, fdNode, live, ref_cnt, sockVars, call, fault, closed>>

------------------------------------------------------------------------------

Next ==
    /\ ~fault
    /\ \/ Socket \/ AcceptNode \/ Client
       \/ \E i \in Id : AcceptTake(i)
       \/ \E t \in Thread, i \in Id :
             \/ Assign(t, i) \/ Listen(t, i)
             \/ CloseCall(t, i) \/ FsCloseCall(t, i)
             \/ \E want \in 1..MaxLen : RecvFrom(t, i, want)
       \/ \E t \in Thread : CloseReturn(t) \/ FsCloseReturn(t)
       \/ \E s \in Sock : Disconnect(s)
       \/ \E s \in Sock, len \in 1..MaxLen, idx \in 0..(SIZE - 1) : Datagram(s, len, idx)

Spec == Init /\ [][Next]_vars

------------------------------------------------------------------------------
(* Properties *)

\* Types; a thread is blocked with what the call has looked up.
TypeOK ==
    /\ last \in 0..MaxId
    /\ fdNode \in [Id -> Id \cup {None}]
    /\ live \subseteq Id
    /\ data \in [Id -> Sock \cup {None}]
    /\ ref_cnt \in [Id -> Nat]
    /\ nsock \in 0..MaxSock
    /\ stream \subseteq Sock /\ dev \subseteq Sock
    /\ clients \in [Sock -> Seq(Sock)]
    /\ dgrams \in [Sock -> Seq(Dgram)]
    /\ tcp_server \in Sock \cup {None}
    /\ call \in [Thread -> [op : {"none", "accept", "close", "fs_close"},
                            id : Id \cup {None}, node : Id \cup {None},
                            sock : Sock \cup {None}]]
    /\ fault \in BOOLEAN
    /\ closed \subseteq Id

\* The reference count of a node is the number of descriptors that refer to
\* it (fs.c 82, 93), whatever calls and disconnections come in between.
RefsCounted ==
    \A n \in live : ref_cnt[n] = Cardinality({i \in Id : fdNode[i] = n})

\* A descriptor never refers to a node that has been freed, and no node is
\* left without a descriptor, although bos_close tries to destroy nodes whose
\* descriptors it keeps (netdev.c 421).
NodesAgree == ~fault => live = {fdNode[i] : i \in Id} \ {None}

\* The node a closing call has looked up before it blocked in the driver is
\* still there when the driver returns (netdev.c 421, 446), even when two
\* threads are in bos_close for the same descriptor.
CloseNodeAlive ==
    \A t \in Thread : call[t].op \in {"close", "fs_close"} => call[t].node \in live

\* A socket has one place: at most one node, one clients list, or the accept
\* in progress; so that netdev_sock_disconnect, which takes the first node it
\* finds, finds the only one.
OnePlace ==
    LET nodesOf(s) == {n \in live : data[n] = s}
        placesOf(s) == {p \in Sock \X Id : p[2] \in DOMAIN clients[p[1]]
                                            /\ clients[p[1]][p[2]] = s}
        acceptOf(s) == {t \in Thread : call[t].op = "accept" /\ call[t].sock = s}
    IN  \A s \in Sock :
          Cardinality(nodesOf(s)) + Cardinality(placesOf(s)) + Cardinality(acceptOf(s)) <= 1

\* Datagrams are read one at a time, and one whose idx started inside it is
\* read on where the last call has stopped and never beyond its end.
DgramInOrder ==
    \A s \in Sock : \A k \in DOMAIN dgrams[s] :
        LET d == dgrams[s][k]
        IN  /\ k > 1 => d.got = 0
            /\ d.start <= d.len => /\ d.idx = d.start + d.got
                                   /\ d.idx <= d.len

\* The descriptors that are found, their sockets, and the client that is being
\* accepted, as SocketTable sees them.
Opened  == {i \in Id : fdNode[i] # None}
Sockets == [i \in Id |-> IF fdNode[i] = None THEN None ELSE SockOf(i)]
Taken   == IF call[Main].op = "accept" THEN call[Main].sock ELSE None

Table == INSTANCE SocketTable
    WITH used <- 1..last, open <- Opened, made <- 1..nsock,
         socket <- Sockets, waiting <- clients, taken <- Taken

\* The socket layer is the table of SocketTable: descriptors, nodes, counts and
\* the two halves of bos_accept (netdev.c 247-289) never mix two sockets up,
\* netdev_sock_disconnect leaves no descriptor with the socket (126-136), and
\* clients come out in the order in which they were added (esp01.c 329).
TableRefinement == Table!TableSpec

\* "close has already deleted the descriptor" (netdev.c 423-424): once bos_close
\* has closed a socket, its descriptor is not found any more.
ClosedIsDeleted == \A i \in closed : fdNode[i] = None

==============================================================================

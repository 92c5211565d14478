------------------------------- MODULE Esp01 -------------------------------
(***************************************************************************)
(* esp01/esp01.c with the socket layer of net/netdev.c: the table of links *)
(* the driver keeps, against the links the ESP8266 really has.             *)
(*                                                                         *)
(* One application thread makes bos_* calls.  A call that needs an AT      *)
(* command writes it, waits for the answer and only then updates links or  *)
(* tcp_server.  read_thread meanwhile handles what the ESP8266 announces,  *)
(* in the order of the lines, and updates the same variables.  While it    *)
(* handles a CONNECT it waits for the answer of its own CIPSTATUS and      *)
(* throws away the lines before it.  There is no lock around this state.   *)
(*                                                                         *)
(* A socket and its descriptor have one number.  Received bytes are left   *)
(* to Ringbuf, overlapping commands of several threads to SerialCmd.  The  *)
(* ESP8266 is external.                                                    *)
(***************************************************************************)
EXTENDS Integers, Sequences, FiniteSets

CONSTANTS NLINKS,   \* links of the ESP8266
          MaxSock,  \* sockets ever allocated (a bound)
          MaxConn,  \* connections ever made (a bound)
          MaxRx     \* lines on their way to read_thread (a bound)

ASSUME NLINKSAssumption == NLINKS \in Nat \ {0}
ASSUME BoundsAssumption == {MaxSock, MaxConn, MaxRx} \subseteq Nat

Link   == 0..(NLINKS - 1)
Sock   == 1..MaxSock
Conn   == 1..MaxConn
NoSock == 0
NoConn == 0
NoLink == -1

VARIABLES nsock,       \* sockets allocated so far
          assigned,    \* the sockets with a device: sock->dev is set
          node,        \* of each socket: "none" while it has no descriptor,
                       \* "sock" while the node's data points to it, "gone"
                       \* once netdev_sock_disconnect has cleared that
          clients,     \* the clients list of each socket
          links,       \* esp->links
          tcp_server,  \* esp->tcp_server
          call,        \* the bos_* call in progress
          rd,          \* read_thread: NoLink, or the link accept is about
          toEsp,       \* requests on their way to the ESP8266
          rx,          \* lines on their way to read_thread
          fault,       \* what was dereferenced through a null pointer
          espLink,     \* the connection on each link of the ESP8266
          espServer,   \* whether it accepts connections
          prompt,      \* the link whose payload it expects
          nconn,       \* connections made so far
          peer,        \* ghost: the connection each socket was made for
          astray,      \* ghost: a line was lost, or came in a window
          early,       \* ghost: the clients whose connection ended before they
                       \* had a descriptor
          mixed        \* ghost: a socket was given another one's data

sockVars == <<nsock, assigned, node, clients>>
tabVars  == <<links, tcp_server>>
espVars  == <<espLink, espServer, prompt, nconn>>
ghosts   == <<peer, astray, early, mixed>>
vars     == <<sockVars, tabVars, call, rd, toEsp, rx, fault, espVars, ghosts>>

Idle == [op |-> "none", sock |-> NoSock, link |-> NoLink, res |-> "none"]

\* A line of the ESP8266.  The link of an OK or ERROR is a ghost: NoLink when
\* it answers the application, the link of accept when it answers CIPSTATUS.
Msg(ev, l, c) == [ev |-> ev, link |-> l, conn |-> c]

Init ==
    /\ nsock = 0 /\ assigned = {}
    /\ node = [s \in Sock |-> "none"]
    /\ clients = [s \in Sock |-> <<>>]
    /\ links = [l \in Link |-> NoSock]
    /\ tcp_server = NoSock
    /\ call = Idle /\ rd = NoLink
    /\ toEsp = <<>> /\ rx = <<>> /\ fault = "none"
    /\ espLink = [l \in Link |-> NoConn]
    /\ espServer = FALSE /\ prompt = NoLink /\ nconn = 0
    /\ peer = [s \in Sock |-> NoConn]
    /\ astray = FALSE /\ early = {} /\ mixed = FALSE

-----------------------------------------------------------------------------
(* bos_* calls *)

\* The links that hold s; get_link_id finds the lowest.
LinksOf(s) == {l \in Link : links[l] = s}

get_link_id(s) ==
    IF LinksOf(s) = {} THEN NoLink
    ELSE CHOOSE l \in LinksOf(s) : \A m \in LinksOf(s) : l <= m

\* A command is written; the call waits for its answer.
Request(op, s, l) ==
    /\ call' = [op |-> op, sock |-> s, link |-> l, res |-> "wait"]
    /\ toEsp' = Append(toEsp, [req |-> op, link |-> l])

\* bos_socket
Socket ==
    /\ call = Idle
    /\ nsock < MaxSock
    /\ nsock' = nsock + 1
    /\ node' = [node EXCEPT ![nsock + 1] = "sock"]
    /\ UNCHANGED <<assigned, clients, tabVars, call, rd, toEsp, rx, fault, espVars, ghosts>>

\* bos_connect, bos_bind, bos_listen and bos_accept use the socket of the
\* descriptor unchecked, whether or not closed has cleared it.
CallGone(s) ==
    /\ call = Idle
    /\ node[s] = "gone"
    /\ fault' = "call"
    /\ UNCHANGED <<sockVars, tabVars, call, rd, toEsp, rx, espVars, ghosts>>

\* bos_connect through assign_netdev and get_link_id.  It refuses a socket
\* with a device, and leaves the device set when it fails later on.
Connect(s) ==
    /\ call = Idle
    /\ node[s] = "sock" /\ s \notin assigned
    /\ assigned' = assigned \cup {s}
    /\ LET l == get_link_id(NoSock)
       IN IF l = NoLink THEN UNCHANGED <<call, toEsp>> ELSE Request("connect", s, l)
    /\ UNCHANGED <<nsock, node, clients, tabVars, rd, rx, fault, espVars, ghosts>>

\* bos_bind
Bind(s) ==
    /\ call = Idle
    /\ node[s] = "sock"
    /\ assigned' = assigned \cup {s}
    /\ UNCHANGED <<nsock, node, clients, tabVars, call, rd, toEsp, rx, fault, espVars, ghosts>>

\* bos_listen on a bound socket, while there is no server.
Listen(s) ==
    /\ call = Idle
    /\ node[s] = "sock" /\ s \in assigned
    /\ tcp_server = NoSock
    /\ Request("listen", s, NoLink)
    /\ UNCHANGED <<sockVars, tabVars, rd, rx, fault, espVars, ghosts>>

\* Mutant: the client stays in the list.
AcceptTakeKeep(s) ==
    /\ call = Idle
    /\ node[s] = "sock" /\ s \in assigned
    /\ clients[s] # <<>>
    /\ LET cl == Head(clients[s])
       IN /\ assigned' = assigned \cup {cl}
          /\ call' = [op |-> "accept", sock |-> cl, link |-> NoLink, res |-> "none"]
    /\ UNCHANGED <<nsock, node, clients, tabVars, rd, toEsp, rx, fault, espVars, ghosts>>

\* bos_accept up to list_rm: the first client leaves the list ...
AcceptTake(s) ==
    /\ call = Idle
    /\ node[s] = "sock" /\ s \in assigned
    /\ clients[s] # <<>>
    /\ LET cl == Head(clients[s])
       IN /\ assigned' = assigned \cup {cl}
          /\ call' = [op |-> "accept", sock |-> cl, link |-> NoLink, res |-> "none"]
    /\ clients' = [clients EXCEPT ![s] = Tail(@)]
    /\ UNCHANGED <<nsock, node, tabVars, rd, toEsp, rx, fault, espVars, ghosts>>

\* ... and then gets a node and a descriptor.
AcceptNode ==
    /\ call.op = "accept"
    /\ node' = [node EXCEPT ![call.sock] = "sock"]
    /\ call' = Idle
    /\ UNCHANGED <<nsock, assigned, clients, tabVars, rd, toEsp, rx, fault, espVars, ghosts>>

\* bos_send of a connected socket: the first of two commands.
Send(s) ==
    /\ call = Idle
    /\ node[s] = "sock" /\ s \in assigned
    /\ get_link_id(s) # NoLink
    /\ Request("send", s, get_link_id(s))
    /\ UNCHANGED <<sockVars, tabVars, rd, rx, fault, espVars, ghosts>>

\* bos_close.  Only the driver's side: fs_node_destroy fails, the descriptor
\* still refers to the node.
Close(s) ==
    /\ call = Idle
    /\ node[s] = "sock" /\ s \in assigned
    /\ \/ s = tcp_server /\ Request("unlisten", s, NoLink)
       \/ /\ s # tcp_server
          /\ get_link_id(s) # NoLink
          /\ Request("close", s, get_link_id(s))
    /\ UNCHANGED <<sockVars, tabVars, rd, rx, fault, espVars, ghosts>>

\* The application thread has the answer and updates the tables.  close and
\* connect use the link they looked up before the command.
Complete ==
    /\ call.res \in {"OK", "ERROR"}
    /\ IF call.res = "OK"
       THEN CASE call.op = "connect"  -> /\ links' = [links EXCEPT ![call.link] = call.sock]
                                         /\ UNCHANGED tcp_server
              [] call.op = "close"    -> /\ links' = [links EXCEPT ![call.link] = NoSock]
                                         /\ UNCHANGED tcp_server
              [] call.op = "listen"   -> tcp_server' = call.sock /\ UNCHANGED links
              [] call.op = "unlisten" -> tcp_server' = NoSock /\ UNCHANGED links
              [] OTHER                -> UNCHANGED tabVars
       ELSE UNCHANGED tabVars
    /\ IF call.op = "send" /\ call.res = "OK"
       THEN Request("data", call.sock, call.link)
       ELSE call' = Idle /\ UNCHANGED toEsp
    /\ UNCHANGED <<sockVars, rd, rx, fault, espVars, ghosts>>

-----------------------------------------------------------------------------
(* read_thread *)

\* Ghost: line m about link l is handled after the ESP8266 has done what the
\* call in progress asked for l, and before Complete.
InWindow(l) == call.op \in {"connect", "close"} /\ call.link = l

\* Mutant: closed leaves the node's data.
DisconnectNever(s) == node

\* netdev_sock_disconnect: the node with data s, if there is one.
Disconnect(s) ==
    IF s # NoSock /\ node[s] = "sock" THEN [node EXCEPT ![s] = "gone"] ELSE node

\* closed
Closed ==
    /\ rd = NoLink /\ rx # <<>> /\ Head(rx).ev = "CLOSED"
    /\ LET l == Head(rx).link
       IN /\ node' = Disconnect(links[l])
          /\ links' = [links EXCEPT ![l] = NoSock]
          /\ astray' = (astray \/ (InWindow(l) /\ call.op # "close"))
          /\ early' = IF links[l] # NoSock /\ node[links[l]] = "none"
                      THEN early \cup {links[l]} ELSE early
    /\ rx' = Tail(rx)
    /\ UNCHANGED <<nsock, assigned, clients, tcp_server, call, rd, toEsp, fault,
                   espVars, peer, mixed>>

\* recv: the link is looked up and its socket used unchecked.
Recv ==
    /\ rd = NoLink /\ rx # <<>> /\ Head(rx).ev = "IPD"
    /\ LET s == links[Head(rx).link]
       IN IF s = NoSock
          THEN fault' = "recv" /\ UNCHANGED mixed
          ELSE mixed' = (mixed \/ peer[s] # Head(rx).conn) /\ UNCHANGED fault
    /\ astray' = (astray \/ InWindow(Head(rx).link))
    /\ rx' = Tail(rx)
    /\ UNCHANGED <<sockVars, tabVars, call, rd, toEsp, espVars, peer, early>>

\* The answer that satisfies the call in progress.
Expected == IF call.op = "data" THEN "SEND OK" ELSE "OK"

\* parse_line for an answer, of use only if a call waits for it.
Answer ==
    /\ rd = NoLink /\ rx # <<>> /\ Head(rx).ev \in {"OK", "SEND OK", "ERROR"}
    /\ call' = IF call.res = "wait" /\ Head(rx).ev \in {Expected, "ERROR"}
               THEN [call EXCEPT !.res = IF Head(rx).ev = "ERROR" THEN "ERROR" ELSE "OK"]
               ELSE call
    /\ rx' = Tail(rx)
    /\ UNCHANGED <<sockVars, tabVars, rd, toEsp, fault, espVars, ghosts>>

\* parse_line ignores the state of a link, accept that of another link.
Ignore ==
    /\ rx # <<>> /\ Head(rx).ev = "STATUS" /\ Head(rx).link # rd
    /\ rx' = Tail(rx)
    /\ UNCHANGED <<sockVars, tabVars, call, rd, toEsp, fault, espVars, ghosts>>

\* accept of serial.c, up to its loop.
AcceptStart ==
    /\ rd = NoLink /\ rx # <<>> /\ Head(rx).ev = "CONNECT"
    /\ rd' = Head(rx).link
    /\ toEsp' = Append(toEsp, [req |-> "status", link |-> Head(rx).link])
    /\ rx' = Tail(rx)
    /\ UNCHANGED <<sockVars, tabVars, call, fault, espVars, ghosts>>

\* Ghost: the connection accept is about is the one bos_connect has asked for.
OwnConnect == call.op = "connect" /\ call.link = rd /\ peer[call.sock] # NoConn

\* The loop of accept ends.  When the answer was the application's, the state
\* of the link is still to come and will be ignored, and the answer to
\* CIPSTATUS will be taken for the application's.
AcceptEnd ==
    /\ rd # NoLink /\ rx # <<>> /\ Head(rx).ev \in {"OK", "ERROR"}
    /\ astray' = (astray \/ (Head(rx).link = NoLink /\ ~OwnConnect))
    /\ rd' = NoLink
    /\ rx' = Tail(rx)
    /\ UNCHANGED <<sockVars, tabVars, call, toEsp, fault, espVars, peer, early, mixed>>

\* The loop of accept throws away a line.
AcceptDrop ==
    /\ rd # NoLink /\ rx # <<>>
    /\ Head(rx).ev \in {"CONNECT", "CLOSED", "IPD", "SEND OK"}
    /\ rx' = Tail(rx)
    /\ astray' = TRUE
    /\ UNCHANGED <<sockVars, tabVars, call, rd, toEsp, fault, espVars, peer, early, mixed>>

\* Mutant: the client is not entered in the table of links.
NewLinksNone(l) == links

\* Mutant: the number of the link is lost.
NewLinksFirst(l) == [links EXCEPT ![0] = nsock + 1]

NewLinks(l) == [links EXCEPT ![l] = nsock + 1]

\* accept of esp01.c: a connection of the server becomes a client, unless
\* there is no server any more.
AcceptClient ==
    /\ rx # <<>> /\ Head(rx).ev = "STATUS" /\ Head(rx).link = rd
    /\ IF tcp_server = NoSock
       THEN /\ astray' = TRUE
            /\ UNCHANGED <<nsock, clients, links, peer>>
       ELSE /\ nsock < MaxSock
            /\ nsock' = nsock + 1
            /\ links' = NewLinks(rd)
            /\ clients' = [clients EXCEPT ![tcp_server] = Append(@, nsock + 1)]
            /\ peer' = [peer EXCEPT ![nsock + 1] = Head(rx).conn]
            /\ astray' = (astray \/ InWindow(rd) \/ links[rd] # NoSock)
    /\ rx' = Tail(rx)
    /\ UNCHANGED <<assigned, node, tcp_server, call, rd, toEsp, fault, espVars, early, mixed>>

-----------------------------------------------------------------------------
(* The ESP8266 (external) *)

Room(n) == Len(rx) + n <= MaxRx

\* A new connection on link l.
Open(l) ==
    /\ nconn < MaxConn
    /\ nconn' = nconn + 1
    /\ espLink' = [espLink EXCEPT ![l] = nconn + 1]

\* The answers to CIPSTATUS: a line for each open link, in the order of the links.
StatusLines ==
    LET open  == {l \in Link : espLink[l] # NoConn}
        order == {s \in [1..Cardinality(open) -> open] :
                    /\ {s[i] : i \in DOMAIN s} = open
                    /\ \A i, j \in DOMAIN s : i < j => s[i] < s[j]}
    IN {[i \in DOMAIN s |-> Msg("STATUS", s[i], espLink[s[i]])] : s \in order}

\* The next request, in command mode.
EspCommand ==
    /\ toEsp # <<>> /\ prompt = NoLink
    /\ LET q  == Head(toEsp)
           l  == q.link
           OK == Msg("OK", NoLink, NoConn)
           Refuse ==
               /\ Room(1)
               /\ rx' = Append(rx, Msg("ERROR", NoLink, NoConn))
               /\ UNCHANGED <<espVars, peer, early>>
       IN \/ /\ q.req = "connect" /\ espLink[l] = NoConn
             /\ Room(2) /\ Open(l)
             /\ rx' = rx \o <<Msg("CONNECT", l, nconn + 1), OK>>
             /\ peer' = [peer EXCEPT ![call.sock] = nconn + 1]
             /\ UNCHANGED <<espServer, prompt>>
          \/ /\ q.req = "close" /\ espLink[l] # NoConn
             /\ Room(2)
             /\ espLink' = [espLink EXCEPT ![l] = NoConn]
             /\ rx' = rx \o <<Msg("CLOSED", l, espLink[l]), OK>>
             /\ UNCHANGED <<espServer, prompt, nconn, peer>>
          \/ /\ q.req \in {"listen", "unlisten"}
             /\ Room(1)
             /\ espServer' = (q.req = "listen")
             /\ rx' = Append(rx, OK)
             /\ UNCHANGED <<espLink, prompt, nconn, peer>>
          \/ /\ q.req = "send" /\ espLink[l] # NoConn
             /\ Room(1)
             /\ prompt' = l
             /\ rx' = Append(rx, OK)
             /\ UNCHANGED <<espLink, espServer, nconn, peer>>
          \/ /\ q.req = "status"
             /\ \E lines \in StatusLines :
                    /\ Room(Len(lines) + 1)
                    /\ rx' = rx \o lines \o <<Msg("OK", l, NoConn)>>
             /\ UNCHANGED <<espVars, peer, early>>
          \/ q.req # "status" /\ Refuse
    /\ toEsp' = Tail(toEsp)
    /\ UNCHANGED <<sockVars, tabVars, call, rd, fault, astray, early, mixed>>

\* Anything written at the prompt is payload, the CIPSTATUS of accept too,
\* which may be less than what is expected.
EspPayload ==
    /\ toEsp # <<>> /\ prompt # NoLink
    /\ \/ /\ Room(1)
          /\ rx' = Append(rx, Msg("SEND OK", NoLink, NoConn))
          /\ prompt' = NoLink
       \/ Head(toEsp).req # "data" /\ UNCHANGED <<rx, prompt>>
    /\ toEsp' = Tail(toEsp)
    /\ astray' = (astray \/ Head(toEsp).req # "data")
    /\ UNCHANGED <<sockVars, tabVars, call, rd, fault, espLink, espServer, nconn, peer, early, mixed>>

\* A remote host connects on a free link.
RemoteConnect(l) ==
    /\ espServer /\ espLink[l] = NoConn
    /\ Room(1) /\ Open(l)
    /\ rx' = Append(rx, Msg("CONNECT", l, nconn + 1))
    /\ UNCHANGED <<sockVars, tabVars, call, rd, toEsp, fault, espServer, prompt, ghosts>>

\* The connection of link l ends.
RemoteClose(l) ==
    /\ espLink[l] # NoConn
    /\ Room(1)
    /\ espLink' = [espLink EXCEPT ![l] = NoConn]
    /\ rx' = Append(rx, Msg("CLOSED", l, espLink[l]))
    /\ UNCHANGED <<sockVars, tabVars, call, rd, toEsp, fault, espServer, prompt, nconn, ghosts>>

\* The connection of link l brings data.
RemoteData(l) ==
    /\ espLink[l] # NoConn
    /\ Room(1)
    /\ rx' = Append(rx, Msg("IPD", l, espLink[l]))
    /\ UNCHANGED <<sockVars, tabVars, call, rd, toEsp, fault, espVars, ghosts>>

-----------------------------------------------------------------------------

App ==
    \/ Socket \/ AcceptNode \/ Complete
    \/ \E s \in Sock : \/ CallGone(s) \/ Connect(s) \/ Bind(s) \/ Listen(s)
                       \/ AcceptTake(s) \/ Send(s) \/ Close(s)

ReadThread == Closed \/ Recv \/ Answer \/ Ignore \/ AcceptStart \/ AcceptEnd
              \/ AcceptDrop \/ AcceptClient

Esp == EspCommand \/ EspPayload

Network == \E l \in Link : RemoteConnect(l) \/ RemoteClose(l) \/ RemoteData(l)

\* A null dereference ends the process.
Next == fault = "none" /\ (App \/ ReadThread \/ Esp \/ Network)

Spec == Init /\ [][Next]_vars

-----------------------------------------------------------------------------
(* Properties *)

\* No socket is on two links, and none is handed out by bos_accept a second
\* time or while it is still in a clients list: whatever the read thread and
\* the application do to links and clients at the same time.
OneOwner ==
    /\ \A l, m \in Link : links[l] = links[m] /\ links[l] # NoSock => l = m
    /\ \A s, u \in Sock : \A i \in 1..Len(clients[s]), j \in 1..Len(clients[u]) :
           clients[s][i] = clients[u][j] => s = u /\ i = j
    /\ \A s \in Sock : \A i \in 1..Len(clients[s]) : node[clients[s][i]] = "none"

\* recv dereferences links[link_id] unchecked (esp01.c:294-296).  The slot is
\* never empty when data comes, and holds the socket whose connection the data
\* came from, however often a link is closed and used again; unless accept has
\* swallowed a line or a line was handled in the window between an answer and
\* the table update.
RecvFindsSocket == fault = "recv" \/ mixed => astray

\* Under the same condition, once all lines are handled the table of links
\* agrees with the ESP8266: every open link has the socket of its connection
\* and every closed one is free.
TableAgrees ==
    /\ ~astray /\ fault = "none"
    /\ call = Idle /\ rd = NoLink /\ toEsp = <<>> /\ rx = <<>>
    => \A l \in Link : IF links[l] = NoSock THEN espLink[l] = NoConn
                       ELSE espLink[l] = peer[links[l]]

\* Under the same condition, once all lines are handled every descriptor of a
\* connection that has ended says so: bos_recv and bos_send return -1
\* (netdev.c:313-314, 363-364).  Left out are the clients whose connection
\* ended before bos_accept had made their descriptor: nobody tells them.
EndNoticed ==
    /\ ~astray /\ fault = "none"
    /\ call = Idle /\ rd = NoLink /\ toEsp = <<>> /\ rx = <<>>
    => \A s \in Sock \ early :
           node[s] = "sock" /\ peer[s] # NoConn => \E l \in Link : espLink[l] = peer[s]

\* What the comment E_NOCONN (netdev.c:314, 364) says without exception: a
\* descriptor whose connection has ended says so.  The code does not do it for
\* clients whose connection ended before bos_accept had made the descriptor.
EndAlwaysNoticed ==
    /\ ~astray /\ fault = "none"
    /\ call = Idle /\ rd = NoLink /\ toEsp = <<>> /\ rx = <<>>
    => \A s \in Sock :
           node[s] = "sock" /\ peer[s] # NoConn => \E l \in Link : espLink[l] = peer[s]

=============================================================================

---------------------------- MODULE Esp01Proofs ----------------------------
(***************************************************************************)
(* Theorems about Esp01.                                                   *)
(*                                                                         *)
(* That no socket has two owners holds always (Owners).  That the driver's *)
(* table follows the connections holds unless a line went astray           *)
(* (Tracked).  Each line of a connection, and the connection itself while  *)
(* it is open, is Known: by the time read_thread comes to the line the     *)
(* table has the connection's socket, or the call that connects is about   *)
(* to enter it, or the CONNECT is in front of the line, or accept is       *)
(* waiting for a state that is reported in time.  That needs to know which *)
(* answer ends which wait: the answers to CIPSTATUS that are under way are *)
(* counted against the waits they can end (Waits).                         *)
(***************************************************************************)
EXTENDS Esp01, FiniteSetTheorems, WellFoundedInduction, TLAPS

Events  == {"CONNECT", "CLOSED", "IPD", "STATUS"}
Answers == {"OK", "SEND OK", "ERROR"}
Calls   == {"connect", "close", "listen", "unlisten", "send", "data"}
LinkCalls == {"connect", "close", "send", "data"}

Line    == [ev : Events \cup Answers, link : Link \cup {NoLink}, conn : Conn \cup {NoConn}]
Req     == [req : Calls \cup {"status"}, link : Link \cup {NoLink}]

\* A line about a link, of one of the n connections that have been made, or an answer.
GoodLine(m, n) ==
    /\ m \in Line
    /\ m.ev \in Events => m.link \in Link /\ m.conn \in 1..n
    /\ m.ev \in {"SEND OK", "ERROR"} => m.link = NoLink

GoodReq(q) ==
    /\ q \in Req
    /\ q.req \in LinkCalls \cup {"status"} => q.link \in Link

TableTypes ==
    /\ nsock \in 0..MaxSock /\ assigned \subseteq Sock
    /\ node \in [Sock -> {"none", "sock", "gone"}]
    /\ clients \in [Sock -> Seq(Sock)]
    /\ links \in [Link -> Sock \cup {NoSock}] /\ tcp_server \in Sock \cup {NoSock}
    /\ peer \in [Sock -> Conn \cup {NoConn}] /\ early \subseteq Sock

CallTypes ==
    /\ call \in [op : Calls \cup {"none", "accept"}, sock : Sock \cup {NoSock},
                 link : Link \cup {NoLink}, res : {"none", "wait", "OK", "ERROR"}]
    /\ call.op \in {"none", "accept"} <=> call.res = "none"
    /\ call.op = "none" <=> call = Idle
    /\ call.op \in LinkCalls => call.link \in Link
    /\ call.op # "none" => call.sock \in 1..nsock
    /\ rd \in Link \cup {NoLink}

RxTypes == rx \in Seq(Line) /\ \A i \in DOMAIN rx : GoodLine(rx[i], nconn)

ReqTypes == toEsp \in Seq(Req) /\ \A i \in DOMAIN toEsp : GoodReq(toEsp[i])

EspTypes ==
    /\ espLink \in [Link -> Conn \cup {NoConn}] /\ \A l \in Link : espLink[l] \in 0..nconn
    /\ prompt \in Link \cup {NoLink} /\ nconn \in 0..MaxConn

Types == TableTypes /\ CallTypes /\ RxTypes /\ ReqTypes /\ EspTypes

\* Whose each socket is.
LinkOwners ==
    /\ \A l, m \in Link : links[l] = links[m] /\ links[l] # NoSock => l = m
    /\ \A l \in Link : links[l] # NoSock =>
           links[l] <= nsock /\ (links[l] \in assigned \/ node[links[l]] = "none")
    /\ call.op = "connect" => node[call.sock] # "none" /\ \A l \in Link : links[l] # call.sock

Client(s, i) == s \in Sock /\ i \in 1..Len(clients[s])

ClientOwners ==
    /\ \A s, u, i, j : Client(s, i) /\ Client(u, j) /\ clients[s][i] = clients[u][j]
           => s = u /\ i = j
    /\ \A s, i : Client(s, i) => clients[s][i] <= nsock /\ node[clients[s][i]] = "none"
    /\ call.op = "accept" =>
           /\ node[call.sock] = "none"
           /\ \A s, i : Client(s, i) => clients[s][i] # call.sock

SockOwners ==
    /\ \A s \in Sock :
           /\ s > nsock => node[s] = "none" /\ peer[s] = NoConn /\ s \notin assigned
           /\ peer[s] # NoConn => s \in assigned \/ node[s] = "none"
    /\ call.op # "none" => call.sock \in assigned

Owners == LinkOwners /\ ClientOwners /\ SockOwners

-----------------------------------------------------------------------------
(* Which answer ends which wait *)

StatusOK(m)  == m.ev = "OK" /\ m.link # NoLink
OwnAnswer(m) == m.ev \in Answers /\ m.link = NoLink

\* An answer or a request is for accept or for the application's call.
LineKind(m) == IF StatusOK(m) THEN "status" ELSE IF OwnAnswer(m) THEN "own" ELSE "event"
ReqKind(q)  == IF q.req = "status" THEN "status" ELSE "own"

\* The places of what is under way of a kind k: lines r, then requests q behind them.
Items(r, q, k) ==
    {i \in 1..(Len(r) + Len(q)) :
        IF i <= Len(r) THEN LineKind(r[i]) = k ELSE ReqKind(q[i - Len(r)]) = k}

StatusItems == Items(rx, toEsp, "status")
OwnItems    == Items(rx, toEsp, "own")

AtMostOne(S) == \A i, j \in S : i = j
AtMostTwo(S) == \A i, j, k \in S : i = j \/ j = k \/ i = k

\* The connection that bos_connect has asked for has been made.
Made == call.op = "connect" /\ peer[call.sock] # NoConn

\* accept has taken the answer of the call, which will take that of CIPSTATUS.
Swapped == call.res = "wait" /\ OwnItems = {}

OwnWaits ==
    /\ AtMostOne(OwnItems)
    /\ call.res # "wait" => OwnItems = {}
    /\ Swapped => Made
    /\ \A i \in DOMAIN toEsp : toEsp[i].req # "status" =>
           /\ toEsp[i].req = call.op /\ toEsp[i].link = call.link
           /\ call.op = "connect" => peer[call.sock] = NoConn
    /\ \A i \in DOMAIN rx : OwnAnswer(rx[i]) => rx[i].ev \in {Expected, "ERROR"}

StatusWaits ==
    /\ AtMostTwo(StatusItems)
    /\ rd = NoLink \/ ~Swapped => AtMostOne(StatusItems)
    /\ rd = NoLink /\ ~Swapped => StatusItems = {}

Waits == OwnWaits /\ StatusWaits

-----------------------------------------------------------------------------
(* The lines of a connection: r are lines, e is what is open on each link *)

Is(m, ev, l, c) == m.ev = ev /\ m.link = l /\ m.conn = c

\* Behind line i the end of the connection is announced, unless it is open.
Ends(r, e, i, l, c) ==
    e[l] = c \/ \E j \in DOMAIN r : i < j /\ Is(r[j], "CLOSED", l, c)

\* The lines of a link are those of one connection after the other.
Order(r, e) ==
    /\ \A i \in DOMAIN r : r[i].ev \in Events /\ r[i].ev # "CLOSED" =>
           Ends(r, e, i, r[i].link, r[i].conn)
    /\ \A i, j \in DOMAIN r :
           i < j /\ r[i].ev \in Events /\ r[j].ev \in Events /\ r[i].link = r[j].link =>
               /\ r[i].conn <= r[j].conn
               /\ r[i].ev = "CLOSED" => r[i].conn < r[j].conn
    /\ \A i \in DOMAIN r : r[i].ev \in Events /\ e[r[i].link] # NoConn =>
           /\ r[i].conn <= e[r[i].link]
           /\ r[i].ev = "CLOSED" => r[i].conn < e[r[i].link]

\* By line i connection c of link l must be known: the line is data or the end
\* of it, or, behind the last line, it is open.
Needed(r, e, i, l, c) ==
    \/ i \in DOMAIN r /\ (Is(r[i], "IPD", l, c) \/ Is(r[i], "CLOSED", l, c))
    \/ i = Len(r) + 1 /\ e[l] = c

\* An answer to CIPSTATUS that comes between the CONNECT and a line comes with
\* the state of the link.
Reported(r, e) ==
    \A l \in Link, c \in Conn, i, k \in DOMAIN r, n \in 1..(Len(r) + 1) :
        /\ i < k /\ k < n /\ Is(r[i], "CONNECT", l, c) /\ StatusOK(r[k]) /\ Needed(r, e, n, l, c)
        => \E j \in DOMAIN r : i < j /\ j < k /\ Is(r[j], "STATUS", l, c)

\* The connection of the call in progress, until the table has it.
Own(l, c) == call.op = "connect" /\ call.link = l /\ peer[call.sock] = c

\* An answer that ends the loop of accept for link l.
EndsAccept(m, l) == StatusOK(m) \/ (OwnAnswer(m) /\ Made /\ call.link = l)

Entered(l, c) == links[l] # NoSock /\ peer[links[l]] = c

Accepting(i, l, c) ==
    /\ rd = l
    /\ \A k \in DOMAIN rx : k < i /\ EndsAccept(rx[k], l) =>
           \E j \in DOMAIN rx : j < k /\ Is(rx[j], "STATUS", l, c)

Known(i, l, c) ==
    \/ Entered(l, c)
    \/ Own(l, c)
    \/ \E j \in DOMAIN rx : j < i /\ Is(rx[j], "CONNECT", l, c)
    \/ Accepting(i, l, c)

AllKnown ==
    \A l \in Link, c \in Conn, i \in 1..(Len(rx) + 1) :
        Needed(rx, espLink, i, l, c) => Known(i, l, c)

\* What is entered is open or its end is announced.
EntriesLive ==
    \A l \in Link : links[l] # NoSock =>
        peer[links[l]] # NoConn /\ Ends(rx, espLink, 0, l, peer[links[l]])

\* The link is free until bos_connect enters it, and the answer that a connection
\* has been made comes right behind the CONNECT.
OwnLive ==
    /\ call.op = "connect" => links[call.link] = NoSock
    /\ call.op = "connect" /\ ~Made =>
           call.res # "OK" /\ \A k \in DOMAIN rx : OwnAnswer(rx[k]) => rx[k].ev = "ERROR"
    /\ Made =>
           /\ call.res # "ERROR" /\ Ends(rx, espLink, 0, call.link, peer[call.sock])
           /\ \A k \in DOMAIN rx : OwnAnswer(rx[k]) =>
                  /\ rx[k].ev = "OK"
                  /\ \/ k = 1 /\ rd = call.link
                     \/ k > 1 /\ Is(rx[k - 1], "CONNECT", call.link, peer[call.sock])

\* The end of a connection is handled before the call that has asked for it goes on.
CloseSeen ==
    call.op = "close" =>
        /\ call.res = "OK" => links[call.link] = NoSock
        /\ \A k \in DOMAIN rx : OwnAnswer(rx[k]) /\ rx[k].ev = "OK" =>
               \/ links[call.link] = NoSock
               \/ \E j \in DOMAIN rx : j < k /\ rx[j].ev = "CLOSED" /\ rx[j].link = call.link

\* A socket made for a connection is in the table, or about to be, or was told.
PeersPlaced ==
    \A s \in Sock : peer[s] # NoConn =>
        \/ \E l \in Link : links[l] = s
        \/ call.op = "connect" /\ call.sock = s
        \/ node[s] = "gone"
        \/ s \in early

Tracked ==
    /\ Waits /\ Order(rx, espLink) /\ Reported(rx, espLink) /\ AllKnown
    /\ EntriesLive /\ OwnLive /\ CloseSeen /\ PeersPlaced

IInv ==
    /\ Types /\ Owners
    /\ ~astray => Tracked /\ fault # "recv" /\ ~mixed

-----------------------------------------------------------------------------
(* Sequences *)

LEMMA TailFacts ==
    ASSUME NEW S, NEW r \in Seq(S), r # <<>>
    PROVE  /\ Tail(r) \in Seq(S) /\ Len(Tail(r)) = Len(r) - 1 /\ Len(r) \in Nat /\ Len(r) > 0
           /\ DOMAIN r = 1..Len(r) /\ DOMAIN Tail(r) = 1..(Len(r) - 1)
           /\ \A i \in DOMAIN Tail(r) : Tail(r)[i] = r[i + 1] /\ i + 1 \in DOMAIN r
           /\ Head(r) = r[1] /\ 1 \in DOMAIN r /\ r[1] \in S
  OBVIOUS

LEMMA ConcatFacts ==
    ASSUME NEW S, NEW r \in Seq(S), NEW s \in Seq(S)
    PROVE  /\ r \o s \in Seq(S) /\ Len(r \o s) = Len(r) + Len(s)
           /\ Len(r) \in Nat /\ Len(s) \in Nat
           /\ DOMAIN r = 1..Len(r) /\ DOMAIN s = 1..Len(s)
           /\ DOMAIN (r \o s) = 1..(Len(r) + Len(s))
           /\ \A i \in 1..Len(r) : (r \o s)[i] = r[i]
           /\ \A i \in 1..Len(s) : (r \o s)[Len(r) + i] = s[i]
           /\ \A i \in 1..(Len(r) + Len(s)) :
                  i > Len(r) => i - Len(r) \in 1..Len(s) /\ (r \o s)[i] = s[i - Len(r)]
  OBVIOUS

LEMMA AppendIsConcat ==
    ASSUME NEW S, NEW r \in Seq(S), NEW m \in S
    PROVE  Append(r, m) = r \o <<m>>
  OBVIOUS

-----------------------------------------------------------------------------
(* Types *)

LEMMA InitTypes == Init => Types
<1> SUFFICES ASSUME Init PROVE Types
  OBVIOUS
<1> USE NLINKSAssumption, BoundsAssumption DEF Init, Idle, Link, Sock, Conn, NoSock, NoConn, NoLink
<1>1. TableTypes
  BY DEF TableTypes
<1>2. CallTypes
  BY DEF CallTypes, LinkCalls, Calls
<1>3. RxTypes /\ ReqTypes /\ EspTypes
  BY DEF RxTypes, ReqTypes, EspTypes
<1> QED
  BY <1>1, <1>2, <1>3 DEF Types

\* Numbers that stand for nothing are outside of what they stand in for.
LEMMA Nothing ==
    /\ NoSock \notin Sock /\ NoConn \notin Conn /\ NoLink \notin Link
    /\ Sock \subseteq Nat /\ Conn \subseteq Nat /\ NoSock = 0 /\ NoConn = 0
    /\ MaxSock \in Nat /\ MaxConn \in Nat /\ Sock = 1..MaxSock /\ Conn = 1..MaxConn
  BY NLINKSAssumption, BoundsAssumption DEF Link, Sock, Conn, NoSock, NoConn, NoLink

LEMMA LeastNumber ==
    ASSUME NEW T \in SUBSET Nat, T # {}
    PROVE  \E m \in T : \A k \in T : m <= k
<1> DEFINE R == OpToRel(<, Nat)
<1>1. IsWellFoundedOn(R, Nat)
  BY NatLessThanWellFounded
<1>2. \A x, y \in Nat : y < x => <<y, x>> \in R
  BY DEF OpToRel
<1> HIDE DEF R
<1>3. PICK m \in T : \A y \in T : ~ (<<y, m>> \in R)
  BY <1>1, WFMin
<1>4. \A k \in T : ~(k < m)
  BY <1>2, <1>3, Zenon
<1>5. \A k \in T : m <= k
  BY <1>4, SMT
<1> QED
  BY <1>5

\* get_link_id finds a link that holds the socket, if there is one.
LEMMA LinkIdRange ==
    ASSUME NEW s, get_link_id(s) # NoLink
    PROVE  get_link_id(s) \in Link /\ links[get_link_id(s)] = s
<1>1. LinksOf(s) # {} /\ LinksOf(s) \subseteq Link
  BY DEF get_link_id, LinksOf
<1>2. \E m \in LinksOf(s) : \A k \in LinksOf(s) : m <= k
  BY <1>1, LeastNumber DEF Link
<1>3. get_link_id(s) \in LinksOf(s)
  BY <1>1, <1>2 DEF get_link_id
<1> QED
  BY <1>3 DEF LinksOf

LEMMA SameTypes ==
    ASSUME Types, UNCHANGED <<sockVars, tabVars, call, rd, toEsp, rx, espVars, ghosts>>
    PROVE  Types'
<1>1. TableTypes'
  BY DEF Types, TableTypes, sockVars, tabVars, ghosts
<1>2. CallTypes'
  BY DEF Types, CallTypes, sockVars
<1>3. RxTypes' /\ ReqTypes' /\ EspTypes'
  BY DEF Types, RxTypes, ReqTypes, EspTypes, GoodLine, GoodReq, espVars
<1> QED
  BY <1>1, <1>2, <1>3 DEF Types

\* A call that writes a command: from a set of calls without an answer.
LEMMA RequestTypes ==
    ASSUME Types, NEW op \in Calls, NEW s \in 1..nsock, NEW l \in Link \cup {NoLink},
           op \in LinkCalls => l \in Link,
           Request(op, s, l), UNCHANGED <<nsock, rd>>
    PROVE  CallTypes' /\ ReqTypes'
<1>1. call' = [op |-> op, sock |-> s, link |-> l, res |-> "wait"]
  BY DEF Request
<1>2. s \in Sock
  BY Nothing DEF Types, TableTypes
<1>3. CallTypes'
  BY <1>1, <1>2 DEF Types, CallTypes, Calls, LinkCalls, Idle
<1>4. toEsp' = Append(toEsp, [req |-> op, link |-> l])
  BY DEF Request
<1>5. GoodReq([req |-> op, link |-> l])
  BY DEF GoodReq, Req, Calls
<1>6. ReqTypes'
  <2>1. toEsp \in Seq(Req) /\ [req |-> op, link |-> l] \in Req
    BY <1>5 DEF Types, ReqTypes, GoodReq
  <2> HIDE DEF Req
  <2>2. toEsp' \in Seq(Req)
    BY <1>4, <2>1
  <2>3. \A i \in DOMAIN toEsp' : toEsp'[i] = [req |-> op, link |-> l] \/
                                 (i \in DOMAIN toEsp /\ toEsp'[i] = toEsp[i])
    BY <1>4, <2>1
  <2>4. \A i \in DOMAIN toEsp' : GoodReq(toEsp'[i])
    BY <1>5, <2>3 DEF Types, ReqTypes
  <2> QED
    BY <2>2, <2>4 DEF ReqTypes, GoodReq
<1> QED
  BY <1>3, <1>6

LEMMA AppTypes == Types /\ Owners /\ App => Types'
<1> SUFFICES ASSUME Types, Owners, App PROVE Types'
  OBVIOUS
<1> USE Nothing
<1>1. CASE Socket
  <2>1. nsock + 1 \in Sock /\ nsock + 1 \in 0..MaxSock
    BY <1>1 DEF Socket, Types, TableTypes
  <2>2. TableTypes'
    BY <1>1, <2>1 DEF Socket, Types, TableTypes, tabVars, ghosts
  <2>3. CallTypes'
    BY <1>1 DEF Socket, Types, TableTypes, CallTypes, tabVars, ghosts
  <2> QED
    BY <1>1, <2>2, <2>3 DEF Socket, Types, RxTypes, ReqTypes, EspTypes, GoodLine, GoodReq, espVars
<1>2. CASE AcceptNode
  <2>1. TableTypes'
    BY <1>2 DEF AcceptNode, Types, TableTypes, tabVars, ghosts
  <2>2. CallTypes'
    BY <1>2 DEF AcceptNode, Types, CallTypes, tabVars, ghosts, Idle, LinkCalls
  <2> QED
    BY <1>2, <2>1, <2>2 DEF AcceptNode, Types, RxTypes, ReqTypes, EspTypes, GoodLine, GoodReq, espVars
<1>3. CASE Complete
  <2>1. UNCHANGED <<sockVars, rd, rx, fault, espVars, ghosts>>
    BY <1>3 DEF Complete
  <2>2. call.op \in Calls /\ call.sock \in Sock /\ call.sock \in 1..nsock
    BY <1>3 DEF Complete, Types, CallTypes, TableTypes, Calls, Sock
  <2>3. TableTypes'
    <3>1. links' \in [Link -> Sock \cup {NoSock}] /\ tcp_server' \in Sock \cup {NoSock}
      BY <1>3, <2>2 DEF Complete, Types, TableTypes, tabVars, Calls
    <3> QED
      BY <2>1, <3>1 DEF Types, TableTypes, sockVars, ghosts
  <2>4. CallTypes' /\ ReqTypes'
    <3>1. CASE call.op = "send" /\ call.res = "OK"
      <4>1. Request("data", call.sock, call.link)
        BY <1>3, <3>1 DEF Complete
      <4>2. call.link \in Link
        BY <3>1 DEF Types, CallTypes, LinkCalls
      <4> QED
        BY <2>1, <2>2, <4>1, <4>2, RequestTypes DEF Calls, sockVars
    <3>2. CASE ~(call.op = "send" /\ call.res = "OK")
      <4>1. call' = Idle /\ toEsp' = toEsp
        BY <1>3, <3>2 DEF Complete
      <4> QED
        BY <2>1, <4>1 DEF Types, CallTypes, ReqTypes, GoodReq, Idle, LinkCalls, Calls
    <3> QED
      BY <3>1, <3>2
  <2> QED
    BY <2>1, <2>3, <2>4 DEF Types, RxTypes, EspTypes, GoodLine, espVars
<1>4. ASSUME NEW s \in Sock, CallGone(s) PROVE Types'
  BY <1>4, SameTypes DEF CallGone
<1>5. ASSUME NEW s \in Sock, Bind(s) PROVE Types'
  <2>1. /\ assigned' = assigned \cup {s}
        /\ UNCHANGED <<nsock, clients, node, tabVars, call, rd, toEsp, rx, espVars, ghosts>>
    BY <1>5 DEF Bind
  <2>2. TableTypes'
    BY <2>1 DEF Types, TableTypes, tabVars, ghosts
  <2>3. CallTypes'
    BY <2>1 DEF Types, CallTypes
  <2>4. RxTypes' /\ ReqTypes' /\ EspTypes'
    BY <2>1 DEF Types, RxTypes, ReqTypes, EspTypes, GoodLine, GoodReq, espVars
  <2> QED
    BY <2>2, <2>3, <2>4 DEF Types
<1>6. ASSUME NEW s \in Sock, node[s] # "none" PROVE s \in 1..nsock
  BY <1>6 DEF Types, TableTypes, Owners, SockOwners, Sock
<1>7. ASSUME NEW s \in Sock, Connect(s) PROVE Types'
  <2>1. /\ UNCHANGED <<nsock, node, clients, tabVars, rd, rx, fault, espVars, ghosts>>
        /\ assigned' = assigned \cup {s} /\ s \in 1..nsock
    BY <1>6, <1>7 DEF Connect
  <2>2. CallTypes' /\ ReqTypes'
    <3>1. CASE get_link_id(NoSock) = NoLink
      BY <1>7, <2>1, <3>1 DEF Connect, Types, CallTypes, ReqTypes, GoodReq
    <3>2. CASE get_link_id(NoSock) # NoLink
      BY <1>7, <2>1, <3>2, RequestTypes, LinkIdRange DEF Connect, Calls
    <3> QED
      BY <3>1, <3>2
  <2> QED
    BY <2>1, <2>2 DEF Types, TableTypes, RxTypes, EspTypes, GoodLine, tabVars, espVars, ghosts
<1>8. ASSUME NEW s \in Sock, Listen(s) \/ Send(s) \/ Close(s) PROVE Types'
  <2>1. /\ UNCHANGED <<sockVars, tabVars, rd, rx, fault, espVars, ghosts>> /\ s \in 1..nsock
    BY <1>6, <1>8 DEF Listen, Send, Close
  <2>2. \/ Request("listen", s, NoLink) \/ Request("unlisten", s, NoLink)
        \/ /\ get_link_id(s) # NoLink
           /\ Request("send", s, get_link_id(s)) \/ Request("close", s, get_link_id(s))
    BY <1>8 DEF Listen, Send, Close
  <2>3. CallTypes' /\ ReqTypes'
    BY <2>1, <2>2, RequestTypes, LinkIdRange DEF Calls, LinkCalls, sockVars
  <2> QED
    BY <2>1, <2>3 DEF Types, TableTypes, RxTypes, EspTypes, GoodLine, sockVars, tabVars, espVars, ghosts
<1>9. ASSUME NEW s \in Sock, AcceptTake(s) PROVE Types'
  <2>1. Head(clients[s]) \in Sock /\ Tail(clients[s]) \in Seq(Sock) /\ Head(clients[s]) \in 1..nsock
    <3>1. clients[s] \in Seq(Sock) /\ clients[s] # <<>>
      BY <1>9 DEF AcceptTake, Types, TableTypes
    <3>2. Client(s, 1) /\ Head(clients[s]) = clients[s][1] /\ clients[s][1] \in Sock
      BY <3>1 DEF Client
    <3>3. clients[s][1] <= nsock
      BY <3>2 DEF Owners, ClientOwners
    <3> QED
      BY <3>1, <3>2, <3>3 DEF Types, TableTypes, Sock
  <2>2. TableTypes'
    BY <1>9, <2>1 DEF AcceptTake, Types, TableTypes, tabVars, ghosts
  <2>3. CallTypes'
    BY <1>9, <2>1 DEF AcceptTake, Types, CallTypes, Calls, LinkCalls, Idle
  <2> QED
    BY <1>9, <2>2, <2>3 DEF AcceptTake, Types, RxTypes, ReqTypes, EspTypes, GoodLine, GoodReq, espVars
<1> QED
  BY <1>1, <1>2, <1>3, <1>4, <1>5, <1>7, <1>8, <1>9 DEF App

LEMMA TailTypes ==
    ASSUME Types, rx # <<>>, rx' = Tail(rx), UNCHANGED nconn
    PROVE  RxTypes' /\ GoodLine(Head(rx), nconn) /\ Head(rx) = rx[1] /\ 1 \in DOMAIN rx
<1>1. rx \in Seq(Line) /\ \A i \in DOMAIN rx : GoodLine(rx[i], nconn)
  BY DEF Types, RxTypes
<1>2. \A i \in DOMAIN rx' : GoodLine(rx'[i], nconn)
  BY <1>1, TailFacts
<1>3. rx' \in Seq(Line) /\ Head(rx) = rx[1] /\ 1 \in DOMAIN rx
  BY <1>1, TailFacts
<1> QED
  BY <1>1, <1>2, <1>3 DEF RxTypes, GoodLine

\* Steps that consume a line and write no command.
LEMMA ReadTypes == Types /\ Owners /\ ReadThread => Types'
<1> SUFFICES ASSUME Types, Owners, ReadThread PROVE Types'
  OBVIOUS
<1> USE Nothing
<1>1. rx # <<>> /\ rx' = Tail(rx) /\ UNCHANGED espVars
  BY DEF ReadThread, Closed, Recv, Answer, Ignore, AcceptStart, AcceptEnd, AcceptDrop, AcceptClient
<1>2. /\ RxTypes' /\ EspTypes' /\ GoodLine(Head(rx), nconn)
      /\ Head(rx).ev \in Events => Head(rx).link \in Link /\ Head(rx).conn \in Conn
  <2>1. UNCHANGED <<espLink, prompt, nconn>>
    BY <1>1 DEF espVars
  <2>2. RxTypes' /\ GoodLine(Head(rx), nconn)
    BY <1>1, <2>1, TailTypes
  <2>3. EspTypes'
    BY <2>1 DEF Types, EspTypes
  <2>4. Head(rx).ev \in Events => Head(rx).link \in Link /\ Head(rx).conn \in 1..nconn
    BY <2>2 DEF GoodLine
  <2>5. 1..nconn \subseteq Conn
    BY DEF Types, EspTypes
  <2> QED
    BY <1>1, <2>2, <2>3, <2>4, <2>5
<1>3. CASE Closed
  <2>1. TableTypes'
    <3>1. Head(rx).link \in Link
      BY <1>2, <1>3 DEF Closed, Events
    <3>2. links[Head(rx).link] \in Sock \cup {NoSock}
      BY <3>1 DEF Types, TableTypes
    <3>3. node' \in [Sock -> {"none", "sock", "gone"}]
      BY <1>3, <3>2 DEF Closed, Disconnect, Types, TableTypes
    <3>4. early' \subseteq Sock
      BY <1>3, <3>2 DEF Closed, Types, TableTypes
    <3>5. links' \in [Link -> Sock \cup {NoSock}]
      BY <1>3, <3>1 DEF Closed, Types, TableTypes
    <3> QED
      BY <1>3, <3>3, <3>4, <3>5 DEF Closed, Types, TableTypes
  <2> QED
    BY <1>2, <1>3, <2>1 DEF Closed, Types, CallTypes, ReqTypes, GoodReq
<1>4. CASE Recv
  BY <1>2, <1>4 DEF Recv, Types, TableTypes, CallTypes, ReqTypes, GoodReq, sockVars, tabVars
<1>5. CASE Answer
  <2>1. CallTypes'
    <3>1. CASE call' = call
      BY <1>5, <3>1 DEF Answer, Types, CallTypes, sockVars
    <3>2. CASE call.res = "wait" /\ \E res \in {"OK", "ERROR"} : call' = [call EXCEPT !.res = res]
      BY <1>5, <3>2 DEF Answer, Types, CallTypes, sockVars, Idle
    <3> QED
      BY <1>5, <3>1, <3>2 DEF Answer
  <2> QED
    BY <1>2, <1>5, <2>1 DEF Answer, Types, TableTypes, ReqTypes, GoodReq, sockVars, tabVars, ghosts
<1>6. CASE Ignore
  BY <1>2, <1>6 DEF Ignore, Types, TableTypes, CallTypes, ReqTypes, GoodReq, sockVars, tabVars, ghosts
<1>7. CASE AcceptStart
  <2>1. Head(rx).link \in Link
    BY <1>2, <1>7 DEF AcceptStart, Events
  <2>2. CallTypes'
    BY <1>7, <2>1 DEF AcceptStart, Types, CallTypes, sockVars
  <2>3. ReqTypes'
    <3> DEFINE q == [req |-> "status", link |-> Head(rx).link]
    <3>1. toEsp' = Append(toEsp, q) /\ GoodReq(q) /\ toEsp \in Seq(Req)
      BY <1>7, <2>1 DEF AcceptStart, GoodReq, Req, Types, ReqTypes
    <3> HIDE DEF q
    <3>2. /\ toEsp' \in Seq(Req)
          /\ \A i \in DOMAIN toEsp' : toEsp'[i] = q \/ (i \in DOMAIN toEsp /\ toEsp'[i] = toEsp[i])
      BY <3>1 DEF GoodReq
    <3> QED
      BY <3>1, <3>2 DEF Types, ReqTypes, GoodReq
  <2> QED
    BY <1>2, <1>7, <2>2, <2>3 DEF AcceptStart, Types, TableTypes, sockVars, tabVars, ghosts
<1>8. CASE AcceptEnd \/ AcceptDrop
  <2>1. CallTypes'
    BY <1>8 DEF AcceptEnd, AcceptDrop, Types, CallTypes, sockVars
  <2> QED
    BY <1>2, <1>8, <2>1 DEF AcceptEnd, AcceptDrop, Types, TableTypes, ReqTypes, GoodReq, sockVars, tabVars
<1>9. CASE AcceptClient
  <2>1. Head(rx).link \in Link /\ Head(rx).conn \in Conn /\ rd = Head(rx).link
    BY <1>2, <1>9 DEF AcceptClient, Events
  <2>2. TableTypes' /\ CallTypes'
    <3>1. CASE tcp_server = NoSock
      BY <1>9, <3>1 DEF AcceptClient, Types, TableTypes, CallTypes
    <3>2. CASE tcp_server # NoSock
      <4>1. nsock + 1 \in Sock /\ nsock + 1 \in 0..MaxSock /\ tcp_server \in Sock
        BY <1>9, <3>2 DEF AcceptClient, Types, TableTypes
      <4>2. /\ nsock' = nsock + 1 /\ links' = [links EXCEPT ![rd] = nsock + 1]
            /\ clients' = [clients EXCEPT ![tcp_server] = Append(@, nsock + 1)]
            /\ peer' = [peer EXCEPT ![nsock + 1] = Head(rx).conn]
        BY <1>9, <3>2 DEF AcceptClient, NewLinks
      <4>3. clients' \in [Sock -> Seq(Sock)]
        <5>1. clients \in [Sock -> Seq(Sock)]
          BY DEF Types, TableTypes
        <5>2. Append(clients[tcp_server], nsock + 1) \in Seq(Sock)
          BY <4>1, <5>1
        <5> HIDE DEF Sock
        <5> QED
          BY <4>2, <5>1, <5>2
      <4>4. links' \in [Link -> Sock \cup {NoSock}] /\ peer' \in [Sock -> Conn \cup {NoConn}]
        BY <2>1, <4>1, <4>2 DEF Types, TableTypes
      <4>5. TableTypes'
        BY <1>9, <4>1, <4>2, <4>3, <4>4 DEF AcceptClient, Types, TableTypes
      <4>6. CallTypes'
        BY <1>9, <4>1, <4>2 DEF AcceptClient, Types, TableTypes, CallTypes
      <4> QED
        BY <4>5, <4>6
    <3> QED
      BY <3>1, <3>2
  <2> QED
    BY <1>2, <1>9, <2>2 DEF AcceptClient, Types, ReqTypes, GoodReq
<1> QED
  BY <1>3, <1>4, <1>5, <1>6, <1>7, <1>8, <1>9 DEF ReadThread

-----------------------------------------------------------------------------
(* What the ESP8266 does with the next request *)

OK     == Msg("OK", NoLink, NoConn)
ERROR  == Msg("ERROR", NoLink, NoConn)
SENDOK == Msg("SEND OK", NoLink, NoConn)

EspConnects(q) ==
    /\ q.req = "connect" /\ espLink[q.link] = NoConn /\ nconn < MaxConn
    /\ nconn' = nconn + 1
    /\ espLink' = [espLink EXCEPT ![q.link] = nconn + 1]
    /\ rx' = rx \o <<Msg("CONNECT", q.link, nconn + 1), OK>>
    /\ peer' = [peer EXCEPT ![call.sock] = nconn + 1]
    /\ UNCHANGED prompt

EspCloses(q) ==
    /\ q.req = "close" /\ espLink[q.link] # NoConn
    /\ espLink' = [espLink EXCEPT ![q.link] = NoConn]
    /\ rx' = rx \o <<Msg("CLOSED", q.link, espLink[q.link]), OK>>
    /\ UNCHANGED <<prompt, nconn, peer>>

EspAnswers(q) ==
    /\ q.req # "status"
    /\ \/ q.req \in {"listen", "unlisten", "send"} /\ rx' = rx \o <<OK>>
       \/ rx' = rx \o <<ERROR>>
       \/ q.req = "data" /\ rx' = rx \o <<SENDOK>>
    /\ prompt' \in Link \cup {NoLink}
    /\ UNCHANGED <<espLink, nconn, peer>>

EspReports(q) ==
    /\ q.req = "status"
    /\ \E lines \in StatusLines : rx' = rx \o lines \o <<Msg("OK", q.link, NoConn)>>
    /\ UNCHANGED <<espLink, prompt, nconn, peer>>

EspFrame ==
    /\ toEsp # <<>> /\ toEsp' = Tail(toEsp)
    /\ UNCHANGED <<sockVars, tabVars, call, rd, fault, early, mixed>>

\* One of these, or a request went astray at the prompt.
LEMMA EspCases ==
    ASSUME Types, Esp
    PROVE  /\ EspFrame
           /\ \/ /\ astray' <=> astray
                 /\ LET q == toEsp[1]
                    IN EspConnects(q) \/ EspCloses(q) \/ EspAnswers(q) \/ EspReports(q)
              \/ /\ astray' /\ UNCHANGED <<espLink, nconn, peer>> /\ prompt' \in {prompt, NoLink}
                 /\ rx' = rx \/ rx' = rx \o <<SENDOK>>
<1>1. EspFrame
  BY DEF Esp, EspCommand, EspPayload, EspFrame
<1>2. toEsp \in Seq(Req) /\ toEsp # <<>> /\ rx \in Seq(Line)
  BY <1>1 DEF EspFrame, Types, ReqTypes, RxTypes
<1>3. Head(toEsp) = toEsp[1] /\ GoodReq(toEsp[1])
  BY <1>2, TailFacts DEF Types, ReqTypes
<1>4. /\ OK \in Line /\ ERROR \in Line /\ SENDOK \in Line
      /\ Append(rx, OK) = rx \o <<OK>> /\ Append(rx, ERROR) = rx \o <<ERROR>>
      /\ Append(rx, SENDOK) = rx \o <<SENDOK>>
  <2>1. OK \in Line /\ ERROR \in Line /\ SENDOK \in Line
    BY DEF OK, ERROR, SENDOK, Line, Msg, Answers
  <2> HIDE DEF OK, ERROR, SENDOK, Line
  <2> QED
    BY <1>2, <2>1, AppendIsConcat
<1>5. CASE EspCommand
  <2> DEFINE q == toEsp[1]
  <2>1. astray' <=> astray
    BY <1>5 DEF EspCommand
  <2>2. \/ /\ q.req = "connect" /\ espLink[q.link] = NoConn
           /\ Room(2) /\ Open(q.link)
           /\ rx' = rx \o <<Msg("CONNECT", q.link, nconn + 1), OK>>
           /\ peer' = [peer EXCEPT ![call.sock] = nconn + 1]
           /\ UNCHANGED <<espServer, prompt>>
        \/ /\ q.req = "close" /\ espLink[q.link] # NoConn
           /\ espLink' = [espLink EXCEPT ![q.link] = NoConn]
           /\ rx' = rx \o <<Msg("CLOSED", q.link, espLink[q.link]), OK>>
           /\ UNCHANGED <<espServer, prompt, nconn, peer>>
        \/ /\ q.req \in {"listen", "unlisten"}
           /\ rx' = Append(rx, OK)
           /\ UNCHANGED <<espLink, prompt, nconn, peer>>
        \/ /\ q.req = "send"
           /\ prompt' = q.link
           /\ rx' = Append(rx, OK)
           /\ UNCHANGED <<espLink, espServer, nconn, peer>>
        \/ /\ q.req = "status"
           /\ \E lines \in StatusLines : rx' = rx \o lines \o <<Msg("OK", q.link, NoConn)>>
           /\ UNCHANGED <<espVars, peer>>
        \/ /\ q.req # "status"
           /\ rx' = Append(rx, ERROR)
           /\ UNCHANGED <<espVars, peer>>
    BY <1>3, <1>5 DEF EspCommand, OK, ERROR
  <2>3. q.req = "send" => q.link \in Link
    BY <1>3 DEF GoodReq, LinkCalls
  <2>4. prompt \in Link \cup {NoLink}
    BY DEF Types, EspTypes
  <2>5. EspConnects(q) \/ EspCloses(q) \/ EspAnswers(q) \/ EspReports(q)
    BY <1>4, <2>2, <2>3, <2>4
       DEF EspConnects, EspCloses, EspAnswers, EspReports, Open, espVars
  <2> QED
    BY <1>1, <2>1, <2>5
<1>6. CASE EspPayload
  <2>1. CASE toEsp[1].req = "data"
    <3>1. EspAnswers(toEsp[1]) /\ (astray' <=> astray)
      BY <1>3, <1>4, <1>6, <2>1 DEF EspPayload, EspAnswers, SENDOK
    <3> QED
      BY <1>1, <3>1
  <2>2. CASE toEsp[1].req # "data"
    BY <1>1, <1>3, <1>4, <1>6, <2>2 DEF EspPayload, SENDOK
  <2> QED
    BY <2>1, <2>2
<1> QED
  BY <1>5, <1>6 DEF Esp

\* Lines come behind the ones that are there.
LEMMA ConcatTypes ==
    ASSUME Types, NEW s \in Seq(Line), rx' = rx \o s,
           nconn' \in Nat, nconn <= nconn', \A i \in DOMAIN s : GoodLine(s[i], nconn')
    PROVE  RxTypes'
<1>1. rx \in Seq(Line) /\ nconn \in Nat /\ \A i \in DOMAIN rx : GoodLine(rx[i], nconn)
  BY DEF Types, RxTypes, EspTypes
<1>2. \A m : GoodLine(m, nconn) => GoodLine(m, nconn')
  <2>1. 1..nconn \subseteq 1..nconn'
    BY <1>1
  <2> QED
    BY <2>1, Zenon DEF GoodLine
<1>3. rx' \in Seq(Line) /\ \A i \in DOMAIN rx' : (i \in DOMAIN rx /\ rx'[i] = rx[i])
                                              \/ (\E j \in DOMAIN s : rx'[i] = s[j])
  BY <1>1, ConcatFacts
<1>4. \A i \in DOMAIN rx' : GoodLine(rx'[i], nconn')
  BY <1>1, <1>2, <1>3
<1> QED
  BY <1>3, <1>4 DEF RxTypes

\* A line per open link, each link once.
LEMMA StatusFacts ==
    ASSUME Types, NEW s \in StatusLines
    PROVE  /\ s \in Seq(Line)
           /\ \A i \in DOMAIN s : s[i].ev = "STATUS" /\ s[i].link \in Link /\ s[i].conn # NoConn
                                  /\ s[i].conn = espLink[s[i].link] /\ s[i].conn \in Conn
           /\ \A l \in Link : espLink[l] # NoConn =>
                  \E i \in DOMAIN s : Is(s[i], "STATUS", l, espLink[l])
<1> DEFINE open == {l \in Link : espLink[l] # NoConn}
<1>1. Cardinality(open) \in Nat
  <2>1. IsFiniteSet(Link)
    BY NLINKSAssumption, FS_Interval DEF Link
  <2> QED
    BY <2>1, FS_Subset, FS_CardinalityType
<1>2. PICK o \in [1..Cardinality(open) -> open] :
          /\ {o[i] : i \in DOMAIN o} = open
          /\ s = [i \in DOMAIN o |-> Msg("STATUS", o[i], espLink[o[i]])]
  BY DEF StatusLines
<1>3. \A i \in DOMAIN o : o[i] \in Link /\ espLink[o[i]] \in Conn
  BY <1>2 DEF Types, EspTypes
<1>4. \A i \in DOMAIN o : s[i] = Msg("STATUS", o[i], espLink[o[i]]) /\ s[i] \in Line
  BY <1>2, <1>3 DEF Msg, Line, Events
<1> HIDE DEF open
<1>5. s \in Seq(Line)
  BY <1>1, <1>2, <1>4
<1>6. \A i \in DOMAIN s : s[i].ev = "STATUS" /\ s[i].link \in Link /\ s[i].conn # NoConn
                          /\ s[i].conn = espLink[s[i].link] /\ s[i].conn \in Conn
  BY <1>2, <1>3, <1>4, Nothing DEF Msg
<1>7. \A l \in Link : espLink[l] # NoConn =>
          \E i \in DOMAIN s : Is(s[i], "STATUS", l, espLink[l])
  <2> SUFFICES ASSUME NEW l \in Link, espLink[l] # NoConn
               PROVE  \E i \in DOMAIN s : Is(s[i], "STATUS", l, espLink[l])
    OBVIOUS
  <2>1. PICK i \in DOMAIN o : o[i] = l
    BY <1>2 DEF open
  <2> QED
    BY <1>2, <1>4, <2>1 DEF Is, Msg
<1> QED
  BY <1>5, <1>6, <1>7

LEMMA PairFacts ==
    ASSUME NEW S, NEW a \in S, NEW b \in S
    PROVE  /\ <<a>> \in Seq(S) /\ Len(<<a>>) = 1 /\ DOMAIN <<a>> = {1} /\ <<a>>[1] = a
           /\ <<a, b>> \in Seq(S) /\ Len(<<a, b>>) = 2 /\ DOMAIN <<a, b>> = {1, 2}
           /\ <<a, b>>[1] = a /\ <<a, b>>[2] = b
  OBVIOUS

LEMMA GoodLines ==
    ASSUME NEW n \in Nat, NEW l \in Link
    PROVE  /\ \A m \in {OK, ERROR, SENDOK} : GoodLine(m, n) /\ m \in Line
           /\ GoodLine(Msg("OK", l, NoConn), n) /\ Msg("OK", l, NoConn) \in Line
           /\ \A ev \in Events, c \in Conn : c \in 1..n =>
                  GoodLine(Msg(ev, l, c), n) /\ Msg(ev, l, c) \in Line
<1>1. \A m \in {OK, ERROR, SENDOK} : GoodLine(m, n) /\ m \in Line
  <2>1. ASSUME NEW ev \in Answers PROVE GoodLine(Msg(ev, NoLink, NoConn), n)
    <3>1. /\ Msg(ev, NoLink, NoConn).ev = ev /\ Msg(ev, NoLink, NoConn).link = NoLink
          /\ Msg(ev, NoLink, NoConn) \in Line
      BY DEF Msg, Line
    <3>2. ev \notin Events
      BY DEF Events, Answers
    <3> QED
      BY <3>1, <3>2 DEF GoodLine
  <2>2. \A m \in {OK, ERROR, SENDOK} : \E ev \in Answers : m = Msg(ev, NoLink, NoConn)
    BY DEF OK, ERROR, SENDOK, Answers
  <2> QED
    BY <2>1, <2>2 DEF GoodLine
<1>2. GoodLine(Msg("OK", l, NoConn), n) /\ Msg("OK", l, NoConn) \in Line
  BY DEF GoodLine, Msg, Line, Events, Answers
<1>3. ASSUME NEW ev \in Events, NEW c \in Conn, c \in 1..n
      PROVE  GoodLine(Msg(ev, l, c), n) /\ Msg(ev, l, c) \in Line
  <2>1. Msg(ev, l, c).ev = ev /\ Msg(ev, l, c).link = l /\ Msg(ev, l, c).conn = c
    BY DEF Msg
  <2>2. Msg(ev, l, c) \in Line
    BY DEF Msg, Line
  <2>3. ev \notin {"SEND OK", "ERROR"}
    BY DEF Events
  <2> QED
    BY <1>3, <2>1, <2>2, <2>3 DEF GoodLine
<1> QED
  BY <1>1, <1>2, <1>3

LEMMA EspTypesKept == Types /\ Esp => Types'
<1> SUFFICES ASSUME Types, Esp PROVE Types'
  OBVIOUS
<1> USE Nothing
<1> DEFINE q == toEsp[1]
<1>1. EspFrame
  BY EspCases
<1>2. ReqTypes' /\ GoodReq(q)
  <2>1. toEsp \in Seq(Req) /\ toEsp # <<>> /\ toEsp' = Tail(toEsp)
    BY <1>1 DEF EspFrame, Types, ReqTypes
  <2>2. toEsp' \in Seq(Req) /\ \A i \in DOMAIN toEsp' : toEsp'[i] = toEsp[i + 1] /\ i + 1 \in DOMAIN toEsp
    BY <2>1, TailFacts
  <2>3. 1 \in DOMAIN toEsp
    BY <2>1, TailFacts
  <2> QED
    BY <2>2, <2>3 DEF Types, ReqTypes, GoodReq
<1>3. CallTypes'
  BY <1>1 DEF EspFrame, Types, CallTypes, sockVars
<1>4. /\ nconn \in 0..MaxConn /\ MaxConn \in Nat
      /\ espLink \in [Link -> Conn \cup {NoConn}] /\ \A l \in Link : espLink[l] \in 0..nconn
      /\ peer \in [Sock -> Conn \cup {NoConn}]
      /\ prompt \in Link \cup {NoLink}
  BY DEF Types, EspTypes, TableTypes
<1>5. ASSUME peer' \in [Sock -> Conn \cup {NoConn}] PROVE TableTypes'
  BY <1>1, <1>5 DEF EspFrame, Types, TableTypes, sockVars, tabVars
<1>6. CASE EspConnects(q)
  <2>1. q.link \in Link /\ nconn + 1 \in Conn
    BY <1>2, <1>4, <1>6 DEF GoodReq, LinkCalls, EspConnects
  <2>2. EspTypes'
    BY <1>4, <1>6, <2>1 DEF EspConnects, EspTypes
  <2>3. peer' \in [Sock -> Conn \cup {NoConn}]
    BY <1>4, <1>6, <2>1 DEF EspConnects
  <2> DEFINE s == <<Msg("CONNECT", q.link, nconn + 1), OK>>
  <2>4. s \in Seq(Line) /\ \A i \in DOMAIN s : GoodLine(s[i], nconn + 1)
    <3>1. nconn + 1 \in Nat /\ nconn + 1 \in 1..(nconn + 1) /\ "CONNECT" \in Events
      BY <1>4 DEF Events
    <3> HIDE DEF Line
    <3> QED
      BY <2>1, <3>1, GoodLines, PairFacts
  <2>6. RxTypes'
    <3>1. nconn' \in Nat /\ nconn <= nconn' /\ nconn' = nconn + 1 /\ rx' = rx \o s
      BY <1>4, <1>6 DEF EspConnects
    <3> HIDE DEF s
    <3> QED
      BY <2>4, <3>1, ConcatTypes
  <2> QED
    BY <1>2, <1>3, <1>5, <2>2, <2>3, <2>6 DEF Types
<1>7. CASE EspCloses(q)
  <2>1. q.link \in Link /\ espLink[q.link] \in 1..nconn /\ espLink[q.link] \in Conn
    BY <1>2, <1>4, <1>7 DEF GoodReq, LinkCalls, EspCloses
  <2>2. EspTypes'
    BY <1>4, <1>7, <2>1 DEF EspCloses, EspTypes
  <2> DEFINE s == <<Msg("CLOSED", q.link, espLink[q.link]), OK>>
  <2>4. s \in Seq(Line) /\ \A i \in DOMAIN s : GoodLine(s[i], nconn)
    <3>1. nconn \in Nat /\ "CLOSED" \in Events
      BY <1>4 DEF Events
    <3> HIDE DEF Line
    <3> QED
      BY <2>1, <3>1, GoodLines, PairFacts
  <2>6. RxTypes'
    <3>1. nconn' \in Nat /\ nconn <= nconn' /\ nconn' = nconn /\ rx' = rx \o s
      BY <1>4, <1>7 DEF EspCloses
    <3> HIDE DEF s
    <3> QED
      BY <2>4, <3>1, ConcatTypes
  <2> QED
    BY <1>2, <1>3, <1>4, <1>5, <1>7, <2>2, <2>6 DEF Types, EspCloses
<1>8. ASSUME NEW m \in {OK, ERROR, SENDOK}, rx' = rx \o <<m>>, UNCHANGED nconn PROVE RxTypes'
  <2>1. nconn \in Nat /\ nconn <= nconn' /\ nconn' = nconn
    BY <1>4, <1>8
  <2>2. m \in Line /\ GoodLine(m, nconn)
    <3>1. 0 \in Link
      BY NLINKSAssumption DEF Link
    <3> QED
      BY <1>8, <2>1, <3>1, GoodLines
  <2> HIDE DEF Line
  <2>3. <<m>> \in Seq(Line) /\ \A i \in DOMAIN <<m>> : GoodLine(<<m>>[i], nconn)
    BY <2>2, PairFacts
  <2> QED
    BY <1>8, <2>1, <2>3, ConcatTypes
<1>9. CASE EspAnswers(q)
  <2>1. RxTypes'
    BY <1>8, <1>9 DEF EspAnswers
  <2> QED
    BY <1>2, <1>3, <1>4, <1>5, <1>9, <2>1 DEF EspAnswers, Types, EspTypes
<1>10. CASE EspReports(q)
  <2>1. PICK lines \in StatusLines : rx' = rx \o lines \o <<Msg("OK", q.link, NoConn)>>
    BY <1>10 DEF EspReports
  <2>2. UNCHANGED <<espLink, prompt, nconn, peer>> /\ q.link \in Link
    BY <1>2, <1>10 DEF EspReports, GoodReq
  <2> DEFINE ok == Msg("OK", q.link, NoConn)
  <2>3. GoodLine(ok, nconn)
    BY <2>2 DEF GoodLine, Msg, Line, Events, Answers
  <2>4. lines \in Seq(Line) /\ \A i \in DOMAIN lines : GoodLine(lines[i], nconn)
    <3>1. lines \in Seq(Line)
      BY StatusFacts
    <3>2. \A i \in DOMAIN lines : lines[i] \in Line /\ lines[i].ev = "STATUS"
                                  /\ lines[i].link \in Link /\ lines[i].conn \in 1..nconn
      BY <1>4, <3>1, StatusFacts
    <3> QED
      BY <3>1, <3>2 DEF GoodLine
  <2> HIDE DEF ok
  <2>5. /\ lines \o <<ok>> \in Seq(Line) /\ rx' = rx \o (lines \o <<ok>>)
        /\ \A i \in DOMAIN (lines \o <<ok>>) : GoodLine((lines \o <<ok>>)[i], nconn)
    <3>1. ok \in Line /\ rx \in Seq(Line)
      BY <2>3 DEF GoodLine, Types, RxTypes
    <3> HIDE DEF Line
    <3>2. rx' = rx \o (lines \o <<ok>>)
      BY <2>1, <2>4, <3>1 DEF ok
    <3>3. /\ lines \o <<ok>> \in Seq(Line)
          /\ \A i \in DOMAIN (lines \o <<ok>>) :
                 (lines \o <<ok>>)[i] = ok \/ \E j \in DOMAIN lines : (lines \o <<ok>>)[i] = lines[j]
      BY <2>4, <3>1
    <3> QED
      BY <2>3, <2>4, <3>2, <3>3
  <2>6. RxTypes'
    <3>1. nconn' \in Nat /\ nconn <= nconn' /\ nconn' = nconn
      BY <1>4, <2>2
    <3> QED
      BY <2>5, <3>1, ConcatTypes
  <2> QED
    BY <1>2, <1>3, <1>4, <1>5, <2>2, <2>6 DEF Types, EspTypes
<1>11. CASE /\ UNCHANGED <<espLink, nconn, peer>> /\ prompt' \in {prompt, NoLink}
            /\ rx' = rx \/ rx' = rx \o <<SENDOK>>
  <2>1. RxTypes'
    BY <1>8, <1>11 DEF Types, RxTypes
  <2> QED
    BY <1>2, <1>3, <1>4, <1>5, <1>11, <2>1 DEF Types, EspTypes
<1> QED
  BY <1>6, <1>7, <1>9, <1>10, <1>11, EspCases

LEMMA NetworkTypes == Types /\ Network => Types'
<1> SUFFICES ASSUME Types, NEW l \in Link, RemoteConnect(l) \/ RemoteClose(l) \/ RemoteData(l)
             PROVE  Types'
  BY DEF Network
<1> USE Nothing
<1>1. /\ nconn \in 0..MaxConn /\ MaxConn \in Nat
      /\ espLink \in [Link -> Conn \cup {NoConn}] /\ \A k \in Link : espLink[k] \in 0..nconn
      /\ prompt \in Link \cup {NoLink} /\ rx \in Seq(Line)
  BY DEF Types, EspTypes, RxTypes
<1>2. TableTypes' /\ CallTypes' /\ ReqTypes'
  <2>1. UNCHANGED <<sockVars, tabVars, call, rd, toEsp, ghosts>>
    BY DEF RemoteConnect, RemoteClose, RemoteData
  <2>2. TableTypes'
    BY <2>1 DEF Types, TableTypes, sockVars, tabVars, ghosts
  <2>3. CallTypes'
    BY <2>1 DEF Types, CallTypes, sockVars
  <2>4. ReqTypes'
    BY <2>1 DEF Types, ReqTypes
  <2> QED
    BY <2>2, <2>3, <2>4
<1>3. ASSUME NEW m, rx' = Append(rx, m), GoodLine(m, nconn'), nconn' \in Nat, nconn <= nconn'
      PROVE  RxTypes'
  <2>1. m \in Line
    BY <1>3 DEF GoodLine
  <2> HIDE DEF Line
  <2>2. rx' = rx \o <<m>> /\ <<m>> \in Seq(Line) /\ \A i \in DOMAIN <<m>> : GoodLine(<<m>>[i], nconn')
    BY <1>1, <1>3, <2>1, AppendIsConcat
  <2> QED
    BY <1>3, <2>2, ConcatTypes
<1>4. CASE RemoteConnect(l)
  <2>1. nconn + 1 \in Conn /\ nconn' = nconn + 1
    BY <1>1, <1>4 DEF RemoteConnect, Open
  <2>2. EspTypes'
    BY <1>1, <1>4, <2>1 DEF RemoteConnect, Open, EspTypes
  <2>3. GoodLine(Msg("CONNECT", l, nconn + 1), nconn + 1)
    <3>1. nconn + 1 \in Nat /\ nconn + 1 \in 1..(nconn + 1) /\ "CONNECT" \in Events
      BY <1>1 DEF Events
    <3> QED
      BY <2>1, <3>1, GoodLines
  <2>4. nconn' \in Nat /\ nconn <= nconn'
    BY <1>1, <2>1
  <2>5. rx' = Append(rx, Msg("CONNECT", l, nconn + 1))
    BY <1>4 DEF RemoteConnect
  <2> QED
    BY <1>2, <1>3, <2>1, <2>2, <2>3, <2>4, <2>5 DEF Types
<1>5. CASE RemoteClose(l) \/ RemoteData(l)
  <2>1. espLink[l] \in 1..nconn /\ espLink[l] \in Conn /\ UNCHANGED <<prompt, nconn>>
    BY <1>1, <1>5 DEF RemoteClose, RemoteData, espVars
  <2>2. EspTypes'
    <3>1. espLink' = espLink \/ espLink' = [espLink EXCEPT ![l] = NoConn]
      BY <1>5 DEF RemoteClose, RemoteData, espVars
    <3> QED
      BY <1>1, <2>1, <3>1 DEF EspTypes
  <2>3. GoodLine(Msg("CLOSED", l, espLink[l]), nconn) /\ GoodLine(Msg("IPD", l, espLink[l]), nconn)
    BY <1>1, <2>1, GoodLines DEF Events
  <2>4. nconn' \in Nat /\ nconn <= nconn' /\ nconn' = nconn
    BY <1>1, <2>1
  <2>5. rx' = Append(rx, Msg("CLOSED", l, espLink[l])) \/ rx' = Append(rx, Msg("IPD", l, espLink[l]))
    BY <1>5 DEF RemoteClose, RemoteData
  <2> QED
    BY <1>2, <1>3, <2>1, <2>2, <2>3, <2>4, <2>5 DEF Types
<1> QED
  BY <1>4, <1>5

LEMMA TypesStep == Types /\ Owners /\ [Next]_vars => Types'
  BY AppTypes, ReadTypes, EspTypesKept, NetworkTypes, SameTypes DEF Next, vars

-----------------------------------------------------------------------------
(* Owners *)

LEMMA InitOwners == Init => Owners
<1> SUFFICES ASSUME Init PROVE Owners
  OBVIOUS
<1>1. \A s, i : ~Client(s, i)
  BY DEF Init, Client
<1>2. call.op = "none"
  BY DEF Init, Idle
<1> QED
  BY <1>1, <1>2 DEF Init, Owners, LinkOwners, ClientOwners, SockOwners

\* What Owners needs to know of the types.
LEMMA OwnerTypes ==
    ASSUME Types
    PROVE  /\ nsock \in 0..MaxSock /\ Sock = 1..MaxSock /\ MaxSock \in Nat /\ NoSock = 0
           /\ assigned \subseteq Sock /\ node \in [Sock -> {"none", "sock", "gone"}]
           /\ clients \in [Sock -> Seq(Sock)]
           /\ links \in [Link -> Sock \cup {NoSock}] /\ peer \in [Sock -> Conn \cup {NoConn}]
           /\ call.op # "none" => call.sock \in 1..nsock /\ call.sock \in Sock
           /\ \A s, i : Client(s, i) => s \in Sock /\ clients[s][i] \in Sock
<1>1. clients \in [Sock -> Seq(Sock)]
  BY DEF Types, TableTypes
<1>2. \A s, i : Client(s, i) => s \in Sock /\ clients[s][i] \in Sock
  BY <1>1 DEF Client
<1> QED
  BY <1>1, <1>2, Nothing DEF Types, TableTypes, CallTypes

\* The same tables, and the same call at most with its answer.
LEMMA SameOwners ==
    ASSUME Types, Owners, UNCHANGED <<sockVars, links, peer>>,
           call'.op = call.op /\ call'.sock = call.sock
    PROVE  Owners'
<1>1. UNCHANGED <<nsock, assigned, node, clients, links, peer>>
  BY DEF sockVars
<1> QED
  BY <1>1 DEF Owners, LinkOwners, ClientOwners, SockOwners, Client

LEMMA SameClients ==
    ASSUME ClientOwners, UNCHANGED <<nsock, node, clients>>, call'.op # "accept"
    PROVE  ClientOwners'
<1>1. \A s, i : Client(s, i)' <=> Client(s, i)
  BY DEF Client
<1> QED
  BY <1>1, Zenon DEF ClientOwners

\* A call that has started or ended.
LEMMA CallOwners ==
    ASSUME Types, Owners, UNCHANGED <<sockVars, links, peer>>,
           call'.op \notin {"connect", "accept"},
           call'.op = "none" \/ call'.sock \in assigned
    PROVE  Owners'
<1>1. UNCHANGED <<nsock, assigned, node, clients, links, peer>>
  BY DEF sockVars
<1> QED
  BY <1>1 DEF Owners, LinkOwners, ClientOwners, SockOwners, Client

LEMMA AppOwners == Types /\ Owners /\ App => Owners'
<1> SUFFICES ASSUME Types, Owners, App PROVE Owners'
  OBVIOUS
<1> USE OwnerTypes
<1>1. CASE Socket
  <2>1. /\ nsock' = nsock + 1 /\ node' = [node EXCEPT ![nsock + 1] = "sock"]
        /\ UNCHANGED <<assigned, clients, links, peer, call>> /\ call.op = "none"
    BY <1>1 DEF Socket, tabVars, ghosts, Idle
  <2>2. LinkOwners'
    BY <2>1 DEF Owners, LinkOwners
  <2>3. ClientOwners'
    BY <2>1 DEF Owners, ClientOwners, Client
  <2>4. SockOwners'
    BY <2>1 DEF Owners, SockOwners
  <2> QED
    BY <2>2, <2>3, <2>4 DEF Owners
<1>2. CASE AcceptNode
  <2>1. /\ call.op = "accept" /\ node' = [node EXCEPT ![call.sock] = "sock"] /\ call'.op = "none"
        /\ UNCHANGED <<nsock, assigned, clients, links, peer>>
    BY <1>2 DEF AcceptNode, tabVars, ghosts, Idle
  <2>2. call.sock \in assigned /\ call.sock \in 1..nsock
    BY <2>1 DEF Owners, SockOwners
  <2>3. LinkOwners'
    BY <2>1, <2>2 DEF Owners, LinkOwners
  <2>4. ClientOwners'
    BY <2>1 DEF Owners, ClientOwners, Client
  <2>5. SockOwners'
    BY <2>1, <2>2 DEF Owners, SockOwners
  <2> QED
    BY <2>3, <2>4, <2>5 DEF Owners
<1>3. CASE Complete
  <2>1. /\ UNCHANGED <<sockVars, peer>> /\ call.op \in Calls
        /\ \/ call'.op = "none"
           \/ call'.op = "data" /\ call'.sock = call.sock
    BY <1>3 DEF Complete, Request, Idle, ghosts, Types, CallTypes, Calls
  <2>2. call.sock \in assigned /\ call.sock \in Sock /\ call.sock \in 1..nsock
    BY <2>1 DEF Owners, SockOwners, Calls
  <2>3. CASE UNCHANGED links
    BY <2>1, <2>2, <2>3, CallOwners
  <2>4. CASE /\ call.op = "connect" /\ links' = [links EXCEPT ![call.link] = call.sock]
    <3>1. UNCHANGED <<nsock, assigned, node, clients, peer>> /\ call'.op \notin {"connect", "accept"}
      BY <2>1 DEF sockVars
    <3>2. LinkOwners'
      BY <2>2, <2>4, <3>1 DEF Owners, LinkOwners
    <3>3. ClientOwners'
      BY <3>1, SameClients DEF Owners
    <3>4. SockOwners'
      BY <2>1, <2>2, <3>1 DEF Owners, SockOwners
    <3> QED
      BY <3>2, <3>3, <3>4 DEF Owners
  <2>5. CASE links' = [links EXCEPT ![call.link] = NoSock]
    <3>1. UNCHANGED <<nsock, assigned, node, clients, peer>> /\ call'.op \notin {"connect", "accept"}
      BY <2>1 DEF sockVars
    <3>2. LinkOwners'
      BY <2>5, <3>1 DEF Owners, LinkOwners
    <3>3. ClientOwners'
      BY <3>1, SameClients DEF Owners
    <3>4. SockOwners'
      BY <2>1, <2>2, <3>1 DEF Owners, SockOwners
    <3> QED
      BY <3>2, <3>3, <3>4 DEF Owners
  <2> QED
    BY <1>3, <2>1, <2>3, <2>4, <2>5 DEF Complete, Calls, tabVars
<1>4. ASSUME NEW s \in Sock, CallGone(s) PROVE Owners'
  BY <1>4, SameOwners DEF CallGone, tabVars, ghosts
<1>5. ASSUME NEW s \in Sock, Bind(s) PROVE Owners'
  <2>1. /\ UNCHANGED <<nsock, node, clients, links, peer, call>> /\ call.op = "none"
        /\ assigned' = assigned \cup {s} /\ node[s] # "none"
    BY <1>5 DEF Bind, tabVars, ghosts, Idle
  <2>2. LinkOwners'
    BY <2>1 DEF Owners, LinkOwners
  <2>3. ClientOwners'
    BY <2>1, SameClients DEF Owners
  <2>4. SockOwners'
    BY <2>1, OwnerTypes DEF Owners, SockOwners
  <2> QED
    BY <2>2, <2>3, <2>4 DEF Owners
<1>6. ASSUME NEW s \in Sock, Connect(s) PROVE Owners'
  <2>1. /\ UNCHANGED <<nsock, node, clients, links, peer>> /\ call.op = "none"
        /\ assigned' = assigned \cup {s} /\ node[s] = "sock" /\ s \notin assigned
        /\ call'.op = "none" \/ (call'.op = "connect" /\ call'.sock = s)
    BY <1>6 DEF Connect, Request, tabVars, ghosts, Idle
  <2>2. LinkOwners'
    BY <2>1 DEF Owners, LinkOwners
  <2>3. ClientOwners'
    BY <2>1, SameClients DEF Owners
  <2>4. SockOwners'
    BY <2>1 DEF Owners, SockOwners
  <2> QED
    BY <2>2, <2>3, <2>4 DEF Owners
<1>7. ASSUME NEW s \in Sock, Listen(s) \/ Send(s) \/ Close(s) PROVE Owners'
  <2>1. /\ UNCHANGED <<sockVars, links, peer>> /\ s \in assigned
        /\ call'.op \in {"listen", "send", "unlisten", "close"} /\ call'.sock = s
    BY <1>7 DEF Listen, Send, Close, Request, tabVars, ghosts
  <2> QED
    BY <2>1, CallOwners
<1>8. ASSUME NEW s \in Sock, AcceptTake(s) PROVE Owners'
  <2> DEFINE cl == Head(clients[s])
  <2>1. /\ UNCHANGED <<nsock, node, links, peer>> /\ clients[s] # <<>>
        /\ assigned' = assigned \cup {cl} /\ call'.op = "accept" /\ call'.sock = cl
        /\ clients' = [clients EXCEPT ![s] = Tail(@)]
    BY <1>8 DEF AcceptTake, tabVars, ghosts
  <2>2. /\ Client(s, 1) /\ cl = clients[s][1]
        /\ \A i : Client(s, i)' => Client(s, i + 1) /\ clients'[s][i] = clients[s][i + 1] /\ i \in Nat \ {0}
        /\ \A u, i : u # s /\ Client(u, i)' => Client(u, i) /\ clients'[u][i] = clients[u][i]
    <3>1. clients[s] \in Seq(Sock) /\ clients' \in [Sock -> Seq(Sock)]
          /\ clients'[s] = Tail(clients[s]) /\ \A u \in Sock : u # s => clients'[u] = clients[u]
      BY <2>1
    <3> HIDE DEF Sock
    <3>2. /\ Len(Tail(clients[s])) = Len(clients[s]) - 1 /\ Head(clients[s]) = clients[s][1]
          /\ 1 \in 1..Len(clients[s]) /\ Len(clients[s]) \in Nat
          /\ \A i \in 1..(Len(clients[s]) - 1) :
                 Tail(clients[s])[i] = clients[s][i + 1] /\ i + 1 \in 1..Len(clients[s])
      BY <2>1, <3>1
    <3>3. \A i : Client(s, i)' => Client(s, i + 1) /\ clients'[s][i] = clients[s][i + 1] /\ i \in Nat \ {0}
      BY <3>1, <3>2 DEF Client
    <3>4. \A u, i : u # s /\ Client(u, i)' => Client(u, i) /\ clients'[u][i] = clients[u][i]
      BY <3>1 DEF Client
    <3> QED
      BY <3>2, <3>3, <3>4 DEF Client
  <2>3. cl \in Sock /\ cl <= nsock /\ node[cl] = "none"
    BY <2>2 DEF Owners, ClientOwners
  <2> HIDE DEF cl
  <2>4. LinkOwners'
    BY <2>1 DEF Owners, LinkOwners
  <2>5. ClientOwners'
    <3>1. /\ \A u, v, i, j : Client(u, i) /\ Client(v, j) /\ clients[u][i] = clients[v][j] => u = v /\ i = j
          /\ \A u, i : Client(u, i) => clients[u][i] <= nsock /\ node[clients[u][i]] = "none"
      BY DEF Owners, ClientOwners
    <3>2. \A i, j \in Nat : i + 1 = j + 1 => i = j
      OBVIOUS
    <3>3. \A u, v, i, j : Client(u, i)' /\ Client(v, j)' /\ clients'[u][i] = clients'[v][j]
              => u = v /\ i = j
      <4> SUFFICES ASSUME NEW u, NEW v, NEW i, NEW j,
                          Client(u, i)', Client(v, j)', clients'[u][i] = clients'[v][j]
                   PROVE  u = v /\ i = j
        OBVIOUS
      <4>1. CASE u = s /\ v = s
        <5>1. Client(s, i + 1) /\ Client(s, j + 1) /\ clients[s][i + 1] = clients[s][j + 1] /\ i \in Nat /\ j \in Nat
          BY <2>2, <4>1, Zenon
        <5> QED
          BY <3>1, <3>2, <4>1, <5>1, Zenon
      <4>2. CASE u = s /\ v # s
        BY <2>2, <3>1, <4>2
      <4>3. CASE u # s /\ v = s
        BY <2>2, <3>1, <4>3
      <4>4. CASE u # s /\ v # s
        BY <2>2, <3>1, <4>4
      <4> QED
        BY <4>1, <4>2, <4>3, <4>4
    <3>4. \A u, i : Client(u, i)' => clients'[u][i] <= nsock /\ node[clients'[u][i]] = "none"
      <4> SUFFICES ASSUME NEW u, NEW i, Client(u, i)'
                   PROVE  clients'[u][i] <= nsock /\ node[clients'[u][i]] = "none"
        OBVIOUS
      <4>1. CASE u = s
        BY <2>2, <3>1, <4>1
      <4>2. CASE u # s
        <5>1. Client(u, i) /\ clients'[u][i] = clients[u][i]
          BY <2>2, <4>2, Zenon
        <5> QED
          BY <3>1, <5>1, Zenon
      <4> QED
        BY <4>1, <4>2
    <3>5. \A u, i : Client(u, i)' => clients'[u][i] # cl
      <4> SUFFICES ASSUME NEW u, NEW i, Client(u, i)', clients'[u][i] = cl PROVE FALSE
        OBVIOUS
      <4>1. CASE u = s
        <5>1. Client(s, i + 1) /\ clients[s][i + 1] = clients[s][1] /\ i \in Nat \ {0}
          BY <2>2, <4>1
        <5>2. i + 1 = 1
          BY <2>2, <3>1, <5>1
        <5> QED
          BY <5>1, <5>2
      <4>2. CASE u # s
        BY <2>2, <3>1, <4>2
      <4> QED
        BY <4>1, <4>2
    <3> QED
      <4>1. nsock' = nsock /\ node' = node /\ call'.sock = cl /\ node[cl] = "none"
        BY <2>1, <2>3
      <4> QED
        BY <3>3, <3>4, <3>5, <4>1, Zenon DEF ClientOwners
  <2>6. SockOwners'
    BY <2>1, <2>3 DEF Owners, SockOwners
  <2> QED
    BY <2>4, <2>5, <2>6 DEF Owners
<1> QED
  BY <1>1, <1>2, <1>3, <1>4, <1>5, <1>6, <1>7, <1>8 DEF App

LEMMA KeptClients ==
    ASSUME ClientOwners, UNCHANGED <<nsock, clients, call>>,
           \A u, i : Client(u, i) => node'[clients[u][i]] = "none",
           call.op = "accept" => node'[call.sock] = "none"
    PROVE  ClientOwners'
<1>1. \A u, i : Client(u, i)' <=> Client(u, i)
  BY DEF Client
<1>2. clients' = clients /\ nsock' = nsock /\ call' = call
  OBVIOUS
<1>3. \A s, u, i, j : Client(s, i)' /\ Client(u, j)' /\ clients'[s][i] = clients'[u][j] => s = u /\ i = j
  BY <1>1, <1>2, Zenon DEF ClientOwners
<1>4. \A s, i : Client(s, i)' => clients'[s][i] <= nsock' /\ node'[clients'[s][i]] = "none"
  BY <1>1, <1>2, Zenon DEF ClientOwners
<1>5. call'.op = "accept" => /\ node'[call'.sock] = "none"
                            /\ \A s, i : Client(s, i)' => clients'[s][i] # call'.sock
  BY <1>1, <1>2, Zenon DEF ClientOwners
<1> QED
  BY <1>3, <1>4, <1>5, Zenon DEF ClientOwners

\* A socket that read_thread or the ESP8266 has told about its connection.
LEMMA NodeOwners ==
    ASSUME Types, Owners, UNCHANGED <<nsock, assigned, clients, call, peer>>,
           NEW l \in Link, NEW s \in Sock \cup {NoSock}, node' = Disconnect(s),
           links' = [links EXCEPT ![l] = NoSock]
    PROVE  Owners'
<1>1. \A u \in Sock : (node'[u] = "none" <=> node[u] = "none") /\ (node[u] # "sock" => node'[u] = node[u])
  BY OwnerTypes DEF Disconnect
<1>2. LinkOwners'
  <2>1. \A m \in Link : links'[m] = links[m] \/ links'[m] = NoSock
    BY OwnerTypes
  <2>2. \A m, n \in Link : links'[m] = links'[n] /\ links'[m] # NoSock => m = n
    BY <2>1 DEF Owners, LinkOwners
  <2>3. ASSUME NEW m \in Link, links'[m] # NoSock
        PROVE  links'[m] <= nsock /\ (links'[m] \in assigned \/ node'[links'[m]] = "none")
    <3>1. links'[m] = links[m] /\ links[m] \in Sock
      BY <2>1, <2>3, OwnerTypes
    <3>2. links[m] <= nsock /\ (links[m] \in assigned \/ node[links[m]] = "none")
      BY <2>3, <3>1 DEF Owners, LinkOwners
    <3> QED
      BY <1>1, <3>1, <3>2
  <2>4. ASSUME call.op = "connect"
        PROVE  node'[call.sock] # "none" /\ \A m \in Link : links'[m] # call.sock
    <3>1. call.sock \in Sock /\ call.sock # NoSock
      BY <2>4, OwnerTypes
    <3>2. node[call.sock] # "none" /\ \A m \in Link : links[m] # call.sock
      BY <2>4 DEF Owners, LinkOwners
    <3> QED
      BY <1>1, <2>1, <3>1, <3>2
  <2> QED
    BY <2>2, <2>3, <2>4 DEF LinkOwners
<1>3. ClientOwners'
  <2>1. ASSUME NEW u, NEW i, Client(u, i) PROVE node'[clients[u][i]] = "none"
    <3>1. clients[u][i] \in Sock
      BY <2>1, OwnerTypes
    <3>2. node[clients[u][i]] = "none"
      BY <2>1 DEF Owners, ClientOwners
    <3> QED
      BY <1>1, <3>1, <3>2
  <2>2. ASSUME call.op = "accept" PROVE node'[call.sock] = "none"
    <3>1. call.sock \in Sock
      BY <2>2, OwnerTypes
    <3>2. node[call.sock] = "none"
      BY <2>2 DEF Owners, ClientOwners
    <3> QED
      BY <1>1, <3>1, <3>2
  <2> QED
    BY <2>1, <2>2, KeptClients DEF Owners
<1>4. SockOwners'
  BY <1>1, OwnerTypes DEF Owners, SockOwners
<1> QED
  BY <1>2, <1>3, <1>4 DEF Owners

LEMMA ReadOwners == Types /\ Owners /\ ReadThread => Owners'
<1> SUFFICES ASSUME Types, Owners, ReadThread PROVE Owners'
  OBVIOUS
<1>1. rx # <<>> /\ GoodLine(Head(rx), nconn)
  <2>1. rx # <<>>
    BY DEF ReadThread, Closed, Recv, Answer, Ignore, AcceptStart, AcceptEnd, AcceptDrop, AcceptClient
  <2>2. rx \in Seq(Line) /\ \A i \in DOMAIN rx : GoodLine(rx[i], nconn)
    BY DEF Types, RxTypes
  <2> QED
    BY <2>1, <2>2, TailFacts
<1>2. CASE Closed
  <2>1. Head(rx).link \in Link
    BY <1>1, <1>2 DEF Closed, GoodLine, Events
  <2>2. links[Head(rx).link] \in Sock \cup {NoSock}
    BY <2>1, OwnerTypes
  <2> QED
    BY <1>2, <2>1, <2>2, NodeOwners DEF Closed
<1>3. CASE Recv \/ Ignore \/ AcceptStart \/ AcceptEnd \/ AcceptDrop
  <2>1. UNCHANGED <<sockVars, links, peer, call>>
    BY <1>3 DEF Recv, Ignore, AcceptStart, AcceptEnd, AcceptDrop, tabVars, ghosts
  <2> QED
    BY <2>1, SameOwners
<1>4. CASE Answer
  <2>1. UNCHANGED <<sockVars, links, peer>>
    BY <1>4 DEF Answer, tabVars, ghosts
  <2>2. call'.op = call.op /\ call'.sock = call.sock
    BY <1>4 DEF Answer, Types, CallTypes
  <2> QED
    BY <2>1, <2>2, SameOwners
<1>5. CASE AcceptClient /\ tcp_server = NoSock
  <2>1. UNCHANGED <<sockVars, links, peer, call>>
    BY <1>5 DEF AcceptClient, sockVars
  <2> QED
    BY <2>1, SameOwners
<1>6. CASE AcceptClient /\ tcp_server # NoSock
  <2>0. PICK srv \in Sock : srv = tcp_server
    BY <1>6 DEF Types, TableTypes
  <2>1. /\ nsock' = nsock + 1 /\ nsock < MaxSock /\ links' = [links EXCEPT ![rd] = nsock + 1]
        /\ clients' = [clients EXCEPT ![srv] = Append(@, nsock + 1)]
        /\ peer' = [peer EXCEPT ![nsock + 1] = Head(rx).conn]
        /\ UNCHANGED <<assigned, node, call>> /\ srv \in Sock
    BY <1>6, <2>0 DEF AcceptClient, NewLinks
  <2>2. rd \in Link /\ nsock + 1 \in Sock /\ Head(rx).conn \in Conn \cup {NoConn} /\ nsock \in Nat
    <3>1. nsock + 1 \in Sock /\ nsock \in Nat
      BY <2>1, OwnerTypes
    <3>2. Head(rx).ev = "STATUS" /\ Head(rx).link = rd /\ Head(rx) \in Line
      BY <1>1, <1>6 DEF AcceptClient, GoodLine
    <3>3. rd \in Link
      BY <1>1, <3>2 DEF GoodLine, Events
    <3>4. Head(rx).conn \in Conn \cup {NoConn}
      BY <3>2 DEF Line
    <3> QED
      BY <3>1, <3>3, <3>4
  <2>3. LinkOwners'
    <3>1. \A m \in Link : links'[m] = IF m = rd THEN nsock + 1 ELSE links[m]
      BY <2>1, <2>2, OwnerTypes
    <3>2. \A m \in Link : links[m] # NoSock =>
              links[m] <= nsock /\ (links[m] \in assigned \/ node[links[m]] = "none")
      BY DEF Owners, LinkOwners
    <3>3. \A m \in Link : links[m] \in Int
      BY OwnerTypes DEF NoSock
    <3>4. node[nsock + 1] = "none"
      BY <2>2 DEF Owners, SockOwners
    <3>5. \A m, n \in Link : links'[m] = links'[n] /\ links'[m] # NoSock => m = n
      BY <2>2, <3>1, <3>2, <3>3 DEF Owners, LinkOwners
    <3>6. \A m \in Link : links'[m] # NoSock =>
              links'[m] <= nsock' /\ (links'[m] \in assigned' \/ node'[links'[m]] = "none")
      BY <2>1, <2>2, <3>1, <3>2, <3>3, <3>4
    <3>7. call.op = "connect" => call.sock <= nsock
      BY OwnerTypes
    <3>8. call'.op = "connect" => node'[call'.sock] # "none" /\ \A m \in Link : links'[m] # call'.sock
      BY <2>1, <2>2, <3>1, <3>7 DEF Owners, LinkOwners
    <3> QED
      BY <3>5, <3>6, <3>8 DEF LinkOwners
  <2>4. \A u, i : Client(u, i)' =>
            \/ Client(u, i) /\ clients'[u][i] = clients[u][i]
            \/ u = srv /\ i = Len(clients[srv]) + 1 /\ clients'[u][i] = nsock + 1
    <3>1. clients[srv] \in Seq(Sock) /\ clients' \in [Sock -> Seq(Sock)]
          /\ clients'[srv] = Append(clients[srv], nsock + 1)
          /\ \A u \in Sock : u # srv => clients'[u] = clients[u]
      BY <2>1, <2>2, OwnerTypes
    <3> HIDE DEF Sock
    <3>2. /\ Len(clients[srv]) \in Nat /\ Len(Append(clients[srv], nsock + 1)) = Len(clients[srv]) + 1
          /\ Append(clients[srv], nsock + 1)[Len(clients[srv]) + 1] = nsock + 1
          /\ \A i \in 1..Len(clients[srv]) : Append(clients[srv], nsock + 1)[i] = clients[srv][i]
      BY <2>2, <3>1
    <3>3. \A i : Client(srv, i)' => (Client(srv, i) /\ clients'[srv][i] = clients[srv][i])
                                    \/ (i = Len(clients[srv]) + 1 /\ clients'[srv][i] = nsock + 1)
      <4> DEFINE n == Len(clients[srv])
      <4>1. /\ n \in Nat /\ Len(clients'[srv]) = n + 1 /\ clients'[srv][n + 1] = nsock + 1
            /\ \A i \in 1..n : clients'[srv][i] = clients[srv][i]
        BY <3>1, <3>2
      <4>2. \A i \in 1..(n + 1) : i \in 1..n \/ i = n + 1
        BY <4>1
      <4> HIDE DEF n
      <4>3. \A i : Client(srv, i)' => i \in 1..(n + 1)
        BY <4>1 DEF Client
      <4>4. \A i \in 1..n : Client(srv, i)
        BY <2>1 DEF Client, n
      <4> QED
        BY <4>1, <4>2, <4>3, <4>4, Zenon DEF n
    <3>4. \A u, i : u # srv /\ Client(u, i)' => Client(u, i) /\ clients'[u][i] = clients[u][i]
      BY <3>1, Zenon DEF Client
    <3> QED
      BY <3>3, <3>4
  <2>5. ClientOwners'
    <3>1. /\ \A u, v, i, j : Client(u, i) /\ Client(v, j) /\ clients[u][i] = clients[v][j] => u = v /\ i = j
          /\ \A u, i : Client(u, i) => clients[u][i] <= nsock /\ node[clients[u][i]] = "none"
                                       /\ clients[u][i] \in Sock
      BY OwnerTypes DEF Owners, ClientOwners
    <3>2. \A k \in Sock : k <= nsock => k # nsock + 1 /\ k <= nsock + 1
      BY <2>2, Nothing
    <3>3. node[nsock + 1] = "none"
      BY <2>2, Nothing DEF Owners, SockOwners
    <3>4. \A u, i : Client(u, i)' =>
              \/ Client(u, i) /\ clients'[u][i] = clients[u][i] /\ clients'[u][i] # nsock + 1
              \/ u = srv /\ i = Len(clients[srv]) + 1 /\ clients'[u][i] = nsock + 1
      BY <2>4, <3>1, <3>2, Zenon
    <3>5. \A u, v, i, j : Client(u, i)' /\ Client(v, j)' /\ clients'[u][i] = clients'[v][j]
              => u = v /\ i = j
      <4> SUFFICES ASSUME NEW u, NEW v, NEW i, NEW j,
                          Client(u, i)', Client(v, j)', clients'[u][i] = clients'[v][j]
                   PROVE  u = v /\ i = j
        BY Zenon
      <4>1. CASE clients'[u][i] = nsock + 1
        <5>1. u = srv /\ i = Len(clients[srv]) + 1
          BY <3>4, <4>1, Zenon
        <5>2. v = srv /\ j = Len(clients[srv]) + 1
          BY <3>4, <4>1, Zenon
        <5> QED
          BY <5>1, <5>2
      <4>2. CASE clients'[u][i] # nsock + 1
        <5>1. Client(u, i) /\ Client(v, j) /\ clients[u][i] = clients[v][j]
          BY <3>4, <4>2, Zenon
        <5> QED
          BY <3>1, <5>1, Zenon
      <4> QED
        BY <4>1, <4>2
    <3>6. \A u, i : Client(u, i)' => clients'[u][i] <= nsock' /\ node'[clients'[u][i]] = "none"
      <4>1. nsock' = nsock + 1 /\ node' = node /\ nsock + 1 <= nsock + 1
        BY <2>1, <2>2
      <4> QED
        BY <3>1, <3>2, <3>3, <3>4, <4>1, Zenon
    <3>7. call.op = "accept" => node[call.sock] = "none" /\ \A u, i : Client(u, i)' => clients'[u][i] # call.sock
      <4> SUFFICES ASSUME call.op = "accept"
                   PROVE  node[call.sock] = "none" /\ \A u, i : Client(u, i)' => clients'[u][i] # call.sock
        OBVIOUS
      <4>1. node[call.sock] = "none" /\ \A u, i : Client(u, i) => clients[u][i] # call.sock
        BY DEF Owners, ClientOwners
      <4>2. call.sock # nsock + 1
        BY <2>2, OwnerTypes
      <4> QED
        BY <3>4, <4>1, <4>2, Zenon
    <3>8. call' = call /\ node' = node
      BY <2>1
    <3> QED
      BY <3>5, <3>6, <3>7, <3>8, Zenon DEF ClientOwners
  <2>6. SockOwners'
    BY <2>1, <2>2, OwnerTypes DEF Owners, SockOwners
  <2> QED
    BY <2>3, <2>5, <2>6 DEF Owners
<1> QED
  BY <1>2, <1>3, <1>4, <1>5, <1>6 DEF ReadThread

LEMMA EspOwners == Types /\ Owners /\ Esp => Owners'
<1> SUFFICES ASSUME Types, Owners, Esp PROVE Owners'
  OBVIOUS
<1>1. UNCHANGED <<sockVars, tabVars, call>>
  BY EspCases DEF EspFrame
<1>2. CASE UNCHANGED peer
  BY <1>1, <1>2, SameOwners DEF tabVars
<1>3. CASE EspConnects(toEsp[1])
  <2>1. UNCHANGED <<nsock, assigned, node, clients, links, call>>
        /\ peer' = [peer EXCEPT ![call.sock] = nconn + 1]
    BY <1>1, <1>3 DEF EspConnects, sockVars, tabVars
  <2>2. LinkOwners' /\ ClientOwners'
    BY <2>1 DEF Owners, LinkOwners, ClientOwners, Client
  <2>3. SockOwners'
    <3>1. call.op = "none" => call.sock \notin Sock
      BY OwnerTypes DEF Types, CallTypes, Idle
    <3> QED
      BY <2>1, <3>1, OwnerTypes DEF Owners, SockOwners
  <2> QED
    BY <2>2, <2>3 DEF Owners
<1> QED
  BY <1>2, <1>3, EspCases DEF EspCloses, EspAnswers, EspReports

LEMMA OwnersStep == Types /\ Owners /\ [Next]_vars => Owners'
<1> SUFFICES ASSUME Types, Owners, [Next]_vars PROVE Owners'
  OBVIOUS
<1>1. CASE Network \/ UNCHANGED vars
  <2>1. UNCHANGED <<sockVars, links, peer, call>>
    BY <1>1 DEF Network, RemoteConnect, RemoteClose, RemoteData, vars, tabVars, ghosts
  <2> QED
    BY <2>1, SameOwners
<1> QED
  BY <1>1, AppOwners, ReadOwners, EspOwners DEF Next

\* Spec => []OneOwner.  However read_thread and the application interleave, the
\* table of links, the clients lists and bos_accept never share a socket.
THEOREM NoSecondOwner == Spec => []OneOwner
<1>1. Init => Types /\ Owners
  BY InitTypes, InitOwners
<1>2. Types /\ Owners /\ [Next]_vars => (Types /\ Owners)'
  BY TypesStep, OwnersStep
<1>3. Types /\ Owners => OneOwner
  <2> SUFFICES ASSUME Types, Owners PROVE OneOwner
    OBVIOUS
  <2>1. \A s \in Sock : \A i \in 1..Len(clients[s]) : Client(s, i)
    BY DEF Client
  <2> QED
    BY <2>1, Zenon DEF OneOwner, Owners, LinkOwners, ClientOwners
<1> QED
  BY <1>1, <1>2, <1>3, PTL DEF Spec

-----------------------------------------------------------------------------
(* Lines without the first *)

\* t is r without its first line.
Rest(r, t) ==
    /\ Len(t) \in Nat /\ Len(r) = Len(t) + 1
    /\ DOMAIN r = 1..Len(r) /\ DOMAIN t = 1..Len(t)
    /\ \A i \in 1..Len(t) : t[i] = r[i + 1]
    /\ \A j \in DOMAIN r : j > 1 => j - 1 \in DOMAIN t /\ t[j - 1] = r[j]

LEMMA TailRest ==
    ASSUME NEW S, NEW r \in Seq(S), r # <<>>
    PROVE  Rest(r, Tail(r))
<1>1. Len(Tail(r)) \in Nat /\ Len(r) = Len(Tail(r)) + 1 /\ DOMAIN r = 1..Len(r)
      /\ DOMAIN Tail(r) = 1..Len(Tail(r)) /\ \A i \in 1..Len(Tail(r)) : Tail(r)[i] = r[i + 1]
  BY TailFacts
<1> DEFINE t == Tail(r)
<1> HIDE DEF t
<1>2. \A j \in DOMAIN r : j > 1 => j - 1 \in DOMAIN t /\ t[j - 1] = r[j]
  <2> SUFFICES ASSUME NEW j \in DOMAIN r, j > 1 PROVE j - 1 \in DOMAIN t /\ t[j - 1] = r[j]
    OBVIOUS
  <2>1. j - 1 \in 1..Len(t) /\ (j - 1) + 1 = j
    BY <1>1 DEF t
  <2> QED
    BY <1>1, <2>1 DEF t
<1> QED
  BY <1>1, <1>2 DEF Rest, t

LEMMA EndsRest ==
    ASSUME NEW r, NEW t, NEW e, Rest(r, t), NEW i \in Nat, NEW l, NEW c,
           Ends(r, e, i + 1, l, c) \/ (Ends(r, e, 0, l, c) /\ ~Is(r[1], "CLOSED", l, c) /\ i = 0)
    PROVE  Ends(t, e, i, l, c)
<1>1. CASE e[l] = c
  BY <1>1 DEF Ends
<1>2. CASE \E j \in DOMAIN r : i + 1 < j /\ Is(r[j], "CLOSED", l, c)
  <2>1. PICK j \in DOMAIN r : i + 1 < j /\ Is(r[j], "CLOSED", l, c)
    BY <1>2
  <2>2. j > 1 /\ i < j - 1
    BY <2>1 DEF Rest
  <2>3. j - 1 \in DOMAIN t /\ t[j - 1] = r[j]
    BY <2>1, <2>2 DEF Rest
  <2> QED
    BY <2>1, <2>2, <2>3 DEF Ends
<1>3. CASE \E j \in DOMAIN r : 0 < j /\ Is(r[j], "CLOSED", l, c) /\ ~Is(r[1], "CLOSED", l, c) /\ i = 0
  <2>1. PICK j \in DOMAIN r : 0 < j /\ Is(r[j], "CLOSED", l, c) /\ j # 1 /\ i = 0
    BY <1>3
  <2>2. j > 1 /\ i < j - 1
    BY <2>1 DEF Rest
  <2>3. j - 1 \in DOMAIN t /\ t[j - 1] = r[j]
    BY <2>1, <2>2 DEF Rest
  <2> QED
    BY <2>1, <2>2, <2>3 DEF Ends
<1> QED
  BY <1>1, <1>2, <1>3 DEF Ends

LEMMA NeededRest ==
    ASSUME NEW r, NEW t, NEW e, Rest(r, t), NEW i \in 1..(Len(t) + 1), NEW l, NEW c,
           Needed(t, e, i, l, c)
    PROVE  Needed(r, e, i + 1, l, c) /\ i + 1 \in 1..(Len(r) + 1) /\ i \in Nat
<1>1. i \in Nat /\ i + 1 \in 1..(Len(r) + 1) /\ (i = Len(t) + 1 => i + 1 = Len(r) + 1)
  BY DEF Rest
<1>2. i \in DOMAIN t => i + 1 \in DOMAIN r /\ t[i] = r[i + 1]
  BY DEF Rest
<1> QED
  BY <1>1, <1>2, Zenon DEF Needed

LEMMA OrderRest ==
    ASSUME NEW r, NEW t, NEW e, Rest(r, t), Order(r, e)
    PROVE  Order(t, e)
<1>1. \A i \in DOMAIN t : i \in Nat /\ i + 1 \in DOMAIN r /\ t[i] = r[i + 1]
  BY DEF Rest
<1>2. ASSUME NEW i \in DOMAIN t, t[i].ev \in Events /\ t[i].ev # "CLOSED"
      PROVE  Ends(t, e, i, t[i].link, t[i].conn)
  <2>1. Ends(r, e, i + 1, t[i].link, t[i].conn)
    BY <1>1, <1>2 DEF Order
  <2> QED
    BY <1>1, <2>1, EndsRest
<1>3. ASSUME NEW i \in DOMAIN t, NEW j \in DOMAIN t, i < j,
             t[i].ev \in Events /\ t[j].ev \in Events /\ t[i].link = t[j].link
      PROVE  t[i].conn <= t[j].conn /\ (t[i].ev = "CLOSED" => t[i].conn < t[j].conn)
  <2>1. i + 1 < j + 1
    BY <1>1, <1>3
  <2> QED
    BY <1>1, <1>3, <2>1 DEF Order
<1>4. ASSUME NEW i \in DOMAIN t, t[i].ev \in Events /\ e[t[i].link] # NoConn
      PROVE  t[i].conn <= e[t[i].link] /\ (t[i].ev = "CLOSED" => t[i].conn < e[t[i].link])
  BY <1>1, <1>4 DEF Order
<1> QED
  BY <1>2, <1>3, <1>4 DEF Order

LEMMA ReportedRest ==
    ASSUME NEW r, NEW t, NEW e, Rest(r, t), Reported(r, e)
    PROVE  Reported(t, e)
<1> SUFFICES ASSUME NEW l \in Link, NEW c \in Conn, NEW i \in DOMAIN t, NEW k \in DOMAIN t,
                    NEW n \in 1..(Len(t) + 1),
                    i < k, k < n, Is(t[i], "CONNECT", l, c), StatusOK(t[k]), Needed(t, e, n, l, c)
             PROVE  \E j \in DOMAIN t : i < j /\ j < k /\ Is(t[j], "STATUS", l, c)
  BY Zenon DEF Reported
<1>1. \A x \in DOMAIN t : x \in Nat /\ x + 1 \in DOMAIN r /\ t[x] = r[x + 1]
  BY DEF Rest
<1>2. Needed(r, e, n + 1, l, c) /\ n + 1 \in 1..(Len(r) + 1) /\ n \in Nat
  BY NeededRest
<1>3. i + 1 < k + 1 /\ k + 1 < n + 1
  BY <1>1, <1>2
<1>4. PICK j \in DOMAIN r : i + 1 < j /\ j < k + 1 /\ Is(r[j], "STATUS", l, c)
  BY <1>1, <1>2, <1>3, Zenon DEF Reported
<1>5. j > 1 /\ i < j - 1 /\ j - 1 < k
  BY <1>1, <1>4 DEF Rest
<1>6. j - 1 \in DOMAIN t /\ t[j - 1] = r[j]
  BY <1>5 DEF Rest
<1> QED
  BY <1>4, <1>5, <1>6

-----------------------------------------------------------------------------
(* More lines *)

\* s is r with more lines behind it.
Front(r, s) ==
    /\ Len(r) \in Nat /\ Len(s) \in Nat /\ Len(r) <= Len(s)
    /\ DOMAIN r = 1..Len(r) /\ DOMAIN s = 1..Len(s)
    /\ \A i \in 1..Len(r) : s[i] = r[i] /\ i \in DOMAIN s

\* Lines and links are about the first n connections.
UpTo(r, e, n) ==
    /\ n \in Nat /\ e \in [Link -> 0..n]
    /\ \A i \in DOMAIN r : r[i].ev \in Events => r[i].link \in Link /\ r[i].conn \in 1..n

\* With the lines behind r the links go from e to f, and the lines stay those of
\* one connection after the other; who must be known was so at the end of r, or
\* is new.
Extends(r, e, s, f) ==
    /\ Front(r, s) /\ Order(s, f) /\ Reported(s, f)
    /\ \A l \in Link, c \in Conn, i \in 1..(Len(s) + 1) : Needed(s, f, i, l, c) =>
           \/ i <= Len(r) /\ Needed(r, e, i, l, c)
           \/ /\ i > Len(r)
              /\ \/ e[l] = c
                 \/ \E j \in DOMAIN s : Len(r) < j /\ j < i /\ Is(s[j], "CONNECT", l, c)
    /\ \A l \in Link, c \in Conn, i \in 0..Len(r) : Ends(r, e, i, l, c) => Ends(s, f, i, l, c)

\* A line of s belongs to r or is new.
LEMMA FrontCases ==
    ASSUME NEW r, NEW s, Front(r, s), NEW i \in DOMAIN s
    PROVE  /\ i \in Nat /\ i >= 1 /\ i <= Len(s)
           /\ \/ i \in DOMAIN r /\ i <= Len(r) /\ s[i] = r[i]
              \/ i \notin DOMAIN r /\ i > Len(r)
<1>1. Len(r) \in Nat /\ Len(s) \in Nat /\ i \in 1..Len(s)
  BY DEF Front
<1>2. i \in Nat /\ i >= 1 /\ i <= Len(s) /\ (i \in 1..Len(r) <=> i <= Len(r))
  BY <1>1
<1>3. (i <= Len(r)) \/ i > Len(r)
  BY <1>1, <1>2
<1>4. DOMAIN r = 1..Len(r) /\ \A j \in 1..Len(r) : s[j] = r[j]
  BY DEF Front
<1>5. CASE i <= Len(r)
  BY <1>2, <1>4, <1>5
<1>6. CASE i > Len(r)
  <2>1. ~(i <= Len(r))
    BY <1>1, <1>2, <1>6
  <2> QED
    BY <1>2, <1>4, <1>6, <2>1
<1> QED
  BY <1>3, <1>5, <1>6

\* Answers, and data or states of links that are open.
LEMMA Neutral ==
    ASSUME NEW r, NEW s, NEW e, NEW n, Front(r, s), UpTo(s, e, n), Order(r, e), Reported(r, e),
           \A k \in DOMAIN s : k > Len(r) =>
               \/ s[k].ev \in Answers
               \/ s[k].ev \in {"IPD", "STATUS"} /\ s[k].conn = e[s[k].link],
           \A k \in DOMAIN s : k > Len(r) /\ StatusOK(s[k]) =>
               \A l \in Link : e[l] # NoConn =>
                   \E j \in DOMAIN s : Len(r) < j /\ j < k /\ Is(s[j], "STATUS", l, e[l])
    PROVE  Extends(r, e, s, e)
<1> USE DEF NoConn
<1>1. \A k \in DOMAIN s : k > Len(r) /\ s[k].ev \in Events =>
          s[k].ev \in {"IPD", "STATUS"} /\ s[k].conn = e[s[k].link]
  BY DEF Events, Answers
<1>2. \A l \in Link, c \in Conn, i \in 0..Len(r) : Ends(r, e, i, l, c) => Ends(s, e, i, l, c)
  BY DEF Ends, Front
<1>3. \A l \in Link, c \in Conn, i \in 1..(Len(s) + 1) : Needed(s, e, i, l, c) =>
          \/ i <= Len(r) /\ Needed(r, e, i, l, c)
          \/ i > Len(r) /\ e[l] = c
  <2> SUFFICES ASSUME NEW l \in Link, NEW c \in Conn, NEW i \in 1..(Len(s) + 1),
                      Needed(s, e, i, l, c), ~(i > Len(r) /\ e[l] = c)
               PROVE  i <= Len(r) /\ Needed(r, e, i, l, c)
    OBVIOUS
  <2>1. CASE i = Len(s) + 1
    <3>1. i \notin DOMAIN s /\ i > Len(r)
      BY <2>1 DEF Front
    <3> QED
      BY <3>1 DEF Needed
  <2>2. CASE i # Len(s) + 1
    <3>1. i \in DOMAIN s /\ (Is(s[i], "IPD", l, c) \/ Is(s[i], "CLOSED", l, c))
      BY <2>2 DEF Needed
    <3>2. CASE i > Len(r)
      BY <1>1, <3>1, <3>2 DEF Is, Events
    <3>3. CASE i \in DOMAIN r /\ i <= Len(r) /\ s[i] = r[i]
      BY <3>1, <3>3 DEF Needed
    <3> QED
      BY <3>1, <3>2, <3>3, FrontCases
  <2> QED
    BY <2>1, <2>2
<1>4. Order(s, e)
  <2>1. ASSUME NEW i \in DOMAIN s, s[i].ev \in Events /\ s[i].ev # "CLOSED"
        PROVE  Ends(s, e, i, s[i].link, s[i].conn)
    <3>1. CASE i > Len(r)
      BY <1>1, <2>1, <3>1 DEF Ends
    <3>2. CASE i \in DOMAIN r /\ s[i] = r[i]
      <4>1. Ends(r, e, i, s[i].link, s[i].conn)
        BY <2>1, <3>2 DEF Order
      <4> QED
        BY <3>2, <4>1 DEF Ends, Front
    <3> QED
      BY <3>1, <3>2, FrontCases
  <2>2. ASSUME NEW i \in DOMAIN s, s[i].ev \in Events /\ e[s[i].link] # NoConn
        PROVE  /\ s[i].conn <= e[s[i].link]
               /\ s[i].ev = "CLOSED" => s[i].conn < e[s[i].link]
    <3>1. CASE i > Len(r)
      BY <1>1, <2>2, <3>1 DEF UpTo
    <3>2. CASE i \in DOMAIN r /\ s[i] = r[i]
      BY <2>2, <3>2 DEF Order
    <3> QED
      BY <3>1, <3>2, FrontCases
  <2>3. ASSUME NEW i \in DOMAIN s, NEW j \in DOMAIN s, i < j,
               s[i].ev \in Events /\ s[j].ev \in Events /\ s[i].link = s[j].link
        PROVE  /\ s[i].conn <= s[j].conn
               /\ s[i].ev = "CLOSED" => s[i].conn < s[j].conn
    <3>1. CASE j > Len(r)
      <4>1. s[j].conn = e[s[i].link] /\ e[s[i].link] # NoConn
        BY <1>1, <2>3, <3>1 DEF UpTo
      <4> QED
        BY <2>2, <2>3, <4>1
    <3>2. CASE j \in DOMAIN r /\ s[j] = r[j]
      <4>1. i \in DOMAIN r /\ s[i] = r[i]
        BY <2>3, <3>2 DEF Front
      <4> QED
        BY <2>3, <3>2, <4>1 DEF Order
    <3> QED
      BY <3>1, <3>2, FrontCases
  <2> QED
    BY <2>1, <2>2, <2>3 DEF Order
<1>5. Reported(s, e)
  <2> SUFFICES ASSUME NEW l \in Link, NEW c \in Conn, NEW i \in DOMAIN s, NEW k \in DOMAIN s,
                      NEW m \in 1..(Len(s) + 1),
                      i < k, k < m, Is(s[i], "CONNECT", l, c), StatusOK(s[k]), Needed(s, e, m, l, c)
               PROVE  \E j \in DOMAIN s : i < j /\ j < k /\ Is(s[j], "STATUS", l, c)
    BY Zenon DEF Reported
  <2>1. i \in DOMAIN r /\ i <= Len(r) /\ s[i] = r[i]
    <3>1. s[i].ev = "CONNECT"
      BY DEF Is
    <3>2. ~(i > Len(r))
      BY <1>1, <3>1 DEF Events
    <3> QED
      BY <3>2, FrontCases
  <2>2. CASE k > Len(r)
    <3>1. e[l] = c /\ e[l] # NoConn
      <4>1. m > Len(r)
        BY <2>2 DEF Front
      <4>2. e[l] = c
        BY <1>3, <4>1 DEF Front
      <4> QED
        BY <4>2, Nothing
    <3>2. PICK j \in DOMAIN s : Len(r) < j /\ j < k /\ Is(s[j], "STATUS", l, e[l])
      BY <2>2, <3>1
    <3> QED
      BY <2>1, <3>1, <3>2 DEF Front
  <2>3. CASE k \in DOMAIN r /\ k <= Len(r) /\ s[k] = r[k]
    <3>1. \E x \in 1..(Len(r) + 1) : k < x /\ Needed(r, e, x, l, c)
      <4>1. CASE m <= Len(r) /\ Needed(r, e, m, l, c)
        BY <4>1 DEF Front
      <4>2. CASE e[l] = c
        <5>1. Needed(r, e, Len(r) + 1, l, c)
          BY <4>2 DEF Needed
        <5> QED
          BY <2>3, <5>1 DEF Front
      <4> QED
        BY <1>3, <4>1, <4>2
    <3>2. PICK j \in DOMAIN r : i < j /\ j < k /\ Is(r[j], "STATUS", l, c)
      BY <2>1, <2>3, <3>1 DEF Reported
    <3> QED
      BY <3>2 DEF Front
  <2> QED
    BY <2>2, <2>3, FrontCases
<1> QED
  BY <1>2, <1>3, <1>4, <1>5 DEF Extends

\* A new connection.
LEMMA Connects ==
    ASSUME NEW r, NEW s, NEW e, NEW f, NEW n, Front(r, s), UpTo(r, e, n), Order(r, e), Reported(r, e),
           NEW o \in Link, e[o] = NoConn, f = [e EXCEPT ![o] = n + 1],
           Len(s) = Len(r) + 1, Is(s[Len(s)], "CONNECT", o, n + 1)
    PROVE  Extends(r, e, s, f)
<1> USE DEF NoConn
<1>1. /\ n \in Nat /\ f[o] = n + 1 /\ \A l \in Link : l # o => f[l] = e[l]
      /\ \A i \in DOMAIN r : r[i].ev \in Events =>
             r[i].link \in Link /\ r[i].conn \in 1..n /\ r[i].conn # n + 1 /\ r[i].conn < n + 1
      /\ \A l \in Link : e[l] # n + 1
  BY DEF UpTo
<1>2. ASSUME NEW i \in DOMAIN s
      PROVE  \/ i \in DOMAIN r /\ i <= Len(r) /\ s[i] = r[i] /\ i < Len(s)
             \/ i = Len(s) /\ i > Len(r)
  <2>1. Len(r) \in Nat /\ i \in Nat /\ i <= Len(r) + 1
    BY FrontCases DEF Front
  <2>2. CASE i \in DOMAIN r /\ i <= Len(r) /\ s[i] = r[i]
    BY <2>1, <2>2
  <2>3. CASE i > Len(r)
    BY <2>1, <2>3
  <2> QED
    BY <2>2, <2>3, FrontCases
<1>3. \A l \in Link, c \in Conn, i \in 0..Len(r) : Ends(r, e, i, l, c) => Ends(s, f, i, l, c)
  <2> SUFFICES ASSUME NEW l \in Link, NEW c \in Conn, NEW i \in 0..Len(r), Ends(r, e, i, l, c)
               PROVE  Ends(s, f, i, l, c)
    OBVIOUS
  <2>1. CASE e[l] = c
    BY <1>1, <2>1, Nothing DEF Ends
  <2>2. CASE e[l] # c
    BY <2>2 DEF Ends, Front
  <2> QED
    BY <2>1, <2>2
<1>4. \A l \in Link, c \in Conn, i \in 1..(Len(s) + 1) : Needed(s, f, i, l, c) =>
          \/ i <= Len(r) /\ Needed(r, e, i, l, c)
          \/ i > Len(r) /\ e[l] = c
          \/ i > Len(s) /\ l = o /\ c = n + 1
  <2> SUFFICES ASSUME NEW l \in Link, NEW c \in Conn, NEW i \in 1..(Len(s) + 1), Needed(s, f, i, l, c)
               PROVE  \/ i <= Len(r) /\ Needed(r, e, i, l, c)
                      \/ i > Len(r) /\ e[l] = c
                      \/ i > Len(s) /\ l = o /\ c = n + 1
    OBVIOUS
  <2>1. CASE i = Len(s) + 1
    <3>1. i \notin DOMAIN s /\ i > Len(s) /\ i > Len(r)
      BY <2>1 DEF Front
    <3>2. f[l] = c
      BY <3>1 DEF Needed
    <3> QED
      BY <1>1, <3>1, <3>2
  <2>2. CASE i # Len(s) + 1
    <3>1. i \in DOMAIN s /\ (Is(s[i], "IPD", l, c) \/ Is(s[i], "CLOSED", l, c))
      BY <2>2 DEF Needed
    <3>2. i # Len(s)
      BY <3>1 DEF Is
    <3>3. i \in DOMAIN r /\ i <= Len(r) /\ s[i] = r[i]
      BY <1>2, <3>1, <3>2
    <3> QED
      BY <3>1, <3>3 DEF Needed
  <2> QED
    BY <2>1, <2>2
<1>5. Order(s, f)
  <2>1. ASSUME NEW i \in DOMAIN s, s[i].ev \in Events /\ s[i].ev # "CLOSED"
        PROVE  Ends(s, f, i, s[i].link, s[i].conn)
    <3>1. CASE i = Len(s)
      BY <1>1, <3>1 DEF Ends, Is
    <3>2. CASE i \in DOMAIN r /\ s[i] = r[i]
      <4>1. Ends(r, e, i, s[i].link, s[i].conn) /\ s[i].link \in Link /\ s[i].conn # 0
        BY <1>1, <2>1, <3>2 DEF Order
      <4>2. CASE e[s[i].link] = s[i].conn
        BY <1>1, <4>1, <4>2 DEF Ends
      <4>3. CASE e[s[i].link] # s[i].conn
        BY <3>2, <4>1, <4>3 DEF Ends, Front
      <4> QED
        BY <4>2, <4>3
    <3> QED
      BY <1>2, <3>1, <3>2
  <2>2. ASSUME NEW i \in DOMAIN s, s[i].ev \in Events /\ f[s[i].link] # NoConn
        PROVE  /\ s[i].conn <= f[s[i].link]
               /\ s[i].ev = "CLOSED" => s[i].conn < f[s[i].link]
    <3>1. CASE i = Len(s)
      BY <1>1, <3>1 DEF Is
    <3>2. CASE i \in DOMAIN r /\ s[i] = r[i]
      <4>1. s[i].link \in Link /\ s[i].conn < n + 1 /\ s[i].conn \in Nat
        BY <1>1, <2>2, <3>2
      <4>2. CASE s[i].link = o
        BY <1>1, <4>1, <4>2
      <4>3. CASE s[i].link # o
        BY <1>1, <2>2, <3>2, <4>1, <4>3 DEF Order
      <4> QED
        BY <4>2, <4>3
    <3> QED
      BY <1>2, <3>1, <3>2
  <2>3. ASSUME NEW i \in DOMAIN s, NEW j \in DOMAIN s, i < j,
               s[i].ev \in Events /\ s[j].ev \in Events /\ s[i].link = s[j].link
        PROVE  /\ s[i].conn <= s[j].conn
               /\ s[i].ev = "CLOSED" => s[i].conn < s[j].conn
    <3>1. i \in DOMAIN r /\ s[i] = r[i]
      BY <1>2, <2>3 DEF Front
    <3>2. CASE j = Len(s)
      <4>1. s[i].conn < n + 1 /\ s[i].conn \in Nat /\ s[j].conn = n + 1
        BY <1>1, <2>3, <3>1, <3>2 DEF Is
      <4> QED
        BY <1>1, <4>1
    <3>3. CASE j \in DOMAIN r /\ s[j] = r[j]
      BY <2>3, <3>1, <3>3 DEF Order
    <3> QED
      BY <1>2, <3>2, <3>3
  <2> QED
    BY <2>1, <2>2, <2>3 DEF Order
<1>6. Reported(s, f)
  <2> SUFFICES ASSUME NEW l \in Link, NEW c \in Conn, NEW i \in DOMAIN s, NEW k \in DOMAIN s,
                      NEW m \in 1..(Len(s) + 1),
                      i < k, k < m, Is(s[i], "CONNECT", l, c), StatusOK(s[k]), Needed(s, f, m, l, c)
               PROVE  \E j \in DOMAIN s : i < j /\ j < k /\ Is(s[j], "STATUS", l, c)
    BY Zenon DEF Reported
  <2>1. k # Len(s)
    BY DEF Is, StatusOK
  <2>2. k \in DOMAIN r /\ k <= Len(r) /\ s[k] = r[k]
    BY <1>2, <2>1
  <2>3. i \in DOMAIN r /\ s[i] = r[i]
    BY <1>2, <2>2 DEF Front
  <2>4. c # n + 1
    BY <1>1, <2>3 DEF Is, Events
  <2>5. \E x \in 1..(Len(r) + 1) : k < x /\ Needed(r, e, x, l, c)
    <3>1. CASE m <= Len(r) /\ Needed(r, e, m, l, c)
      BY <3>1 DEF Front
    <3>2. CASE e[l] = c
      <4>1. Needed(r, e, Len(r) + 1, l, c)
        BY <3>2 DEF Needed
      <4> QED
        BY <2>2, <4>1 DEF Front
    <3> QED
      BY <1>4, <2>4, <3>1, <3>2
  <2>6. PICK j \in DOMAIN r : i < j /\ j < k /\ Is(r[j], "STATUS", l, c)
    BY <2>2, <2>3, <2>5 DEF Reported
  <2> QED
    BY <2>6 DEF Front
<1>7. ASSUME NEW i \in 1..(Len(s) + 1), i > Len(s)
      PROVE  Len(r) < Len(s) /\ Len(s) < i /\ Len(s) \in DOMAIN s /\ i > Len(r)
  <2>1. Len(r) \in Nat /\ DOMAIN s = 1..Len(s)
    BY DEF Front
  <2> QED
    BY <1>7, <2>1
<1>8. \A l \in Link, c \in Conn, i \in 1..(Len(s) + 1) : Needed(s, f, i, l, c) =>
          \/ i <= Len(r) /\ Needed(r, e, i, l, c)
          \/ /\ i > Len(r)
             /\ \/ e[l] = c
                \/ \E j \in DOMAIN s : Len(r) < j /\ j < i /\ Is(s[j], "CONNECT", l, c)
  BY <1>4, <1>7, Zenon
<1> QED
  BY <1>3, <1>5, <1>6, <1>8 DEF Extends

\* A connection ends.
LEMMA Closes ==
    ASSUME NEW r, NEW s, NEW e, NEW f, NEW n, Front(r, s), UpTo(r, e, n), Order(r, e), Reported(r, e),
           NEW o \in Link, e[o] # NoConn, f = [e EXCEPT ![o] = NoConn],
           Len(s) = Len(r) + 1, Is(s[Len(s)], "CLOSED", o, e[o])
    PROVE  Extends(r, e, s, f)
<1> USE DEF NoConn
<1>1. /\ n \in Nat /\ f[o] = 0 /\ \A l \in Link : l # o => f[l] = e[l]
      /\ \A i \in DOMAIN r : r[i].ev \in Events =>
             r[i].link \in Link /\ r[i].conn \in 1..n /\ r[i].conn # 0 /\ r[i].conn \in Nat
      /\ \A l \in Link : e[l] \in Nat
      /\ 0 \notin Conn
  BY Nothing DEF UpTo
<1>2. ASSUME NEW i \in DOMAIN s
      PROVE  \/ i \in DOMAIN r /\ i <= Len(r) /\ s[i] = r[i] /\ i < Len(s)
             \/ i = Len(s) /\ i > Len(r)
  <2>1. Len(r) \in Nat /\ i \in Nat /\ i <= Len(r) + 1
    BY FrontCases DEF Front
  <2>2. CASE i \in DOMAIN r /\ i <= Len(r) /\ s[i] = r[i]
    BY <2>1, <2>2
  <2>3. CASE i > Len(r)
    BY <2>1, <2>3
  <2> QED
    BY <2>2, <2>3, FrontCases
<1>3. Len(s) \in DOMAIN s /\ \A i \in 0..Len(r) : i < Len(s)
  BY DEF Front
<1>4. ASSUME NEW l \in Link, NEW c, c # 0, NEW i \in 0..Len(r), Ends(r, e, i, l, c)
      PROVE  Ends(s, f, i, l, c)
  <2>1. CASE e[l] = c /\ l # o
    BY <1>1, <2>1 DEF Ends
  <2>2. CASE e[l] = c /\ l = o
    BY <1>3, <2>2 DEF Ends
  <2>3. CASE e[l] # c
    BY <1>4, <2>3 DEF Ends, Front
  <2> QED
    BY <2>1, <2>2, <2>3
<1>5. \A l \in Link, c \in Conn, i \in 1..(Len(s) + 1) : Needed(s, f, i, l, c) =>
          \/ i <= Len(r) /\ Needed(r, e, i, l, c)
          \/ i > Len(r) /\ e[l] = c
  <2> SUFFICES ASSUME NEW l \in Link, NEW c \in Conn, NEW i \in 1..(Len(s) + 1), Needed(s, f, i, l, c)
               PROVE  \/ i <= Len(r) /\ Needed(r, e, i, l, c)
                      \/ i > Len(r) /\ e[l] = c
    OBVIOUS
  <2>1. CASE i = Len(s) + 1
    <3>1. i \notin DOMAIN s /\ i > Len(s) /\ i > Len(r)
      BY <2>1 DEF Front
    <3>2. f[l] = c
      BY <3>1 DEF Needed
    <3> QED
      BY <1>1, <3>1, <3>2
  <2>2. CASE i # Len(s) + 1
    <3>1. i \in DOMAIN s /\ (Is(s[i], "IPD", l, c) \/ Is(s[i], "CLOSED", l, c))
      BY <2>2 DEF Needed
    <3>2. CASE i = Len(s) /\ i > Len(r)
      BY <3>1, <3>2 DEF Is
    <3>3. CASE i \in DOMAIN r /\ i <= Len(r) /\ s[i] = r[i]
      BY <3>1, <3>3 DEF Needed
    <3> QED
      BY <1>2, <3>1, <3>2, <3>3
  <2> QED
    BY <2>1, <2>2
<1>6. Order(s, f)
  <2>1. ASSUME NEW i \in DOMAIN s, s[i].ev \in Events /\ s[i].ev # "CLOSED"
        PROVE  Ends(s, f, i, s[i].link, s[i].conn)
    <3>1. i \in DOMAIN r /\ s[i] = r[i] /\ i <= Len(r)
      BY <1>2, <2>1 DEF Is
    <3>2. Ends(r, e, i, s[i].link, s[i].conn) /\ s[i].link \in Link /\ s[i].conn # 0
      BY <1>1, <2>1, <3>1 DEF Order
    <3>3. i \in 0..Len(r)
      BY <3>1, FrontCases DEF Front
    <3> QED
      BY <1>4, <3>2, <3>3
  <2>2. ASSUME NEW i \in DOMAIN s, s[i].ev \in Events /\ f[s[i].link] # NoConn
        PROVE  /\ s[i].conn <= f[s[i].link]
               /\ s[i].ev = "CLOSED" => s[i].conn < f[s[i].link]
    <3>1. CASE i = Len(s)
      BY <1>1, <2>2, <3>1 DEF Is
    <3>2. CASE i \in DOMAIN r /\ s[i] = r[i]
      <4>1. s[i].link \in Link /\ s[i].link # o /\ f[s[i].link] = e[s[i].link]
        BY <1>1, <2>2, <3>2
      <4> QED
        BY <2>2, <3>2, <4>1 DEF Order
    <3> QED
      BY <1>2, <3>1, <3>2
  <2>3. ASSUME NEW i \in DOMAIN s, NEW j \in DOMAIN s, i < j,
               s[i].ev \in Events /\ s[j].ev \in Events /\ s[i].link = s[j].link
        PROVE  /\ s[i].conn <= s[j].conn
               /\ s[i].ev = "CLOSED" => s[i].conn < s[j].conn
    <3>1. i \in DOMAIN r /\ s[i] = r[i]
      BY <1>2, <2>3 DEF Front
    <3>2. CASE j = Len(s)
      <4>1. s[i].link = o /\ s[j].conn = e[o]
        BY <2>3, <3>1, <3>2 DEF Is
      <4> QED
        BY <2>3, <3>1, <4>1 DEF Order
    <3>3. CASE j \in DOMAIN r /\ s[j] = r[j]
      BY <2>3, <3>1, <3>3 DEF Order
    <3> QED
      BY <1>2, <3>2, <3>3
  <2> QED
    BY <2>1, <2>2, <2>3 DEF Order
<1>7. Reported(s, f)
  <2> SUFFICES ASSUME NEW l \in Link, NEW c \in Conn, NEW i \in DOMAIN s, NEW k \in DOMAIN s,
                      NEW m \in 1..(Len(s) + 1),
                      i < k, k < m, Is(s[i], "CONNECT", l, c), StatusOK(s[k]), Needed(s, f, m, l, c)
               PROVE  \E j \in DOMAIN s : i < j /\ j < k /\ Is(s[j], "STATUS", l, c)
    BY Zenon DEF Reported
  <2>1. k # Len(s)
    BY DEF Is, StatusOK
  <2>2. k \in DOMAIN r /\ k <= Len(r) /\ s[k] = r[k]
    BY <1>2, <2>1
  <2>3. i \in DOMAIN r /\ s[i] = r[i]
    BY <1>2, <2>2 DEF Front
  <2>4. \E x \in 1..(Len(r) + 1) : k < x /\ Needed(r, e, x, l, c)
    <3>1. CASE m <= Len(r) /\ Needed(r, e, m, l, c)
      BY <3>1 DEF Front
    <3>2. CASE e[l] = c
      <4>1. Needed(r, e, Len(r) + 1, l, c)
        BY <3>2 DEF Needed
      <4> QED
        BY <2>2, <4>1 DEF Front
    <3> QED
      BY <1>5, <3>1, <3>2
  <2>5. PICK j \in DOMAIN r : i < j /\ j < k /\ Is(r[j], "STATUS", l, c)
    BY <2>2, <2>3, <2>4 DEF Reported
  <2> QED
    BY <2>5 DEF Front
<1>8. \A c \in Conn : c # 0
  BY <1>1
<1> QED
  BY <1>4, <1>5, <1>6, <1>7, <1>8 DEF Extends

\* First s behind r, then t behind s.
LEMMA ExtendsTwice ==
    ASSUME NEW r, NEW e, NEW s, NEW f, NEW t, NEW g, Extends(r, e, s, f), Extends(s, f, t, g)
    PROVE  Extends(r, e, t, g)
<1>1. /\ Front(r, s) /\ Front(s, t) /\ Order(t, g) /\ Reported(t, g)
      /\ Len(r) \in Nat /\ Len(s) \in Nat /\ Len(t) \in Nat /\ Len(r) <= Len(s) /\ Len(s) <= Len(t)
  BY DEF Extends, Front
<1>2. Front(r, t)
  BY <1>1 DEF Front
<1>3. ASSUME NEW l \in Link, NEW c \in Conn, NEW i \in 0..Len(r), Ends(r, e, i, l, c)
      PROVE  Ends(t, g, i, l, c)
  <2>1. i \in 0..Len(s) /\ Ends(s, f, i, l, c)
    BY <1>1, <1>3 DEF Extends
  <2> QED
    BY <2>1 DEF Extends
<1>4. ASSUME NEW l \in Link, NEW c \in Conn, NEW i \in 1..(Len(t) + 1), Needed(t, g, i, l, c)
      PROVE  \/ i <= Len(r) /\ Needed(r, e, i, l, c)
             \/ /\ i > Len(r)
                /\ \/ e[l] = c
                   \/ \E j \in DOMAIN t : Len(r) < j /\ j < i /\ Is(t[j], "CONNECT", l, c)
  <2>1. CASE i <= Len(s) /\ Needed(s, f, i, l, c)
    <3>1. i \in 1..(Len(s) + 1)
      BY <1>1, <2>1
    <3>2. CASE i <= Len(r) /\ Needed(r, e, i, l, c)
      BY <3>2
    <3>3. CASE i > Len(r) /\ e[l] = c
      BY <3>3
    <3>4. CASE i > Len(r) /\ \E j \in DOMAIN s : Len(r) < j /\ j < i /\ Is(s[j], "CONNECT", l, c)
      BY <1>1, <3>4 DEF Front
    <3> QED
      BY <2>1, <3>1, <3>2, <3>3, <3>4 DEF Extends
  <2>2. CASE i > Len(s) /\ f[l] = c
    <3>1. Len(s) + 1 \in 1..(Len(s) + 1) /\ Needed(s, f, Len(s) + 1, l, c) /\ i > Len(r) /\ Len(s) + 1 > Len(r)
      BY <1>1, <2>2 DEF Needed
    <3>2. CASE e[l] = c
      BY <3>1, <3>2
    <3>3. CASE \E j \in DOMAIN s : Len(r) < j /\ j < Len(s) + 1 /\ Is(s[j], "CONNECT", l, c)
      <4>1. PICK j \in DOMAIN s : Len(r) < j /\ j < Len(s) + 1 /\ Is(s[j], "CONNECT", l, c)
        BY <3>3
      <4>2. j \in DOMAIN t /\ t[j] = s[j] /\ j < i
        BY <1>1, <2>2, <4>1 DEF Front
      <4> QED
        BY <3>1, <4>1, <4>2
    <3>4. ~(Len(s) + 1 <= Len(r))
      BY <1>1
    <3> QED
      BY <3>1, <3>2, <3>3, <3>4 DEF Extends
  <2>3. CASE i > Len(s) /\ \E j \in DOMAIN t : Len(s) < j /\ j < i /\ Is(t[j], "CONNECT", l, c)
    <3>1. PICK j \in DOMAIN t : Len(s) < j /\ j < i /\ Is(t[j], "CONNECT", l, c)
      BY <2>3
    <3>2. Len(r) < j /\ i > Len(r)
      BY <1>1, <2>3, <3>1 DEF Front
    <3> QED
      BY <3>1, <3>2
  <2> QED
    BY <1>4, <2>1, <2>2, <2>3 DEF Extends
<1> QED
  BY <1>1, <1>2, <1>3, <1>4 DEF Extends

-----------------------------------------------------------------------------
(* What the ESP8266 appends *)

\* t is r followed by x.
Joined(t, r, x) ==
    /\ Len(r) \in Nat /\ Len(x) \in Nat /\ Len(t) = Len(r) + Len(x)
    /\ DOMAIN r = 1..Len(r) /\ DOMAIN x = 1..Len(x) /\ DOMAIN t = 1..(Len(r) + Len(x))
    /\ \A i \in 1..Len(r) : t[i] = r[i]
    /\ \A i \in 1..Len(x) : t[Len(r) + i] = x[i]

LEMMA Joins ==
    ASSUME NEW S, NEW r \in Seq(S), NEW x \in Seq(S)
    PROVE  r \o x \in Seq(S) /\ Joined(r \o x, r, x)
BY ConcatFacts DEF Joined

LEMMA OneLine == ASSUME NEW S, NEW m \in S PROVE <<m>> \in Seq(S) /\ Len(<<m>>) = 1 /\ <<m>>[1] = m
OBVIOUS

\* The same for a sequence of one line.
LEMMA OneJoined ==
    ASSUME NEW t, NEW r, NEW x, Joined(t, r, x), Len(x) = 1
    PROVE  /\ Front(r, t) /\ Len(t) = Len(r) + 1 /\ t[Len(r) + 1] = x[1]
           /\ \A i \in DOMAIN t : i > Len(r) => i = Len(r) + 1
<1>1. /\ Len(r) \in Nat /\ Len(t) = Len(r) + 1 /\ DOMAIN r = 1..Len(r) /\ DOMAIN t = 1..(Len(r) + 1)
      /\ \A i \in 1..Len(r) : t[i] = r[i]
      /\ \A i \in 1..1 : t[Len(r) + i] = x[i]
  BY DEF Joined
<1>2. t[Len(r) + 1] = x[1] /\ \A i \in DOMAIN t : i > Len(r) => i = Len(r) + 1
  BY <1>1
<1>3. Front(r, t)
  BY <1>1 DEF Front
<1> QED
  BY <1>1, <1>2, <1>3

LEMMA OneMore ==
    ASSUME NEW S, NEW r \in Seq(S), NEW m \in S
    PROVE  /\ Front(r, r \o <<m>>) /\ Len(r \o <<m>>) = Len(r) + 1
           /\ (r \o <<m>>)[Len(r) + 1] = m
           /\ \A i \in DOMAIN (r \o <<m>>) : i > Len(r) => i = Len(r) + 1
<1>1. <<m>> \in Seq(S) /\ Len(<<m>>) = 1 /\ <<m>>[1] = m
  BY OneLine
<1>2. Joined(r \o <<m>>, r, <<m>>)
  BY <1>1, Joins, Zenon
<1> QED
  BY <1>1, <1>2, OneJoined, Zenon

LEMMA TwoMore ==
    ASSUME NEW r, NEW x, NEW y, NEW s, NEW t, Joined(s, r, x), Joined(t, r, y),
           Len(x) = 1, Len(y) = 2, x[1] = y[1]
    PROVE  /\ Front(r, s) /\ Front(s, t) /\ Front(r, t)
           /\ Len(s) = Len(r) + 1 /\ Len(t) = Len(r) + 2
           /\ s[Len(r) + 1] = x[1] /\ t[Len(r) + 1] = x[1] /\ t[Len(r) + 2] = y[2]
           /\ \A i \in DOMAIN t : i > Len(r) => i = Len(r) + 1 \/ i = Len(r) + 2
<1>1. /\ Len(s) = Len(r) + 1 /\ Len(t) = Len(r) + 2 /\ Len(r) \in Nat
      /\ DOMAIN r = 1..Len(r) /\ DOMAIN s = 1..(Len(r) + 1) /\ DOMAIN t = 1..(Len(r) + 2)
      /\ \A i \in 1..Len(r) : s[i] = r[i] /\ t[i] = r[i]
      /\ \A i \in 1..1 : s[Len(r) + i] = x[i]
      /\ \A i \in 1..2 : t[Len(r) + i] = y[i]
  BY DEF Joined
<1>2. s[Len(r) + 1] = x[1] /\ t[Len(r) + 1] = x[1] /\ t[Len(r) + 2] = y[2]
  BY <1>1
<1>3. Front(r, s) /\ Front(r, t)
  BY <1>1 DEF Front
<1>4. Front(s, t)
  <2>1. ASSUME NEW i \in 1..Len(s) PROVE t[i] = s[i] /\ i \in DOMAIN t
    <3>1. CASE i \in 1..Len(r)
      BY <1>1, <3>1
    <3>2. CASE i = Len(r) + 1
      BY <1>1, <1>2, <3>2
    <3> QED
      BY <1>1, <3>1, <3>2
  <2> QED
    BY <1>1, <2>1 DEF Front
<1>5. \A i \in DOMAIN t : i > Len(r) => i = Len(r) + 1 \/ i = Len(r) + 2
  BY <1>1
<1> QED
  BY <1>1, <1>2, <1>3, <1>4, <1>5, Zenon

LEMMA ManyMore ==
    ASSUME NEW r, NEW s, NEW m, NEW u, NEW x, NEW t,
           Joined(u, r, s), Joined(t, u, x), Len(x) = 1, x[1] = m
    PROVE  /\ Front(r, t) /\ Len(t) = Len(r) + Len(s) + 1
           /\ Len(r) \in Nat /\ Len(s) \in Nat /\ DOMAIN s = 1..Len(s)
           /\ \A j \in 1..Len(s) : t[Len(r) + j] = s[j] /\ Len(r) + j \in DOMAIN t
           /\ t[Len(r) + Len(s) + 1] = m
           /\ \A i \in DOMAIN t : i > Len(r) =>
                  \/ i = Len(r) + Len(s) + 1
                  \/ i < Len(r) + Len(s) + 1 /\ \E j \in 1..Len(s) : i = Len(r) + j /\ t[i] = s[j]
<1>1. /\ Len(u) = Len(r) + Len(s) /\ Len(r) \in Nat /\ Len(s) \in Nat
      /\ DOMAIN r = 1..Len(r) /\ DOMAIN u = 1..(Len(r) + Len(s)) /\ DOMAIN s = 1..Len(s)
      /\ \A i \in 1..Len(r) : u[i] = r[i]
      /\ \A j \in 1..Len(s) : u[Len(r) + j] = s[j]
  BY DEF Joined
<1>2. /\ Front(u, t) /\ Len(t) = Len(u) + 1 /\ t[Len(u) + 1] = m
      /\ \A i \in DOMAIN t : i > Len(u) => i = Len(u) + 1
  BY OneJoined
<1>3. Front(r, t)
  BY <1>1, <1>2 DEF Front
<1>4. Len(t) = Len(r) + Len(s) + 1 /\ t[Len(r) + Len(s) + 1] = m
  BY <1>1, <1>2
<1>5. \A j \in 1..Len(s) : t[Len(r) + j] = s[j] /\ Len(r) + j \in DOMAIN t
  BY <1>1, <1>2 DEF Front
<1>6. ASSUME NEW i \in DOMAIN t, i > Len(r)
      PROVE  \/ i = Len(r) + Len(s) + 1
             \/ i < Len(r) + Len(s) + 1 /\ \E j \in 1..Len(s) : i = Len(r) + j /\ t[i] = s[j]
  <2>1. CASE i > Len(u)
    BY <1>1, <1>2, <2>1
  <2>2. CASE i <= Len(u)
    <3>1. i \in Nat
      BY <1>2 DEF Front
    <3>2. i - Len(r) \in 1..Len(s) /\ i = Len(r) + (i - Len(r)) /\ i < Len(r) + Len(s) + 1
      <4>1. i \in Nat /\ Len(r) \in Nat /\ Len(s) \in Nat /\ i > Len(r) /\ i <= Len(r) + Len(s)
        BY <1>1, <1>6, <2>2, <3>1
      <4> QED
        BY <4>1
    <3> QED
      BY <1>5, <3>2
  <2> QED
    BY <1>1, <2>1, <2>2, FrontCases, <1>2
<1> QED
  BY <1>1, <1>3, <1>4, <1>5, <1>6

LEMMA RxUpTo ==
    ASSUME Types
    PROVE  UpTo(rx, espLink, nconn)
<1>1. nconn \in Nat /\ espLink \in [Link -> 0..nconn]
  BY Nothing DEF Types, EspTypes
<1>2. \A i \in DOMAIN rx : rx[i].ev \in Events => rx[i].link \in Link /\ rx[i].conn \in 1..nconn
  BY DEF Types, RxTypes, GoodLine
<1> QED
  BY <1>1, <1>2 DEF UpTo

LEMMA RxUpToNext ==
    ASSUME Types'
    PROVE  UpTo(rx', espLink', nconn')
<1>1. nconn' \in Nat /\ espLink' \in [Link -> 0..nconn']
  BY Nothing DEF Types, EspTypes
<1>2. \A i \in DOMAIN rx' : rx'[i].ev \in Events => rx'[i].link \in Link /\ rx'[i].conn \in 1..nconn'
  BY DEF Types, RxTypes, GoodLine
<1> QED
  BY <1>1, <1>2 DEF UpTo

\* The fields of the lines that are built.
LEMMA MsgFields ==
    /\ \A m \in {OK, ERROR, SENDOK} : OwnAnswer(m) /\ ~StatusOK(m) /\ m.ev \in Answers /\ m.link = NoLink
    /\ OK.ev = "OK" /\ ERROR.ev = "ERROR" /\ SENDOK.ev = "SEND OK"
    /\ \A l \in Link : /\ StatusOK(Msg("OK", l, NoConn)) /\ ~OwnAnswer(Msg("OK", l, NoConn))
                       /\ Msg("OK", l, NoConn).ev \in Answers
<1>2. /\ OK.ev = "OK" /\ ERROR.ev = "ERROR" /\ SENDOK.ev = "SEND OK"
      /\ OK.link = NoLink /\ ERROR.link = NoLink /\ SENDOK.link = NoLink
  BY DEF OK, ERROR, SENDOK, Msg
<1>3. \A m \in {OK, ERROR, SENDOK} : OwnAnswer(m) /\ ~StatusOK(m) /\ m.ev \in Answers /\ m.link = NoLink
  BY <1>2 DEF OwnAnswer, StatusOK, Answers
<1>4. ASSUME NEW l \in Link
      PROVE  /\ StatusOK(Msg("OK", l, NoConn)) /\ ~OwnAnswer(Msg("OK", l, NoConn))
             /\ Msg("OK", l, NoConn).ev \in Answers
  <2>1. Msg("OK", l, NoConn).ev = "OK" /\ Msg("OK", l, NoConn).link = l /\ l # NoLink
    BY Nothing DEF Msg
  <2> QED
    BY <2>1 DEF OwnAnswer, StatusOK, Answers
<1> QED
  BY <1>2, <1>3, <1>4

LEMMA ConnectExtends ==
    ASSUME Types, Types', Order(rx, espLink), Reported(rx, espLink), NEW q, GoodReq(q), EspConnects(q)
    PROVE  /\ Extends(rx, espLink, rx', espLink') /\ q.link \in Link
           /\ Len(rx) \in Nat /\ Len(rx') = Len(rx) + 2
           /\ Is(rx'[Len(rx) + 1], "CONNECT", q.link, nconn + 1) /\ rx'[Len(rx) + 2] = OK
           /\ \A i \in DOMAIN rx' : i > Len(rx) => i = Len(rx) + 1 \/ i = Len(rx) + 2
<1> DEFINE a == Msg("CONNECT", q.link, nconn + 1)
           s == rx \o <<a>>
<1>1. q.link \in Link /\ nconn \in Nat /\ nconn + 1 \in Conn /\ nconn + 1 \in 1..(nconn + 1)
  BY Nothing DEF GoodReq, LinkCalls, EspConnects, Types, EspTypes
<1>2. a \in Line /\ OK \in Line /\ rx \in Seq(Line) /\ rx' = rx \o <<a, OK>>
  <2>1. "CONNECT" \in Events /\ nconn + 1 \in Nat
    BY <1>1 DEF Events
  <2> QED
    BY <1>1, <2>1, GoodLines DEF EspConnects, Types, RxTypes
<1>4. Is(a, "CONNECT", q.link, nconn + 1)
  BY DEF Is, Msg
<1> HIDE DEF a
<1>3. /\ Front(rx, s) /\ Front(s, rx') /\ Len(s) = Len(rx) + 1 /\ Len(rx') = Len(rx) + 2
      /\ s[Len(rx) + 1] = a /\ rx'[Len(rx) + 1] = a /\ rx'[Len(rx) + 2] = OK
      /\ \A i \in DOMAIN rx' : i > Len(rx) => i = Len(rx) + 1 \/ i = Len(rx) + 2
  <2> DEFINE x == <<a>>
             y == <<a, OK>>
  <2>1. x \in Seq(Line) /\ Len(x) = 1 /\ x[1] = a /\ y \in Seq(Line) /\ Len(y) = 2 /\ y[1] = a /\ y[2] = OK
    BY <1>2, PairFacts
  <2>2. rx' = rx \o y /\ s = rx \o x /\ rx \in Seq(Line)
    BY <1>2
  <2> HIDE DEF s, x, y
  <2>3. Joined(s, rx, x) /\ Joined(rx', rx, y)
    BY <2>1, <2>2, Joins, Zenon
  <2>4. y[1] = x[1]
    BY <2>1
  <2>5. Len(x) = 1 /\ Len(y) = 2 /\ x[1] = a /\ y[2] = OK
    BY <2>1
  <2>6. /\ Front(rx, s) /\ Front(s, rx') /\ Len(s) = Len(rx) + 1 /\ Len(rx') = Len(rx) + 2
        /\ s[Len(rx) + 1] = x[1] /\ rx'[Len(rx) + 1] = x[1] /\ rx'[Len(rx) + 2] = y[2]
        /\ \A i \in DOMAIN rx' : i > Len(rx) => i = Len(rx) + 1 \/ i = Len(rx) + 2
    BY <2>3, <2>4, <2>5, TwoMore
  <2> QED
    BY <2>5, <2>6, Zenon
<1> HIDE DEF s
<1>5. Extends(rx, espLink, s, espLink')
  <2>1. UpTo(rx, espLink, nconn)
    BY RxUpTo
  <2>2. espLink[q.link] = NoConn /\ espLink' = [espLink EXCEPT ![q.link] = nconn + 1]
    BY DEF EspConnects
  <2> QED
    BY <1>1, <1>3, <1>4, <2>1, <2>2, Connects
<1>6. Extends(s, espLink', rx', espLink')
  <2>1. UpTo(rx', espLink', nconn')
    BY RxUpToNext
  <2>2. \A k \in DOMAIN rx' : k > Len(s) => rx'[k] = OK
    BY <1>3 DEF Front
  <2>3. OK.ev \in Answers /\ ~StatusOK(OK)
    BY MsgFields
  <2>4. Order(s, espLink') /\ Reported(s, espLink')
    BY <1>5 DEF Extends
  <2> QED
    BY <1>3, <2>1, <2>2, <2>3, <2>4, Neutral
<1>7. Len(rx) \in Nat
  BY <1>3 DEF Front
<1> QED
  BY <1>1, <1>3, <1>4, <1>5, <1>6, <1>7, ExtendsTwice

LEMMA CloseExtends ==
    ASSUME Types, Types', Order(rx, espLink), Reported(rx, espLink), NEW q, GoodReq(q), EspCloses(q)
    PROVE  /\ Extends(rx, espLink, rx', espLink') /\ q.link \in Link
           /\ Len(rx) \in Nat /\ Len(rx') = Len(rx) + 2
           /\ Is(rx'[Len(rx) + 1], "CLOSED", q.link, espLink[q.link]) /\ rx'[Len(rx) + 2] = OK
           /\ \A i \in DOMAIN rx' : i > Len(rx) => i = Len(rx) + 1 \/ i = Len(rx) + 2
<1> DEFINE a == Msg("CLOSED", q.link, espLink[q.link])
           s == rx \o <<a>>
<1>1. q.link \in Link /\ nconn \in Nat /\ espLink[q.link] \in Conn /\ espLink[q.link] \in 1..nconn
  BY Nothing DEF GoodReq, LinkCalls, EspCloses, Types, EspTypes
<1>2. a \in Line /\ OK \in Line /\ rx \in Seq(Line) /\ rx' = rx \o <<a, OK>>
  <2>1. "CLOSED" \in Events
    BY DEF Events
  <2> QED
    BY <1>1, <2>1, GoodLines DEF EspCloses, Types, RxTypes
<1>4. Is(a, "CLOSED", q.link, espLink[q.link])
  BY DEF Is, Msg
<1> HIDE DEF a
<1>3. /\ Front(rx, s) /\ Front(s, rx') /\ Len(s) = Len(rx) + 1 /\ Len(rx') = Len(rx) + 2
      /\ s[Len(rx) + 1] = a /\ rx'[Len(rx) + 1] = a /\ rx'[Len(rx) + 2] = OK
      /\ \A i \in DOMAIN rx' : i > Len(rx) => i = Len(rx) + 1 \/ i = Len(rx) + 2
  <2> DEFINE x == <<a>>
             y == <<a, OK>>
  <2>1. x \in Seq(Line) /\ Len(x) = 1 /\ x[1] = a /\ y \in Seq(Line) /\ Len(y) = 2 /\ y[1] = a /\ y[2] = OK
    BY <1>2, PairFacts
  <2>2. rx' = rx \o y /\ s = rx \o x /\ rx \in Seq(Line)
    BY <1>2
  <2> HIDE DEF s, x, y
  <2>3. Joined(s, rx, x) /\ Joined(rx', rx, y)
    BY <2>1, <2>2, Joins, Zenon
  <2>4. y[1] = x[1]
    BY <2>1
  <2>5. Len(x) = 1 /\ Len(y) = 2 /\ x[1] = a /\ y[2] = OK
    BY <2>1
  <2>6. /\ Front(rx, s) /\ Front(s, rx') /\ Len(s) = Len(rx) + 1 /\ Len(rx') = Len(rx) + 2
        /\ s[Len(rx) + 1] = x[1] /\ rx'[Len(rx) + 1] = x[1] /\ rx'[Len(rx) + 2] = y[2]
        /\ \A i \in DOMAIN rx' : i > Len(rx) => i = Len(rx) + 1 \/ i = Len(rx) + 2
    BY <2>3, <2>4, <2>5, TwoMore
  <2> QED
    BY <2>5, <2>6, Zenon
<1> HIDE DEF s
<1>5. Extends(rx, espLink, s, espLink')
  <2>1. UpTo(rx, espLink, nconn)
    BY RxUpTo
  <2>2. espLink[q.link] # NoConn /\ espLink' = [espLink EXCEPT ![q.link] = NoConn]
    BY DEF EspCloses
  <2> QED
    BY <1>1, <1>3, <1>4, <2>1, <2>2, Closes
<1>6. Extends(s, espLink', rx', espLink')
  <2>1. UpTo(rx', espLink', nconn')
    BY RxUpToNext
  <2>2. \A k \in DOMAIN rx' : k > Len(s) => rx'[k] = OK
    BY <1>3 DEF Front
  <2>3. OK.ev \in Answers /\ ~StatusOK(OK)
    BY MsgFields
  <2>4. Order(s, espLink') /\ Reported(s, espLink')
    BY <1>5 DEF Extends
  <2> QED
    BY <1>3, <2>1, <2>2, <2>3, <2>4, Neutral
<1>7. Len(rx) \in Nat
  BY <1>3 DEF Front
<1> QED
  BY <1>1, <1>3, <1>4, <1>5, <1>6, <1>7, ExtendsTwice

\* An answer, or data of an open link, alone.
LEMMA OneExtends ==
    ASSUME Types, Types', Order(rx, espLink), Reported(rx, espLink), UNCHANGED espLink,
           NEW m \in Line, rx' = rx \o <<m>>, ~StatusOK(m),
           m.ev \in Answers \/ (m.ev = "IPD" /\ m.conn = espLink[m.link])
    PROVE  /\ Extends(rx, espLink, rx', espLink') /\ Len(rx) \in Nat /\ Len(rx') = Len(rx) + 1
           /\ rx'[Len(rx) + 1] = m /\ \A i \in DOMAIN rx' : i > Len(rx) => i = Len(rx) + 1
<1>1. rx \in Seq(Line)
  BY DEF Types, RxTypes
<1>2. /\ Front(rx, rx') /\ Len(rx') = Len(rx) + 1 /\ rx'[Len(rx) + 1] = m
      /\ \A i \in DOMAIN rx' : i > Len(rx) => i = Len(rx) + 1
  BY <1>1, OneMore
<1>3. UpTo(rx', espLink', nconn')
  BY RxUpToNext
<1>4. \A k \in DOMAIN rx' : k > Len(rx) => rx'[k] = m
  BY <1>2
<1>5. Extends(rx, espLink, rx', espLink)
  BY <1>2, <1>3, <1>4, Neutral
<1> QED
  BY <1>2, <1>5 DEF Front

LEMMA ReportExtends ==
    ASSUME Types, Types', Order(rx, espLink), Reported(rx, espLink), NEW q, GoodReq(q), EspReports(q)
    PROVE  /\ Extends(rx, espLink, rx', espLink') /\ Len(rx) \in Nat /\ Len(rx') \in Nat /\ Len(rx') > Len(rx)
           /\ \A i \in DOMAIN rx' : i > Len(rx) /\ i < Len(rx') => rx'[i].ev = "STATUS"
           /\ StatusOK(rx'[Len(rx')]) /\ ~OwnAnswer(rx'[Len(rx')])
           /\ \A l \in Link : espLink[l] # NoConn =>
                  \E j \in DOMAIN rx' : Len(rx) < j /\ j < Len(rx') /\ Is(rx'[j], "STATUS", l, espLink[l])
<1>1. PICK s \in StatusLines : rx' = rx \o s \o <<Msg("OK", q.link, NoConn)>>
  BY DEF EspReports
<1> DEFINE m == Msg("OK", q.link, NoConn)
<1>2. q.link \in Link /\ UNCHANGED espLink /\ rx \in Seq(Line)
  BY DEF EspReports, GoodReq, Types, RxTypes
<1>3. m \in Line /\ StatusOK(m) /\ ~OwnAnswer(m) /\ m.ev \in Answers
  <2>1. 0 \in Nat
    OBVIOUS
  <2> QED
    BY <1>2, <2>1, GoodLines, MsgFields
<1>4. /\ s \in Seq(Line)
      /\ \A i \in DOMAIN s : s[i].ev = "STATUS" /\ s[i].conn = espLink[s[i].link]
      /\ \A l \in Link : espLink[l] # NoConn => \E i \in DOMAIN s : Is(s[i], "STATUS", l, espLink[l])
  BY StatusFacts
<1> HIDE DEF m
<1>5. rx' = rx \o s \o <<m>>
  BY <1>1 DEF m
<1>6. /\ Front(rx, rx') /\ Len(rx') = Len(rx) + Len(s) + 1 /\ Len(rx) \in Nat /\ Len(s) \in Nat
      /\ DOMAIN s = 1..Len(s)
      /\ \A j \in 1..Len(s) : rx'[Len(rx) + j] = s[j] /\ Len(rx) + j \in DOMAIN rx'
      /\ rx'[Len(rx) + Len(s) + 1] = m
      /\ \A i \in DOMAIN rx' : i > Len(rx) =>
             \/ i = Len(rx) + Len(s) + 1
             \/ i < Len(rx) + Len(s) + 1 /\ \E j \in 1..Len(s) : i = Len(rx) + j /\ rx'[i] = s[j]
  <2>1. rx \o s \in Seq(Line) /\ Joined(rx \o s, rx, s)
    BY <1>2, <1>4, Joins, Zenon
  <2>2. <<m>> \in Seq(Line) /\ Len(<<m>>) = 1 /\ <<m>>[1] = m
    BY <1>3, OneLine, Zenon
  <2>3. Joined(rx', rx \o s, <<m>>)
    BY <1>5, <2>1, <2>2, Joins, Zenon
  <2> QED
    BY <2>1, <2>2, <2>3, ManyMore
<1>7. /\ Len(rx') \in Nat /\ Len(rx') > Len(rx) /\ rx'[Len(rx')] = m
      /\ \A i \in DOMAIN rx' : i > Len(rx) =>
             \/ i = Len(rx') /\ rx'[i] = m
             \/ i < Len(rx') /\ rx'[i].ev = "STATUS" /\ rx'[i].conn = espLink[rx'[i].link]
  <2>1. Len(rx') \in Nat /\ Len(rx') > Len(rx) /\ rx'[Len(rx')] = m /\ Len(rx') = Len(rx) + Len(s) + 1
    BY <1>6
  <2>2. \A j \in 1..Len(s) : s[j].ev = "STATUS" /\ s[j].conn = espLink[s[j].link]
    BY <1>4, <1>6
  <2>3. ASSUME NEW i \in DOMAIN rx', i > Len(rx)
        PROVE  \/ i = Len(rx')
               \/ i < Len(rx') /\ \E j \in 1..Len(s) : rx'[i] = s[j]
    BY <1>6, <2>1, <2>3, Zenon
  <2> QED
    BY <2>1, <2>2, <2>3, Zenon
<1>8. \A l \in Link : espLink[l] # NoConn =>
          \E j \in DOMAIN rx' : Len(rx) < j /\ j < Len(rx') /\ Is(rx'[j], "STATUS", l, espLink[l])
  <2> SUFFICES ASSUME NEW l \in Link, espLink[l] # NoConn
               PROVE  \E j \in DOMAIN rx' : Len(rx) < j /\ j < Len(rx') /\ Is(rx'[j], "STATUS", l, espLink[l])
    OBVIOUS
  <2>1. PICK i \in DOMAIN s : Is(s[i], "STATUS", l, espLink[l])
    BY <1>4
  <2>2. i \in 1..Len(s) /\ Len(rx) < Len(rx) + i /\ Len(rx) + i < Len(rx')
    BY <1>6
  <2> QED
    BY <1>6, <2>1, <2>2
<1>9. Extends(rx, espLink, rx', espLink)
  <2>1. UpTo(rx', espLink, nconn')
    BY <1>2, RxUpToNext
  <2>2. \A k \in DOMAIN rx' : k > Len(rx) =>
            \/ rx'[k].ev \in Answers
            \/ rx'[k].ev \in {"IPD", "STATUS"} /\ rx'[k].conn = espLink[rx'[k].link]
    BY <1>3, <1>7
  <2>3. \A k \in DOMAIN rx' : k > Len(rx) /\ StatusOK(rx'[k]) => k = Len(rx')
    BY <1>7 DEF StatusOK
  <2>4. \A k \in DOMAIN rx' : k > Len(rx) /\ StatusOK(rx'[k]) =>
            \A l \in Link : espLink[l] # NoConn =>
                \E j \in DOMAIN rx' : Len(rx) < j /\ j < k /\ Is(rx'[j], "STATUS", l, espLink[l])
    BY <1>8, <2>3
  <2> QED
    BY <1>6, <2>1, <2>2, <2>4, Neutral
<1> QED
  BY <1>2, <1>3, <1>6, <1>7, <1>8, <1>9

LEMMA NetworkExtends ==
    ASSUME Types, Types', Order(rx, espLink), Reported(rx, espLink),
           NEW o \in Link, RemoteConnect(o) \/ RemoteClose(o) \/ RemoteData(o)
    PROVE  /\ Extends(rx, espLink, rx', espLink') /\ Len(rx) \in Nat /\ Len(rx') = Len(rx) + 1
           /\ rx'[Len(rx) + 1].ev \in Events /\ \A i \in DOMAIN rx' : i > Len(rx) => i = Len(rx) + 1
<1>1. rx \in Seq(Line) /\ UpTo(rx, espLink, nconn) /\ nconn \in Nat
  BY RxUpTo DEF Types, RxTypes, UpTo
<1>2. ASSUME NEW m \in Line, rx' = Append(rx, m)
      PROVE  /\ rx' = rx \o <<m>> /\ Front(rx, rx') /\ Len(rx') = Len(rx) + 1 /\ rx'[Len(rx) + 1] = m
             /\ Len(rx) \in Nat /\ \A i \in DOMAIN rx' : i > Len(rx) => i = Len(rx) + 1
  <2>1. rx' = rx \o <<m>>
    BY <1>1, <1>2, AppendIsConcat
  <2>2. /\ Front(rx, rx') /\ Len(rx') = Len(rx) + 1 /\ rx'[Len(rx) + 1] = m
        /\ \A i \in DOMAIN rx' : i > Len(rx) => i = Len(rx) + 1
    BY <1>1, <2>1, OneMore
  <2> QED
    BY <2>1, <2>2 DEF Front
<1>3. CASE RemoteConnect(o)
  <2> DEFINE m == Msg("CONNECT", o, nconn + 1)
  <2>1. m \in Line /\ m.ev \in Events /\ Is(m, "CONNECT", o, nconn + 1)
    <3>1. nconn + 1 \in Nat /\ nconn + 1 \in Conn /\ nconn + 1 \in 1..(nconn + 1) /\ "CONNECT" \in Events
      BY <1>1, <1>3, Nothing DEF Events, RemoteConnect, Open, Types, EspTypes
    <3>2. m \in Line /\ m.ev = "CONNECT"
      BY <3>1, GoodLines DEF Msg
    <3> QED
      BY <3>1, <3>2 DEF Is, Msg
  <2>2. /\ rx' = Append(rx, m) /\ espLink[o] = NoConn /\ espLink' = [espLink EXCEPT ![o] = nconn + 1]
    BY <1>3 DEF RemoteConnect, Open
  <2> HIDE DEF m
  <2> QED
    BY <1>1, <1>2, <2>1, <2>2, Connects
<1>4. CASE RemoteClose(o) \/ RemoteData(o)
  <2>1. espLink[o] \in Conn /\ espLink[o] \in 1..nconn /\ espLink[o] # NoConn
    BY <1>1, <1>4, Nothing DEF RemoteClose, RemoteData, UpTo, Types, EspTypes
  <2> DEFINE a == Msg("CLOSED", o, espLink[o])
             b == Msg("IPD", o, espLink[o])
  <2>2. a \in Line /\ b \in Line /\ a.ev \in Events /\ b.ev = "IPD" /\ b.ev \in Events
        /\ Is(a, "CLOSED", o, espLink[o]) /\ b.conn = espLink[b.link] /\ ~StatusOK(b)
    <3>1. "CLOSED" \in Events /\ "IPD" \in Events
      BY DEF Events
    <3>2. a \in Line /\ b \in Line
      BY <1>1, <2>1, <3>1, GoodLines
    <3>3. a.ev = "CLOSED" /\ b.ev = "IPD" /\ b.conn = espLink[o] /\ b.link = o
      BY DEF Msg
    <3>4. Is(a, "CLOSED", o, espLink[o])
      BY DEF Is, Msg
    <3> QED
      BY <3>1, <3>2, <3>3, <3>4 DEF StatusOK
  <2>3. \/ rx' = Append(rx, a) /\ espLink' = [espLink EXCEPT ![o] = NoConn]
        \/ rx' = Append(rx, b) /\ UNCHANGED espLink
    BY <1>4 DEF RemoteClose, RemoteData, espVars
  <2> HIDE DEF a, b
  <2>4. CASE rx' = Append(rx, a) /\ espLink' = [espLink EXCEPT ![o] = NoConn]
    BY <1>1, <1>2, <2>1, <2>2, <2>4, Closes
  <2>5. CASE rx' = Append(rx, b) /\ UNCHANGED espLink
    BY <1>2, <2>2, <2>5, OneExtends
  <2> QED
    BY <2>3, <2>4, <2>5
<1> QED
  BY <1>3, <1>4

-----------------------------------------------------------------------------
(* Counting answers and requests under way *)

\* T has no more members than S, and some if S has.
NoMore(S, T) ==
    /\ AtMostOne(S) => AtMostOne(T)
    /\ AtMostTwo(S) => AtMostTwo(T)
    /\ T = {} <=> S = {}

\* Each member of T is one of S that has moved by d, if it was behind n.
LEMMA Moved ==
    ASSUME NEW S \in SUBSET Int, NEW T \in SUBSET Int, NEW n \in Int, NEW d \in Nat,
           \A i \in T : (i <= n /\ i \in S) \/ (i > n + d /\ i - d \in S),
           \A i \in S : i \in T \/ i + d \in T
    PROVE  NoMore(S, T)
<1> DEFINE f(i) == IF i <= n THEN i ELSE i - d
<1>1. \A i \in T : f(i) \in S
  BY Z3
<1>2. \A i, j \in T : f(i) = f(j) => i = j
  <2> SUFFICES ASSUME NEW i \in T, NEW j \in T, f(i) = f(j) PROVE i = j
    OBVIOUS
  <2>1. i \in Int /\ j \in Int /\ (i <= n \/ i - d > n) /\ (j <= n \/ j - d > n)
    OBVIOUS
  <2> QED
    BY <2>1
<1>3. T = {} <=> S = {}
  BY <1>1
<1> HIDE DEF f
<1>4. AtMostOne(S) => AtMostOne(T)
  BY <1>1, <1>2 DEF AtMostOne
<1>5. AtMostTwo(S) => AtMostTwo(T)
  BY <1>1, <1>2 DEF AtMostTwo
<1> QED
  BY <1>3, <1>4, <1>5 DEF NoMore

LEMMA ItemsAt ==
    ASSUME NEW r, NEW q, NEW k, NEW S, S = Items(r, q, k), Len(r) \in Nat, Len(q) \in Nat
    PROVE  /\ \A i \in 1..Len(r) : i \in S <=> LineKind(r[i]) = k
           /\ \A i \in 1..Len(q) : Len(r) + i \in S <=> ReqKind(q[i]) = k
<1>1. \A i \in 1..Len(r) : i \in S <=> LineKind(r[i]) = k
  <2>1. \A i \in 1..Len(r) : i \in 1..(Len(r) + Len(q)) /\ i <= Len(r)
    OBVIOUS
  <2> QED
    BY <2>1 DEF Items
<1>2. \A i \in 1..Len(q) : Len(r) + i \in S <=> ReqKind(q[i]) = k
  <2>1. \A i \in 1..Len(q) : /\ Len(r) + i \in 1..(Len(r) + Len(q)) /\ ~(Len(r) + i <= Len(r))
                             /\ (Len(r) + i) - Len(r) = i
    OBVIOUS
  <2> QED
    BY <2>1 DEF Items
<1> QED
  BY <1>1, <1>2

LEMMA ItemsRange ==
    ASSUME NEW r, NEW q, NEW k, Len(r) \in Nat, Len(q) \in Nat
    PROVE  /\ Items(r, q, k) \subseteq 1..(Len(r) + Len(q)) /\ Items(r, q, k) \in SUBSET Int
           /\ \A i \in 1..Len(r) : i \in Items(r, q, k) <=> LineKind(r[i]) = k
           /\ \A i \in 1..Len(q) : Len(r) + i \in Items(r, q, k) <=> ReqKind(q[i]) = k
           /\ \A i \in Items(r, q, k) :
                  \/ i \in 1..Len(r) /\ LineKind(r[i]) = k
                  \/ i > Len(r) /\ i - Len(r) \in 1..Len(q) /\ ReqKind(q[i - Len(r)]) = k
<1>1. Items(r, q, k) \subseteq 1..(Len(r) + Len(q))
  BY DEF Items
<1>2. \A i \in 1..Len(r) : i \in Items(r, q, k) <=> LineKind(r[i]) = k
  <2>1. \A i \in 1..Len(r) : i \in 1..(Len(r) + Len(q)) /\ i <= Len(r)
    OBVIOUS
  <2> QED
    BY <2>1 DEF Items
<1>3. \A i \in 1..Len(q) : Len(r) + i \in Items(r, q, k) <=> ReqKind(q[i]) = k
  <2>1. \A i \in 1..Len(q) : Len(r) + i \in 1..(Len(r) + Len(q)) /\ ~(Len(r) + i <= Len(r)) /\ (Len(r) + i) - Len(r) = i
    OBVIOUS
  <2> QED
    BY <2>1 DEF Items
<1>4. ASSUME NEW i \in Items(r, q, k)
      PROVE  \/ i \in 1..Len(r) /\ LineKind(r[i]) = k
             \/ i > Len(r) /\ i - Len(r) \in 1..Len(q) /\ ReqKind(q[i - Len(r)]) = k
  <2>1. i \in 1..(Len(r) + Len(q))
    BY <1>1
  <2>2. CASE i <= Len(r)
    <3>1. i \in 1..Len(r)
      BY <2>1, <2>2
    <3> QED
      BY <1>2, <3>1
  <2>3. CASE i > Len(r)
    <3>1. i - Len(r) \in 1..Len(q) /\ Len(r) + (i - Len(r)) = i
      BY <2>1, <2>3
    <3> QED
      BY <1>3, <2>3, <3>1
  <2> QED
    BY <2>1, <2>2, <2>3
<1>5. Items(r, q, k) \in SUBSET Int
  BY <1>1
<1> QED
  BY <1>1, <1>2, <1>3, <1>4, <1>5

\* The first line goes.
LEMMA ItemsRest ==
    ASSUME NEW r, NEW t, NEW q, NEW k, Rest(r, t), Len(q) \in Nat
    PROVE  /\ LineKind(r[1]) # k => NoMore(Items(r, q, k), Items(t, q, k))
           /\ LineKind(r[1]) = k => /\ AtMostOne(Items(r, q, k)) => Items(t, q, k) = {}
                                    /\ AtMostTwo(Items(r, q, k)) => AtMostOne(Items(t, q, k))
                                    /\ Items(r, q, k) # {}
<1> DEFINE S == Items(r, q, k)
           T == Items(t, q, k)
<1>1. /\ Len(t) \in Nat /\ Len(r) = Len(t) + 1 /\ Len(r) \in Nat
      /\ \A i \in 1..Len(t) : t[i] = r[i + 1] /\ i + 1 \in 1..Len(r)
  BY DEF Rest
<1>2. ASSUME NEW i \in T PROVE i + 1 \in S /\ i \in Int /\ i >= 1
  <2>1. CASE i \in 1..Len(t) /\ LineKind(t[i]) = k
    <3>1. i + 1 \in 1..Len(r) /\ LineKind(r[i + 1]) = k /\ i \in Int /\ i >= 1
      BY <1>1, <2>1
    <3>2. \A j \in 1..Len(r) : j \in S <=> LineKind(r[j]) = k
      BY <1>1, ItemsAt
    <3> QED
      BY <3>1, <3>2, Zenon
  <2>2. CASE i > Len(t) /\ i - Len(t) \in 1..Len(q) /\ ReqKind(q[i - Len(t)]) = k
    <3>1. Len(r) + (i - Len(t)) \in S
      BY <1>1, <2>2, ItemsRange
    <3>2. i \in Int
      BY <1>1, ItemsRange
    <3> QED
      BY <1>1, <2>2, <3>1, <3>2
  <2>3. \/ i \in 1..Len(t) /\ LineKind(t[i]) = k
        \/ i > Len(t) /\ i - Len(t) \in 1..Len(q) /\ ReqKind(q[i - Len(t)]) = k
    BY <1>1, ItemsRange
  <2>4. i \in 1..(Len(t) + Len(q))
    BY <1>1, ItemsRange
  <2>5. i \in Int /\ i >= 1
    BY <1>1, <2>4
  <2> QED
    BY <2>1, <2>2, <2>3, <2>5, Zenon
<1>3. ASSUME NEW i \in S, i # 1 PROVE i - 1 \in T
  <2>1. CASE i \in 1..Len(r) /\ LineKind(r[i]) = k
    <3>1. i - 1 \in 1..Len(t) /\ (i - 1) + 1 = i
      BY <1>1, <1>3, <2>1
    <3> QED
      BY <1>1, <2>1, <3>1, ItemsRange
  <2>2. CASE i > Len(r) /\ i - Len(r) \in 1..Len(q) /\ ReqKind(q[i - Len(r)]) = k
    <3>1. Len(t) + (i - Len(r)) \in T
      BY <1>1, <2>2, ItemsRange
    <3>2. i \in Int
      BY <1>1, ItemsRange
    <3> QED
      BY <1>1, <3>1, <3>2
  <2> QED
    BY <1>1, <2>1, <2>2, ItemsRange
<1>4. 1 \in S <=> LineKind(r[1]) = k
  <2>1. 1 \in 1..Len(r)
    BY <1>1
  <2> QED
    BY <1>1, <2>1, ItemsRange
<1> HIDE DEF S, T
<1>5. \A i \in T : i + 1 \in S /\ i \in Int /\ i + 1 # 1
  BY <1>2
<1>6. \A i, j \in T : i + 1 = j + 1 => i = j
  BY <1>2
<1>7. AtMostOne(S) => AtMostOne(T)
  BY <1>5, <1>6 DEF AtMostOne
<1>8. AtMostTwo(S) => AtMostTwo(T)
  BY <1>5, <1>6 DEF AtMostTwo
<1>9. CASE LineKind(r[1]) # k
  BY <1>3, <1>4, <1>5, <1>7, <1>8, <1>9 DEF NoMore, S, T
<1>10. CASE LineKind(r[1]) = k
  <2>1. 1 \in S
    BY <1>4, <1>10
  <2>2. AtMostOne(S) => T = {}
    BY <1>5, <2>1 DEF AtMostOne
  <2>3. AtMostTwo(S) => AtMostOne(T)
    <3> SUFFICES ASSUME AtMostTwo(S), NEW i \in T, NEW j \in T PROVE i = j
      BY DEF AtMostOne
    <3>1. i + 1 \in S /\ j + 1 \in S /\ i + 1 # 1 /\ j + 1 # 1
      BY <1>5
    <3>2. i + 1 = j + 1
      BY <2>1, <3>1 DEF AtMostTwo
    <3> QED
      BY <1>6, <3>2
  <2> QED
    BY <1>10, <2>1, <2>2, <2>3 DEF S, T
<1> QED
  BY <1>9, <1>10

\* A request is written.
LEMMA ItemsReq ==
    ASSUME NEW r, NEW q, NEW p, NEW k, Len(r) \in Nat, Len(q) \in Nat, Len(p) = Len(q) + 1,
           \A i \in 1..Len(q) : p[i] = q[i]
    PROVE  /\ ReqKind(p[Len(p)]) # k => Items(r, p, k) = Items(r, q, k)
           /\ ReqKind(p[Len(p)]) = k => /\ Items(r, q, k) = {} => AtMostOne(Items(r, p, k))
                                        /\ AtMostOne(Items(r, q, k)) => AtMostTwo(Items(r, p, k))
                                        /\ Items(r, p, k) # {}
<1> DEFINE S == Items(r, q, k)
           T == Items(r, p, k)
           n == Len(r) + Len(q) + 1
<1>1. ASSUME NEW i \in S PROVE i \in T /\ i # n
  <2>1. CASE i \in 1..Len(r) /\ LineKind(r[i]) = k
    BY <2>1, ItemsRange
  <2>2. CASE i > Len(r) /\ i - Len(r) \in 1..Len(q) /\ ReqKind(q[i - Len(r)]) = k
    <3>1. i - Len(r) \in 1..Len(p) /\ ReqKind(p[i - Len(r)]) = k
      BY <2>2
    <3>2. Len(r) + (i - Len(r)) \in T
      BY <3>1, ItemsRange
    <3>3. i \in Int
      BY ItemsRange
    <3> QED
      BY <2>2, <3>2, <3>3
  <2> QED
    BY <2>1, <2>2, ItemsRange
<1>2. ASSUME NEW i \in T, i # n PROVE i \in S
  <2>1. CASE i \in 1..Len(r) /\ LineKind(r[i]) = k
    BY <2>1, ItemsRange
  <2>2. CASE i > Len(r) /\ i - Len(r) \in 1..Len(p) /\ ReqKind(p[i - Len(r)]) = k
    <3>1. i \in Int
      BY ItemsRange
    <3>2. i - Len(r) \in 1..Len(q)
      BY <1>2, <2>2, <3>1
    <3>3. Len(r) + (i - Len(r)) \in S
      BY <2>2, <3>2, ItemsRange
    <3> QED
      BY <3>1, <3>3
  <2>3. \/ i \in 1..Len(r) /\ LineKind(r[i]) = k
        \/ i > Len(r) /\ i - Len(r) \in 1..Len(p) /\ ReqKind(p[i - Len(r)]) = k
    BY ItemsRange
  <2> QED
    BY <2>1, <2>2, <2>3
<1>3. n \in T <=> ReqKind(p[Len(p)]) = k
  <2>1. Len(p) \in 1..Len(p) /\ n = Len(r) + Len(p) /\ Len(p) \in Nat
    OBVIOUS
  <2>2. \A i \in 1..Len(p) : Len(r) + i \in T <=> ReqKind(p[i]) = k
    BY ItemsRange
  <2>3. Len(r) + Len(p) \in T <=> ReqKind(p[Len(p)]) = k
    BY <2>1, <2>2, Zenon
  <2> QED
    BY <2>1, <2>3
<1> HIDE DEF S, T, n
<1>4. CASE ReqKind(p[Len(p)]) # k
  <2>1. T = S
    BY <1>1, <1>2, <1>3, <1>4
  <2> QED
    BY <1>4, <2>1 DEF S, T
<1>5. CASE ReqKind(p[Len(p)]) = k
  <2>1. n \in T
    BY <1>3, <1>5
  <2>2. S = {} => AtMostOne(T)
    BY <1>2 DEF AtMostOne
  <2>3. AtMostOne(S) => AtMostTwo(T)
    BY <1>2 DEF AtMostOne, AtMostTwo
  <2> QED
    BY <1>5, <2>1, <2>2, <2>3 DEF S, T
<1> QED
  BY <1>4, <1>5

\* Lines come that answer nothing.
LEMMA ItemsEvents ==
    ASSUME NEW r, NEW s, NEW q, NEW k, Front(r, s), Len(q) \in Nat,
           \A i \in DOMAIN s : i > Len(r) => LineKind(s[i]) # k
    PROVE  NoMore(Items(r, q, k), Items(s, q, k))
<1> DEFINE S == Items(r, q, k)
           T == Items(s, q, k)
           d == Len(s) - Len(r)
<1>1. Len(r) \in Nat /\ Len(s) \in Nat /\ d \in Nat /\ DOMAIN s = 1..Len(s)
      /\ \A i \in 1..Len(r) : s[i] = r[i] /\ i \in 1..Len(s)
  BY DEF Front
<1>2. ASSUME NEW i \in T PROVE (i <= Len(r) /\ i \in S) \/ (i > Len(r) + d /\ i - d \in S)
  <2>1. CASE i \in 1..Len(s) /\ LineKind(s[i]) = k
    <3>1. i \in 1..Len(r)
      BY <1>1, <2>1
    <3> QED
      BY <1>1, <2>1, <3>1, ItemsRange
  <2>2. CASE i > Len(s) /\ i - Len(s) \in 1..Len(q) /\ ReqKind(q[i - Len(s)]) = k
    <3>1. Len(r) + (i - Len(s)) \in S /\ i \in Int
      BY <1>1, <2>2, ItemsRange
    <3> QED
      BY <1>1, <2>2, <3>1
  <2> QED
    BY <1>1, <2>1, <2>2, ItemsRange
<1>3. ASSUME NEW i \in S PROVE i \in T \/ i + d \in T
  <2>1. CASE i \in 1..Len(r) /\ LineKind(r[i]) = k
    BY <1>1, <2>1, ItemsRange
  <2>2. CASE i > Len(r) /\ i - Len(r) \in 1..Len(q) /\ ReqKind(q[i - Len(r)]) = k
    <3>1. Len(s) + (i - Len(r)) \in T /\ i \in Int
      BY <1>1, <2>2, ItemsRange
    <3> QED
      BY <1>1, <3>1
  <2> QED
    BY <1>1, <2>1, <2>2, ItemsRange
<1>4. S \in SUBSET Int /\ T \in SUBSET Int /\ Len(r) \in Int
  BY <1>1, ItemsRange
<1> HIDE DEF S, T, d
<1>5. NoMore(S, T)
  BY <1>1, <1>2, <1>3, <1>4, Moved
<1> QED
  BY <1>5 DEF S, T

LEMMA Outside ==
    ASSUME NEW a, NEW b, a \in Nat, b \in Nat, NEW i \in 1..b, ~(i > a /\ i < b)
    PROVE  i \in 1..a \/ i = b
OBVIOUS

\* The first request is answered by the last of the lines that come.
LEMMA ItemsAnswer ==
    ASSUME NEW r, NEW s, NEW q, NEW p, NEW k, Front(r, s), Rest(q, p), Len(s) > Len(r),
           \A i \in DOMAIN s : i > Len(r) /\ i < Len(s) => LineKind(s[i]) # k,
           LineKind(s[Len(s)]) = k <=> ReqKind(q[1]) = k
    PROVE  NoMore(Items(r, q, k), Items(s, p, k))
<1> DEFINE S == Items(r, q, k)
           T == Items(s, p, k)
           d == Len(s) - Len(r) - 1
<1>1. /\ Len(r) \in Nat /\ Len(s) \in Nat /\ d \in Nat /\ DOMAIN s = 1..Len(s)
      /\ \A i \in 1..Len(r) : s[i] = r[i] /\ i \in 1..Len(s)
      /\ Len(p) \in Nat /\ Len(q) = Len(p) + 1 /\ Len(q) \in Nat
      /\ \A i \in 1..Len(p) : p[i] = q[i + 1] /\ i + 1 \in 1..Len(q)
      /\ Len(s) \in 1..Len(s) /\ 1 \in 1..Len(q)
  BY DEF Front, Rest
<1>0. /\ \A j \in 1..Len(r) : j \in S <=> LineKind(r[j]) = k
      /\ \A j \in 1..Len(q) : Len(r) + j \in S <=> ReqKind(q[j]) = k
  BY <1>1, ItemsAt
<1>2. ASSUME NEW i \in T PROVE (i <= Len(r) /\ i \in S) \/ (i > Len(r) + d /\ i - d \in S)
  <2>1. CASE i \in 1..Len(s) /\ LineKind(s[i]) = k
    <3>0. (\A j \in 1..Len(r) : j \in S <=> LineKind(r[j]) = k) /\ (Len(r) + 1 \in S <=> ReqKind(q[1]) = k)
      BY <1>0, <1>1
    <3>1. CASE i \in 1..Len(r)
      <4>1. LineKind(r[i]) = k /\ i <= Len(r)
        BY <1>1, <2>1, <3>1
      <4> HIDE DEF S
      <4> QED
        BY <3>0, <3>1, <4>1
    <3>2. CASE i = Len(s)
      <4>1. Len(r) + 1 \in S
        BY <2>1, <3>0, <3>2
      <4>2. i - d = Len(r) + 1 /\ i > Len(r) + d
        BY <1>1, <3>2
      <4> QED
        BY <4>1, <4>2
    <3>3. i \in 1..Len(r) \/ i = Len(s)
      <4>1. ~(i > Len(r) /\ i < Len(s))
        BY <1>1, <2>1
      <4> QED
        BY <1>1, <2>1, <4>1, Outside, Zenon
    <3> QED
      BY <3>1, <3>2, <3>3, Zenon
  <2>2. CASE i > Len(s) /\ i - Len(s) \in 1..Len(p) /\ ReqKind(p[i - Len(s)]) = k
    <3>1. (i - Len(s)) + 1 \in 1..Len(q) /\ ReqKind(q[(i - Len(s)) + 1]) = k /\ i \in Int
      BY <1>1, <2>2, ItemsRange
    <3>2. Len(r) + ((i - Len(s)) + 1) \in S
      <4> HIDE DEF S
      <4> QED
        BY <1>0, <3>1
    <3>3. i - d = Len(r) + ((i - Len(s)) + 1) /\ i > Len(r) + d
      BY <1>1, <2>2, <3>1
    <3> QED
      BY <3>2, <3>3
  <2>3. \/ i \in 1..Len(s) /\ LineKind(s[i]) = k
        \/ i > Len(s) /\ i - Len(s) \in 1..Len(p) /\ ReqKind(p[i - Len(s)]) = k
    BY <1>1, ItemsRange
  <2> QED
    BY <2>1, <2>2, <2>3
<1>3. ASSUME NEW i \in S PROVE i \in T \/ i + d \in T
  <2>1. CASE i \in 1..Len(r) /\ LineKind(r[i]) = k
    BY <1>1, <2>1, ItemsRange
  <2>2. CASE i > Len(r) /\ i - Len(r) \in 1..Len(q) /\ ReqKind(q[i - Len(r)]) = k
    <3>1. i \in Int
      BY <1>1, ItemsRange
    <3>2. CASE i - Len(r) = 1
      <4>1. Len(s) \in T
        BY <1>1, <2>2, <3>2, ItemsRange
      <4>2. i + d = Len(s)
        BY <1>1, <3>1, <3>2
      <4> QED
        BY <4>1, <4>2
    <3>3. CASE i - Len(r) # 1
      <4>1. i - Len(r) - 1 \in 1..Len(p) /\ (i - Len(r) - 1) + 1 = i - Len(r)
        BY <1>1, <2>2, <3>1, <3>3
      <4>2. ReqKind(p[i - Len(r) - 1]) = k
        BY <1>1, <2>2, <4>1
      <4>3. Len(s) + (i - Len(r) - 1) \in T
        BY <1>1, <4>1, <4>2, ItemsRange
      <4>4. i + d = Len(s) + (i - Len(r) - 1)
        BY <1>1, <3>1
      <4> QED
        BY <4>3, <4>4
    <3> QED
      BY <3>2, <3>3
  <2>3. \/ i \in 1..Len(r) /\ LineKind(r[i]) = k
        \/ i > Len(r) /\ i - Len(r) \in 1..Len(q) /\ ReqKind(q[i - Len(r)]) = k
    BY <1>1, ItemsRange
  <2> QED
    BY <2>1, <2>2, <2>3
<1>4. S \in SUBSET Int /\ T \in SUBSET Int /\ Len(r) \in Int
  BY <1>1, ItemsRange
<1> HIDE DEF S, T, d
<1>5. NoMore(S, T)
  BY <1>1, <1>2, <1>3, <1>4, Moved
<1> QED
  BY <1>5 DEF S, T

-----------------------------------------------------------------------------
(* Waits *)

LEMMA InitWaits == Init => Waits
<1> SUFFICES ASSUME Init PROVE Waits
  OBVIOUS
<1>1. rx = <<>> /\ toEsp = <<>> /\ call.res = "none"
  BY DEF Init, Idle
<1>2. OwnItems = {} /\ StatusItems = {}
  BY <1>1 DEF OwnItems, StatusItems, Items
<1> QED
  BY <1>1, <1>2 DEF Waits, OwnWaits, StatusWaits, AtMostOne, AtMostTwo, Swapped

LEMMA Kinds ==
    /\ \A m : LineKind(m) \in {"own", "status", "event"}
    /\ \A m : (LineKind(m) = "own" <=> OwnAnswer(m)) /\ (LineKind(m) = "status" <=> StatusOK(m))
    /\ \A q : ReqKind(q) = (IF q.req = "status" THEN "status" ELSE "own")
  BY DEF LineKind, OwnAnswer, StatusOK, ReqKind

LEMMA Lengths ==
    ASSUME Types
    PROVE  /\ rx \in Seq(Line) /\ toEsp \in Seq(Req) /\ Len(rx) \in Nat /\ Len(toEsp) \in Nat
           /\ DOMAIN rx = 1..Len(rx) /\ DOMAIN toEsp = 1..Len(toEsp)
           /\ Line # {} /\ NoLink \notin Link
<1>1. rx \in Seq(Line) /\ toEsp \in Seq(Req)
  BY DEF Types, RxTypes, ReqTypes
<1>2. OK \in Line
  BY DEF OK, Msg, Line, Answers
<1> QED
  BY <1>1, <1>2, Nothing

\* While nothing is under way for the call, no request and no answer is its own.
LEMMA NoOwn ==
    ASSUME Types, OwnItems = {}
    PROVE  /\ \A i \in DOMAIN rx : ~OwnAnswer(rx[i])
           /\ \A i \in DOMAIN toEsp : toEsp[i].req = "status"
<1>1. \A i \in 1..Len(rx) : i \in OwnItems <=> LineKind(rx[i]) = "own"
  BY Lengths, ItemsRange DEF OwnItems
<1>2. \A i \in 1..Len(toEsp) : Len(rx) + i \in OwnItems <=> ReqKind(toEsp[i]) = "own"
  BY Lengths, ItemsRange DEF OwnItems
<1>3. \A i \in 1..Len(toEsp) : ReqKind(toEsp[i]) # "own"
  BY <1>2
<1> QED
  BY <1>1, <1>3, Kinds, Lengths

LEMMA NoOwnNext ==
    ASSUME Types', OwnItems' = {}
    PROVE  /\ \A i \in DOMAIN rx' : ~OwnAnswer(rx'[i])
           /\ \A i \in DOMAIN toEsp' : toEsp'[i].req = "status"
<1>1. /\ rx' \in Seq(Line) /\ toEsp' \in Seq(Req) /\ Len(rx') \in Nat /\ Len(toEsp') \in Nat
      /\ DOMAIN rx' = 1..Len(rx') /\ DOMAIN toEsp' = 1..Len(toEsp')
  BY DEF Types, RxTypes, ReqTypes
<1>2. \A i \in 1..Len(rx') : i \in OwnItems' <=> LineKind(rx'[i]) = "own"
  BY <1>1, ItemsRange DEF OwnItems
<1>3. \A i \in 1..Len(toEsp') : Len(rx') + i \in OwnItems' <=> ReqKind(toEsp'[i]) = "own"
  BY <1>1, ItemsRange DEF OwnItems
<1>4. \A i \in 1..Len(toEsp') : ReqKind(toEsp'[i]) # "own"
  BY <1>3
<1> QED
  BY <1>1, <1>2, <1>4, Kinds

\* The call has no command under way, before and after.
LEMMA CallWaits ==
    ASSUME Types, Waits, UNCHANGED <<rx, toEsp, rd>>, call.res # "wait", call'.res # "wait"
    PROVE  Waits'
<1>1. OwnItems = {} /\ OwnItems' = {} /\ StatusItems' = StatusItems /\ ~Swapped /\ ~Swapped'
  BY DEF Waits, OwnWaits, OwnItems, StatusItems, Swapped
<1>2. OwnWaits'
  BY <1>1, NoOwn DEF OwnWaits, AtMostOne
<1>3. StatusWaits'
  BY <1>1 DEF Waits, StatusWaits
<1> QED
  BY <1>2, <1>3 DEF Waits

\* A step that concerns neither commands nor answers nor the call.
LEMMA SameWaits ==
    ASSUME Types, Waits, UNCHANGED <<rx, toEsp, rd, call>>, Made' <=> Made,
           call.op = "connect" => peer'[call.sock] = peer[call.sock]
    PROVE  Waits'
<1>1. OwnItems' = OwnItems /\ StatusItems' = StatusItems /\ (Swapped' <=> Swapped) /\ Expected' = Expected
  BY DEF OwnItems, StatusItems, Swapped, Expected
<1> QED
  BY <1>1 DEF Waits, OwnWaits, StatusWaits

\* A call writes its command.
LEMMA RequestWaits ==
    ASSUME Types, Types', Waits, call.res # "wait", NEW op \in Calls, NEW s, NEW l, Request(op, s, l),
           UNCHANGED <<rx, rd, peer>>, op = "connect" => peer[s] = NoConn
    PROVE  Waits'
<1> DEFINE q == [req |-> op, link |-> l]
<1>1. /\ call' = [op |-> op, sock |-> s, link |-> l, res |-> "wait"] /\ toEsp' = Append(toEsp, q)
      /\ op # "status"
  BY DEF Request, Calls
<1>2. /\ Len(toEsp') = Len(toEsp) + 1 /\ toEsp'[Len(toEsp')] = q /\ DOMAIN toEsp' = 1..Len(toEsp')
      /\ \A i \in 1..Len(toEsp) : toEsp'[i] = toEsp[i]
  <2>1. q \in Req \/ q \notin Req
    OBVIOUS
  <2> HIDE DEF q
  <2> QED
    BY <1>1, Lengths
<1>3. q.req = op /\ q.link = l /\ ReqKind(q) = "own"
  BY <1>1 DEF ReqKind
<1> HIDE DEF q
<1>4. OwnItems = {} /\ ~Swapped
  BY DEF Waits, OwnWaits, Swapped
<1>5. AtMostOne(OwnItems') /\ OwnItems' # {} /\ StatusItems' = StatusItems
  <2>1. /\ ReqKind(toEsp'[Len(toEsp')]) = "own"
        /\ Len(rx) \in Nat /\ Len(toEsp) \in Nat
    BY <1>2, <1>3, Lengths
  <2>2. Items(rx, toEsp', "own") # {} /\ AtMostOne(Items(rx, toEsp', "own"))
    BY <1>2, <1>4, <2>1, ItemsReq DEF OwnItems
  <2>3. Items(rx, toEsp', "status") = Items(rx, toEsp, "status")
    BY <1>2, <2>1, ItemsReq
  <2> QED
    BY <2>2, <2>3 DEF OwnItems, StatusItems
<1>6. call'.res = "wait" /\ call'.op = op /\ call'.link = l /\ call'.sock = s /\ ~Swapped'
  BY <1>1, <1>5 DEF Swapped
<1>7. \A i \in DOMAIN toEsp' : toEsp'[i].req # "status" => toEsp'[i] = q
  <2>1. \A i \in DOMAIN toEsp' : i \in DOMAIN toEsp \/ i = Len(toEsp')
    BY <1>2, Lengths
  <2> QED
    BY <1>2, <1>4, <2>1, NoOwn, Lengths
<1>8. OwnWaits'
  <2>1. \A i \in DOMAIN rx : ~OwnAnswer(rx[i])
    BY <1>4, NoOwn
  <2> QED
    BY <1>3, <1>5, <1>6, <1>7, <2>1 DEF OwnWaits
<1>9. StatusWaits'
  BY <1>4, <1>5, <1>6 DEF Waits, StatusWaits
<1> QED
  BY <1>8, <1>9 DEF Waits

LEMMA RxRest ==
    ASSUME Types, rx # <<>>, rx' = Tail(rx)
    PROVE  /\ Rest(rx, rx') /\ Head(rx) = rx[1] /\ 1 \in DOMAIN rx /\ GoodLine(rx[1], nconn)
           /\ \A i \in DOMAIN rx' : i \in Nat /\ i >= 1 /\ i + 1 \in DOMAIN rx /\ rx'[i] = rx[i + 1]
           /\ \A j \in DOMAIN rx : j > 1 => j - 1 \in DOMAIN rx' /\ rx'[j - 1] = rx[j]
           /\ DOMAIN rx = 1..Len(rx) /\ DOMAIN rx' = 1..Len(rx') /\ Len(rx') \in Nat /\ Len(rx) = Len(rx') + 1
<1>1. rx \in Seq(Line)
  BY Lengths
<1>2. Rest(rx, rx') /\ Head(rx) = rx[1] /\ 1 \in DOMAIN rx
  BY <1>1, TailRest, TailFacts
<1>3. GoodLine(rx[1], nconn)
  BY <1>2 DEF Types, RxTypes
<1> QED
  BY <1>2, <1>3 DEF Rest

LEMMA EventKind ==
    ASSUME NEW m, m.ev \in Events
    PROVE  LineKind(m) = "event" /\ ~OwnAnswer(m) /\ ~StatusOK(m)
  BY DEF Events, LineKind, OwnAnswer, StatusOK, Answers

\* read_thread takes a line that answers nothing.
LEMMA EventWaits ==
    ASSUME Types, Waits, rx # <<>>, rx' = Tail(rx), rx[1].ev \in Events, UNCHANGED <<toEsp, rd, call>>,
           Made' <=> Made, call.op = "connect" => peer'[call.sock] = peer[call.sock]
    PROVE  Waits'
<1>1. Rest(rx, rx') /\ \A i \in DOMAIN rx' : i + 1 \in DOMAIN rx /\ rx'[i] = rx[i + 1]
  BY RxRest
<1>2. LineKind(rx[1]) # "own" /\ LineKind(rx[1]) # "status" /\ Len(toEsp) \in Nat
  BY EventKind, Lengths
<1>3. NoMore(OwnItems, OwnItems') /\ NoMore(StatusItems, StatusItems')
  BY <1>1, <1>2, ItemsRest DEF OwnItems, StatusItems
<1>4. (Swapped' <=> Swapped) /\ Expected' = Expected
  BY <1>3 DEF Swapped, Expected, NoMore
<1>5. OwnWaits'
  BY <1>1, <1>3, <1>4 DEF Waits, OwnWaits, NoMore
<1>6. StatusWaits'
  BY <1>3, <1>4 DEF Waits, StatusWaits, NoMore
<1> QED
  BY <1>5, <1>6 DEF Waits

\* An answer is only handled while a call waits, and it ends the call's wait.
LEMMA AnswerWaits ==
    ASSUME Types, Types', Waits, Answer
    PROVE  /\ Waits' /\ call.res = "wait" /\ call'.res \in {"OK", "ERROR"}
           /\ call'.op = call.op /\ call'.sock = call.sock /\ call'.link = call.link
           /\ \A i \in DOMAIN rx' : ~OwnAnswer(rx'[i])
           /\ \/ OwnAnswer(rx[1]) /\ (call'.res = "ERROR" <=> rx[1].ev = "ERROR")
              \/ Made /\ call'.res = "OK"
<1>1. /\ rd = NoLink /\ rx # <<>> /\ rx[1].ev \in Answers /\ rx' = Tail(rx)
      /\ UNCHANGED <<toEsp, rd, peer>>
      /\ call' = IF call.res = "wait" /\ rx[1].ev \in {Expected, "ERROR"}
                 THEN [call EXCEPT !.res = IF rx[1].ev = "ERROR" THEN "ERROR" ELSE "OK"]
                 ELSE call
  BY RxRest DEF Answer, Answers, ghosts
<1>2. Rest(rx, rx') /\ Len(toEsp) \in Nat /\ 1 \in DOMAIN rx /\ GoodLine(rx[1], nconn)
  BY <1>1, RxRest, Lengths
<1>3. StatusOK(rx[1]) \/ OwnAnswer(rx[1])
  BY <1>1, <1>2 DEF StatusOK, OwnAnswer, Answers, GoodLine
<1>4. \A k : LineKind(rx[1]) # k => NoMore(Items(rx, toEsp, k), Items(rx', toEsp, k))
  BY <1>2, ItemsRest
<1>5. \A k : LineKind(rx[1]) = k => /\ AtMostOne(Items(rx, toEsp, k)) => Items(rx', toEsp, k) = {}
                                    /\ Items(rx, toEsp, k) # {}
  BY <1>2, ItemsRest
<1>6. /\ call.res = "wait" /\ rx[1].ev \in {Expected, "ERROR"} /\ OwnItems' = {} /\ StatusItems' = {}
      /\ OwnAnswer(rx[1]) \/ (Made /\ rx[1].ev # "ERROR")
  <2>1. CASE StatusOK(rx[1])
    <3>1. LineKind(rx[1]) = "status"
      BY <2>1, Kinds
    <3>2. StatusItems # {} /\ (AtMostOne(StatusItems) => StatusItems' = {}) /\ NoMore(OwnItems, OwnItems')
      BY <1>1, <1>4, <1>5, <3>1 DEF StatusItems, OwnItems
    <3>3. Swapped /\ Made /\ call.res = "wait" /\ OwnItems = {} /\ call.op = "connect"
      BY <1>1, <3>2 DEF Waits, StatusWaits, OwnWaits, Swapped, Made
    <3>4. StatusItems' = {} /\ OwnItems' = {}
      BY <1>1, <3>2, <3>3 DEF Waits, StatusWaits, NoMore
    <3>5. rx[1].ev = "OK" /\ Expected = "OK"
      BY <2>1, <3>3 DEF StatusOK, Expected
    <3> QED
      BY <3>3, <3>4, <3>5
  <2>2. CASE OwnAnswer(rx[1])
    <3>1. LineKind(rx[1]) = "own"
      BY <2>2, Kinds
    <3>2. OwnItems # {} /\ (AtMostOne(OwnItems) => OwnItems' = {}) /\ NoMore(StatusItems, StatusItems')
      BY <1>1, <1>4, <1>5, <3>1 DEF StatusItems, OwnItems
    <3>3. call.res = "wait" /\ ~Swapped /\ OwnItems' = {} /\ rx[1].ev \in {Expected, "ERROR"}
      BY <1>2, <2>2, <3>2 DEF Waits, OwnWaits, Swapped
    <3>4. StatusItems' = {}
      BY <1>1, <3>2, <3>3 DEF Waits, StatusWaits, NoMore
    <3> QED
      BY <2>2, <3>3, <3>4
  <2> QED
    BY <1>3, <2>1, <2>2
<1>7. /\ call'.res = (IF rx[1].ev = "ERROR" THEN "ERROR" ELSE "OK")
      /\ call'.op = call.op /\ call'.sock = call.sock /\ call'.link = call.link
  BY <1>1, <1>6 DEF Types, CallTypes
<1>8. \A i \in DOMAIN rx' : ~OwnAnswer(rx'[i])
  <2>1. Types' /\ OwnItems' = {}
    BY <1>6
  <2> QED
    BY <2>1, NoOwnNext
<1>9. Waits'
  <2>1. \A i \in DOMAIN toEsp : toEsp'[i].req = "status"
    BY <1>1, <1>6, NoOwnNext
  <2>2. ~Swapped'
    BY <1>7 DEF Swapped
  <2> QED
    BY <1>1, <1>6, <1>7, <1>8, <2>1, <2>2 DEF Waits, OwnWaits, StatusWaits, AtMostOne, AtMostTwo
<1> QED
  BY <1>6, <1>7, <1>8, <1>9

\* accept asks for the states of the links.
LEMMA StartWaits ==
    ASSUME Types, Types', Waits, AcceptStart
    PROVE  Waits'
<1>1. /\ rd = NoLink /\ rx # <<>> /\ rx[1].ev = "CONNECT" /\ rx' = Tail(rx)
      /\ toEsp' = Append(toEsp, [req |-> "status", link |-> rx[1].link])
      /\ UNCHANGED <<call, peer>>
  BY RxRest DEF AcceptStart, ghosts
<1>2. /\ Rest(rx, rx') /\ \A i \in DOMAIN rx' : i + 1 \in DOMAIN rx /\ rx'[i] = rx[i + 1]
      /\ Len(toEsp) \in Nat /\ Len(rx') \in Nat
  BY <1>1, RxRest, Lengths
<1> DEFINE q == [req |-> "status", link |-> rx[1].link]
<1>3. q.req = "status" /\ ReqKind(q) = "status"
  BY DEF ReqKind
<1> HIDE DEF q
<1>4. /\ Len(toEsp') = Len(toEsp) + 1 /\ toEsp'[Len(toEsp')] = q /\ DOMAIN toEsp' = 1..Len(toEsp')
      /\ \A i \in 1..Len(toEsp) : toEsp'[i] = toEsp[i]
  <2>1. toEsp' = Append(toEsp, q)
    BY <1>1 DEF q
  <2> QED
    BY <2>1, Lengths
<1>5. \A i \in DOMAIN toEsp' : toEsp'[i] = q \/ (i \in DOMAIN toEsp /\ toEsp'[i] = toEsp[i])
  <2>1. \A i \in DOMAIN toEsp' : i \in DOMAIN toEsp \/ i = Len(toEsp')
    BY <1>4, Lengths
  <2> QED
    BY <1>4, <2>1, Lengths
<1>6. LineKind(rx[1]) = "event"
  BY <1>1, EventKind DEF Events
<1>7. \A k \in {"own", "status"} : NoMore(Items(rx, toEsp, k), Items(rx', toEsp, k))
  BY <1>2, <1>6, ItemsRest
<1>8. NoMore(OwnItems, OwnItems')
  <2>1. Items(rx', toEsp', "own") = Items(rx', toEsp, "own")
    BY <1>2, <1>3, <1>4, ItemsReq
  <2> QED
    BY <1>7, <2>1 DEF OwnItems
<1>9. /\ StatusItems = {} => AtMostOne(StatusItems')
      /\ AtMostOne(StatusItems) => AtMostTwo(StatusItems')
  <2>1. /\ Items(rx', toEsp, "status") = {} => AtMostOne(Items(rx', toEsp', "status"))
        /\ AtMostOne(Items(rx', toEsp, "status")) => AtMostTwo(Items(rx', toEsp', "status"))
    BY <1>2, <1>3, <1>4, ItemsReq
  <2>2. NoMore(StatusItems, Items(rx', toEsp, "status"))
    BY <1>7 DEF StatusItems
  <2> QED
    BY <2>1, <2>2 DEF StatusItems, NoMore
<1>10. (Swapped' <=> Swapped) /\ Expected' = Expected /\ (Made' <=> Made)
  BY <1>1, <1>8 DEF Swapped, Expected, NoMore, Made
<1>11. OwnWaits'
  BY <1>1, <1>2, <1>3, <1>5, <1>8, <1>10 DEF Waits, OwnWaits, NoMore
<1>12. StatusWaits'
  <2>1. \A S : AtMostOne(S) => AtMostTwo(S)
    BY DEF AtMostOne, AtMostTwo
  <2>2. AtMostOne(StatusItems) /\ (~Swapped => StatusItems = {})
    BY <1>1 DEF Waits, StatusWaits
  <2>3. rd' # NoLink
    <3>1. rd' = rx[1].link /\ rx[1].ev = "CONNECT"
      BY <1>1, RxRest DEF AcceptStart
    <3>2. rx[1].link \in Link
      BY <1>1, <3>1, RxRest DEF GoodLine, Events
    <3> QED
      BY <3>1, <3>2, Lengths
  <2> QED
    BY <1>9, <1>10, <2>2, <2>3 DEF StatusWaits
<1> QED
  BY <1>11, <1>12 DEF Waits

\* The loop of accept ends.
LEMMA EndWaits ==
    ASSUME Types, Types', Waits, AcceptEnd, ~astray'
    PROVE  /\ Waits' /\ EndsAccept(rx[1], rd)
           /\ OwnAnswer(rx[1]) => \A i \in DOMAIN rx' : ~OwnAnswer(rx'[i])
<1>1. /\ rd # NoLink /\ rx # <<>> /\ rx[1].ev \in {"OK", "ERROR"} /\ rx' = Tail(rx) /\ rd' = NoLink
      /\ UNCHANGED <<call, toEsp, peer>>
      /\ rx[1].link = NoLink => OwnConnect
  BY RxRest DEF AcceptEnd
<1>2. /\ Rest(rx, rx') /\ \A i \in DOMAIN rx' : i + 1 \in DOMAIN rx /\ rx'[i] = rx[i + 1]
      /\ Len(toEsp) \in Nat /\ Len(rx') \in Nat /\ GoodLine(rx[1], nconn)
  BY <1>1, RxRest, Lengths
<1>3. Expected' = Expected /\ (Made' <=> Made)
  BY <1>1 DEF Expected, Made
<1>4. \A k : LineKind(rx[1]) # k => NoMore(Items(rx, toEsp, k), Items(rx', toEsp, k))
  BY <1>2, ItemsRest
<1>5. \A k : LineKind(rx[1]) = k => /\ AtMostOne(Items(rx, toEsp, k)) => Items(rx', toEsp, k) = {}
                                    /\ AtMostTwo(Items(rx, toEsp, k)) => AtMostOne(Items(rx', toEsp, k))
                                    /\ Items(rx, toEsp, k) # {}
  BY <1>2, ItemsRest
<1>6. \A S : (S = {} => AtMostOne(S)) /\ (AtMostOne(S) => AtMostTwo(S))
  BY DEF AtMostOne, AtMostTwo
<1>7. CASE StatusOK(rx[1])
  <2>1. LineKind(rx[1]) = "status"
    BY <1>7, Kinds
  <2>2. /\ NoMore(OwnItems, OwnItems')
        /\ AtMostOne(StatusItems) => StatusItems' = {}
        /\ AtMostTwo(StatusItems) => AtMostOne(StatusItems')
    BY <1>1, <1>4, <1>5, <2>1 DEF StatusItems, OwnItems
  <2>3. Swapped' <=> Swapped
    BY <1>1, <2>2 DEF Swapped, NoMore
  <2>4. OwnWaits'
    BY <1>1, <1>2, <1>3, <2>2, <2>3 DEF Waits, OwnWaits, NoMore
  <2>5. StatusWaits'
    BY <1>1, <1>6, <2>2, <2>3 DEF Waits, StatusWaits
  <2> QED
    BY <1>7, <2>4, <2>5 DEF Waits, EndsAccept, StatusOK, OwnAnswer
<1>8. CASE OwnAnswer(rx[1])
  <2>1. LineKind(rx[1]) = "own" /\ rx[1].link = NoLink
    BY <1>8, Kinds DEF OwnAnswer
  <2>2. OwnItems # {} /\ OwnItems' = {} /\ NoMore(StatusItems, StatusItems')
    BY <1>1, <1>4, <1>5, <2>1 DEF StatusItems, OwnItems, Waits, OwnWaits
  <2>3. ~Swapped /\ Made /\ call.link = rd
    BY <1>1, <2>1, <2>2 DEF Swapped, OwnConnect, Made
  <2>4. AtMostOne(StatusItems')
    BY <2>2, <2>3 DEF Waits, StatusWaits, NoMore
  <2>5. OwnWaits'
    <3>1. /\ \A i \in DOMAIN rx' : ~OwnAnswer(rx'[i])
          /\ \A i \in DOMAIN toEsp' : toEsp'[i].req = "status"
      BY <2>2, NoOwnNext
    <3>2. call.res = "wait"
      BY <2>2 DEF Waits, OwnWaits
    <3> QED
      BY <1>1, <1>3, <1>6, <2>2, <2>3, <3>1, <3>2 DEF OwnWaits
  <2>6. StatusWaits'
    <3>1. Swapped'
      BY <1>1, <2>2 DEF Swapped, Waits, OwnWaits
    <3> QED
      BY <1>6, <2>4, <3>1 DEF StatusWaits
  <2> QED
    BY <1>8, <2>2, <2>3, <2>5, <2>6, NoOwnNext DEF Waits, EndsAccept
<1>9. StatusOK(rx[1]) \/ OwnAnswer(rx[1])
  BY <1>1, <1>2 DEF StatusOK, OwnAnswer, Answers, GoodLine
<1> QED
  BY <1>7, <1>8, <1>9

-----------------------------------------------------------------------------
(* Waits, while the ESP8266 answers *)

\* A request that is no CIPSTATUS is that of the call, and nothing else is.
LEMMA OwnRequest ==
    ASSUME Types, Waits, toEsp # <<>>, toEsp' = Tail(toEsp), toEsp[1].req # "status"
    PROVE  /\ call.res = "wait" /\ ~Swapped /\ toEsp[1].req = call.op /\ toEsp[1].link = call.link
           /\ call.op = "connect" => peer[call.sock] = NoConn
           /\ \A i \in DOMAIN rx : ~OwnAnswer(rx[i])
           /\ \A i \in DOMAIN toEsp' : toEsp'[i].req = "status"
<1>1. Rest(toEsp, toEsp') /\ 1 \in DOMAIN toEsp
  BY Lengths, TailRest, TailFacts
<1>2. /\ Len(rx) \in Nat /\ Len(toEsp) \in Nat /\ DOMAIN rx = 1..Len(rx) /\ DOMAIN toEsp = 1..Len(toEsp)
  BY Lengths
<1>3. /\ \A i \in 1..Len(rx) : i \in OwnItems <=> LineKind(rx[i]) = "own"
      /\ \A i \in 1..Len(toEsp) : Len(rx) + i \in OwnItems <=> ReqKind(toEsp[i]) = "own"
  BY <1>2, ItemsAt DEF OwnItems
<1>4. Len(rx) + 1 \in OwnItems /\ AtMostOne(OwnItems)
  BY <1>1, <1>2, <1>3, Kinds DEF Waits, OwnWaits
<1>5. \A i \in DOMAIN rx : ~OwnAnswer(rx[i])
  <2> SUFFICES ASSUME NEW i \in DOMAIN rx, OwnAnswer(rx[i]) PROVE FALSE
    OBVIOUS
  <2>1. i \in OwnItems
    BY <1>2, <1>3, Kinds
  <2>2. i = Len(rx) + 1
    BY <1>4, <2>1 DEF AtMostOne
  <2> QED
    BY <1>2, <2>2
<1>6. \A i \in DOMAIN toEsp' : toEsp'[i].req = "status"
  <2> SUFFICES ASSUME NEW i \in DOMAIN toEsp', toEsp'[i].req # "status" PROVE FALSE
    OBVIOUS
  <2>1. i + 1 \in DOMAIN toEsp /\ toEsp[i + 1].req # "status" /\ i \in Nat /\ i >= 1
    BY <1>1 DEF Rest
  <2>2. Len(rx) + (i + 1) \in OwnItems
    BY <1>2, <1>3, <2>1, Kinds
  <2>3. Len(rx) + (i + 1) = Len(rx) + 1
    BY <1>4, <2>2 DEF AtMostOne
  <2> QED
    BY <1>2, <2>1, <2>3
<1>7. OwnItems # {}
  BY <1>4
<1> QED
  BY <1>1, <1>5, <1>6, <1>7 DEF Waits, OwnWaits, Swapped

\* The last of the new lines answers the first request.
LEMMA AnsweredWaits ==
    ASSUME Types, Types', Waits, toEsp # <<>>, toEsp' = Tail(toEsp), UNCHANGED <<call, rd>>,
           Front(rx, rx'), Len(rx') > Len(rx),
           \A i \in DOMAIN rx' : i > Len(rx) /\ i < Len(rx') => LineKind(rx'[i]) = "event",
           LineKind(rx'[Len(rx')]) = ReqKind(toEsp[1]),
           ReqKind(toEsp[1]) = "own" => rx'[Len(rx')].ev \in {Expected, "ERROR"},
           ReqKind(toEsp[1]) = "status" => UNCHANGED peer
    PROVE  Waits'
<1>1. Rest(toEsp, toEsp')
  BY Lengths, TailRest
<1>2. \A k \in {"own", "status"} : NoMore(Items(rx, toEsp, k), Items(rx', toEsp', k))
  BY <1>1, ItemsAnswer
<1>3. NoMore(OwnItems, OwnItems') /\ NoMore(StatusItems, StatusItems')
  BY <1>2 DEF OwnItems, StatusItems
<1>4. (Swapped' <=> Swapped) /\ Expected' = Expected
  BY <1>3 DEF Swapped, Expected, NoMore
<1>5. ~Swapped => ~Swapped'
  BY <1>4
<1>6. \A i \in DOMAIN rx' : OwnAnswer(rx'[i]) => rx'[i].ev \in {Expected, "ERROR"}
  <2> SUFFICES ASSUME NEW i \in DOMAIN rx', OwnAnswer(rx'[i]) PROVE rx'[i].ev \in {Expected, "ERROR"}
    OBVIOUS
  <2>1. CASE i \in DOMAIN rx /\ rx'[i] = rx[i]
    BY <2>1 DEF Waits, OwnWaits
  <2>2. CASE i > Len(rx)
    <3>1. LineKind(rx'[i]) = "own"
      BY Kinds
    <3>2. i = Len(rx')
      <4>1. ~(i < Len(rx')) /\ i <= Len(rx')
        BY <2>2, <3>1, FrontCases
      <4> QED
        BY <4>1, FrontCases DEF Front
    <3> QED
      BY <3>1, <3>2
  <2> QED
    BY <2>1, <2>2, FrontCases
<1>7. CASE ReqKind(toEsp[1]) = "own"
  <2>1. /\ call.res = "wait" /\ ~Swapped /\ \A i \in DOMAIN toEsp' : toEsp'[i].req = "status"
    BY <1>7, OwnRequest, Kinds
  <2>2. OwnWaits'
    BY <1>3, <1>4, <1>6, <2>1 DEF Waits, OwnWaits, NoMore
  <2>3. StatusWaits'
    BY <1>3, <1>4 DEF Waits, StatusWaits, NoMore
  <2> QED
    BY <2>2, <2>3 DEF Waits
<1>8. CASE ReqKind(toEsp[1]) = "status"
  <2>1. UNCHANGED peer /\ (Made' <=> Made)
    BY <1>8 DEF Made
  <2>2. \A i \in DOMAIN toEsp' : i + 1 \in DOMAIN toEsp /\ toEsp'[i] = toEsp[i + 1]
    BY <1>1 DEF Rest
  <2>3. OwnWaits'
    BY <1>3, <1>4, <1>6, <2>1, <2>2 DEF Waits, OwnWaits, NoMore
  <2>4. StatusWaits'
    BY <1>3, <1>4 DEF Waits, StatusWaits, NoMore
  <2> QED
    BY <2>3, <2>4 DEF Waits
<1> QED
  BY <1>7, <1>8, Kinds

-----------------------------------------------------------------------------
(* The driver's table: steps of read_thread *)

\* A CONNECT that is not the first line stays in front of what is behind it.
LEMMA ConnectTail ==
    ASSUME Types, rx # <<>>, rx' = Tail(rx), NEW i \in Nat, NEW l, NEW c,
           ~Is(rx[1], "CONNECT", l, c), \E j \in DOMAIN rx : j < i + 1 /\ Is(rx[j], "CONNECT", l, c)
    PROVE  \E j \in DOMAIN rx' : j < i /\ Is(rx'[j], "CONNECT", l, c)
<1>1. PICK j \in DOMAIN rx : j < i + 1 /\ Is(rx[j], "CONNECT", l, c)
  OBVIOUS
<1>2. j # 1 /\ j \in Nat /\ j >= 1
  BY <1>1, RxRest
<1>3. j - 1 \in DOMAIN rx' /\ rx'[j - 1] = rx[j] /\ j - 1 < i
  BY <1>1, <1>2, RxRest
<1> QED
  BY <1>1, <1>3

\* accept goes on, unless the line was the state it waits for.
LEMMA AcceptingTail ==
    ASSUME Types, rx # <<>>, rx' = Tail(rx), NEW i \in Nat, NEW l, NEW c, UNCHANGED <<rd, call>>,
           Made' => Made, ~Is(rx[1], "STATUS", l, c), Accepting(i + 1, l, c)
    PROVE  Accepting(i, l, c)'
<1>6. rd' = l
  BY DEF Accepting
<1> SUFFICES ASSUME NEW k \in DOMAIN rx', k < i, EndsAccept(rx[k], l)'
             PROVE  \E j \in DOMAIN rx' : j < k /\ Is(rx'[j], "STATUS", l, c)
  BY <1>6 DEF Accepting
<1>1. k \in Nat /\ k + 1 \in DOMAIN rx /\ rx'[k] = rx[k + 1] /\ k + 1 < i + 1
  BY RxRest
<1>2. EndsAccept(rx[k + 1], l)
  BY <1>1 DEF EndsAccept, StatusOK, OwnAnswer
<1>3. PICK j \in DOMAIN rx : j < k + 1 /\ Is(rx[j], "STATUS", l, c)
  BY <1>1, <1>2 DEF Accepting
<1>4. j # 1 /\ j \in Nat /\ j >= 1
  BY <1>3, RxRest
<1>5. j - 1 \in DOMAIN rx' /\ rx'[j - 1] = rx[j] /\ j - 1 < k
  BY <1>1, <1>3, <1>4, RxRest
<1> QED
  BY <1>3, <1>5

\* Who must be known by a line that is left was so before the step.
LEMMA NeededTail ==
    ASSUME Types, AllKnown, rx # <<>>, rx' = Tail(rx), UNCHANGED espLink,
           NEW l \in Link, NEW c \in Conn, NEW i \in 1..(Len(rx') + 1), Needed(rx', espLink', i, l, c)
    PROVE  i \in Nat /\ Needed(rx, espLink, i + 1, l, c) /\ i + 1 \in 1..(Len(rx) + 1) /\ Known(i + 1, l, c)
<1>1. Rest(rx, rx') /\ Needed(rx', espLink, i, l, c)
  BY RxRest
<1>2. Needed(rx, espLink, i + 1, l, c) /\ i + 1 \in 1..(Len(rx) + 1) /\ i \in Nat
  BY <1>1, NeededRest
<1> QED
  BY <1>2 DEF AllKnown

LEMMA TailLines ==
    ASSUME Types, Order(rx, espLink), Reported(rx, espLink), rx # <<>>, rx' = Tail(rx), UNCHANGED espLink
    PROVE  Order(rx', espLink') /\ Reported(rx', espLink')
<1>1. Rest(rx, rx')
  BY RxRest
<1>2. Order(rx', espLink) /\ Reported(rx', espLink)
  BY <1>1, OrderRest, ReportedRest
<1> QED
  BY <1>2

LEMMA TailEntries ==
    ASSUME Types, EntriesLive, rx # <<>>, rx' = Tail(rx), UNCHANGED <<espLink, links, peer>>,
           rx[1].ev # "CLOSED"
    PROVE  EntriesLive'
<1> SUFFICES ASSUME NEW l \in Link, links[l] # NoSock
             PROVE  peer[links[l]] # NoConn /\ Ends(rx', espLink, 0, l, peer[links[l]])
  BY DEF EntriesLive
<1>1. peer[links[l]] # NoConn /\ Ends(rx, espLink, 0, l, peer[links[l]])
  BY DEF EntriesLive
<1>2. Rest(rx, rx') /\ ~Is(rx[1], "CLOSED", l, peer[links[l]])
  BY RxRest DEF Is
<1> QED
  BY <1>1, <1>2, EndsRest

LEMMA TailOwn ==
    ASSUME Types, Types', OwnLive, rx # <<>>, rx' = Tail(rx), UNCHANGED <<espLink, call>>,
           call.op = "connect" =>
               /\ links'[call.link] = links[call.link] /\ peer'[call.sock] = peer[call.sock]
               /\ ~Is(rx[1], "CLOSED", call.link, peer[call.sock]),
           rx[1].ev = "CONNECT" => rd' = rx[1].link
    PROVE  OwnLive'
<1>1. /\ Rest(rx, rx')
      /\ \A i \in DOMAIN rx' : i \in Nat /\ i >= 1 /\ i + 1 \in DOMAIN rx /\ rx'[i] = rx[i + 1]
      /\ \A j \in DOMAIN rx : j > 1 => j - 1 \in DOMAIN rx' /\ rx'[j - 1] = rx[j]
  BY RxRest
<1>2. Made' <=> Made
  BY DEF Made
<1>3. call.op = "connect" => links'[call.link] = NoSock
  BY DEF OwnLive
<1>4. call.op = "connect" /\ ~Made =>
          call.res # "OK" /\ \A k \in DOMAIN rx' : OwnAnswer(rx'[k]) => rx'[k].ev = "ERROR"
  BY <1>1 DEF OwnLive
<1>5. ASSUME Made PROVE Ends(rx', espLink, 0, call.link, peer[call.sock]) /\ call.res # "ERROR"
  <2>1. Ends(rx, espLink, 0, call.link, peer[call.sock]) /\ call.op = "connect" /\ call.res # "ERROR"
    BY <1>5 DEF OwnLive, Made
  <2> QED
    BY <1>1, <2>1, EndsRest
<1>6. ASSUME Made, NEW k \in DOMAIN rx', OwnAnswer(rx'[k])
      PROVE  /\ rx'[k].ev = "OK"
             /\ \/ k = 1 /\ rd' = call.link
                \/ k > 1 /\ Is(rx'[k - 1], "CONNECT", call.link, peer[call.sock])
  <2>1. k \in Nat /\ k >= 1 /\ k + 1 \in DOMAIN rx /\ rx'[k] = rx[k + 1] /\ k + 1 # 1 /\ (k + 1) - 1 = k
    BY <1>1
  <2>2. rx'[k].ev = "OK" /\ Is(rx[k], "CONNECT", call.link, peer[call.sock])
    BY <1>6, <2>1 DEF OwnLive
  <2>3. CASE k = 1
    BY <2>2, <2>3 DEF Is
  <2>4. CASE k # 1
    <3>1. k > 1 /\ k \in DOMAIN rx
      BY <2>1, <2>4, RxRest
    <3> QED
      BY <1>1, <2>2, <3>1
  <2> QED
    BY <2>3, <2>4
<1> QED
  BY <1>2, <1>3, <1>4, <1>5, <1>6 DEF OwnLive, Made

LEMMA TailClose ==
    ASSUME Types, CloseSeen, rx # <<>>, rx' = Tail(rx), UNCHANGED call,
           call.op = "close" =>
               \/ links'[call.link] = NoSock
               \/ links'[call.link] = links[call.link] /\ ~(rx[1].ev = "CLOSED" /\ rx[1].link = call.link)
    PROVE  CloseSeen'
<1> SUFFICES ASSUME call.op = "close", links'[call.link] = links[call.link],
                    ~(rx[1].ev = "CLOSED" /\ rx[1].link = call.link)
             PROVE  CloseSeen'
  BY DEF CloseSeen
<1> SUFFICES ASSUME NEW k \in DOMAIN rx', OwnAnswer(rx'[k]) /\ rx'[k].ev = "OK", links[call.link] # NoSock
             PROVE  \E j \in DOMAIN rx' : j < k /\ rx'[j].ev = "CLOSED" /\ rx'[j].link = call.link
  BY DEF CloseSeen
<1>1. k \in Nat /\ k + 1 \in DOMAIN rx /\ rx'[k] = rx[k + 1]
  BY RxRest
<1>2. PICK j \in DOMAIN rx : j < k + 1 /\ rx[j].ev = "CLOSED" /\ rx[j].link = call.link
  BY <1>1 DEF CloseSeen
<1>3. j # 1 /\ j \in Nat /\ j >= 1
  BY <1>2, RxRest
<1>4. j - 1 \in DOMAIN rx' /\ rx'[j - 1] = rx[j] /\ j - 1 < k
  BY <1>1, <1>2, <1>3, RxRest
<1> QED
  BY <1>2, <1>4

LEMMA SamePlaced ==
    ASSUME PeersPlaced, UNCHANGED <<links, peer, node, early>>, call'.op = call.op, call'.sock = call.sock
    PROVE  PeersPlaced'
  BY DEF PeersPlaced

\* The first line needs that its connection is known, and accept is not at work.
LEMMA HeadKnown ==
    ASSUME Types, AllKnown, rx # <<>>, rd = NoLink, rx[1].ev \in {"IPD", "CLOSED"},
           ~(call.op = "connect" /\ call.link = rx[1].link)
    PROVE  rx[1].link \in Link /\ rx[1].conn \in Conn /\ Entered(rx[1].link, rx[1].conn)
<1> DEFINE l == rx[1].link
           c == rx[1].conn
<1>1. rx \in Seq(Line) /\ 1 \in DOMAIN rx /\ 1 \in 1..(Len(rx) + 1) /\ DOMAIN rx = 1..Len(rx)
  BY Lengths, TailFacts
<1>2. l \in Link /\ c \in Conn
  <2>1. GoodLine(rx[1], nconn) /\ rx[1].ev \in Events
    BY <1>1 DEF Types, RxTypes, Events
  <2>2. l \in Link /\ c \in 1..nconn
    BY <2>1, Zenon DEF GoodLine
  <2>3. 1..nconn \subseteq Conn
    BY Nothing DEF Types, EspTypes
  <2> QED
    BY <2>2, <2>3
<1>3. Needed(rx, espLink, 1, l, c)
  BY <1>1 DEF Needed, Is
<1>4. Known(1, l, c)
  BY <1>1, <1>2, <1>3 DEF AllKnown
<1>5. ~\E j \in DOMAIN rx : j < 1 /\ Is(rx[j], "CONNECT", l, c)
  BY <1>1, Lengths
<1>6. ~Own(l, c) /\ ~Accepting(1, l, c)
  BY <1>2, Lengths DEF Own, Accepting
<1> QED
  BY <1>2, <1>4, <1>5, <1>6 DEF Known

LEMMA RecvTracked ==
    ASSUME Types, Types', Tracked, Recv, ~astray'
    PROVE  Tracked' /\ UNCHANGED fault /\ (mixed' => mixed)
<1>1. /\ rd = NoLink /\ rx # <<>> /\ rx[1].ev = "IPD" /\ rx' = Tail(rx) /\ ~InWindow(rx[1].link)
      /\ UNCHANGED <<links, node, call, rd, toEsp, espLink, peer, early>>
  BY RxRest DEF Recv, tabVars, sockVars, espVars
<1>2. Entered(rx[1].link, rx[1].conn)
  BY <1>1, HeadKnown DEF InWindow, Tracked
<1>3. UNCHANGED fault /\ (mixed' => mixed)
  BY <1>1, <1>2, RxRest DEF Recv, Entered
<1>4. Waits'
  <2>1. rx[1].ev \in Events
    BY <1>1 DEF Events
  <2> QED
    BY <1>1, <2>1, EventWaits DEF Made, Tracked
<1>5. Order(rx', espLink') /\ Reported(rx', espLink')
  BY <1>1, TailLines DEF Tracked
<1>6. AllKnown'
  <2> SUFFICES ASSUME NEW l \in Link, NEW c \in Conn, NEW i \in 1..(Len(rx') + 1),
                      Needed(rx', espLink', i, l, c)
               PROVE  Known(i, l, c)'
    BY DEF AllKnown
  <2>1. i \in Nat /\ Known(i + 1, l, c)
    BY <1>1, NeededTail DEF Tracked
  <2>2. ~Accepting(i + 1, l, c) /\ ~Is(rx[1], "CONNECT", l, c)
    BY <1>1, Lengths DEF Accepting, Is
  <2>3. (Entered(l, c) => Entered(l, c)') /\ (Own(l, c) => Own(l, c)')
    BY <1>1 DEF Entered, Own
  <2> QED
    BY <1>1, <2>1, <2>2, <2>3, ConnectTail DEF Known
<1>7. EntriesLive'
  BY <1>1, TailEntries DEF Tracked
<1>8. OwnLive' /\ CloseSeen' /\ PeersPlaced'
  <2>1. OwnLive'
    BY <1>1, TailOwn DEF Tracked, Is
  <2>2. CloseSeen'
    BY <1>1, TailClose DEF Tracked
  <2> QED
    BY <1>1, <2>1, <2>2, SamePlaced DEF Tracked
<1> QED
  BY <1>3, <1>4, <1>5, <1>6, <1>7, <1>8 DEF Tracked

LEMMA IgnoreTracked ==
    ASSUME Types, Types', Tracked, Ignore
    PROVE  Tracked'
<1>1. /\ rx # <<>> /\ rx[1].ev = "STATUS" /\ rx[1].link # rd /\ rx' = Tail(rx)
      /\ UNCHANGED <<links, node, call, rd, toEsp, espLink, peer, early>>
  BY RxRest DEF Ignore, tabVars, sockVars, espVars, ghosts
<1>4. Waits'
  <2>1. rx[1].ev \in Events
    BY <1>1 DEF Events
  <2> QED
    BY <1>1, <2>1, EventWaits DEF Made, Tracked
<1>5. Order(rx', espLink') /\ Reported(rx', espLink')
  BY <1>1, TailLines DEF Tracked
<1>6. AllKnown'
  <2> SUFFICES ASSUME NEW l \in Link, NEW c \in Conn, NEW i \in 1..(Len(rx') + 1),
                      Needed(rx', espLink', i, l, c)
               PROVE  Known(i, l, c)'
    BY DEF AllKnown
  <2>1. i \in Nat /\ Known(i + 1, l, c)
    BY <1>1, NeededTail DEF Tracked
  <2>2. ~Is(rx[1], "CONNECT", l, c)
    BY <1>1 DEF Is
  <2>3. Accepting(i + 1, l, c) => Accepting(i, l, c)'
    <3>1. Accepting(i + 1, l, c) => ~Is(rx[1], "STATUS", l, c)
      BY <1>1 DEF Accepting, Is
    <3> QED
      BY <1>1, <2>1, <3>1, AcceptingTail DEF Made
  <2>4. (Entered(l, c) => Entered(l, c)') /\ (Own(l, c) => Own(l, c)')
    BY <1>1 DEF Entered, Own
  <2> QED
    BY <1>1, <2>1, <2>2, <2>3, <2>4, ConnectTail DEF Known
<1>7. EntriesLive'
  BY <1>1, TailEntries DEF Tracked
<1>8. OwnLive' /\ CloseSeen' /\ PeersPlaced'
  <2>1. OwnLive'
    BY <1>1, TailOwn DEF Tracked, Is
  <2>2. CloseSeen'
    BY <1>1, TailClose DEF Tracked
  <2> QED
    BY <1>1, <2>1, <2>2, SamePlaced DEF Tracked
<1> QED
  BY <1>4, <1>5, <1>6, <1>7, <1>8 DEF Tracked

LEMMA ClosedTracked ==
    ASSUME Types, Types', Owners, Tracked, Closed, ~astray'
    PROVE  Tracked'
<1> DEFINE l0 == rx[1].link
           c0 == rx[1].conn
           s0 == links[l0]
<1>1. /\ rd = NoLink /\ rx # <<>> /\ rx[1].ev = "CLOSED" /\ rx' = Tail(rx)
      /\ InWindow(l0) => call.op = "close"
      /\ links' = [links EXCEPT ![l0] = NoSock] /\ node' = Disconnect(s0)
      /\ early' = IF s0 # NoSock /\ node[s0] = "none" THEN early \cup {s0} ELSE early
      /\ UNCHANGED <<call, rd, toEsp, espLink, peer>>
  BY RxRest DEF Closed, tabVars, sockVars, espVars
<1>2. l0 \in Link /\ c0 \in Conn /\ Entered(l0, c0)
  BY <1>1, HeadKnown DEF InWindow, Tracked
<1>3. /\ links'[l0] = NoSock /\ \A l \in Link : l # l0 => links'[l] = links[l]
      /\ links \in [Link -> Sock \cup {NoSock}] /\ NoSock \notin Sock
  BY <1>1, <1>2, Nothing DEF Types, TableTypes
<1> HIDE DEF l0, c0
<1>4. Is(rx[1], "CLOSED", l0, c0) /\ \A l, c : Is(rx[1], "CLOSED", l, c) => l = l0
  BY <1>1 DEF l0, c0, Is
<1>5. Waits'
  <2>1. rx[1].ev \in Events
    BY <1>1 DEF Events
  <2> QED
    BY <1>1, <2>1, EventWaits DEF Made, Tracked
<1>6. Order(rx', espLink') /\ Reported(rx', espLink')
  BY <1>1, TailLines DEF Tracked
<1>7. ASSUME NEW c \in Conn, NEW n \in 1..(Len(rx) + 1), n > 1, Needed(rx, espLink, n, l0, c)
      PROVE  c # c0
  <2>1. Order(rx, espLink) /\ 1 \in DOMAIN rx /\ c \in Nat /\ c0 \in Nat /\ c # NoConn
    BY <1>1, <1>2, RxRest, Nothing DEF Tracked
  <2>2. CASE n \in DOMAIN rx /\ (Is(rx[n], "IPD", l0, c) \/ Is(rx[n], "CLOSED", l0, c))
    <3>1. rx[n].ev \in Events /\ rx[1].ev \in Events /\ rx[n].link = l0 /\ rx[1].link = l0
          /\ rx[n].conn = c /\ rx[1].conn = c0 /\ rx[1].ev = "CLOSED"
      BY <1>4, <2>2 DEF Is, Events
    <3>2. c0 < c
      BY <1>7, <2>1, <2>2, <3>1 DEF Order
    <3> QED
      BY <2>1, <3>2
  <2>3. CASE espLink[l0] = c
    <3>1. rx[1].ev \in Events /\ rx[1].link = l0 /\ rx[1].conn = c0 /\ rx[1].ev = "CLOSED"
      BY <1>4 DEF Is, Events
    <3>2. c0 < c
      BY <2>1, <2>3, <3>1 DEF Order
    <3> QED
      BY <2>1, <3>2
  <2> QED
    BY <1>7, <2>2, <2>3 DEF Needed
<1>8. AllKnown'
  <2> SUFFICES ASSUME NEW l \in Link, NEW c \in Conn, NEW i \in 1..(Len(rx') + 1),
                      Needed(rx', espLink', i, l, c)
               PROVE  Known(i, l, c)'
    BY DEF AllKnown
  <2>1. i \in Nat /\ i >= 1 /\ Needed(rx, espLink, i + 1, l, c) /\ i + 1 \in 1..(Len(rx) + 1) /\ Known(i + 1, l, c)
    BY <1>1, NeededTail DEF Tracked
  <2>2. ~Accepting(i + 1, l, c) /\ ~Is(rx[1], "CONNECT", l, c)
    BY <1>1, Lengths DEF Accepting, Is
  <2>3. Entered(l, c) => Entered(l, c)'
    <3>1. CASE l = l0
      <4>1. c # c0
        BY <1>7, <2>1, <3>1
      <4> QED
        BY <1>2, <3>1, <4>1 DEF Entered
    <3>2. CASE l # l0
      BY <1>1, <1>3, <3>2 DEF Entered
    <3> QED
      BY <3>1, <3>2
  <2>4. Own(l, c) => Own(l, c)'
    BY <1>1 DEF Own
  <2> QED
    BY <1>1, <2>1, <2>2, <2>3, <2>4, ConnectTail DEF Known
<1>9. EntriesLive'
  <2> SUFFICES ASSUME NEW l \in Link, l # l0, links[l] # NoSock
               PROVE  peer[links[l]] # NoConn /\ Ends(rx', espLink, 0, l, peer[links[l]])
    BY <1>1, <1>3 DEF EntriesLive
  <2>1. peer[links[l]] # NoConn /\ Ends(rx, espLink, 0, l, peer[links[l]])
    BY DEF EntriesLive, Tracked
  <2>2. Rest(rx, rx') /\ ~Is(rx[1], "CLOSED", l, peer[links[l]])
    BY <1>1, <1>4, RxRest
  <2> QED
    BY <2>1, <2>2, EndsRest
<1>10. call.op = "connect" => call.link # l0 /\ call.link \in Link
  BY <1>1 DEF InWindow, Types, CallTypes, LinkCalls
<1>11. OwnLive'
  BY <1>1, <1>3, <1>4, <1>10, TailOwn DEF Tracked
<1>12. CloseSeen'
  <2>1. call.op = "close" => call.link \in Link
    BY DEF Types, CallTypes, LinkCalls
  <2> QED
    BY <1>1, <1>3, <2>1, TailClose DEF Tracked, l0
<1>13. PeersPlaced'
  <2> SUFFICES ASSUME NEW s \in Sock, peer[s] # NoConn
               PROVE  \/ \E l \in Link : links'[l] = s
                      \/ call.op = "connect" /\ call.sock = s
                      \/ node'[s] = "gone"
                      \/ s \in early'
    BY <1>1 DEF PeersPlaced
  <2>1. node \in [Sock -> {"none", "sock", "gone"}] /\ node[s] = "gone" => node'[s] = "gone"
    BY <1>1 DEF Disconnect
  <2>2. s \in early => s \in early'
    BY <1>1
  <2>3. ASSUME NEW l \in Link, links[l] = s, l = l0 PROVE node'[s] = "gone" \/ s \in early'
    <3>1. s0 = s /\ s # NoSock
      BY <1>3, <2>3
    <3>2. node \in [Sock -> {"none", "sock", "gone"}]
      BY DEF Types, TableTypes
    <3>3. CASE node[s] = "none"
      BY <1>1, <3>1, <3>3
    <3>4. CASE node[s] = "sock"
      BY <1>1, <3>1, <3>2, <3>4 DEF Disconnect
    <3>5. CASE node[s] = "gone"
      BY <1>1, <3>1, <3>2, <3>5 DEF Disconnect
    <3> QED
      BY <3>2, <3>3, <3>4, <3>5
  <2>4. node \in [Sock -> {"none", "sock", "gone"}]
    BY DEF Types, TableTypes
  <2>5. ASSUME NEW l \in Link, links[l] = s, l # l0 PROVE links'[l] = s
    BY <1>3, <2>5
  <2> QED
    BY <2>1, <2>2, <2>3, <2>4, <2>5 DEF Tracked, PeersPlaced
<1> QED
  BY <1>5, <1>6, <1>8, <1>9, <1>11, <1>12, <1>13 DEF Tracked

LEMMA AnswerTracked ==
    ASSUME Types, Types', Tracked, Answer
    PROVE  Tracked'
<1>1. /\ rd = NoLink /\ rx # <<>> /\ rx[1].ev \in Answers /\ rx' = Tail(rx)
      /\ UNCHANGED <<links, node, rd, toEsp, espLink, peer, early>>
  <2>1. rx # <<>> /\ rx' = Tail(rx) /\ rd = NoLink /\ Head(rx).ev \in Answers
    BY Zenon DEF Answer, Answers
  <2>2. UNCHANGED <<sockVars, tabVars, rd, toEsp, espVars, ghosts>>
    BY Zenon DEF Answer
  <2>3. UNCHANGED <<links, node, rd, toEsp, espLink, peer, early>>
    BY <2>2 DEF tabVars, sockVars, espVars, ghosts
  <2> QED
    BY <2>1, <2>3, RxRest
<1>2. /\ Waits' /\ call.res = "wait" /\ call'.res \in {"OK", "ERROR"}
      /\ call'.op = call.op /\ call'.sock = call.sock /\ call'.link = call.link
      /\ \A i \in DOMAIN rx' : ~OwnAnswer(rx'[i])
      /\ \/ OwnAnswer(rx[1]) /\ (call'.res = "ERROR" <=> rx[1].ev = "ERROR")
         \/ Made /\ call'.res = "OK"
  BY AnswerWaits DEF Tracked
<1>3. rx[1].ev # "CLOSED" /\ rx[1].ev # "CONNECT" /\ 1 \in DOMAIN rx /\ Rest(rx, rx')
  <2>1. "CLOSED" \notin Answers /\ "CONNECT" \notin Answers
    BY Zenon DEF Answers
  <2> QED
    BY <1>1, <2>1, RxRest
<1>5. Order(rx', espLink') /\ Reported(rx', espLink')
  BY <1>1, TailLines DEF Tracked
<1>6. AllKnown'
  <2> SUFFICES ASSUME NEW l \in Link, NEW c \in Conn, NEW i \in 1..(Len(rx') + 1),
                      Needed(rx', espLink', i, l, c)
               PROVE  Known(i, l, c)'
    BY DEF AllKnown
  <2>1. i \in Nat /\ Known(i + 1, l, c)
    BY <1>1, NeededTail DEF Tracked
  <2>2. ~Accepting(i + 1, l, c) /\ ~Is(rx[1], "CONNECT", l, c)
    BY <1>1, <1>3, Lengths DEF Accepting, Is
  <2>3. (Entered(l, c) => Entered(l, c)') /\ (Own(l, c) => Own(l, c)')
    BY <1>1, <1>2 DEF Entered, Own
  <2> QED
    BY <1>1, <2>1, <2>2, <2>3, ConnectTail DEF Known
<1>7. EntriesLive'
  BY <1>1, <1>3, TailEntries DEF Tracked
<1>8. OwnLive'
  <2>1. (Made' <=> Made) /\ OwnLive
    BY <1>1, <1>2 DEF Made, Tracked
  <2>2. call.op = "connect" => links[call.link] = NoSock
    BY <2>1 DEF OwnLive
  <2>3. call.op = "connect" /\ ~Made => call'.res # "OK"
    BY <1>2, <1>3, <2>1 DEF OwnLive
  <2>4. Made => call'.res # "ERROR"
    BY <1>2, <1>3, <2>1 DEF OwnLive
  <2>5. Made => Ends(rx', espLink, 0, call.link, peer[call.sock])
    <3>1. Made => Ends(rx, espLink, 0, call.link, peer[call.sock])
      BY <2>1 DEF OwnLive
    <3> QED
      BY <1>3, <3>1, EndsRest DEF Is
  <2> QED
    BY <1>1, <1>2, <2>1, <2>2, <2>3, <2>4, <2>5 DEF OwnLive
<1>9. CloseSeen'
  <2>1. call.op = "close" => ~Made /\ CloseSeen
    BY DEF Made, Tracked
  <2>2. ~\E j \in DOMAIN rx : j < 1
    BY Lengths
  <2>3. call.op = "close" /\ call'.res = "OK" => OwnAnswer(rx[1]) /\ rx[1].ev = "OK"
    <3>1. OwnAnswer(rx[1]) /\ rx[1].ev # "ERROR" /\ Waits => rx[1].ev = Expected
      BY <1>3 DEF Waits, OwnWaits
    <3>2. call.op = "close" => Expected = "OK"
      BY DEF Expected
    <3> QED
      BY <1>2, <2>1, <3>1, <3>2 DEF Tracked
  <2>4. call.op = "close" /\ call'.res = "OK" => links[call.link] = NoSock
    BY <1>3, <2>1, <2>2, <2>3 DEF CloseSeen
  <2> QED
    BY <1>1, <1>2, <2>4 DEF CloseSeen
<1> QED
  BY <1>1, <1>2, <1>5, <1>6, <1>7, <1>8, <1>9, SamePlaced DEF Tracked

\* The number of a CONNECT is that of the next one on the link, if the connection
\* is still needed behind it.
LEMMA SameConnect ==
    ASSUME Types, Order(rx, espLink), NEW l \in Link, NEW c \in Conn, NEW p,
           NEW i \in DOMAIN rx, NEW k \in DOMAIN rx, NEW n \in 1..(Len(rx) + 1), i <= k, k < n,
           Is(rx[i], "CONNECT", l, c), Is(rx[k], "CONNECT", l, p), Needed(rx, espLink, n, l, c)
    PROVE  p = c
<1>1. /\ rx[i].ev \in Events /\ rx[i].link = l /\ rx[i].conn = c
      /\ rx[k].ev \in Events /\ rx[k].link = l /\ rx[k].conn = p
  BY DEF Is, Events
<1>2. p \in Nat /\ c \in Nat /\ c # NoConn
  <2>1. 1..nconn \subseteq Nat
    OBVIOUS
  <2>2. GoodLine(rx[k], nconn)
    BY DEF Types, RxTypes
  <2>3. p \in 1..nconn
    BY <1>1, <2>2, Zenon DEF GoodLine
  <2> QED
    BY <2>1, <2>3, Nothing
<1>3. c <= p
  <2>1. i \in Nat /\ k \in Nat
    BY Lengths
  <2>2. CASE i = k
    BY <1>1, <1>2, <2>2
  <2>3. CASE i < k
    BY <1>1, <2>3 DEF Order
  <2> QED
    BY <2>1, <2>2, <2>3
<1>4. p <= c
  <2>1. CASE n \in DOMAIN rx /\ (Is(rx[n], "IPD", l, c) \/ Is(rx[n], "CLOSED", l, c))
    <3>1. rx[n].ev \in Events /\ rx[n].link = l /\ rx[n].conn = c
      BY <2>1 DEF Is, Events
    <3> QED
      BY <1>1, <2>1, <3>1 DEF Order
  <2>2. CASE espLink[l] = c
    BY <1>1, <1>2, <2>2 DEF Order
  <2> QED
    BY <2>1, <2>2 DEF Needed
<1> QED
  BY <1>2, <1>3, <1>4

LEMMA StartTracked ==
    ASSUME Types, Types', Tracked, AcceptStart
    PROVE  Tracked'
<1> DEFINE l0 == rx[1].link
           c0 == rx[1].conn
<1>1. /\ rd = NoLink /\ rx # <<>> /\ rx[1].ev = "CONNECT" /\ rx' = Tail(rx) /\ rd' = l0
      /\ UNCHANGED <<links, node, call, espLink, peer, early>>
  <2>1. rx # <<>> /\ rx' = Tail(rx) /\ rd = NoLink /\ Head(rx).ev = "CONNECT" /\ rd' = Head(rx).link
    BY Zenon DEF AcceptStart
  <2>2. UNCHANGED <<links, node, call, espLink, peer, early>>
    BY DEF AcceptStart, tabVars, sockVars, espVars, ghosts
  <2> QED
    BY <2>1, <2>2, RxRest
<1>2. Is(rx[1], "CONNECT", l0, c0)
  BY <1>1 DEF Is
<1>3. /\ \A i \in DOMAIN rx' : i \in Nat /\ i >= 1 /\ i + 1 \in DOMAIN rx /\ rx'[i] = rx[i + 1]
      /\ \A j \in DOMAIN rx : j \in Nat /\ j >= 1 /\ (j > 1 => j - 1 \in DOMAIN rx' /\ rx'[j - 1] = rx[j])
      /\ 1 \in DOMAIN rx
  BY <1>1, RxRest
<1>4. Waits'
  BY StartWaits DEF Tracked
<1>5. Order(rx', espLink') /\ Reported(rx', espLink')
  BY <1>1, TailLines DEF Tracked
<1> HIDE DEF l0, c0
<1>6. AllKnown'
  <2> SUFFICES ASSUME NEW l \in Link, NEW c \in Conn, NEW i \in 1..(Len(rx') + 1),
                      Needed(rx', espLink', i, l, c)
               PROVE  Known(i, l, c)'
    BY DEF AllKnown
  <2>1. /\ i \in Nat /\ Known(i + 1, l, c) /\ Needed(rx, espLink, i + 1, l, c)
        /\ i + 1 \in 1..(Len(rx) + 1)
    BY <1>1, NeededTail DEF Tracked
  <2>2. ~Accepting(i + 1, l, c)
    BY <1>1, Lengths DEF Accepting
  <2>3. (Entered(l, c) => Entered(l, c)') /\ (Own(l, c) => Own(l, c)')
    BY <1>1 DEF Entered, Own
  <2>4. CASE Is(rx[1], "CONNECT", l, c)
    <3>1. l = l0
      BY <1>2, <2>4 DEF Is
    <3> SUFFICES ASSUME ~Own(l, c) PROVE Accepting(i, l, c)'
      BY <2>3 DEF Known
    <3> SUFFICES ASSUME NEW k \in DOMAIN rx', k < i, EndsAccept(rx[k], l)'
                 PROVE  \E j \in DOMAIN rx' : j < k /\ Is(rx'[j], "STATUS", l, c)
      BY <1>1, <3>1 DEF Accepting
    <3>2. k \in Nat /\ k >= 1 /\ k + 1 \in DOMAIN rx /\ rx'[k] = rx[k + 1] /\ 1 < k + 1 /\ k + 1 < i + 1
          /\ (k + 1) - 1 = k
      BY <1>3, <2>1
    <3>3. EndsAccept(rx[k + 1], l)
      BY <1>1, <3>2 DEF EndsAccept, StatusOK, OwnAnswer, Made
    <3>4. ~(OwnAnswer(rx[k + 1]) /\ Made /\ call.link = l)
      <4> SUFFICES ASSUME OwnAnswer(rx[k + 1]), Made, call.link = l PROVE FALSE
        OBVIOUS
      <4>1. Is(rx[k], "CONNECT", l, peer[call.sock])
        BY <3>2 DEF Tracked, OwnLive
      <4>2. k \in DOMAIN rx
        BY <3>2, RxRest, <1>1
      <4>3. 1 <= k /\ k < i + 1
        BY <2>1, <3>2
      <4>4. peer[call.sock] = c
        BY <1>3, <2>1, <2>4, <4>1, <4>2, <4>3, SameConnect DEF Tracked
      <4> QED
        BY <4>4 DEF Own, Made
    <3>5. StatusOK(rx[k + 1])
      BY <3>3, <3>4 DEF EndsAccept
    <3>6. PICK j \in DOMAIN rx : 1 < j /\ j < k + 1 /\ Is(rx[j], "STATUS", l, c)
      BY <1>3, <2>1, <2>4, <3>2, <3>5, Zenon DEF Tracked, Reported
    <3>7. j - 1 \in DOMAIN rx' /\ rx'[j - 1] = rx[j] /\ j - 1 < k
      BY <1>3, <3>2, <3>6
    <3> QED
      BY <3>6, <3>7
  <2>5. CASE ~Is(rx[1], "CONNECT", l, c)
    BY <1>1, <2>1, <2>2, <2>3, <2>5, ConnectTail DEF Known
  <2> QED
    BY <2>4, <2>5
<1>7. EntriesLive'
  BY <1>1, TailEntries DEF Tracked
<1>8. OwnLive' /\ CloseSeen' /\ PeersPlaced'
  <2>1. OwnLive'
    BY <1>1, TailOwn DEF Tracked, Is, l0
  <2>2. CloseSeen'
    BY <1>1, TailClose DEF Tracked
  <2> QED
    BY <1>1, <2>1, <2>2, SamePlaced DEF Tracked
<1> QED
  BY <1>4, <1>5, <1>6, <1>7, <1>8 DEF Tracked

LEMMA EndTracked ==
    ASSUME Types, Types', Tracked, AcceptEnd, ~astray'
    PROVE  Tracked'
<1>1. /\ rd \in Link /\ rd' = NoLink /\ rx # <<>> /\ rx[1].ev \in {"OK", "ERROR"} /\ rx' = Tail(rx)
      /\ UNCHANGED <<links, node, call, espLink, peer, early>>
  <2>1. rx # <<>> /\ rx' = Tail(rx) /\ rd # NoLink /\ Head(rx).ev \in {"OK", "ERROR"} /\ rd' = NoLink
    BY Zenon DEF AcceptEnd
  <2>2. UNCHANGED <<links, node, call, espLink, peer, early>>
    BY DEF AcceptEnd, tabVars, sockVars, espVars, ghosts
  <2>3. rd \in Link
    BY <2>1 DEF Types, CallTypes
  <2> QED
    BY <2>1, <2>2, <2>3, RxRest
<1>2. Waits' /\ EndsAccept(rx[1], rd)
  BY EndWaits DEF Tracked
<1>3. rx[1].ev # "CLOSED" /\ rx[1].ev # "CONNECT" /\ 1 \in DOMAIN rx /\ 1 \in Nat
      /\ ~\E j \in DOMAIN rx : j < 1
  BY <1>1, RxRest, Lengths
<1>5. Order(rx', espLink') /\ Reported(rx', espLink')
  BY <1>1, TailLines DEF Tracked
<1>6. AllKnown'
  <2> SUFFICES ASSUME NEW l \in Link, NEW c \in Conn, NEW i \in 1..(Len(rx') + 1),
                      Needed(rx', espLink', i, l, c)
               PROVE  Known(i, l, c)'
    BY DEF AllKnown
  <2>1. i \in Nat /\ i >= 1 /\ Known(i + 1, l, c)
    BY <1>1, NeededTail DEF Tracked
  <2>2. ~Is(rx[1], "CONNECT", l, c) /\ 1 < i + 1
    BY <1>3, <2>1 DEF Is
  <2>3. ~Accepting(i + 1, l, c)
    BY <1>2, <1>3, <2>2 DEF Accepting
  <2>4. (Entered(l, c) => Entered(l, c)') /\ (Own(l, c) => Own(l, c)')
    BY <1>1 DEF Entered, Own
  <2> QED
    BY <1>1, <2>1, <2>2, <2>3, <2>4, ConnectTail DEF Known
<1>7. EntriesLive'
  BY <1>1, <1>3, TailEntries DEF Tracked
<1>8. OwnLive' /\ CloseSeen' /\ PeersPlaced'
  <2>1. OwnLive'
    BY <1>1, <1>3, TailOwn DEF Tracked, Is
  <2>2. CloseSeen'
    BY <1>1, <1>3, TailClose DEF Tracked
  <2> QED
    BY <1>1, <2>1, <2>2, SamePlaced DEF Tracked
<1> QED
  BY <1>2, <1>5, <1>6, <1>7, <1>8 DEF Tracked

LEMMA ClientTracked ==
    ASSUME Types, Types', Owners, Tracked, AcceptClient, ~astray'
    PROVE  Tracked'
<1> DEFINE l0 == rx[1].link
           c0 == rx[1].conn
           s0 == nsock + 1
<1>1. /\ rx # <<>> /\ rx[1].ev = "STATUS" /\ rx' = Tail(rx) /\ rd = l0 /\ ~InWindow(l0)
      /\ links[l0] = NoSock /\ s0 \in Sock
      /\ links' = [links EXCEPT ![l0] = s0] /\ peer' = [peer EXCEPT ![s0] = c0]
      /\ UNCHANGED <<node, call, rd, toEsp, espLink, early>>
  <2>1. rx # <<>> /\ rx' = Tail(rx) /\ Head(rx) = rx[1]
    BY RxRest DEF AcceptClient
  <2>2. tcp_server # NoSock /\ nsock \in Nat /\ nsock < MaxSock
    BY Nothing DEF AcceptClient, Types, TableTypes
  <2>3. s0 \in Sock
    BY <2>2, Nothing
  <2>4. /\ rx[1].ev = "STATUS" /\ rd = l0 /\ ~InWindow(l0) /\ links[l0] = NoSock
        /\ links' = [links EXCEPT ![l0] = s0] /\ peer' = [peer EXCEPT ![s0] = c0]
    BY <2>1, <2>2 DEF AcceptClient, NewLinks
  <2>5. UNCHANGED <<node, call, rd, toEsp, espLink, early>>
    BY DEF AcceptClient, espVars
  <2> QED
    BY <2>1, <2>3, <2>4, <2>5
<1>2. l0 \in Link /\ c0 \in Conn /\ 1 \in DOMAIN rx /\ rx[1].ev \in Events
  <2>1. GoodLine(rx[1], nconn) /\ 1 \in DOMAIN rx
    BY <1>1, RxRest
  <2>2. rx[1].ev \in Events
    BY <1>1 DEF Events
  <2>3. l0 \in Link /\ c0 \in 1..nconn
    BY <2>1, <2>2, Zenon DEF GoodLine
  <2>4. 1..nconn \subseteq Conn
    BY Nothing DEF Types, EspTypes
  <2> QED
    BY <2>1, <2>2, <2>3, <2>4
<1>3. Is(rx[1], "STATUS", l0, c0) /\ \A l, c : ~Is(rx[1], "CLOSED", l, c) /\ ~Is(rx[1], "CONNECT", l, c)
  BY <1>1 DEF Is
<1>4. Ends(rx, espLink, 1, l0, c0)
  BY <1>1, <1>2 DEF Tracked, Order
<1> HIDE DEF l0, c0
<1>5. /\ links'[l0] = s0 /\ peer'[s0] = c0 /\ s0 # NoSock /\ c0 # NoConn
      /\ \A l \in Link : l # l0 => links'[l] = links[l]
      /\ \A s \in 1..nsock : peer'[s] = peer[s]
      /\ \A l \in Link : links[l] # NoSock => links[l] \in 1..nsock /\ peer'[links[l]] = peer[links[l]]
      /\ call.op # "none" => call.sock \in 1..nsock /\ peer'[call.sock] = peer[call.sock]
  <2>1. /\ links \in [Link -> Sock \cup {NoSock}] /\ peer \in [Sock -> Conn \cup {NoConn}]
        /\ nsock \in Nat /\ nsock <= MaxSock
    BY Nothing DEF Types, TableTypes
  <2>2. \A s \in 1..nsock : peer'[s] = peer[s]
    BY <1>1, <2>1, Nothing
  <2>3. \A l \in Link : links[l] # NoSock => links[l] \in 1..nsock
    BY <2>1, Nothing DEF Owners, LinkOwners
  <2>4. call.op # "none" => call.sock \in 1..nsock
    BY DEF Types, CallTypes
  <2>5. links'[l0] = s0 /\ peer'[s0] = c0 /\ \A l \in Link : l # l0 => links'[l] = links[l]
    BY <1>1, <1>2, <2>1
  <2> QED
    BY <1>1, <1>2, <2>2, <2>3, <2>4, <2>5, Nothing
<1>6. (Made' <=> Made) /\ (call.op = "connect" => call.link # l0 /\ peer'[call.sock] = peer[call.sock])
  BY <1>1, <1>5 DEF Made, InWindow
<1>7. Waits'
  BY <1>1, <1>2, <1>6, EventWaits DEF Tracked
<1>8. Order(rx', espLink') /\ Reported(rx', espLink')
  BY <1>1, TailLines DEF Tracked
<1>9. AllKnown'
  <2> SUFFICES ASSUME NEW l \in Link, NEW c \in Conn, NEW i \in 1..(Len(rx') + 1),
                      Needed(rx', espLink', i, l, c)
               PROVE  Known(i, l, c)'
    BY DEF AllKnown
  <2>1. i \in Nat /\ Known(i + 1, l, c)
    BY <1>1, NeededTail DEF Tracked
  <2>2. Accepting(i + 1, l, c) => Accepting(i, l, c)' \/ Entered(l, c)'
    <3>1. CASE Is(rx[1], "STATUS", l, c)
      <4>1. l = l0 /\ c = c0
        BY <1>3, <3>1 DEF Is
      <4> QED
        BY <1>5, <4>1 DEF Entered
    <3>2. CASE ~Is(rx[1], "STATUS", l, c)
      BY <1>1, <1>6, <2>1, <3>2, AcceptingTail
    <3> QED
      BY <3>1, <3>2
  <2>3. Entered(l, c) => Entered(l, c)'
    BY <1>1, <1>5 DEF Entered
  <2>4. Own(l, c) => Own(l, c)'
    BY <1>1, <1>6 DEF Own
  <2>5. ~Is(rx[1], "CONNECT", l, c)
    BY <1>3
  <2> QED
    BY <1>1, <2>1, <2>2, <2>3, <2>4, <2>5, ConnectTail DEF Known
<1>10. EntriesLive'
  <2> SUFFICES ASSUME NEW l \in Link, links'[l] # NoSock
               PROVE  peer'[links'[l]] # NoConn /\ Ends(rx', espLink, 0, l, peer'[links'[l]])
    BY <1>1 DEF EntriesLive
  <2>1. Rest(rx, rx') /\ 0 + 1 = 1
    BY <1>1, RxRest
  <2>2. CASE l = l0
    <3>1. Ends(rx', espLink, 0, l0, c0)
      BY <1>4, <2>1, EndsRest
    <3> QED
      BY <1>5, <2>2, <3>1
  <2>3. CASE l # l0
    <3>1. peer[links[l]] # NoConn /\ Ends(rx, espLink, 0, l, peer[links[l]])
      BY <1>5, <2>3 DEF EntriesLive, Tracked
    <3>2. links'[l] = links[l] /\ peer'[links[l]] = peer[links[l]]
      BY <1>5, <2>3
    <3>3. Ends(rx', espLink, 0, l, peer[links[l]])
      BY <1>3, <2>1, <3>1, EndsRest
    <3> QED
      BY <3>1, <3>2, <3>3
  <2> QED
    BY <2>2, <2>3
<1>11. call.op \in {"connect", "close"} => call.link \in Link /\ call.link # l0
  BY <1>1 DEF Types, CallTypes, LinkCalls, InWindow
<1>12. OwnLive' /\ CloseSeen'
  <2>1. OwnLive'
    BY <1>1, <1>3, <1>5, <1>6, <1>11, TailOwn DEF Tracked
  <2>2. CloseSeen'
    BY <1>1, <1>5, <1>11, TailClose DEF Tracked
  <2> QED
    BY <2>1, <2>2
<1>13. PeersPlaced'
  <2> SUFFICES ASSUME NEW s \in Sock, peer'[s] # NoConn
               PROVE  \/ \E l \in Link : links'[l] = s
                      \/ call.op = "connect" /\ call.sock = s
                      \/ node[s] = "gone"
                      \/ s \in early
    BY <1>1 DEF PeersPlaced
  <2>1. CASE s = s0
    BY <1>2, <1>5, <2>1
  <2>2. CASE s # s0
    <3>1. peer[s] # NoConn
      BY <1>1, <2>2 DEF Types, TableTypes
    <3>2. ASSUME NEW l \in Link, links[l] = s PROVE links'[l] = s
      BY <1>1, <1>5, <3>2, Nothing
    <3> QED
      BY <3>1, <3>2 DEF Tracked, PeersPlaced
  <2> QED
    BY <2>1, <2>2
<1> QED
  BY <1>7, <1>8, <1>9, <1>10, <1>12, <1>13 DEF Tracked

LEMMA ReadTracked ==
    ASSUME Types, Types', Owners, Tracked, ReadThread, ~astray'
    PROVE  Tracked' /\ (fault # "recv" => fault' # "recv") /\ (mixed' => mixed)
<1>1. CASE Recv
  BY <1>1, RecvTracked
<1>2. CASE ~Recv
  <2>1. ~AcceptDrop
    BY Zenon DEF AcceptDrop
  <2>2. Closed \/ Answer \/ Ignore \/ AcceptStart \/ AcceptEnd \/ AcceptClient
    BY <1>2, <2>1 DEF ReadThread
  <2>3. Answer => UNCHANGED <<fault, ghosts>>
    BY Zenon DEF Answer
  <2>4. UNCHANGED <<fault, mixed>>
    BY <2>2, <2>3 DEF Closed, Ignore, AcceptStart, AcceptEnd, AcceptClient, ghosts
  <2>5. Tracked'
    BY <2>2, ClosedTracked, AnswerTracked, IgnoreTracked, StartTracked, EndTracked, ClientTracked
  <2> QED
    BY <2>4, <2>5
<1> QED
  BY <1>1, <1>2

-----------------------------------------------------------------------------
(* The driver's table: lines of the ESP8266 *)

\* A line that was there, and what is in front of it.
LEMMA FrontLine ==
    ASSUME Front(rx, rx'), NEW i \in DOMAIN rx
    PROVE  i \in DOMAIN rx' /\ rx'[i] = rx[i] /\ i \in Nat /\ i >= 1 /\ i <= Len(rx)
  BY DEF Front

\* Nobody is forgotten when lines come, if an answer that ends accept comes with
\* the state of the link.
LEMMA ExtendsKnown ==
    ASSUME Types, Types', AllKnown, Extends(rx, espLink, rx', espLink'), UNCHANGED rd,
           \A l \in Link, c \in Conn : Entered(l, c) => Entered(l, c)',
           \A l \in Link, c \in Conn : Own(l, c) => Own(l, c)',
           \A l \in Link, k \in DOMAIN rx : EndsAccept(rx[k], l)' => EndsAccept(rx[k], l),
           \A l \in Link, k \in DOMAIN rx' : k > Len(rx) /\ EndsAccept(rx[k], l)' /\ espLink[l] # NoConn =>
               \E j \in DOMAIN rx' : j < k /\ Is(rx'[j], "STATUS", l, espLink[l])
    PROVE  AllKnown'
<1> SUFFICES ASSUME NEW l \in Link, NEW c \in Conn, NEW i \in 1..(Len(rx') + 1),
                    Needed(rx', espLink', i, l, c)
             PROVE  Known(i, l, c)'
  BY DEF AllKnown
<1>1. Front(rx, rx') /\ Len(rx) \in Nat /\ i \in Nat /\ i >= 1
  BY DEF Extends, Front
<1>2. ASSUME NEW n \in Nat, n <= i, Known(n, l, c),
             \A k \in DOMAIN rx' : k > Len(rx) /\ k < i /\ EndsAccept(rx[k], l)' =>
                 \E j \in DOMAIN rx' : j < k /\ Is(rx'[j], "STATUS", l, c),
             \A k \in DOMAIN rx : k < i => k < n
      PROVE  Known(i, l, c)'
  <2>1. CASE Entered(l, c) \/ Own(l, c)
    BY <2>1 DEF Known
  <2>2. CASE \E j \in DOMAIN rx : j < n /\ Is(rx[j], "CONNECT", l, c)
    <3>1. PICK j \in DOMAIN rx : j < n /\ Is(rx[j], "CONNECT", l, c)
      BY <2>2
    <3>2. j \in DOMAIN rx' /\ rx'[j] = rx[j] /\ j < i
      BY <1>1, <1>2, <3>1, FrontLine
    <3> QED
      BY <3>1, <3>2 DEF Known
  <2>3. CASE Accepting(n, l, c)
    <3> SUFFICES ASSUME NEW k \in DOMAIN rx', k < i, EndsAccept(rx[k], l)'
                 PROVE  \E j \in DOMAIN rx' : j < k /\ Is(rx'[j], "STATUS", l, c)
      BY <2>3 DEF Known, Accepting
    <3>1. CASE k \in DOMAIN rx
      <4>1. rx'[k] = rx[k] /\ k < n
        BY <1>1, <1>2, <3>1, FrontLine
      <4>2. PICK j \in DOMAIN rx : j < k /\ Is(rx[j], "STATUS", l, c)
        BY <2>3, <3>1, <4>1 DEF Accepting
      <4> QED
        BY <1>1, <4>2, FrontLine
    <3>2. CASE k \notin DOMAIN rx
      <4>1. k > Len(rx)
        BY <1>1, <3>2, FrontCases
      <4> QED
        BY <1>2, <4>1
    <3> QED
      BY <3>1, <3>2
  <2> QED
    BY <1>2, <2>1, <2>2, <2>3 DEF Known
<1>3. CASE i <= Len(rx) /\ Needed(rx, espLink, i, l, c)
  <2>1. Known(i, l, c)
    <3>1. i \in 1..(Len(rx) + 1)
      BY <1>1, <1>3
    <3> QED
      BY <1>3, <3>1 DEF AllKnown
  <2>2. \A k \in DOMAIN rx' : ~(k > Len(rx) /\ k < i)
    BY <1>1, <1>3 DEF Front
  <2> QED
    BY <1>1, <1>2, <2>1, <2>2
<1>4. CASE i > Len(rx) /\ espLink[l] = c
  <2>1. Known(Len(rx) + 1, l, c)
    <3>1. Len(rx) + 1 \in 1..(Len(rx) + 1)
      BY <1>1
    <3>2. Needed(rx, espLink, Len(rx) + 1, l, c)
      BY <1>4 DEF Needed
    <3> QED
      BY <3>1, <3>2 DEF AllKnown
  <2>2. espLink[l] # NoConn
    BY <1>4, Nothing
  <2>3. Len(rx) + 1 \in Nat /\ Len(rx) + 1 <= i /\ \A k \in DOMAIN rx : k < i => k < Len(rx) + 1
    BY <1>1, <1>4 DEF Front
  <2> QED
    BY <1>2, <1>4, <2>1, <2>2, <2>3
<1>5. CASE \E j \in DOMAIN rx' : Len(rx) < j /\ j < i /\ Is(rx'[j], "CONNECT", l, c)
  BY <1>5 DEF Known
<1> QED
  BY <1>3, <1>4, <1>5, Zenon DEF Extends

LEMMA ExtendsEntries ==
    ASSUME Types, EntriesLive, Extends(rx, espLink, rx', espLink'), UNCHANGED links,
           \A l \in Link : links[l] # NoSock => peer'[links[l]] = peer[links[l]]
    PROVE  EntriesLive'
<1> SUFFICES ASSUME NEW l \in Link, links[l] # NoSock
             PROVE  peer'[links[l]] # NoConn /\ Ends(rx', espLink', 0, l, peer'[links[l]])
  BY DEF EntriesLive
<1>1. peer[links[l]] # NoConn /\ Ends(rx, espLink, 0, l, peer[links[l]]) /\ peer'[links[l]] = peer[links[l]]
  BY DEF EntriesLive
<1>2. peer[links[l]] \in Conn
  BY <1>1, Nothing DEF Types, TableTypes
<1>3. 0 \in 0..Len(rx)
  BY Lengths
<1>4. Ends(rx', espLink', 0, l, peer[links[l]])
  BY <1>1, <1>2, <1>3 DEF Extends
<1> QED
  BY <1>1, <1>4

\* Lines without an answer for the call.
LEMMA ExtendsOwn ==
    ASSUME Types, OwnLive, CloseSeen, Extends(rx, espLink, rx', espLink'), UNCHANGED <<links, peer, call, rd>>,
           \A k \in DOMAIN rx' : k > Len(rx) => ~OwnAnswer(rx'[k])
    PROVE  OwnLive' /\ CloseSeen'
<1>1. Front(rx, rx') /\ \A k \in DOMAIN rx' : OwnAnswer(rx'[k]) => k \in DOMAIN rx /\ rx'[k] = rx[k]
  BY FrontCases DEF Extends
<1>2. Made' <=> Made
  BY DEF Made
<1>3. Made => Ends(rx', espLink', 0, call.link, peer[call.sock])
  <2> SUFFICES ASSUME Made PROVE Ends(rx', espLink', 0, call.link, peer[call.sock])
    OBVIOUS
  <2>1. call.link \in Link /\ peer[call.sock] \in Conn /\ 0 \in 0..Len(rx)
    <3>1. call.sock \in Sock
      BY Nothing DEF Made, Types, CallTypes, TableTypes
    <3> QED
      BY <3>1, Lengths DEF Made, Types, CallTypes, TableTypes, LinkCalls
  <2> QED
    BY <2>1 DEF Extends, OwnLive
<1>4. ASSUME Made, NEW k \in DOMAIN rx', OwnAnswer(rx'[k])
      PROVE  /\ rx'[k].ev = "OK"
             /\ \/ k = 1 /\ rd' = call.link
                \/ k > 1 /\ Is(rx'[k - 1], "CONNECT", call.link, peer[call.sock])
  <2>1. k \in DOMAIN rx /\ rx'[k] = rx[k] /\ OwnAnswer(rx[k])
    BY <1>1, <1>4
  <2>2. k > 1 => rx'[k - 1] = rx[k - 1]
    <3>1. k > 1 => k - 1 \in DOMAIN rx
      BY <2>1, Lengths
    <3> QED
      BY <1>1, <3>1, FrontLine
  <2> QED
    BY <1>4, <2>1, <2>2 DEF OwnLive
<1>5. OwnLive'
  BY <1>1, <1>2, <1>3, <1>4 DEF OwnLive
<1>6. CloseSeen'
  <2> SUFFICES ASSUME call.op = "close", NEW k \in DOMAIN rx', OwnAnswer(rx'[k]), rx'[k].ev = "OK"
               PROVE  \/ links[call.link] = NoSock
                      \/ \E j \in DOMAIN rx' : j < k /\ rx'[j].ev = "CLOSED" /\ rx'[j].link = call.link
    BY DEF CloseSeen
  <2>1. k \in DOMAIN rx /\ rx'[k] = rx[k]
    BY <1>1
  <2> QED
    BY <1>1, <2>1, FrontLine DEF CloseSeen
<1> QED
  BY <1>5, <1>6

\* Lines that change nothing but what is under way.
LEMMA ExtendsTracked ==
    ASSUME Types, Types', Tracked, Waits', Extends(rx, espLink, rx', espLink'),
           UNCHANGED <<links, node, call, rd, peer, early>>,
           \A k \in DOMAIN rx' : k > Len(rx) => ~OwnAnswer(rx'[k]),
           \A l \in Link, k \in DOMAIN rx' : k > Len(rx) /\ StatusOK(rx'[k]) /\ espLink[l] # NoConn =>
               \E j \in DOMAIN rx' : j < k /\ Is(rx'[j], "STATUS", l, espLink[l])
    PROVE  Tracked'
<1>1. /\ \A l \in Link, c \in Conn : Entered(l, c) => Entered(l, c)'
      /\ \A l \in Link, c \in Conn : Own(l, c) => Own(l, c)'
      /\ Made' <=> Made
  BY DEF Entered, Own, Made
<1>2. \A l \in Link, k \in DOMAIN rx : EndsAccept(rx[k], l)' => EndsAccept(rx[k], l)
  BY <1>1, FrontLine DEF EndsAccept, Extends, StatusOK, OwnAnswer
<1>3. \A l \in Link, k \in DOMAIN rx' : k > Len(rx) /\ EndsAccept(rx[k], l)' => StatusOK(rx'[k])
  BY DEF EndsAccept, StatusOK, OwnAnswer
<1>4. AllKnown'
  BY <1>1, <1>2, <1>3, ExtendsKnown DEF Tracked
<1>5. EntriesLive' /\ OwnLive' /\ CloseSeen'
  BY ExtendsEntries, ExtendsOwn DEF Tracked
<1>6. PeersPlaced'
  BY SamePlaced DEF Tracked
<1>7. Order(rx', espLink') /\ Reported(rx', espLink')
  BY DEF Extends
<1> QED
  BY <1>4, <1>5, <1>6, <1>7 DEF Tracked

LEMMA NetworkTracked ==
    ASSUME Types, Types', Tracked, Network
    PROVE  Tracked'
<1>1. PICK o \in Link : RemoteConnect(o) \/ RemoteClose(o) \/ RemoteData(o)
  BY DEF Network
<1>2. UNCHANGED <<links, node, call, rd, toEsp, peer, early>>
  BY <1>1 DEF RemoteConnect, RemoteClose, RemoteData, sockVars, tabVars, ghosts
<1>3. /\ Extends(rx, espLink, rx', espLink') /\ Len(rx) \in Nat /\ Len(rx') = Len(rx) + 1
      /\ rx'[Len(rx) + 1].ev \in Events /\ \A i \in DOMAIN rx' : i > Len(rx) => i = Len(rx) + 1
  BY <1>1, NetworkExtends DEF Tracked
<1>4. /\ \A k \in DOMAIN rx' : k > Len(rx) => LineKind(rx'[k]) = "event" /\ ~OwnAnswer(rx'[k]) /\ ~StatusOK(rx'[k])
  BY <1>3, EventKind
<1>5. Front(rx, rx')
  BY <1>3 DEF Extends
<1>6. Waits'
  <2>1. NoMore(OwnItems, OwnItems') /\ NoMore(StatusItems, StatusItems')
    BY <1>2, <1>4, <1>5, ItemsEvents, Lengths DEF OwnItems, StatusItems
  <2>2. (Swapped' <=> Swapped) /\ Expected' = Expected /\ (Made' <=> Made)
    BY <1>2, <2>1 DEF Swapped, Expected, Made, NoMore
  <2>3. \A i \in DOMAIN rx' : OwnAnswer(rx'[i]) => rx'[i].ev \in {Expected, "ERROR"}
    BY <1>4, <1>5, FrontCases DEF Tracked, Waits, OwnWaits
  <2>4. OwnWaits'
    BY <1>2, <2>1, <2>2, <2>3 DEF Tracked, Waits, OwnWaits, NoMore
  <2>5. StatusWaits'
    BY <1>2, <2>1, <2>2 DEF Tracked, Waits, StatusWaits, NoMore
  <2> QED
    BY <2>4, <2>5 DEF Waits
<1> QED
  BY <1>2, <1>3, <1>4, <1>6, ExtendsTracked

LEMMA ReportsTracked ==
    ASSUME Types, Types', Tracked, EspFrame, EspReports(toEsp[1])
    PROVE  Tracked'
<1>1. /\ toEsp # <<>> /\ toEsp' = Tail(toEsp) /\ UNCHANGED <<links, node, call, rd, peer, early>>
      /\ toEsp[1].req = "status" /\ ReqKind(toEsp[1]) = "status"
  BY DEF EspFrame, EspReports, sockVars, tabVars, ReqKind
<1>2. GoodReq(toEsp[1])
  BY <1>1, Lengths, TailFacts DEF Types, ReqTypes
<1>3. /\ Extends(rx, espLink, rx', espLink') /\ Len(rx) \in Nat /\ Len(rx') \in Nat /\ Len(rx') > Len(rx)
      /\ \A i \in DOMAIN rx' : i > Len(rx) /\ i < Len(rx') => rx'[i].ev = "STATUS"
      /\ StatusOK(rx'[Len(rx')]) /\ ~OwnAnswer(rx'[Len(rx')])
      /\ \A l \in Link : espLink[l] # NoConn =>
             \E j \in DOMAIN rx' : Len(rx) < j /\ j < Len(rx') /\ Is(rx'[j], "STATUS", l, espLink[l])
  BY <1>2, ReportExtends DEF Tracked
<1>4. Front(rx, rx')
  BY <1>3 DEF Extends
<1>5. /\ \A i \in DOMAIN rx' : i > Len(rx) /\ i < Len(rx') =>
             LineKind(rx'[i]) = "event" /\ ~OwnAnswer(rx'[i]) /\ ~StatusOK(rx'[i])
      /\ LineKind(rx'[Len(rx')]) = "status"
  <2>1. "STATUS" \in Events
    BY DEF Events
  <2> QED
    BY <1>3, <2>1, EventKind, Kinds
<1>6. Waits'
  BY <1>1, <1>3, <1>4, <1>5, AnsweredWaits DEF Tracked
<1>7. \A k \in DOMAIN rx' : k > Len(rx) => k = Len(rx') \/ k < Len(rx')
  BY <1>3, <1>4 DEF Front
<1>8. \A k \in DOMAIN rx' : k > Len(rx) => ~OwnAnswer(rx'[k])
  BY <1>3, <1>5, <1>7
<1>9. \A l \in Link, k \in DOMAIN rx' : k > Len(rx) /\ StatusOK(rx'[k]) /\ espLink[l] # NoConn =>
          \E j \in DOMAIN rx' : j < k /\ Is(rx'[j], "STATUS", l, espLink[l])
  BY <1>3, <1>5, <1>7
<1> QED
  BY <1>1, <1>3, <1>6, <1>8, <1>9, ExtendsTracked

\* A command is refused, or answered without a line about a link.
LEMMA AnswersTracked ==
    ASSUME Types, Types', Tracked, EspFrame, EspAnswers(toEsp[1])
    PROVE  Tracked'
<1>1. /\ toEsp # <<>> /\ toEsp' = Tail(toEsp) /\ UNCHANGED <<links, node, call, rd, peer, early, espLink>>
      /\ toEsp[1].req # "status" /\ ReqKind(toEsp[1]) = "own"
  <2>1. toEsp[1].req # "status" /\ UNCHANGED <<espLink, nconn, peer>>
    BY Zenon DEF EspAnswers
  <2> QED
    BY <2>1 DEF EspFrame, sockVars, tabVars, ReqKind
<1>2. /\ call.res = "wait" /\ toEsp[1].req = call.op
      /\ call.op = "connect" => peer[call.sock] = NoConn
      /\ \A i \in DOMAIN rx : ~OwnAnswer(rx[i])
  BY <1>1, OwnRequest DEF Tracked
<1>3. ~Made /\ ~Made'
  BY <1>1, <1>2 DEF Made
<1>4. PICK m \in {OK, ERROR, SENDOK} :
          /\ rx' = rx \o <<m>>
          /\ m = OK => call.op \in {"listen", "unlisten", "send"}
          /\ m = SENDOK => call.op = "data"
  <2>1. OK # ERROR /\ OK # SENDOK /\ ERROR # SENDOK
    <3>1. "OK" # "ERROR" /\ "OK" # "SEND OK" /\ "ERROR" # "SEND OK"
      BY Zenon
    <3> QED
      BY <3>1, MsgFields, Zenon
  <2>2. \/ toEsp[1].req \in {"listen", "unlisten", "send"} /\ rx' = rx \o <<OK>>
        \/ rx' = rx \o <<ERROR>>
        \/ toEsp[1].req = "data" /\ rx' = rx \o <<SENDOK>>
    BY Zenon DEF EspAnswers
  <2> HIDE DEF OK, ERROR, SENDOK
  <2> QED
    BY <1>2, <2>1, <2>2
<1>5. /\ m \in Line /\ OwnAnswer(m) /\ ~StatusOK(m) /\ m.ev \in Answers
      /\ m.ev \in {Expected, "ERROR"}
      /\ call.op \in {"connect", "close"} => m.ev = "ERROR"
  <2>1. m \in Line
    <3>1. 0 \in Nat /\ \E l \in Link : TRUE
      BY NLINKSAssumption DEF Link
    <3> QED
      BY <3>1, GoodLines
  <2>2. OK.ev = "OK" /\ ERROR.ev = "ERROR" /\ SENDOK.ev = "SEND OK"
    BY MsgFields, Zenon
  <2>3. m = OK => m.ev = Expected /\ call.op \notin {"connect", "close"}
    <3>1. m = OK => call.op # "data" /\ call.op \notin {"connect", "close"}
      BY <1>4
    <3> QED
      BY <2>2, <3>1, Zenon DEF Expected
  <2>4. m = SENDOK => m.ev = Expected /\ call.op \notin {"connect", "close"}
    <3>1. m = SENDOK => call.op = "data" /\ call.op \notin {"connect", "close"}
      BY <1>4
    <3> QED
      BY <2>2, <3>1, Zenon DEF Expected
  <2> HIDE DEF OK, ERROR, SENDOK
  <2> QED
    BY <1>4, <2>1, <2>2, <2>3, <2>4, MsgFields, Zenon
<1>6. /\ Extends(rx, espLink, rx', espLink') /\ Len(rx) \in Nat /\ Len(rx') = Len(rx) + 1
      /\ rx'[Len(rx) + 1] = m /\ \A i \in DOMAIN rx' : i > Len(rx) => i = Len(rx) + 1
  BY <1>1, <1>4, <1>5, OneExtends DEF Tracked
<1>7. Front(rx, rx') /\ \A i \in DOMAIN rx' : OwnAnswer(rx'[i]) => rx'[i] = m
  BY <1>2, <1>6, FrontCases DEF Extends
<1>8. Waits'
  <2>1. LineKind(rx'[Len(rx')]) = ReqKind(toEsp[1]) /\ rx'[Len(rx')].ev \in {Expected, "ERROR"}
    BY <1>1, <1>5, <1>6, Kinds
  <2>2. Len(rx') > Len(rx) /\ \A i \in DOMAIN rx' : ~(i > Len(rx) /\ i < Len(rx'))
    BY <1>6
  <2> QED
    BY <1>1, <1>7, <2>1, <2>2, AnsweredWaits DEF Tracked
<1>9. AllKnown'
  <2>1. /\ \A l \in Link, c \in Conn : Entered(l, c) => Entered(l, c)'
        /\ \A l \in Link, c \in Conn : Own(l, c) => Own(l, c)'
    BY <1>1 DEF Entered, Own
  <2>2. \A l \in Link, k \in DOMAIN rx' : EndsAccept(rx[k], l)' => StatusOK(rx'[k])
    BY <1>3 DEF EndsAccept, StatusOK
  <2>3. \A l \in Link, k \in DOMAIN rx : EndsAccept(rx[k], l)' => EndsAccept(rx[k], l)
    BY <1>7, <2>2, FrontLine DEF EndsAccept
  <2>4. \A k \in DOMAIN rx' : k > Len(rx) => ~StatusOK(rx'[k])
    BY <1>5, <1>6
  <2> QED
    BY <1>1, <1>6, <2>1, <2>2, <2>3, <2>4, ExtendsKnown DEF Tracked
<1>10. EntriesLive'
  BY <1>1, <1>6, ExtendsEntries DEF Tracked
<1>11. OwnLive'
  BY <1>1, <1>2, <1>3, <1>5, <1>7 DEF Tracked, OwnLive
<1>12. CloseSeen'
  BY <1>1, <1>2, <1>5, <1>7 DEF CloseSeen
<1>13. PeersPlaced'
  BY <1>1, SamePlaced DEF Tracked
<1> QED
  BY <1>6, <1>8, <1>9, <1>10, <1>11, <1>12, <1>13 DEF Tracked, Extends

LEMMA ClosesTracked ==
    ASSUME Types, Types', Tracked, EspFrame, EspCloses(toEsp[1])
    PROVE  Tracked'
<1> DEFINE q == toEsp[1]
<1>1. /\ toEsp # <<>> /\ toEsp' = Tail(toEsp) /\ UNCHANGED <<links, node, call, rd, peer, early>>
      /\ q.req = "close" /\ ReqKind(q) = "own"
  BY DEF EspFrame, EspCloses, sockVars, tabVars, ReqKind
<1>2. /\ call.res = "wait" /\ q.req = call.op /\ q.link = call.link
      /\ \A i \in DOMAIN rx : ~OwnAnswer(rx[i])
  BY <1>1, OwnRequest DEF Tracked
<1>3. ~Made /\ ~Made' /\ call.op = "close"
  BY <1>1, <1>2 DEF Made
<1>4. /\ Extends(rx, espLink, rx', espLink') /\ Len(rx) \in Nat /\ Len(rx') = Len(rx) + 2
      /\ Is(rx'[Len(rx) + 1], "CLOSED", q.link, espLink[q.link]) /\ rx'[Len(rx) + 2] = OK
      /\ \A i \in DOMAIN rx' : i > Len(rx) => i = Len(rx) + 1 \/ i = Len(rx) + 2
  <2>1. GoodReq(q)
    BY <1>1, Lengths, TailFacts DEF Types, ReqTypes
  <2> QED
    BY <2>1, CloseExtends DEF Tracked
<1>5. /\ OwnAnswer(OK) /\ ~StatusOK(OK) /\ OK.ev = "OK" /\ Expected = "OK"
      /\ LineKind(rx'[Len(rx) + 1]) = "event" /\ ~OwnAnswer(rx'[Len(rx) + 1]) /\ ~StatusOK(rx'[Len(rx) + 1])
  <2>1. Expected = "OK"
    BY <1>3, Zenon DEF Expected
  <2>2. rx'[Len(rx) + 1].ev \in Events
    BY <1>4 DEF Is, Events
  <2>3. OwnAnswer(OK) /\ ~StatusOK(OK) /\ OK.ev = "OK"
    BY MsgFields, Zenon
  <2> QED
    BY <2>1, <2>2, <2>3, EventKind
<1> HIDE DEF q
<1>6. /\ Front(rx, rx') /\ Len(rx) + 1 \in DOMAIN rx'
      /\ \A i \in DOMAIN rx' : OwnAnswer(rx'[i]) => i = Len(rx) + 2
  <2>1. Front(rx, rx') /\ Len(rx) + 1 \in DOMAIN rx'
    BY <1>4 DEF Extends, Front
  <2> QED
    BY <1>2, <1>4, <1>5, <2>1, FrontCases
<1>7. Waits'
  <2>1. Len(rx') > Len(rx) /\ \A i \in DOMAIN rx' : i > Len(rx) /\ i < Len(rx') => i = Len(rx) + 1
    BY <1>4
  <2>2. LineKind(rx'[Len(rx')]) = ReqKind(q) /\ rx'[Len(rx')].ev \in {Expected, "ERROR"}
    BY <1>1, <1>4, <1>5, Kinds
  <2> QED
    BY <1>1, <1>5, <1>6, <2>1, <2>2, AnsweredWaits DEF Tracked, q
<1>8. AllKnown'
  <2>1. /\ \A l \in Link, c \in Conn : Entered(l, c) => Entered(l, c)'
        /\ \A l \in Link, c \in Conn : Own(l, c) => Own(l, c)'
    BY <1>1 DEF Entered, Own
  <2>2. \A l \in Link, k \in DOMAIN rx' : EndsAccept(rx[k], l)' => StatusOK(rx'[k])
    BY <1>3 DEF EndsAccept, StatusOK
  <2>3. \A l \in Link, k \in DOMAIN rx : EndsAccept(rx[k], l)' => EndsAccept(rx[k], l)
    BY <1>6, <2>2, FrontLine DEF EndsAccept
  <2>4. \A k \in DOMAIN rx' : k > Len(rx) => ~StatusOK(rx'[k])
    BY <1>4, <1>5
  <2> QED
    BY <1>1, <1>4, <2>1, <2>2, <2>3, <2>4, ExtendsKnown DEF Tracked
<1>9. EntriesLive'
  BY <1>1, <1>4, ExtendsEntries DEF Tracked
<1>10. OwnLive'
  BY <1>1, <1>3 DEF OwnLive
<1>11. CloseSeen'
  <2>1. /\ rx'[Len(rx) + 1].ev = "CLOSED" /\ rx'[Len(rx) + 1].link = call.link
        /\ Len(rx) + 1 < Len(rx) + 2
    BY <1>2, <1>4 DEF Is
  <2>2. \A k \in DOMAIN rx' : OwnAnswer(rx'[k]) =>
            \E j \in DOMAIN rx' : j < k /\ rx'[j].ev = "CLOSED" /\ rx'[j].link = call.link
    BY <1>6, <2>1
  <2> QED
    BY <1>1, <1>2, <2>2 DEF CloseSeen
<1>12. PeersPlaced'
  BY <1>1, SamePlaced DEF Tracked
<1> QED
  BY <1>4, <1>7, <1>8, <1>9, <1>10, <1>11, <1>12 DEF Tracked, Extends

LEMMA ConnectsTracked ==
    ASSUME Types, Types', Owners, Tracked, EspFrame, EspConnects(toEsp[1])
    PROVE  Tracked'
<1> DEFINE q == toEsp[1]
           p == nconn + 1
           n == Len(rx)
<1>1. /\ toEsp # <<>> /\ toEsp' = Tail(toEsp) /\ UNCHANGED <<links, node, call, rd, early>>
      /\ q.req = "connect" /\ ReqKind(q) = "own" /\ espLink[q.link] = NoConn
      /\ espLink' = [espLink EXCEPT ![q.link] = p] /\ peer' = [peer EXCEPT ![call.sock] = p]
  BY DEF EspFrame, EspConnects, sockVars, tabVars, ReqKind
<1>2. /\ call.res = "wait" /\ q.req = call.op /\ q.link = call.link /\ peer[call.sock] = NoConn
      /\ \A i \in DOMAIN rx : ~OwnAnswer(rx[i])
  BY <1>1, OwnRequest DEF Tracked
<1>3. /\ Extends(rx, espLink, rx', espLink') /\ q.link \in Link /\ n \in Nat /\ Len(rx') = n + 2
      /\ Is(rx'[n + 1], "CONNECT", q.link, p) /\ rx'[n + 2] = OK
      /\ \A i \in DOMAIN rx' : i > n => i = n + 1 \/ i = n + 2
  <2>1. GoodReq(q)
    BY <1>1, Lengths, TailFacts DEF Types, ReqTypes
  <2> QED
    BY <2>1, ConnectExtends DEF Tracked
<1>4. /\ OwnAnswer(OK) /\ ~StatusOK(OK) /\ OK.ev = "OK" /\ Expected = "OK"
      /\ LineKind(rx'[n + 1]) = "event" /\ ~OwnAnswer(rx'[n + 1]) /\ ~StatusOK(rx'[n + 1])
  <2>1. call.op # "data"
    BY <1>1, <1>2
  <2>2. Expected = "OK"
    BY <2>1, Zenon DEF Expected
  <2>3. rx'[n + 1].ev \in Events
    BY <1>3 DEF Is, Events
  <2>4. OwnAnswer(OK) /\ ~StatusOK(OK) /\ OK.ev = "OK"
    BY MsgFields, Zenon
  <2> QED
    BY <2>2, <2>3, <2>4, EventKind
<1>5. /\ call.op = "connect" /\ call.sock \in Sock /\ peer'[call.sock] = p /\ p # NoConn
      /\ espLink'[q.link] = p /\ \A s \in Sock : s # call.sock => peer'[s] = peer[s]
      /\ \A l \in Link : links[l] # call.sock /\ (links[l] # NoSock => peer'[links[l]] = peer[links[l]])
  <2>1. call.op = "connect" /\ nconn \in Nat /\ p # NoConn
    BY <1>1, <1>2, Nothing DEF Types, EspTypes
  <2>2. call.sock \in Sock
    BY <2>1, Nothing DEF Types, CallTypes, TableTypes
  <2>3. \A l \in Link : links[l] # call.sock
    BY <2>1 DEF Owners, LinkOwners
  <2>4. links \in [Link -> Sock \cup {NoSock}] /\ peer \in [Sock -> Conn \cup {NoConn}]
        /\ espLink \in [Link -> Conn \cup {NoConn}]
    BY DEF Types, TableTypes, EspTypes
  <2> HIDE DEF p
  <2> QED
    BY <1>1, <1>3, <2>1, <2>2, <2>3, <2>4
<1> HIDE DEF q, p, n
<1>6. /\ Front(rx, rx') /\ n + 1 \in DOMAIN rx'
      /\ \A i \in DOMAIN rx' : OwnAnswer(rx'[i]) => i = n + 2
  <2>1. Front(rx, rx') /\ n + 1 \in DOMAIN rx'
    BY <1>3 DEF Extends, Front, n
  <2> QED
    BY <1>2, <1>3, <1>4, <2>1, FrontCases DEF n
<1>7. Waits'
  <2>1. Len(rx') > Len(rx) /\ \A i \in DOMAIN rx' : i > Len(rx) /\ i < Len(rx') => i = n + 1
    BY <1>3 DEF n
  <2>2. LineKind(rx'[Len(rx')]) = ReqKind(q) /\ rx'[Len(rx')].ev \in {Expected, "ERROR"}
    BY <1>1, <1>3, <1>4, Kinds
  <2> QED
    BY <1>1, <1>4, <1>6, <2>1, <2>2, AnsweredWaits DEF Tracked, q
<1>8. AllKnown'
  <2>1. \A l \in Link, c \in Conn : Entered(l, c) => Entered(l, c)'
    BY <1>1, <1>5 DEF Entered
  <2>2. \A l \in Link, c \in Conn : ~Own(l, c)
    BY <1>2, Nothing DEF Own
  <2>3. \A l \in Link, k \in DOMAIN rx' : EndsAccept(rx[k], l)' =>
            StatusOK(rx'[k]) \/ (OwnAnswer(rx'[k]) /\ call.link = l)
    BY <1>1 DEF EndsAccept, StatusOK, OwnAnswer
  <2>4. \A l \in Link, k \in DOMAIN rx : EndsAccept(rx[k], l)' => EndsAccept(rx[k], l)
    BY <1>2, <1>6, <2>3, FrontLine DEF EndsAccept
  <2>5. \A k \in DOMAIN rx' : k > Len(rx) => ~StatusOK(rx'[k])
    BY <1>3, <1>4 DEF n
  <2>6. \A l \in Link, k \in DOMAIN rx' : ~(k > Len(rx) /\ EndsAccept(rx[k], l)' /\ espLink[l] # NoConn)
    BY <1>1, <1>2, <2>3, <2>5
  <2> QED
    BY <1>1, <1>3, <2>1, <2>2, <2>4, <2>6, ExtendsKnown DEF Tracked
<1>9. EntriesLive'
  BY <1>1, <1>3, <1>5, ExtendsEntries DEF Tracked
<1>10. OwnLive'
  <2>1. links[call.link] = NoSock
    BY <1>5 DEF Tracked, OwnLive
  <2>2. Ends(rx', espLink', 0, call.link, p)
    BY <1>2, <1>5 DEF Ends
  <2>3. n + 2 > 1 /\ (n + 2) - 1 = n + 1 /\ rx'[n + 2].ev = "OK"
        /\ Is(rx'[n + 1], "CONNECT", call.link, peer'[call.sock])
    BY <1>2, <1>3, <1>4, <1>5
  <2>4. \A k \in DOMAIN rx' : OwnAnswer(rx'[k]) =>
            /\ rx'[k].ev = "OK" /\ k > 1 /\ Is(rx'[k - 1], "CONNECT", call.link, peer'[call.sock])
    BY <1>6, <2>3
  <2>5. Made'
    BY <1>1, <1>5 DEF Made
  <2> QED
    BY <1>1, <1>2, <1>5, <2>1, <2>2, <2>4, <2>5 DEF OwnLive
<1>11. CloseSeen'
  BY <1>1, <1>5 DEF CloseSeen
<1>12. PeersPlaced'
  BY <1>1, <1>5 DEF Tracked, PeersPlaced
<1> QED
  BY <1>3, <1>7, <1>8, <1>9, <1>10, <1>11, <1>12 DEF Tracked, Extends

LEMMA EspTracked ==
    ASSUME Types, Types', Owners, Tracked, Esp, ~astray'
    PROVE  Tracked'
<1>1. /\ EspFrame
      /\ \/ EspConnects(toEsp[1]) \/ EspCloses(toEsp[1])
         \/ EspAnswers(toEsp[1]) \/ EspReports(toEsp[1])
  BY EspCases, Zenon
<1> QED
  BY <1>1, ConnectsTracked, ClosesTracked, AnswersTracked, ReportsTracked, Zenon

-----------------------------------------------------------------------------
(* The driver's table: the application's calls *)

\* The lines are the same, and what the table or the call has of them is kept.
LEMMA SameLines ==
    ASSUME Order(rx, espLink), Reported(rx, espLink), AllKnown, UNCHANGED <<rx, rd, espLink>>, Made' => Made /\ call'.link = call.link,
           \A l \in Link, c \in Conn : Entered(l, c) => Entered(l, c)',
           \A l \in Link, c \in Conn : Own(l, c) => Own(l, c)' \/ Entered(l, c)'
    PROVE  Order(rx', espLink') /\ Reported(rx', espLink') /\ AllKnown'
<1>1. Order(rx', espLink') /\ Reported(rx', espLink')
  OBVIOUS
<1>2. \A l \in Link, k \in DOMAIN rx : EndsAccept(rx[k], l)' => EndsAccept(rx[k], l)
  BY DEF EndsAccept, StatusOK, OwnAnswer
<1>3. \A i, l, c : Accepting(i, l, c) /\ l \in Link => Accepting(i, l, c)'
  BY <1>2 DEF Accepting
<1>4. AllKnown'
  <2> SUFFICES ASSUME NEW l \in Link, NEW c \in Conn, NEW i \in 1..(Len(rx) + 1),
                      Needed(rx, espLink, i, l, c)
               PROVE  Known(i, l, c)'
    BY DEF AllKnown
  <2>1. Known(i, l, c)
    BY DEF AllKnown
  <2> QED
    BY <1>3, <2>1 DEF Known
<1> QED
  BY <1>1, <1>4

\* A call that is not about a link, or that has just written its command.
LEMMA CallTracked ==
    ASSUME Types, Types', Tracked, Waits', call.res # "wait", call.op # "connect", call'.res # "OK",
           UNCHANGED <<rx, rd, espLink, links, peer, early>>,
           \A s \in Sock : peer[s] # NoConn => (node[s] = "gone" => node'[s] = "gone"),
           call'.op = "connect" => peer[call'.sock] = NoConn /\ links[call'.link] = NoSock
    PROVE  Tracked'
<1>1. ~Made /\ ~Made' /\ \A i \in DOMAIN rx : ~OwnAnswer(rx[i])
  <2>1. OwnItems = {}
    BY DEF Tracked, Waits, OwnWaits
  <2> QED
    BY <2>1, NoOwn DEF Made
<1>2. Order(rx', espLink') /\ Reported(rx', espLink') /\ AllKnown'
  <2>1. /\ \A l \in Link, c \in Conn : Entered(l, c) => Entered(l, c)'
        /\ \A l \in Link, c \in Conn : ~Own(l, c)
    BY DEF Entered, Own
  <2> QED
    BY <1>1, <2>1, SameLines DEF Tracked
<1>3. EntriesLive'
  BY DEF Tracked, EntriesLive
<1>4. OwnLive' /\ CloseSeen'
  BY <1>1 DEF OwnLive, CloseSeen
<1>5. PeersPlaced'
  BY DEF Tracked, PeersPlaced
<1> QED
  BY <1>2, <1>3, <1>4, <1>5 DEF Tracked

LEMMA CompleteTracked ==
    ASSUME Types, Types', Owners, Tracked, Complete
    PROVE  Tracked'
<1>1. /\ call.res \in {"OK", "ERROR"} /\ call'.op \in {"none", "data"} /\ call'.res \in {"none", "wait"}
      /\ UNCHANGED <<rx, rd, espLink, peer, node, early>>
      /\ \/ call' = Idle /\ UNCHANGED toEsp
         \/ Request("data", call.sock, call.link)
      /\ \/ links' = links
         \/ call.res = "OK" /\ call.op \in {"connect", "close"}
      /\ call.res = "OK" /\ call.op = "connect" => links' = [links EXCEPT ![call.link] = call.sock]
      /\ call.res = "OK" /\ call.op = "close" => links' = [links EXCEPT ![call.link] = NoSock]
  BY DEF Complete, Request, Idle, sockVars, tabVars, espVars, ghosts
<1>2. Waits'
  <2>1. CASE call' = Idle /\ UNCHANGED toEsp
    BY <1>1, <2>1, CallWaits DEF Tracked, Idle
  <2>2. CASE Request("data", call.sock, call.link)
    BY <1>1, <2>2, RequestWaits DEF Tracked, Calls
  <2> QED
    BY <1>1, <2>1, <2>2
<1>3. ~Made' /\ \A i \in DOMAIN rx : ~OwnAnswer(rx[i])
  <2>1. OwnItems = {}
    BY <1>1 DEF Tracked, Waits, OwnWaits
  <2> QED
    BY <1>1, <2>1, NoOwn DEF Made
<1>4. OwnLive' /\ CloseSeen'
  <2>1. call'.op # "connect" /\ call'.op # "close"
    BY <1>1
  <2> QED
    BY <1>3, <2>1 DEF OwnLive, CloseSeen
<1>5. links \in [Link -> Sock \cup {NoSock}] /\ NoSock \notin Sock
  BY Nothing DEF Types, TableTypes
<1>6. CASE call.op = "connect" /\ call.res = "OK"
  <2>1. /\ call.link \in Link /\ call.sock \in Sock /\ links[call.link] = NoSock /\ Made
        /\ Ends(rx, espLink, 0, call.link, peer[call.sock])
    <3>1. call.link \in Link /\ call.sock \in Sock
      BY <1>6, Nothing DEF Types, CallTypes, TableTypes, LinkCalls
    <3> QED
      BY <1>6, <3>1 DEF Tracked, OwnLive
  <2>2. /\ links'[call.link] = call.sock /\ call.sock # NoSock
        /\ \A l \in Link : l # call.link => links'[l] = links[l]
    BY <1>1, <1>5, <1>6, <2>1
  <2>3. /\ \A l \in Link, c \in Conn : Entered(l, c) => Entered(l, c)'
        /\ \A l \in Link, c \in Conn : Own(l, c) => Entered(l, c)'
    BY <1>1, <2>1, <2>2 DEF Entered, Own
  <2>4. Order(rx', espLink') /\ Reported(rx', espLink') /\ AllKnown'
    BY <1>1, <1>3, <2>3, SameLines DEF Tracked
  <2>5. EntriesLive'
    BY <1>1, <2>1, <2>2 DEF EntriesLive, Tracked, Made
  <2>6. PeersPlaced'
    BY <1>1, <2>1, <2>2, Nothing DEF PeersPlaced, Tracked
  <2> QED
    BY <1>2, <1>4, <2>4, <2>5, <2>6 DEF Tracked
<1>7. CASE ~(call.op = "connect" /\ call.res = "OK")
  <2>1. UNCHANGED links
    <3>1. CASE call.op = "close" /\ call.res = "OK"
      <4>1. call.link \in Link /\ links[call.link] = NoSock
        BY <3>1 DEF Types, CallTypes, LinkCalls, Tracked, CloseSeen
      <4>2. links' = [links EXCEPT ![call.link] = NoSock]
        BY <1>1, <3>1
      <4> QED
        BY <1>5, <4>1, <4>2
    <3> QED
      BY <1>1, <1>7, <3>1
  <2>2. ~Made
    BY <1>1, <1>7 DEF Tracked, OwnLive, Made
  <2>3. call.op = "connect" => peer[call.sock] = NoConn
    BY <2>2 DEF Made
  <2>4. /\ \A l \in Link, c \in Conn : Entered(l, c) => Entered(l, c)'
        /\ \A l \in Link, c \in Conn : ~Own(l, c)
    BY <1>1, <2>1, <2>3, Nothing DEF Entered, Own
  <2>5. Order(rx', espLink') /\ Reported(rx', espLink') /\ AllKnown'
    BY <1>1, <1>3, <2>4, SameLines DEF Tracked
  <2>6. EntriesLive'
    BY <1>1, <2>1 DEF EntriesLive, Tracked
  <2>7. PeersPlaced'
    BY <1>1, <2>1, <2>3 DEF PeersPlaced, Tracked
  <2> QED
    BY <1>2, <1>4, <2>5, <2>6, <2>7 DEF Tracked
<1> QED
  BY <1>6, <1>7

LEMMA AppTracked ==
    ASSUME Types, Types', Owners, Tracked, App
    PROVE  Tracked'
<1>1. UNCHANGED <<rx, rd, espLink, peer, early>>
  BY DEF App, Socket, AcceptNode, Complete, CallGone, Connect, Bind, Listen, AcceptTake, Send, Close,
         espVars, ghosts
<1>2. CASE Socket
  <2>1. /\ UNCHANGED <<links, call, toEsp>> /\ call.op # "connect" /\ call.res = "none"
        /\ nsock + 1 \in Sock /\ node' = [node EXCEPT ![nsock + 1] = "sock"]
    BY <1>2, Nothing DEF Socket, tabVars, Idle, Types, TableTypes
  <2>2. peer[nsock + 1] = NoConn
    BY <2>1, Nothing DEF Owners, SockOwners, Types, TableTypes
  <2>3. \A s \in Sock : peer[s] # NoConn => (node[s] = "gone" => node'[s] = "gone")
    BY <2>1, <2>2 DEF Types, TableTypes
  <2>4. Waits'
    BY <1>1, <2>1, CallWaits DEF Tracked
  <2> QED
    BY <1>1, <2>1, <2>3, <2>4, CallTracked
<1>3. CASE AcceptNode
  <2>1. /\ UNCHANGED <<links, toEsp>> /\ call.op = "accept" /\ call.res = "none" /\ call' = Idle
        /\ node' = [node EXCEPT ![call.sock] = "sock"] /\ node[call.sock] = "none"
    BY <1>3 DEF AcceptNode, tabVars, Types, CallTypes, Owners, ClientOwners
  <2>2. \A s \in Sock : peer[s] # NoConn => (node[s] = "gone" => node'[s] = "gone")
    BY <2>1 DEF Types, TableTypes
  <2>3. Waits'
    BY <1>1, <2>1, CallWaits DEF Tracked, Idle
  <2> QED
    BY <1>1, <2>1, <2>2, <2>3, CallTracked DEF Idle
<1>4. CASE Complete
  BY <1>4, CompleteTracked
<1>5. ASSUME NEW s \in Sock, CallGone(s) \/ Bind(s) \/ AcceptTake(s) PROVE Tracked'
  <2>1. /\ UNCHANGED <<links, toEsp, node>> /\ call.op = "none" /\ call.res = "none"
        /\ call'.op # "connect" /\ call'.res = "none"
    BY <1>5 DEF CallGone, Bind, AcceptTake, sockVars, tabVars, Idle
  <2>2. Waits'
    BY <1>1, <2>1, CallWaits DEF Tracked
  <2> QED
    BY <1>1, <2>1, <2>2, CallTracked
<1>6. ASSUME NEW s \in Sock, Listen(s) \/ Send(s) \/ Close(s) PROVE Tracked'
  <2>1. /\ UNCHANGED <<links, node>> /\ call.op = "none" /\ call.res = "none"
        /\ \E op, l : op \in {"listen", "send", "unlisten", "close"} /\ Request(op, s, l)
    BY <1>6 DEF Listen, Send, Close, sockVars, tabVars, Idle
  <2>2. PICK op, l : op \in {"listen", "send", "unlisten", "close"} /\ Request(op, s, l)
    BY <2>1
  <2>3. op \in Calls /\ op # "connect" /\ call'.op = op /\ call'.res = "wait"
    BY <2>2 DEF Calls, Request
  <2>4. Waits'
    BY <1>1, <2>1, <2>2, <2>3, RequestWaits DEF Tracked
  <2> QED
    BY <1>1, <2>1, <2>3, <2>4, CallTracked
<1>7. ASSUME NEW s \in Sock, Connect(s) PROVE Tracked'
  <2> DEFINE l == get_link_id(NoSock)
  <2>1. /\ UNCHANGED <<links, node>> /\ call.op = "none" /\ call.res = "none"
        /\ node[s] = "sock" /\ s \notin assigned
        /\ IF l = NoLink THEN UNCHANGED <<call, toEsp>> ELSE Request("connect", s, l)
    BY <1>7 DEF Connect, tabVars, Idle
  <2>2. peer[s] = NoConn
    BY <2>1 DEF Owners, SockOwners
  <2>3. CASE l = NoLink
    <3>1. UNCHANGED <<call, toEsp>>
      BY <2>1, <2>3
    <3>2. Waits'
      BY <1>1, <2>1, <3>1, CallWaits DEF Tracked
    <3> QED
      BY <1>1, <2>1, <3>1, <3>2, CallTracked
  <2>4. CASE l # NoLink
    <3>1. Request("connect", s, l) /\ links[l] = NoSock
      BY <2>1, <2>4, LinkIdRange
    <3> HIDE DEF l
    <3>2. call'.op = "connect" /\ call'.res = "wait" /\ call'.sock = s /\ call'.link = l /\ "connect" \in Calls
      BY <3>1 DEF Request, Calls
    <3>3. Waits'
      BY <1>1, <2>1, <2>2, <3>1, <3>2, RequestWaits DEF Tracked
    <3> QED
      BY <1>1, <2>1, <2>2, <3>1, <3>2, <3>3, CallTracked
  <2> QED
    BY <2>3, <2>4
<1> QED
  BY <1>2, <1>3, <1>4, <1>5, <1>6, <1>7 DEF App

-----------------------------------------------------------------------------
(* The invariant and what follows from it *)

LEMMA InitIInv == Init => IInv
<1> SUFFICES ASSUME Init PROVE IInv
  OBVIOUS
<1>1. Types /\ Owners /\ Waits
  BY InitTypes, InitOwners, InitWaits
<1>2. /\ rx = <<>> /\ call.op = "none" /\ rd = NoLink /\ fault = "none" /\ mixed = FALSE
      /\ \A l \in Link : links[l] = NoSock /\ espLink[l] = NoConn
      /\ \A s \in Sock : peer[s] = NoConn
  BY DEF Init, Idle
<1>3. Len(rx) = 0 /\ DOMAIN rx = {}
  BY <1>2
<1>4. Order(rx, espLink) /\ Reported(rx, espLink)
  BY <1>3 DEF Order, Reported
<1>5. AllKnown
  BY <1>2, <1>3, Nothing DEF AllKnown, Needed
<1>6. EntriesLive /\ OwnLive /\ CloseSeen /\ PeersPlaced
  BY <1>2 DEF EntriesLive, OwnLive, CloseSeen, PeersPlaced, Made
<1> QED
  BY <1>1, <1>2, <1>4, <1>5, <1>6 DEF IInv, Tracked

\* A line that went astray stays so.
LEMMA AstrayStays == [Next]_vars /\ astray => astray'
<1> SUFFICES ASSUME [Next]_vars, astray PROVE astray'
  OBVIOUS
<1>1. CASE App
  BY <1>1 DEF App, Socket, AcceptNode, Complete, CallGone, Connect, Bind, Listen, AcceptTake, Send, Close, ghosts
<1>2. CASE ReadThread
  <2>1. Answer => UNCHANGED ghosts
    BY Zenon DEF Answer
  <2>2. AcceptDrop => astray'
    BY Zenon DEF AcceptDrop
  <2> QED
    BY <1>2, <2>1, <2>2 DEF ReadThread, Closed, Recv, Ignore, AcceptStart, AcceptEnd, AcceptClient, ghosts
<1>3. CASE Esp
  <2>1. EspCommand => (astray' <=> astray)
    BY Zenon DEF EspCommand
  <2>2. EspPayload => astray'
    BY Zenon DEF EspPayload
  <2> QED
    BY <1>3, <2>1, <2>2 DEF Esp
<1>4. CASE Network
  BY <1>4 DEF Network, RemoteConnect, RemoteClose, RemoteData, ghosts
<1>5. CASE UNCHANGED vars
  BY <1>5 DEF vars, ghosts
<1> QED
  BY <1>1, <1>2, <1>3, <1>4, <1>5 DEF Next

LEMMA NextIInv == IInv /\ [Next]_vars => IInv'
<1> SUFFICES ASSUME IInv, [Next]_vars PROVE IInv'
  OBVIOUS
<1>1. Types /\ Owners /\ Types' /\ Owners'
  BY TypesStep, OwnersStep DEF IInv
<1> SUFFICES ASSUME ~astray' PROVE Tracked' /\ fault' # "recv" /\ ~mixed'
  BY <1>1 DEF IInv
<1>2. Tracked /\ fault # "recv" /\ ~mixed
  BY AstrayStays DEF IInv
<1>3. CASE App
  <2>1. fault' \in {fault, "call"} /\ UNCHANGED mixed
    BY <1>3 DEF App, Socket, AcceptNode, Complete, CallGone, Connect, Bind, Listen, AcceptTake, Send, Close, ghosts
  <2> QED
    BY <1>1, <1>2, <1>3, <2>1, AppTracked
<1>4. CASE ReadThread
  BY <1>1, <1>2, <1>4, ReadTracked
<1>5. CASE Esp
  <2>1. UNCHANGED <<fault, mixed>>
    BY <1>5, EspCases DEF EspFrame, IInv
  <2> QED
    BY <1>1, <1>2, <1>5, <2>1, EspTracked
<1>6. CASE Network
  <2>1. UNCHANGED <<fault, mixed>>
    BY <1>6 DEF Network, RemoteConnect, RemoteClose, RemoteData, ghosts
  <2> QED
    BY <1>1, <1>2, <1>6, <2>1, NetworkTracked
<1>7. CASE UNCHANGED vars
  <2>1. UNCHANGED <<links, node, call, rd, toEsp, rx, fault, espLink, peer, early, mixed>>
    BY <1>7 DEF vars, sockVars, tabVars, espVars, ghosts
  <2>2. Waits'
    BY <1>2, <2>1, SameWaits, <1>1 DEF Tracked, Made
  <2>3. Order(rx', espLink') /\ Reported(rx', espLink') /\ AllKnown'
    BY <1>2, <2>1, SameLines DEF Tracked, Made, Entered, Own
  <2>4. EntriesLive' /\ CloseSeen' /\ PeersPlaced'
    BY <1>2, <2>1 DEF Tracked, EntriesLive, CloseSeen, PeersPlaced
  <2>5. OwnLive'
    BY <1>2, <2>1 DEF Tracked, OwnLive, Made
  <2> QED
    BY <1>2, <2>1, <2>2, <2>3, <2>4, <2>5 DEF Tracked
<1> QED
  BY <1>3, <1>4, <1>5, <1>6, <1>7 DEF Next

LEMMA LinesFollowed == Spec => []IInv
<1>1. Init => IInv
  BY InitIInv
<1>2. IInv /\ [Next]_vars => IInv'
  BY NextIInv
<1> QED
  BY <1>1, <1>2, PTL DEF Spec

\* recv never finds an empty slot, and the socket it finds is that of the connection
\* the data came from (esp01.c, recv), unless a line went astray.
THEOREM ReceiverIsRight == Spec => []RecvFindsSocket
<1>1. IInv => RecvFindsSocket
  BY DEF IInv, RecvFindsSocket
<1> QED
  BY <1>1, LinesFollowed, PTL

\* When nothing is under way the driver's links are the open links of the ESP8266,
\* each with the socket of its connection.
THEOREM TableFollowsLinks == Spec => []TableAgrees
<1>1. IInv => TableAgrees
  <2> SUFFICES ASSUME IInv, ~astray, call = Idle, rd = NoLink, rx = <<>>, NEW l \in Link
               PROVE  IF links[l] = NoSock THEN espLink[l] = NoConn ELSE espLink[l] = peer[links[l]]
    BY DEF TableAgrees
  <2>1. Len(rx) = 0 /\ DOMAIN rx = {} /\ Tracked /\ Types /\ call.op = "none"
    BY DEF IInv, Idle
  <2>2. ASSUME links[l] = NoSock, espLink[l] # NoConn PROVE FALSE
    <3>1. espLink[l] \in Conn
      BY <2>1, <2>2, Nothing DEF Types, EspTypes
    <3>2. Needed(rx, espLink, 1, l, espLink[l]) /\ 1 \in 1..(Len(rx) + 1)
      BY <2>1 DEF Needed
    <3>3. Known(1, l, espLink[l])
      BY <2>1, <3>1, <3>2 DEF Tracked, AllKnown
    <3> QED
      BY <2>1, <2>2, <3>3, Lengths DEF Known, Entered, Own, Accepting
  <2>3. links[l] # NoSock => espLink[l] = peer[links[l]]
    BY <2>1 DEF Tracked, EntriesLive, Ends
  <2> QED
    BY <2>2, <2>3
<1> QED
  BY <1>1, LinesFollowed, PTL

\* When nothing is under way no descriptor is left whose connection has ended, but
\* those of clients whose connection ended before they had one.
THEOREM EndsReachDescriptors == Spec => []EndNoticed
<1>1. IInv => EndNoticed
  <2> SUFFICES ASSUME IInv, ~astray, call = Idle, rx = <<>>, NEW s \in Sock \ early,
                      node[s] = "sock", peer[s] # NoConn
               PROVE  \E l \in Link : espLink[l] = peer[s]
    BY DEF EndNoticed
  <2>1. DOMAIN rx = {} /\ Tracked /\ call.op = "none" /\ NoSock \notin Sock
    BY Nothing DEF IInv, Idle
  <2>2. PICK l \in Link : links[l] = s
    BY <2>1 DEF Tracked, PeersPlaced
  <2> QED
    BY <2>1, <2>2 DEF Tracked, EntriesLive, Ends
<1> QED
  BY <1>1, LinesFollowed, PTL

=============================================================================

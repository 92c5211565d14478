----------------------------- MODULE SocketTable -----------------------------
(***************************************************************************)
(* What the socket layer promises the threads that use descriptors.  A     *)
(* descriptor stands for one socket, and no other descriptor ever stands   *)
(* for that socket.  It loses the socket when the connection ends, and     *)
(* never gets another one.  A listening socket hands out its clients in    *)
(* the order in which they have come, each of them once.                   *)
(*                                                                         *)
(* Nodes, reference counts and the lookup through them do not appear.      *)
(***************************************************************************)
EXTENDS Naturals, Sequences

CONSTANTS Id, Sock, None

VARIABLES used,     \* descriptors ever handed out
          open,     \* descriptors that are found
          made,     \* sockets ever made
          socket,   \* the socket of each descriptor, or None
          waiting,  \* the clients of each socket, oldest first
          taken     \* the client that is about to get a descriptor, or None

tableVars == <<used, open, made, socket, waiting, taken>>

TableInit ==
    /\ used = {} /\ open = {} /\ made = {}
    /\ socket = [i \in Id |-> None]
    /\ waiting = [s \in Sock |-> <<>>]
    /\ taken = None

\* A descriptor that never was one before stands for s.
Give(i, s) ==
    /\ i \in Id \ used
    /\ used' = used \cup {i}
    /\ open' = open \cup {i}
    /\ socket' = [socket EXCEPT ![i] = s]

\* A socket that never was one before.
New(s) == s \in Sock \ made /\ made' = made \cup {s}

Create(i, s) == New(s) /\ Give(i, s) /\ UNCHANGED <<waiting, taken>>

Come(l, s) ==
    /\ l \in made /\ New(s)
    /\ waiting' = [waiting EXCEPT ![l] = Append(@, s)]
    /\ UNCHANGED <<used, open, socket, taken>>

Take(i) ==
    /\ i \in open /\ socket[i] # None /\ taken = None
    /\ waiting[socket[i]] # <<>>
    /\ taken' = Head(waiting[socket[i]])
    /\ waiting' = [waiting EXCEPT ![socket[i]] = Tail(@)]
    /\ UNCHANGED <<used, open, made, socket>>

Hand(i) == taken # None /\ Give(i, taken) /\ taken' = None /\ UNCHANGED <<made, waiting>>

\* The connection of s ends; every descriptor of s knows.
Hangup(s) ==
    /\ socket' = [i \in Id |-> IF socket[i] = s THEN None ELSE socket[i]]
    /\ UNCHANGED <<used, open, made, waiting, taken>>

Close(i) ==
    /\ i \in open
    /\ open' = open \ {i}
    /\ socket' = [socket EXCEPT ![i] = None]
    /\ UNCHANGED <<used, made, waiting, taken>>

TableNext ==
    \/ \E i \in Id, s \in Sock : Create(i, s)
    \/ \E l, s \in Sock : Come(l, s)
    \/ \E i \in Id : Take(i) \/ Hand(i) \/ Close(i)
    \/ \E s \in Sock : Hangup(s)

TableSpec == TableInit /\ [][TableNext]_tableVars
=============================================================================

------------------------------ MODULE MainApp -------------------------------
(***************************************************************************)
(* main/main.c and main/opt.c: the program from its command line to the    *)
(* threads that read sockets.  As a client (-c <ip>:<port>) it connects    *)
(* and one thread prints what comes; as a server (-c <port>) it accepts    *)
(* clients for ever, with one echoing thread each.                         *)
(*                                                                         *)
(* All threads are given a pointer to the same arg, which the server       *)
(* writes again for the next client.  The calls of the socket layer are    *)
(* abstract here: a stream holds at most Room bytes (32 less one), of      *)
(* which recv of esp01/esp01.c writes as many as there is room for.        *)
(* Sockets have the numbers of the clients, in the order of acceptance; as *)
(* a client the program has socket 1 only.                                 *)
(***************************************************************************)
EXTENDS Inet

CONSTANTS Connection,   \* the arguments of -c: [host, colon, port]
          Room,         \* bytes a stream can hold
          Chunk,        \* bytes a thread reads at once
          MaxClients,   \* clients that connect (a bound)
          MaxUnacked    \* bytes a remote host sends ahead of the acks (a bound)

INT_MAX == 2147483647
Int32 == (-INT_MAX - 1)..INT_MAX

PORTS == 65536   \* values of a uint16_t
Port == 0..PORTS - 1

ASSUME ConnectionAssumption ==
    \A c \in Connection : /\ c.host \in Seq(0..Dot) /\ c.colon \in BOOLEAN
                          /\ c.port \in Int32   \* what atoi makes of it
                          /\ (c.host # <<>> => c.colon)
          /\ inet_addr(c.host) \in Addr   \* a limit of Inet
ASSUME SizeAssumption == {Room, Chunk, MaxClients, MaxUnacked} \subseteq Nat \ {0}

Socket == 1..MaxClients

VARIABLES opts,      \* the options, with the argument of -c and what it says
          pc,        \* where main is
          r,         \* r of main, server and client: whether something failed
          sent,      \* commands of configure sent
          taken,     \* ghost: those the chip has taken
          target,    \* what the chip was asked to connect to or to listen on
          newest,    \* clients accepted
          arg,       \* arg.sock
          th,        \* where the thread made for each client is
          sock,      \* its sock
          got,       \* its n
          connected, \* remote hosts that have connected
          buf,       \* bytes in the stream of each socket
          gone,      \* sockets that are disconnected or closed
          unacked,   \* bytes sent by the remote host and not yet acknowledged
          lost,      \* ghost: some bytes found no room
          greedy,    \* ghost: the remote host had more than Room unacknowledged
          late       \* ghost: arg was written before the thread had read it

setupVars  == <<opts, r, sent, taken, target>>
threadVars == <<th, sock, got>>
remoteVars == <<connected, buf, gone, unacked, lost, greedy>>
vars == <<pc, newest, arg, late, setupVars, threadVars, remoteVars>>

Nowhere == [host |-> <<>>, port |-> -1]

Init ==
    /\ opts \in [dev_mode : {"ap", "client"}, type : {"stream", "dgram"},
                 conn : Connection, ip : {INET_ADDR_ANY}, port : {0}]
    /\ pc = "options" /\ r = FALSE
    /\ sent = 0 /\ taken = {} /\ target = Nowhere
    /\ newest = 0 /\ arg = 0 /\ connected = 0
    /\ th = [s \in Socket |-> "none"]
    /\ sock = [s \in Socket |-> 0] /\ got = [s \in Socket |-> 0]
    /\ buf = [s \in Socket |-> 0] /\ unacked = [s \in Socket |-> 0]
    /\ gone = {} /\ lost = {} /\ greedy = {} /\ late = {}

-----------------------------------------------------------------------------
(* Options and set-up *)

GoTo(l) == pc' = l /\ UNCHANGED <<newest, arg, late, threadVars, remoteVars>>

\* The last colon divides address and port, if something is in front of it;
\* a port of 0 is refused.
ParseOpt ==
    /\ pc = "options"
    /\ LET c == opts.conn
           port == IF c.colon /\ c.host = <<>> THEN 0 ELSE c.port
       IN  /\ opts' = [opts EXCEPT !.ip = inet_addr(c.host), !.port = port]
           /\ GoTo(IF port = 0 THEN "stop" ELSE "init")
    /\ UNCHANGED <<r, sent, taken, target>>

\* netdev_init and esp01_init, which may fail.
InitDevices ==
    /\ pc = "init"
    /\ \E ok \in BOOLEAN : GoTo(IF ok THEN "configure" ELSE "stop") /\ r' = ~ok
    /\ UNCHANGED <<opts, sent, taken, target>>

Config == [ip |-> <<192, 168, 0, 1>>, gw |-> <<192, 168, 0, 1>>,
           netmask |-> <<255, 255, 255, 0>>]

\* The commands of configure, in the order they are sent.
Commands ==
    <<"CWMODE", "CIPDINFO", "CWDHCP">>
    \o (IF opts.dev_mode = "ap" THEN <<"CIPAP", "CWSAP">> ELSE <<"CWJAP">>)

\* Mutant: only the last result counts.
FailedLast(ok) == ~ok

\* r |= ...
Failed(ok) == r \/ ~ok

\* configure: every command is sent, whatever became of those before.
Configure ==
    /\ pc = "configure" /\ sent < Len(Commands)
    /\ \E ok \in BOOLEAN :
           /\ r' = Failed(ok)
           /\ taken' = IF ok THEN taken \cup {Commands[sent + 1]} ELSE taken
    /\ sent' = sent + 1
    /\ UNCHANGED <<pc, opts, target, newest, arg, late, threadVars, remoteVars>>

\* bos_net_configure returns; bos_socket; client or server.
ConfigureDone ==
    /\ pc = "configure" /\ sent = Len(Commands)
    /\ GoTo(IF r THEN "stop" ELSE IF opts.ip = INET_ADDR_ANY THEN "bind" ELSE "connect")
    /\ UNCHANGED setupVars

\* An int as addr.data.port takes it, a uint16_t.
Uint16(n) == n % PORTS

-----------------------------------------------------------------------------
(* The client *)

\* bos_connect: a device must match the address.
ConnectRefused ==
    /\ pc = "connect" /\ ~inet_match_addr(Config, opts.ip)
    /\ GoTo("stop")
    /\ UNCHANGED setupVars

\* CIPSTART, with the address in at most 14 characters and 16 bits of the port.
Connect ==
    /\ pc = "connect" /\ inet_match_addr(Config, opts.ip)
    /\ target' = [host |-> inet_ntoa(opts.ip, 15), port |-> Uint16(opts.port)]
    /\ \E ok \in BOOLEAN :
           IF ok
           THEN pc' = "arg" /\ newest' = 1 /\ connected' = 1
           ELSE pc' = "stop" /\ UNCHANGED <<newest, connected>>
    /\ UNCHANGED <<opts, r, sent, taken, arg, late, threadVars,
                   buf, gone, unacked, lost, greedy>>

\* q at the prompt: the socket is closed, the thread cancelled.
Quit ==
    /\ pc = "prompt"
    /\ pc' = "stop"
    /\ gone' = gone \cup {1}
    /\ th' = [th EXCEPT ![1] = "ended"]
    /\ UNCHANGED <<newest, arg, late, setupVars, sock, got,
                   connected, buf, unacked, lost, greedy>>

-----------------------------------------------------------------------------
(* The server *)

\* Every device matches INET_ADDR_ANY.
Bind ==
    /\ pc = "bind"
    /\ GoTo(IF inet_match_addr(Config, INET_ADDR_ANY) THEN "listen" ELSE "stop")
    /\ UNCHANGED setupVars

\* Only streams listen.
ListenRefused ==
    /\ pc = "listen" /\ opts.type # "stream"
    /\ GoTo("stop")
    /\ UNCHANGED setupVars

\* CIPSERVER, which the chip may refuse.
Listen ==
    /\ pc = "listen" /\ opts.type = "stream"
    /\ target' = [host |-> <<>>, port |-> Uint16(opts.port)]
    /\ \E ok \in BOOLEAN : GoTo(IF ok THEN "accept" ELSE "stop")
    /\ UNCHANGED <<opts, r, sent, taken>>

\* Mutant: the thread is created before its argument is set.
AcceptCreates ==
    /\ pc = "accept" /\ newest < connected
    /\ newest' = newest + 1
    /\ th' = [th EXCEPT ![newest'] = "born"]
    /\ pc' = "arg"
    /\ UNCHANGED <<arg, late, setupVars, sock, got, remoteVars>>

\* bos_accept finds a client.
Accept ==
    /\ pc = "accept" /\ newest < connected
    /\ newest' = newest + 1
    /\ pc' = "arg"
    /\ UNCHANGED <<arg, late, setupVars, threadVars, remoteVars>>

\* arg.sock = client; threads that have not read the old value never will.
SetArg ==
    /\ pc = "arg"
    /\ arg' = newest
    /\ late' = late \cup {s \in Socket : th[s] = "born"}
    /\ pc' = "create"
    /\ UNCHANGED <<newest, setupVars, threadVars, remoteVars>>

Create ==
    /\ pc = "create"
    /\ th' = [th EXCEPT ![newest] = "born"]
    /\ pc' = IF opts.ip = INET_ADDR_ANY THEN "accept" ELSE "prompt"
    /\ UNCHANGED <<newest, arg, late, setupVars, sock, got, remoteVars>>

-----------------------------------------------------------------------------
(* recv_thread.  When main has returned, no thread runs any more. *)

Running == pc # "stop"

Start(s) ==
    /\ Running /\ th[s] = "born"
    /\ th' = [th EXCEPT ![s] = "run"]
    /\ sock' = [sock EXCEPT ![s] = arg]
    /\ UNCHANGED <<pc, newest, arg, late, setupVars, got, remoteVars>>

\* bos_recvfrom returns some bytes.
Recv(s) ==
    /\ Running /\ th[s] = "run"
    /\ sock[s] \notin gone /\ buf[sock[s]] > 0
    /\ th' = [th EXCEPT ![s] = "handle"]
    /\ got' = [got EXCEPT ![s] = Min({Chunk, buf[sock[s]]})]
    /\ buf' = [buf EXCEPT ![sock[s]] = @ - got'[s]]
    /\ UNCHANGED <<pc, newest, arg, late, setupVars, sock,
                   connected, gone, unacked, lost, greedy>>


\* It returns a negative number; bos_close then finds no socket.
RecvGone(s) ==
    /\ Running /\ th[s] = "run"
    /\ sock[s] \in gone
    /\ th' = [th EXCEPT ![s] = "ended"]
    /\ UNCHANGED <<pc, newest, arg, late, setupVars, sock, got, remoteVars>>

\* The bytes are printed.  A server acknowledges them, and bos_send waits for
\* the ESP8266 without a timeout.
Handle(s) ==
    /\ Running /\ th[s] = "handle"
    /\ th' = [th EXCEPT ![s] = IF opts.ip = INET_ADDR_ANY THEN "send" ELSE "run"]
    /\ got' = IF opts.ip = INET_ADDR_ANY THEN got ELSE [got EXCEPT ![s] = 0]
    /\ UNCHANGED <<pc, newest, arg, late, setupVars, sock, remoteVars>>

\* The acknowledgement is on its way: of as many bytes as were printed, not
\* counting a newline at the end and what follows a zero.
Acknowledge(s) ==
    /\ Running /\ th[s] = "send" /\ sock[s] \notin gone
    /\ \E n \in 1..got[s] : unacked' = [unacked EXCEPT ![sock[s]] = @ - n]
    /\ got' = [got EXCEPT ![s] = 0]
    /\ UNCHANGED <<pc, newest, arg, late, setupVars, th, sock,
                   connected, buf, gone, lost, greedy>>

\* bos_send comes back, with or without having sent.  It may never do so: accept
\* of esp01/serial.c may have taken the answer, another thread's command the
\* wakeup, or the ESP8266 may have said something parse_line does not know.
SendReturns(s) ==
    /\ Running /\ th[s] = "send"
    /\ th' = [th EXCEPT ![s] = "run"]
    /\ got' = [got EXCEPT ![s] = 0]
    /\ UNCHANGED <<pc, newest, arg, late, setupVars, sock, remoteVars>>

-----------------------------------------------------------------------------
(* Remote hosts (external), and recv of esp01/esp01.c *)

RemoteConnect ==
    /\ pc \in {"accept", "arg", "create"} /\ opts.ip = INET_ADDR_ANY
    /\ connected < MaxClients
    /\ connected' = connected + 1
    /\ UNCHANGED <<pc, newest, arg, late, setupVars, threadVars,
                   buf, gone, unacked, lost, greedy>>

\* n bytes arrive; those that find no room are dropped.
RemoteSend(s) ==
    /\ Running /\ s <= connected /\ s \notin gone /\ opts.type = "stream"
    /\ \E n \in 1..MaxUnacked - unacked[s] :
           LET room == Room - buf[s]
           IN /\ buf' = [buf EXCEPT ![s] = @ + Min({n, room})]
              /\ lost' = IF n > room THEN lost \cup {s} ELSE lost
              /\ unacked' = [unacked EXCEPT ![s] = @ + n]
              /\ greedy' = IF unacked[s] + n > Room THEN greedy \cup {s} ELSE greedy
    /\ UNCHANGED <<pc, newest, arg, late, setupVars, threadVars, connected, gone>>

\* The connection ends after its socket has got a descriptor.
RemoteClose(s) ==
    /\ Running /\ s <= newest /\ s \notin gone
    /\ gone' = gone \cup {s}
    /\ UNCHANGED <<pc, newest, arg, late, setupVars, threadVars,
                   connected, buf, unacked, lost, greedy>>

-----------------------------------------------------------------------------

\* main up to its loop.
Setup == \/ ParseOpt \/ InitDevices \/ Configure \/ ConfigureDone
         \/ ConnectRefused \/ Connect \/ Bind \/ ListenRefused \/ Listen

\* The loop of the server; the client makes its one thread in the same way.
Serve == Accept \/ SetArg \/ Create

\* The steps of a thread outside the driver's wait.
Thread(s) == Start(s) \/ Recv(s) \/ RecvGone(s) \/ Handle(s)

Send(s) == Acknowledge(s) \/ SendReturns(s)

Remote(s) == RemoteSend(s) \/ RemoteClose(s)

Next == Setup \/ Serve \/ Quit \/ RemoteConnect
        \/ \E s \in Socket : Thread(s) \/ Send(s) \/ Remote(s)

\* The loop of main and the threads go on where they wait for nobody.  The
\* commands of the set-up and bos_send may wait for ever, and the user and the
\* remote hosts need not do anything.
Spec == /\ Init /\ [][Next]_vars
        /\ WF_vars(Serve) /\ \A s \in Socket : WF_vars(Thread(s))

-----------------------------------------------------------------------------
(* Properties *)

\* When the chip is asked to connect or to listen, it has taken the whole
\* configuration and is asked for the very address of the command line, and
\* for its port if that fits the uint16_t it is put into (main.c 91, 134),
\* although send_cmd has room for 14 characters of an address only (esp01.c 261)
\* and configure goes on after a refused command (esp01.c 111-132).
ConnectsAsAsked ==
    target # Nowhere =>
        /\ opts.ip # INET_ADDR_ANY =>
               inet_addr(target.host) = inet_addr(opts.conn.host)
        /\ opts.conn.port \in Port => target.port = opts.conn.port
        /\ taken = {Commands[k] : k \in 1..Len(Commands)}

\* A thread never reads the socket of a client accepted before its own, and it
\* reads its own unless the next client was accepted before it had begun
\* (main.c 113-116, 173).
ThreadServes ==
    \A s \in Socket :
        th[s] \in {"run", "handle", "send"} =>
            /\ sock[s] \in s..newest
            /\ s \notin late => sock[s] = s


\* opt.c 134: -c <ip>:<port> connects to <ip>:<port>.  Once the devices are set
\* up, the chip is asked to.
ConnectionHonoured ==
    pc = "stop" /\ ~r /\ opts.port # 0 /\ opts.ip # INET_ADDR_ANY => target # Nowhere
=============================================================================

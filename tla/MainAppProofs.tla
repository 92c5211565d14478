--------------------------- MODULE MainAppProofs ----------------------------
(***************************************************************************)
(* Theorems about MainApp, for any number of clients, any size of buffers  *)
(* and any arguments: the receive threads serve their own clients although *)
(* they share one argument, and the chip is asked for the connection of    *)
(* the command line, if its port is one.                                   *)
(***************************************************************************)
EXTENDS MainApp, SequenceTheorems, NaturalsInduction, WellFoundedInduction, TLAPS

Early == {"options", "init", "configure", "connect", "bind", "listen"}

Types ==
    /\ newest \in 0..MaxClients /\ connected \in newest..MaxClients
    /\ arg \in 0..newest
    /\ th \in [Socket -> {"none", "born", "run", "handle", "send", "ended"}]
    /\ sock \in [Socket -> Nat]
    /\ late \subseteq Socket

\* Between accepting a client and creating its thread, arg is set; before the
\* first client there are no threads.
Order ==
    /\ pc \in Early => newest = 0
    /\ pc = "arg" => newest \in Socket /\ arg < newest /\ th[newest] = "none"
    /\ pc = "create" => newest \in Socket /\ arg = newest /\ th[newest] = "none"
    /\ pc = "prompt" => newest >= 1
    /\ \A s \in Socket : s > newest => th[s] = "none"

\* A thread that has not read arg yet will find its client there, unless arg
\* has been written since.
Waiting ==
    \A s \in Socket : th[s] = "born" => s <= arg /\ (s \notin late => arg = s)

IInv == Types /\ Order /\ Waiting /\ ThreadServes

LEMMA Clients == MaxClients \in Nat /\ 1 \in Socket
  BY SizeAssumption DEF Socket

LEMMA InitInv == Init => IInv
<1> SUFFICES ASSUME Init PROVE IInv
  OBVIOUS
<1>1. Types
  BY Clients DEF Init, Types
<1>2. Order /\ Waiting /\ ThreadServes
  BY DEF Init, Order, Waiting, ThreadServes
<1> QED
  BY <1>1, <1>2 DEF IInv

\* Steps of main that leave clients and threads alone.
LEMMA GoToInv ==
    ASSUME IInv, NEW l, GoTo(l), l \notin {"arg", "create", "prompt"},
           l \in Early => pc \in Early
    PROVE  IInv'
<1>1. Types' /\ Waiting' /\ ThreadServes'
  BY DEF IInv, GoTo, Types, Waiting, ThreadServes, threadVars, remoteVars
<1>2. Order'
  BY DEF IInv, GoTo, Order, threadVars, remoteVars
<1> QED
  BY <1>1, <1>2 DEF IInv

LEMMA SetUpInv ==
    ASSUME IInv, ParseOpt \/ InitDevices \/ Configure \/ ConfigureDone
                 \/ ConnectRefused \/ Bind \/ ListenRefused \/ Listen
    PROVE  IInv'
<1>1. CASE ParseOpt
  BY <1>1, GoToInv DEF ParseOpt, Early
<1>2. CASE InitDevices
  BY <1>2, GoToInv DEF InitDevices, Early
<1>3. CASE Configure
  BY <1>3 DEF Configure, IInv, Types, Order, Waiting, ThreadServes, threadVars, remoteVars
<1>4. CASE ConfigureDone
  BY <1>4, GoToInv DEF ConfigureDone, Early
<1>5. CASE ConnectRefused
  BY <1>5, GoToInv DEF ConnectRefused, Early
<1>6. CASE Bind
  BY <1>6, GoToInv DEF Bind, Early
<1>7. CASE ListenRefused
  BY <1>7, GoToInv DEF ListenRefused, Early
<1>8. CASE Listen
  BY <1>8, GoToInv DEF Listen, Early
<1> QED
  BY <1>1, <1>2, <1>3, <1>4, <1>5, <1>6, <1>7, <1>8

\* The first client, or the next one: arg is still that of the one before.
LEMMA NewClientInv ==
    ASSUME IInv, newest' = newest + 1, newest' \in Socket, pc' = "arg",
           connected' \in newest'..MaxClients, UNCHANGED <<arg, th, sock, late>>
    PROVE  IInv'
<1>1. newest \in Nat /\ newest + 1 \in Socket /\ newest' \in 0..MaxClients
  BY DEF IInv, Types, Socket
<1>2. Types'
  BY <1>1 DEF IInv, Types
<1>3. Order'
  BY <1>1 DEF IInv, Types, Order, Early, Socket
<1>4. Waiting'
  BY DEF IInv, Waiting
<1>5. ThreadServes'
  BY <1>1 DEF IInv, Types, ThreadServes, Socket
<1> QED
  BY <1>2, <1>3, <1>4, <1>5 DEF IInv

LEMMA ConnectInv == IInv /\ Connect => IInv'
<1> SUFFICES ASSUME IInv, Connect PROVE IInv'
  OBVIOUS
<1>1. newest = 0
  BY DEF Connect, IInv, Order, Early
<1>2. CASE pc' = "arg" /\ newest' = 1 /\ connected' = 1
  BY <1>1, <1>2, Clients, NewClientInv DEF Connect, threadVars, Socket
<1>3. CASE pc' = "stop" /\ UNCHANGED <<newest, connected>>
  BY <1>3 DEF Connect, IInv, Types, Order, Waiting, ThreadServes, threadVars, Early
<1> QED
  BY <1>2, <1>3 DEF Connect

LEMMA AcceptInv == IInv /\ Accept => IInv'
<1> SUFFICES ASSUME IInv, Accept PROVE IInv'
  OBVIOUS
<1>1. newest + 1 \in Socket /\ connected \in newest + 1..MaxClients
  BY Clients DEF Accept, IInv, Types, Socket
<1> QED
  BY <1>1, NewClientInv DEF Accept, threadVars, remoteVars

LEMMA SetArgInv == IInv /\ SetArg => IInv'
<1> SUFFICES ASSUME IInv, SetArg PROVE IInv'
  OBVIOUS
<1>1. newest \in Socket /\ arg < newest /\ arg' = newest /\ pc' = "create"
  BY DEF SetArg, IInv, Order
<1>2. UNCHANGED <<newest, connected, th, sock>>
  BY DEF SetArg, threadVars, remoteVars
<1>3. Types'
  <2>1. late' \subseteq Socket
    BY DEF SetArg, IInv, Types
  <2>2. arg' \in 0..newest'
    BY <1>1, <1>2 DEF IInv, Types
  <2> QED
    BY <1>2, <2>1, <2>2 DEF IInv, Types
<1>4. Order'
  BY <1>1, <1>2 DEF SetArg, IInv, Order, Early
<1>5. Waiting'
  BY <1>1, <1>2 DEF SetArg, IInv, Types, Waiting, Socket
<1>6. ThreadServes'
  BY <1>2 DEF SetArg, IInv, ThreadServes
<1> QED
  BY <1>3, <1>4, <1>5, <1>6 DEF IInv

LEMMA CreateInv == IInv /\ Create => IInv'
<1> SUFFICES ASSUME IInv, Create PROVE IInv'
  OBVIOUS
<1>1. newest \in Socket /\ arg = newest
  BY DEF Create, IInv, Order
<1>2. UNCHANGED <<newest, connected, sock, arg, late>> /\ pc' \in {"accept", "prompt"}
  BY DEF Create, remoteVars
<1>3. th'[newest] = "born" /\ \A s \in Socket \ {newest} : th'[s] = th[s]
  BY <1>1 DEF Create, IInv, Types
<1>4. Types'
  BY <1>1, <1>2 DEF Create, IInv, Types
<1>5. Order'
  BY <1>1, <1>2, <1>3 DEF IInv, Types, Order, Early, Socket
<1>6. Waiting'
  BY <1>1, <1>2, <1>3 DEF IInv, Waiting, Socket
<1>7. ThreadServes'
  BY <1>1, <1>2, <1>3 DEF IInv, ThreadServes
<1> QED
  BY <1>4, <1>5, <1>6, <1>7 DEF IInv

\* A thread goes on with the socket it has read.
LEMMA ThreadInv ==
    ASSUME IInv, NEW s \in Socket, NEW l \in {"run", "handle", "send", "ended"},
           th' = [th EXCEPT ![s] = l], th[s] \in {"run", "handle", "send"} \/ l = "ended",
           UNCHANGED <<newest, connected, arg, late, sock>>,
           \/ pc' = pc /\ th[s] # "none"
           \/ pc' = "stop" /\ s <= newest
    PROVE  IInv'
<1>1. th'[s] = l /\ \A t \in Socket \ {s} : th'[t] = th[t]
  BY DEF IInv, Types
<1>2. Types'
  BY DEF IInv, Types
<1>3. Order'
  BY <1>1 DEF IInv, Order, Early, Types, Socket
<1>4. Waiting'
  BY <1>1 DEF IInv, Waiting
<1>5. ThreadServes'
  BY <1>1 DEF IInv, ThreadServes
<1> QED
  BY <1>2, <1>3, <1>4, <1>5 DEF IInv

LEMMA StartInv == ASSUME IInv, NEW s \in Socket, Start(s) PROVE IInv'
<1>1. /\ th[s] = "born" /\ s \in Nat /\ newest \in Nat /\ arg \in s..newest
      /\ s \notin late => arg = s
  BY DEF Start, IInv, Types, Waiting, Socket
<1>2. UNCHANGED <<pc, newest, connected, arg, late>>
  BY DEF Start, remoteVars
<1>3. /\ th'[s] = "run" /\ sock'[s] = arg
      /\ \A t \in Socket \ {s} : th'[t] = th[t] /\ sock'[t] = sock[t]
  BY DEF Start, IInv, Types
<1>4. Types'
  BY <1>1, <1>2 DEF Start, IInv, Types
<1>5. Order'
  BY <1>1, <1>2, <1>3 DEF IInv, Order
<1>6. Waiting'
  BY <1>2, <1>3 DEF IInv, Waiting
<1>7. ThreadServes'
  BY <1>1, <1>2, <1>3 DEF IInv, ThreadServes
<1> QED
  BY <1>4, <1>5, <1>6, <1>7 DEF IInv

LEMMA StepInv == IInv /\ [Next]_vars => IInv'
<1> SUFFICES ASSUME IInv, [Next]_vars PROVE IInv'
  OBVIOUS
<1>1. CASE Setup \/ Serve
  BY <1>1, SetUpInv, ConnectInv, AcceptInv, SetArgInv, CreateInv DEF Setup, Serve
<1>2. CASE Quit
  BY <1>2, Clients, ThreadInv DEF Quit, IInv, Order
<1>3. CASE RemoteConnect
  <2>1. Types'
    BY <1>3, Clients DEF RemoteConnect, IInv, Types, threadVars
  <2>2. UNCHANGED <<pc, newest, arg, th, sock, late>>
    BY <1>3 DEF RemoteConnect, threadVars
  <2> QED
    BY <2>1, <2>2 DEF IInv, Order, Waiting, ThreadServes
<1>4. ASSUME NEW s \in Socket, Thread(s) PROVE IInv'
  <2>1. CASE Start(s)
    BY <2>1, StartInv
  <2>2. CASE Recv(s)
    BY <2>2, ThreadInv DEF Recv
  <2>3. CASE RecvGone(s)
    BY <2>3, ThreadInv DEF RecvGone, remoteVars
  <2>4. CASE Handle(s)
    BY <2>4, ThreadInv DEF Handle, remoteVars
  <2> QED
    BY <1>4, <2>1, <2>2, <2>3, <2>4 DEF Thread
<1>5. ASSUME NEW s \in Socket, SendReturns(s) PROVE IInv'
  BY <1>5, ThreadInv DEF SendReturns, remoteVars
<1>6. CASE (\E s \in Socket : Acknowledge(s) \/ Remote(s)) \/ UNCHANGED vars
  <2>1. UNCHANGED <<pc, newest, connected, arg, th, sock, late>>
    BY <1>6 DEF Acknowledge, Remote, RemoteSend, RemoteClose, vars, threadVars, remoteVars
  <2> QED
    BY <2>1 DEF IInv, Types, Order, Waiting, ThreadServes
<1> QED
  BY <1>1, <1>2, <1>3, <1>4, <1>5, <1>6 DEF Next, Send

\* A receive thread reads the socket of its own client, or of a later one if
\* arg was written for that before the thread had begun (main.c 113-116, 173).
THEOREM ThreadsServeClients == Spec => []ThreadServes
<1>1. IInv => ThreadServes
  BY DEF IInv
<1> QED
  BY <1>1, InitInv, StepInv, PTL DEF Spec

------------------------------------------------------------------------------
(* Addresses and their text.  Numbers is defined by recursion over the      *)
(* text; that the recursion has a solution, and only one, is shown by       *)
(* looking at the shortest text for which it would not.                     *)

LEMMA LeastNumber ==
    ASSUME NEW T \in SUBSET Nat, T # {}
    PROVE  \E m \in T : \A k \in T : m <= k
<1> DEFINE R == OpToRel(<, Nat)
<1>1. IsWellFoundedOn(R, Nat)
  BY NatLessThanWellFounded, Zenon
<1>2. \A x, y \in Nat : y < x => <<y, x>> \in R
  BY DEF OpToRel
<1> HIDE DEF R
<1>3. PICK m \in T : \A y \in T : ~ (<<y, m>> \in R)
  BY <1>1, WFMin
<1>4. \A k \in T : ~(k < m)
  BY <1>2, <1>3, Zenon
<1>5. \A k \in T : m <= k
  BY <1>4, SMT
<1> QED
  BY <1>5

\* The numbers of k characters, given those of the first k - 1.
NextNumbers(text, k, ns) ==
    IF text[k] = Dot THEN ns
    ELSE IF k = 1 \/ text[k - 1] = Dot THEN Append(ns, text[k])
    ELSE [ns EXCEPT ![Len(ns)] = 10 * @ + text[k]]

\* f has the numbers of the first 0, 1, ... n characters.
Reads(text, f, n) ==
    /\ DOMAIN f = 0..n /\ f = [k \in 0..n |-> f[k]]
    /\ f[0] = <<>> /\ \A k \in 1..n : f[k] = NextNumbers(text, k, f[k - 1])

LEMMA ReadingExists ==
    ASSUME NEW text, NEW n \in Nat
    PROVE  \E f : Reads(text, f, n)
<1> DEFINE T == {m \in Nat : ~ \E f : Reads(text, f, m)}
<1> SUFFICES ASSUME T # {} PROVE FALSE
  OBVIOUS
<1>1. PICK m \in T : \A k \in T : m <= k
  <2>1. T \in SUBSET Nat
    OBVIOUS
  <2> HIDE DEF T
  <2> QED
    BY <2>1, LeastNumber
<1>2. m \in Nat /\ ~ \E f : Reads(text, f, m)
  BY <1>1
<1>3. CASE m = 0
  <2> DEFINE f == [k \in 0..0 |-> <<>>]
  <2>1. Reads(text, f, 0)
    BY DEF Reads
  <2> QED
    BY <1>2, <1>3, <2>1
<1>4. CASE m # 0
  <2>1. m - 1 \in Nat /\ m - 1 \notin T
    BY <1>1, <1>2, <1>4
  <2>2. PICK g : Reads(text, g, m - 1)
    BY <2>1
  <2> DEFINE f == [k \in 0..m |-> IF k = m THEN NextNumbers(text, m, g[m - 1]) ELSE g[k]]
  <2>3. DOMAIN f = 0..m /\ f = [k \in 0..m |-> f[k]]
    OBVIOUS
  <2>4. f[0] = <<>> /\ f[m] = NextNumbers(text, m, f[m - 1])
    BY <1>2, <1>4, <2>2 DEF Reads
  <2>5. ASSUME NEW k \in 1..(m - 1) PROVE f[k] = NextNumbers(text, k, f[k - 1])
    <3>1. k \in 0..m /\ k - 1 \in 0..m /\ k # m /\ k - 1 # m
      BY <1>2
    <3>2. f[k] = g[k] /\ f[k - 1] = g[k - 1]
      BY <3>1
    <3> QED
      BY <2>2, <3>2 DEF Reads
  <2> HIDE DEF f
  <2>6. \A k \in 1..m : k = m \/ k \in 1..(m - 1)
    BY <1>2
  <2>7. Reads(text, f, m)
    BY <2>3, <2>4, <2>5, <2>6 DEF Reads
  <2> QED
    BY <1>2, <2>7
<1> QED
  BY <1>3, <1>4

LEMMA ReadingUnique ==
    ASSUME NEW text, NEW other, NEW f, NEW g, NEW n \in Nat, Reads(text, f, n), Reads(other, g, n),
           \A k \in 1..n : text[k] = other[k]
    PROVE  f[n] = g[n]
<1> DEFINE T == {k \in Nat : k <= n /\ f[k] # g[k]}
<1> SUFFICES ASSUME T # {} PROVE FALSE
  OBVIOUS
<1>1. PICK m \in T : \A k \in T : m <= k
  <2>1. T \in SUBSET Nat
    OBVIOUS
  <2> HIDE DEF T
  <2> QED
    BY <2>1, LeastNumber
<1>2. m \in Nat /\ m <= n /\ f[m] # g[m]
  BY <1>1
<1>3. m # 0
  BY <1>2 DEF Reads
<1>4. f[m - 1] = g[m - 1] /\ m \in 1..n
  BY <1>1, <1>2, <1>3
<1>5. text[m] = other[m] /\ (m = 1 \/ text[m - 1] = other[m - 1])
  BY <1>2, <1>3
<1>6. NextNumbers(text, m, f[m - 1]) = NextNumbers(other, m, g[m - 1])
  BY <1>4, <1>5 DEF NextNumbers
<1> QED
  BY <1>2, <1>4, <1>6 DEF Reads

LEMMA NumbersRead ==
    ASSUME NEW text, Len(text) \in Nat
    PROVE  \E f : Reads(text, f, Len(text)) /\ Numbers(text) = f[Len(text)]
<1> DEFINE n == Len(text)
           IsReading(ns) ==
               ns = [k \in 0..n |->
                        IF k = 0 THEN <<>>
                        ELSE IF text[k] = Dot THEN ns[k - 1]
                        ELSE IF k = 1 \/ text[k - 1] = Dot THEN Append(ns[k - 1], text[k])
                        ELSE [ns[k - 1] EXCEPT ![Len(ns[k - 1])] = 10 * @ + text[k]]]
           g == CHOOSE ns : IsReading(ns)
<1>1. PICK f : Reads(text, f, n)
  BY ReadingExists
<1>2. ASSUME NEW h PROVE IsReading(h) => Reads(text, h, n)
  <2> SUFFICES ASSUME IsReading(h) PROVE Reads(text, h, n)
    OBVIOUS
  <2>1. DOMAIN h = 0..n
    BY Zenon
  <2>2. h[0] = <<>>
    <3>1. 0 \in 0..n
      OBVIOUS
    <3> QED
      BY <3>1, Zenon
  <2>3. ASSUME NEW k \in 1..n PROVE h[k] = NextNumbers(text, k, h[k - 1])
    <3>1. k \in 0..n /\ k # 0
      OBVIOUS
    <3>2. h[k] = IF k = 0 THEN <<>>
                 ELSE IF text[k] = Dot THEN h[k - 1]
                 ELSE IF k = 1 \/ text[k - 1] = Dot THEN Append(h[k - 1], text[k])
                 ELSE [h[k - 1] EXCEPT ![Len(h[k - 1])] = 10 * @ + text[k]]
      BY <3>1, Zenon
    <3> QED
      BY <3>1, <3>2 DEF NextNumbers
  <2>4. h = [k \in 0..n |-> h[k]]
    BY <2>1
  <2> QED
    BY <2>1, <2>2, <2>3, <2>4 DEF Reads
<1>3. IsReading(f)
  <2>1. ASSUME NEW k \in 0..n
        PROVE  f[k] = IF k = 0 THEN <<>>
                      ELSE IF text[k] = Dot THEN f[k - 1]
                      ELSE IF k = 1 \/ text[k - 1] = Dot THEN Append(f[k - 1], text[k])
                      ELSE [f[k - 1] EXCEPT ![Len(f[k - 1])] = 10 * @ + text[k]]
    <3>1. CASE k = 0
      BY <1>1, <3>1 DEF Reads
    <3>2. CASE k # 0
      <4>1. k \in 1..n
        BY <3>2
      <4> QED
        BY <1>1, <3>2, <4>1 DEF Reads, NextNumbers
    <3> QED
      BY <3>1, <3>2
  <2> QED
    BY <1>1, <2>1, Zenon DEF Reads
<1>4. IsReading(g)
  <2> HIDE DEF IsReading
  <2> QED
    BY <1>3, Zenon
<1>5. Numbers(text) = g[n]
  BY Zenon DEF Numbers
<1> QED
  BY <1>2, <1>4, <1>5

LEMMA AppendFacts ==
    ASSUME NEW S, NEW t \in Seq(S), NEW c \in S
    PROVE  /\ Append(t, c) \in Seq(S) /\ Len(t) \in Nat /\ Len(Append(t, c)) = Len(t) + 1
           /\ \A i \in 1..Len(t) : Append(t, c)[i] = t[i]
           /\ Append(t, c)[Len(t) + 1] = c
  BY AppendProperties, LenProperties

\* One more character.
LEMMA NumbersAppend ==
    ASSUME NEW t \in Seq(Nat), NEW c \in Nat
    PROVE  Numbers(Append(t, c)) = NextNumbers(Append(t, c), Len(t) + 1, Numbers(t))
<1> DEFINE n == Len(t)
<1>1. PICK u : u = Append(t, c)
  OBVIOUS
<1>2. n \in Nat /\ Len(u) = n + 1 /\ \A i \in 1..n : u[i] = t[i]
  BY <1>1, AppendFacts
<1>3. PICK f : Reads(t, f, n) /\ Numbers(t) = f[n]
  BY <1>2, NumbersRead
<1>4. PICK g : Reads(u, g, n + 1) /\ Numbers(u) = g[n + 1]
  BY <1>2, NumbersRead
<1> DEFINE h == [k \in 0..n |-> g[k]]
<1>5. Reads(u, h, n)
  <2>1. \A k \in 1..n : k \in 0..n /\ k - 1 \in 0..n /\ k \in 1..(n + 1)
    BY <1>2
  <2>2. 0 \in 0..n
    BY <1>2
  <2>3. h[0] = <<>> /\ \A k \in 1..n : h[k] = NextNumbers(u, k, h[k - 1])
    BY <1>4, <2>1, <2>2 DEF Reads
  <2>4. DOMAIN h = 0..n /\ h = [k \in 0..n |-> h[k]]
    OBVIOUS
  <2> HIDE DEF h
  <2> QED
    BY <2>3, <2>4 DEF Reads
<1>6. h[n] = f[n] /\ h[n] = g[n]
  <2>1. h[n] = g[n]
    BY <1>2
  <2> HIDE DEF h
  <2>2. f[n] = h[n]
    BY <1>2, <1>3, <1>5, ReadingUnique
  <2> QED
    BY <2>1, <2>2
<1>7. g[n + 1] = NextNumbers(u, n + 1, g[n])
  <2>1. n + 1 \in 1..(n + 1) /\ (n + 1) - 1 = n
    BY <1>2
  <2> QED
    BY <1>4, <2>1 DEF Reads
<1> QED
  BY <1>1, <1>3, <1>4, <1>6, <1>7

LEMMA NoNumbers == Numbers(<<>>) = <<>>
<1>1. Len(<<>>) = 0
  OBVIOUS
<1>2. PICK f : Reads(<<>>, f, 0) /\ Numbers(<<>>) = f[0]
  BY <1>1, NumbersRead
<1> QED
  BY <1>2 DEF Reads

\* A dot ends a number; a digit begins one at the start or behind a dot, and
\* else belongs to the last one.
Ended(t)   == t = <<>> \/ t[Len(t)] = Dot

LEMMA ReadDot ==
    ASSUME NEW t \in Seq(Nat)
    PROVE  Append(t, Dot) \in Seq(Nat) /\ Ended(Append(t, Dot)) /\ Numbers(Append(t, Dot)) = Numbers(t)
<1>1. PICK u : u = Append(t, Dot)
  OBVIOUS
<1>2. Dot \in Nat
  BY DEF Dot
<1>3. u \in Seq(Nat) /\ Len(u) = Len(t) + 1 /\ u[Len(t) + 1] = Dot
  BY <1>1, <1>2, AppendFacts
<1>4. Numbers(u) = NextNumbers(u, Len(t) + 1, Numbers(t))
  BY <1>1, <1>2, NumbersAppend
<1> QED
  BY <1>1, <1>3, <1>4 DEF Ended, NextNumbers

LEMMA ReadFirst ==
    ASSUME NEW t \in Seq(Nat), Ended(t), NEW d \in 0..9
    PROVE  /\ Append(t, d) \in Seq(Nat) /\ ~Ended(Append(t, d))
           /\ Numbers(Append(t, d)) = Append(Numbers(t), d)
<1>1. PICK u : u = Append(t, d)
  OBVIOUS
<1>2. /\ u \in Seq(Nat) /\ Len(t) \in Nat /\ Len(u) = Len(t) + 1 /\ u[Len(t) + 1] = d
      /\ \A i \in 1..Len(t) : u[i] = t[i]
  BY <1>1, AppendFacts
<1>3. Numbers(u) = NextNumbers(u, Len(t) + 1, Numbers(t))
  BY <1>1, NumbersAppend
<1>4. d # Dot
  BY DEF Dot
<1>5. Len(t) + 1 = 1 \/ u[(Len(t) + 1) - 1] = Dot
  <2>1. CASE t = <<>>
    BY <2>1
  <2>2. CASE t # <<>> /\ t[Len(t)] = Dot
    <3>1. Len(t) \in 1..Len(t) /\ (Len(t) + 1) - 1 = Len(t)
      BY <1>2, <2>2, EmptySeq
    <3> QED
      BY <1>2, <2>2, <3>1
  <2> QED
    BY <2>1, <2>2 DEF Ended
<1>6. u # <<>>
  BY <1>2
<1> QED
  BY <1>1, <1>2, <1>3, <1>4, <1>5, <1>6 DEF Ended, NextNumbers

\* The last of several numbers is replaced.
Replaced(ns, y) == [ns EXCEPT ![Len(ns)] = y]

LEMMA LastReplaced ==
    ASSUME NEW s \in Seq(Nat), NEW v \in Nat, NEW y \in Nat
    PROVE  Append(s, v)[Len(Append(s, v))] = v /\ Replaced(Append(s, v), y) = Append(s, y)
<1>0. PICK ns : ns = Append(s, v)
  OBVIOUS
<1>1. /\ ns \in Seq(Nat) /\ Len(s) \in Nat /\ Len(ns) = Len(s) + 1
      /\ \A i \in 1..Len(s) : ns[i] = s[i]
      /\ ns[Len(s) + 1] = v
  BY <1>0, AppendFacts
<1>2. PICK w : w = Append(s, y)
  OBVIOUS
<1>3. /\ w \in Seq(Nat) /\ Len(w) = Len(s) + 1
      /\ \A i \in 1..Len(s) : w[i] = s[i]
      /\ w[Len(s) + 1] = y
  BY <1>2, AppendFacts
<1> DEFINE x == [ns EXCEPT ![Len(ns)] = y]
<1>4. x \in Seq(Nat) /\ Len(x) = Len(s) + 1
  BY <1>1
<1>5. \A i \in 1..Len(s) : x[i] = ns[i]
  <2> SUFFICES ASSUME NEW i \in 1..Len(s) PROVE x[i] = ns[i]
    OBVIOUS
  <2>1. i \in DOMAIN ns /\ i # Len(ns)
    BY <1>1
  <2> QED
    BY <2>1
<1>6. x[Len(s) + 1] = y
  BY <1>1
<1> HIDE DEF x
<1>7. \A i \in 1..(Len(s) + 1) : i \in 1..Len(s) \/ i = Len(s) + 1
  BY <1>1
<1>8. \A i \in 1..(Len(s) + 1) : x[i] = w[i]
  BY <1>1, <1>3, <1>5, <1>6, <1>7, Zenon
<1>9. x = w
  BY <1>3, <1>4, <1>8, SeqEqual, Zenon
<1> QED
  BY <1>0, <1>1, <1>2, <1>9 DEF x, Replaced

Says(t, s, v) == Numbers(t) = Append(s, v)
Shifted(v, d) == 10 * v + d

LEMMA ReadMore ==
    ASSUME NEW t \in Seq(Nat), ~Ended(t), NEW d \in 0..9,
           NEW s \in Seq(Nat), NEW v \in Nat, Says(t, s, v)
    PROVE  /\ Append(t, d) \in Seq(Nat) /\ ~Ended(Append(t, d))
           /\ Says(Append(t, d), s, Shifted(v, d))
<1>0. d \in Nat /\ 10 * v + d \in Nat
  OBVIOUS
<1>1. PICK u : u = Append(t, d)
  OBVIOUS
<1>2. /\ u \in Seq(Nat) /\ Len(t) \in Nat /\ Len(u) = Len(t) + 1 /\ u[Len(t) + 1] = d
      /\ \A i \in 1..Len(t) : u[i] = t[i]
  <2>1. /\ Append(t, d) \in Seq(Nat) /\ Len(t) \in Nat /\ Len(Append(t, d)) = Len(t) + 1
        /\ \A i \in 1..Len(t) : Append(t, d)[i] = t[i]
        /\ Append(t, d)[Len(t) + 1] = d
    BY <1>0, AppendFacts, Zenon
  <2> QED
    BY <1>1, <2>1, Zenon
<1>3. Numbers(u) = NextNumbers(u, Len(t) + 1, Numbers(t))
  BY <1>0, <1>1, NumbersAppend, Zenon
<1>4. d # Dot /\ t # <<>> /\ t[Len(t)] # Dot
  BY DEF Dot, Ended
<1>5. Len(t) \in 1..Len(t) /\ Len(t) + 1 # 1 /\ (Len(t) + 1) - 1 = Len(t) /\ u # <<>>
  BY <1>2, <1>4, EmptySeq
<1>6. u[Len(t)] # Dot /\ u[Len(t) + 1] # Dot
  BY <1>2, <1>4, <1>5, Zenon
<1>7. PICK ns : ns = Numbers(t)
  OBVIOUS
<1>8. Numbers(u) = [ns EXCEPT ![Len(ns)] = 10 * @ + d]
  BY <1>2, <1>3, <1>5, <1>6, <1>7, Zenon DEF NextNumbers
<1>9. [ns EXCEPT ![Len(ns)] = 10 * @ + d] = Append(s, 10 * v + d)
  <2>1. ns = Append(s, v)
    BY <1>7 DEF Says
  <2>2. PICK y : y = 10 * v + d
    OBVIOUS
  <2>3. y \in Nat
    BY <1>0, <2>2
  <2>4. ns[Len(ns)] = v /\ Replaced(ns, y) = Append(s, y)
    <3>1. Append(s, v)[Len(Append(s, v))] = v /\ Replaced(Append(s, v), y) = Append(s, y)
      BY <2>3, LastReplaced, Zenon
    <3> QED
      BY <2>1, <3>1, Zenon
  <2> QED
    BY <2>2, <2>4, Zenon DEF Replaced
<1> QED
  BY <1>1, <1>2, <1>5, <1>6, <1>8, <1>9, Zenon DEF Ended, Shifted, Says

\* A sequence that differs from another by one more element.
LEMMA AppendIs ==
    ASSUME NEW s \in Seq(Nat), NEW u \in Seq(Nat), NEW c \in Nat,
           Len(u) = Len(s) + 1, u[Len(s) + 1] = c, \A i \in 1..Len(s) : u[i] = s[i]
    PROVE  Append(s, c) = u
<1>1. PICK w : w = Append(s, c)
  OBVIOUS
<1>2. /\ w \in Seq(Nat) /\ Len(s) \in Nat /\ Len(w) = Len(s) + 1 /\ w[Len(s) + 1] = c
      /\ \A i \in 1..Len(s) : w[i] = s[i]
  BY <1>1, AppendFacts
<1>3. \A i \in 1..(Len(s) + 1) : i \in 1..Len(s) \/ i = Len(s) + 1
  BY <1>2
<1>4. \A i \in 1..(Len(s) + 1) : w[i] = u[i]
  BY <1>2, <1>3, Zenon
<1>5. w = u
  BY <1>2, <1>4, SeqEqual, Zenon
<1> QED
  BY <1>1, <1>5

LEMMA JoinOne == ASSUME NEW S, NEW s \in Seq(S), NEW a \in S PROVE s \o <<a>> = Append(s, a)
OBVIOUS

\* Appending to short tuples.
LEMMA TwoAppended ==
    ASSUME NEW a \in Nat, NEW b \in Nat
    PROVE  <<a>> \in Seq(Nat) /\ Append(<<a>>, b) = <<a, b>>
<1>1. PICK s, u : s = <<a>> /\ u = <<a, b>>
  OBVIOUS
<1>2. s \in Seq(Nat) /\ Len(s) = 1 /\ s[1] = a /\ u \in Seq(Nat) /\ Len(u) = 2 /\ u[1] = a /\ u[2] = b
  BY <1>1
<1>3. Append(s, b) = u
  <2>1. Len(u) = Len(s) + 1 /\ u[Len(s) + 1] = b /\ \A i \in 1..Len(s) : u[i] = s[i]
    BY <1>2
  <2> QED
    BY <1>2, <2>1, AppendIs, Zenon
<1> QED
  BY <1>1, <1>2, <1>3

LEMMA ThreeAppended ==
    ASSUME NEW a \in Nat, NEW b \in Nat, NEW c \in Nat
    PROVE  <<a, b>> \in Seq(Nat) /\ Append(<<a, b>>, c) = <<a, b, c>>
<1>1. PICK s, u : s = <<a, b>> /\ u = <<a, b, c>>
  OBVIOUS
<1>2. /\ s \in Seq(Nat) /\ Len(s) = 2 /\ s[1] = a /\ s[2] = b
      /\ u \in Seq(Nat) /\ Len(u) = 3 /\ u[1] = a /\ u[2] = b /\ u[3] = c
  BY <1>1
<1>3. Append(s, c) = u
  <2>1. Len(u) = Len(s) + 1 /\ u[Len(s) + 1] = c /\ \A i \in 1..Len(s) : u[i] = s[i]
    BY <1>2
  <2> QED
    BY <1>2, <2>1, AppendIs, Zenon
<1> QED
  BY <1>1, <1>2, <1>3

LEMMA FourAppended ==
    ASSUME NEW a \in Nat, NEW b \in Nat, NEW c \in Nat, NEW d \in Nat
    PROVE  <<a, b, c>> \in Seq(Nat) /\ Append(<<a, b, c>>, d) = <<a, b, c, d>>
<1>1. PICK s, u : s = <<a, b, c>> /\ u = <<a, b, c, d>>
  OBVIOUS
<1>2. /\ s \in Seq(Nat) /\ Len(s) = 3 /\ s[1] = a /\ s[2] = b /\ s[3] = c
      /\ u \in Seq(Nat) /\ Len(u) = 4 /\ u[1] = a /\ u[2] = b /\ u[3] = c /\ u[4] = d
  BY <1>1
<1>3. Append(s, d) = u
  <2>1. Len(u) = Len(s) + 1 /\ u[Len(s) + 1] = d /\ \A i \in 1..Len(s) : u[i] = s[i]
    BY <1>2
  <2> QED
    BY <1>2, <2>1, AppendIs, Zenon
<1> QED
  BY <1>1, <1>2, <1>3

\* The digits of an octet.
LEMMA ReadOctet ==
    ASSUME NEW t \in Seq(Nat), Ended(t), NEW s \in Seq(Nat), Numbers(t) = s, NEW v \in Octet
    PROVE  /\ Digits(v) \in Seq(Nat) /\ t \o Digits(v) \in Seq(Nat)
           /\ Numbers(t \o Digits(v)) = Append(s, v)
           /\ Len(Digits(v)) \in 1..3
<1> DEFINE h == v \div 100
           z == (v \div 10) % 10
           e == v % 10
<1>1. v \in Nat /\ h \in 0..9 /\ z \in 0..9 /\ e \in 0..9
  BY DEF Octet
<1>2. /\ v >= 100 => v = 10 * (10 * h + z) + e
      /\ v < 100 => v = 10 * z + e
      /\ v < 10 => v = e
  BY DEF Octet
<1>3. /\ v >= 100 => Digits(v) = (<<h>> \o <<z>>) \o <<e>>
      /\ v >= 10 /\ v < 100 => Digits(v) = (<<>> \o <<z>>) \o <<e>>
      /\ v < 10 => Digits(v) = (<<>> \o <<>>) \o <<e>>
  <2>1. v >= 100 => v >= 10
    BY <1>1
  <2>2. v < 100 <=> ~(v >= 100)
    BY <1>1
  <2>3. v < 10 <=> ~(v >= 10)
    BY <1>1
  <2> QED
    BY <2>1, <2>2, <2>3, Zenon DEF Digits
<1> HIDE DEF h, z, e
<1>4. h \in Nat /\ z \in Nat /\ e \in Nat /\ 10 * h + z \in Nat
  BY <1>1
<1>5. <<>> \o <<z>> = <<z>> /\ <<>> \o <<>> = <<>> /\ <<>> \o <<e>> = <<e>>
  OBVIOUS
<1>6. CASE v >= 100
  <2>1. Digits(v) = (<<h>> \o <<z>>) \o <<e>>
    BY <1>3, <1>6, Zenon
  <2>2. PICK t1, t2, t3 : t1 = Append(t, h) /\ t2 = Append(t1, z) /\ t3 = Append(t2, e)
    OBVIOUS
  <2>3. t1 \in Seq(Nat) /\ ~Ended(t1) /\ Numbers(t1) = Append(s, h)
    BY <1>1, <2>2, ReadFirst, Zenon
  <2>4. t2 \in Seq(Nat) /\ ~Ended(t2) /\ Numbers(t2) = Append(s, 10 * h + z)
    <3>1. /\ Append(t1, z) \in Seq(Nat) /\ ~Ended(Append(t1, z))
          /\ Says(Append(t1, z), s, Shifted(h, z))
      <4>1. Says(t1, s, h)
        BY <2>3 DEF Says
      <4> QED
        BY <1>1, <1>4, <2>3, <4>1, ReadMore, Zenon
    <3> QED
      BY <2>2, <3>1, Zenon DEF Shifted, Says
  <2>5. t3 \in Seq(Nat) /\ Numbers(t3) = Append(s, 10 * (10 * h + z) + e)
    <3>1. PICK y \in Nat : y = 10 * h + z
      BY <1>4
    <3>2. Says(t2, s, y)
      BY <2>4, <3>1, Zenon DEF Says
    <3>3. Append(t2, e) \in Seq(Nat) /\ Says(Append(t2, e), s, Shifted(y, e))
      BY <1>1, <2>4, <3>2, ReadMore, Zenon
    <3> QED
      BY <2>2, <3>1, <3>3, Zenon DEF Shifted, Says
  <2>6. t3 = t \o ((<<h>> \o <<z>>) \o <<e>>)
    <3>1. t1 = t \o <<h>> /\ t2 = t1 \o <<z>> /\ t3 = t2 \o <<e>>
      BY <1>4, <2>2, <2>3, <2>4, JoinOne, Zenon
    <3>2. <<h>> \in Seq(Nat) /\ <<z>> \in Seq(Nat) /\ <<e>> \in Seq(Nat)
      BY <1>4
    <3>3. (t \o <<h>>) \o <<z>> = t \o (<<h>> \o <<z>>)
      BY <3>2, ConcatAssociative
    <3>4. <<h>> \o <<z>> \in Seq(Nat)
      BY <3>2, ConcatProperties, Zenon
    <3> QED
      BY <3>1, <3>2, <3>3, <3>4, ConcatAssociative
  <2>7. Digits(v) \in Seq(Nat) /\ Len(Digits(v)) = 3
    BY <1>4, <2>1
  <2>8. 10 * (10 * h + z) + e = v
    BY <1>2, <1>6, Zenon
  <2>9. t \o Digits(v) = t3 /\ Numbers(t3) = Append(s, v)
    BY <2>1, <2>5, <2>6, <2>8, Zenon
  <2>10. Len(Digits(v)) \in 1..3
    BY <2>7
  <2> QED
    BY <2>5, <2>7, <2>9, <2>10, Zenon
<1>7. CASE v >= 10 /\ v < 100
  <2>1. Digits(v) = <<z>> \o <<e>>
    BY <1>3, <1>5, <1>7, Zenon
  <2>2. PICK t1, t2 : t1 = Append(t, z) /\ t2 = Append(t1, e)
    OBVIOUS
  <2>3. t1 \in Seq(Nat) /\ ~Ended(t1) /\ Numbers(t1) = Append(s, z)
    BY <1>1, <2>2, ReadFirst, Zenon
  <2>4. t2 \in Seq(Nat) /\ Numbers(t2) = Append(s, 10 * z + e)
    <3>1. Append(t1, e) \in Seq(Nat) /\ Says(Append(t1, e), s, Shifted(z, e))
      <4>1. Says(t1, s, z)
        BY <2>3 DEF Says
      <4> QED
        BY <1>1, <1>4, <2>3, <4>1, ReadMore, Zenon
    <3> QED
      BY <2>2, <3>1, Zenon DEF Shifted, Says
  <2>5. t2 = t \o (<<z>> \o <<e>>)
    <3>1. t1 = t \o <<z>> /\ t2 = t1 \o <<e>>
      BY <1>4, <2>2, <2>3, JoinOne, Zenon
    <3>2. <<z>> \in Seq(Nat) /\ <<e>> \in Seq(Nat)
      BY <1>4
    <3> QED
      BY <3>1, <3>2, ConcatAssociative
  <2>6. Digits(v) \in Seq(Nat) /\ Len(Digits(v)) = 2
    BY <1>4, <2>1
  <2>8. 10 * z + e = v
    BY <1>2, <1>7, Zenon
  <2>9. t \o Digits(v) = t2 /\ Numbers(t2) = Append(s, v)
    BY <2>1, <2>4, <2>5, <2>8, Zenon
  <2>10. Len(Digits(v)) \in 1..3
    BY <2>6
  <2> QED
    BY <2>4, <2>6, <2>9, <2>10, Zenon
<1>8. CASE v < 10
  <2>1. Digits(v) = <<e>>
    BY <1>3, <1>5, <1>8, Zenon
  <2>2. t \o <<e>> = Append(t, e)
    BY <1>4, JoinOne, Zenon
  <2>3. Append(t, e) \in Seq(Nat) /\ Numbers(Append(t, e)) = Append(s, e)
    BY <1>1, ReadFirst, Zenon
  <2>4. Digits(v) \in Seq(Nat) /\ Len(Digits(v)) = 1
    BY <1>4, <2>1
  <2>8. v = e
    BY <1>2, <1>8, Zenon
  <2>9. t \o Digits(v) = Append(t, e) /\ Numbers(Append(t, e)) = Append(s, v)
    BY <2>1, <2>2, <2>3, <2>8, Zenon
  <2>10. Len(Digits(v)) \in 1..3
    BY <2>4
  <2> QED
    BY <2>3, <2>4, <2>9, <2>10, Zenon
<1>9. v >= 100 \/ (v >= 10 /\ v < 100) \/ v < 10
  BY <1>1
<1> QED
  BY <1>6, <1>7, <1>8, <1>9, Zenon

LEMMA FourNumbers ==
    ASSUME NEW text, NEW w, NEW x, NEW y, NEW z, Numbers(text) = <<w, x, y, z>>
    PROVE  inet_addr(text) = <<w, x, y, z>>
<1> DEFINE IsAddr(a) ==
               a = [k \in 0..Len(Numbers(text)) |->
                       IF k = 0 THEN INET_ADDR_ANY
                       ELSE <<a[k - 1][2], a[k - 1][3], a[k - 1][4], Numbers(text)[k]>>]
           g == CHOOSE a : IsAddr(a)
           h == [k \in 0..4 |-> IF k = 0 THEN <<0, 0, 0, 0>>
                                ELSE IF k = 1 THEN <<0, 0, 0, w>>
                                ELSE IF k = 2 THEN <<0, 0, w, x>>
                                ELSE IF k = 3 THEN <<0, w, x, y>>
                                ELSE <<w, x, y, z>>]
<1>1. PICK ns : ns = Numbers(text)
  OBVIOUS
<1>2. Len(ns) = 4 /\ ns[1] = w /\ ns[2] = x /\ ns[3] = y /\ ns[4] = z
  BY <1>1
<1>3. IsAddr(h)
  <2>1. ASSUME NEW k \in 0..4
        PROVE  h[k] = IF k = 0 THEN INET_ADDR_ANY
                      ELSE <<h[k - 1][2], h[k - 1][3], h[k - 1][4], ns[k]>>
    <3>1. k \in {0, 1, 2, 3, 4}
      OBVIOUS
    <3>2. /\ h[0] = <<0, 0, 0, 0>> /\ h[1] = <<0, 0, 0, w>> /\ h[2] = <<0, 0, w, x>>
          /\ h[3] = <<0, w, x, y>> /\ h[4] = <<w, x, y, z>>
      OBVIOUS
    <3> HIDE DEF h
    <3>3. CASE k = 0
      BY <3>2, <3>3 DEF INET_ADDR_ANY
    <3>4. CASE k = 1
      BY <1>2, <3>2, <3>4
    <3>5. CASE k = 2
      BY <1>2, <3>2, <3>5
    <3>6. CASE k = 3
      BY <1>2, <3>2, <3>6
    <3>7. CASE k = 4
      BY <1>2, <3>2, <3>7
    <3> QED
      BY <3>1, <3>3, <3>4, <3>5, <3>6, <3>7
  <2>2. h = [k \in 0..4 |-> h[k]]
    OBVIOUS
  <2> HIDE DEF h
  <2>3. h = [k \in 0..4 |-> IF k = 0 THEN INET_ADDR_ANY
                            ELSE <<h[k - 1][2], h[k - 1][3], h[k - 1][4], ns[k]>>]
    BY <2>1, <2>2, Zenon
  <2> QED
    BY <1>1, <1>2, <2>3, Zenon
<1>4. IsAddr(g)
  <2> HIDE DEF IsAddr, h
  <2> QED
    BY <1>3, Zenon
<1>5. inet_addr(text) = g[4]
  BY <1>1, <1>2, Zenon DEF inet_addr
<1>6. g = [k \in 0..4 |-> IF k = 0 THEN INET_ADDR_ANY
                          ELSE <<g[k - 1][2], g[k - 1][3], g[k - 1][4], ns[k]>>]
  <2> HIDE DEF g
  <2>1. g = [k \in 0..Len(Numbers(text)) |->
                IF k = 0 THEN INET_ADDR_ANY
                ELSE <<g[k - 1][2], g[k - 1][3], g[k - 1][4], Numbers(text)[k]>>]
    BY <1>4
  <2>2. g = [k \in 0..Len(ns) |-> IF k = 0 THEN INET_ADDR_ANY
                                  ELSE <<g[k - 1][2], g[k - 1][3], g[k - 1][4], ns[k]>>]
    BY <1>1, <2>1
  <2> QED
    BY <1>2, <2>2
<1> HIDE DEF g
<1>7. g[0] = <<0, 0, 0, 0>>
  BY <1>6 DEF INET_ADDR_ANY
<1>8. g[1] = <<g[0][2], g[0][3], g[0][4], w>>
  BY <1>2, <1>6
<1>9. g[2] = <<g[1][2], g[1][3], g[1][4], x>>
  BY <1>2, <1>6
<1>10. g[3] = <<g[2][2], g[2][3], g[2][4], y>>
  BY <1>2, <1>6
<1>11. g[4] = <<g[3][2], g[3][3], g[3][4], z>>
  BY <1>2, <1>6
<1>12. g[4] = <<w, x, y, z>>
  BY <1>7, <1>8, <1>9, <1>10, <1>11
<1> QED
  BY <1>5, <1>12

LEMMA DottedRead ==
    ASSUME NEW a \in Addr
    PROVE  /\ Dotted(a) \in Seq(Nat)
           /\ Numbers(Dotted(a)) = <<a[1], a[2], a[3], a[4]>>
           /\ Len(Dotted(a)) = Len(Digits(a[1])) + Len(Digits(a[2])) + Len(Digits(a[3]))
                               + Len(Digits(a[4])) + 3
<1>0. a[1] \in Octet /\ a[2] \in Octet /\ a[3] \in Octet /\ a[4] \in Octet
  BY DEF Addr
<1>12. a[1] \in Nat /\ a[2] \in Nat /\ a[3] \in Nat /\ a[4] \in Nat
  BY <1>0 DEF Octet
<1> DEFINE dot == <<Dot>>
<1>1. PICK t1 : t1 = Digits(a[1])
  OBVIOUS
<1>2. t1 \in Seq(Nat) /\ Numbers(t1) = <<a[1]>>
  <2>1. <<>> \in Seq(Nat) /\ Ended(<<>>)
    BY DEF Ended
  <2>2. <<>> \o Digits(a[1]) \in Seq(Nat) /\ Numbers(<<>> \o Digits(a[1])) = Append(<<>>, a[1])
    BY <1>0, <2>1, NoNumbers, ReadOctet
  <2>3. <<>> \o Digits(a[1]) = Digits(a[1])
    BY DEF Digits
  <2> QED
    BY <1>1, <2>2, <2>3
<1>3. ASSUME NEW t \in Seq(Nat), NEW v \in Octet, NEW s \in Seq(Nat), Numbers(t) = s
      PROVE  /\ t \o dot \o Digits(v) \in Seq(Nat)
             /\ Numbers(t \o dot \o Digits(v)) = Append(s, v)
             /\ Len(t \o dot \o Digits(v)) = Len(t) + 1 + Len(Digits(v))
  <2>1. Dot \in Nat
    BY DEF Dot
  <2>2. PICK u : u = Append(t, Dot)
    OBVIOUS
  <2>3. u = t \o dot
    BY <2>1, <2>2, JoinOne, Zenon
  <2>4. u \in Seq(Nat) /\ Ended(u) /\ Numbers(u) = s
    BY <1>3, <2>2, ReadDot, Zenon
  <2>5. Len(u) = Len(t) + 1
    BY <2>1, <2>2, AppendFacts, Zenon
  <2>6. PICK d : d = Digits(v)
    OBVIOUS
  <2>7. u \o d \in Seq(Nat) /\ Numbers(u \o d) = Append(s, v) /\ d \in Seq(Nat)
    BY <2>4, <2>6, ReadOctet, Zenon
  <2>8. Len(u \o d) = Len(u) + Len(d)
    BY <2>4, <2>7, ConcatProperties, Zenon
  <2> QED
    BY <2>3, <2>5, <2>6, <2>7, <2>8, Zenon
<1> HIDE DEF dot
<1>4. PICK t2 : t2 = t1 \o dot \o Digits(a[2])
  OBVIOUS
<1>5. t2 \in Seq(Nat) /\ Numbers(t2) = <<a[1], a[2]>> /\ Len(t2) = Len(t1) + 1 + Len(Digits(a[2]))
  <2>1. <<a[1]>> \in Seq(Nat) /\ Append(<<a[1]>>, a[2]) = <<a[1], a[2]>>
    BY <1>12, TwoAppended, Zenon
  <2> QED
    BY <1>0, <1>2, <1>3, <1>4, <2>1, Zenon
<1>6. PICK t3 : t3 = t2 \o dot \o Digits(a[3])
  OBVIOUS
<1>7. t3 \in Seq(Nat) /\ Numbers(t3) = <<a[1], a[2], a[3]>> /\ Len(t3) = Len(t2) + 1 + Len(Digits(a[3]))
  <2>1. <<a[1], a[2]>> \in Seq(Nat) /\ Append(<<a[1], a[2]>>, a[3]) = <<a[1], a[2], a[3]>>
    BY <1>12, ThreeAppended, Zenon
  <2> QED
    BY <1>0, <1>5, <1>3, <1>6, <2>1, Zenon
<1>8. PICK t4 : t4 = t3 \o dot \o Digits(a[4])
  OBVIOUS
<1>9. t4 \in Seq(Nat) /\ Numbers(t4) = <<a[1], a[2], a[3], a[4]>> /\ Len(t4) = Len(t3) + 1 + Len(Digits(a[4]))
  <2>1. <<a[1], a[2], a[3]>> \in Seq(Nat) /\ Append(<<a[1], a[2], a[3]>>, a[4]) = <<a[1], a[2], a[3], a[4]>>
    BY <1>12, FourAppended, Zenon
  <2> QED
    BY <1>0, <1>7, <1>3, <1>8, <2>1, Zenon
<1>10. Dotted(a) = t4
  BY <1>1, <1>4, <1>6, <1>8, Zenon DEF Dotted, dot
<1>11. Len(Digits(a[1])) \in Nat /\ Len(Digits(a[2])) \in Nat /\ Len(Digits(a[3])) \in Nat
       /\ Len(Digits(a[4])) \in Nat
  BY <1>0, ReadOctet, NoNumbers DEF Ended
<1> QED
  BY <1>1, <1>5, <1>7, <1>9, <1>10, <1>11


\* What is printed is read back as the same address (inet.c 12-43).
THEOREM AddressText == \A a \in Addr : inet_addr(Dotted(a)) = a
<1> SUFFICES ASSUME NEW a \in Addr PROVE inet_addr(Dotted(a)) = a
  OBVIOUS
<1>1. Numbers(Dotted(a)) = <<a[1], a[2], a[3], a[4]>>
  BY DottedRead
<1>2. inet_addr(Dotted(a)) = <<a[1], a[2], a[3], a[4]>>
  BY <1>1, FourNumbers
<1>3. a = <<a[1], a[2], a[3], a[4]>>
  BY DEF Addr
<1> QED
  BY <1>2, <1>3

------------------------------------------------------------------------------
(* What the chip is asked to connect to.                                    *)

LEMMA SmallerOf == ASSUME NEW m \in Nat, NEW n \in Nat, n <= m PROVE Min({m, n}) = n
<1> DEFINE IsMin(x) == x \in {m, n} /\ \A y \in {m, n} : x <= y
<1>1. IsMin(n)
  OBVIOUS
<1>2. \A x : IsMin(x) => x = n
  OBVIOUS
<1>3. Min({m, n}) = CHOOSE x : IsMin(x)
  BY Zenon DEF Min
<1> QED
  BY <1>1, <1>2, <1>3, Zenon

\* The addresses of the network of the device are at most 13 characters long.
LEMMA NetworkAddress ==
    ASSUME NEW a \in Addr, inet_match_addr(Config, a), a # INET_ADDR_ANY
    PROVE  inet_ntoa(a, 15) = Dotted(a)
<1>1. a[1] \in Octet /\ a[2] \in Octet /\ a[3] \in Octet /\ a[4] \in Octet
  BY DEF Addr
<1>2. a[3] = 0
  <2>1. Masked(Config.ip, Config.netmask) = Masked(a, Config.netmask)
    BY Zenon DEF inet_match_addr
  <2>2. Masked(Config.ip, Config.netmask)[3] = 0 /\ Masked(a, Config.netmask)[3] = a[3]
    BY DEF Masked, Config
  <2> QED
    BY <2>1, <2>2
<1>3. Len(Digits(a[3])) = 1
  <2>1. Digits(0) = <<>> \o <<>> \o <<0 % 10>>
    <3>1. ~(0 >= 100) /\ ~(0 >= 10)
      OBVIOUS
    <3> QED
      BY <3>1, Zenon DEF Digits
  <2>2. Len(<<>> \o <<>> \o <<0 % 10>>) = 1
    OBVIOUS
  <2> QED
    BY <1>2, <2>1, <2>2
<1>4. \A v \in Octet : Len(Digits(v)) \in 1..3
  <2>1. <<>> \in Seq(Nat) /\ Ended(<<>>)
    BY DEF Ended
  <2> QED
    BY <2>1, NoNumbers, ReadOctet, Zenon
<1>5. PICK t : t = Dotted(a)
  OBVIOUS
<1>6. t \in Seq(Nat) /\ Len(t) \in Nat /\ Len(t) <= 13
  <2>1. PICK k, l, m, n : /\ k = Len(Digits(a[1])) /\ l = Len(Digits(a[2]))
                          /\ m = Len(Digits(a[3])) /\ n = Len(Digits(a[4]))
    OBVIOUS
  <2>2. k \in 1..3 /\ l \in 1..3 /\ m = 1 /\ n \in 1..3
    BY <1>1, <1>3, <1>4, <2>1, Zenon
  <2>3. t \in Seq(Nat) /\ Len(t) = k + l + m + n + 3
    BY <1>5, <2>1, DottedRead, Zenon
  <2> QED
    BY <2>2, <2>3
<1>7. Min({14, Len(t)}) = Len(t)
  BY <1>6, SmallerOf
<1>8. SubSeq(t, 1, Len(t)) = t
  BY <1>6
<1>9. inet_ntoa(a, 15) = SubSeq(t, 1, Min({15 - 1, Len(t)}))
  BY <1>5, Zenon DEF inet_ntoa
<1>10. Min({15 - 1, Len(t)}) = Len(t)
  <2>1. 15 - 1 = 14
    OBVIOUS
  <2> QED
    BY <1>7, <2>1, Zenon
<1> QED
  BY <1>5, <1>8, <1>9, <1>10, Zenon

Taken == {Commands[k] : k \in 1..sent}

SetUp ==
    /\ opts \in [dev_mode : {"ap", "client"}, type : {"stream", "dgram"},
                 conn : Connection, ip : Addr, port : Int]
    /\ pc # "options" => opts.ip = inet_addr(opts.conn.host)
    /\ pc \in Early \ {"options"} => opts.port = opts.conn.port
    /\ sent \in 0..Len(Commands)
    /\ pc \in {"options", "init"} => sent = 0 /\ taken = {}
    /\ ~r => taken = Taken
    /\ pc \in {"connect", "bind", "listen"} => ~r /\ sent = Len(Commands)
    /\ pc = "connect" => opts.ip # INET_ADDR_ANY
    /\ pc \in {"bind", "listen"} => opts.ip = INET_ADDR_ANY
    /\ target # Nowhere => pc \notin Early

SInv == SetUp /\ ConnectsAsAsked

LEMMA CommandCount == Len(Commands) \in Nat /\ Len(Commands) > 0
<1>1. CASE opts.dev_mode = "ap"
  <2>1. Commands = <<"CWMODE", "CIPDINFO", "CWDHCP">> \o <<"CIPAP", "CWSAP">>
    BY <1>1 DEF Commands
  <2> QED
    BY <2>1
<1>2. CASE opts.dev_mode # "ap"
  <2>1. Commands = <<"CWMODE", "CIPDINFO", "CWDHCP">> \o <<"CWJAP">>
    BY <1>2 DEF Commands
  <2> QED
    BY <2>1
<1> QED
  BY <1>1, <1>2

LEMMA InitSetUp == Init => SInv
<1> SUFFICES ASSUME Init PROVE SInv
  OBVIOUS
<1>1. INET_ADDR_ANY \in Addr
  BY DEF INET_ADDR_ANY, Addr, Octet
<1>2. opts \in [dev_mode : {"ap", "client"}, type : {"stream", "dgram"},
                conn : Connection, ip : Addr, port : Int]
  BY <1>1 DEF Init
<1>3. 1..0 = {}
  OBVIOUS
<1>4. sent = 0 /\ taken = {} /\ pc = "options" /\ target = Nowhere /\ taken = Taken
  BY <1>3 DEF Init, Taken
<1> QED
  BY <1>2, <1>4, CommandCount DEF SInv, SetUp, ConnectsAsAsked

\* Steps behind the set-up.
LEMMA LaterSetUp ==
    ASSUME SInv, UNCHANGED setupVars,
           \/ pc' = pc
           \/ pc \notin {"options"} /\ pc' \notin Early
    PROVE  SInv'
<1>1. opts' = opts /\ (r' <=> r) /\ sent' = sent /\ taken' = taken /\ target' = target
  BY DEF setupVars
<1>2. Commands' = Commands
  BY <1>1 DEF Commands
<1>3. Taken' = Taken
  BY <1>1, <1>2 DEF Taken
<1>4. SetUp'
  BY <1>1, <1>2, <1>3 DEF SInv, SetUp, Early
<1>5. ConnectsAsAsked'
  BY <1>1, <1>2 DEF SInv, ConnectsAsAsked
<1> QED
  BY <1>4, <1>5 DEF SInv

\* bos_bind of a server, which is connected to nothing.
LEMMA BindSetUp == SInv /\ Bind => SInv'
<1> SUFFICES ASSUME SInv, Bind PROVE SInv'
  OBVIOUS
<1>1. opts' = opts /\ (r' <=> r) /\ sent' = sent /\ taken' = taken /\ target' = target
  BY DEF Bind, setupVars
<1>2. pc = "bind" /\ pc' \in {"listen", "stop"} /\ target = Nowhere
  BY DEF Bind, GoTo, SInv, SetUp, Early
<1>3. Commands' = Commands
  BY <1>1 DEF Commands
<1>4. Taken' = Taken
  BY <1>1, <1>3 DEF Taken
<1>5. SetUp'
  BY <1>1, <1>2, <1>3, <1>4 DEF SInv, SetUp, Early
<1> QED
  BY <1>1, <1>2, <1>5 DEF SInv, ConnectsAsAsked

LEMMA Numbers32 == Int32 \subseteq Int
  BY SMT DEF Int32

LEMMA ParseSetUp == SInv /\ ParseOpt => SInv'
<1> SUFFICES ASSUME SInv, ParseOpt PROVE SInv'
  OBVIOUS
<1>1. pc = "options" /\ UNCHANGED <<sent, taken, target>> /\ (r' <=> r)
  BY DEF ParseOpt
<1>2. PICK c : c = opts.conn
  OBVIOUS
<1>3. c \in Connection /\ c.port \in Int /\ inet_addr(c.host) \in Addr
  BY <1>2, ConnectionAssumption, Numbers32 DEF SInv, SetUp
<1>4. PICK port : port = IF c.colon /\ c.host = <<>> THEN 0 ELSE c.port
  OBVIOUS
<1>5. port \in Int /\ (port # 0 => port = c.port)
  BY <1>3, <1>4
<1>6. /\ opts' = [opts EXCEPT !.ip = inet_addr(c.host), !.port = port]
      /\ pc' = IF port = 0 THEN "stop" ELSE "init"
  BY <1>2, <1>4 DEF ParseOpt, GoTo
<1>7. /\ opts' \in [dev_mode : {"ap", "client"}, type : {"stream", "dgram"},
                    conn : Connection, ip : Addr, port : Int]
      /\ opts'.conn = c /\ opts'.ip = inet_addr(c.host) /\ opts'.port = port
      /\ opts'.dev_mode = opts.dev_mode
  BY <1>2, <1>3, <1>5, <1>6 DEF SInv, SetUp
<1>8. Commands' = Commands
  BY <1>7 DEF Commands
<1>9. Taken' = Taken
  BY <1>1, <1>8 DEF Taken
<1>10. target' = Nowhere
  BY <1>1 DEF SInv, SetUp, Early
<1>11. SetUp'
  BY <1>1, <1>5, <1>6, <1>7, <1>8, <1>9, <1>10 DEF SInv, SetUp, Early
<1> QED
  BY <1>10, <1>11 DEF SInv, ConnectsAsAsked

\* The devices are set up, or are not.
LEMMA DevicesSetUp == SInv /\ InitDevices => SInv'
<1> SUFFICES ASSUME SInv, InitDevices PROVE SInv'
  OBVIOUS
<1>1. pc = "init" /\ UNCHANGED <<opts, sent, taken, target>> /\ pc' \in {"configure", "stop"}
  BY DEF InitDevices, GoTo
<1>2. sent = 0 /\ taken = {} /\ target = Nowhere
  BY <1>1 DEF SInv, SetUp, Early
<1>3. Commands' = Commands
  BY <1>1 DEF Commands
<1>4. Taken' = taken'
  <2>1. 1..0 = {}
    OBVIOUS
  <2> QED
    BY <1>1, <1>2, <2>1 DEF Taken
<1>5. SetUp'
  BY <1>1, <1>2, <1>3, <1>4 DEF SInv, SetUp, Early
<1> QED
  BY <1>1, <1>2, <1>5 DEF SInv, ConnectsAsAsked

\* One command more is sent; as long as none has failed, all have been taken.
LEMMA ConfigureSetUp == SInv /\ Configure => SInv'
<1> SUFFICES ASSUME SInv, Configure PROVE SInv'
  OBVIOUS
<1>1. pc = "configure" /\ sent < Len(Commands) /\ sent' = sent + 1
      /\ UNCHANGED <<pc, opts, target>>
  BY DEF Configure
<1>2. PICK ok \in BOOLEAN :
          /\ r' = (r \/ ~ok)
          /\ taken' = IF ok THEN taken \cup {Commands[sent + 1]} ELSE taken
  BY DEF Configure, Failed
<1>3. target = Nowhere
  BY <1>1 DEF SInv, SetUp, Early
<1>4. Commands' = Commands
  BY <1>1 DEF Commands
<1>5. sent' \in 0..Len(Commands)
  BY <1>1, CommandCount DEF SInv, SetUp
<1>6. ~r' => ~r /\ taken' = taken \cup {Commands[sent + 1]}
  BY <1>2, Zenon
<1>7. ~r' => taken' = Taken'
  <2> SUFFICES ASSUME ~r' PROVE taken' = Taken'
    OBVIOUS
  <2>1. taken' = Taken \cup {Commands[sent + 1]}
    BY <1>6, Zenon DEF SInv, SetUp
  <2>2. PICK cs : cs = Commands
    OBVIOUS
  <2>3. Taken' = {cs[k] : k \in 1..(sent + 1)} /\ Taken = {cs[k] : k \in 1..sent}
    BY <1>1, <1>4, <2>2 DEF Taken
  <2>4. \A k : k \in 1..(sent + 1) <=> k \in 1..sent \/ k = sent + 1
    BY DEF SInv, SetUp
  <2>5. {cs[k] : k \in 1..(sent + 1)} = {cs[k] : k \in 1..sent} \cup {cs[sent + 1]}
    BY <2>4
  <2> QED
    BY <2>1, <2>2, <2>3, <2>5
<1>8. SetUp'
  BY <1>1, <1>3, <1>4, <1>5, <1>7 DEF SInv, SetUp, Early
<1> QED
  BY <1>1, <1>3, <1>8 DEF SInv, ConnectsAsAsked

LEMMA ConfiguredSetUp == SInv /\ ConfigureDone => SInv'
<1> SUFFICES ASSUME SInv, ConfigureDone PROVE SInv'
  OBVIOUS
<1>1. opts' = opts /\ (r' <=> r) /\ sent' = sent /\ taken' = taken /\ target' = target
  BY DEF ConfigureDone, setupVars
<1>2. /\ pc = "configure" /\ sent = Len(Commands)
      /\ pc' = IF r THEN "stop" ELSE IF opts.ip = INET_ADDR_ANY THEN "bind" ELSE "connect"
  BY DEF ConfigureDone, GoTo
<1>3. Commands' = Commands
  BY <1>1 DEF Commands
<1>4. Taken' = Taken
  BY <1>1, <1>3 DEF Taken
<1>5. target = Nowhere
  BY <1>2 DEF SInv, SetUp, Early
<1>6. SetUp'
  BY <1>1, <1>2, <1>3, <1>4, <1>5 DEF SInv, SetUp, Early
<1> QED
  BY <1>1, <1>5, <1>6 DEF SInv, ConnectsAsAsked

LEMMA PortFits == \A n \in Port : Uint16(n) = n
<1>1. PORTS \in Int
  BY SMT DEF PORTS
<1>2. \A n, k \in Int : 0 <= n /\ n < k => n % k = n
  BY Z3
<1> QED
  BY <1>1, <1>2, SMT DEF Uint16, Port

LEMMA ConnectSetUp == SInv /\ Connect => SInv'
<1> SUFFICES ASSUME SInv, Connect PROVE SInv'
  OBVIOUS
<1>1. /\ pc = "connect" /\ inet_match_addr(Config, opts.ip) /\ pc' \in {"arg", "stop"}
      /\ target' = [host |-> inet_ntoa(opts.ip, 15), port |-> Uint16(opts.port)]
      /\ UNCHANGED <<opts, sent, taken>> /\ (r' <=> r)
  BY DEF Connect
<1>2. /\ opts.ip \in Addr /\ opts.ip # INET_ADDR_ANY
      /\ opts.ip = inet_addr(opts.conn.host) /\ opts.port = opts.conn.port
      /\ taken = Taken /\ sent = Len(Commands)
  BY <1>1 DEF SInv, SetUp, Early
<1>3. inet_addr(target'.host) = opts.ip /\ target'.port = Uint16(opts.port)
  <2>1. inet_ntoa(opts.ip, 15) = Dotted(opts.ip)
    BY <1>1, <1>2, NetworkAddress
  <2>2. inet_addr(Dotted(opts.ip)) = opts.ip
    BY <1>2, AddressText
  <2> QED
    BY <1>1, <2>1, <2>2
<1>4. Commands' = Commands
  BY <1>1 DEF Commands
<1>5. Taken' = Taken
  BY <1>1, <1>4 DEF Taken
<1>6. SetUp'
  BY <1>1, <1>4, <1>5 DEF SInv, SetUp, Early
<1>7. opts.conn.port \in Port => target'.port = opts.conn.port
  BY <1>2, <1>3, PortFits
<1>8. ConnectsAsAsked'
  BY <1>1, <1>2, <1>3, <1>4, <1>7 DEF ConnectsAsAsked, Taken
<1> QED
  BY <1>6, <1>8 DEF SInv

\* A server asks for its port in the same way.
LEMMA ListenSetUp == SInv /\ Listen => SInv'
<1> SUFFICES ASSUME SInv, Listen PROVE SInv'
  OBVIOUS
<1>1. /\ pc = "listen" /\ pc' \in {"accept", "stop"}
      /\ target' = [host |-> <<>>, port |-> Uint16(opts.port)]
      /\ UNCHANGED <<opts, sent, taken>> /\ (r' <=> r)
  BY DEF Listen, GoTo
<1>2. /\ opts.ip = INET_ADDR_ANY /\ opts.port = opts.conn.port
      /\ taken = Taken /\ sent = Len(Commands)
  BY <1>1 DEF SInv, SetUp, Early
<1>3. opts.conn.port \in Port => target'.port = opts.conn.port
  BY <1>1, <1>2, PortFits
<1>4. Commands' = Commands
  BY <1>1 DEF Commands
<1>5. Taken' = Taken
  BY <1>1, <1>4 DEF Taken
<1>6. SetUp'
  BY <1>1, <1>4, <1>5 DEF SInv, SetUp, Early
<1>7. ConnectsAsAsked'
  BY <1>1, <1>2, <1>3, <1>4 DEF ConnectsAsAsked, Taken
<1> QED
  BY <1>6, <1>7 DEF SInv

LEMMA StepSetUp == SInv /\ [Next]_vars => SInv'
<1> SUFFICES ASSUME SInv, [Next]_vars PROVE SInv'
  OBVIOUS
<1>1. CASE ParseOpt \/ InitDevices \/ Configure \/ ConfigureDone \/ Connect \/ Listen
  BY <1>1, ParseSetUp, DevicesSetUp, ConfigureSetUp, ConfiguredSetUp, ConnectSetUp,
     ListenSetUp
<1>2. CASE Bind
  BY <1>2, BindSetUp
<1>3. CASE ConnectRefused \/ ListenRefused \/ Accept \/ SetArg \/ Create \/ Quit
  <2>1. pc # "options" /\ pc' \notin Early /\ UNCHANGED setupVars
    BY <1>3 DEF ConnectRefused, ListenRefused, Accept, SetArg, Create, Quit, GoTo, Early
  <2> QED
    BY <2>1, LaterSetUp
<1>4. CASE RemoteConnect \/ UNCHANGED vars
             \/ \E s \in Socket : Thread(s) \/ Send(s) \/ Remote(s)
  <2>1. pc' = pc /\ UNCHANGED setupVars
    BY <1>4 DEF RemoteConnect, Thread, Send, Remote, Start, Recv, RecvGone, Handle,
                Acknowledge, SendReturns, RemoteSend, RemoteClose, vars
  <2> QED
    BY <2>1, LaterSetUp
<1> QED
  BY <1>1, <1>2, <1>3, <1>4 DEF Next, Setup, Serve

\* The chip, once the whole configuration is taken, is asked for the very
\* address of the command line, and for its port if that fits 16 bits
\* (main.c 91 and 132-137, esp01.c 111-132 and 261): every address a device
\* matches fits its text.
THEOREM ConnectsRight == Spec => []ConnectsAsAsked
<1>1. SInv => ConnectsAsAsked
  BY DEF SInv
<1> QED
  BY <1>1, InitSetUp, StepSetUp, PTL DEF Spec

=============================================================================

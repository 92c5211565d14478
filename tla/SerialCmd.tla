----------------------------- MODULE SerialCmd -----------------------------
(***************************************************************************)
(* esp01/serial.c and its callers in esp01/esp01.c: application threads    *)
(* send AT commands to the ESP8266 over a serial line, and one read_thread *)
(* takes the lines that come back and hands the answers to the waiting     *)
(* thread through result, a mutex and a condition variable.                *)
(*                                                                         *)
(* The mutex is held from serial_cmd_start to serial_cmd_wait, but the     *)
(* condition wait gives it up, so a second thread may start a command      *)
(* while the first waits.  accept, which read_thread runs for a CONNECT    *)
(* line, writes a command of its own without the mutex and swallows lines  *)
(* until an OK or ERROR.                                                   *)
(*                                                                         *)
(* A line is one of a few words; line ends, links and payloads are left    *)
(* out.  CLOSED stands for every line handled without this state, received *)
(* data (+IPD) included.  The ESP8266 is external: it answers requests in  *)
(* order, and announces connections, closed links and data at any time.    *)
(***************************************************************************)
EXTENDS Naturals, Sequences

CONSTANTS Thread,    \* the threads that use the network
          Main,      \* the one that initialises the driver
          MaxReq,    \* most requests on their way to the ESP8266 (a bound)
          MaxLines,  \* most lines on their way back (a bound)
          MaxUnsol,  \* lines on their way back that bar an unsolicited one
                     \* (a bound)
          Remote,    \* whether remote hosts connect to this one
          Mute,      \* whether the ESP8266 may answer with FAIL or busy
          Spurious   \* whether a condition wait may return unsignalled

ASSUME MainAssumption     == Main \in Thread
ASSUME BoundsAssumption   == {MaxReq, MaxLines, MaxUnsol} \subseteq Nat
ASSUME SwitchAssumption   == {Remote, Mute, Spurious} \subseteq BOOLEAN
ASSUME NamesAssumption    == {"free", "none", "cmd", "read_thread"} \cap Thread = {}

VARIABLES mtx,       \* who holds mtx: a thread or "free"
          result,    \* result
          response,  \* response, "OK" for the null pointer
          pc,        \* where each thread is
          kind,      \* the command each thread runs, "plain" when it runs none
          rd,        \* what read_thread does: "read", or the loop of "accept"
          partial,   \* the command line being written, and if it is intact
          toEsp,     \* lines written and not yet handled by the ESP8266
          rx,        \* lines of the ESP8266 that read_thread has not read
          esp,       \* "cmd", or the thread whose payload the ESP8266 expects
          boot,      \* how far esp01_init is
          fate,      \* ghost: what became of each thread's command
          clean      \* ghost: nothing has interfered with the command

progVars == <<mtx, result, response, pc, kind, boot>>
lineVars == <<rd, partial, toEsp, rx, esp>>
ghosts   == <<fate, clean>>
vars     == <<mtx, result, response, pc, kind, rd, partial, toEsp, rx,
              esp, boot, fate, clean>>

RES_INVAL == "RES_INVAL"
RES_OK    == "RES_OK"
RES_ERR   == "RES_ERR"

Kind    == {"reset", "plain", "connect", "send", "data"}
Line    == {"OK", "ERROR", "SEND OK", "ready", "FAIL", "CONNECT", "CLOSED"}
Request == [req : Kind \cup {"junk"}, own : Thread]
           \cup [req : {"status", "junk"}, own : {"read_thread"}]

NoLine == [own |-> "none", intact |-> TRUE]

\* The answer a command waits for: the resp argument of its call.
Resp(k) == CASE k = "reset" -> "ready"
             [] k = "data"  -> "SEND OK"
             [] OTHER       -> "OK"

Init ==
    /\ mtx = "free" /\ result = RES_INVAL /\ response = "OK"
    /\ pc = [t \in Thread |-> "idle"]
    /\ kind = [t \in Thread |-> "plain"]
    /\ rd = "read" /\ partial = NoLine
    /\ toEsp = <<>> /\ rx = <<>> /\ esp = "cmd"
    /\ boot = "reset"
    /\ fate = [t \in Thread |-> "pending"]
    /\ clean = [t \in Thread |-> TRUE]

-----------------------------------------------------------------------------
(* Ghost: a command starts clean when no other command, answer or accept   *)
(* is under way and the ESP8266 is in the mode the command is meant for.   *)

Waiting(t) == pc[t] \in {"wait", "woken"}

NoAnswers == \A i \in 1..Len(rx) : rx[i] \in {"CONNECT", "CLOSED"}

ModeFor(t, k) == IF k = "data" THEN t ELSE "cmd"

Quiet(t, k) ==
    /\ toEsp = <<>> /\ NoAnswers /\ rd = "read"
    /\ \A u \in Thread \ {t} : ~Waiting(u)
    /\ esp = ModeFor(t, k)

-----------------------------------------------------------------------------
(* The application threads. *)

\* esp01_init resets the chip and enables multiple links; only when both
\* succeed do the other threads come to exist.
MayStart(t) ==
    CASE boot = "reset"            -> IF t = Main THEN {"reset"} ELSE {}
      [] boot \in {"mux", "muxbad"} -> IF t = Main THEN {"plain"} ELSE {}
      [] boot = "up"               -> {"plain", "connect", "send"}
      [] OTHER                     -> {}

\* Mutant: the command does not wait for the mutex.
CmdStartUnlocked(t) ==
    \E k \in Kind :
        /\ \/ pc[t] = "idle" /\ k \in MayStart(t)
           \/ pc[t] = "payload" /\ k = "data"
        /\ mtx' = t
        /\ result' = RES_INVAL
        /\ response' = Resp(k)
        /\ pc' = [pc EXCEPT ![t] = "start"]
        /\ kind' = [kind EXCEPT ![t] = k]
        /\ fate' = [fate EXCEPT ![t] = "pending"]
        /\ clean' = [u \in Thread |->
               IF u = t THEN Quiet(t, k) ELSE clean[u] /\ ~Waiting(u)]
        /\ UNCHANGED <<boot, lineVars>>

\* serial_cmd_start of a command k, or of the payload of a granted send.  It
\* interferes with every command still waiting.
CmdStart(t) == mtx = "free" /\ CmdStartUnlocked(t)

\* serial_cmd_send and serial_cmd_send_char: the line without its end.
CmdSend(t) ==
    /\ pc[t] = "start"
    /\ partial' = [own |-> t, intact |-> TRUE]
    /\ pc' = [pc EXCEPT ![t] = "sent"]
    /\ UNCHANGED <<mtx, result, response, kind, boot, rd, toEsp, rx, esp, ghosts>>

\* serial_cmd_wait up to the condition wait: the line end, then mtx is given up.
CmdWait(t) ==
    /\ pc[t] = "sent"
    /\ Len(toEsp) < MaxReq
    /\ toEsp' = Append(toEsp, [req |-> IF partial.intact THEN kind[t] ELSE "junk",
                               own |-> t])
    /\ partial' = NoLine
    /\ pc' = [pc EXCEPT ![t] = "wait"]
    /\ mtx' = "free"
    /\ UNCHANGED <<result, response, kind, boot, rd, rx, esp, ghosts>>

\* A condition wait may return without a signal; the code does not test for it.
SpuriousWakeup(t) ==
    /\ Spurious
    /\ pc[t] = "wait"
    /\ pc' = [pc EXCEPT ![t] = "woken"]
    /\ clean' = [clean EXCEPT ![t] = FALSE]
    /\ UNCHANGED <<mtx, result, response, kind, boot, lineVars, fate>>

\* What the end of a command of esp01_init leads to.
BootAfter(r) ==
    CASE boot = "reset"  -> IF r = RES_OK THEN "mux" ELSE "muxbad"
      [] boot = "mux"    -> IF r = RES_OK THEN "up" ELSE "failed"
      [] boot = "muxbad" -> "failed"
      [] OTHER           -> boot

\* Mutant: send goes on to its payload whatever the answer.
CmdReturnHeedless(t) ==
    /\ pc[t] = "woken"
    /\ mtx = "free"
    /\ pc' = [pc EXCEPT ![t] = IF kind[t] = "send" THEN "payload" ELSE "idle"]
    /\ kind' = [kind EXCEPT ![t] = "plain"]
    /\ boot' = BootAfter(result)
    /\ fate' = [fate EXCEPT ![t] = "pending"]
    /\ clean' = [clean EXCEPT ![t] = TRUE]
    /\ UNCHANGED <<mtx, result, response, lineVars>>

\* serial_cmd_wait after the condition wait: mtx is taken again, the result
\* read, mtx released.  send goes on to its payload only on success.
CmdReturn(t) ==
    /\ pc[t] = "woken"
    /\ mtx = "free"
    /\ pc' = [pc EXCEPT ![t] =
                  IF kind[t] = "send" /\ result = RES_OK THEN "payload" ELSE "idle"]
    /\ kind' = [kind EXCEPT ![t] = "plain"]
    /\ boot' = BootAfter(result)
    /\ fate' = [fate EXCEPT ![t] = "pending"]
    /\ clean' = [clean EXCEPT ![t] = TRUE]
    /\ UNCHANGED <<mtx, result, response, lineVars>>

-----------------------------------------------------------------------------
(* read_thread *)

\* Mutant: an error is signalled but not recorded.
ResultOfLossy(l) == IF l = response THEN RES_OK ELSE result

\* Mutant: whatever wakes the thread is a success.
ResultOfAny(l) == RES_OK

\* The result a line stands for, RES_INVAL for a line of no interest.
ResultOf(l) == IF l = response THEN RES_OK
               ELSE IF l = "ERROR" THEN RES_ERR
               ELSE RES_INVAL

\* Mutant: an error is not an answer.
RecognisedOk(l) == l = response

\* Mutant: every line is an answer.
RecognisedAny(l) == TRUE

Recognised(l) == l = response \/ l = "ERROR"

\* parse_line for an answer: under mtx, the result is set and one waiting
\* thread is signalled, if there is one.
ParseLine ==
    /\ mtx = "free"
    /\ rd = "read" /\ rx # <<>> /\ Head(rx) \notin {"CONNECT", "CLOSED"}
    /\ rx' = Tail(rx)
    /\ IF Recognised(Head(rx))
       THEN /\ result' = ResultOf(Head(rx))
            /\ IF \E t \in Thread : pc[t] = "wait"
               THEN \E t \in Thread : /\ pc[t] = "wait"
                                      /\ pc' = [pc EXCEPT ![t] = "woken"]
               ELSE UNCHANGED pc
       ELSE UNCHANGED <<result, pc>>
    /\ UNCHANGED <<mtx, response, kind, boot, rd, partial, toEsp, esp, ghosts>>

\* parse_line for a CONNECT line: accept asks for the state of the links
\* without taking mtx, in the middle of a line if a command is being written.
AcceptStart ==
    /\ rd = "read" /\ rx # <<>> /\ Head(rx) = "CONNECT"
    /\ Len(toEsp) < MaxReq
    /\ rx' = Tail(rx)
    /\ rd' = "accept"
    /\ IF partial.own = "none"
       THEN /\ toEsp' = Append(toEsp, [req |-> "status", own |-> "read_thread"])
            /\ UNCHANGED partial
       ELSE /\ toEsp' = Append(toEsp, [req |-> "junk", own |-> "read_thread"])
            /\ partial' = [partial EXCEPT !.intact = FALSE]
    /\ clean' = [t \in Thread |-> clean[t] /\ pc[t] \in {"idle", "payload"}]
    /\ UNCHANGED <<progVars, esp, fate>>

\* closed and recv take a line of their own without mtx.
OtherLine ==
    /\ rd = "read" /\ rx # <<>> /\ Head(rx) = "CLOSED"
    /\ rx' = Tail(rx)
    /\ UNCHANGED <<progVars, rd, partial, toEsp, esp, ghosts>>

\* Mutant: the loop never ends by itself.
AcceptLineEndless ==
    /\ rd = "accept" /\ rx # <<>>
    /\ rx' = Tail(rx)
    /\ UNCHANGED <<progVars, rd, partial, toEsp, esp, ghosts>>

\* The loop of accept takes every line for itself and ends at OK or ERROR.
AcceptLine ==
    /\ rd = "accept" /\ rx # <<>>
    /\ rx' = Tail(rx)
    /\ rd' = IF Head(rx) \in {"OK", "ERROR"} THEN "read" ELSE "accept"
    /\ UNCHANGED <<progVars, partial, toEsp, esp, ghosts>>

-----------------------------------------------------------------------------
(* The ESP8266 (external) *)

\* What the lines of an answer mean for the request that gets it.
FateOf(ans) == CASE ans[Len(ans)] = "ERROR" -> "bad"
                 [] ans[Len(ans)] = "FAIL"  -> "mute"
                 [] OTHER                   -> "good"

\* The answers to a request in command mode.  A payload that comes in this
\* mode is taken for a command, and is none.
Answers(q) ==
    (CASE q = "reset"             -> {<<"OK", "ready">>}
       [] q = "connect"           -> {<<"CONNECT", "OK">>, <<"ERROR">>}
       [] q \in {"plain", "send"} -> {<<"OK">>, <<"ERROR">>}
       [] q = "status"            -> {<<"OK">>}
       [] q \in {"data", "junk"}  -> {<<"ERROR">>})
    \cup (IF Mute /\ q # "reset" THEN {<<"FAIL">>} ELSE {})

\* fate records what became of the request a waiting thread has made.
Note(own, f) == [t \in Thread |-> IF t = own /\ Waiting(t) THEN f ELSE fate[t]]

EspCommand ==
    /\ toEsp # <<>> /\ esp = "cmd"
    /\ LET q == Head(toEsp)
       IN \E ans \in Answers(q.req) :
              /\ Len(rx) + Len(ans) <= MaxLines
              /\ rx' = rx \o ans
              /\ fate' = Note(q.own, FateOf(ans))
              /\ esp' = IF q.req = "send" /\ ans = <<"OK">> THEN q.own ELSE "cmd"
    /\ toEsp' = Tail(toEsp)
    /\ UNCHANGED <<progVars, rd, partial, clean>>

\* In payload mode everything written is payload.  The right bytes fill it
\* exactly; others may be too short, exact, or so long that the rest is
\* taken for a command.
EspPayload ==
    /\ toEsp # <<>> /\ esp # "cmd"
    /\ LET q   == Head(toEsp)
           own == q.req = "data" /\ q.own = esp
       IN \E ans \in {<<"SEND OK">>} \cup
                     (IF own THEN {} ELSE {<<>>, <<"SEND OK", "ERROR">>}) :
              /\ Len(rx) + Len(ans) <= MaxLines
              /\ rx' = rx \o ans
              /\ esp' = IF ans = <<>> THEN esp ELSE "cmd"
              /\ fate' = Note(q.own, IF own THEN "good" ELSE "bad")
    /\ toEsp' = Tail(toEsp)
    /\ UNCHANGED <<progVars, rd, partial, clean>>

\* A link is closed or brings data, or a remote host connects to the server.
Unsolicited ==
    /\ boot = "up"
    /\ Len(rx) < MaxUnsol
    /\ \E l \in {"CLOSED"} \cup (IF Remote THEN {"CONNECT"} ELSE {}) : rx' = Append(rx, l)
    /\ UNCHANGED <<progVars, rd, partial, toEsp, esp, ghosts>>

-----------------------------------------------------------------------------

App(t) == CmdStart(t) \/ CmdSend(t) \/ CmdWait(t) \/ SpuriousWakeup(t) \/ CmdReturn(t)
ReadThread == ParseLine \/ OtherLine \/ AcceptStart \/ AcceptLine
Esp == EspCommand \/ EspPayload

Next == (\E t \in Thread : App(t)) \/ ReadThread \/ Esp \/ Unsolicited

Spec == Init /\ [][Next]_vars

-----------------------------------------------------------------------------
(* Properties *)

\* Every variable has its type, and mtx is held exactly from serial_cmd_start
\* to the condition wait of serial_cmd_wait.
TypeOK ==
    /\ \A t \in Thread : mtx = t <=> pc[t] \in {"start", "sent"}
    /\ mtx \in Thread \cup {"free"}
    /\ result \in {RES_INVAL, RES_OK, RES_ERR}
    /\ response \in {"OK", "SEND OK", "ready"}
    /\ pc \in [Thread -> {"idle", "start", "sent", "wait", "woken", "payload"}]
    /\ kind \in [Thread -> Kind]
    /\ rd \in {"read", "accept"}
    /\ partial \in [own : Thread \cup {"none"}, intact : BOOLEAN]
    /\ toEsp \in Seq(Request)
    /\ rx \in Seq(Line)
    /\ esp \in Thread \cup {"cmd"}
    /\ boot \in {"reset", "mux", "muxbad", "up", "failed"}
    /\ fate \in [Thread -> {"pending", "good", "bad", "mute"}]
    /\ clean \in [Thread -> BOOLEAN]

\* serial.c has no predicate loop around pthread_cond_wait and one result for
\* all threads.  Still, a command that nothing interfered with (no command
\* of another thread while it waited, no accept, no answer left over from
\* before, no spurious wakeup) returns what the ESP8266 did with it, and
\* never RES_INVAL.
OwnResult ==
    [][\A t \in Thread :
           CmdReturn(t) /\ clean[t] =>
               \/ result = RES_OK /\ fate[t] = "good"
               \/ result = RES_ERR /\ fate[t] = "bad"]_vars

\* No lost wakeup: when nothing is under way on the serial line any more, a
\* thread still waiting was interfered with or got an answer parse_line does
\* not know (FAIL, busy: serial.c:190 is commented out).
NoLostAnswer ==
    \A t \in Thread :
        /\ pc[t] = "wait" /\ clean[t] /\ fate[t] # "mute"
        => toEsp # <<>> \/ rx # <<>>

(***************************************************************************)
(* The inductive invariant behind OwnResult and NoLostAnswer: a command    *)
(* that nothing has interfered with is alone, and its request, its answer  *)
(* and its result are in exactly one place and agree with its fate.        *)
(***************************************************************************)
Alone(t) ==
    /\ rd = "read"
    /\ \A u \in Thread \ {t} : pc[u] \in {"idle", "payload"}
    /\ response = Resp(kind[t])

Unsent(t) ==
    /\ toEsp = <<>> /\ NoAnswers /\ esp = ModeFor(t, kind[t])
    /\ fate[t] = "pending"
    /\ pc[t] = "sent" => partial.intact

\* Every line that parse_line will take for an answer is the right one.
Consistent(t) ==
    \A i \in 1..Len(rx) : /\ rx[i] = response => fate[t] = "good"
                          /\ rx[i] = "ERROR" => fate[t] = "bad"

Pending(t) ==
    /\ toEsp = <<[req |-> kind[t], own |-> t]>>
    /\ esp = ModeFor(t, kind[t])
    /\ fate[t] = "pending"

Answered(t) ==
    /\ toEsp = <<>>
    /\ fate[t] \in {"good", "bad", "mute"}
    /\ fate[t] # "mute" => \E i \in 1..Len(rx) : Recognised(rx[i])

Woken(t) ==
    /\ toEsp = <<>>
    /\ \/ result = RES_OK /\ fate[t] = "good"
       \/ result = RES_ERR /\ fate[t] = "bad"

Orderly(t) ==
    clean[t] =>
        /\ pc[t] \notin {"idle", "payload"} => Alone(t)
        /\ pc[t] \in {"start", "sent"} => Unsent(t)
        /\ pc[t] \in {"wait", "woken"} => Consistent(t)
        /\ pc[t] = "wait" => Pending(t) \/ Answered(t)
        /\ pc[t] = "woken" => Woken(t)

IndInv == TypeOK /\ \A t \in Thread : Orderly(t)

=============================================================================

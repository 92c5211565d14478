---------------------------- MODULE SerialClient ----------------------------
(***************************************************************************)
(* SerialCmd with the two ways in which main/main.c uses it: as a client   *)
(* one thread issues commands and no remote host may connect, as a server  *)
(* one echoing thread per remote client does.  client says which.          *)
(***************************************************************************)
EXTENDS SerialCmd

VARIABLE client
clVars == <<vars, client>>

ClientInit == Init /\ client \in BOOLEAN

\* As a client, one thread issues commands to an ESP8266 that announces closed
\* connections only and answers with OK or ERROR.
Benign ==
    /\ \A t \in Thread \ {Main} : pc'[t] = "idle"
    /\ \A t \in Thread : ~SpuriousWakeup(t)
    /\ Unsolicited => rx' = Append(rx, "CLOSED")
    /\ \A i \in 1..Len(rx') : rx'[i] # "FAIL"

ClientNext == Next /\ (client => Benign) /\ UNCHANGED client

\* As a client, every thread that can run does, and the ESP8266 answers what
\* it is sent; nobody has to start a command.
ClientSpec ==
    /\ ClientInit /\ [][ClientNext]_clVars
    /\ \A t \in Thread :
           /\ WF_clVars(client /\ (CmdSend(t) \/ CmdWait(t) \/ CmdReturn(t))
                               /\ UNCHANGED client)
           /\ WF_clVars(client /\ pc[t] = "payload" /\ CmdStart(t) /\ UNCHANGED client)
    /\ WF_clVars(client /\ ReadThread /\ UNCHANGED client)
    /\ WF_clVars(client /\ Esp /\ Benign /\ UNCHANGED client)

-----------------------------------------------------------------------------

\* As a client, a payload is written only to an ESP8266 that expects it
\* (esp01.c 229-237).
ClientPayload ==
    client => \A t \in Thread :
                  kind[t] = "data" /\ pc[t] \in {"start", "sent"} => esp = t

\* As a client, a command returns what became of it, although accept swallows
\* the OK of every CIPSTART and leaves the OK of its own CIPSTATUS to the
\* waiting thread (serial.c 248-265): connect and send of esp01.c give up only
\* when the ESP8266 has refused.
ClientOutcome ==
    [][client => \A t \in Thread :
           CmdReturn(t) => fate[t] = IF result = RES_OK THEN "good" ELSE "bad"]_clVars

\* As a client, every command returns: pthread_cond_wait has no timeout.
ClientReturns ==
    \A t \in Thread : client /\ pc[t] = "wait" ~> pc[t] \in {"idle", "payload"}
=============================================================================

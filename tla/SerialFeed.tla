----------------------------- MODULE SerialFeed -----------------------------
(***************************************************************************)
(* What the reading side of esp01/serial.c promises the driver: the        *)
(* messages of the ESP8266 are taken one at a time, whole and in order,    *)
(* and each leads to at most one call, with its own link and its own data. *)
(*                                                                         *)
(* Esp01 and SerialCmd handle messages as this specification does.  Once a *)
(* message has come that the reader cannot tell from others (see Garbling) *)
(* nothing is promised any more.                                           *)
(***************************************************************************)
EXTENDS SerialMsg

VARIABLES queue,   \* messages sent and not yet handled
          mode,    \* whether read_thread is in the loop of accept
          out,     \* the latest call into the driver or the hand-over
          sync     \* whether messages are still told apart

feedVars == <<queue, mode, out, sync>>

FeedInit == queue = <<>> /\ mode = Reading /\ out = NoCall /\ sync = TRUE

\* The ESP8266 sends messages.
FeedSend == sync /\ IsStrictPrefix(queue, queue') /\ UNCHANGED <<mode, out, sync>>

\* Outside accept: answers, ends of links and packets are passed on.
FeedRead(m) ==
    /\ ~mode.accept
    /\ out' = CASE m.kind = "answer" -> Call("answer", m.word, m.link, <<>>)
                [] m.kind = "closed" -> Call("closed", "", m.link, <<>>)
                [] m.kind = "ipd"    -> Call("recv", "", m.link, m.data)
                [] OTHER             -> out
    /\ mode' = IF m.kind = "connect" THEN Accepting(m.link, 0) ELSE Reading

\* Inside: the state of the new link is passed on, OK and ERROR end the loop,
\* everything else is dropped.
FeedAccept(m) ==
    /\ mode.accept
    /\ IF m.kind = "status" /\ m.link = mode.link
       THEN /\ out' = Call("accept", "", m.link, <<>>)
            /\ mode' = Accepting(m.link, mode.used + StatusUsed(m))
       ELSE /\ out' = out
            /\ mode' = IF m.kind = "answer" /\ m.word \in {"OK", "ERROR"}
                       THEN Reading ELSE mode

FeedTake ==
    /\ sync /\ queue # <<>>
    /\ queue' = Tail(queue)
    /\ FeedRead(Head(queue)) \/ FeedAccept(Head(queue))
    /\ UNCHANGED sync

\* The messages whose bytes may be taken for something else.
FeedLose == sync /\ queue # <<>> /\ Garbling(Head(queue), mode) /\ ~sync'

FeedAstray == ~sync /\ ~sync'

FeedNext == FeedSend \/ FeedTake \/ FeedLose \/ FeedAstray

FeedSpec == FeedInit /\ [][FeedNext]_feedVars
=============================================================================

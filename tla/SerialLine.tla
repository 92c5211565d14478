----------------------------- MODULE SerialLine -----------------------------
(***************************************************************************)
(* How read_thread of esp01/serial.c tells the messages of the ESP8266     *)
(* apart: it gathers characters in a line of 64, parses a line at its end, *)
(* reads the data of a packet by the length in its header, and runs a loop *)
(* of its own in accept.                                                   *)
(*                                                                         *)
(* One step reads one token (see SerialMsg): characters are counted, but   *)
(* only whole words are ever compared.  parse_line compares at a fixed     *)
(* distance from the end; for shorter lines that is in front of the buffer,*)
(* where no word fits that the line itself does not end.                   *)
(*                                                                         *)
(* The ESP8266 is external.  It sends whole messages at any time; the      *)
(* state of the links and OK answer the request of accept.                 *)
(***************************************************************************)
EXTENDS SerialMsg

CONSTANTS Sent,      \* the messages it may send unasked, or to others' commands
          Statuses,  \* the lists of links it may answer CIPSTATUS with
          MaxRx,     \* messages under way that bar another one (a bound)
          MaxAsked   \* most requests of accept under way (a bound)

ASSUME SentAssumption  == \A m \in Sent : WellFormed(m)
ASSUME StatusAssumption ==
    \A s \in Statuses : s \in Seq(Message) /\ \A k \in 1..Len(s) : WellFormed(s[k])
ASSUME BoundAssumption == {MaxRx, MaxAsked} \subseteq Nat

VARIABLES rx,      \* messages not completely read
          pos,     \* tokens of the first one already read
          st,      \* "read" (read_thread), "payload" (recv) or "accept"
          line,    \* the tokens in the line
          i,       \* i of read_thread or accept: characters in the line
          base,    \* how far accept has moved line
          link,    \* link_id of recv and accept
          n,       \* n of recv less the characters read
          data,    \* s of recv
          asked,   \* CIPSTATUS requests not yet answered
          out,     \* the latest call into the driver or to the hand-over
          astray   \* ghost: a message was lost among others

vars == <<rx, pos, st, line, i, base, link, n, data, asked, out, astray>>

Init ==
    /\ rx = <<>> /\ pos = 0 /\ st = "read"
    /\ line = <<>> /\ i = 0 /\ base = 0
    /\ link = 0 /\ n = 0 /\ data = <<>>
    /\ asked = 0 /\ out = NoCall /\ astray = FALSE

-----------------------------------------------------------------------------
(* The terminal *)

More == rx # <<>> /\ ~astray

Char == Text(Head(rx))[pos + 1]

\* One token is read.
Advance ==
    IF pos + 1 = Len(Text(Head(rx)))
    THEN rx' = Tail(rx) /\ pos' = 0
    ELSE rx' = rx /\ pos' = pos + 1

\* The terminal drops carriage returns (IGNCR), those of a packet's data
\* included, which its length counts.  When data ends in one the line goes on.
TtyDrops ==
    /\ More /\ Char = CR /\ Advance
    /\ astray' = (st = "payload" \/ pos' = 0)
    /\ UNCHANGED <<st, line, i, base, link, n, data, asked, out>>

-----------------------------------------------------------------------------
(* read_thread *)

\* The line with t added; what does not fit is cut, and a word that is cut is
\* a word no more.
Longer(t)  == IF i + Width(t) < LINE THEN Append(line, t) ELSE line
LongerI(t) == Min({i + Width(t), LINE - 1})

StartsWith(l, c) == l # <<>> /\ l[1].c = c

\* Word c begins d characters before the end of a line of len characters.
WordAt(l, len, c, d) ==
    \E k \in 1..Len(l) : l[k].c = c /\ WidthOf(SubSeq(l, 1, k - 1)) + d = len

IsHeader(t) == t = Word(":") /\ StartsWith(Longer(t), "+IPD")

Restart == line' = <<>> /\ i' = 0

Store(t) ==
    /\ t # NL /\ ~IsHeader(t)
    /\ line' = Longer(t) /\ i' = LongerI(t)
    /\ UNCHANGED <<st, base, link, n, data, asked, out>>

\* The number behind the k-th comma from the end.
Field(l, k) ==
    LET commas == {j \in 1..Len(l) : l[j] = Word(",")}
        behind == CHOOSE j \in commas : Cardinality({h \in commas : h >= j}) = k
    IN l[behind + 1].v

\* recv: port, address, length and link, from the end of the header.
Header(t) ==
    /\ IsHeader(t)
    /\ n' = Field(line, 3) /\ link' = Field(line, 4) /\ data' = <<>>
    /\ st' = "payload"
    /\ Restart
    /\ UNCHANGED <<base, asked, out>>

IsConnect(l, len) == WordAt(l, len, ",CONNECT", 9)
IsClosed(l, len)  == WordAt(l, len, ",CLOSED", 8)
IsAnswer(l)       == \E w \in {"OK", "ERROR", "SEND OK"} : StartsWith(l, w)

\* parse_line for the announcement of a connection: accept asks for its state.
ConnectLine(l, len) ==
    /\ IsConnect(l, len)
    /\ asked < MaxAsked
    /\ link' = l[1].v
    /\ asked' = asked + 1
    /\ st' = "accept" /\ base' = 0
    /\ UNCHANGED out

\* parse_line for every other line.
PlainLine(l, len) ==
    /\ ~IsConnect(l, len)
    /\ out' = IF IsClosed(l, len) THEN Call("closed", "", l[1].v, <<>>)
              ELSE IF IsAnswer(l) THEN Call("answer", l[1].c, 0, <<>>)
              ELSE out
    /\ UNCHANGED <<st, base, link, asked>>

ParseLine(t) ==
    /\ t = NL
    /\ ConnectLine(Longer(t), LongerI(t)) \/ PlainLine(Longer(t), LongerI(t))
    /\ Restart
    /\ UNCHANGED <<n, data>>

ReadThread ==
    /\ st = "read" /\ More /\ Char # CR
    /\ Header(Char) \/ ParseLine(Char) \/ Store(Char)
    /\ Advance
    /\ UNCHANGED astray

\* Mutant: data ends where a line does.
PayloadLine ==
    /\ st = "payload" /\ More /\ Char # CR
    /\ IF n > Width(Char) /\ Char # NL
       THEN /\ n' = n - Width(Char) /\ data' = Append(data, Char)
            /\ UNCHANGED <<st, out>>
       ELSE /\ out' = Call("recv", "", link, Append(data, Char))
            /\ st' = "read" /\ n' = 0 /\ data' = <<>>
    /\ Advance
    /\ UNCHANGED <<line, i, base, link, asked, astray>>

\* Mutant: i <= n, one character more than there is.
PayloadOneMore ==
    /\ st = "payload" /\ More /\ Char # CR
    /\ IF n >= Width(Char)
       THEN /\ n' = n - Width(Char) /\ data' = Append(data, Char)
            /\ UNCHANGED <<st, out>>
       ELSE /\ out' = Call("recv", "", link, Append(data, Char))
            /\ st' = "read" /\ n' = 0 /\ data' = <<>>
    /\ Advance
    /\ UNCHANGED <<line, i, base, link, asked, astray>>

\* recv reads the data by its length, whatever it contains.
Payload ==
    /\ st = "payload" /\ More /\ Char # CR
    /\ IF n > Width(Char)
       THEN /\ n' = n - Width(Char) /\ data' = Append(data, Char)
            /\ UNCHANGED <<st, out>>
       ELSE /\ out' = Call("recv", "", link, Append(data, Char))
            /\ st' = "read" /\ n' = 0 /\ data' = <<>>
    /\ Advance
    /\ UNCHANGED <<line, i, base, link, asked, astray>>

-----------------------------------------------------------------------------
(* The loop of accept.  It writes without regard to the end of the buffer; *)
(* nothing is said of what follows when that, or a line that is not a      *)
(* message, has happened.                                                  *)

Overrun(t) == base + i + Width(t) > LINE

\* Mutant: the state of any link will do.
IsStatusAny == StartsWith(line, "+CIPSTATUS:")

IsStatus == StartsWith(line, "+CIPSTATUS:") /\ line[2].v = link
IsEnd    == line \in {<<Word("OK")>>, <<Word("ERROR")>>}

AcceptStore(t) ==
    /\ t # NL
    /\ line' = Append(line, t) /\ i' = i + Width(t)
    /\ astray' = (Overrun(t) \/ pos' = 0)
    /\ UNCHANGED <<st, base, out>>

\* The state of the new link; line moves behind its address and stays there.
AcceptFound(t) ==
    /\ t = NL /\ IsStatus
    /\ out' = Call("accept", "", link, <<>>)
    /\ base' = base + WidthOf(SubSeq(line, 1, 5))
    /\ Restart
    /\ astray' = (Overrun(t) \/ Head(rx).kind # "status")
    /\ UNCHANGED st

AcceptEnd(t) ==
    /\ t = NL /\ IsEnd
    /\ st' = "read"
    /\ Restart
    /\ astray' = (Overrun(t) \/ Head(rx).kind # "answer")
    /\ UNCHANGED <<base, out>>

AcceptDrop(t) ==
    /\ t = NL /\ ~IsStatus /\ ~IsEnd
    /\ Restart
    /\ astray' = Overrun(t)
    /\ UNCHANGED <<st, base, out>>

Accept ==
    /\ st = "accept" /\ More /\ Char # CR
    /\ Advance
    /\ \/ AcceptStore(Char) \/ AcceptFound(Char)
       \/ AcceptEnd(Char) \/ AcceptDrop(Char)
    /\ UNCHANGED <<link, n, data, asked>>

-----------------------------------------------------------------------------
(* The ESP8266 (external) *)

Send ==
    /\ ~astray /\ Len(rx) < MaxRx
    /\ \E m \in Sent : rx' = Append(rx, m)
    /\ UNCHANGED <<pos, st, line, i, base, link, n, data, asked, out, astray>>

AnswerStatus ==
    /\ ~astray /\ Len(rx) < MaxRx /\ asked > 0
    /\ \E s \in Statuses : rx' = rx \o s \o <<Answer("OK")>>
    /\ asked' = asked - 1
    /\ UNCHANGED <<pos, st, line, i, base, link, n, data, out, astray>>

-----------------------------------------------------------------------------

Reader == TtyDrops \/ ReadThread \/ Payload \/ Accept

Next == Reader \/ Send \/ AnswerStatus

Spec == Init /\ [][Next]_vars

\* read_thread reads on as long as there is something to read; the ESP8266
\* need not send anything.
FairSpec == Spec /\ WF_vars(Reader)

-----------------------------------------------------------------------------
(* Properties *)

\* The line and the data keep in step with the messages: a message begins
\* where a line begins and no data is due, and the line is never more than
\* what has come of the current message, whatever lines are cut (serial.c
\* 150) and whatever the data of packets looks like (serial.c 226-229).
InSync ==
    ~astray =>
        /\ pos = 0 => st # "payload" /\ line = <<>>
        /\ st = "payload" => /\ Head(rx).kind = "ipd" /\ Head(rx).link = link
                             /\ n + WidthOf(data) = WidthOf(Head(rx).data)
        /\ st = "read" => i = IF pos = 0 THEN 0
                              ELSE Min({LINE - 1, Shown(Text(Head(rx)), pos)})

\* read_thread, parse_line, recv, accept and closed implement the taking of
\* whole messages in order: no call into the driver comes from the data of a
\* packet or from a line that is cut, none is lost, repeated or given another
\* link or other data.  Nothing is promised from the first message on that
\* Garbling names.
Feed == INSTANCE SerialFeed WITH
    queue <- rx,
    mode  <- IF st = "accept" THEN Accepting(link, base) ELSE Reading,
    sync  <- ~astray

FeedRefinement == Feed!FeedSpec

\* Once its header has been read, a packet is handed over without anything
\* further from the ESP8266, unless the terminal drops some of its data
\* (serial.c 61, 226).
PacketDelivered ==
    More /\ st = "payload" /\ ~Contains(Head(rx).data, CR) ~> st = "read"
=============================================================================

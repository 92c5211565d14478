----------------------------- MODULE SerialMsg ------------------------------
(***************************************************************************)
(* The messages of the ESP8266 as the driver of esp01/ knows them, and the *)
(* calls they lead to.  A message is a line, or a packet: a header of the  *)
(* form +IPD,<link>,<length>,<address>,<port>: and as many bytes of data.  *)
(* Text writes a message as tokens, each with its width in characters:     *)
(* words the parsers compare with, numbers, and text of no meaning.        *)
(***************************************************************************)
EXTENDS Naturals, Sequences, SequencesExt

\* A token; v is the value of a number, and the width of what has neither
\* meaning nor value here.
Token(c, v) == [c |-> c, v |-> v]
Word(c)     == Token(c, 0)
NL == Word("\n")
CR == Word("\r")

Width(t) ==
    CASE t.c \in {"\n", "\r", ",", ":"} -> 1
      [] t.c \in {"OK", "\","}  -> 2
      [] t.c = "+IPD"           -> 4
      [] t.c = "ERROR"          -> 5
      [] t.c \in {"SEND OK", ",CLOSED"} -> 7
      [] t.c \in {",CONNECT", ",\"TCP\",\""} -> 8
      [] t.c = "+CIPSTATUS:"    -> 11
      [] t.c = "num"            -> IF t.v < 10 THEN 1 ELSE 4
      [] OTHER                  -> t.v

\* The sum of the first k values of f.
SumTo(f, k) ==
    LET sum[j \in 0..k] == IF j = 0 THEN 0 ELSE sum[j - 1] + f[j]
    IN sum[k]

WidthOf(s) == SumTo([k \in 1..Len(s) |-> Width(s[k])], Len(s))

\* The characters of the first k tokens that the terminal lets through.
Shown(s, k) == SumTo([j \in 1..Len(s) |-> IF s[j] = CR THEN 0 ELSE Width(s[j])], k)

-----------------------------------------------------------------------------
(* Messages *)

Msg(kind, word, link, data) ==
    [kind |-> kind, word |-> word, link |-> link, data |-> data]

Answer(w)       == Msg("answer", w, 0, <<>>)
Connected(l)    == Msg("connect", "", l, <<>>)
ClosedLink(l)   == Msg("closed", "", l, <<>>)
Packet(l, d)    == Msg("ipd", "", l, d)
\* The state of a link; the address has a characters.
Status(l, a)    == Msg("status", "", l, <<Token("addr", a)>>)
\* A line of n characters none of the parsers knows: the echo of a command,
\* progress of a connection.
Other(n)        == Msg("other", "", 0, <<Token("text", n)>>)

Message == [kind : {"answer", "connect", "closed", "ipd", "status", "other"},
            word : {"", "OK", "ERROR", "SEND OK"}, link : 0..9,
            data : Seq([c : STRING, v : Nat])]

OneToken(d, c) == Len(d) = 1 /\ d[1].c = c

\* What the kind of a message says of its parts.
WellFormed(m) ==
    /\ m \in Message
    /\ m.kind = "answer" => m.word # "" /\ m.link = 0
    /\ m.kind = "ipd"    => m.data # <<>> /\ \A k \in 1..Len(m.data) : Width(m.data[k]) > 0
    /\ m.kind = "status" => OneToken(m.data, "addr")
    /\ m.kind = "other"  => OneToken(m.data, "text")

EOL == <<CR, NL>>

Text(m) ==
    CASE m.kind = "answer"  -> <<Word(m.word)>> \o EOL
      [] m.kind = "connect" -> <<Token("num", m.link), Word(",CONNECT")>> \o EOL
      [] m.kind = "closed"  -> <<Token("num", m.link), Word(",CLOSED")>> \o EOL
      [] m.kind = "ipd"     -> <<Word("+IPD"), Word(","), Token("num", m.link),
                                 Word(","), Token("num", WidthOf(m.data)),
                                 Word(","), Token("addr", 11),
                                 Word(","), Token("port", 5), Word(":")>> \o m.data
      [] m.kind = "status"  -> <<Word("+CIPSTATUS:"), Token("num", m.link),
                                 Word(",\"TCP\",\"")>> \o m.data
                               \o <<Word("\","), Token("port", 5), Word(","),
                                    Token("tail", 6)>> \o EOL
      [] m.kind = "other"   -> m.data \o EOL

-----------------------------------------------------------------------------
(* Calls and modes *)

Call(to, word, link, data) == [to |-> to, word |-> word, link |-> link, data |-> data]
NoCall == Call("none", "", 0, <<>>)

\* used is how much of the line buffer accept does not use any more.
Reading == [link |-> 0, accept |-> FALSE, used |-> 0]
Accepting(l, used) == [link |-> l, accept |-> TRUE, used |-> used]

\* The tokens h + 1, ... k of s do not show.
Hidden(s, h, k) == \A j \in (h + 1)..k : s[j] = CR

\* Words at the beginning of a line that accept looks for.
Looked == {"OK", "ERROR", "+CIPSTATUS:"}

\* Data whose lines accept can drop one by one: the last one is ended, and
\* none is one that accept looks for.  The first line starts with the header.
Droppable(d) ==
    /\ d # <<>> /\ d[Len(d)] = NL
    /\ \A h, k \in 1..Len(d) :
           h < k /\ d[h] = NL /\ Hidden(d, h, k - 1) => d[k].c \notin Looked

\* The line buffer of read_thread.  Once the state of the new link has been
\* found accept does not use the part up to the end of its address any more.
LINE == 64
StatusUsed(m) == WidthOf(SubSeq(Text(m), 1, 5))

\* Messages whose bytes the reader may take for something else: data in which
\* the terminal drops carriage returns that the length counts; in the loop of
\* accept, data that is not made of lines, and what does not fit the buffer.
Garbling(m, mode) ==
    IF ~mode.accept THEN m.kind = "ipd" /\ Contains(m.data, CR)
    ELSE \/ m.kind = "ipd" /\ ~Droppable(m.data)
         \/ mode.used + Shown(Text(m), Len(Text(m))) > LINE
=============================================================================

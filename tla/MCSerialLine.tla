---------------------------- MODULE MCSerialLine ----------------------------
(***************************************************************************)
(* Model checking of SerialLine: two links, addresses of 7 and 13          *)
(* characters (the longest of the application's own network), an echo that *)
(* fits the line and one that does not, and data with line ends, with an   *)
(* answer or a header inside, of one line that just does not fit the       *)
(* buffer, and with carriage returns.                                      *)
(***************************************************************************)
EXTENDS SerialLine

X == Token("text", 1)

MCSent == {Answer("OK"), Answer("ERROR"), Answer("SEND OK"), Connected(0), Connected(1), ClosedLink(1),
           Other(12), Other(70),
           Packet(0, <<X>>), Packet(1, <<X, NL, Word("OK"), NL>>),
           Packet(1, <<Word("+IPD"), Word(":"), X, NL>>),
           Packet(0, <<Token("text", 34), NL>>),
           Packet(0, <<X, CR, NL>>), Packet(0, <<X, CR>>)}

MCStatuses == {<<>>, <<Status(0, 7)>>, <<Status(0, 13), Status(1, 7)>>,
               <<Status(1, 13), Status(0, 13)>>}
=============================================================================

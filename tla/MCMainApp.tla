----------------------------- MODULE MCMainApp ------------------------------
(***************************************************************************)
(* Model checking of MainApp.  The addresses are the longest ones inside   *)
(* and outside the application's network, of 13 and 15 characters, and the *)
(* one that stands for a server; the ports are some that fit 16 bits, two  *)
(* that do not, and none.                                                  *)
(***************************************************************************)
EXTENDS MainApp

Conn(host, colon, port) == [host |-> host, colon |-> colon, port |-> port]

MCConnection == {Conn(<<>>, FALSE, 65535), Conn(<<>>, TRUE, 80),
                 Conn(Dotted(<<192, 168, 0, 254>>), TRUE, 80),
                 Conn(Dotted(<<192, 168, 0, 254>>), TRUE, 70000),
                 Conn(Dotted(<<192, 168, 178, 254>>), TRUE, 80),
                 Conn(Dotted(INET_ADDR_ANY), TRUE, 65536),
                 Conn(Dotted(INET_ADDR_ANY), TRUE, 0)}
=============================================================================

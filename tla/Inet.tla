-------------------------------- MODULE Inet --------------------------------
(***************************************************************************)
(* net/inet.c: internet addresses as numbers and as text.  An address is   *)
(* the sequence of its four octets; a text is a sequence of digits and     *)
(* dots.  Numbers between dots are at most 255, so that the bitwise or of  *)
(* inet_addr puts each into an octet of its own.                           *)
(***************************************************************************)
EXTENDS Naturals, Sequences, SequencesExt

Octet == 0..255
Addr  == [1..4 -> Octet]
Dot   == 10

INET_ADDR_ANY == <<0, 0, 0, 0>>

\* strtok and atoi: the numbers between the dots, without empty ones.
Numbers(text) ==
    LET ns[k \in 0..Len(text)] ==   \* of the first k characters
            IF k = 0 THEN <<>>
            ELSE LET c == text[k]
                     begins == k = 1 \/ text[k - 1] = Dot
                 IN  IF c = Dot THEN ns[k - 1]
                     ELSE IF begins THEN Append(ns[k - 1], c)
                     ELSE [ns[k - 1] EXCEPT ![Len(ns[k - 1])] = 10 * @ + c]
    IN  ns[Len(text)]

\* Every number is shifted in from the right.
inet_addr(text) ==
    LET ns == Numbers(text)
        a[k \in 0..Len(ns)] ==
            IF k = 0 THEN INET_ADDR_ANY
            ELSE <<a[k - 1][2], a[k - 1][3], a[k - 1][4], ns[k]>>
    IN  a[Len(ns)]

Digits(v) == (IF v >= 100 THEN <<v \div 100>> ELSE <<>>)
             \o (IF v >= 10 THEN <<(v \div 10) % 10>> ELSE <<>>) \o <<v % 10>>

Dotted(a) == Digits(a[1]) \o <<Dot>> \o Digits(a[2]) \o <<Dot>>
             \o Digits(a[3]) \o <<Dot>> \o Digits(a[4])

\* snprintf keeps len - 1 characters.
inet_ntoa(a, len) == SubSeq(Dotted(a), 1, Min({len - 1, Len(Dotted(a))}))

Masked(a, mask) == [k \in 1..4 |-> IF mask[k] = 255 THEN a[k] ELSE 0]

\* Mutant: the network of the device is not looked at.
inet_match_any(cfg, a) == TRUE

\* Whether a device of configuration cfg reaches a; masks are of whole octets.
inet_match_addr(cfg, a) ==
    a = INET_ADDR_ANY \/ Masked(cfg.ip, cfg.netmask) = Masked(a, cfg.netmask)
=============================================================================

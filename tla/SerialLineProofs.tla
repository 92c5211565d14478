-------------------------- MODULE SerialLineProofs --------------------------
(***************************************************************************)
(* Theorems about SerialLine.                                              *)
(***************************************************************************)
EXTENDS SerialLine, SequenceTheorems, FiniteSetTheorems, NaturalsInduction, WellFoundedInduction, TLAPS

------------------------------------------------------------------------------
(* Sums.  SumTo is defined by recursion; that the recursion has a solution, *)
(* and only one, is shown by looking at the least number for which it would *)
(* not.                                                                     *)

LEMMA LeastNumber ==
    ASSUME NEW T \in SUBSET Nat, T # {}
    PROVE  \E m \in T : \A k \in T : m <= k
<1> DEFINE R == OpToRel(<, Nat)
<1>1. IsWellFoundedOn(R, Nat)
  BY NatLessThanWellFounded, Zenon
<1>2. \A x, y \in Nat : y < x => <<y, x>> \in R
  BY DEF OpToRel
<1> HIDE DEF R
<1>3. PICK m \in T : \A y \in T : ~ (<<y, m>> \in R)
  BY <1>1, WFMin
<1>4. \A k \in T : ~(k < m)
  BY <1>2, <1>3, Zenon
<1>5. \A k \in T : m <= k
  BY <1>4, SMT
<1> QED
  BY <1>5

\* s has the sums of the first 0, 1, ... z values of f.
Sums(f, s, z) ==
    /\ s = [j \in 0..z |-> s[j]]
    /\ s[0] = 0 /\ \A j \in 1..z : s[j] = s[j - 1] + f[j]

LEMMA SumsExist ==
    ASSUME NEW f, NEW z \in Nat
    PROVE  \E s : Sums(f, s, z)
<1> DEFINE T == {m \in Nat : ~ \E s : Sums(f, s, m)}
<1> SUFFICES ASSUME T # {} PROVE FALSE
  OBVIOUS
<1>1. PICK m \in T : \A k \in T : m <= k
  <2>1. T \in SUBSET Nat
    OBVIOUS
  <2> HIDE DEF T
  <2> QED
    BY <2>1, LeastNumber
<1>2. m \in Nat /\ ~ \E s : Sums(f, s, m)
  BY <1>1
<1>3. CASE m = 0
  <2> DEFINE s == [j \in 0..0 |-> 0]
  <2>1. Sums(f, s, 0)
    BY DEF Sums
  <2> QED
    BY <1>2, <1>3, <2>1
<1>4. CASE m # 0
  <2>1. m - 1 \in Nat /\ m - 1 \notin T
    BY <1>1, <1>2, <1>4
  <2>2. PICK r : Sums(f, r, m - 1)
    BY <2>1
  <2> DEFINE s == [j \in 0..m |-> IF j = m THEN r[m - 1] + f[m] ELSE r[j]]
  <2>3. s = [j \in 0..m |-> s[j]]
    OBVIOUS
  <2>4. s[0] = 0 /\ s[m] = s[m - 1] + f[m]
    BY <1>2, <1>4, <2>2 DEF Sums
  <2>5. ASSUME NEW j \in 1..(m - 1) PROVE s[j] = s[j - 1] + f[j]
    <3>1. j \in 0..m /\ j - 1 \in 0..m /\ j # m /\ j - 1 # m
      BY <1>2
    <3>2. s[j] = r[j] /\ s[j - 1] = r[j - 1]
      BY <3>1
    <3> QED
      BY <2>2, <3>2 DEF Sums
  <2> HIDE DEF s
  <2>6. \A j \in 1..m : j = m \/ j \in 1..(m - 1)
    BY <1>2
  <2>7. Sums(f, s, m)
    BY <2>3, <2>4, <2>5, <2>6 DEF Sums
  <2> QED
    BY <1>2, <2>7
<1> QED
  BY <1>3, <1>4

LEMMA SumsUnique ==
    ASSUME NEW f, NEW g, NEW s, NEW r, NEW z \in Nat, Sums(f, s, z), Sums(g, r, z),
           \A j \in 1..z : f[j] = g[j]
    PROVE  s[z] = r[z]
<1> DEFINE T == {j \in Nat : j <= z /\ s[j] # r[j]}
<1> SUFFICES ASSUME T # {} PROVE FALSE
  OBVIOUS
<1>1. PICK m \in T : \A k \in T : m <= k
  <2>1. T \in SUBSET Nat
    OBVIOUS
  <2> HIDE DEF T
  <2> QED
    BY <2>1, LeastNumber
<1>2. m \in Nat /\ m <= z /\ s[m] # r[m]
  BY <1>1
<1>3. m # 0
  BY <1>2 DEF Sums
<1>4. s[m - 1] = r[m - 1] /\ m \in 1..z
  BY <1>1, <1>2, <1>3
<1> QED
  BY <1>2, <1>4 DEF Sums

LEMMA SumToSums ==
    ASSUME NEW f, NEW z \in Nat
    PROVE  \E s : Sums(f, s, z) /\ SumTo(f, z) = s[z]
<1> DEFINE IsSum(s) == s = [j \in 0..z |-> IF j = 0 THEN 0 ELSE s[j - 1] + f[j]]
           g == CHOOSE s : IsSum(s)
<1>1. PICK r : Sums(f, r, z)
  BY SumsExist
<1>2. IsSum(r)
  <2>1. ASSUME NEW j \in 0..z PROVE r[j] = IF j = 0 THEN 0 ELSE r[j - 1] + f[j]
    <3>1. j # 0 => j \in 1..z
      OBVIOUS
    <3> QED
      BY <1>1, <3>1 DEF Sums
  <2> QED
    BY <1>1, <2>1, Zenon DEF Sums
<1>3. IsSum(g)
  <2> HIDE DEF IsSum
  <2> QED
    BY <1>2, Zenon
<1>4. Sums(f, g, z)
  <2> HIDE DEF g
  <2>1. 0 \in 0..z /\ g[0] = 0
    <3>1. 0 \in 0..z
      OBVIOUS
    <3> QED
      BY <1>3, <3>1, Zenon
  <2>2. ASSUME NEW j \in 1..z PROVE g[j] = g[j - 1] + f[j]
    <3>1. j \in 0..z /\ j # 0
      OBVIOUS
    <3> QED
      BY <1>3, <3>1, Zenon
  <2>3. g = [j \in 0..z |-> g[j]]
    BY <1>3
  <2> QED
    BY <2>1, <2>2, <2>3 DEF Sums
<1>5. SumTo(f, z) = g[z]
  BY Zenon DEF SumTo
<1> QED
  BY <1>4, <1>5

LEMMA SumOfNone == ASSUME NEW f PROVE SumTo(f, 0) = 0
<1>1. PICK s : Sums(f, s, 0) /\ SumTo(f, 0) = s[0]
  BY SumToSums
<1> QED
  BY <1>1 DEF Sums

LEMMA SumOfSame ==
    ASSUME NEW f, NEW g, NEW z \in Nat, \A j \in 1..z : f[j] = g[j]
    PROVE  SumTo(f, z) = SumTo(g, z)
<1>1. PICK s : Sums(f, s, z) /\ SumTo(f, z) = s[z]
  BY SumToSums
<1>2. PICK r : Sums(g, r, z) /\ SumTo(g, z) = r[z]
  BY SumToSums
<1> QED
  BY <1>1, <1>2, SumsUnique

LEMMA SumOfNext ==
    ASSUME NEW f, NEW z \in Nat
    PROVE  SumTo(f, z + 1) = SumTo(f, z) + f[z + 1]
<1>1. PICK s : Sums(f, s, z + 1) /\ SumTo(f, z + 1) = s[z + 1]
  BY SumToSums
<1>2. PICK r : Sums(f, r, z) /\ SumTo(f, z) = r[z]
  BY SumToSums
<1> DEFINE h == [j \in 0..z |-> s[j]]
<1>3. Sums(f, h, z)
  <2>1. h = [j \in 0..z |-> h[j]] /\ h[0] = 0
    BY <1>1 DEF Sums
  <2>2. ASSUME NEW j \in 1..z PROVE h[j] = h[j - 1] + f[j]
    <3>1. j \in 0..z /\ j - 1 \in 0..z /\ j \in 1..(z + 1)
      OBVIOUS
    <3> QED
      BY <1>1, <3>1 DEF Sums
  <2> HIDE DEF h
  <2> QED
    BY <2>1, <2>2 DEF Sums
<1>4. h[z] = s[z]
  OBVIOUS
<1> HIDE DEF h
<1>5. h[z] = r[z]
  BY <1>2, <1>3, SumsUnique
<1>6. z + 1 \in 1..(z + 1) /\ (z + 1) - 1 = z
  OBVIOUS
<1>7. s[z + 1] = s[z] + f[z + 1]
  BY <1>1, <1>6 DEF Sums
<1> QED
  BY <1>1, <1>2, <1>4, <1>5, <1>7

\* Sums of natural numbers only grow.
LEMMA SumGrows ==
    ASSUME NEW f, NEW z \in Nat, \A j \in 1..z : f[j] \in Nat
    PROVE  /\ SumTo(f, z) \in Nat
           /\ \A k \in 0..z : SumTo(f, k) \in Nat /\ SumTo(f, k) <= SumTo(f, z)
<1> DEFINE Fine(m) == SumTo(f, m) \in Nat /\ (m > 0 => SumTo(f, m - 1) <= SumTo(f, m))
           T == {m \in Nat : m <= z /\ ~Fine(m)}
<1>1. T = {}
  <2> SUFFICES ASSUME T # {} PROVE FALSE
    OBVIOUS
  <2>1. PICK m \in T : \A k \in T : m <= k
    <3>1. T \in SUBSET Nat
      OBVIOUS
    <3> HIDE DEF T
    <3> QED
      BY <3>1, LeastNumber
  <2>2. m \in Nat /\ m <= z /\ ~Fine(m)
    BY <2>1
  <2>3. m # 0
    BY <2>2, SumOfNone
  <2>4. PICK k : k = m - 1
    OBVIOUS
  <2>5. k \in Nat /\ k <= z /\ k \notin T /\ m = k + 1 /\ m \in 1..z
    BY <2>1, <2>2, <2>3, <2>4
  <2>6. SumTo(f, k) \in Nat /\ f[m] \in Nat
    BY <2>5
  <2>7. SumTo(f, m) = SumTo(f, k) + f[m]
    BY <2>5, SumOfNext
  <2> QED
    BY <2>2, <2>4, <2>6, <2>7
<1>2. \A m \in 0..z : Fine(m)
  BY <1>1
<1> DEFINE U == {m \in Nat : m <= z /\ ~(SumTo(f, z - m) <= SumTo(f, z))}
<1>3. U = {}
  <2> SUFFICES ASSUME U # {} PROVE FALSE
    OBVIOUS
  <2>1. PICK m \in U : \A k \in U : m <= k
    <3>1. U \in SUBSET Nat
      OBVIOUS
    <3> HIDE DEF U
    <3> QED
      BY <3>1, LeastNumber
  <2>2. m \in Nat /\ m <= z /\ ~(SumTo(f, z - m) <= SumTo(f, z))
    BY <2>1
  <2>3. SumTo(f, z) \in Nat
    BY <1>2
  <2>4. m # 0
    BY <2>2, <2>3
  <2>5. PICK k, l : k = z - m /\ l = z - (m - 1)
    OBVIOUS
  <2>6. k \in 0..z /\ l \in 0..z /\ l > 0 /\ l - 1 = k
    BY <2>2, <2>4, <2>5
  <2>7. SumTo(f, l) <= SumTo(f, z)
    <3>1. m - 1 \in Nat /\ m - 1 <= z /\ m - 1 \notin U
      BY <2>1, <2>2, <2>4
    <3> QED
      BY <2>5, <3>1
  <2>8. SumTo(f, k) \in Nat /\ SumTo(f, l) \in Nat /\ SumTo(f, k) <= SumTo(f, l)
    BY <1>2, <2>6
  <2> QED
    BY <2>2, <2>3, <2>5, <2>7, <2>8
<1>4. ASSUME NEW k \in 0..z PROVE SumTo(f, k) <= SumTo(f, z)
  <2>1. z - k \in Nat /\ z - k <= z /\ z - (z - k) = k
    OBVIOUS
  <2> QED
    BY <1>3, <2>1
<1> QED
  BY <1>2, <1>4


------------------------------------------------------------------------------
(* Tokens and their widths.                                                 *)

Words == {"", "OK", "ERROR", "SEND OK", ",CONNECT", ",CLOSED", "+IPD", ",", ":", "+CIPSTATUS:",
          ",\"TCP\",\"", "\",", "num", "addr", "port", "tail", "text", "\n", "\r"}
Chars == STRING \cup Words
Tok   == [c : Chars, v : Nat]

LEMMA WidthNat == ASSUME NEW t \in Tok PROVE Width(t) \in Nat
<1>1. t.v \in Nat
  BY DEF Tok
<1>2. Width(t) \in {1, 2, 4, 5, 7, 8, 11} \cup {t.v}
  BY Zenon DEF Width
<1> QED
  BY <1>1, <1>2

Widths(s) == [k \in 1..Len(s) |-> Width(s[k])]
ShownWidths(s) == [k \in 1..Len(s) |-> IF s[k] = CR THEN 0 ELSE Width(s[k])]

LEMMA WidthsNat ==
    ASSUME NEW s \in Seq(Tok)
    PROVE  /\ Len(s) \in Nat
           /\ \A k \in 1..Len(s) : s[k] \in Tok /\ Widths(s)[k] \in Nat /\ ShownWidths(s)[k] \in Nat
<1>1. ASSUME NEW k \in 1..Len(s) PROVE s[k] \in Tok /\ Width(s[k]) \in Nat
  <2>1. s[k] \in Tok
    BY ElementOfSeq
  <2> QED
    BY <2>1, WidthNat
<1> QED
  BY <1>1 DEF Widths, ShownWidths

LEMMA WidthOfNone == WidthOf(<<>>) = 0
<1>1. Len(<<>>) = 0
  OBVIOUS
<1> QED
  BY <1>1, SumOfNone DEF WidthOf

\* The width of the first tokens.
LEMMA WidthOfFirst ==
    ASSUME NEW s \in Seq(Tok), NEW k \in 0..Len(s)
    PROVE  WidthOf(SubSeq(s, 1, k)) = SumTo(Widths(s), k)
<1>1. PICK u : u = SubSeq(s, 1, k)
  OBVIOUS
<1>2. k \in Nat /\ Len(u) = k /\ \A j \in 1..k : u[j] = s[j] /\ j \in 1..Len(s)
  BY <1>1
<1>3. PICK f, g : f = [j \in 1..Len(u) |-> Width(u[j])] /\ g = Widths(s)
  OBVIOUS
<1>4. \A j \in 1..k : f[j] = g[j]
  BY <1>2, <1>3 DEF Widths
<1>5. SumTo(f, k) = SumTo(g, k)
  BY <1>2, <1>4, SumOfSame
<1>6. WidthOf(u) = SumTo(f, Len(u))
  BY <1>3, Zenon DEF WidthOf
<1> QED
  BY <1>1, <1>2, <1>3, <1>5, <1>6

LEMMA WidthOfAll == ASSUME NEW s PROVE WidthOf(s) = SumTo(Widths(s), Len(s))
  BY Zenon DEF WidthOf, Widths

LEMMA WidthOfNat == ASSUME NEW s \in Seq(Tok) PROVE WidthOf(s) \in Nat
<1>1. PICK f : f = Widths(s)
  OBVIOUS
<1>2. Len(s) \in Nat /\ \A j \in 1..Len(s) : f[j] \in Nat
  BY <1>1, WidthsNat
<1>3. SumTo(f, Len(s)) \in Nat
  BY <1>2, SumGrows
<1> QED
  BY <1>1, <1>3, WidthOfAll

\* One more token of a sequence; the sequence is longer than its first tokens
\* if what follows has a width.
LEMMA WidthOfNext ==
    ASSUME NEW s \in Seq(Tok), NEW k \in Nat, k < Len(s)
    PROVE  /\ WidthOf(SubSeq(s, 1, k)) \in Nat
           /\ WidthOf(SubSeq(s, 1, k + 1)) = WidthOf(SubSeq(s, 1, k)) + Width(s[k + 1])
           /\ WidthOf(SubSeq(s, 1, k + 1)) <= WidthOf(s)
<1>1. PICK f : f = Widths(s)
  OBVIOUS
<1>2. Len(s) \in Nat /\ \A j \in 1..Len(s) : f[j] \in Nat
  BY <1>1, WidthsNat
<1>3. k \in 0..Len(s) /\ k + 1 \in 0..Len(s) /\ k + 1 \in 1..Len(s)
  BY <1>2
<1>4. WidthOf(SubSeq(s, 1, k)) = SumTo(f, k) /\ WidthOf(SubSeq(s, 1, k + 1)) = SumTo(f, k + 1)
  BY <1>1, <1>3, WidthOfFirst
<1>5. f[k + 1] = Width(s[k + 1])
  BY <1>1, <1>3 DEF Widths
<1>6. SumTo(f, k + 1) = SumTo(f, k) + f[k + 1]
  BY SumOfNext
<1>7. SumTo(f, k) \in Nat /\ SumTo(f, k + 1) <= SumTo(f, Len(s))
  BY <1>2, <1>3, SumGrows
<1>8. WidthOf(s) = SumTo(f, Len(s))
  BY <1>1, WidthOfAll
<1> QED
  BY <1>4, <1>5, <1>6, <1>7, <1>8

LEMMA ShownIs == ASSUME NEW s, NEW k PROVE Shown(s, k) = SumTo(ShownWidths(s), k)
  BY Zenon DEF Shown, ShownWidths

LEMMA ShownNone == ASSUME NEW s PROVE Shown(s, 0) = 0
  BY ShownIs, SumOfNone

LEMMA ShownGrows ==
    ASSUME NEW s \in Seq(Tok), NEW k \in 0..Len(s), NEW l \in 0..k
    PROVE  Shown(s, k) \in Nat /\ Shown(s, l) \in Nat /\ Shown(s, l) <= Shown(s, k)
<1>1. PICK f : f = ShownWidths(s)
  OBVIOUS
<1>2. k \in Nat /\ \A j \in 1..k : f[j] \in Nat
  <2>1. Len(s) \in Nat /\ \A j \in 1..Len(s) : f[j] \in Nat
    BY <1>1, WidthsNat
  <2> QED
    BY <2>1
<1>3. SumTo(f, k) \in Nat /\ SumTo(f, l) \in Nat /\ SumTo(f, l) <= SumTo(f, k)
  BY <1>2, SumGrows
<1> QED
  BY <1>1, <1>3, ShownIs

LEMMA ShownNext ==
    ASSUME NEW s \in Seq(Tok), NEW k \in Nat, k < Len(s)
    PROVE  /\ s[k + 1] = CR => Shown(s, k + 1) = Shown(s, k)
           /\ s[k + 1] # CR => Shown(s, k + 1) = Shown(s, k) + Width(s[k + 1])
<1>1. PICK f : f = ShownWidths(s)
  OBVIOUS
<1>2. k + 1 \in 1..Len(s) /\ k \in 0..Len(s)
  <2>1. Len(s) \in Nat
    OBVIOUS
  <2> QED
    BY <2>1
<1>3. f[k + 1] = IF s[k + 1] = CR THEN 0 ELSE Width(s[k + 1])
  BY <1>1, <1>2 DEF ShownWidths
<1>4. SumTo(f, k + 1) = SumTo(f, k) + f[k + 1]
  BY SumOfNext
<1>5. Shown(s, k + 1) = SumTo(f, k + 1) /\ Shown(s, k) = SumTo(f, k)
  BY <1>1, ShownIs
<1>6. Shown(s, k) \in Nat
  <2>1. k \in 0..k
    OBVIOUS
  <2> QED
    BY <1>2, <2>1, ShownGrows
<1> QED
  BY <1>3, <1>4, <1>5, <1>6


------------------------------------------------------------------------------
(* The texts of the messages.                                               *)

LEMMA TokenTyped == ASSUME NEW c \in Words, NEW v \in Nat PROVE Token(c, v) \in Tok
<1>1. c \in Chars
  BY DEF Chars
<1> QED
  BY <1>1 DEF Token, Tok

LEMMA Typed ==
    /\ \A w \in Words : Word(w) \in Tok
    /\ NL \in Tok /\ CR \in Tok
<1>1. "\n" \in Words /\ "\r" \in Words
  BY Zenon DEF Words
<1>2. 0 \in Nat
  OBVIOUS
<1> QED
  BY <1>1, <1>2, TokenTyped, Zenon DEF Word, NL, CR

LEMMA SeqOfMore == ASSUME NEW A, NEW B, A \subseteq B, NEW s \in Seq(A) PROVE s \in Seq(B)
<1>1. Len(s) \in Nat /\ \A k \in 1..Len(s) : s[k] \in B
  BY ElementOfSeq
<1>2. s = [k \in 1..Len(s) |-> s[k]]
  BY LenProperties
<1> QED
  BY <1>1, <1>2, IsASeq

LEMMA DataTyped == ASSUME NEW s \in Seq([c : STRING, v : Nat]) PROVE s \in Seq(Tok)
<1>1. [c : STRING, v : Nat] \subseteq Tok
  <2>1. ASSUME NEW S, NEW U PROVE [c : S, v : Nat] \subseteq [c : S \cup U, v : Nat]
    OBVIOUS
  <2> QED
    BY <2>1, Zenon DEF Tok, Chars
<1> QED
  BY <1>1, SeqOfMore, Zenon

LEMMA ConcatIs ==
    ASSUME NEW S, NEW s \in Seq(S), NEW t \in Seq(S), NEW u \in Seq(S),
           Len(u) = Len(s) + Len(t), \A k \in 1..Len(s) : u[k] = s[k],
           \A k \in 1..Len(t) : u[Len(s) + k] = t[k]
    PROVE  s \o t = u
<1>1. PICK w : w = s \o t
  OBVIOUS
<1>2. /\ w \in Seq(S) /\ Len(w) = Len(s) + Len(t) /\ Len(s) \in Nat /\ Len(t) \in Nat
      /\ \A k \in 1..Len(s) : w[k] = s[k]
      /\ \A k \in 1..Len(t) : w[Len(s) + k] = t[k]
  BY <1>1, ConcatProperties
<1>3. \A k \in 1..Len(u) : k \in 1..Len(s) \/ \E j \in 1..Len(t) : k = Len(s) + j
  <2> SUFFICES ASSUME NEW k \in 1..Len(u), k \notin 1..Len(s)
               PROVE  \E j \in 1..Len(t) : k = Len(s) + j
    OBVIOUS
  <2>1. k - Len(s) \in 1..Len(t) /\ k = Len(s) + (k - Len(s))
    BY <1>2
  <2> QED
    BY <2>1
<1>4. \A k \in 1..Len(u) : w[k] = u[k]
  <2> SUFFICES ASSUME NEW k \in 1..Len(u) PROVE w[k] = u[k]
    OBVIOUS
  <2>1. CASE k \in 1..Len(s)
    BY <1>2, <2>1
  <2>2. CASE \E j \in 1..Len(t) : k = Len(s) + j
    BY <1>2, <2>2
  <2> QED
    BY <1>3, <2>1, <2>2, Zenon
<1>5. w = u
  BY <1>2, <1>4, SeqEqual
<1> QED
  BY <1>1, <1>5

LEMMA Concat ==
    ASSUME NEW S, NEW s \in Seq(S), NEW t \in Seq(S)
    PROVE  /\ s \o t \in Seq(S) /\ Len(s \o t) = Len(s) + Len(t)
           /\ \A k \in 1..(Len(s) + Len(t)) : (s \o t)[k] = IF k <= Len(s) THEN s[k] ELSE t[k - Len(s)]
  OBVIOUS

LEMMA PlainToken ==
    ASSUME NEW t, t.c \in {"num", "addr", "port", "tail", "text"}
    PROVE  t # NL /\ t # CR /\ t # Word(":")
<1>1. NL.c = "\n" /\ CR.c = "\r" /\ Word(":").c = ":"
  BY DEF Word, Token, NL, CR
<1>2. t.c # "\n" /\ t.c # "\r" /\ t.c # ":"
  BY Zenon
<1> QED
  BY <1>1, <1>2, Zenon

\* Words of the messages that are neither line ends nor the end of a header.
LEMMA PlainWords ==
    /\ NL # CR /\ Word(":") # NL /\ Word(":") # CR
    /\ \A w \in {"OK", "ERROR", "SEND OK", ",CONNECT", ",CLOSED", "+IPD", ",",
                 "+CIPSTATUS:", ",\"TCP\",\"", "\","} :
           Word(w) # NL /\ Word(w) # CR /\ Word(w) # Word(":")
<1>1. ASSUME NEW w \in {"OK", "ERROR", "SEND OK", ",CONNECT", ",CLOSED", "+IPD", ",",
                        "+CIPSTATUS:", ",\"TCP\",\"", "\","}
      PROVE  Word(w) # NL /\ Word(w) # CR /\ Word(w) # Word(":")
  <2>1. Word(w).c = w /\ NL.c = "\n" /\ CR.c = "\r" /\ Word(":").c = ":"
    BY DEF Word, Token, NL, CR
  <2>2. w # "\n" /\ w # "\r" /\ w # ":"
    BY Zenon
  <2> QED
    BY <2>1, <2>2, Zenon
<1>3. NL # CR /\ Word(":") # NL /\ Word(":") # CR
  <2>1. NL.c = "\n" /\ CR.c = "\r" /\ Word(":").c = ":"
    BY DEF Word, Token, NL, CR
  <2>2. "\n" # "\r" /\ ":" # "\n" /\ ":" # "\r"
    BY Zenon
  <2> QED
    BY <2>1, <2>2, Zenon
<1> QED
  BY <1>1, <1>3, Zenon

LEMMA Kinds ==
    ASSUME NEW m, WellFormed(m)
    PROVE  /\ m.kind \in {"answer", "connect", "closed", "ipd", "status", "other"}
           /\ m.link \in 0..9 /\ m.link \in Nat /\ m.data \in Seq(Tok)
           /\ m.kind = "answer" => m.word \in {"OK", "ERROR", "SEND OK"} /\ m.link = 0
<1>1. m \in Message
  BY Zenon DEF WellFormed
<1>2. m.link \in 0..9 /\ m.data \in Seq([c : STRING, v : Nat])
      /\ m.word \in {"", "OK", "ERROR", "SEND OK"}
      /\ m.kind \in {"answer", "connect", "closed", "ipd", "status", "other"}
  <2>1. PICK K, W, L, D : /\ K = {"answer", "connect", "closed", "ipd", "status", "other"}
                          /\ W = {"", "OK", "ERROR", "SEND OK"}
                          /\ L = 0..9 /\ D = Seq([c : STRING, v : Nat])
    BY Zenon
  <2>2. m \in [kind : K, word : W, link : L, data : D]
    BY <1>1, <2>1, Zenon DEF Message
  <2>3. m.kind \in K /\ m.word \in W /\ m.link \in L /\ m.data \in D
    BY <2>2
  <2> QED
    BY <2>1, <2>3, Zenon
<1>3. m.kind = "answer" => m.word # "" /\ m.link = 0
  BY Zenon DEF WellFormed
<1>4. m.kind = "answer" => m.word \in {"OK", "ERROR", "SEND OK"}
  BY <1>2, <1>3, Zenon
<1>5. m.link \in Nat
  <2>1. PICK l : l = m.link
    OBVIOUS
  <2>2. l \in 0..9
    BY <1>2, <2>1, Zenon
  <2>3. l \in Nat
    BY <2>2
  <2> QED
    BY <2>1, <2>3, Zenon
<1> QED
  BY <1>2, <1>3, <1>4, <1>5, DataTyped, Zenon

LEMMA JoinOneTwo ==
    ASSUME NEW a \in Tok, NEW p \in Tok, NEW q \in Tok
    PROVE  <<a>> \o <<p, q>> = <<a, p, q>>
<1>1. PICK s, t, u : s = <<a>> /\ t = <<p, q>> /\ u = <<a, p, q>>
  OBVIOUS
<1>2. s \in Seq(Tok) /\ t \in Seq(Tok) /\ u \in Seq(Tok)
  BY <1>1
<1>3. Len(s) = 1 /\ Len(t) = 2 /\ Len(u) = 3
  BY <1>1
<1>4. (\A k \in 1..Len(s) : u[k] = s[k]) /\ \A k \in 1..Len(t) : u[Len(s) + k] = t[k]
  BY <1>1, <1>3
<1>5. s \o t = u
  <2>1. Len(u) = Len(s) + Len(t)
    BY <1>3
  <2> QED
    BY <1>2, <1>4, <2>1, ConcatIs, Zenon
<1> QED
  BY <1>1, <1>5, Zenon

LEMMA JoinTwoTwo ==
    ASSUME NEW a \in Tok, NEW b \in Tok, NEW p \in Tok, NEW q \in Tok
    PROVE  <<a, b>> \o <<p, q>> = <<a, b, p, q>>
<1>1. PICK s, t, u : s = <<a, b>> /\ t = <<p, q>> /\ u = <<a, b, p, q>>
  OBVIOUS
<1>2. s \in Seq(Tok) /\ t \in Seq(Tok) /\ u \in Seq(Tok)
  BY <1>1
<1>3. Len(s) = 2 /\ Len(t) = 2 /\ Len(u) = 4
  BY <1>1
<1>4. (\A k \in 1..Len(s) : u[k] = s[k]) /\ \A k \in 1..Len(t) : u[Len(s) + k] = t[k]
  BY <1>1, <1>3
<1>5. s \o t = u
  <2>1. Len(u) = Len(s) + Len(t)
    BY <1>3
  <2> QED
    BY <1>2, <1>4, <2>1, ConcatIs, Zenon
<1> QED
  BY <1>1, <1>5, Zenon

LEMMA JoinFour ==
    ASSUME NEW a \in Tok, NEW b \in Tok, NEW c \in Tok, NEW d \in Tok, NEW e \in Tok,
           NEW f \in Tok, NEW g \in Tok, NEW h \in Tok, NEW p \in Tok, NEW q \in Tok
    PROVE  <<a, b, c>> \o <<d>> \o <<e, f, g, h>> \o <<p, q>>
             = <<a, b, c, d, e, f, g, h, p, q>>
<1>1. PICK s, t, u, v : s = <<a, b, c>> /\ t = <<d>> /\ u = <<e, f, g, h>> /\ v = <<p, q>>
  OBVIOUS
<1>2. PICK sr, su, sv : /\ sr = <<a, b, c, d>> /\ su = <<a, b, c, d, e, f, g, h>>
                        /\ sv = <<a, b, c, d, e, f, g, h, p, q>>
  OBVIOUS
<1>3. s \in Seq(Tok) /\ t \in Seq(Tok) /\ u \in Seq(Tok) /\ v \in Seq(Tok)
  BY <1>1
<1>4. sr \in Seq(Tok) /\ su \in Seq(Tok) /\ sv \in Seq(Tok)
  BY <1>2
<1>5. s \o t = sr
  <2>1. Len(s) = 3 /\ Len(t) = 1 /\ Len(sr) = Len(s) + Len(t)
    BY <1>1, <1>2
  <2>2. (\A k \in 1..Len(s) : sr[k] = s[k]) /\ \A k \in 1..Len(t) : sr[Len(s) + k] = t[k]
    BY <1>1, <1>2, <2>1
  <2> QED
    BY <1>3, <1>4, <2>1, <2>2, ConcatIs, Zenon
<1>6. sr \o u = su
  <2>1. Len(sr) = 4 /\ Len(u) = 4 /\ Len(su) = Len(sr) + Len(u)
    BY <1>1, <1>2
  <2>2. (\A k \in 1..Len(sr) : su[k] = sr[k]) /\ \A k \in 1..Len(u) : su[Len(sr) + k] = u[k]
    BY <1>1, <1>2, <2>1
  <2> QED
    BY <1>3, <1>4, <2>1, <2>2, ConcatIs, Zenon
<1>7. su \o v = sv
  <2>1. Len(su) = 8 /\ Len(v) = 2 /\ Len(sv) = Len(su) + Len(v)
    BY <1>1, <1>2
  <2>2. (\A k \in 1..Len(su) : sv[k] = su[k]) /\ \A k \in 1..Len(v) : sv[Len(su) + k] = v[k]
    BY <1>1, <1>2, <2>1
  <2> QED
    BY <1>3, <1>4, <2>1, <2>2, ConcatIs, Zenon
<1>8. s \o t \o u \o v = sv
  BY <1>5, <1>6, <1>7, Zenon
<1> QED
  BY <1>1, <1>2, <1>8

LEMMA AnswerText ==
    ASSUME NEW m, WellFormed(m), m.kind = "answer"
    PROVE  Text(m) = <<Word(m.word), CR, NL>>
<1>1. Text(m) = <<Word(m.word)>> \o <<CR, NL>>
  BY Zenon DEF Text, EOL
<1>2. Word(m.word) \in Tok
  <2>1. m.word \in {"OK", "ERROR", "SEND OK"}
    BY Kinds
  <2>2. m.word \in Words
    BY <2>1, Zenon DEF Words
  <2> QED
    BY <2>2, Typed
<1> QED
  BY <1>1, <1>2, Typed, JoinOneTwo, Zenon

LEMMA ConnectText ==
    ASSUME NEW m, WellFormed(m), m.kind = "connect"
    PROVE  Text(m) = <<Token("num", m.link), Word(",CONNECT"), CR, NL>>
<1>1. Text(m) = <<Token("num", m.link), Word(",CONNECT")>> \o <<CR, NL>>
  BY Zenon DEF Text, EOL
<1>2. Token("num", m.link) \in Tok /\ Word(",CONNECT") \in Tok
  <2>1. "num" \in Words /\ ",CONNECT" \in Words
    BY Zenon DEF Words
  <2> QED
    BY <2>1, Kinds, Typed, TokenTyped, Zenon
<1> QED
  BY <1>1, <1>2, Typed, JoinTwoTwo, Zenon

LEMMA ClosedText ==
    ASSUME NEW m, WellFormed(m), m.kind = "closed"
    PROVE  Text(m) = <<Token("num", m.link), Word(",CLOSED"), CR, NL>>
<1>1. Text(m) = <<Token("num", m.link), Word(",CLOSED")>> \o <<CR, NL>>
  BY Zenon DEF Text, EOL
<1>2. Token("num", m.link) \in Tok /\ Word(",CLOSED") \in Tok
  <2>1. "num" \in Words /\ ",CLOSED" \in Words
    BY Zenon DEF Words
  <2> QED
    BY <2>1, Kinds, Typed, TokenTyped, Zenon
<1> QED
  BY <1>1, <1>2, Typed, JoinTwoTwo, Zenon

LEMMA OneTokenIs ==
    ASSUME NEW d \in Seq(Tok), NEW c, OneToken(d, c)
    PROVE  d = <<d[1]>> /\ d[1] \in Tok /\ d[1].c = c
<1>1. Len(d) = 1 /\ d[1].c = c
  BY Zenon DEF OneToken
<1>2. d[1] \in Tok
  BY <1>1
<1>3. d = <<d[1]>>
  BY <1>1
<1> QED
  BY <1>1, <1>2, <1>3

LEMMA OtherText ==
    ASSUME NEW m, WellFormed(m), m.kind = "other"
    PROVE  /\ Text(m) = <<m.data[1], CR, NL>>
           /\ m.data[1] \in Tok /\ m.data[1].c = "text"
<1>1. m.data = <<m.data[1]>> /\ m.data[1] \in Tok /\ m.data[1].c = "text"
  <2>1. OneToken(m.data, "text")
    BY Zenon DEF WellFormed
  <2> QED
    BY <2>1, Kinds, OneTokenIs
<1>2. Text(m) = m.data \o <<CR, NL>>
  BY Zenon DEF Text, EOL
<1>3. <<m.data[1]>> \o <<CR, NL>> = <<m.data[1], CR, NL>>
  BY <1>1, Typed, JoinOneTwo, Zenon
<1> QED
  BY <1>1, <1>2, <1>3, Zenon

LEMMA StatusText ==
    ASSUME NEW m, WellFormed(m), m.kind = "status"
    PROVE  /\ Text(m) = <<Word("+CIPSTATUS:"), Token("num", m.link), Word(",\"TCP\",\""),
                          m.data[1], Word("\","), Token("port", 5), Word(","),
                          Token("tail", 6), CR, NL>>
           /\ m.data[1] \in Tok /\ m.data[1].c = "addr"
<1>1. m.data = <<m.data[1]>> /\ m.data[1] \in Tok /\ m.data[1].c = "addr"
  <2>1. OneToken(m.data, "addr")
    BY Zenon DEF WellFormed
  <2> QED
    BY <2>1, Kinds, OneTokenIs
<1>2. Text(m) = <<Word("+CIPSTATUS:"), Token("num", m.link), Word(",\"TCP\",\"")>> \o m.data
                \o <<Word("\","), Token("port", 5), Word(","), Token("tail", 6)>> \o <<CR, NL>>
  BY Zenon DEF Text, EOL
<1>3. PICK a, b, c, d, e, f, g, h :
          /\ a = Word("+CIPSTATUS:") /\ b = Token("num", m.link) /\ c = Word(",\"TCP\",\"")
          /\ d = m.data[1] /\ e = Word("\",") /\ f = Token("port", 5) /\ g = Word(",")
          /\ h = Token("tail", 6)
  BY Zenon
<1>4. /\ a \in Tok /\ b \in Tok /\ c \in Tok /\ d \in Tok
      /\ e \in Tok /\ f \in Tok /\ g \in Tok /\ h \in Tok
  <2>1. /\ "num" \in Words /\ "port" \in Words /\ "tail" \in Words /\ "+CIPSTATUS:" \in Words
        /\ ",\"TCP\",\"" \in Words /\ "\"," \in Words /\ "," \in Words
    BY Zenon DEF Words
  <2>2. m.link \in Nat /\ 5 \in Nat /\ 6 \in Nat
    BY Kinds
  <2> QED
    BY <1>1, <1>3, <2>1, <2>2, Typed, TokenTyped, Zenon
<1>5. <<a, b, c>> \o <<d>> \o <<e, f, g, h>> \o <<CR, NL>> = <<a, b, c, d, e, f, g, h, CR, NL>>
  BY <1>4, Typed, JoinFour
<1>6. Text(m) = <<a, b, c>> \o <<d>> \o <<e, f, g, h>> \o <<CR, NL>>
  BY <1>1, <1>2, <1>3, Zenon
<1>7. Text(m) = <<a, b, c, d, e, f, g, h, CR, NL>>
  BY <1>5, <1>6, Zenon
<1> QED
  BY <1>1, <1>3, <1>7, Zenon

HeaderText(m) ==
    <<Word("+IPD"), Word(","), Token("num", m.link), Word(","), Token("num", WidthOf(m.data)),
      Word(","), Token("addr", 11), Word(","), Token("port", 5), Word(":")>>

\* A message that is not a packet is a line.
LEMMA LineText ==
    ASSUME NEW m, WellFormed(m), m.kind # "ipd", NEW T, T = Text(m)
    PROVE  /\ T \in Seq(Tok) /\ Len(T) \in Nat /\ Len(T) \in 3..10
           /\ T[Len(T) - 1] = CR /\ T[Len(T)] = NL
           /\ \A k \in 1..(Len(T) - 2) : T[k] # CR /\ T[k] # NL /\ T[k] # Word(":")
<1> DEFINE Plain(t) == t \in Tok /\ t # CR /\ t # NL /\ t # Word(":")
<1>1. ASSUME NEW a, Plain(a), T = <<a, CR, NL>>
      PROVE  /\ T \in Seq(Tok) /\ Len(T) \in Nat /\ Len(T) \in 3..10
             /\ T[Len(T) - 1] = CR /\ T[Len(T)] = NL
             /\ \A k \in 1..(Len(T) - 2) : Plain(T[k])
  <2>1. Len(T) = 3 /\ T[1] = a /\ T[2] = CR /\ T[3] = NL
    BY <1>1
  <2>2. a \in Tok /\ CR \in Tok /\ NL \in Tok
    BY <1>1, Typed
  <2>3. T \in Seq(Tok)
    BY <1>1, <2>2
  <2> HIDE DEF Plain
  <2> QED
    BY <1>1, <2>1, <2>3
<1>2. ASSUME NEW a, NEW b, Plain(a), Plain(b), T = <<a, b, CR, NL>>
      PROVE  /\ T \in Seq(Tok) /\ Len(T) \in Nat /\ Len(T) \in 3..10
             /\ T[Len(T) - 1] = CR /\ T[Len(T)] = NL
             /\ \A k \in 1..(Len(T) - 2) : Plain(T[k])
  <2>1. Len(T) = 4 /\ T[1] = a /\ T[2] = b /\ T[3] = CR /\ T[4] = NL
    BY <1>2
  <2>2. a \in Tok /\ b \in Tok /\ CR \in Tok /\ NL \in Tok
    BY <1>2, Typed
  <2>3. T \in Seq(Tok)
    BY <1>2, <2>2
  <2> HIDE DEF Plain
  <2> QED
    BY <1>2, <2>1, <2>3
<1>3. ASSUME NEW a, NEW b, NEW c, NEW d, NEW e, NEW f, NEW g, NEW h,
             Plain(a), Plain(b), Plain(c), Plain(d), Plain(e), Plain(f), Plain(g), Plain(h),
             T = <<a, b, c, d, e, f, g, h, CR, NL>>
      PROVE  /\ T \in Seq(Tok) /\ Len(T) \in Nat /\ Len(T) \in 3..10
             /\ T[Len(T) - 1] = CR /\ T[Len(T)] = NL
             /\ \A k \in 1..(Len(T) - 2) : Plain(T[k])
  <2>1. /\ Len(T) = 10 /\ T[1] = a /\ T[2] = b /\ T[3] = c /\ T[4] = d /\ T[5] = e
        /\ T[6] = f /\ T[7] = g /\ T[8] = h /\ T[9] = CR /\ T[10] = NL
    BY <1>3
  <2>2. /\ a \in Tok /\ b \in Tok /\ c \in Tok /\ d \in Tok /\ e \in Tok
        /\ f \in Tok /\ g \in Tok /\ h \in Tok /\ CR \in Tok /\ NL \in Tok
    BY <1>3, Typed
  <2>3. T \in Seq(Tok)
    BY <1>3, <2>2
  <2> HIDE DEF Plain
  <2> QED
    BY <1>3, <2>1, <2>3
<1>4. /\ \A w \in {"OK", "ERROR", "SEND OK", ",CONNECT", ",CLOSED", ",",
                   "+CIPSTATUS:", ",\"TCP\",\"", "\","} : Plain(Word(w))
      /\ \A w \in {"num", "port", "tail"}, v \in Nat : Plain(Token(w, v))
      /\ \A t \in Tok : t.c \in {"text", "addr"} => Plain(t)
  <2>1. ASSUME NEW w \in {"num", "port", "tail"}, NEW v \in Nat PROVE Plain(Token(w, v))
    <3>1. Token(w, v).c = w
      BY DEF Token
    <3>2. w \in {"num", "addr", "port", "tail", "text"} /\ w \in Words
      BY Zenon DEF Words
    <3>3. Token(w, v) \in Tok
      BY <3>2, TokenTyped
    <3>4. PICK t : t = Token(w, v)
      OBVIOUS
    <3>5. t.c \in {"num", "addr", "port", "tail", "text"} /\ t \in Tok
      BY <3>1, <3>2, <3>3, <3>4, Zenon
    <3>6. t # CR /\ t # NL /\ t # Word(":")
      BY <3>5, PlainToken
    <3> QED
      BY <3>4, <3>5, <3>6
  <2>2. ASSUME NEW w \in {"OK", "ERROR", "SEND OK", ",CONNECT", ",CLOSED", ",",
                          "+CIPSTATUS:", ",\"TCP\",\"", "\","}
        PROVE  Plain(Word(w))
    <3>1. /\ w \in {"OK", "ERROR", "SEND OK", ",CONNECT", ",CLOSED", "+IPD", ",",
                     "+CIPSTATUS:", ",\"TCP\",\"", "\","}
          /\ w \in Words
      BY Zenon DEF Words
    <3> QED
      BY <3>1, Typed, PlainWords, Zenon
  <2>3. ASSUME NEW t \in Tok, t.c \in {"text", "addr"} PROVE Plain(t)
    <3>1. t.c \in {"num", "addr", "port", "tail", "text"}
      BY <2>3, Zenon
    <3>2. t # CR /\ t # NL /\ t # Word(":")
      BY <3>1, PlainToken
    <3> QED
      BY <2>3, <3>2
  <2> HIDE DEF Plain
  <2> QED
    BY <2>1, <2>2, <2>3, Zenon
<1>5. m.link \in Nat /\ 5 \in Nat /\ 6 \in Nat
  BY Kinds
<1> HIDE DEF Plain
<1>6. CASE m.kind = "answer"
  <2>1. m.word \in {"OK", "ERROR", "SEND OK"}
    BY <1>6, Kinds
  <2>2. Plain(Word(m.word)) /\ T = <<Word(m.word), CR, NL>>
    BY <1>4, <1>6, <2>1, AnswerText, Zenon
  <2> QED
    BY <1>1, <2>2, Zenon DEF Plain
<1>7. CASE m.kind = "connect"
  BY <1>2, <1>4, <1>5, <1>7, ConnectText DEF Plain
<1>8. CASE m.kind = "closed"
  BY <1>2, <1>4, <1>5, <1>8, ClosedText DEF Plain
<1>9. CASE m.kind = "other"
  BY <1>1, <1>4, <1>9, OtherText DEF Plain
<1>10. CASE m.kind = "status"
  <2>1. /\ Plain(Word("+CIPSTATUS:")) /\ Plain(Token("num", m.link)) /\ Plain(Word(",\"TCP\",\""))
        /\ Plain(m.data[1]) /\ Plain(Word("\",")) /\ Plain(Token("port", 5))
        /\ Plain(Word(",")) /\ Plain(Token("tail", 6))
    BY <1>4, <1>5, <1>10, StatusText, Zenon
  <2> QED
    BY <1>3, <1>10, <2>1, StatusText, Zenon DEF Plain
<1> QED
  BY <1>6, <1>7, <1>8, <1>9, <1>10, Kinds, Zenon

LEMMA PacketText ==
    ASSUME NEW m, WellFormed(m), m.kind = "ipd", NEW T, T = Text(m)
    PROVE  /\ m.data \in Seq(Tok) /\ Len(m.data) \in Nat \ {0}
           /\ \A k \in 1..Len(m.data) : Width(m.data[k]) > 0
           /\ T \in Seq(Tok) /\ Len(T) = 10 + Len(m.data)
           /\ \A k \in 1..10 : T[k] = HeaderText(m)[k]
           /\ \A k \in 1..Len(m.data) : T[10 + k] = m.data[k]
<1>1. T = HeaderText(m) \o m.data
  BY Zenon DEF Text, HeaderText
<1>2. m.data # <<>> /\ \A k \in 1..Len(m.data) : Width(m.data[k]) > 0
  BY Zenon DEF WellFormed
<1>3. m.data \in Seq(Tok) /\ m.link \in Nat
  BY Kinds
<1>4. WidthOf(m.data) \in Nat
  BY <1>3, WidthOfNat
<1>5. PICK h : h = HeaderText(m)
  OBVIOUS
<1>6. h \in Seq(Tok) /\ Len(h) = 10
  <2>1. ASSUME NEW a \in Tok, NEW b \in Tok, NEW c \in Tok, NEW d \in Tok, NEW e \in Tok,
               NEW f \in Tok, NEW g \in Tok
        PROVE  /\ <<a, b, c, b, d, b, e, b, f, g>> \in Seq(Tok)
               /\ Len(<<a, b, c, b, d, b, e, b, f, g>>) = 10
    OBVIOUS
  <2>2. 11 \in Nat /\ 5 \in Nat
    OBVIOUS
  <2>3. /\ Word("+IPD") \in Tok /\ Word(",") \in Tok /\ Token("num", m.link) \in Tok
        /\ Token("num", WidthOf(m.data)) \in Tok /\ Token("addr", 11) \in Tok
        /\ Token("port", 5) \in Tok /\ Word(":") \in Tok
    <3>1. /\ "num" \in Words /\ "addr" \in Words /\ "port" \in Words
          /\ "+IPD" \in Words /\ "," \in Words /\ ":" \in Words
      BY Zenon DEF Words
    <3> QED
      BY <1>3, <1>4, <2>2, <3>1, Typed, TokenTyped, Zenon
  <2> QED
    BY <1>5, <2>1, <2>3, Zenon DEF HeaderText
<1>7. PICK d : d = m.data
  OBVIOUS
<1>8. d \in Seq(Tok) /\ d # <<>> /\ Len(d) \in Nat \ {0}
  <2>1. d \in Seq(Tok) /\ d # <<>>
    BY <1>2, <1>3, <1>7
  <2> QED
    BY <2>1, EmptySeq, LenProperties
<1>9. T = h \o d
  BY <1>1, <1>5, <1>7
<1>10. T \in Seq(Tok) /\ Len(T) = 10 + Len(d)
  <2>1. T \in Seq(Tok) /\ Len(T) = Len(h) + Len(d)
    <3>1. h \in Seq(Tok) /\ d \in Seq(Tok)
      BY <1>6, <1>8
    <3> QED
      BY <1>9, <3>1, Concat, Zenon
  <2> QED
    BY <1>6, <2>1
<1>11. \A k \in 1..(10 + Len(d)) : T[k] = IF k <= 10 THEN h[k] ELSE d[k - 10]
  <2>1. \A k \in 1..(Len(h) + Len(d)) : (h \o d)[k] = IF k <= Len(h) THEN h[k] ELSE d[k - Len(h)]
    BY <1>6, <1>8, Concat, Zenon
  <2>2. Len(h) = 10
    BY <1>6
  <2> QED
    BY <1>9, <2>1, <2>2
<1>12. \A k \in 1..10 : T[k] = h[k]
  BY <1>8, <1>11
<1>13. \A k \in 1..Len(d) : T[10 + k] = d[k]
  <2> SUFFICES ASSUME NEW k \in 1..Len(d) PROVE T[10 + k] = d[k]
    OBVIOUS
  <2>1. 10 + k \in 1..(10 + Len(d)) /\ ~(10 + k <= 10) /\ (10 + k) - 10 = k
    BY <1>8
  <2> QED
    BY <1>11, <2>1
<1> QED
  BY <1>2, <1>5, <1>7, <1>8, <1>10, <1>12, <1>13


------------------------------------------------------------------------------
(* Numbers, sequences, and the header of a packet.                          *)

LEMMA MinTwo ==
    ASSUME NEW a \in Nat, NEW b \in Nat
    PROVE  Min({a, b}) = IF a <= b THEN a ELSE b
<1> DEFINE c == IF a <= b THEN a ELSE b
           IsMin(x) == x \in {a, b} /\ \A y \in {a, b} : x <= y
<1>1. IsMin(c)
  OBVIOUS
<1>2. \A x : IsMin(x) => x = c
  OBVIOUS
<1>3. Min({a, b}) = CHOOSE x : IsMin(x)
  BY Zenon DEF Min
<1> HIDE DEF IsMin, c
<1>4. IsMin(CHOOSE x : IsMin(x))
  BY <1>1, Zenon
<1>5. Min({a, b}) = c
  BY <1>2, <1>3, <1>4, Zenon
<1> QED
  BY <1>5 DEF c

LEMMA SubSeqNext ==
    ASSUME NEW S, NEW s \in Seq(S), NEW k \in Nat, k < Len(s)
    PROVE  /\ SubSeq(s, 1, k) \in Seq(S) /\ Len(SubSeq(s, 1, k)) = k
           /\ \A j \in 1..k : SubSeq(s, 1, k)[j] = s[j]
           /\ Append(SubSeq(s, 1, k), s[k + 1]) = SubSeq(s, 1, k + 1)
<1>1. PICK u, w : u = SubSeq(s, 1, k) /\ w = SubSeq(s, 1, k + 1)
  OBVIOUS
<1>2. Len(s) \in Nat /\ \A j \in 1..Len(s) : s[j] \in S
  BY ElementOfSeq
<1>3. u \in Seq(S) /\ Len(u) = k /\ \A j \in 1..k : u[j] = s[j]
  BY <1>1, <1>2
<1>4. w \in Seq(S) /\ Len(w) = k + 1 /\ \A j \in 1..(k + 1) : w[j] = s[j]
  BY <1>1, <1>2
<1>5. s[k + 1] \in S
  BY <1>2
<1>6. PICK v : v = Append(u, s[k + 1])
  OBVIOUS
<1>7. v \in Seq(S) /\ Len(v) = k + 1 /\ (\A j \in 1..k : v[j] = u[j]) /\ v[k + 1] = s[k + 1]
  BY <1>3, <1>5, <1>6
<1>8. \A j \in 1..Len(v) : v[j] = w[j]
  <2>1. \A j \in 1..(k + 1) : j \in 1..k \/ j = k + 1
    OBVIOUS
  <2> QED
    BY <1>3, <1>4, <1>7, <2>1
<1>9. v = w
  BY <1>4, <1>7, <1>8, SeqEqual
<1> QED
  BY <1>1, <1>3, <1>6, <1>9

LEMMA SubSeqAll ==
    ASSUME NEW S, NEW s \in Seq(S)
    PROVE  SubSeq(s, 1, Len(s)) = s /\ SubSeq(s, 1, 0) = <<>>
  OBVIOUS

LEMMA SubSeqTwice ==
    ASSUME NEW S, NEW s \in Seq(S), NEW k \in Nat, NEW l \in Nat, l <= k, k <= Len(s)
    PROVE  SubSeq(SubSeq(s, 1, k), 1, l) = SubSeq(s, 1, l)
<1>1. PICK u, w, v : u = SubSeq(s, 1, k) /\ w = SubSeq(s, 1, l) /\ v = SubSeq(u, 1, l)
  OBVIOUS
<1>2. u \in Seq(S) /\ Len(u) = k /\ \A j \in 1..k : u[j] = s[j]
  BY <1>1
<1>3. w \in Seq(S) /\ Len(w) = l /\ \A j \in 1..l : w[j] = s[j]
  BY <1>1
<1>4. v \in Seq(S) /\ Len(v) = l /\ \A j \in 1..l : v[j] = u[j]
  BY <1>1, <1>2
<1>5. \A j \in 1..Len(v) : v[j] = w[j]
  BY <1>2, <1>3, <1>4
<1>6. v = w
  BY <1>3, <1>4, <1>5, SeqEqual
<1> QED
  BY <1>1, <1>6

\* What is known of the tokens of a header.
LEMMA HeaderTokens ==
    ASSUME NEW m, WellFormed(m), m.kind = "ipd", NEW T, T = Text(m)
    PROVE  /\ T[1] = Word("+IPD") /\ T[10] = Word(":")
           /\ T[2] = Word(",") /\ T[4] = Word(",") /\ T[6] = Word(",") /\ T[8] = Word(",")
           /\ T[3] = Token("num", m.link) /\ T[5] = Token("num", WidthOf(m.data))
           /\ T[7] = Token("addr", 11) /\ T[9] = Token("port", 5)
<1>1. PICK a, b, c, d, e, f, g :
          /\ a = Word("+IPD") /\ b = Word(",") /\ c = Token("num", m.link)
          /\ d = Token("num", WidthOf(m.data)) /\ e = Token("addr", 11)
          /\ f = Token("port", 5) /\ g = Word(":")
  BY Zenon
<1>2. PICK h : h = <<a, b, c, b, d, b, e, b, f, g>>
  OBVIOUS
<1>3. /\ h[1] = a /\ h[2] = b /\ h[3] = c /\ h[4] = b /\ h[5] = d
      /\ h[6] = b /\ h[7] = e /\ h[8] = b /\ h[9] = f /\ h[10] = g
  BY <1>2
<1>4. HeaderText(m) = h
  BY <1>1, <1>2, Zenon DEF HeaderText
<1>5. \A k \in 1..10 : T[k] = h[k]
  BY <1>4, PacketText, Zenon
<1>6. /\ T[1] = a /\ T[2] = b /\ T[3] = c /\ T[4] = b /\ T[5] = d
      /\ T[6] = b /\ T[7] = e /\ T[8] = b /\ T[9] = f /\ T[10] = g
  BY <1>3, <1>5
<1> QED
  BY <1>1, <1>6, Zenon

LEMMA HeaderPlain ==
    ASSUME NEW m, WellFormed(m), m.kind = "ipd", NEW T, T = Text(m)
    PROVE  /\ \A k \in 1..10 : T[k] # CR /\ T[k] # NL
           /\ \A k \in 1..9 : T[k] # Word(":")
<1> DEFINE Plain(t) == t # NL /\ t # CR /\ t # Word(":")
<1>1. Plain(Word("+IPD")) /\ Plain(Word(","))
  <2>1. "+IPD" \in {"OK", "ERROR", "SEND OK", ",CONNECT", ",CLOSED", "+IPD", ",",
                    "+CIPSTATUS:", ",\"TCP\",\"", "\","}
        /\ "," \in {"OK", "ERROR", "SEND OK", ",CONNECT", ",CLOSED", "+IPD", ",",
                    "+CIPSTATUS:", ",\"TCP\",\"", "\","}
    BY Zenon
  <2> QED
    BY <2>1, PlainWords, Zenon
<1>2. ASSUME NEW w \in {"num", "addr", "port"}, NEW v PROVE Plain(Token(w, v))
  <2>1. PICK t : t = Token(w, v)
    OBVIOUS
  <2>2. t.c = w
    BY <2>1 DEF Token
  <2>3. t.c \in {"num", "addr", "port", "tail", "text"}
    BY <2>2, Zenon
  <2>4. Plain(t)
    BY <2>3, PlainToken
  <2> QED
    BY <2>1, <2>4
<1>3. ASSUME NEW v PROVE Plain(Token("num", v)) /\ Plain(Token("addr", v)) /\ Plain(Token("port", v))
  <2>1. "num" \in {"num", "addr", "port"} /\ "addr" \in {"num", "addr", "port"}
        /\ "port" \in {"num", "addr", "port"}
    BY Zenon
  <2> HIDE DEF Plain
  <2> QED
    BY <1>2, <2>1, Zenon
<1> HIDE DEF Plain
<1>4. /\ Plain(T[1]) /\ Plain(T[2]) /\ Plain(T[3]) /\ Plain(T[4]) /\ Plain(T[5])
      /\ Plain(T[6]) /\ Plain(T[7]) /\ Plain(T[8]) /\ Plain(T[9])
  BY <1>1, <1>3, HeaderTokens, Zenon
<1>5. T[10] = Word(":")
  BY HeaderTokens, Zenon
<1>6. T[10] # CR /\ T[10] # NL
  BY <1>5, PlainWords, Zenon
<1>7. \A k \in 1..9 : Plain(T[k])
  <2>1. \A k \in 1..9 : k = 1 \/ k = 2 \/ k = 3 \/ k = 4 \/ k = 5 \/ k = 6 \/ k = 7 \/ k = 8 \/ k = 9
    OBVIOUS
  <2> QED
    BY <1>4, <2>1, Zenon
<1>8. \A k \in 1..10 : k \in 1..9 \/ k = 10
  OBVIOUS
<1> QED
  BY <1>6, <1>7, <1>8, Zenon DEF Plain


------------------------------------------------------------------------------
(* Widths of the words that lines are told by.                              *)

LEMMA WidthOfNL == ASSUME NEW t, t.c = "\n" PROVE Width(t) = 1
  BY Zenon DEF Width

LEMMA WidthOfComma == ASSUME NEW t, t.c = "," PROVE Width(t) = 1
  BY Zenon DEF Width

LEMMA WidthOfColon == ASSUME NEW t, t.c = ":" PROVE Width(t) = 1
  BY Zenon DEF Width

LEMMA WidthOfOK == ASSUME NEW t, t.c = "OK" PROVE Width(t) = 2
<1>1. t.c \notin {"\n", "\r", ",", ":"} /\ t.c \in {"OK", "\","}
  BY Zenon
<1> QED
  BY <1>1, Zenon DEF Width

LEMMA WidthOfIPD == ASSUME NEW t, t.c = "+IPD" PROVE Width(t) = 4
<1>1. t.c \notin {"\n", "\r", ",", ":"} /\ t.c \notin {"OK", "\","}
  BY Zenon
<1> QED
  BY <1>1, Zenon DEF Width

LEMMA WidthOfError == ASSUME NEW t, t.c = "ERROR" PROVE Width(t) = 5
<1>1. t.c \notin {"\n", "\r", ",", ":"} /\ t.c \notin {"OK", "\","} /\ t.c # "+IPD"
  BY Zenon
<1> QED
  BY <1>1, Zenon DEF Width

LEMMA WidthOfSendOK == ASSUME NEW t, t.c = "SEND OK" PROVE Width(t) = 7
<1>1. t.c \notin {"\n", "\r", ",", ":"} /\ t.c \notin {"OK", "\","} /\ t.c # "+IPD" /\ t.c # "ERROR"
  BY Zenon
<1> QED
  BY <1>1, Zenon DEF Width

LEMMA WidthOfClosed == ASSUME NEW t, t.c = ",CLOSED" PROVE Width(t) = 7
<1>1. t.c \notin {"\n", "\r", ",", ":"} /\ t.c \notin {"OK", "\","} /\ t.c # "+IPD" /\ t.c # "ERROR"
  BY Zenon
<1> QED
  BY <1>1, Zenon DEF Width

LEMMA WidthOfConnect == ASSUME NEW t, t.c = ",CONNECT" PROVE Width(t) = 8
<1>1. /\ t.c \notin {"\n", "\r", ",", ":"} /\ t.c \notin {"OK", "\","} /\ t.c # "+IPD"
      /\ t.c # "ERROR" /\ t.c \notin {"SEND OK", ",CLOSED"} /\ t.c \in {",CONNECT", ",\"TCP\",\""}
  BY Zenon
<1> QED
  BY <1>1, Zenon DEF Width

LEMMA WidthOfNum == ASSUME NEW t, t.c = "num" PROVE Width(t) = IF t.v < 10 THEN 1 ELSE 4
<1>1. /\ t.c \notin {"\n", "\r", ",", ":"} /\ t.c \notin {"OK", "\","} /\ t.c # "+IPD"
      /\ t.c # "ERROR" /\ t.c \notin {"SEND OK", ",CLOSED"} /\ t.c \notin {",CONNECT", ",\"TCP\",\""}
      /\ t.c # "+CIPSTATUS:"
  BY Zenon
<1> QED
  BY <1>1, Zenon DEF Width

LEMMA WidthOfAddr == ASSUME NEW t, t.c = "addr" PROVE Width(t) = t.v
<1>1. /\ t.c \notin {"\n", "\r", ",", ":"} /\ t.c \notin {"OK", "\","} /\ t.c # "+IPD"
      /\ t.c # "ERROR" /\ t.c \notin {"SEND OK", ",CLOSED"} /\ t.c \notin {",CONNECT", ",\"TCP\",\""}
      /\ t.c # "+CIPSTATUS:" /\ t.c # "num"
  BY Zenon
<1> QED
  BY <1>1, Zenon DEF Width

LEMMA WidthOfPort == ASSUME NEW t, t.c = "port" PROVE Width(t) = t.v
<1>1. /\ t.c \notin {"\n", "\r", ",", ":"} /\ t.c \notin {"OK", "\","} /\ t.c # "+IPD"
      /\ t.c # "ERROR" /\ t.c \notin {"SEND OK", ",CLOSED"} /\ t.c \notin {",CONNECT", ",\"TCP\",\""}
      /\ t.c # "+CIPSTATUS:" /\ t.c # "num"
  BY Zenon
<1> QED
  BY <1>1, Zenon DEF Width

\* t is the word w; t is the token with text w and value v.
IsWord(t, w)     == t = Word(w)
IsToken(t, w, v) == t = Token(w, v)

LEMMA WordParts == ASSUME NEW t, NEW w, IsWord(t, w) PROVE t.c = w
  BY DEF IsWord, Word, Token

LEMMA TokenChar == ASSUME NEW t, NEW w, NEW v, IsToken(t, w, v) PROVE t.c = w
  BY DEF IsToken, Token

LEMMA TokenParts == ASSUME NEW t, NEW w, NEW v, IsToken(t, w, v) PROVE t.c = w /\ t.v = v
  BY DEF IsToken, Token

\* The tokens of a packet's header, as opaque predicates.
LEMMA HeaderWords ==
    ASSUME NEW m, WellFormed(m), m.kind = "ipd", NEW T, T = Text(m)
    PROVE  /\ IsWord(T[1], "+IPD") /\ IsWord(T[2], ",") /\ IsWord(T[4], ",") /\ IsWord(T[6], ",")
           /\ IsWord(T[8], ",") /\ IsWord(T[10], ":") /\ IsToken(T[3], "num", m.link)
           /\ IsToken(T[5], "num", WidthOf(m.data)) /\ IsToken(T[7], "addr", 11)
           /\ IsToken(T[9], "port", 5)
<1>1. IsWord(T[1], "+IPD") /\ IsWord(T[10], ":")
  BY HeaderTokens, Zenon DEF IsWord
<1>2. IsWord(T[2], ",") /\ IsWord(T[4], ",") /\ IsWord(T[6], ",") /\ IsWord(T[8], ",")
  BY HeaderTokens, Zenon DEF IsWord
<1>3. IsToken(T[3], "num", m.link) /\ IsToken(T[5], "num", WidthOf(m.data))
  BY HeaderTokens, Zenon DEF IsToken
<1>4. IsToken(T[7], "addr", 11) /\ IsToken(T[9], "port", 5)
  BY HeaderTokens, Zenon DEF IsToken
<1> QED
  BY <1>1, <1>2, <1>3, <1>4, Zenon

\* The header of a packet fits the line.
LEMMA HeaderFits ==
    ASSUME NEW m, WellFormed(m), m.kind = "ipd", NEW T, T = Text(m)
    PROVE  \A k \in 0..10 : Shown(T, k) \in Nat /\ Shown(T, k) <= 33
<1>1. T \in Seq(Tok) /\ Len(T) \in Nat /\ Len(T) > 10
  BY PacketText
<1>2. \A k \in 0..9 : T[k + 1] # CR
  <2>1. \A k \in 0..9 : k + 1 \in 1..10
    OBVIOUS
  <2> QED
    BY <2>1, HeaderPlain
<1>3. /\ Width(T[1]) = 4 /\ Width(T[2]) = 1 /\ Width(T[4]) = 1
      /\ Width(T[6]) = 1 /\ Width(T[7]) = 11 /\ Width(T[8]) = 1 /\ Width(T[9]) = 5
      /\ Width(T[10]) = 1
  <2>1. /\ IsWord(T[1], "+IPD") /\ IsWord(T[2], ",") /\ IsWord(T[4], ",") /\ IsWord(T[6], ",")
        /\ IsWord(T[8], ",") /\ IsWord(T[10], ":")
        /\ IsToken(T[7], "addr", 11) /\ IsToken(T[9], "port", 5)
    BY HeaderWords, Zenon
  <2>2. /\ T[1].c = "+IPD" /\ T[2].c = "," /\ T[4].c = "," /\ T[6].c = "," /\ T[8].c = ","
        /\ T[10].c = ":"
    BY <2>1, WordParts, Zenon
  <2>3. T[7].c = "addr" /\ T[9].c = "port" /\ T[7].v = 11 /\ T[9].v = 5
    <3>1. IsToken(T[7], "addr", 11) /\ IsToken(T[9], "port", 5)
      BY <2>1, Zenon
    <3> QED
      BY <3>1, TokenParts
  <2>4. /\ Width(T[2]) = 1 /\ Width(T[4]) = 1 /\ Width(T[6]) = 1 /\ Width(T[8]) = 1
    BY <2>2, WidthOfComma, Zenon
  <2>5. Width(T[1]) = 4 /\ Width(T[10]) = 1
    BY <2>2, WidthOfIPD, WidthOfColon, Zenon
  <2>6. Width(T[7]) = 11 /\ Width(T[9]) = 5
    BY <2>3, WidthOfAddr, WidthOfPort, Zenon
  <2> QED
    BY <2>4, <2>5, <2>6
<1>4. Width(T[3]) \in {1, 4} /\ Width(T[5]) \in {1, 4}
  <2>1. T[3].c = "num" /\ T[5].c = "num"
    <3>1. IsToken(T[3], "num", m.link) /\ IsToken(T[5], "num", WidthOf(m.data))
      BY HeaderWords, Zenon
    <3> QED
      BY <3>1, TokenParts, Zenon
  <2> QED
    BY <2>1, WidthOfNum, Zenon
<1>5. \A k \in 0..9 : Shown(T, k + 1) = Shown(T, k) + Width(T[k + 1])
  <2> SUFFICES ASSUME NEW k \in 0..9 PROVE Shown(T, k + 1) = Shown(T, k) + Width(T[k + 1])
    OBVIOUS
  <2>1. k \in Nat /\ k < Len(T)
    BY <1>1
  <2> QED
    BY <1>1, <1>2, <2>1, ShownNext
<1>6. Shown(T, 0) = 0
  BY ShownNone
<1>7. /\ Shown(T, 1) = 4 /\ Shown(T, 2) = 5 /\ Shown(T, 3) = 5 + Width(T[3])
      /\ Shown(T, 4) = 6 + Width(T[3])
  <2>1. 0 \in 0..9 /\ 1 \in 0..9 /\ 2 \in 0..9 /\ 3 \in 0..9
    OBVIOUS
  <2>2. /\ Shown(T, 0 + 1) = Shown(T, 0) + Width(T[0 + 1])
        /\ Shown(T, 1 + 1) = Shown(T, 1) + Width(T[1 + 1])
        /\ Shown(T, 2 + 1) = Shown(T, 2) + Width(T[2 + 1])
        /\ Shown(T, 3 + 1) = Shown(T, 3) + Width(T[3 + 1])
    BY <1>5, <2>1
  <2> QED
    BY <1>3, <1>4, <1>6, <2>2
<1>8. Shown(T, 10) \in {27, 30, 33}
  <2> DEFINE W(k) == Width(T[k])
  <2>1. 4 \in 0..9 /\ 5 \in 0..9 /\ 6 \in 0..9 /\ 7 \in 0..9 /\ 8 \in 0..9 /\ 9 \in 0..9
    OBVIOUS
  <2>2. /\ Shown(T, 4 + 1) = Shown(T, 4) + Width(T[4 + 1])
        /\ Shown(T, 5 + 1) = Shown(T, 5) + Width(T[5 + 1])
        /\ Shown(T, 6 + 1) = Shown(T, 6) + Width(T[6 + 1])
        /\ Shown(T, 7 + 1) = Shown(T, 7) + Width(T[7 + 1])
        /\ Shown(T, 8 + 1) = Shown(T, 8) + Width(T[8 + 1])
        /\ Shown(T, 9 + 1) = Shown(T, 9) + Width(T[9 + 1])
    BY <1>5, <2>1
  <2>3. /\ Shown(T, 5) = 6 + W(3) + W(5) /\ Shown(T, 6) = 7 + W(3) + W(5)
        /\ Shown(T, 7) = 18 + W(3) + W(5) /\ Shown(T, 8) = 19 + W(3) + W(5)
    BY <1>3, <1>4, <1>7, <2>2
  <2>4. Shown(T, 9) = 24 + W(3) + W(5) /\ Shown(T, 10) = 25 + W(3) + W(5)
    BY <1>3, <1>4, <2>2, <2>3
  <2> QED
    BY <1>4, <2>4
<1>9. ASSUME NEW k \in 0..10 PROVE Shown(T, k) \in Nat /\ Shown(T, k) <= 33
  <2>1. 10 \in 0..Len(T)
    BY <1>1
  <2>2. Shown(T, k) \in Nat /\ Shown(T, k) <= Shown(T, 10)
    BY <1>1, <2>1, ShownGrows
  <2> QED
    BY <1>8, <2>2
<1> QED
  BY <1>9

\* Lines that parse_line knows.
Whole == {"answer", "connect", "closed"}

LEMMA LinkLine ==
    ASSUME NEW m, WellFormed(m), m.kind = "connect" \/ m.kind = "closed", NEW T, T = Text(m)
    PROVE  /\ Len(T) = 4 /\ T[1].c = "num" /\ T[1].v = m.link
           /\ m.kind = "connect" => T[2].c = ",CONNECT"
           /\ m.kind = "closed" => T[2].c = ",CLOSED"
           /\ Width(T[1]) = 1
           /\ Shown(T, 1) = 1 /\ Shown(T, 2) = IF m.kind = "connect" THEN 9 ELSE 8
<1>1. PICK a, b : /\ IsToken(a, "num", m.link)
                  /\ m.kind = "connect" => IsWord(b, ",CONNECT")
                  /\ m.kind = "closed" => IsWord(b, ",CLOSED")
                  /\ T = <<a, b, CR, NL>>
  <2>1. CASE m.kind = "connect"
    <3>1. m.kind # "closed"
      BY <2>1, Zenon
    <3> QED
      BY <2>1, <3>1, ConnectText, Zenon DEF IsToken, IsWord
  <2>2. CASE m.kind = "closed"
    <3>1. m.kind # "connect"
      BY <2>2, Zenon
    <3> QED
      BY <2>2, <3>1, ClosedText, Zenon DEF IsToken, IsWord
  <2> QED
    BY <2>1, <2>2
<1>2. Len(T) = 4 /\ T[1] = a /\ T[2] = b
  <2>1. T = <<a, b, CR, NL>>
    BY <1>1, Zenon
  <2> QED
    BY <2>1
<1>3. T[1].c = "num" /\ T[1].v = m.link
  BY <1>1, <1>2, TokenParts, Zenon
<1>4. /\ m.kind = "connect" => T[2].c = ",CONNECT"
      /\ m.kind = "closed" => T[2].c = ",CLOSED"
  BY <1>1, <1>2, WordParts, Zenon
<1>5. Width(T[1]) = 1
  <2>1. T[1].v \in 0..9
    BY <1>3, Kinds, Zenon
  <2>2. T[1].v < 10
    BY <2>1
  <2> QED
    BY <1>3, <2>2, WidthOfNum, Zenon
<1>6. Width(T[2]) = IF m.kind = "connect" THEN 8 ELSE 7
  <2>1. CASE m.kind = "connect"
    <3>1. Width(T[2]) = 8
      BY <1>4, <2>1, WidthOfConnect, Zenon
    <3> QED
      BY <2>1, <3>1
  <2>2. CASE m.kind = "closed"
    <3>1. Width(T[2]) = 7 /\ m.kind # "connect"
      BY <1>4, <2>2, WidthOfClosed, Zenon
    <3> QED
      BY <3>1
  <2> QED
    BY <2>1, <2>2
<1>7. /\ T \in Seq(Tok) /\ \A k \in 1..(Len(T) - 2) : T[k] # CR
  <2>1. m.kind # "ipd"
    BY Zenon
  <2> QED
    BY <2>1, LineText, Zenon
<1>8. Shown(T, 0) = 0
  BY ShownNone
<1>9. 0 \in Nat /\ 0 < Len(T) /\ 1 \in Nat /\ 1 < Len(T) /\ T[0 + 1] # CR /\ T[1 + 1] # CR
  <2>1. 0 + 1 \in 1..(Len(T) - 2) /\ 1 + 1 \in 1..(Len(T) - 2) /\ 1 < Len(T)
    BY <1>2
  <2> QED
    BY <1>7, <2>1
<1>10. /\ Shown(T, 0 + 1) = Shown(T, 0) + Width(T[0 + 1])
       /\ Shown(T, 1 + 1) = Shown(T, 1) + Width(T[1 + 1])
  BY <1>7, <1>9, ShownNext
<1>11. Shown(T, 1) = 1
  BY <1>5, <1>8, <1>10
<1>12. Shown(T, 2) = 1 + Width(T[2])
  BY <1>10, <1>11
<1>13. Shown(T, 2) = IF m.kind = "connect" THEN 9 ELSE 8
  BY <1>6, <1>12
<1> QED
  BY <1>2, <1>3, <1>4, <1>5, <1>11, <1>13, Zenon

LEMMA WholeFits ==
    ASSUME NEW m, WellFormed(m), m.kind \in Whole, NEW T, T = Text(m)
    PROVE  \A k \in 0..(Len(T) - 2) : Shown(T, k) \in Nat /\ Shown(T, k) <= 9
<1>1. m.kind # "ipd" /\ (m.kind = "answer" \/ m.kind = "connect" \/ m.kind = "closed")
  BY Zenon DEF Whole
<1>2. /\ T \in Seq(Tok) /\ Len(T) \in 3..10 /\ Len(T) \in Nat
      /\ \A k \in 1..(Len(T) - 2) : T[k] # CR
  BY <1>1, LineText, Zenon
<1>3. Shown(T, 0) = 0
  BY ShownNone
<1>4. Shown(T, 1) = Width(T[1])
  <2>1. 0 < Len(T) /\ 1 \in 1..(Len(T) - 2)
    <3>1. PICK l : l = Len(T)
      OBVIOUS
    <3>2. l \in 3..10
      BY <1>2, <3>1
    <3>3. 0 < l /\ 1 \in 1..(l - 2)
      BY <3>2
    <3> QED
      BY <3>1, <3>3
  <2>2. Shown(T, 0 + 1) = Shown(T, 0) + Width(T[0 + 1])
    BY <1>2, <2>1, ShownNext
  <2>3. Width(T[1]) \in Nat
    BY <1>2, <2>1, WidthsNat, WidthNat
  <2> QED
    BY <1>3, <2>2, <2>3
<1>5. CASE m.kind = "answer"
  <2>1. Len(T) = 3 /\ T[1] = Word(m.word)
    <3>1. T = <<Word(m.word), CR, NL>>
      BY <1>5, AnswerText, Zenon
    <3> QED
      BY <3>1
  <2>2. m.word \in {"OK", "ERROR", "SEND OK"}
    BY <1>5, Kinds, Zenon
  <2>3. T[1].c = "OK" \/ T[1].c = "ERROR" \/ T[1].c = "SEND OK"
    <3>1. T[1].c = m.word
      <4>1. T[1] = Word(m.word)
        BY <2>1
      <4> QED
        BY <4>1 DEF Word, Token
    <3> QED
      BY <2>2, <3>1, Zenon
  <2>4. Width(T[1]) = 2 \/ Width(T[1]) = 5 \/ Width(T[1]) = 7
    BY <2>3, WidthOfOK, WidthOfError, WidthOfSendOK, Zenon
  <2>5. \A k \in 0..(Len(T) - 2) : k = 0 \/ k = 1
    BY <2>1
  <2> QED
    BY <1>3, <1>4, <2>4, <2>5
<1>6. CASE m.kind = "connect" \/ m.kind = "closed"
  <2>1. Len(T) = 4 /\ Shown(T, 1) = 1 /\ Shown(T, 2) \in {8, 9}
    <3>1. Shown(T, 2) = IF m.kind = "connect" THEN 9 ELSE 8
      BY <1>6, LinkLine, Zenon
    <3>2. Len(T) = 4 /\ Shown(T, 1) = 1
      BY <1>6, LinkLine, Zenon
    <3> QED
      BY <3>1, <3>2, Zenon
  <2>2. \A k \in 0..(Len(T) - 2) : k = 0 \/ k = 1 \/ k = 2
    BY <2>1
  <2> QED
    BY <1>3, <2>1, <2>2
<1> QED
  BY <1>1, <1>5, <1>6


------------------------------------------------------------------------------
(* The inductive invariant: what the line, the data and the numbers are     *)
(* when the first p tokens of message m have been read.                     *)

Good == {m \in Message : WellFormed(m)}

\* Token k of T is the first visible one of a line that does not start with
\* the header.
Begins(T, k) == k = 1 \/ \E h \in 1..(k - 1) : T[h] = NL /\ Hidden(T, h, k - 1)

\* In read_thread a packet is never further than its header, and the line is
\* what has come; of other messages whatever is not cut.
ReadPart(m, T, p, s, l, ii) ==
    s = "read" =>
      /\ m.kind = "ipd" => p < 10 /\ l = SubSeq(T, 1, p)
      /\ m.kind # "ipd" => \A k \in 1..Len(l) : \E j \in 1..p : j < Len(T) - 1 /\ l[k] = T[j]
      /\ ii = Min({LINE - 1, Shown(T, p)})

\* Lines that parse_line knows are not cut, and accept cuts none.
GatherPart(m, T, p, s, l) ==
    m.kind # "ipd" /\ (s = "accept" \/ (s = "read" /\ m.kind \in Whole))
      => l = SubSeq(T, 1, IF p <= Len(T) - 2 THEN p ELSE Len(T) - 2)

PayPart(m, p, s, l, ii, lk, nn, d) ==
    s = "payload" =>
      /\ m.kind = "ipd" /\ lk = m.link /\ p >= 10 /\ l = <<>> /\ ii = 0
      /\ d = SubSeq(m.data, 1, p - 10)
      /\ nn + WidthOf(d) = WidthOf(m.data)

\* accept may meet a packet; what it takes for a line begins where one does.
AcceptPart(m, T, p, s, l, ii) ==
    s = "accept" =>
      /\ ii <= Shown(T, p)
      /\ m.kind = "ipd" => IF l = <<>> THEN Begins(T, p + 1)
                           ELSE \E k \in 1..p : T[k] = l[1] /\ Begins(T, k)

Placed(m, p, s, l, ii, lk, nn, d) ==
    /\ p < Len(Text(m))
    /\ p = 0 => s # "payload" /\ l = <<>> /\ ii = 0
    /\ ReadPart(m, Text(m), p, s, l, ii)
    /\ GatherPart(m, Text(m), p, s, l)
    /\ PayPart(m, p, s, l, ii, lk, nn, d)
    /\ AcceptPart(m, Text(m), p, s, l, ii)

Types ==
    /\ rx \in Seq(Good)
    /\ pos \in Nat /\ st \in {"read", "payload", "accept"}
    /\ line \in Seq(Tok) /\ i \in Nat /\ base \in Nat
    /\ link \in Nat /\ n \in Nat /\ data \in Seq(Tok) /\ asked \in Nat

IInv ==
    ~astray =>
      /\ Types
      /\ rx = <<>> => pos = 0 /\ st # "payload" /\ line = <<>> /\ i = 0
      /\ rx # <<>> => Placed(Head(rx), pos, st, line, i, link, n, data)

LEMMA GoodText ==
    ASSUME NEW m \in Good, NEW T, T = Text(m)
    PROVE  /\ WellFormed(m)
           /\ T \in Seq(Tok) /\ Len(T) \in Nat /\ Len(T) >= 3
           /\ m.kind = "ipd" => Len(T) > 10
<1>1. WellFormed(m)
  BY DEF Good
<1>2. CASE m.kind = "ipd"
  <2>1. T \in Seq(Tok) /\ Len(T) = 10 + Len(m.data) /\ Len(m.data) \in Nat \ {0}
    BY <1>1, <1>2, PacketText
  <2> QED
    BY <1>1, <2>1
<1>3. CASE m.kind # "ipd"
  <2>1. T \in Seq(Tok) /\ Len(T) \in Nat /\ Len(T) \in 3..10
    BY <1>1, <1>3, LineText
  <2>2. PICK l : l = Len(T)
    OBVIOUS
  <2>3. l >= 3
    BY <2>1, <2>2
  <2> QED
    BY <1>1, <1>3, <2>1, <2>2, <2>3
<1> QED
  BY <1>2, <1>3

\* At the beginning of a message.
LEMMA Beginning ==
    ASSUME NEW m \in Good, NEW s \in {"read", "accept"}, NEW lk, NEW nn, NEW d
    PROVE  Placed(m, 0, s, <<>>, 0, lk, nn, d)
<1>1. PICK T : T = Text(m)
  OBVIOUS
<1>2. T \in Seq(Tok) /\ Len(T) \in Nat /\ Len(T) >= 3
  BY <1>1, GoodText
<1>3. Shown(T, 0) = 0
  BY ShownNone
<1>4. SubSeq(T, 1, 0) = <<>>
  BY <1>2, SubSeqAll
<1>5. ReadPart(m, T, 0, s, <<>>, 0)
  <2>1. Min({LINE - 1, Shown(T, 0)}) = 0
    <3>1. LINE - 1 \in Nat /\ 0 \in Nat /\ ~(LINE - 1 <= 0)
      BY DEF LINE
    <3> QED
      BY <1>3, <3>1, MinTwo
  <2>2. Len(<<>>) = 0
    OBVIOUS
  <2> QED
    BY <1>4, <2>1, <2>2 DEF ReadPart
<1>6. GatherPart(m, T, 0, s, <<>>)
  <2>1. 0 <= Len(T) - 2
    BY <1>2
  <2> QED
    BY <1>4, <2>1 DEF GatherPart
<1>7. PayPart(m, 0, s, <<>>, 0, lk, nn, d)
  BY DEF PayPart
<1>8. AcceptPart(m, T, 0, s, <<>>, 0)
  BY <1>3 DEF AcceptPart, Begins
<1> QED
  BY <1>1, <1>2, <1>5, <1>6, <1>7, <1>8 DEF Placed

\* A step that ends a message and empties the line.
LEMMA AtEnd ==
    ASSUME Types, rx # <<>>, rx' = Tail(rx), pos' = 0, line' = <<>>, i' = 0,
           st' \in {"read", "accept"}, base' \in Nat, link' \in Nat, n' \in Nat,
           data' \in Seq(Tok), asked' \in Nat
    PROVE  IInv'
<1>1. rx' \in Seq(Good)
  BY DEF Types
<1>2. Types'
  BY <1>1 DEF Types
<1>3. rx' # <<>> => Placed(Head(rx'), pos', st', line', i', link', n', data')
  <2> SUFFICES ASSUME rx' # <<>> PROVE Placed(Head(rx'), 0, st', <<>>, 0, link', n', data')
    OBVIOUS
  <2>1. Head(rx') \in Good
    BY <1>1
  <2> QED
    BY <2>1, Beginning
<1> QED
  BY <1>2, <1>3 DEF IInv

\* A step within a message.
LEMMA AtNext ==
    ASSUME Types, rx # <<>>, rx' = rx, pos' = pos + 1,
           line' \in Seq(Tok), i' \in Nat,
           st' \in {"read", "payload", "accept"}, base' \in Nat, link' \in Nat, n' \in Nat,
           data' \in Seq(Tok), asked' \in Nat,
           Placed(Head(rx), pos + 1, st', line', i', link', n', data')
    PROVE  IInv'
<1>1. Types'
  BY DEF Types
<1>2. Placed(Head(rx'), pos', st', line', i', link', n', data')
  OBVIOUS
<1> QED
  BY <1>1, <1>2 DEF IInv


------------------------------------------------------------------------------
(* Every step preserves it.                                                 *)

LEMMA Current ==
    ASSUME IInv, More
    PROVE  /\ Types /\ rx # <<>> /\ ~astray
           /\ Head(rx) \in Good
           /\ Placed(Head(rx), pos, st, line, i, link, n, data)
<1>1. Types /\ rx # <<>> /\ ~astray
  BY DEF More, IInv
<1>2. Head(rx) \in Good
  BY <1>1 DEF Types
<1> QED
  BY <1>1, <1>2 DEF IInv

\* Where the first and the last line end and carriage return are.
LEMMA LineEnds ==
    ASSUME NEW m \in Good, NEW T, T = Text(m), NEW k \in Nat, k < Len(T)
    PROVE  /\ T[k + 1] \in Tok
           /\ m.kind # "ipd" /\ T[k + 1] = NL => k + 1 = Len(T)
           /\ m.kind # "ipd" /\ T[k + 1] = CR => k + 1 = Len(T) - 1
           /\ m.kind # "ipd" /\ T[k + 1] # CR /\ T[k + 1] # NL => k + 1 <= Len(T) - 2
           /\ m.kind # "ipd" => T[k + 1] # Word(":")
           /\ m.kind = "ipd" /\ k < 10 => T[k + 1] # NL /\ T[k + 1] # CR /\ k + 1 < Len(T)
           /\ m.kind = "ipd" /\ k < 9 => T[k + 1] # Word(":")
<1>1. WellFormed(m) /\ T \in Seq(Tok) /\ Len(T) \in Nat /\ Len(T) >= 3
  BY GoodText
<1>2. T[k + 1] \in Tok
  <2>1. k + 1 \in 1..Len(T)
    BY <1>1
  <2> QED
    BY <1>1, <2>1
<1>3. CASE m.kind = "ipd"
  <2>1. Len(T) > 10
    BY <1>3, GoodText
  <2>2. /\ \A j \in 1..10 : T[j] # CR /\ T[j] # NL
        /\ \A j \in 1..9 : T[j] # Word(":")
    BY <1>1, <1>3, HeaderPlain
  <2>3. (k < 10 => k + 1 \in 1..10) /\ (k < 9 => k + 1 \in 1..9)
    OBVIOUS
  <2> QED
    BY <1>1, <1>2, <1>3, <2>1, <2>2, <2>3
<1>4. CASE m.kind # "ipd"
  <2>1. PICK l : l = Len(T)
    OBVIOUS
  <2>2. /\ T[l - 1] = CR /\ T[l] = NL
        /\ \A j \in 1..(l - 2) : T[j] # CR /\ T[j] # NL /\ T[j] # Word(":")
    BY <1>1, <1>4, <2>1, LineText
  <2>3. NL # CR /\ Word(":") # NL /\ Word(":") # CR
    BY PlainWords
  <2>4. k + 1 \in 1..(l - 2) \/ k + 1 = l - 1 \/ k + 1 = l
    BY <1>1, <2>1
  <2>5. l \in Nat
    BY <1>1, <2>1
  <2>6. CASE k + 1 \in 1..(l - 2)
    BY <1>2, <1>4, <2>1, <2>2, <2>5, <2>6
  <2>7. CASE k + 1 = l - 1
    BY <1>2, <1>4, <2>1, <2>2, <2>3, <2>5, <2>7
  <2>8. CASE k + 1 = l
    BY <1>2, <1>4, <2>1, <2>2, <2>3, <2>5, <2>8
  <2> QED
    BY <2>4, <2>6, <2>7, <2>8
<1> QED
  BY <1>3, <1>4

LEMMA TtyDropsStep ==
    ASSUME IInv, TtyDrops, ~astray'
    PROVE  IInv' /\ rx' = rx
<1>1. More /\ Char = CR /\ Advance /\ st # "payload" /\ pos' # 0
  BY DEF TtyDrops
<1>2. UNCHANGED <<st, line, i, base, link, n, data, asked>>
  BY DEF TtyDrops
<1>3. /\ Types /\ rx # <<>> /\ Head(rx) \in Good
      /\ Placed(Head(rx), pos, st, line, i, link, n, data)
  BY <1>1, Current
<1>4. PICK m, T : m = Head(rx) /\ T = Text(m)
  OBVIOUS
<1>5. rx' = rx /\ pos' = pos + 1 /\ pos + 1 # Len(T)
  BY <1>1, <1>4 DEF Advance
<1>6. m \in Good /\ T \in Seq(Tok) /\ Len(T) \in Nat /\ T[pos + 1] = CR
  BY <1>1, <1>3, <1>4, GoodText DEF Char
<1>7. pos \in Nat /\ pos < Len(T) /\ pos + 1 < Len(T)
  BY <1>3, <1>4, <1>5, <1>6 DEF Placed, Types
<1>8. /\ ReadPart(m, T, pos, st, line, i) /\ GatherPart(m, T, pos, st, line)
      /\ AcceptPart(m, T, pos, st, line, i)
  BY <1>3, <1>4 DEF Placed
<1>9. Shown(T, pos + 1) = Shown(T, pos)
  BY <1>6, <1>7, ShownNext
<1>10. m.kind # "ipd" => pos + 1 = Len(T) - 1
  BY <1>4, <1>6, <1>7, LineEnds
<1>11. m.kind = "ipd" => pos >= 10
  BY <1>4, <1>6, <1>7, LineEnds
<1>12. ReadPart(m, T, pos + 1, st, line, i)
  <2>1. m.kind = "ipd" => st # "read"
    BY <1>7, <1>8, <1>11 DEF ReadPart
  <2>2. \A j \in 1..pos : j \in 1..(pos + 1)
    BY <1>7
  <2> QED
    BY <1>8, <1>9, <2>1, <2>2 DEF ReadPart
<1>13. GatherPart(m, T, pos + 1, st, line)
  <2>1. m.kind # "ipd" => /\ pos <= Len(T) - 2 /\ ~(pos + 1 <= Len(T) - 2)
                          /\ pos = Len(T) - 2
    BY <1>6, <1>7, <1>10
  <2> QED
    BY <1>8, <2>1 DEF GatherPart
<1>14. AcceptPart(m, T, pos + 1, st, line, i)
  <2>1. ASSUME m.kind = "ipd", Begins(T, pos + 1) PROVE Begins(T, (pos + 1) + 1)
    <3>1. pos + 1 # 1
      BY <1>7, <1>11, <2>1
    <3>2. PICK h \in 1..((pos + 1) - 1) : T[h] = NL /\ Hidden(T, h, (pos + 1) - 1)
      BY <2>1, <3>1 DEF Begins
    <3>3. h \in 1..pos /\ Hidden(T, h, pos)
      <4>1. (pos + 1) - 1 = pos
        BY <1>7
      <4> QED
        BY <3>2, <4>1
    <3>4. Hidden(T, h, pos + 1)
      <4>1. \A j \in (h + 1)..(pos + 1) : j \in (h + 1)..pos \/ j = pos + 1
        BY <1>7, <3>3
      <4> QED
        BY <1>6, <3>3, <4>1 DEF Hidden
    <3>5. h \in 1..(((pos + 1) + 1) - 1) /\ ((pos + 1) + 1) - 1 = pos + 1
      BY <1>7, <3>3
    <3> QED
      BY <3>2, <3>4, <3>5 DEF Begins
  <2>2. \A k \in 1..pos : k \in 1..(pos + 1)
    BY <1>7
  <2> QED
    BY <1>8, <1>9, <2>1, <2>2 DEF AcceptPart
<1>15. PayPart(m, pos + 1, st, line, i, link, n, data)
  BY <1>1 DEF PayPart
<1>16. Placed(Head(rx), pos + 1, st, line, i, link, n, data)
  <2>1. pos + 1 # 0
    BY <1>7
  <2> QED
    BY <1>4, <1>7, <1>12, <1>13, <1>14, <1>15, <2>1 DEF Placed
<1> QED
  BY <1>2, <1>3, <1>5, <1>16, AtNext DEF Types


\* What read_thread, recv and accept find when they read a token.
LEMMA Reads ==
    ASSUME IInv, More, NEW m, m = Head(rx), NEW T, T = Text(m)
    PROVE  /\ Types /\ rx # <<>> /\ m \in Good
           /\ T \in Seq(Tok) /\ Len(T) \in Nat /\ pos \in Nat /\ pos < Len(T)
           /\ Char = T[pos + 1] /\ Char \in Tok /\ Width(Char) \in Nat
           /\ ReadPart(m, T, pos, st, line, i) /\ GatherPart(m, T, pos, st, line)
           /\ PayPart(m, pos, st, line, i, link, n, data)
           /\ AcceptPart(m, T, pos, st, line, i)
           /\ Advance => \/ pos + 1 < Len(T) /\ rx' = rx /\ pos' = pos + 1
                         \/ pos + 1 = Len(T) /\ rx' = Tail(rx) /\ pos' = 0
<1>1. /\ Types /\ rx # <<>> /\ m \in Good
      /\ Placed(m, pos, st, line, i, link, n, data)
  BY Current
<1>2. T \in Seq(Tok) /\ Len(T) \in Nat
  BY <1>1, GoodText
<1>3. /\ pos \in Nat /\ pos < Len(T)
      /\ ReadPart(m, T, pos, st, line, i) /\ GatherPart(m, T, pos, st, line)
      /\ PayPart(m, pos, st, line, i, link, n, data)
      /\ AcceptPart(m, T, pos, st, line, i)
  BY <1>1 DEF Placed, Types
<1>4. Char = T[pos + 1] /\ Char \in Tok
  BY <1>1, <1>3, LineEnds DEF Char
<1>5. Width(Char) \in Nat
  BY <1>4, WidthNat
<1>6. ASSUME Advance
      PROVE  \/ pos + 1 < Len(T) /\ rx' = rx /\ pos' = pos + 1
             \/ pos + 1 = Len(T) /\ rx' = Tail(rx) /\ pos' = 0
  <2>1. IF pos + 1 = Len(T) THEN rx' = Tail(rx) /\ pos' = 0 ELSE rx' = rx /\ pos' = pos + 1
    BY <1>6 DEF Advance
  <2> QED
    BY <1>2, <1>3, <2>1
<1> QED
  BY <1>1, <1>2, <1>3, <1>4, <1>5, <1>6

\* read_thread meets a packet only in its header; the line is not cut there,
\* nor in a line that parse_line knows.
LEMMA HeaderLine ==
    ASSUME IInv, More, st = "read", Head(rx).kind = "ipd", NEW T, T = Text(Head(rx))
    PROVE  /\ pos < 10 /\ line = SubSeq(T, 1, pos) /\ Len(line) = pos
           /\ \A k \in 1..pos : line[k] = T[k]
           /\ i = Shown(T, pos) /\ i + Width(Char) < LINE
           /\ Append(line, Char) = SubSeq(T, 1, pos + 1) /\ Longer(Char) = Append(line, Char)
<1>1. PICK m : m = Head(rx)
  OBVIOUS
<1>2. /\ m \in Good /\ T \in Seq(Tok) /\ pos \in Nat /\ pos < Len(T) /\ Char = T[pos + 1]
      /\ ReadPart(m, T, pos, st, line, i)
  BY <1>1, Reads
<1>3. pos < 10 /\ line = SubSeq(T, 1, pos) /\ i = Min({LINE - 1, Shown(T, pos)})
  BY <1>1, <1>2 DEF ReadPart
<1>4. \A k \in 0..10 : Shown(T, k) \in Nat /\ Shown(T, k) <= 33
  BY <1>1, <1>2, HeaderFits DEF Good
<1>5. /\ Shown(T, pos) \in Nat /\ Shown(T, pos) <= 33
      /\ Shown(T, pos + 1) \in Nat /\ Shown(T, pos + 1) <= 33
  <2>1. pos \in 0..10 /\ pos + 1 \in 0..10
    BY <1>2, <1>3
  <2> QED
    BY <1>4, <2>1
<1>6. i = Shown(T, pos)
  <2>1. LINE - 1 \in Nat /\ ~(LINE - 1 <= Shown(T, pos))
    BY <1>5 DEF LINE
  <2> QED
    BY <1>3, <1>5, <2>1, MinTwo
<1>7. Shown(T, pos + 1) = Shown(T, pos) + Width(Char)
  <2>1. Char # CR
    BY <1>1, <1>2, <1>3, LineEnds
  <2> QED
    BY <1>2, <2>1, ShownNext
<1>8. i + Width(Char) < LINE
  BY <1>5, <1>6, <1>7 DEF LINE
<1>9. /\ Len(line) = pos /\ (\A k \in 1..pos : line[k] = T[k])
      /\ Append(line, Char) = SubSeq(T, 1, pos + 1)
  BY <1>2, <1>3, SubSeqNext
<1>10. Longer(Char) = Append(line, Char)
  BY <1>8 DEF Longer
<1> QED
  BY <1>3, <1>6, <1>8, <1>9, <1>10

LEMMA WholeLine ==
    ASSUME IInv, More, Head(rx).kind \in Whole, st = "read", NEW T, T = Text(Head(rx)),
           Char # CR
    PROVE  /\ i = Shown(T, IF pos <= Len(T) - 2 THEN pos ELSE Len(T) - 2)
           /\ i + Width(Char) < LINE /\ Longer(Char) = Append(line, Char)
           /\ LongerI(Char) = i + Width(Char)
           /\ Char # NL => pos + 1 <= Len(T) - 2
           /\ Char = NL => pos + 1 = Len(T) /\ line = SubSeq(T, 1, Len(T) - 2)
<1>1. PICK m : m = Head(rx)
  OBVIOUS
<1>2. /\ m \in Good /\ T \in Seq(Tok) /\ pos \in Nat /\ pos < Len(T) /\ Char = T[pos + 1]
      /\ Len(T) \in Nat /\ Width(Char) \in Nat
      /\ ReadPart(m, T, pos, st, line, i) /\ GatherPart(m, T, pos, st, line)
  BY <1>1, Reads
<1>3. m.kind # "ipd" /\ m.kind \in Whole
  BY <1>1 DEF Whole
<1>4. Len(T) >= 3 /\ WellFormed(m)
  BY <1>1, <1>2, GoodText
<1>5. /\ T[Len(T) - 1] = CR
      /\ \A k \in 0..(Len(T) - 2) : Shown(T, k) \in Nat /\ Shown(T, k) <= 9
  BY <1>1, <1>3, <1>4, WholeFits, LineText
<1>6. i = Min({LINE - 1, Shown(T, pos)})
  BY <1>2 DEF ReadPart
<1>7. pos # Len(T) - 2
  BY <1>2, <1>4, <1>5
<1>8. /\ Char # NL => pos + 1 <= Len(T) - 2
      /\ Char = NL => pos + 1 = Len(T)
  BY <1>1, <1>2, <1>3, LineEnds
<1>9. Shown(T, pos) = Shown(T, IF pos <= Len(T) - 2 THEN pos ELSE Len(T) - 2)
  <2>1. CASE pos <= Len(T) - 2
    BY <2>1
  <2>2. CASE ~(pos <= Len(T) - 2)
    <3>1. pos = Len(T) - 1
      BY <1>2, <2>2
    <3>2. (Len(T) - 2) + 1 = Len(T) - 1 /\ Len(T) - 2 \in Nat /\ Len(T) - 2 < Len(T)
      BY <1>2, <1>4
    <3>3. Shown(T, (Len(T) - 2) + 1) = Shown(T, Len(T) - 2)
      BY <1>2, <1>5, <3>2, ShownNext
    <3> QED
      BY <2>2, <3>1, <3>2, <3>3
  <2> QED
    BY <2>1, <2>2
<1>10. Shown(T, pos) \in Nat /\ Shown(T, pos) <= 9
  <2>1. (IF pos <= Len(T) - 2 THEN pos ELSE Len(T) - 2) \in 0..(Len(T) - 2)
    BY <1>2, <1>4
  <2> QED
    BY <1>5, <1>9, <2>1
<1>11. i = Shown(T, pos)
  <2>1. LINE - 1 \in Nat /\ ~(LINE - 1 <= Shown(T, pos))
    BY <1>10 DEF LINE
  <2> QED
    BY <1>6, <1>10, <2>1, MinTwo
<1>12. Width(Char) <= 9
  <2>1. CASE Char = NL
    <3>1. Char.c = "\n"
      BY <2>1 DEF NL, Word, Token
    <3>2. Width(Char) = 1
      BY <3>1, WidthOfNL
    <3> QED
      BY <3>2
  <2>2. CASE Char # NL
    <3>1. pos + 1 \in 0..(Len(T) - 2) /\ pos \in 0..(Len(T) - 2)
      BY <1>2, <1>4, <1>8, <2>2
    <3>2. Shown(T, pos + 1) = Shown(T, pos) + Width(Char)
      BY <1>2, ShownNext
    <3> QED
      BY <1>2, <1>5, <3>1, <3>2
  <2> QED
    BY <2>1, <2>2
<1>13. i + Width(Char) < LINE
  BY <1>2, <1>10, <1>11, <1>12 DEF LINE
<1>14. LongerI(Char) = i + Width(Char)
  <2>1. i + Width(Char) \in Nat /\ LINE - 1 \in Nat /\ i + Width(Char) <= LINE - 1
    BY <1>2, <1>10, <1>11, <1>13 DEF LINE
  <2> QED
    BY <2>1, MinTwo DEF LongerI
<1>15. Char = NL => line = SubSeq(T, 1, Len(T) - 2)
  <2>1. Char = NL => ~(pos <= Len(T) - 2)
    BY <1>2, <1>8
  <2> QED
    BY <1>2, <1>3, <2>1 DEF GatherPart
<1> QED
  BY <1>8, <1>9, <1>11, <1>13, <1>14, <1>15 DEF Longer


\* What is added to a line that is cut.
LEMMA LongerTokens ==
    ASSUME NEW t \in Tok, Types
    PROVE  /\ Longer(t) \in Seq(Tok) /\ LongerI(t) \in Nat
           /\ \A k \in 1..Len(Longer(t)) : Longer(t)[k] = t \/ (k \in 1..Len(line) /\ Longer(t)[k] = line[k])
<1>1. line \in Seq(Tok) /\ Len(line) \in Nat /\ i \in Nat /\ Width(t) \in Nat
  BY WidthNat DEF Types
<1>2. Longer(t) = line \/ Longer(t) = Append(line, t)
  BY DEF Longer
<1>3. Longer(t) \in Seq(Tok)
  BY <1>1, <1>2
<1>4. LongerI(t) \in Nat
  <2>1. i + Width(t) \in Nat /\ LINE - 1 \in Nat
    BY <1>1 DEF LINE
  <2> QED
    BY <2>1, MinTwo DEF LongerI
<1>5. \A k \in 1..Len(Append(line, t)) :
          IF k = Len(line) + 1 THEN Append(line, t)[k] = t
          ELSE k \in 1..Len(line) /\ Append(line, t)[k] = line[k]
  BY <1>1
<1> QED
  BY <1>2, <1>3, <1>4, <1>5

LEMMA StoreStep ==
    ASSUME IInv, st = "read", More, Char # CR, Store(Char), Advance
    PROVE  IInv' /\ rx' = rx
<1>1. PICK m, T, t : m = Head(rx) /\ T = Text(m) /\ t = Char
  OBVIOUS
<1>2. /\ Types /\ rx # <<>> /\ m \in Good
      /\ T \in Seq(Tok) /\ Len(T) \in Nat /\ pos \in Nat /\ pos < Len(T)
      /\ t = T[pos + 1] /\ t \in Tok /\ Width(t) \in Nat
      /\ ReadPart(m, T, pos, st, line, i) /\ GatherPart(m, T, pos, st, line)
      /\ \/ pos + 1 < Len(T) /\ rx' = rx /\ pos' = pos + 1
         \/ pos + 1 = Len(T) /\ rx' = Tail(rx) /\ pos' = 0
  BY <1>1, Reads
<1>3. /\ t # NL /\ ~IsHeader(t)
      /\ line' = Longer(t) /\ i' = LongerI(t)
      /\ UNCHANGED <<st, base, link, n, data, asked, out>>
  BY <1>1 DEF Store
<1>4. line' \in Seq(Tok) /\ i' \in Nat
  BY <1>2, <1>3, LongerTokens
<1>5. Shown(T, pos + 1) = Shown(T, pos) + Width(t) /\ Shown(T, pos) \in Nat
  <2>1. t # CR
    BY <1>1
  <2>2. pos \in 0..Len(T) /\ pos \in 0..pos
    BY <1>2
  <2> QED
    BY <1>2, <2>1, <2>2, ShownNext, ShownGrows
<1>6. i' = Min({LINE - 1, Shown(T, pos + 1)})
  <2>1. i = Min({LINE - 1, Shown(T, pos)}) /\ LINE - 1 \in Nat
    BY <1>2 DEF ReadPart, LINE
  <2>2. i = IF LINE - 1 <= Shown(T, pos) THEN LINE - 1 ELSE Shown(T, pos)
    BY <1>5, <2>1, MinTwo
  <2>3. PICK b, a : b = i + Width(t) /\ a = Shown(T, pos + 1)
    OBVIOUS
  <2>4. b \in Nat /\ a \in Nat
    BY <1>2, <1>5, <2>1, <2>2, <2>3
  <2>5. Min({b, LINE - 1}) = IF b <= LINE - 1 THEN b ELSE LINE - 1
    BY <2>1, <2>4, MinTwo
  <2>6. Min({LINE - 1, a}) = IF LINE - 1 <= a THEN LINE - 1 ELSE a
    BY <2>1, <2>4, MinTwo
  <2>7. i' = Min({b, LINE - 1})
    BY <1>3, <2>3 DEF LongerI
  <2>8. (IF b <= LINE - 1 THEN b ELSE LINE - 1) = IF LINE - 1 <= a THEN LINE - 1 ELSE a
    BY <1>2, <1>5, <2>1, <2>2, <2>3
  <2> QED
    BY <2>3, <2>5, <2>6, <2>7, <2>8
<1>7. CASE m.kind = "ipd"
  <2>1. /\ pos < 10 /\ line = SubSeq(T, 1, pos) /\ Len(line) = pos
        /\ \A k \in 1..pos : line[k] = T[k]
        /\ Append(line, t) = SubSeq(T, 1, pos + 1) /\ Longer(t) = Append(line, t)
    BY <1>1, <1>7, HeaderLine
  <2>2. pos + 1 < Len(T)
    BY <1>1, <1>2, <1>7, <2>1, LineEnds
  <2>3. pos + 1 # 10
    <3> SUFFICES ASSUME pos + 1 = 10 PROVE IsHeader(t)
      BY <1>3
    <3>1. T[10] = Word(":") /\ T[1] = Word("+IPD")
      BY <1>1, <1>2, <1>7, HeaderTokens, Zenon DEF Good
    <3>2. Len(line) = 9 /\ line[1] = T[1] /\ line \in Seq(Tok)
      BY <1>2, <2>1 DEF Types
    <3>3. Longer(t) # <<>> /\ Longer(t)[1] = T[1]
      BY <1>2, <2>1, <3>2
    <3>4. t = Word(":")
      BY <1>2, <3>1
    <3>5. T[1].c = "+IPD"
      BY <3>1, WordParts, Zenon DEF IsWord
    <3> QED
      BY <3>3, <3>4, <3>5, Zenon DEF IsHeader, StartsWith
  <2>4. pos + 1 < 10 /\ line' = SubSeq(T, 1, pos + 1)
    BY <1>2, <1>3, <2>1, <2>3
  <2>5. Placed(m, pos + 1, st', line', i', link', n', data')
    <3>1. st' = "read" /\ pos + 1 # 0
      BY <1>2, <1>3
    <3>2. ReadPart(m, T, pos + 1, st', line', i')
      BY <1>6, <1>7, <2>4 DEF ReadPart
    <3>3. GatherPart(m, T, pos + 1, st', line')
      BY <1>7 DEF GatherPart
    <3> QED
      BY <1>1, <2>2, <3>1, <3>2, <3>3 DEF Placed, PayPart, AcceptPart
  <2> QED
    BY <1>1, <1>2, <1>3, <1>4, <2>2, <2>5, AtNext DEF Types
<1>8. CASE m.kind # "ipd"
  <2>1. pos + 1 <= Len(T) - 2
    BY <1>1, <1>2, <1>3, <1>8, LineEnds
  <2>2. pos + 1 < Len(T) /\ pos <= Len(T) - 2 /\ pos + 1 < Len(T) - 1
    BY <1>2, <2>1
  <2>3. ReadPart(m, T, pos + 1, st', line', i')
    <3>1. ASSUME NEW k \in 1..Len(line')
          PROVE  \E j \in 1..(pos + 1) : j < Len(T) - 1 /\ line'[k] = T[j]
      <4>1. line'[k] = t \/ (k \in 1..Len(line) /\ line'[k] = line[k])
        BY <1>2, <1>3, LongerTokens
      <4>2. pos + 1 \in 1..(pos + 1)
        BY <1>2
      <4>3. CASE line'[k] = t
        BY <1>2, <2>2, <4>2, <4>3
      <4>4. CASE k \in 1..Len(line) /\ line'[k] = line[k]
        <5>1. PICK j \in 1..pos : j < Len(T) - 1 /\ line[k] = T[j]
          BY <1>2, <1>8, <4>4 DEF ReadPart
        <5>2. j \in 1..(pos + 1)
          BY <1>2
        <5> QED
          BY <4>4, <5>1, <5>2
      <4> QED
        BY <4>1, <4>3, <4>4
    <3> QED
      BY <1>6, <1>8, <3>1 DEF ReadPart
  <2>4. GatherPart(m, T, pos + 1, st', line')
    <3> SUFFICES ASSUME m.kind \in Whole PROVE line' = SubSeq(T, 1, pos + 1)
      BY <1>3, <2>1 DEF GatherPart
    <3>1. line = SubSeq(T, 1, pos)
      BY <1>2, <1>8, <2>2 DEF GatherPart
    <3>2. line' = Append(line, t)
      BY <1>1, <1>3, WholeLine
    <3> QED
      BY <1>2, <3>1, <3>2, SubSeqNext
  <2>5. Placed(m, pos + 1, st', line', i', link', n', data')
    <3>1. st' = "read" /\ pos + 1 # 0
      BY <1>2, <1>3
    <3> QED
      BY <1>1, <2>2, <2>3, <2>4, <3>1 DEF Placed, PayPart, AcceptPart
  <2> QED
    BY <1>1, <1>2, <1>3, <1>4, <2>2, <2>5, AtNext DEF Types
<1> QED
  BY <1>7, <1>8


\* The numbers of a header.
LEMMA HeaderFields ==
    ASSUME NEW m \in Good, m.kind = "ipd", NEW T, T = Text(m),
           NEW l \in Seq(Tok), Len(l) = 9, \A k \in 1..9 : l[k] = T[k]
    PROVE  Field(l, 3) = WidthOf(m.data) /\ Field(l, 4) = m.link
<1> DEFINE commas == {j \in 1..Len(l) : l[j] = Word(",")}
           behind(k) == CHOOSE j \in commas : Cardinality({h \in commas : h >= j}) = k
<1>1. WellFormed(m)
  BY DEF Good
<1>2. /\ IsWord(T[1], "+IPD") /\ IsWord(T[2], ",") /\ IsWord(T[4], ",") /\ IsWord(T[6], ",")
      /\ IsWord(T[8], ",") /\ IsToken(T[3], "num", m.link)
      /\ IsToken(T[5], "num", WidthOf(m.data)) /\ IsToken(T[7], "addr", 11)
      /\ IsToken(T[9], "port", 5)
  BY <1>1, HeaderWords, Zenon
<1>3. /\ T[1] # Word(",") /\ T[3] # Word(",") /\ T[5] # Word(",") /\ T[7] # Word(",")
      /\ T[9] # Word(",")
  <2>1. T[1].c = "+IPD"
    BY <1>2, WordParts, Zenon
  <2>2. T[3].c = "num" /\ T[5].c = "num" /\ T[7].c = "addr" /\ T[9].c = "port"
    <3>1. IsToken(T[3], "num", m.link) /\ IsToken(T[5], "num", WidthOf(m.data))
      BY <1>2, Zenon
    <3>2. IsToken(T[7], "addr", 11) /\ IsToken(T[9], "port", 5)
      BY <1>2, Zenon
    <3>3. T[3].c = "num" /\ T[5].c = "num"
      BY <3>1, TokenChar, Zenon
    <3>4. T[7].c = "addr" /\ T[9].c = "port"
      BY <3>2, TokenChar, Zenon
    <3> QED
      BY <3>3, <3>4
  <2>3. \A t : IsWord(t, ",") => t.c = ","
    BY WordParts, Zenon
  <2>4. /\ ~IsWord(T[1], ",") /\ ~IsWord(T[3], ",") /\ ~IsWord(T[5], ",") /\ ~IsWord(T[7], ",")
        /\ ~IsWord(T[9], ",")
    BY <2>1, <2>2, <2>3, Zenon
  <2> QED
    BY <2>4, Zenon DEF IsWord
<1>4. commas = {2, 4, 6, 8}
  <2>1. PICK w : w = Word(",")
    OBVIOUS
  <2>2. T[2] = w /\ T[4] = w /\ T[6] = w /\ T[8] = w
    BY <1>2, <2>1, Zenon DEF IsWord
  <2>3. T[1] # w /\ T[3] # w /\ T[5] # w /\ T[7] # w /\ T[9] # w
    BY <1>3, <2>1, Zenon
  <2>4. /\ l[1] # w /\ l[3] # w /\ l[5] # w /\ l[7] # w /\ l[9] # w
        /\ l[2] = w /\ l[4] = w /\ l[6] = w /\ l[8] = w
    BY <2>2, <2>3
  <2>5. {j \in 1..9 : l[j] = w} = {2, 4, 6, 8}
    BY <2>4
  <2> QED
    BY <2>1, <2>5, Zenon
<1>5. /\ {h \in {2, 4, 6, 8} : h >= 2} = {2, 4, 6, 8} /\ {h \in {2, 4, 6, 8} : h >= 4} = {4, 6, 8}
      /\ {h \in {2, 4, 6, 8} : h >= 6} = {6, 8} /\ {h \in {2, 4, 6, 8} : h >= 8} = {8}
  OBVIOUS
<1>6. /\ Cardinality({8}) = 1 /\ Cardinality({6, 8}) = 2 /\ Cardinality({4, 6, 8}) = 3
      /\ Cardinality({2, 4, 6, 8}) = 4
  <2>1. PICK A, B, C, D : A = {8} /\ B = A \cup {6} /\ C = B \cup {4} /\ D = C \cup {2}
    OBVIOUS
  <2>2. IsFiniteSet(A) /\ Cardinality(A) = 1
    BY <2>1, FS_Singleton
  <2>3. 6 \notin A /\ 4 \notin B /\ 2 \notin C
    BY <2>1
  <2>4. IsFiniteSet(A \cup {6}) /\ Cardinality(A \cup {6}) = Cardinality(A) + 1
    BY <2>2, <2>3, FS_AddElement, Zenon
  <2>5. IsFiniteSet(B \cup {4}) /\ Cardinality(B \cup {4}) = Cardinality(B) + 1
    BY <2>1, <2>3, <2>4, FS_AddElement, Zenon
  <2>6. Cardinality(C \cup {2}) = Cardinality(C) + 1
    BY <2>1, <2>3, <2>5, FS_AddElement, Zenon
  <2>7. Cardinality(A) = 1 /\ Cardinality(B) = 2 /\ Cardinality(C) = 3 /\ Cardinality(D) = 4
    <3>1. PICK a, b, c, d : /\ a = Cardinality(A) /\ b = Cardinality(B) /\ c = Cardinality(C)
                            /\ d = Cardinality(D)
      BY Zenon
    <3>2. a = 1 /\ b = a + 1 /\ c = b + 1 /\ d = c + 1
      BY <2>1, <2>2, <2>4, <2>5, <2>6, <3>1, Zenon
    <3>3. a = 1 /\ b = 2 /\ c = 3 /\ d = 4
      BY <3>2
    <3> QED
      BY <3>1, <3>3, Zenon
  <2>8. {8} = A /\ {6, 8} = B /\ {4, 6, 8} = C /\ {2, 4, 6, 8} = D
    BY <2>1
  <2> QED
    BY <2>7, <2>8, Zenon
<1>7. behind(3) = 4 /\ behind(4) = 2
  <2>1. \A k : behind(k) = CHOOSE j \in {2, 4, 6, 8} : Cardinality({h \in {2, 4, 6, 8} : h >= j}) = k
    BY <1>4, Zenon
  <2> DEFINE F(j) == Cardinality({h \in {2, 4, 6, 8} : h >= j})
  <2>2. F(2) = 4 /\ F(4) = 3 /\ F(6) = 2 /\ F(8) = 1
    BY <1>5, <1>6, Zenon
  <2>3. \A k : behind(k) = CHOOSE j \in {2, 4, 6, 8} : F(j) = k
    BY <2>1, Zenon
  <2> HIDE DEF F, behind, commas
  <2>4. behind(3) \in {2, 4, 6, 8} /\ F(behind(3)) = 3
    BY <2>2, <2>3
  <2>5. behind(4) \in {2, 4, 6, 8} /\ F(behind(4)) = 4
    BY <2>2, <2>3
  <2> QED
    BY <2>2, <2>4, <2>5
<1>8. Field(l, 3) = l[4 + 1].v /\ Field(l, 4) = l[2 + 1].v
  <2>1. \A k : Field(l, k) = l[behind(k) + 1].v
    BY Zenon DEF Field
  <2> HIDE DEF behind
  <2> QED
    BY <1>7, <2>1
<1>9. T[5].v = WidthOf(m.data) /\ T[3].v = m.link
  <2>1. IsToken(T[3], "num", m.link)
    BY <1>2, Zenon
  <2>2. IsToken(T[5], "num", WidthOf(m.data))
    BY <1>2, Zenon
  <2>3. T[3].v = m.link
    BY <2>1, TokenParts
  <2>4. T[5].v = WidthOf(m.data)
    BY <2>2, TokenParts
  <2> QED
    BY <2>3, <2>4, Zenon
<1> HIDE DEF behind, commas
<1>10. l[4 + 1] = T[5] /\ l[2 + 1] = T[3]
  OBVIOUS
<1> QED
  BY <1>8, <1>9, <1>10

LEMMA HeaderStep ==
    ASSUME IInv, st = "read", More, Char # CR, Header(Char), Advance
    PROVE  IInv' /\ rx' = rx
<1>1. PICK m, T, t : m = Head(rx) /\ T = Text(m) /\ t = Char
  OBVIOUS
<1>2. /\ Types /\ rx # <<>> /\ m \in Good
      /\ T \in Seq(Tok) /\ Len(T) \in Nat /\ pos \in Nat /\ pos < Len(T)
      /\ t = T[pos + 1] /\ t \in Tok
      /\ \/ pos + 1 < Len(T) /\ rx' = rx /\ pos' = pos + 1
         \/ pos + 1 = Len(T) /\ rx' = Tail(rx) /\ pos' = 0
  BY <1>1, Reads
<1>3. /\ t = Word(":") /\ n' = Field(line, 3) /\ link' = Field(line, 4) /\ data' = <<>>
      /\ st' = "payload" /\ line' = <<>> /\ i' = 0 /\ UNCHANGED <<base, asked, out>>
  BY <1>1, Zenon DEF Header, IsHeader, Restart
<1>4. m.kind = "ipd"
  BY <1>1, <1>2, <1>3, LineEnds
<1>5. pos < 10 /\ Len(line) = pos /\ (\A k \in 1..pos : line[k] = T[k]) /\ line \in Seq(Tok)
  BY <1>1, <1>2, <1>4, HeaderLine DEF Types
<1>6. pos = 9
  <2>1. ~(pos < 9)
    BY <1>1, <1>2, <1>3, <1>4, LineEnds
  <2> QED
    BY <1>2, <1>5, <2>1
<1>7. n' = WidthOf(m.data) /\ link' = m.link
  <2>1. Len(line) = 9 /\ \A k \in 1..9 : line[k] = T[k]
    BY <1>5, <1>6
  <2>2. Field(line, 3) = WidthOf(m.data) /\ Field(line, 4) = m.link
    BY <1>1, <1>2, <1>4, <1>5, <2>1, HeaderFields
  <2> QED
    BY <1>3, <2>2, Zenon
<1>8. m.data \in Seq(Tok) /\ m.link \in Nat /\ Len(T) > 10
  BY <1>1, <1>2, <1>4, Kinds, GoodText
<1>9. WidthOf(m.data) \in Nat
  BY <1>8, WidthOfNat
<1>10. pos + 1 = 10 /\ pos + 1 < Len(T) /\ rx' = rx /\ pos' = pos + 1
  <2>1. pos + 1 = 10 /\ pos + 1 < Len(T)
    BY <1>2, <1>6, <1>8
  <2>2. pos + 1 # Len(T)
    BY <1>2, <2>1
  <2> QED
    BY <1>2, <2>1, <2>2, Zenon
<1>11. PayPart(m, pos + 1, st', line', i', link', n', data')
  <2>1. SubSeq(m.data, 1, (pos + 1) - 10) = <<>>
    <3>1. (pos + 1) - 10 = 0
      BY <1>6
    <3> QED
      BY <1>8, <3>1, SubSeqAll
  <2>2. n' + WidthOf(data') = WidthOf(m.data)
    BY <1>3, <1>7, <1>9, WidthOfNone
  <2> QED
    BY <1>3, <1>4, <1>7, <1>10, <2>1, <2>2 DEF PayPart
<1>12. Placed(m, pos + 1, st', line', i', link', n', data')
  <2>1. ReadPart(m, T, pos + 1, st', line', i') /\ AcceptPart(m, T, pos + 1, st', line', i')
    BY <1>3 DEF ReadPart, AcceptPart
  <2>2. GatherPart(m, T, pos + 1, st', line')
    BY <1>4 DEF GatherPart
  <2> QED
    BY <1>1, <1>10, <1>11, <2>1, <2>2 DEF Placed
<1>13. /\ line' \in Seq(Tok) /\ i' \in Nat /\ st' \in {"read", "payload", "accept"} /\ base' \in Nat
       /\ link' \in Nat /\ n' \in Nat /\ data' \in Seq(Tok) /\ asked' \in Nat
  BY <1>2, <1>3, <1>7, <1>8, <1>9 DEF Types
<1> QED
  BY <1>1, <1>2, <1>10, <1>12, <1>13, AtNext


\* A line that read_thread parses is one message.
LEMMA ParseLineStep ==
    ASSUME IInv, st = "read", More, Char # CR, ParseLine(Char), Advance
    PROVE  IInv' /\ Head(rx).kind # "ipd" /\ rx' = Tail(rx) /\ pos' = 0
<1>1. PICK m, T, t : m = Head(rx) /\ T = Text(m) /\ t = Char
  OBVIOUS
<1>2. /\ Types /\ rx # <<>> /\ m \in Good
      /\ T \in Seq(Tok) /\ Len(T) \in Nat /\ pos \in Nat /\ pos < Len(T)
      /\ t = T[pos + 1] /\ t \in Tok
      /\ ReadPart(m, T, pos, st, line, i)
      /\ \/ pos + 1 < Len(T) /\ rx' = rx /\ pos' = pos + 1
         \/ pos + 1 = Len(T) /\ rx' = Tail(rx) /\ pos' = 0
  BY <1>1, Reads
<1>3. /\ t = NL
      /\ ConnectLine(Longer(t), LongerI(t)) \/ PlainLine(Longer(t), LongerI(t))
      /\ line' = <<>> /\ i' = 0 /\ n' = n /\ data' = data
  BY <1>1, Zenon DEF ParseLine, Restart
<1>8. T[pos + 1] = NL
  BY <1>2, <1>3
<1>4. m.kind # "ipd"
  <2> SUFFICES ASSUME m.kind = "ipd" PROVE FALSE
    OBVIOUS
  <2>1. pos < 10
    BY <1>2 DEF ReadPart
  <2> QED
    BY <1>1, <1>2, <1>8, <2>1, LineEnds
<1>5. pos + 1 = Len(T) /\ rx' = Tail(rx) /\ pos' = 0
  <2>1. pos + 1 = Len(T)
    BY <1>1, <1>2, <1>8, <1>4, LineEnds
  <2> QED
    BY <1>2, <2>1
<1>6. /\ st' \in {"read", "accept"} /\ base' \in Nat /\ link' \in Nat /\ asked' \in Nat
  <2>1. Longer(t) \in Seq(Tok)
    BY <1>2, LongerTokens
  <2>2. CASE ConnectLine(Longer(t), LongerI(t))
    <3>1. IsConnect(Longer(t), LongerI(t))
      BY <2>2, Zenon DEF ConnectLine
    <3>2. PICK k \in 1..Len(Longer(t)) : TRUE
      BY <3>1, Zenon DEF IsConnect, WordAt
    <3>3. Longer(t)[1] \in Tok
      BY <2>1, <3>2
    <3>4. Longer(t)[1].v \in Nat
      BY <3>3 DEF Tok
    <3>5. link' = Longer(t)[1].v /\ asked' = asked + 1 /\ st' = "accept" /\ base' = 0
      BY <2>2 DEF ConnectLine
    <3> QED
      BY <1>2, <3>4, <3>5 DEF Types
  <2>3. CASE PlainLine(Longer(t), LongerI(t))
    <3>1. UNCHANGED <<st, base, link, asked>>
      BY <2>3, Zenon DEF PlainLine
    <3> QED
      BY <1>2, <3>1 DEF Types
  <2> QED
    BY <1>3, <2>2, <2>3
<1>7. n' \in Nat /\ data' \in Seq(Tok)
  BY <1>2, <1>3 DEF Types
<1> QED
  BY <1>1, <1>2, <1>3, <1>4, <1>5, <1>6, <1>7, AtEnd

\* recv takes exactly the data.
LEMMA PayloadStep ==
    ASSUME IInv, Payload
    PROVE  /\ IInv' /\ Head(rx).kind = "ipd" /\ Head(rx).link = link
           /\ \/ rx' = rx /\ st' = "payload" /\ out' = out /\ pos' = pos + 1
              \/ /\ rx' = Tail(rx) /\ st' = "read" /\ pos' = 0
                 /\ out' = Call("recv", "", link, Head(rx).data)
<1>1. st = "payload" /\ More /\ Char # CR /\ Advance
      /\ UNCHANGED <<line, i, base, link, asked, astray>>
  BY DEF Payload
<1>2. PICK m, T, t, d : m = Head(rx) /\ T = Text(m) /\ t = Char /\ d = m.data
  OBVIOUS
<1>3. /\ Types /\ rx # <<>> /\ m \in Good
      /\ T \in Seq(Tok) /\ Len(T) \in Nat /\ pos \in Nat /\ pos < Len(T)
      /\ t = T[pos + 1] /\ t \in Tok /\ Width(t) \in Nat
      /\ PayPart(m, pos, st, line, i, link, n, data)
      /\ \/ pos + 1 < Len(T) /\ rx' = rx /\ pos' = pos + 1
         \/ pos + 1 = Len(T) /\ rx' = Tail(rx) /\ pos' = 0
  BY <1>1, <1>2, Reads
<1>4. /\ m.kind = "ipd" /\ link = m.link /\ pos >= 10 /\ line = <<>> /\ i = 0
      /\ data = SubSeq(d, 1, pos - 10)
      /\ n + WidthOf(data) = WidthOf(d)
  BY <1>1, <1>2, <1>3 DEF PayPart
<1>5. /\ d \in Seq(Tok) /\ Len(d) \in Nat /\ \A k \in 1..Len(d) : Width(d[k]) > 0
      /\ Len(T) = 10 + Len(d) /\ \A k \in 1..Len(d) : T[10 + k] = d[k]
  <2>1. WellFormed(m)
    BY <1>3 DEF Good
  <2>2. /\ m.data \in Seq(Tok) /\ Len(m.data) \in Nat \ {0} /\ Len(T) = 10 + Len(m.data)
        /\ \A k \in 1..Len(m.data) : Width(m.data[k]) > 0
        /\ \A k \in 1..Len(m.data) : T[10 + k] = m.data[k]
    BY <1>2, <1>4, <2>1, PacketText, Zenon
  <2> QED
    BY <1>2, <2>2
<1>6. PICK k : k = pos - 10
  OBVIOUS
<1>7. k \in Nat /\ k < Len(d) /\ pos = 10 + k /\ k + 1 \in 1..Len(d)
  BY <1>3, <1>4, <1>5, <1>6
<1>8. t = d[k + 1]
  <2>1. pos + 1 = 10 + (k + 1)
    BY <1>7
  <2> QED
    BY <1>3, <1>5, <1>7, <2>1
<1>9. data = SubSeq(d, 1, k) /\ Append(data, t) = SubSeq(d, 1, k + 1)
  BY <1>4, <1>5, <1>6, <1>7, <1>8, SubSeqNext
<1>10. PICK w, w1, ww : w = WidthOf(data) /\ w1 = WidthOf(SubSeq(d, 1, k + 1)) /\ ww = WidthOf(d)
  OBVIOUS
<1>11. w \in Nat /\ w1 = w + Width(t) /\ w1 <= ww /\ ww \in Nat
  BY <1>5, <1>7, <1>8, <1>9, <1>10, WidthOfNext, WidthOfNat
<1>12. n \in Nat /\ n + w = ww
  BY <1>3, <1>4, <1>10 DEF Types
<1>13. CASE n > Width(t)
  <2>1. n' = n - Width(t) /\ data' = Append(data, t) /\ st' = st /\ out' = out
    BY <1>2, <1>13 DEF Payload
  <2>2. k + 1 # Len(d)
    <3> SUFFICES ASSUME k + 1 = Len(d) PROVE FALSE
      OBVIOUS
    <3>1. SubSeq(d, 1, k + 1) = d
      BY <1>5, SubSeqAll
    <3>2. w1 = ww
      BY <1>10, <3>1
    <3> QED
      BY <1>3, <1>11, <1>12, <1>13, <3>2
  <2>3. pos + 1 < Len(T)
    BY <1>5, <1>7, <2>2
  <2>4. rx' = rx /\ pos' = pos + 1
    BY <1>3, <2>3
  <2>5. PayPart(m, pos + 1, st', line', i', link', n', data')
    <3>1. (pos + 1) - 10 = k + 1 /\ pos + 1 >= 10
      BY <1>7
    <3>2. data' = SubSeq(d, 1, (pos + 1) - 10)
      BY <1>9, <2>1, <3>1
    <3>3. n' + WidthOf(data') = WidthOf(d)
      BY <1>3, <1>9, <1>10, <1>11, <1>12, <2>1
    <3> QED
      BY <1>1, <1>2, <1>4, <2>1, <3>1, <3>2, <3>3 DEF PayPart
  <2>6. Placed(m, pos + 1, st', line', i', link', n', data')
    <3>1. ReadPart(m, T, pos + 1, st', line', i') /\ AcceptPart(m, T, pos + 1, st', line', i')
      BY <1>1, <2>1 DEF ReadPart, AcceptPart
    <3>2. GatherPart(m, T, pos + 1, st', line') /\ pos + 1 # 0
      BY <1>3, <1>4 DEF GatherPart
    <3> QED
      BY <1>2, <2>3, <2>5, <3>1, <3>2 DEF Placed
  <2>7. n' \in Nat /\ data' \in Seq(Tok)
    BY <1>3, <1>12, <1>13, <2>1 DEF Types
  <2>8. /\ line' \in Seq(Tok) /\ i' \in Nat /\ st' \in {"read", "payload", "accept"}
        /\ base' \in Nat /\ link' \in Nat /\ asked' \in Nat
    BY <1>1, <1>3, <2>1 DEF Types
  <2> QED
    BY <1>1, <1>2, <1>3, <1>4, <2>1, <2>4, <2>6, <2>7, <2>8, AtNext
<1>14. CASE ~(n > Width(t))
  <2>1. /\ out' = Call("recv", "", link, Append(data, t))
        /\ st' = "read" /\ n' = 0 /\ data' = <<>>
    BY <1>2, <1>14 DEF Payload
  <2>2. k + 1 = Len(d)
    <3> SUFFICES ASSUME k + 1 # Len(d) PROVE FALSE
      OBVIOUS
    <3>1. k + 1 \in Nat /\ k + 1 < Len(d) /\ (k + 1) + 1 \in 1..Len(d)
      BY <1>5, <1>7
    <3>2. Width(d[(k + 1) + 1]) > 0 /\ Width(d[(k + 1) + 1]) \in Nat
      BY <1>5, <3>1, WidthNat
    <3>3. /\ WidthOf(SubSeq(d, 1, (k + 1) + 1)) = WidthOf(SubSeq(d, 1, k + 1)) + Width(d[(k + 1) + 1])
          /\ WidthOf(SubSeq(d, 1, (k + 1) + 1)) <= WidthOf(d)
      BY <1>5, <3>1, WidthOfNext
    <3> QED
      BY <1>3, <1>10, <1>11, <1>12, <1>14, <3>2, <3>3
  <2>3. pos + 1 = Len(T)
    BY <1>5, <1>7, <2>2
  <2>4. rx' = Tail(rx) /\ pos' = 0
    BY <1>3, <2>3
  <2>5. Append(data, t) = d
    BY <1>5, <1>9, <2>2, SubSeqAll
  <2>6. line' = <<>> /\ i' = 0 /\ base' \in Nat /\ link' \in Nat /\ asked' \in Nat
        /\ data' \in Seq(Tok)
    BY <1>1, <1>3, <1>4, <2>1 DEF Types
  <2>7. IInv'
    BY <1>3, <2>1, <2>4, <2>6, AtEnd
  <2> QED
    BY <1>2, <1>4, <2>1, <2>4, <2>5, <2>7
<1> QED
  BY <1>13, <1>14


\* What accept finds in the line: the visible tokens of the message so far.
LEMMA AcceptLine ==
    ASSUME IInv, st = "accept", More, Char # CR, NEW m, m = Head(rx), m.kind # "ipd",
           NEW T, T = Text(m)
    PROVE  /\ Char # NL => /\ pos + 1 <= Len(T) - 2 /\ line = SubSeq(T, 1, pos)
                           /\ Append(line, Char) = SubSeq(T, 1, pos + 1)
           /\ Char = NL => pos + 1 = Len(T) /\ line = SubSeq(T, 1, Len(T) - 2)
<1>1. /\ m \in Good /\ T \in Seq(Tok) /\ Len(T) \in Nat /\ pos \in Nat /\ pos < Len(T)
      /\ Char = T[pos + 1] /\ GatherPart(m, T, pos, st, line)
  BY Reads
<1>2. line = SubSeq(T, 1, IF pos <= Len(T) - 2 THEN pos ELSE Len(T) - 2)
  BY <1>1 DEF GatherPart
<1>3. CASE Char # NL
  <2>1. pos + 1 <= Len(T) - 2
    BY <1>1, <1>3, LineEnds
  <2>2. pos <= Len(T) - 2
    BY <1>1, <2>1
  <2> QED
    BY <1>1, <1>2, <1>3, <2>1, <2>2, SubSeqNext
<1>4. CASE Char = NL
  <2>1. pos + 1 = Len(T)
    BY <1>1, <1>4, LineEnds
  <2>2. ~(pos <= Len(T) - 2)
    BY <1>1, <2>1
  <2> QED
    BY <1>2, <1>4, <2>1, <2>2
<1> QED
  BY <1>3, <1>4

LEMMA AcceptStep ==
    ASSUME IInv, Accept, ~astray'
    PROVE  /\ IInv'
           /\ AcceptStore(Char) => rx' = rx
           /\ AcceptFound(Char) => Head(rx).kind = "status" /\ rx' = Tail(rx)
           /\ AcceptEnd(Char) => Head(rx).kind = "answer" /\ rx' = Tail(rx)
           /\ pos' # 0 => rx' = rx
           /\ pos' = 0 => rx' = Tail(rx)
<1>1. st = "accept" /\ More /\ Char # CR /\ Advance /\ UNCHANGED <<link, n, data, asked>>
  BY DEF Accept
<1>2. PICK m, T, t : m = Head(rx) /\ T = Text(m) /\ t = Char
  OBVIOUS
<1>3. /\ Types /\ rx # <<>> /\ m \in Good
      /\ T \in Seq(Tok) /\ Len(T) \in Nat /\ pos \in Nat /\ pos < Len(T)
      /\ t = T[pos + 1] /\ t \in Tok /\ Width(t) \in Nat
      /\ GatherPart(m, T, pos, st, line) /\ AcceptPart(m, T, pos, st, line, i)
      /\ \/ pos + 1 < Len(T) /\ rx' = rx /\ pos' = pos + 1
         \/ pos + 1 = Len(T) /\ rx' = Tail(rx) /\ pos' = 0
  BY <1>1, <1>2, Reads
<1>4. /\ Shown(T, pos + 1) = Shown(T, pos) + Width(t)
      /\ Shown(T, pos) \in Nat
  <2>1. t # CR
    BY <1>1, <1>2
  <2>2. pos \in 0..Len(T) /\ pos \in 0..pos
    BY <1>3
  <2> QED
    BY <1>3, <2>1, <2>2, ShownNext, ShownGrows
<1>5. i \in Nat /\ i <= Shown(T, pos) /\ line \in Seq(Tok) /\ base \in Nat /\ link \in Nat
      /\ n \in Nat /\ data \in Seq(Tok) /\ asked \in Nat
  BY <1>1, <1>3 DEF AcceptPart, Types
<1>6. ASSUME AcceptStore(Char)
      PROVE  IInv' /\ rx' = rx
  <2>1. /\ t # NL /\ line' = Append(line, t) /\ i' = i + Width(t) /\ pos' # 0
        /\ UNCHANGED <<st, base, out>>
    BY <1>2, <1>6 DEF AcceptStore
  <2>2. pos + 1 < Len(T) /\ rx' = rx /\ pos' = pos + 1
    BY <1>3, <2>1
  <2>3. AcceptPart(m, T, pos + 1, st', line', i')
    <3>1. i' <= Shown(T, pos + 1)
      BY <1>3, <1>4, <1>5, <2>1
    <3>2. ASSUME m.kind = "ipd"
          PROVE  line' # <<>> /\ \E k \in 1..(pos + 1) : T[k] = line'[1] /\ Begins(T, k)
      <4>1. pos + 1 \in 1..(pos + 1) /\ \A k \in 1..pos : k \in 1..(pos + 1)
        BY <1>3
      <4>2. line' # <<>>
        BY <1>3, <1>5, <2>1
      <4>3. CASE line = <<>>
        <5>1. line'[1] = T[pos + 1]
          BY <1>3, <1>5, <2>1, <4>3
        <5>2. Begins(T, pos + 1)
          BY <1>1, <1>3, <3>2, <4>3 DEF AcceptPart
        <5> QED
          BY <4>1, <4>2, <5>1, <5>2
      <4>4. CASE line # <<>>
        <5>1. line'[1] = line[1]
          BY <1>3, <1>5, <2>1, <4>4
        <5>2. PICK k \in 1..pos : T[k] = line[1] /\ Begins(T, k)
          BY <1>1, <1>3, <3>2, <4>4 DEF AcceptPart
        <5> QED
          BY <4>1, <4>2, <5>1, <5>2
      <4> QED
        BY <4>3, <4>4
    <3> QED
      BY <3>1, <3>2 DEF AcceptPart
  <2>4. GatherPart(m, T, pos + 1, st', line')
    <3> SUFFICES ASSUME m.kind # "ipd"
                 PROVE  line' = SubSeq(T, 1, IF pos + 1 <= Len(T) - 2 THEN pos + 1 ELSE Len(T) - 2)
      BY DEF GatherPart
    <3>1. pos + 1 <= Len(T) - 2 /\ line' = SubSeq(T, 1, pos + 1)
      BY <1>1, <1>2, <2>1, AcceptLine
    <3> QED
      BY <3>1
  <2>5. Placed(m, pos + 1, st', line', i', link', n', data')
    <3>1. ReadPart(m, T, pos + 1, st', line', i')
          /\ PayPart(m, pos + 1, st', line', i', link', n', data') /\ pos + 1 # 0
      BY <1>1, <1>3, <2>1 DEF ReadPart, PayPart
    <3> QED
      BY <1>2, <2>2, <2>3, <2>4, <3>1 DEF Placed
  <2>6. /\ line' \in Seq(Tok) /\ i' \in Nat /\ st' \in {"read", "payload", "accept"}
        /\ base' \in Nat /\ link' \in Nat /\ n' \in Nat /\ data' \in Seq(Tok) /\ asked' \in Nat
    BY <1>1, <1>3, <1>5, <2>1
  <2> QED
    BY <1>2, <1>3, <2>2, <2>5, <2>6, AtNext
<1>7. ASSUME AcceptFound(Char)
      PROVE  IInv' /\ Head(rx).kind = "status" /\ rx' = Tail(rx)
  <2>1. /\ t = NL /\ m.kind = "status" /\ line' = <<>> /\ i' = 0 /\ st' = st
        /\ base' = base + WidthOf(SubSeq(line, 1, 5))
    BY <1>2, <1>7 DEF AcceptFound, Restart
  <2>2. pos + 1 = Len(T) /\ line = SubSeq(T, 1, Len(T) - 2)
    BY <1>1, <1>2, <2>1, AcceptLine
  <2>3. WidthOf(SubSeq(line, 1, 5)) \in Nat
    <3>1. T = <<T[1], T[2], T[3], T[4], T[5], T[6], T[7], T[8], T[9], T[10]>> /\ Len(T) = 10
      <4>1. PICK a, b, c, d, e, f, g, h, p, q : T = <<a, b, c, d, e, f, g, h, p, q>>
        BY <1>2, <1>3, <2>1, StatusText, Zenon DEF Good
      <4> QED
        BY <4>1
    <3>2. Len(line) = 8
      BY <1>3, <2>2, <3>1
    <3>3. SubSeq(line, 1, 5) \in Seq(Tok)
      <4>1. 5 \in Nat /\ 5 < Len(line)
        BY <3>2
      <4> QED
        BY <1>5, <4>1, SubSeqNext
    <3> QED
      BY <3>3, WidthOfNat
  <2>4. rx' = Tail(rx) /\ pos' = 0 /\ base' \in Nat
    BY <1>3, <1>5, <2>1, <2>2, <2>3
  <2>5. IInv'
    BY <1>1, <1>3, <1>5, <2>1, <2>4, AtEnd
  <2> QED
    BY <1>2, <2>1, <2>4, <2>5
<1>8. ASSUME AcceptEnd(Char)
      PROVE  IInv' /\ Head(rx).kind = "answer" /\ rx' = Tail(rx)
  <2>1. /\ t = NL /\ m.kind = "answer" /\ line' = <<>> /\ i' = 0 /\ st' = "read"
        /\ base' = base
    BY <1>2, <1>8 DEF AcceptEnd, Restart
  <2>2. pos + 1 = Len(T)
    BY <1>1, <1>2, <2>1, AcceptLine
  <2>3. rx' = Tail(rx) /\ pos' = 0
    BY <1>3, <2>2
  <2>4. IInv'
    BY <1>1, <1>3, <1>5, <2>1, <2>3, AtEnd
  <2> QED
    BY <1>2, <2>1, <2>3, <2>4
<1>9. ASSUME AcceptDrop(Char)
      PROVE  IInv'
  <2>1. t = NL /\ line' = <<>> /\ i' = 0 /\ UNCHANGED <<st, base, out>>
    BY <1>2, <1>9 DEF AcceptDrop, Restart
  <2>2. CASE pos + 1 = Len(T)
    <3>1. rx' = Tail(rx) /\ pos' = 0
      BY <1>3, <2>2
    <3> QED
      BY <1>1, <1>3, <1>5, <2>1, <3>1, AtEnd
  <2>3. CASE pos + 1 # Len(T)
    <3>1. pos + 1 < Len(T) /\ rx' = rx /\ pos' = pos + 1
      BY <1>3, <2>3
    <3>2. m.kind = "ipd"
      BY <1>1, <1>2, <2>1, <2>3, AcceptLine
    <3>3. AcceptPart(m, T, pos + 1, st', line', i')
      <4>1. i' <= Shown(T, pos + 1)
        BY <1>3, <1>4, <2>1
      <4>2. Begins(T, (pos + 1) + 1)
        <5>1. pos + 1 \in 1..(((pos + 1) + 1) - 1)
          BY <1>3
        <5>2. Hidden(T, pos + 1, ((pos + 1) + 1) - 1)
          BY <1>3 DEF Hidden
        <5>3. T[pos + 1] = NL
          BY <1>3, <2>1
        <5> QED
          BY <5>1, <5>2, <5>3 DEF Begins
      <4> QED
        BY <2>1, <4>1, <4>2 DEF AcceptPart
    <3>4. Placed(m, pos + 1, st', line', i', link', n', data')
      <4>1. ReadPart(m, T, pos + 1, st', line', i')
            /\ PayPart(m, pos + 1, st', line', i', link', n', data') /\ pos + 1 # 0
        BY <1>1, <1>3, <2>1 DEF ReadPart, PayPart
      <4>2. GatherPart(m, T, pos + 1, st', line')
        BY <3>2 DEF GatherPart
      <4> QED
        BY <1>2, <3>1, <3>3, <4>1, <4>2 DEF Placed
    <3>5. /\ line' \in Seq(Tok) /\ i' \in Nat /\ st' \in {"read", "payload", "accept"}
          /\ base' \in Nat /\ link' \in Nat /\ n' \in Nat /\ data' \in Seq(Tok) /\ asked' \in Nat
      BY <1>1, <1>5, <2>1
    <3> QED
      BY <1>2, <1>3, <3>1, <3>4, <3>5, AtNext
  <2> QED
    BY <2>2, <2>3
<1>10. (pos' # 0 => rx' = rx) /\ (pos' = 0 => rx' = Tail(rx))
  BY <1>3
<1>11. AcceptStore(Char) \/ AcceptFound(Char) \/ AcceptEnd(Char) \/ AcceptDrop(Char)
  BY DEF Accept
<1> QED
  BY <1>6, <1>7, <1>8, <1>9, <1>10, <1>11


LEMMA AnswerOK == Answer("OK") \in Good
<1>1. <<>> \in Seq([c : STRING, v : Nat])
  OBVIOUS
<1>2. PICK K, W, L, D : /\ K = {"answer", "connect", "closed", "ipd", "status", "other"}
                        /\ W = {"", "OK", "ERROR", "SEND OK"}
                        /\ L = 0..9 /\ D = Seq([c : STRING, v : Nat])
  BY Zenon
<1>3. PICK a, b : a = "answer" /\ b = "OK"
  BY Zenon
<1>4. a \in K /\ b \in W
  BY <1>2, <1>3, Zenon
<1>5. 0 \in L /\ <<>> \in D
  <2>1. 0 \in 0..9
    OBVIOUS
  <2> QED
    BY <1>1, <1>2, <2>1, Zenon
<1>6. PICK r : r = [kind |-> a, word |-> b, link |-> 0, data |-> <<>>]
  OBVIOUS
<1>7. r \in [kind : K, word : W, link : L, data : D]
  BY <1>4, <1>5, <1>6
<1>8. r = Answer("OK")
  BY <1>3, <1>6, Zenon DEF Answer, Msg
<1>9. r \in Message
  BY <1>2, <1>7, Zenon DEF Message
<1>10. r.kind = "answer" /\ r.word = b /\ r.link = 0
  BY <1>3, <1>6
<1>11. "OK" # ""
  OBVIOUS
<1>12. WellFormed(r)
  <2>1. r.kind # "ipd" /\ r.kind # "status" /\ r.kind # "other"
    BY <1>10, Zenon
  <2>2. r.word # "" /\ r.link = 0
    BY <1>3, <1>10, <1>11, Zenon
  <2> QED
    BY <1>9, <2>1, <2>2, Zenon DEF WellFormed
<1> QED
  BY <1>8, <1>9, <1>12, Zenon DEF Good

LEMMA SentGood == Sent \subseteq Good
<1>1. ASSUME NEW m \in Sent PROVE m \in Good
  BY SentAssumption, Zenon DEF WellFormed, Good
<1> QED
  BY <1>1

LEMMA StatusGood == ASSUME NEW s \in Statuses PROVE s \in Seq(Good)
<1>1. s \in Seq(Message) /\ \A k \in 1..Len(s) : WellFormed(s[k])
  BY StatusAssumption, Zenon
<1>2. Len(s) \in Nat /\ \A k \in 1..Len(s) : s[k] \in Message
  BY <1>1, ElementOfSeq
<1>3. \A k \in 1..Len(s) : s[k] \in Good
  BY <1>1, <1>2, Zenon DEF Good
<1>4. s = [k \in 1..Len(s) |-> s[k]]
  BY <1>1, LenProperties
<1> QED
  BY <1>2, <1>3, <1>4, IsASeq

\* More messages at the end.
LEMMA Sending ==
    ASSUME IInv, ~astray, NEW q \in Seq(Good), q # <<>>, rx' = rx \o q,
           UNCHANGED <<pos, st, line, i, base, link, n, data, astray>>, asked' \in Nat
    PROVE  IInv' /\ IsStrictPrefix(rx, rx')
<1>1. Types /\ rx \in Seq(Good)
  BY DEF IInv, Types
<1>2. /\ rx' \in Seq(Good) /\ Len(rx') = Len(rx) + Len(q) /\ Len(rx) \in Nat /\ Len(q) \in Nat
      /\ \A k \in 1..(Len(rx) + Len(q)) :
             rx'[k] = IF k <= Len(rx) THEN rx[k] ELSE q[k - Len(rx)]
  <2>1. rx \o q \in Seq(Good) /\ Len(rx \o q) = Len(rx) + Len(q)
    BY <1>1, Concat, Zenon
  <2>2. \A k \in 1..(Len(rx) + Len(q)) :
            (rx \o q)[k] = IF k <= Len(rx) THEN rx[k] ELSE q[k - Len(rx)]
    BY <1>1, Concat, Zenon
  <2>3. Len(rx) \in Nat /\ Len(q) \in Nat
    BY <1>1
  <2> QED
    BY <2>1, <2>2, <2>3, Zenon
<1>3. Len(q) > 0
  BY <1>2, EmptySeq
<1>4. rx # <<>> => Head(rx') = Head(rx)
  <2> SUFFICES ASSUME rx # <<>> PROVE Head(rx') = Head(rx)
    OBVIOUS
  <2>1. Len(rx) > 0
    BY <1>1, <1>2, EmptySeq
  <2>2. 1 \in 1..(Len(rx) + Len(q)) /\ 1 <= Len(rx)
    BY <1>2, <2>1
  <2>3. rx'[1] = rx[1]
    BY <1>2, <2>2
  <2> QED
    BY <1>1, <1>2, <1>3, <2>1, <2>3
<1>5. rx' # <<>> /\ Head(rx') \in Good
  <2>1. Len(rx') > 0
    BY <1>2, <1>3
  <2> QED
    BY <1>2, <2>1
<1>6. Placed(Head(rx'), pos', st', line', i', link', n', data')
  <2>1. CASE rx = <<>>
    <3>1. pos = 0 /\ st # "payload" /\ line = <<>> /\ i = 0
      BY <2>1 DEF IInv
    <3>2. st \in {"read", "accept"}
      BY <1>1, <3>1 DEF Types
    <3>3. Placed(Head(rx'), 0, st, <<>>, 0, link', n', data')
      BY <1>5, <3>2, Beginning
    <3> QED
      BY <3>1, <3>3
  <2>2. CASE rx # <<>>
    BY <1>4, <2>2 DEF IInv
  <2> QED
    BY <2>1, <2>2
<1>7. Types'
  BY <1>1, <1>2 DEF Types
<1>8. IInv'
  BY <1>5, <1>6, <1>7 DEF IInv
<1>9. IsStrictPrefix(rx, rx')
  <2>1. PICK r, u, v : r = rx' /\ u = SubSeq(rx, 1, Len(rx)) /\ v = SubSeq(r, 1, Len(rx))
    OBVIOUS
  <2>2. u \in Seq(Good) /\ Len(u) = Len(rx) /\ \A k \in 1..Len(rx) : u[k] = rx[k]
    BY <1>1, <1>2, <2>1
  <2>3. r \in Seq(Good) /\ Len(r) \in Nat /\ Len(rx) < Len(r)
    BY <1>2, <1>3, <2>1
  <2>4. v \in Seq(Good) /\ Len(v) = Len(rx) /\ \A k \in 1..Len(rx) : v[k] = r[k]
    BY <1>2, <2>1, <2>3, SubSeqNext
  <2>5. \A k \in 1..Len(rx) : r[k] = rx[k]
    <3>1. \A k \in 1..Len(rx) : k \in 1..(Len(rx) + Len(q)) /\ k <= Len(rx)
      BY <1>2
    <3> QED
      BY <1>2, <2>1, <3>1
  <2>6. \A k \in 1..Len(u) : u[k] = v[k]
    BY <2>2, <2>4, <2>5
  <2>7. u = v
    BY <2>2, <2>4, <2>6, SeqEqual
  <2>8. rx # r
    BY <1>2, <2>3
  <2>9. Len(rx) <= Len(r)
    BY <1>2, <2>3
  <2> QED
    BY <2>1, <2>7, <2>8, <2>9, Zenon DEF IsStrictPrefix, IsPrefix
<1> QED
  BY <1>8, <1>9

LEMMA SendStep ==
    ASSUME IInv, Send
    PROVE  IInv' /\ IsStrictPrefix(rx, rx')
<1>1. PICK m \in Sent : rx' = Append(rx, m)
  BY DEF Send
<1>2. /\ ~astray /\ UNCHANGED <<pos, st, line, i, base, link, n, data, astray>>
      /\ asked' = asked
  BY DEF Send
<1>3. m \in Good /\ rx \in Seq(Good) /\ asked \in Nat
  BY <1>2, SentGood DEF IInv, Types
<1>4. PICK q : q = <<m>>
  OBVIOUS
<1>5. q \in Seq(Good) /\ q # <<>> /\ Append(rx, m) = rx \o q
  BY <1>3, <1>4, AppendIsConcat
<1> QED
  BY <1>1, <1>2, <1>3, <1>5, Sending

LEMMA AnswerStatusStep ==
    ASSUME IInv, AnswerStatus
    PROVE  IInv' /\ IsStrictPrefix(rx, rx')
<1>1. PICK s \in Statuses : rx' = rx \o s \o <<Answer("OK")>>
  BY DEF AnswerStatus
<1>2. /\ ~astray /\ asked > 0 /\ asked' = asked - 1
      /\ UNCHANGED <<pos, st, line, i, base, link, n, data, astray>>
  BY DEF AnswerStatus
<1>3. rx \in Seq(Good) /\ asked \in Nat
  BY <1>2 DEF IInv, Types
<1>4. PICK a, q : a = <<Answer("OK")>> /\ q = s \o a
  OBVIOUS
<1>5. a \in Seq(Good) /\ Len(a) = 1 /\ s \in Seq(Good)
  BY <1>4, AnswerOK, StatusGood
<1>6. q \in Seq(Good) /\ q # <<>>
  <2>1. q \in Seq(Good) /\ Len(q) = Len(s) + Len(a)
    BY <1>4, <1>5, Concat
  <2>2. Len(s) \in Nat
    BY <1>5
  <2> QED
    BY <1>5, <2>1, <2>2
<1>7. rx' = rx \o q
  <2>1. (rx \o s) \o a = rx \o (s \o a)
    BY <1>3, <1>5, ConcatAssociative
  <2> QED
    BY <1>1, <1>4, <2>1
<1>8. asked' \in Nat
  BY <1>2, <1>3
<1> QED
  BY <1>2, <1>6, <1>7, <1>8, Sending


LEMMA InitInvariant == Init => IInv
<1> SUFFICES ASSUME Init PROVE IInv
  OBVIOUS
<1>1. rx = <<>> /\ pos = 0 /\ st = "read" /\ line = <<>> /\ i = 0 /\ base = 0
      /\ link = 0 /\ n = 0 /\ data = <<>> /\ asked = 0
  BY DEF Init
<1>2. Types
  BY <1>1 DEF Types
<1> QED
  BY <1>1, <1>2 DEF IInv

LEMMA NextInvariant == IInv /\ [Next]_vars => IInv'
<1> SUFFICES ASSUME IInv, [Next]_vars PROVE IInv'
  OBVIOUS
<1>1. CASE UNCHANGED vars
  BY <1>1 DEF vars, IInv, Types
<1>2. CASE astray'
  BY <1>2 DEF IInv
<1>3. CASE ~astray' /\ Next
  <2>1. CASE TtyDrops
    BY <1>3, <2>1, TtyDropsStep
  <2>2. CASE ReadThread
    <3>1. st = "read" /\ More /\ Char # CR /\ Advance
      BY <2>2 DEF ReadThread
    <3>2. CASE Header(Char)
      BY <3>1, <3>2, HeaderStep
    <3>3. CASE ParseLine(Char)
      BY <3>1, <3>3, ParseLineStep
    <3>4. CASE Store(Char)
      BY <3>1, <3>4, StoreStep
    <3> QED
      BY <2>2, <3>2, <3>3, <3>4 DEF ReadThread
  <2>3. CASE Payload
    BY <2>3, PayloadStep
  <2>4. CASE Accept
    BY <1>3, <2>4, AcceptStep
  <2>5. CASE Send
    BY <2>5, SendStep
  <2>6. CASE AnswerStatus
    BY <2>6, AnswerStatusStep
  <2> QED
    BY <1>3, <2>1, <2>2, <2>3, <2>4, <2>5, <2>6 DEF Next, Reader
<1> QED
  BY <1>1, <1>2, <1>3

LEMMA Invariant == Spec => []IInv
  BY InitInvariant, NextInvariant, PTL DEF Spec

\* The line and the data keep in step with the messages (serial.c 133-289,
\* read_thread, parse_line, recv and accept).
THEOREM StaysInSync == Spec => []InSync
<1>1. ASSUME IInv PROVE InSync
  <2> SUFFICES ASSUME ~astray
               PROVE  /\ pos = 0 => st # "payload" /\ line = <<>>
                      /\ st = "payload" => /\ Head(rx).kind = "ipd" /\ Head(rx).link = link
                                           /\ n + WidthOf(data) = WidthOf(Head(rx).data)
                      /\ st = "read" => i = IF pos = 0 THEN 0
                                            ELSE Min({LINE - 1, Shown(Text(Head(rx)), pos)})
    BY DEF InSync
  <2>1. CASE rx = <<>>
    BY <1>1, <2>1 DEF IInv
  <2>2. CASE rx # <<>>
    <3>1. Placed(Head(rx), pos, st, line, i, link, n, data)
      BY <1>1, <2>2 DEF IInv
    <3> QED
      BY <3>1 DEF Placed, ReadPart, PayPart
  <2> QED
    BY <2>1, <2>2
<1> QED
  BY <1>1, Invariant, PTL


------------------------------------------------------------------------------
(* The refinement of SerialFeed: what the lines lead to.                    *)

\* The first token of a message.
LEMMA FirstToken ==
    ASSUME NEW m \in Good, NEW T, T = Text(m)
    PROVE  /\ m.kind = "answer" => /\ Len(T) = 3 /\ T[1] = Word(m.word) /\ T[1].c = m.word
                                   /\ m.word \in {"OK", "ERROR", "SEND OK"}
           /\ m.kind \in {"connect", "closed"} => T[1].c = "num"
           /\ m.kind = "status" => Len(T) = 10 /\ T[1].c = "+CIPSTATUS:" /\ T[2].v = m.link
           /\ m.kind = "other" => Len(T) = 3 /\ T[1].c = "text"
           /\ m.kind = "ipd" => T[1].c = "+IPD"
<1>1. WellFormed(m)
  BY DEF Good
<1>2. ASSUME m.kind = "answer"
      PROVE  /\ Len(T) = 3 /\ T[1] = Word(m.word) /\ T[1].c = m.word
             /\ m.word \in {"OK", "ERROR", "SEND OK"}
  <2>1. T = <<Word(m.word), CR, NL>>
    BY <1>1, <1>2, AnswerText, Zenon
  <2>2. Len(T) = 3 /\ T[1] = Word(m.word)
    BY <2>1
  <2>3. T[1].c = m.word
    BY <2>2, WordParts, Zenon DEF IsWord
  <2> QED
    BY <1>1, <1>2, <2>2, <2>3, Kinds, Zenon
<1>3. ASSUME m.kind \in {"connect", "closed"} PROVE T[1].c = "num"
  <2>1. m.kind = "connect" \/ m.kind = "closed"
    BY <1>3, Zenon
  <2> QED
    BY <1>1, <2>1, LinkLine, Zenon
<1>4. ASSUME m.kind = "status"
      PROVE  Len(T) = 10 /\ T[1].c = "+CIPSTATUS:" /\ T[2].v = m.link
  <2>1. PICK a, b, c, d, e, f, g, h :
            /\ IsWord(a, "+CIPSTATUS:") /\ IsToken(b, "num", m.link)
            /\ T = <<a, b, c, d, e, f, g, h, CR, NL>>
    BY <1>1, <1>4, StatusText, Zenon DEF IsWord, IsToken
  <2>2. Len(T) = 10 /\ T[1] = a /\ T[2] = b
    <3>1. T = <<a, b, c, d, e, f, g, h, CR, NL>>
      BY <2>1, Zenon
    <3> QED
      BY <3>1
  <2> QED
    BY <2>1, <2>2, WordParts, TokenParts, Zenon
<1>5. ASSUME m.kind = "other" PROVE Len(T) = 3 /\ T[1].c = "text"
  <2>1. T = <<m.data[1], CR, NL>> /\ m.data[1].c = "text"
    BY <1>1, <1>5, OtherText, Zenon
  <2>2. Len(T) = 3 /\ T[1] = m.data[1]
    BY <2>1
  <2> QED
    BY <2>1, <2>2
<1>6. ASSUME m.kind = "ipd" PROVE T[1].c = "+IPD"
  <2>1. IsWord(T[1], "+IPD")
    BY <1>1, <1>6, HeaderTokens, Zenon DEF IsWord
  <2> QED
    BY <2>1, WordParts, Zenon
<1> QED
  BY <1>2, <1>3, <1>4, <1>5, <1>6, Zenon

\* Words that parse_line looks for.
Parsed == {",CONNECT", ",CLOSED", "OK", "ERROR", "SEND OK"}

Filler == {"+CIPSTATUS:", "num", ",\"TCP\",\"", "addr", "\",", "port", ",", "tail", "text"}

\* The state of a link, and other lines, have none of them.
LEMMA DullTokens ==
    ASSUME NEW m \in Good, m.kind \in {"status", "other"}, NEW T, T = Text(m)
    PROVE  \A k \in 1..(Len(T) - 2) : T[k].c \notin Parsed
<1> DEFINE Dull(t) == t.c \notin Parsed
<1>1. WellFormed(m)
  BY DEF Good
<1>2. ASSUME NEW t, t.c \in Filler
      PROVE  Dull(t)
  BY <1>2, Zenon DEF Parsed, Filler
<1> HIDE DEF Dull
<1>3. ASSUME NEW t, NEW w \in {"+CIPSTATUS:", ",\"TCP\",\"", "\",", ","}, IsWord(t, w) PROVE Dull(t)
  <2>1. t.c = w
    BY <1>3, WordParts
  <2>2. t.c \in Filler
    BY <1>3, <2>1, Zenon DEF Filler
  <2> QED
    BY <1>2, <2>2, Zenon
<1>4. ASSUME NEW t, NEW w \in {"num", "port", "tail"}, NEW v, IsToken(t, w, v) PROVE Dull(t)
  <2>1. t.c = w
    BY <1>4, TokenParts
  <2>2. t.c \in Filler
    BY <1>4, <2>1, Zenon DEF Filler
  <2> QED
    BY <1>2, <2>2, Zenon
<1>5. ASSUME NEW t, t.c = "addr" \/ t.c = "text" PROVE Dull(t)
  <2>1. t.c \in Filler
    BY <1>5, Zenon DEF Filler
  <2> QED
    BY <1>2, <2>1, Zenon
<1>6. CASE m.kind = "status"
  <2>1. PICK a, b, c, d, e, f, g, h :
            /\ IsWord(a, "+CIPSTATUS:") /\ IsToken(b, "num", m.link) /\ IsWord(c, ",\"TCP\",\"")
            /\ d.c = "addr" /\ IsWord(e, "\",") /\ IsToken(f, "port", 5) /\ IsWord(g, ",")
            /\ IsToken(h, "tail", 6)
            /\ T = <<a, b, c, d, e, f, g, h, CR, NL>>
    BY <1>1, <1>6, StatusText, Zenon DEF IsWord, IsToken
  <2>2. Dull(a) /\ Dull(b) /\ Dull(c) /\ Dull(d) /\ Dull(e) /\ Dull(f) /\ Dull(g) /\ Dull(h)
    BY <1>3, <1>4, <1>5, <2>1, Zenon
  <2>3. /\ Len(T) = 10 /\ T[1] = a /\ T[2] = b /\ T[3] = c /\ T[4] = d /\ T[5] = e /\ T[6] = f
        /\ T[7] = g /\ T[8] = h
    <3>1. T = <<a, b, c, d, e, f, g, h, CR, NL>>
      BY <2>1, Zenon
    <3> QED
      BY <3>1
  <2>4. \A k \in 1..(Len(T) - 2) : Dull(T[k])
    BY <2>2, <2>3
  <2> QED
    BY <2>4, Zenon DEF Dull
<1>7. CASE m.kind = "other"
  <2>1. Len(T) = 3 /\ T[1].c = "text"
    BY <1>7, FirstToken, Zenon
  <2>2. Dull(T[1])
    BY <1>5, <2>1, Zenon
  <2>3. \A k \in 1..(Len(T) - 2) : Dull(T[k])
    <3>1. Len(T) = 3
      BY <2>1
    <3> QED
      BY <2>2, <3>1
  <2> QED
    BY <2>3, Zenon DEF Dull
<1> QED
  BY <1>6, <1>7, Zenon


LEMMA NLIs == NL.c = "\n" /\ Width(NL) = 1 /\ NL \in Tok /\ NL # CR
<1>1. NL.c = "\n"
  BY DEF NL, Word, Token
<1> QED
  BY <1>1, WidthOfNL, Typed, PlainWords, Zenon

LEMMA HasNot ==
    ASSUME NEW l, NEW len, NEW c, NEW d, \A k \in 1..Len(l) : l[k].c # c
    PROVE  ~WordAt(l, len, c, d)
  BY Zenon DEF WordAt

\* What read_thread makes of a line of each kind.
LEMMA AnswerParsed ==
    ASSUME IInv, st = "read", More, Char = NL, NEW m, m = Head(rx), m.kind = "answer",
           NEW l, l = Longer(Char), NEW len, len = LongerI(Char)
    PROVE  ~IsConnect(l, len) /\ ~IsClosed(l, len) /\ IsAnswer(l) /\ l[1].c = m.word
<1>1. PICK T : T = Text(m)
  OBVIOUS
<1>2. m \in Good /\ line \in Seq(Tok) /\ T \in Seq(Tok)
  BY <1>1, Reads DEF Types
<1>3. l = Append(line, NL) /\ line = SubSeq(T, 1, Len(T) - 2)
  <2>1. m.kind \in Whole
    BY Zenon DEF Whole
  <2>2. Char # CR
    BY NLIs
  <2>3. /\ Longer(Char) = Append(line, Char)
        /\ Char = NL => pos + 1 = Len(T) /\ line = SubSeq(T, 1, Len(T) - 2)
    BY <1>1, <2>1, <2>2, WholeLine
  <2> QED
    BY <2>3
<1>4. Len(T) = 3 /\ T[1].c = m.word /\ m.word \in {"OK", "ERROR", "SEND OK"}
  BY <1>1, <1>2, FirstToken, Zenon
<1>5. Len(line) = 1 /\ line[1] = T[1]
  <2>1. Len(T) = 3
    BY <1>4
  <2> QED
    BY <1>2, <1>3, <2>1
<1>6. Len(l) = 2 /\ l[1] = T[1] /\ l[2] = NL /\ l # <<>>
  BY <1>2, <1>3, <1>5, NLIs
<1>7. l[1].c = m.word
  BY <1>4, <1>6, Zenon
<1>8. l[2].c = "\n"
  BY <1>6, NLIs, Zenon
<1>9. /\ l[1].c # ",CONNECT" /\ l[1].c # ",CLOSED" /\ l[2].c # ",CONNECT" /\ l[2].c # ",CLOSED"
  BY <1>4, <1>7, <1>8, Zenon
<1>10. \A k \in 1..Len(l) : k = 1 \/ k = 2
  BY <1>6
<1>11. ~IsConnect(l, len) /\ ~IsClosed(l, len)
  <2>1. \A k \in 1..Len(l) : l[k].c # ",CONNECT" /\ l[k].c # ",CLOSED"
    BY <1>9, <1>10, Zenon
  <2>2. ~WordAt(l, len, ",CONNECT", 9) /\ ~WordAt(l, len, ",CLOSED", 8)
    BY <2>1, Zenon DEF WordAt
  <2> QED
    BY <2>2, Zenon DEF IsConnect, IsClosed
<1>12. IsAnswer(l)
  BY <1>4, <1>6, <1>7, Zenon DEF IsAnswer, StartsWith
<1> QED
  BY <1>7, <1>11, <1>12

LEMMA LinkParsed ==
    ASSUME IInv, st = "read", More, Char = NL, NEW m, m = Head(rx),
           m.kind = "connect" \/ m.kind = "closed",
           NEW l, l = Longer(Char), NEW len, len = LongerI(Char)
    PROVE  /\ m.kind = "connect" => IsConnect(l, len)
           /\ m.kind = "closed" => ~IsConnect(l, len) /\ IsClosed(l, len)
           /\ l[1].v = m.link
<1>1. PICK T : T = Text(m)
  OBVIOUS
<1>2. m \in Good /\ line \in Seq(Tok) /\ T \in Seq(Tok)
  BY <1>1, Reads DEF Types
<1>3. /\ l = Append(line, NL) /\ line = SubSeq(T, 1, Len(T) - 2) /\ len = i + 1
      /\ pos + 1 = Len(T) /\ i = Shown(T, IF pos <= Len(T) - 2 THEN pos ELSE Len(T) - 2)
  <2>1. m.kind \in Whole
    BY Zenon DEF Whole
  <2>2. Char # CR
    BY NLIs
  <2>3. /\ Longer(Char) = Append(line, Char) /\ LongerI(Char) = i + Width(Char)
        /\ i = Shown(T, IF pos <= Len(T) - 2 THEN pos ELSE Len(T) - 2)
        /\ Char = NL => pos + 1 = Len(T) /\ line = SubSeq(T, 1, Len(T) - 2)
    BY <1>1, <2>1, <2>2, WholeLine
  <2> QED
    BY <2>3, NLIs
<1>4. /\ Len(T) = 4 /\ T[1].v = m.link /\ T[1].c = "num" /\ Width(T[1]) = 1
      /\ Shown(T, 2) = IF m.kind = "connect" THEN 9 ELSE 8
      /\ m.kind = "connect" => T[2].c = ",CONNECT"
      /\ m.kind = "closed" => T[2].c = ",CLOSED"
  BY <1>1, <1>2, LinkLine, Zenon DEF Good
<1>5. Len(T) = 4 /\ Width(T[1]) = 1
  BY <1>4
<1>6. len = (IF m.kind = "connect" THEN 9 ELSE 8) + 1
  <2>1. pos = 3
    <3>1. pos \in Nat
      BY <1>2, Reads
    <3> QED
      BY <1>3, <1>5, <3>1
  <2>2. i = Shown(T, 2)
    BY <1>3, <1>5, <2>1
  <2> QED
    BY <1>3, <1>4, <2>2, Zenon
<1>7. Len(line) = 2 /\ line[1] = T[1] /\ line[2] = T[2]
  BY <1>2, <1>3, <1>5
<1>8. Len(l) = 3 /\ l[1] = T[1] /\ l[2] = T[2] /\ l[3] = NL /\ l \in Seq(Tok)
  BY <1>2, <1>3, <1>7, NLIs
<1>9. WidthOf(SubSeq(l, 1, 2 - 1)) = 1 /\ 2 \in 1..Len(l)
  <2>1. 0 \in Nat /\ 0 < Len(l)
    BY <1>8
  <2>2. WidthOf(SubSeq(l, 1, 0 + 1)) = WidthOf(SubSeq(l, 1, 0)) + Width(l[0 + 1])
    BY <1>8, <2>1, WidthOfNext
  <2>3. WidthOf(SubSeq(l, 1, 0)) = 0
    BY <1>8, SubSeqAll, WidthOfNone
  <2> QED
    BY <1>5, <1>8, <2>2, <2>3
<1>10. l[1].c = "num" /\ l[3].c = "\n" /\ l[2].c = T[2].c
  BY <1>4, <1>8, NLIs, Zenon
<1>11. ASSUME m.kind = "connect" PROVE IsConnect(l, len)
  <2>1. l[2].c = ",CONNECT"
    BY <1>4, <1>10, <1>11, Zenon
  <2>2. WidthOf(SubSeq(l, 1, 2 - 1)) + 9 = len
    BY <1>6, <1>9, <1>11
  <2> QED
    BY <1>9, <2>1, <2>2, Zenon DEF IsConnect, WordAt
<1>12. ASSUME m.kind = "closed" PROVE ~IsConnect(l, len) /\ IsClosed(l, len)
  <2>1. l[2].c = ",CLOSED"
    BY <1>4, <1>10, <1>12, Zenon
  <2>2. WidthOf(SubSeq(l, 1, 2 - 1)) + 8 = len
    <3>1. m.kind # "connect"
      BY <1>12
    <3> QED
      BY <1>6, <1>9, <3>1
  <2>3. IsClosed(l, len)
    BY <1>9, <2>1, <2>2, Zenon DEF IsClosed, WordAt
  <2>4. \A k \in 1..Len(l) : k = 1 \/ k = 2 \/ k = 3
    BY <1>8
  <2>5. \A k \in 1..Len(l) : l[k].c # ",CONNECT"
    BY <1>10, <2>1, <2>4, Zenon
  <2>6. ~IsConnect(l, len)
    BY <2>5, HasNot, Zenon DEF IsConnect
  <2> QED
    BY <2>3, <2>6
<1> QED
  BY <1>4, <1>8, <1>11, <1>12, Zenon

LEMMA DullParsed ==
    ASSUME IInv, st = "read", More, Char = NL, NEW m, m = Head(rx),
           m.kind = "status" \/ m.kind = "other",
           NEW l, l = Longer(Char), NEW len, len = LongerI(Char)
    PROVE  ~IsConnect(l, len) /\ ~IsClosed(l, len) /\ ~IsAnswer(l)
<1>1. PICK T : T = Text(m)
  OBVIOUS
<1>2. /\ m \in Good /\ Types /\ T \in Seq(Tok) /\ Len(T) \in Nat
      /\ ReadPart(m, T, pos, st, line, i) /\ pos \in Nat
  BY <1>1, Reads
<1>3. \A k \in 1..(Len(T) - 2) : T[k].c \notin Parsed
  <2>1. m.kind \in {"status", "other"}
    BY Zenon
  <2> QED
    BY <1>1, <1>2, <2>1, DullTokens, Zenon
<1>4. \A k \in 1..Len(line) : line[k].c \notin Parsed
  <2> SUFFICES ASSUME NEW k \in 1..Len(line) PROVE line[k].c \notin Parsed
    OBVIOUS
  <2>1. PICK j \in 1..pos : j < Len(T) - 1 /\ line[k] = T[j]
    BY <1>2 DEF ReadPart
  <2>2. j \in 1..(Len(T) - 2)
    BY <1>2, <2>1
  <2> QED
    BY <1>3, <2>1, <2>2
<1>5. NL.c \notin Parsed
  BY NLIs, Zenon DEF Parsed
<1>6. l \in Seq(Tok) /\ \A k \in 1..Len(l) : l[k] = NL \/ (k \in 1..Len(line) /\ l[k] = line[k])
  BY <1>2, NLIs, LongerTokens
<1>7. \A k \in 1..Len(l) : l[k].c \notin Parsed
  BY <1>4, <1>5, <1>6
<1>8. l # <<>> => l[1].c \notin Parsed
  <2>1. l # <<>> => 1 \in 1..Len(l)
    BY <1>6
  <2> QED
    BY <1>7, <2>1
<1>9. ~IsConnect(l, len) /\ ~IsClosed(l, len)
  <2>1. \A k \in 1..Len(l) : l[k].c # ",CONNECT" /\ l[k].c # ",CLOSED"
    BY <1>7, Zenon DEF Parsed
  <2>2. ~WordAt(l, len, ",CONNECT", 9) /\ ~WordAt(l, len, ",CLOSED", 8)
    BY <2>1, Zenon DEF WordAt
  <2> QED
    BY <2>2, Zenon DEF IsConnect, IsClosed
<1>10. ~IsAnswer(l)
  <2>1. \A w \in {"OK", "ERROR", "SEND OK"} : w \in Parsed
    BY Zenon DEF Parsed
  <2> QED
    BY <1>8, <2>1, Zenon DEF IsAnswer, StartsWith
<1> QED
  BY <1>9, <1>10


------------------------------------------------------------------------------
(* The refinement: steps.                                                   *)

Mode == IF st = "accept" THEN Accepting(link, base) ELSE Reading

\* The vocabulary of SerialFeed is that of SerialLine.
LEMMA SameGarbling == ASSUME NEW m, NEW md PROVE Feed!Garbling(m, md) <=> Garbling(m, md)
  BY Zenon DEF Garbling, Feed!Garbling, Contains, Feed!Contains, CR, Feed!CR, Word, Feed!Word,
     Token, Feed!Token, Droppable, Feed!Droppable, NL, Feed!NL, Hidden, Feed!Hidden,
     Looked, Feed!Looked, Shown, Feed!Shown, SumTo, Feed!SumTo, Width, Feed!Width,
     Text, Feed!Text, EOL, Feed!EOL, WidthOf, Feed!WidthOf, LINE, Feed!LINE

LEMMA SameUsed == ASSUME NEW m PROVE Feed!StatusUsed(m) = StatusUsed(m)
  BY Zenon DEF StatusUsed, Feed!StatusUsed, CR, Feed!CR, Word, Feed!Word,
     Token, Feed!Token, NL, Feed!NL, SumTo, Feed!SumTo, Width, Feed!Width,
     Text, Feed!Text, EOL, Feed!EOL, WidthOf, Feed!WidthOf

LEMMA SameCalls ==
    /\ \A to, w, l, d : Feed!Call(to, w, l, d) = Call(to, w, l, d)
    /\ Feed!NoCall = NoCall /\ Feed!Reading = Reading
    /\ \A l, u : Feed!Accepting(l, u) = Accepting(l, u)
    /\ \A s, t : Feed!IsStrictPrefix(s, t) <=> IsStrictPrefix(s, t)
  BY DEF Call, Feed!Call, NoCall, Feed!NoCall, Reading, Feed!Reading, Accepting, Feed!Accepting,
     IsStrictPrefix, Feed!IsStrictPrefix, IsPrefix, Feed!IsPrefix

LEMMA ModeIs ==
    /\ st = "accept" => Mode.accept /\ Mode.link = link /\ Mode.used = base
    /\ st # "accept" => ~Mode.accept /\ Mode = Reading
  BY DEF Mode, Accepting, Reading

\* What each kind of message leads to outside accept, and inside.
LEMMA ReadIs ==
    ASSUME NEW m, st # "accept",
           \/ m.kind = "answer" /\ out' = Call("answer", m.word, m.link, <<>>) /\ Mode' = Reading
           \/ m.kind = "closed" /\ out' = Call("closed", "", m.link, <<>>) /\ Mode' = Reading
           \/ m.kind = "ipd" /\ out' = Call("recv", "", m.link, m.data) /\ Mode' = Reading
           \/ m.kind = "connect" /\ out' = out /\ Mode' = Accepting(m.link, 0)
           \/ m.kind \in {"status", "other"} /\ out' = out /\ Mode' = Reading
    PROVE  Feed!FeedRead(m)
<1>1. ~Mode.accept
  BY ModeIs
<1>2. out' = CASE m.kind = "answer" -> Call("answer", m.word, m.link, <<>>)
               [] m.kind = "closed" -> Call("closed", "", m.link, <<>>)
               [] m.kind = "ipd"    -> Call("recv", "", m.link, m.data)
               [] OTHER             -> out
  BY Zenon
<1>3. Mode' = IF m.kind = "connect" THEN Accepting(m.link, 0) ELSE Reading
  BY Zenon
<1> QED
  BY <1>1, <1>2, <1>3, SameCalls, Zenon DEF Feed!FeedRead, Mode

LEMMA AcceptIs ==
    ASSUME NEW m, st = "accept",
           \/ /\ m.kind = "status" /\ m.link = link
              /\ out' = Call("accept", "", m.link, <<>>)
              /\ Mode' = Accepting(m.link, base + StatusUsed(m))
           \/ /\ m.kind = "answer" /\ m.word \in {"OK", "ERROR"} /\ out' = out /\ Mode' = Reading
           \/ /\ ~(m.kind = "status" /\ m.link = link)
              /\ ~(m.kind = "answer" /\ m.word \in {"OK", "ERROR"})
              /\ out' = out /\ Mode' = Mode
    PROVE  Feed!FeedAccept(m)
<1>1. Mode.accept /\ Mode.link = link /\ Mode.used = base
  BY ModeIs
<1>2. IF m.kind = "status" /\ m.link = Mode.link
      THEN /\ out' = Call("accept", "", m.link, <<>>)
           /\ Mode' = Accepting(m.link, Mode.used + StatusUsed(m))
      ELSE /\ out' = out
           /\ Mode' = IF m.kind = "answer" /\ m.word \in {"OK", "ERROR"} THEN Reading ELSE Mode
  BY <1>1, Zenon
<1> QED
  BY <1>1, <1>2, SameCalls, SameUsed, Zenon DEF Feed!FeedAccept, Mode


\* Data that read_thread or accept takes for something else.
LEMMA DropsData ==
    ASSUME NEW m \in Good, m.kind = "ipd", NEW T, T = Text(m),
           NEW k \in Nat, k >= 10, k < Len(T), T[k + 1] = CR
    PROVE  Contains(m.data, CR)
<1>1. Len(m.data) \in Nat /\ Len(T) = 10 + Len(m.data) /\ \A j \in 1..Len(m.data) : T[10 + j] = m.data[j]
  BY PacketText DEF Good
<1>2. PICK j : j = k - 9
  OBVIOUS
<1>3. j \in 1..Len(m.data) /\ 10 + j = k + 1
  BY <1>1, <1>2
<1>4. m.data[j] = CR
  BY <1>1, <1>3
<1> QED
  BY <1>3, <1>4, Zenon DEF Contains

LEMMA OpenEnd ==
    ASSUME NEW m \in Good, m.kind = "ipd", NEW T, T = Text(m), T[Len(T)] # NL
    PROVE  ~Droppable(m.data)
<1>1. /\ Len(m.data) \in Nat \ {0} /\ Len(T) = 10 + Len(m.data)
      /\ \A j \in 1..Len(m.data) : T[10 + j] = m.data[j]
  BY PacketText DEF Good
<1>2. Len(m.data) \in 1..Len(m.data)
  BY <1>1
<1>3. m.data[Len(m.data)] # NL
  BY <1>1, <1>2
<1> QED
  BY <1>3, Zenon DEF Droppable

LEMMA LooksLike ==
    ASSUME NEW m \in Good, m.kind = "ipd", NEW T, T = Text(m),
           NEW k \in 1..Len(T), Begins(T, k), T[k].c \in Looked
    PROVE  ~Droppable(m.data)
<1>1. /\ Len(m.data) \in Nat \ {0} /\ Len(T) = 10 + Len(m.data)
      /\ \A j \in 1..Len(m.data) : T[10 + j] = m.data[j]
      /\ \A j \in 1..10 : T[j] # NL
  BY PacketText, HeaderPlain DEF Good
<1>2. k # 1
  <2>1. T[1].c = "+IPD"
    BY FirstToken, Zenon
  <2>2. T[1].c \notin Looked
    BY <2>1, Zenon DEF Looked
  <2> QED
    BY <2>2
<1>3. PICK h \in 1..(k - 1) : T[h] = NL /\ Hidden(T, h, k - 1)
  BY <1>2 DEF Begins
<1>4. h > 10 /\ k > h /\ k \in Nat /\ h \in Nat
  <2>1. h \notin 1..10
    BY <1>1, <1>3
  <2> QED
    BY <1>1, <2>1
<1>5. PICK a, b, d : a = h - 10 /\ b = k - 10 /\ d = m.data
  OBVIOUS
<1>6. /\ a \in 1..Len(d) /\ b \in 1..Len(d) /\ a < b /\ h = 10 + a /\ k = 10 + b
      /\ d[a] = NL /\ d[b] = T[k]
  <2>1. a \in 1..Len(d) /\ b \in 1..Len(d) /\ a < b /\ h = 10 + a /\ k = 10 + b
    <3>1. PICK l : l = Len(d)
      OBVIOUS
    <3>2. l \in Nat /\ Len(T) = 10 + l
      BY <1>1, <1>5, <3>1, Zenon
    <3>3. k <= 10 + l
      BY <3>2
    <3>4. a \in 1..l /\ b \in 1..l /\ a < b /\ h = 10 + a /\ k = 10 + b
      BY <1>4, <1>5, <3>2, <3>3
    <3> QED
      BY <3>1, <3>4, Zenon
  <2> QED
    BY <1>1, <1>3, <1>5, <2>1
<1>7. Hidden(d, a, b - 1)
  <2> SUFFICES ASSUME NEW j \in (a + 1)..(b - 1) PROVE d[j] = CR
    BY DEF Hidden
  <2>1. j \in 1..Len(d) /\ 10 + j \in (h + 1)..(k - 1)
    BY <1>1, <1>4, <1>5, <1>6
  <2>2. T[10 + j] = CR
    BY <1>3, <2>1 DEF Hidden
  <2> QED
    BY <1>1, <1>5, <2>1, <2>2
<1>8. d[b].c \in Looked
  BY <1>6
<1>9. ~(\A h1, k1 \in 1..Len(d) :
            h1 < k1 /\ d[h1] = NL /\ Hidden(d, h1, k1 - 1) => d[k1].c \notin Looked)
  BY <1>6, <1>7, <1>8
<1> QED
  BY <1>5, <1>9, Zenon DEF Droppable

\* Where accept goes beyond the buffer.
LEMMA OverrunGarbles ==
    ASSUME IInv, st = "accept", More, Char # CR, Overrun(Char)
    PROVE  base + Shown(Text(Head(rx)), Len(Text(Head(rx)))) > LINE
<1>1. PICK m, T, t : m = Head(rx) /\ T = Text(m) /\ t = Char
  OBVIOUS
<1>2. /\ Types /\ T \in Seq(Tok) /\ Len(T) \in Nat /\ pos \in Nat /\ pos < Len(T)
      /\ t = T[pos + 1] /\ Width(t) \in Nat /\ AcceptPart(m, T, pos, st, line, i)
  BY <1>1, Reads
<1>3. i \in Nat /\ base \in Nat /\ i <= Shown(T, pos)
  BY <1>2 DEF AcceptPart, Types
<1>4. Shown(T, pos + 1) = Shown(T, pos) + Width(t)
  BY <1>1, <1>2, ShownNext
<1>5. Shown(T, pos) \in Nat /\ Shown(T, Len(T)) \in Nat /\ Shown(T, pos + 1) <= Shown(T, Len(T))
  <2>1. Len(T) \in 0..Len(T) /\ pos \in 0..Len(T) /\ pos + 1 \in 0..Len(T)
    BY <1>2
  <2> QED
    BY <1>2, <2>1, ShownGrows
<1>6. base + i + Width(t) > LINE
  BY <1>1 DEF Overrun
<1>7. base + Shown(T, Len(T)) > LINE
  BY <1>2, <1>3, <1>4, <1>5, <1>6 DEF LINE
<1> QED
  BY <1>1, <1>7

\* The line that accept takes for the state of a link or an answer is one,
\* or it begins in the data of a packet.
LEMMA FirstOfLine ==
    ASSUME IInv, st = "accept", More, Char = NL, NEW m, m = Head(rx),
           line # <<>>, line[1].c \in Looked
    PROVE  /\ m.kind = "ipd" => ~Droppable(m.data)
           /\ m.kind # "ipd" => line[1] = Text(m)[1]
<1>1. PICK T : T = Text(m)
  OBVIOUS
<1>2. /\ m \in Good /\ T \in Seq(Tok) /\ Len(T) \in Nat /\ pos \in Nat /\ pos < Len(T)
      /\ AcceptPart(m, T, pos, st, line, i)
  BY <1>1, Reads
<1>3. ASSUME m.kind = "ipd" PROVE ~Droppable(m.data)
  <2>1. PICK k \in 1..pos : T[k] = line[1] /\ Begins(T, k)
    BY <1>2, <1>3 DEF AcceptPart
  <2>2. k \in 1..Len(T) /\ T[k].c \in Looked
    BY <1>2, <2>1
  <2> QED
    BY <1>1, <1>2, <1>3, <2>1, <2>2, LooksLike
<1>4. ASSUME m.kind # "ipd" PROVE line[1] = T[1]
  <2>1. line = SubSeq(T, 1, Len(T) - 2)
    BY <1>1, <1>4, AcceptLine, NLIs
  <2>2. Len(T) - 2 \in Nat /\ Len(T) - 2 < Len(T) /\ 1 \in 1..(Len(T) - 2)
    <3>1. Len(T) >= 3
      BY <1>1, <1>2, GoodText
    <3> QED
      BY <1>2, <3>1
  <2> QED
    BY <1>2, <2>1, <2>2, SubSeqNext
<1> QED
  BY <1>1, <1>3, <1>4

LEMMA StatusFirst == IsStatus => line # <<>> /\ line[1].c = "+CIPSTATUS:" /\ line[1].c \in Looked
  BY Zenon DEF IsStatus, StartsWith, Looked

LEMMA EndFirst ==
    IsEnd => line # <<>> /\ (line[1].c = "OK" \/ line[1].c = "ERROR") /\ line[1].c \in Looked
<1> SUFFICES ASSUME IsEnd
             PROVE  line # <<>> /\ (line[1].c = "OK" \/ line[1].c = "ERROR") /\ line[1].c \in Looked
  OBVIOUS
<1>1. PICK w \in {"OK", "ERROR"} : line = <<Word(w)>>
  BY Zenon DEF IsEnd
<1>2. line # <<>> /\ line[1] = Word(w)
  BY <1>1
<1>3. line[1].c = w
  BY <1>2, WordParts, Zenon DEF IsWord
<1> QED
  BY <1>2, <1>3, Zenon DEF Looked

\* A message is lost only where SerialFeed says so.
LEMMA LoseStep ==
    ASSUME IInv, Next, ~astray, astray'
    PROVE  rx # <<>> /\ Garbling(Head(rx), Mode)
<1>1. TtyDrops \/ Accept
  <2>1. ~ReadThread /\ ~Payload /\ ~Send /\ ~AnswerStatus
    BY DEF ReadThread, Payload, Send, AnswerStatus
  <2> QED
    BY <2>1 DEF Next, Reader
<1>2. More
  BY <1>1 DEF TtyDrops, Accept
<1>3. PICK m, T, t : m = Head(rx) /\ T = Text(m) /\ t = Char
  OBVIOUS
<1>4. /\ Types /\ rx # <<>> /\ m \in Good
      /\ T \in Seq(Tok) /\ Len(T) \in Nat /\ pos \in Nat /\ pos < Len(T) /\ t = T[pos + 1]
      /\ ReadPart(m, T, pos, st, line, i) /\ PayPart(m, pos, st, line, i, link, n, data)
      /\ Advance => \/ pos + 1 < Len(T) /\ rx' = rx /\ pos' = pos + 1
                    \/ pos + 1 = Len(T) /\ rx' = Tail(rx) /\ pos' = 0
  BY <1>2, <1>3, Reads
<1>5. ASSUME pos' = 0, Advance, t # NL, st = "accept"
      PROVE  m.kind = "ipd" /\ ~Droppable(m.data)
  <2>1. pos + 1 = Len(T)
    BY <1>4, <1>5
  <2>2. m.kind = "ipd"
    <3> SUFFICES ASSUME m.kind # "ipd" PROVE FALSE
      OBVIOUS
    <3>1. T[Len(T)] = NL
      BY <1>3, <1>4, LineText DEF Good
    <3> QED
      BY <1>4, <1>5, <2>1, <3>1
  <2>3. T[Len(T)] # NL
    BY <1>4, <1>5, <2>1
  <2> QED
    BY <1>3, <1>4, <2>2, <2>3, OpenEnd
<1>6. CASE TtyDrops
  <2>1. t = CR /\ Advance /\ (st = "payload" \/ pos' = 0)
    BY <1>3, <1>6 DEF TtyDrops
  <2>2. t # NL
    BY <2>1, NLIs
  <2>3. CASE st = "payload"
    <3>1. m.kind = "ipd" /\ pos >= 10
      BY <1>4, <2>3 DEF PayPart
    <3>2. Contains(m.data, CR)
      BY <1>3, <1>4, <2>1, <3>1, DropsData
    <3>3. ~Mode.accept
      BY <2>3, ModeIs
    <3> QED
      BY <1>3, <1>4, <3>1, <3>2, <3>3, Zenon DEF Garbling
  <2>4. CASE st = "accept"
    <3>1. m.kind = "ipd" /\ ~Droppable(m.data)
      BY <1>5, <2>1, <2>2, <2>4
    <3>2. Mode.accept
      BY <2>4, ModeIs
    <3> QED
      BY <1>3, <1>4, <3>1, <3>2, Zenon DEF Garbling
  <2>5. CASE st = "read"
    <3>1. pos' = 0
      BY <2>1, <2>5
    <3>2. pos + 1 = Len(T)
      BY <1>4, <2>1, <3>1
    <3>3. CASE m.kind = "ipd"
      <4>1. pos < 10
        BY <1>4, <2>5, <3>3 DEF ReadPart
      <4> QED
        BY <1>3, <1>4, <2>1, <3>3, <4>1, LineEnds
    <3>4. CASE m.kind # "ipd"
      <4>1. T[Len(T)] = NL
        BY <1>3, <1>4, <3>4, LineText DEF Good
      <4> QED
        BY <1>4, <2>2, <3>2, <4>1
    <3> QED
      BY <3>3, <3>4
  <2> QED
    BY <1>4, <2>3, <2>4, <2>5 DEF Types
<1>7. CASE Accept
  <2>1. st = "accept" /\ t # CR /\ Advance /\ Mode.accept /\ Mode.used = base
    BY <1>3, <1>7, ModeIs DEF Accept
  <2>2. CASE Overrun(t)
    <3>1. base + Shown(T, Len(T)) > LINE
      BY <1>2, <1>3, <2>1, <2>2, OverrunGarbles
    <3> QED
      BY <1>3, <1>4, <2>1, <3>1, Zenon DEF Garbling
  <2>3. CASE m.kind = "ipd" /\ ~Droppable(m.data)
    BY <1>3, <1>4, <2>1, <2>3, Zenon DEF Garbling
  <2>4. CASE ~Overrun(t)
    <3>1. ASSUME AcceptStore(t) PROVE m.kind = "ipd" /\ ~Droppable(m.data)
      <4>1. t # NL /\ pos' = 0
        BY <2>4, <3>1 DEF AcceptStore
      <4> QED
        BY <1>5, <2>1, <4>1
    <3>2. ASSUME AcceptFound(t) PROVE m.kind = "ipd" /\ ~Droppable(m.data)
      <4>1. t = NL /\ IsStatus /\ m.kind # "status"
        BY <1>3, <2>4, <3>2 DEF AcceptFound
      <4>2. /\ m.kind = "ipd" => ~Droppable(m.data)
            /\ m.kind # "ipd" => line[1] = T[1]
        BY <1>2, <1>3, <2>1, <4>1, StatusFirst, FirstOfLine
      <4>3. m.kind = "ipd"
        <5> SUFFICES ASSUME m.kind # "ipd" PROVE FALSE
          OBVIOUS
        <5>1. T[1].c = "+CIPSTATUS:"
          BY <4>1, <4>2, StatusFirst, Zenon
        <5>2. m.kind \in {"answer", "connect", "closed", "ipd", "status", "other"}
          BY <1>4, Kinds, Zenon DEF Good
        <5>3. CASE m.kind = "answer"
          BY <1>3, <1>4, <5>1, <5>3, FirstToken, Zenon
        <5>4. CASE m.kind \in {"connect", "closed"}
          BY <1>3, <1>4, <5>1, <5>4, FirstToken, Zenon
        <5>5. CASE m.kind = "other"
          BY <1>3, <1>4, <5>1, <5>5, FirstToken, Zenon
        <5> QED
          BY <4>1, <5>2, <5>3, <5>4, <5>5, Zenon
      <4> QED
        BY <4>2, <4>3
    <3>3. ASSUME AcceptEnd(t) PROVE m.kind = "ipd" /\ ~Droppable(m.data)
      <4>1. t = NL /\ IsEnd /\ m.kind # "answer"
        BY <1>3, <2>4, <3>3 DEF AcceptEnd
      <4>2. /\ m.kind = "ipd" => ~Droppable(m.data)
            /\ m.kind # "ipd" => line[1] = T[1]
        BY <1>2, <1>3, <2>1, <4>1, EndFirst, FirstOfLine
      <4>3. m.kind = "ipd"
        <5> SUFFICES ASSUME m.kind # "ipd" PROVE FALSE
          OBVIOUS
        <5>1. T[1].c = "OK" \/ T[1].c = "ERROR"
          BY <4>1, <4>2, EndFirst, Zenon
        <5>2. m.kind \in {"answer", "connect", "closed", "ipd", "status", "other"}
          BY <1>4, Kinds, Zenon DEF Good
        <5>3. CASE m.kind = "status"
          BY <1>3, <1>4, <5>1, <5>3, FirstToken, Zenon
        <5>4. CASE m.kind \in {"connect", "closed"}
          BY <1>3, <1>4, <5>1, <5>4, FirstToken, Zenon
        <5>5. CASE m.kind = "other"
          BY <1>3, <1>4, <5>1, <5>5, FirstToken, Zenon
        <5> QED
          BY <4>1, <5>2, <5>3, <5>4, <5>5, Zenon
      <4> QED
        BY <4>2, <4>3
    <3>4. ~AcceptDrop(t)
      BY <2>4 DEF AcceptDrop
    <3>5. AcceptStore(t) \/ AcceptFound(t) \/ AcceptEnd(t) \/ AcceptDrop(t)
      BY <1>3, <1>7 DEF Accept
    <3> QED
      BY <2>3, <3>1, <3>2, <3>3, <3>4, <3>5
  <2> QED
    BY <2>2, <2>4
<1> QED
  BY <1>1, <1>6, <1>7


LEMMA ModeNext ==
    /\ st' = "accept" => Mode' = Accepting(link', base')
    /\ st' # "accept" => Mode' = Reading
  BY DEF Mode

\* A line that read_thread parses leads to what SerialFeed says.
LEMMA ParseLineTakes ==
    ASSUME IInv, st = "read", More, Char # CR, ParseLine(Char), Advance
    PROVE  rx' = Tail(rx) /\ Feed!FeedRead(Head(rx))
<1>1. PICK m, l, len : m = Head(rx) /\ l = Longer(Char) /\ len = LongerI(Char)
  OBVIOUS
<1>2. m.kind # "ipd" /\ rx' = Tail(rx) /\ m \in Good
  BY <1>1, ParseLineStep, Reads
<1>3. /\ Char = NL
      /\ ConnectLine(l, len) \/ PlainLine(l, len)
  BY <1>1, Zenon DEF ParseLine
<1>4. ASSUME ~IsConnect(l, len)
      PROVE  /\ Mode' = Reading
             /\ out' = IF IsClosed(l, len) THEN Call("closed", "", l[1].v, <<>>)
                       ELSE IF IsAnswer(l) THEN Call("answer", l[1].c, 0, <<>>)
                       ELSE out
  <2>1. PlainLine(l, len)
    BY <1>3, <1>4, Zenon DEF ConnectLine
  <2>2. st' = st
    BY <2>1, Zenon DEF PlainLine
  <2>3. st' # "accept"
    BY <2>2
  <2>4. Mode' = Reading
    BY <2>3, ModeNext, Zenon
  <2> QED
    BY <2>1, <2>4, Zenon DEF PlainLine
<1>5. CASE m.kind = "answer"
  <2>1. ~IsConnect(l, len) /\ ~IsClosed(l, len) /\ IsAnswer(l) /\ l[1].c = m.word
    BY <1>1, <1>3, <1>5, AnswerParsed
  <2>2. m.link = 0
    BY <1>2, <1>5, Kinds, Zenon DEF Good
  <2>3. out' = Call("answer", m.word, m.link, <<>>) /\ Mode' = Reading
    BY <1>4, <2>1, <2>2, Zenon
  <2> QED
    BY <1>1, <1>2, <1>5, <2>3, ReadIs
<1>6. CASE m.kind = "connect"
  <2>1. IsConnect(l, len) /\ l[1].v = m.link
    BY <1>1, <1>3, <1>6, LinkParsed
  <2>2. ConnectLine(l, len)
    BY <1>3, <2>1, Zenon DEF PlainLine
  <2>3. link' = m.link /\ st' = "accept" /\ base' = 0 /\ out' = out
    BY <2>1, <2>2, Zenon DEF ConnectLine
  <2>4. Mode' = Accepting(m.link, 0)
    BY <2>3, ModeNext
  <2> QED
    BY <1>1, <1>2, <1>6, <2>3, <2>4, ReadIs
<1>7. CASE m.kind = "closed"
  <2>1. ~IsConnect(l, len) /\ IsClosed(l, len) /\ l[1].v = m.link
    BY <1>1, <1>3, <1>7, LinkParsed
  <2>2. out' = Call("closed", "", m.link, <<>>) /\ Mode' = Reading
    BY <1>4, <2>1, Zenon
  <2> QED
    BY <1>1, <1>2, <1>7, <2>2, ReadIs
<1>8. CASE m.kind = "status" \/ m.kind = "other"
  <2>1. ~IsConnect(l, len) /\ ~IsClosed(l, len) /\ ~IsAnswer(l)
    BY <1>1, <1>3, <1>8, DullParsed
  <2>2. out' = out /\ Mode' = Reading
    BY <1>4, <2>1, Zenon
  <2>3. m.kind \in {"status", "other"}
    BY <1>8
  <2> QED
    BY <1>1, <1>2, <2>2, <2>3, ReadIs
<1>9. m.kind \in {"answer", "connect", "closed", "ipd", "status", "other"}
  BY <1>2, Kinds, Zenon DEF Good
<1> QED
  BY <1>2, <1>5, <1>6, <1>7, <1>8, <1>9

\* What accept does with a token is what SerialFeed says of the message.
LEMMA AcceptTakes ==
    ASSUME IInv, Accept, ~astray'
    PROVE  \/ rx' = rx /\ out' = out /\ Mode' = Mode
           \/ rx # <<>> /\ rx' = Tail(rx) /\ Feed!FeedAccept(Head(rx))
<1>1. /\ st = "accept" /\ More /\ Char # CR /\ link' = link
      /\ AcceptStore(Char) \/ AcceptFound(Char) \/ AcceptEnd(Char) \/ AcceptDrop(Char)
  BY DEF Accept
<1>2. PICK m, T, t : m = Head(rx) /\ T = Text(m) /\ t = Char
  OBVIOUS
<1>3. /\ m \in Good /\ rx # <<>> /\ line \in Seq(Tok) /\ T \in Seq(Tok) /\ Len(T) \in Nat
      /\ Len(T) >= 3
  BY <1>1, <1>2, Reads, GoodText DEF Types
<1>4. ASSUME st' = st, base' = base PROVE Mode' = Mode
  BY <1>1, <1>4 DEF Mode
\* The line at its end.
<1>5. ASSUME t = NL, m.kind # "ipd"
      PROVE  /\ line = SubSeq(T, 1, Len(T) - 2) /\ Len(line) = Len(T) - 2
             /\ \A k \in 1..(Len(T) - 2) : line[k] = T[k]
  <2>1. line = SubSeq(T, 1, Len(T) - 2)
    BY <1>1, <1>2, <1>5, AcceptLine
  <2>2. Len(T) - 2 \in Nat /\ Len(T) - 2 < Len(T)
    BY <1>3
  <2> QED
    BY <1>3, <2>1, <2>2, SubSeqNext
<1>6. CASE AcceptStore(t)
  <2>1. rx' = rx
    BY <1>2, <1>6, AcceptStep
  <2>2. st' = st /\ base' = base /\ out' = out
    BY <1>6 DEF AcceptStore
  <2> QED
    BY <1>4, <2>1, <2>2
<1>7. CASE AcceptFound(t)
  <2>1. m.kind = "status" /\ rx' = Tail(rx)
    BY <1>2, <1>7, AcceptStep
  <2>2. /\ t = NL /\ IsStatus /\ st' = st
        /\ out' = Call("accept", "", link, <<>>)
        /\ base' = base + WidthOf(SubSeq(line, 1, 5))
    BY <1>7 DEF AcceptFound
  <2>3. Len(T) = 10 /\ T[2].v = m.link
    BY <1>2, <1>3, <2>1, FirstToken, Zenon
  <2>4. m.link = link
    <3>1. line[2].v = link
      BY <2>2, Zenon DEF IsStatus
    <3>2. \A k \in 1..(Len(T) - 2) : line[k] = T[k]
      BY <1>5, <2>1, <2>2
    <3>3. Len(T) = 10
      BY <2>3
    <3>4. line[2] = T[2]
      BY <3>2, <3>3
    <3> QED
      BY <2>3, <3>1, <3>4
  <2>5. StatusUsed(m) = WidthOf(SubSeq(line, 1, 5))
    <3>1. line = SubSeq(T, 1, Len(T) - 2)
      BY <1>5, <2>1, <2>2
    <3>2. Len(T) = 10
      BY <2>3
    <3>3. SubSeq(SubSeq(T, 1, 8), 1, 5) = SubSeq(T, 1, 5)
      BY <1>3, <3>2, SubSeqTwice
    <3>4. SubSeq(line, 1, 5) = SubSeq(T, 1, 5)
      BY <3>1, <3>2, <3>3
    <3> QED
      BY <1>2, <3>4, Zenon DEF StatusUsed
  <2>6. Mode' = Accepting(m.link, base + StatusUsed(m))
    BY <1>1, <2>2, <2>4, <2>5, ModeNext
  <2>7. Feed!FeedAccept(m)
    BY <1>1, <2>1, <2>2, <2>4, <2>6, AcceptIs
  <2> QED
    BY <1>2, <1>3, <2>1, <2>7
<1>8. CASE AcceptEnd(t)
  <2>1. m.kind = "answer" /\ rx' = Tail(rx)
    BY <1>2, <1>8, AcceptStep
  <2>2. t = NL /\ IsEnd /\ st' = "read" /\ out' = out
    BY <1>8 DEF AcceptEnd
  <2>3. Mode' = Reading
    BY <2>2, ModeNext
  <2>4. m.word \in {"OK", "ERROR"}
    <3>1. line # <<>> /\ (line[1].c = "OK" \/ line[1].c = "ERROR") /\ line[1].c \in Looked
      BY <2>2, EndFirst
    <3>2. line[1] = T[1]
      BY <1>1, <1>2, <2>1, <2>2, <3>1, FirstOfLine
    <3>3. T[1].c = m.word
      BY <1>2, <1>3, <2>1, FirstToken, Zenon
    <3> QED
      BY <3>1, <3>2, <3>3, Zenon
  <2>5. Feed!FeedAccept(m)
    BY <1>1, <2>1, <2>2, <2>3, <2>4, AcceptIs
  <2> QED
    BY <1>2, <1>3, <2>1, <2>5
<1>9. CASE AcceptDrop(t)
  <2>1. t = NL /\ ~IsStatus /\ ~IsEnd /\ st' = st /\ base' = base /\ out' = out
    BY <1>9 DEF AcceptDrop
  <2>2. Mode' = Mode
    BY <1>4, <2>1
  <2>3. CASE pos' # 0
    <3>1. rx' = rx
      BY <2>3, AcceptStep
    <3> QED
      BY <2>1, <2>2, <3>1
  <2>4. CASE pos' = 0
    <3>1. rx' = Tail(rx)
      BY <2>4, AcceptStep
    <3>2. ~(m.kind = "status" /\ m.link = link)
      <4> SUFFICES ASSUME m.kind = "status", m.link = link PROVE IsStatus
        BY <2>1
      <4>1. Len(T) = 10 /\ T[1].c = "+CIPSTATUS:" /\ T[2].v = m.link
        BY <1>2, <1>3, FirstToken, Zenon
      <4>2. Len(line) = Len(T) - 2 /\ \A k \in 1..(Len(T) - 2) : line[k] = T[k]
        BY <1>5, <2>1
      <4>3. Len(T) = 10
        BY <4>1
      <4>4. line[1] = T[1] /\ line[2] = T[2] /\ line # <<>>
        <5>1. 1 \in 1..(Len(T) - 2) /\ 2 \in 1..(Len(T) - 2) /\ Len(T) - 2 = 8
          BY <4>3
        <5>2. line[1] = T[1] /\ line[2] = T[2]
          BY <4>2, <5>1
        <5>3. Len(line) = 8
          BY <4>2, <5>1
        <5>4. line # <<>>
          <6> SUFFICES ASSUME line = <<>> PROVE FALSE
            OBVIOUS
          <6>1. Len(line) = Len(<<>>)
            OBVIOUS
          <6>2. Len(<<>>) = 0
            OBVIOUS
          <6> QED
            BY <5>3, <6>1, <6>2
        <5> QED
          BY <5>2, <5>4, Zenon
      <4>5. line[1].c = "+CIPSTATUS:" /\ line[2].v = link
        BY <4>1, <4>4, Zenon
      <4> QED
        BY <4>4, <4>5, Zenon DEF IsStatus, StartsWith
    <3>3. ~(m.kind = "answer" /\ m.word \in {"OK", "ERROR"})
      <4> SUFFICES ASSUME m.kind = "answer", m.word \in {"OK", "ERROR"} PROVE IsEnd
        BY <2>1
      <4>1. Len(T) = 3 /\ T[1] = Word(m.word)
        BY <1>2, <1>3, FirstToken, Zenon
      <4>2. Len(line) = Len(T) - 2 /\ \A k \in 1..(Len(T) - 2) : line[k] = T[k]
        BY <1>5, <2>1
      <4>3. Len(line) = 1 /\ line[1] = Word(m.word)
        BY <4>1, <4>2
      <4>4. line = <<Word(m.word)>>
        BY <1>3, <4>3
      <4>5. line = <<Word("OK")>> \/ line = <<Word("ERROR")>>
        BY <4>4, Zenon
      <4> QED
        BY <4>5 DEF IsEnd
    <3>4. Feed!FeedAccept(m)
      BY <1>1, <2>1, <2>2, <3>2, <3>3, AcceptIs
    <3> QED
      BY <1>2, <1>3, <3>1, <3>4
  <2> QED
    BY <2>3, <2>4
<1> QED
  BY <1>1, <1>2, <1>6, <1>7, <1>8, <1>9

\* A step of the reader takes a message or is none of SerialFeed.
LEMMA ReaderStep ==
    ASSUME IInv, Reader, ~astray'
    PROVE  \/ rx' = rx /\ out' = out /\ Mode' = Mode
           \/ /\ rx # <<>> /\ rx' = Tail(rx)
              /\ Feed!FeedRead(Head(rx)) \/ Feed!FeedAccept(Head(rx))
<1>1. CASE TtyDrops
  <2>1. rx' = rx
    BY <1>1, TtyDropsStep
  <2>2. UNCHANGED <<st, base, link, out>>
    BY <1>1 DEF TtyDrops
  <2> QED
    BY <2>1, <2>2 DEF Mode
<1>2. CASE ReadThread
  <2>1. st = "read" /\ More /\ Char # CR /\ Advance
    BY <1>2 DEF ReadThread
  <2>2. Mode = Reading
    BY <2>1, ModeIs
  <2>3. CASE Header(Char)
    <3>1. rx' = rx
      BY <2>1, <2>3, HeaderStep
    <3>2. st' = "payload" /\ out' = out
      BY <2>3 DEF Header
    <3>3. Mode' = Reading
      BY <3>2, ModeNext
    <3> QED
      BY <2>2, <3>1, <3>2, <3>3
  <2>4. CASE ParseLine(Char)
    BY <2>1, <2>4, ParseLineTakes DEF More
  <2>5. CASE Store(Char)
    <3>1. rx' = rx
      BY <2>1, <2>5, StoreStep
    <3>2. st' = st /\ out' = out
      BY <2>5 DEF Store
    <3>3. Mode' = Reading
      BY <2>1, <3>2, ModeNext
    <3> QED
      BY <2>2, <3>1, <3>2, <3>3
  <2> QED
    BY <1>2, <2>3, <2>4, <2>5 DEF ReadThread
<1>3. CASE Payload
  <2>1. st = "payload" /\ rx # <<>>
    BY <1>3 DEF Payload, More
  <2>2. Mode = Reading
    BY <2>1, ModeIs
  <2>3. CASE rx' = rx /\ st' = "payload" /\ out' = out /\ pos' = pos + 1
    <3>1. Mode' = Reading
      BY <2>3, ModeNext
    <3> QED
      BY <2>2, <2>3, <3>1
  <2>4. CASE /\ rx' = Tail(rx) /\ st' = "read" /\ pos' = 0
             /\ out' = Call("recv", "", link, Head(rx).data)
    <3>1. Mode' = Reading
      BY <2>4, ModeNext
    <3>2. Head(rx).kind = "ipd" /\ Head(rx).link = link
      BY <1>3, PayloadStep
    <3>3. Feed!FeedRead(Head(rx))
      BY <2>1, <2>4, <3>1, <3>2, ReadIs
    <3> QED
      BY <2>1, <2>4, <3>3
  <2> QED
    BY <1>3, <2>3, <2>4, PayloadStep
<1>4. CASE Accept
  BY <1>4, AcceptTakes
<1> QED
  BY <1>1, <1>2, <1>3, <1>4 DEF Reader


LEMMA InitFeeds == Init => Feed!FeedInit
<1> SUFFICES ASSUME Init PROVE Feed!FeedInit
  OBVIOUS
<1>1. rx = <<>> /\ st = "read" /\ out = NoCall /\ astray = FALSE
  BY DEF Init
<1>2. Mode = Reading
  BY <1>1, ModeIs
<1> QED
  BY <1>1, <1>2, SameCalls, Zenon DEF Feed!FeedInit, Mode

LEMMA NextFeeds == IInv /\ [Next]_vars => [Feed!FeedNext]_(Feed!feedVars)
<1> SUFFICES ASSUME IInv, [Next]_vars
             PROVE  Feed!FeedNext \/ UNCHANGED Feed!feedVars
  OBVIOUS
<1>1. CASE UNCHANGED vars
  <2>1. rx' = rx /\ out' = out /\ astray' = astray /\ st' = st /\ base' = base /\ link' = link
    BY <1>1 DEF vars
  <2>2. Mode' = Mode
    BY <2>1 DEF Mode
  <2>3. UNCHANGED <<rx, Mode, out, ~astray>>
    BY <2>1, <2>2
  <2> QED
    BY <2>3, SameCalls, Zenon DEF Feed!feedVars, Mode
<1>2. CASE Next
  <2>1. ~astray
    BY <1>2 DEF Next, Reader, TtyDrops, ReadThread, Payload, Accept, Send, AnswerStatus, More
  <2>2. CASE astray'
    <3>1. rx # <<>> /\ Garbling(Head(rx), Mode)
      BY <1>2, <2>1, <2>2, LoseStep
    <3>2. Feed!Garbling(Head(rx), Mode)
      BY <3>1, SameGarbling, Zenon
    <3>3. Feed!FeedLose
      BY <2>1, <2>2, <3>1, <3>2, SameCalls, Zenon DEF Feed!FeedLose, Mode
    <3> QED
      BY <3>3, Zenon DEF Feed!FeedNext
  <2>3. CASE ~astray'
    <3>1. CASE Reader
      <4>1. CASE rx' = rx /\ out' = out /\ Mode' = Mode
        <5>1. (~astray)' = ~astray
          BY <2>1, <2>3
        <5>2. UNCHANGED <<rx, Mode, out, ~astray>>
          BY <4>1, <5>1
        <5> QED
          BY <5>2, SameCalls, Zenon DEF Feed!feedVars, Mode
      <4>2. CASE /\ rx # <<>> /\ rx' = Tail(rx)
                 /\ Feed!FeedRead(Head(rx)) \/ Feed!FeedAccept(Head(rx))
        <5>1. (~astray)' = ~astray
          BY <2>1, <2>3
        <5>2. Feed!FeedTake
          BY <2>1, <4>2, <5>1, Zenon DEF Feed!FeedTake
        <5> QED
          BY <5>2, Zenon DEF Feed!FeedNext
      <4> QED
        BY <2>3, <3>1, <4>1, <4>2, ReaderStep, Zenon
    <3>2. CASE Send \/ AnswerStatus
      <4>1. IsStrictPrefix(rx, rx')
        BY <3>2, SendStep, AnswerStatusStep
      <4>2. UNCHANGED <<st, base, link, out, astray>>
        BY <3>2 DEF Send, AnswerStatus
      <4>3. Mode' = Mode /\ (~astray)' = ~astray
        BY <4>2 DEF Mode
      <4>4. Feed!IsStrictPrefix(rx, rx')
        BY <4>1, SameCalls, Zenon
      <4>5. UNCHANGED <<Mode, out, ~astray>>
        BY <4>2, <4>3
      <4>6. Feed!FeedSend
        BY <2>1, <4>4, <4>5, SameCalls, Zenon DEF Feed!FeedSend, Mode
      <4> QED
        BY <4>6, Zenon DEF Feed!FeedNext
    <3> QED
      BY <1>2, <3>1, <3>2 DEF Next
  <2> QED
    BY <2>2, <2>3
<1> QED
  BY <1>1, <1>2

\* The characters of the terminal become whole messages, one call each at
\* most, in order and with their own link and data (serial.c 133-304,
\* read_thread, parse_line, recv, accept and closed).
THEOREM ImplementsFeed == Spec => FeedRefinement
<1>1. Init => Feed!FeedInit
  BY InitFeeds
<1>2. IInv /\ [Next]_vars => [Feed!FeedNext]_(Feed!feedVars)
  BY NextFeeds
<1> QED
  BY <1>1, <1>2, Invariant, PTL DEF Spec, FeedRefinement, Feed!FeedSpec

=============================================================================

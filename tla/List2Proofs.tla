---------------------------- MODULE List2Proofs ----------------------------
(***************************************************************************)
(* Theorems about List2 for any set of elements and lists of any length.   *)
(***************************************************************************)
EXTENDS List2, SequenceTheorems, FiniteSetTheorems, FunctionTheorems,
        WellFoundedInduction, TLAPS

------------------------------------------------------------------------------
(* The sequence operators, point by point *)

LEMMA InsertAtPoints ==
    ASSUME NEW S, NEW s \in Seq(S), NEW i \in 1..(Len(s) + 1), NEW e \in S
    PROVE  /\ InsertAt(s, i, e) \in Seq(S)
           /\ Len(InsertAt(s, i, e)) = Len(s) + 1
           /\ \A j \in 1..(Len(s) + 1) :
                 InsertAt(s, i, e)[j] =
                   IF j < i THEN s[j] ELSE IF j = i THEN e ELSE s[j - 1]
<1> DEFINE a == SubSeq(s, 1, i - 1)
           b == SubSeq(s, i, Len(s))
<1>1. a \in Seq(S) /\ Len(a) = i - 1 /\ \A j \in 1..(i - 1) : a[j] = s[j]
  OBVIOUS
<1>2. /\ b \in Seq(S) /\ Len(b) = Len(s) - i + 1
      /\ \A j \in 1..(Len(s) - i + 1) : b[j] = s[i + j - 1]
  OBVIOUS
<1>3. InsertAt(s, i, e) = (a \o <<e>>) \o b
  BY DEF InsertAt
<1> HIDE DEF a, b
<1>4. /\ a \o <<e>> \in Seq(S) /\ Len(a \o <<e>>) = i
      /\ \A j \in 1..i : (a \o <<e>>)[j] = IF j < i THEN s[j] ELSE e
  BY <1>1
<1> DEFINE c == a \o <<e>>
<1> HIDE DEF c
<1>5. /\ c \in Seq(S) /\ Len(c) = i
      /\ \A j \in 1..i : c[j] = IF j < i THEN s[j] ELSE e
  BY <1>4 DEF c
<1>6. InsertAt(s, i, e) = c \o b
  BY <1>3 DEF c
<1>7. c \o b \in Seq(S) /\ Len(c \o b) = Len(s) + 1
  <2>1. c \o b \in Seq(S) /\ Len(c \o b) = Len(c) + Len(b)
    BY <1>5, <1>2, ConcatProperties
  <2>2. Len(s) \in Nat /\ i \in Nat
    OBVIOUS
  <2> QED
    BY <2>1, <2>2, <1>5, <1>2
<1>8. \A j \in 1..(Len(s) + 1) :
        (c \o b)[j] = IF j < i THEN s[j] ELSE IF j = i THEN e ELSE s[j - 1]
  BY <1>5, <1>2
<1> QED
  BY <1>6, <1>7, <1>8

LEMMA RemoveAtPoints ==
    ASSUME NEW S, NEW s \in Seq(S), NEW i \in 1..Len(s)
    PROVE  /\ RemoveAt(s, i) \in Seq(S)
           /\ Len(RemoveAt(s, i)) = Len(s) - 1
           /\ \A j \in 1..(Len(s) - 1) :
                 RemoveAt(s, i)[j] = IF j < i THEN s[j] ELSE s[j + 1]
<1> DEFINE a == SubSeq(s, 1, i - 1)
           b == SubSeq(s, i + 1, Len(s))
<1>1. a \in Seq(S) /\ Len(a) = i - 1 /\ \A j \in 1..(i - 1) : a[j] = s[j]
  OBVIOUS
<1>2. /\ b \in Seq(S) /\ Len(b) = Len(s) - i
      /\ \A j \in 1..(Len(s) - i) : b[j] = s[i + j]
  OBVIOUS
<1>3. RemoveAt(s, i) = a \o b
  BY DEF RemoveAt
<1> HIDE DEF a, b
<1>4. a \o b \in Seq(S) /\ Len(a \o b) = Len(s) - 1
  <2>1. a \o b \in Seq(S) /\ Len(a \o b) = Len(a) + Len(b)
    BY <1>1, <1>2, ConcatProperties
  <2>2. Len(s) \in Nat /\ i \in Nat
    OBVIOUS
  <2> QED
    BY <2>1, <2>2, <1>1, <1>2
<1>5. \A j \in 1..(Len(s) - 1) :
        (a \o b)[j] = IF j < i THEN s[j] ELSE s[j + 1]
  BY <1>1, <1>2
<1> QED
  BY <1>3, <1>4, <1>5

------------------------------------------------------------------------------
(* The operations.  Each lemma says what an operation makes of the pointers *)
(* of a linked list; memory and the sequence are first described point by   *)
(* point, then compared.                                                    *)

\* TypeOK without the position of head, which follows from Linked.
Types ==
    /\ prev \in [El -> Ptr]
    /\ next \in [El -> Ptr]
    /\ list \in Seq(El)
    /\ looping \in BOOLEAN
    /\ el \in Ptr
    /\ nx \in Ptr
    /\ todo \in Seq(El)

LEMMA TypesLinkedTyped ==
    ASSUME Types, Linked
    PROVE  TypeOK
<1>1. CASE list = <<>>
  BY <1>1 DEF Types, Linked, TypeOK
<1>2. CASE list # <<>>
  <2>1. 1 \in DOMAIN list
    BY <1>2 DEF Types
  <2>2. head = list[1]
    BY <1>2 DEF Linked
  <2> QED
    BY <1>2, <2>1, <2>2 DEF Types, TypeOK, Members
<1> QED
  BY <1>1, <1>2

\* What the operations rely on: Linked, and that elements are not null.
Shape ==
    /\ Len(list) \in Nat
    /\ \A i \in 1..Len(list) : list[i] \in El /\ list[i] # Null
    /\ \A i, j \in 1..Len(list) : list[i] = list[j] => i = j
    /\ \A i \in 1..(Len(list) - 1) : next[list[i]] = list[i + 1]
    /\ \A i \in 2..Len(list) : prev[list[i]] = list[i - 1]
    /\ head = Null <=> Len(list) = 0
    /\ Len(list) # 0 => /\ head = list[1]
                        /\ head \in El
                        /\ list[Len(list)] \in El
                        /\ prev[head] = list[Len(list)]
                        /\ next[list[Len(list)]] = Null

LEMMA ShapeOfList ==
    ASSUME Types, Linked
    PROVE  Shape
<1>1. Len(list) \in Nat
  BY DEF Types
<1>2. \A i \in 1..Len(list) : list[i] \in El /\ list[i] # Null
  BY NullAssumption DEF Types
<1>3. Len(list) = 0 <=> list = <<>>
  BY DEF Types
<1>4. Len(list) # 0 => /\ list[1] \in El /\ list[1] # Null
                       /\ list[Len(list)] \in El
  BY <1>1, <1>2
<1> QED
  BY <1>1, <1>2, <1>3, <1>4 DEF Shape, Linked

LEMMA AddHeadLinks ==
    ASSUME Types, Linked, NEW e \in El, AddHead(e)
    PROVE  Types' /\ Linked'
<1> DEFINE n == Len(list)
<1>0. Shape
  BY ShapeOfList
<1>1. /\ list' \in Seq(El) /\ Len(list') = n + 1
      /\ list'[1] = e
      /\ \A i \in 2..(n + 1) : list'[i] = list[i - 1]
  BY DEF Types, AddHead
<1>2. \A i \in 1..n : list[i] # e
  BY DEF AddHead, MayAdd, Members, Types
<1>3. head # e
  BY <1>0, <1>2, NullAssumption DEF Shape
<1>4. next' \in [El -> Ptr] /\ prev' \in [El -> Ptr]
  BY <1>0 DEF Types, AddHead, Ptr, Shape
<1>5. next'[e] = head /\ \A x \in El \ {e} : next'[x] = next[x]
  BY DEF Types, AddHead
<1>6. /\ prev'[e] = IF head = Null THEN e ELSE list[n]
      /\ head # Null => prev'[head] = e
      /\ \A x \in El \ {e, head} : prev'[x] = prev[x]
  BY <1>0, <1>3 DEF Types, AddHead, Shape
<1>7. Types'
  BY <1>1, <1>4 DEF Types, AddHead, loop, Ptr
<1>8. head' = list'[1]
  BY <1>1 DEF AddHead
<1>9. \A i, j \in 1..(n + 1) : list'[i] = list'[j] => i = j
  <2>1. \A i \in 2..(n + 1) : i - 1 \in 1..n /\ list'[i] # e
    BY <1>0, <1>1, <1>2 DEF Shape
  <2>2. \A i, j \in 2..(n + 1) : list'[i] = list'[j] => i = j
    <3> SUFFICES ASSUME NEW i \in 2..(n + 1), NEW j \in 2..(n + 1),
                        list'[i] = list'[j]
                 PROVE  i = j
      OBVIOUS
    <3>1. list[i - 1] = list[j - 1] /\ i - 1 \in 1..n /\ j - 1 \in 1..n
      BY <1>1, <2>1
    <3>2. i - 1 = j - 1
      BY <3>1, <1>0 DEF Shape
    <3> QED
      BY <3>2
  <2>3. \A i \in 1..(n + 1) : i = 1 \/ i \in 2..(n + 1)
    BY <1>0 DEF Shape
  <2> QED
    BY <1>1, <2>1, <2>2, <2>3
<1>10. \A i \in 1..n : next'[list'[i]] = list'[i + 1]
  <2> TAKE i \in 1..n
  <2>1. CASE i = 1
    BY <2>1, <1>0, <1>1, <1>5 DEF Shape
  <2>2. CASE i # 1
    <3>1. i \in 2..(n + 1) /\ i - 1 \in 1..(n - 1) /\ i + 1 \in 2..(n + 1)
      BY <2>2, <1>0 DEF Shape
    <3>2. list'[i] = list[i - 1] /\ list'[i + 1] = list[i]
      BY <3>1, <1>0, <1>1 DEF Shape
    <3> QED
      BY <3>1, <3>2, <1>0, <1>2, <1>5 DEF Shape
  <2> QED
    BY <2>1, <2>2
<1>11. next'[list'[n + 1]] = Null
  BY <1>0, <1>1, <1>2, <1>5 DEF Shape
<1>12. \A i \in 2..(n + 1) : prev'[list'[i]] = list'[i - 1]
  BY <1>0, <1>1, <1>2, <1>6 DEF Shape
<1>13. prev'[list'[1]] = list'[n + 1]
  BY <1>0, <1>1, <1>2, <1>6 DEF Shape
<1>14. n \in Nat /\ list' # <<>>
  BY <1>0, <1>1 DEF Shape
<1>15. Linked'
  BY <1>1, <1>8, <1>9, <1>10, <1>11, <1>12, <1>13, <1>14 DEF Linked
<1> QED
  BY <1>7, <1>15

LEMMA AddTailLinks ==
    ASSUME Types, Linked, NEW e \in El, AddTail(e)
    PROVE  Types' /\ Linked'
<1> DEFINE n == Len(list)
<1>0. Shape
  BY ShapeOfList
<1>1. /\ list' \in Seq(El) /\ Len(list') = n + 1
      /\ list'[n + 1] = e
      /\ \A i \in 1..n : list'[i] = list[i]
  BY DEF Types, AddTail
<1>2. \A i \in 1..n : list[i] # e
  BY DEF AddTail, MayAdd, Members, Types
<1>3. head # e
  BY <1>0, <1>2, NullAssumption DEF Shape
<1>4. next' \in [El -> Ptr] /\ prev' \in [El -> Ptr]
  <2>1. next' \in [El -> Ptr]
    BY DEF Types, AddTail, Ptr
  <2>2. head # Null => prev[head] \in Ptr
    BY <1>0 DEF Types, Shape
  <2>3. prev' \in [El -> Ptr]
    BY <2>2 DEF Types, AddTail, Ptr
  <2> QED
    BY <2>1, <2>3
<1>5. /\ next'[e] = Null
      /\ n # 0 => next'[list[n]] = e
      /\ \A x \in El : x # e /\ (n # 0 => x # list[n]) => next'[x] = next[x]
  BY <1>0, <1>2 DEF Types, AddTail, Shape
<1>6. /\ prev'[e] = IF n = 0 THEN e ELSE list[n]
      /\ n # 0 => prev'[head] = e
      /\ \A x \in El \ {e, head} : prev'[x] = prev[x]
  BY <1>0, <1>3 DEF Types, AddTail, Shape
<1>7. Types'
  BY <1>1, <1>4 DEF Types, AddTail, loop, Ptr
<1>8. head' = list'[1]
  BY <1>0, <1>1 DEF AddTail, Shape
<1>9. \A i, j \in 1..(n + 1) : list'[i] = list'[j] => i = j
  BY <1>0, <1>1, <1>2 DEF Shape
<1>10. \A i \in 1..n : next'[list'[i]] = list'[i + 1]
  BY <1>0, <1>1, <1>2, <1>5 DEF Shape
<1>11. next'[list'[n + 1]] = Null
  BY <1>0, <1>1, <1>5 DEF Shape
<1>12. \A i \in 2..(n + 1) : prev'[list'[i]] = list'[i - 1]
  <2> TAKE i \in 2..(n + 1)
  <2>1. CASE i = n + 1
    BY <2>1, <1>0, <1>1, <1>6 DEF Shape
  <2>2. CASE i # n + 1
    <3>1. i \in 2..n /\ i - 1 \in 1..n
      BY <2>2, <1>0 DEF Shape
    <3>2. list[i] # head /\ list[i] # e
      BY <3>1, <1>0, <1>2 DEF Shape
    <3> QED
      BY <3>1, <3>2, <1>0, <1>1, <1>6 DEF Shape
  <2> QED
    BY <2>1, <2>2
<1>13. prev'[list'[1]] = list'[n + 1]
  BY <1>0, <1>1, <1>2, <1>6 DEF Shape
<1>14. n \in Nat /\ list' # <<>>
  BY <1>0, <1>1 DEF Shape
<1>15. Linked'
  BY <1>1, <1>8, <1>9, <1>10, <1>11, <1>12, <1>13, <1>14 DEF Linked
<1> QED
  BY <1>7, <1>15

LEMMA AddInLinks ==
    ASSUME Types, Linked, NEW e \in El, NEW front \in El, NEW back \in El,
           AddIn(e, front, back)
    PROVE  Types' /\ Linked'
<1> DEFINE n == Len(list)
<1>0. Shape
  BY ShapeOfList
<1>1. PICK i \in 2..n : /\ front = list[i - 1]
                        /\ back = list[i]
                        /\ list' = InsertAt(list, i, e)
  BY DEF AddIn
<1>2. i \in 1..n /\ i - 1 \in 1..(n - 1) /\ n \in Nat /\ i \in Nat
  BY <1>0 DEF Shape
<1>3. /\ list' \in Seq(El) /\ Len(list') = n + 1
      /\ \A j \in 1..(n + 1) :
            list'[j] = IF j < i THEN list[j] ELSE IF j = i THEN e ELSE list[j - 1]
  <2>1. list \in Seq(El) /\ i \in 1..(Len(list) + 1)
    BY <1>2 DEF Types
  <2>2. InsertAt(list, i, e) \in Seq(El) /\ Len(InsertAt(list, i, e)) = n + 1
    BY <2>1, InsertAtPoints
  <2>3. \A j \in 1..(n + 1) :
          InsertAt(list, i, e)[j] =
            IF j < i THEN list[j] ELSE IF j = i THEN e ELSE list[j - 1]
    BY <2>1, InsertAtPoints
  <2> QED
    BY <2>2, <2>3, <1>1
<1>4. \A j \in 1..n : list[j] # e
  BY DEF AddIn, MayAdd, Members, Types
<1>17. front # e /\ back # e
  BY <1>1, <1>2, <1>4
<1>5. /\ next' \in [El -> Ptr]
      /\ next'[e] = list[i] /\ next'[list[i - 1]] = e
      /\ \A x \in El \ {e, list[i - 1]} : next'[x] = next[x]
  BY <1>1, <1>17 DEF Types, AddIn, Ptr
<1>6. /\ prev' \in [El -> Ptr]
      /\ prev'[e] = list[i - 1] /\ prev'[list[i]] = e
      /\ \A x \in El \ {e, list[i]} : prev'[x] = prev[x]
  BY <1>1, <1>17 DEF Types, AddIn, Ptr
<1>7. head' = head
  BY DEF AddIn
<1>8. Types'
  BY <1>3, <1>5, <1>6 DEF Types, AddIn, loop, Ptr
<1>9. /\ \A j \in 1..(i - 1) : j \in 1..n /\ list'[j] = list[j]
      /\ list'[i] = e
      /\ \A j \in (i + 1)..(n + 1) : j - 1 \in i..n /\ list'[j] = list[j - 1]
  <2>1. \A j \in 1..(i - 1) : j \in 1..n /\ j \in 1..(n + 1) /\ j < i
    BY <1>2
  <2>2. i \in 1..(n + 1)
    BY <1>2
  <2>3. \A j \in (i + 1)..(n + 1) :
          j - 1 \in i..n /\ j \in 1..(n + 1) /\ ~(j < i) /\ j # i
    BY <1>2
  <2> QED
    BY <2>1, <2>2, <2>3, <1>3
<1>10. \A j, k \in 1..(n + 1) : list'[j] = list'[k] => j = k
  <2> SUFFICES ASSUME NEW j \in 1..(n + 1), NEW k \in 1..(n + 1),
                      list'[j] = list'[k], j < k
               PROVE  FALSE
    BY <1>2
  <2>1. CASE j < i /\ k < i
    BY <2>1, <1>0, <1>2, <1>9 DEF Shape
  <2>2. CASE j < i /\ k = i
    BY <2>2, <1>2, <1>4, <1>9
  <2>3. CASE j < i /\ k > i
    <3>0. j \in 1..(i - 1) /\ k \in (i + 1)..(n + 1) /\ i >= 1
      BY <2>3, <1>2
    <3>1. /\ j \in 1..n /\ k - 1 \in 1..n /\ j # k - 1
          /\ list'[j] = list[j] /\ list'[k] = list[k - 1]
      BY <3>0, <1>2, <1>9
    <3> QED
      BY <3>1, <1>0 DEF Shape
  <2>4. CASE j = i
    <3>1. k - 1 \in 1..n /\ list'[k] = list[k - 1]
      BY <2>4, <1>2, <1>9
    <3> QED
      BY <3>1, <2>4, <1>4, <1>9
  <2>5. CASE j > i
    <3>0. j \in (i + 1)..(n + 1) /\ k \in (i + 1)..(n + 1) /\ i >= 1
      BY <2>5, <1>2
    <3>1. j - 1 \in 1..n /\ k - 1 \in 1..n /\ j - 1 # k - 1
      BY <3>0, <1>2
    <3>2. list'[j] = list[j - 1] /\ list'[k] = list[k - 1]
      BY <3>0, <1>9
    <3> QED
      BY <3>1, <3>2, <1>0 DEF Shape
  <2> QED
    BY <2>1, <2>2, <2>3, <2>4, <2>5, <1>2
<1>11. \A j \in 1..n : next'[list'[j]] = list'[j + 1]
  <2> TAKE j \in 1..n
  <2>1. CASE j < i - 1
    <3>0. j \in 1..(i - 1) /\ j + 1 \in 1..(i - 1)
      BY <2>1, <1>2
    <3>1. /\ j \in 1..(n - 1) /\ j # i - 1
          /\ list'[j] = list[j] /\ list'[j + 1] = list[j + 1]
      BY <2>1, <3>0, <1>2, <1>9
    <3>2. list[j] # e /\ list[j] # list[i - 1]
      BY <3>1, <1>0, <1>2, <1>4 DEF Shape
    <3> QED
      BY <3>1, <3>2, <1>0, <1>5 DEF Shape
  <2>2. CASE j = i - 1 \/ j = i
    BY <2>2, <1>2, <1>5, <1>9
  <2>3. CASE j > i
    <3>0. /\ j \in (i + 1)..(n + 1) /\ j + 1 \in (i + 1)..(n + 1)
          /\ (j + 1) - 1 = j /\ (j - 1) + 1 = j
      BY <2>3, <1>2
    <3>1. /\ j - 1 \in 1..(n - 1) /\ list'[j] = list[j - 1] /\ list'[j + 1] = list[j]
          /\ j - 1 # i - 1
      BY <3>0, <2>3, <1>2, <1>9
    <3>2. list[j - 1] # e /\ list[j - 1] # list[i - 1]
      BY <3>1, <1>0, <1>2, <1>4 DEF Shape
    <3> QED
      BY <3>1, <3>2, <1>0, <1>2, <1>5 DEF Shape
  <2> QED
    BY <2>1, <2>2, <2>3, <1>2
<1>12. next'[list'[n + 1]] = Null
  <2>1. list'[n + 1] = list[n] /\ n \in 1..n /\ n # i - 1
    BY <1>2, <1>9
  <2>2. list[n] # e /\ list[n] # list[i - 1]
    BY <2>1, <1>0, <1>2, <1>4 DEF Shape
  <2> QED
    BY <2>1, <2>2, <1>0, <1>5 DEF Shape
<1>13. \A j \in 2..(n + 1) : prev'[list'[j]] = list'[j - 1]
  <2> TAKE j \in 2..(n + 1)
  <2>1. CASE j < i
    <3>1. /\ j \in 2..n /\ j # i
          /\ list'[j] = list[j] /\ list'[j - 1] = list[j - 1]
      BY <2>1, <1>2, <1>9
    <3>2. list[j] # e /\ list[j] # list[i]
      BY <3>1, <1>0, <1>2, <1>4 DEF Shape
    <3> QED
      BY <3>1, <3>2, <1>0, <1>6 DEF Shape
  <2>2. CASE j = i \/ j = i + 1
    BY <2>2, <1>2, <1>6, <1>9
  <2>3. CASE j > i + 1
    <3>1. /\ j - 1 \in 2..n /\ list'[j] = list[j - 1] /\ list'[j - 1] = list[j - 2]
          /\ j - 1 # i
      BY <2>3, <1>2, <1>9
    <3>2. list[j - 1] # e /\ list[j - 1] # list[i]
      BY <3>1, <1>0, <1>2, <1>4 DEF Shape
    <3>3. prev'[list[j - 1]] = list[j - 2]
      <4>1. prev[list[j - 1]] = list[(j - 1) - 1]
        BY <3>1, <1>0 DEF Shape
      <4>2. (j - 1) - 1 = j - 2 /\ j - 1 \in 1..n
        BY <3>1, <1>2
      <4>3. list[j - 1] \in El
        BY <4>2, <1>0 DEF Shape
      <4> QED
        BY <4>1, <4>2, <4>3, <3>2, <1>6
    <3> QED
      BY <3>1, <3>3
  <2> QED
    BY <2>1, <2>2, <2>3, <1>2
<1>14. head' = list'[1] /\ prev'[list'[1]] = list'[n + 1]
  <2>1. list'[1] = list[1] /\ list'[n + 1] = list[n]
    BY <1>2, <1>9
  <2>2. list[1] # e /\ list[1] # list[i]
    BY <1>0, <1>2, <1>4 DEF Shape
  <2> QED
    BY <2>1, <2>2, <1>0, <1>2, <1>6, <1>7 DEF Shape
<1>15. n \in Nat /\ list' # <<>>
  BY <1>2, <1>3
<1>16. Linked'
  BY <1>3, <1>10, <1>11, <1>12, <1>13, <1>14, <1>15 DEF Linked
<1> QED
  BY <1>8, <1>16

\* list_rm, whatever becomes of the pointers of the element itself.
LEMMA RemoveLinks ==
    ASSUME Types, Linked, NEW i \in 1..Len(list),
           list' = RemoveAt(list, i),
           head' = HeadWithout(list[i]),
           \A x \in El \ {list[i]} : /\ next'[x] = NextWithout(list[i])[x]
                                     /\ prev'[x] = PrevWithout(list[i])[x]
    PROVE  list' \in Seq(El) /\ Linked'
<1> DEFINE n == Len(list)
           e == list[i]
<1>0. Shape
  BY ShapeOfList
<1>1. n \in Nat /\ n # 0 /\ i \in Nat /\ 1 <= i /\ i <= n /\ e \in El /\ e # Null
  BY <1>0 DEF Shape
<1>2. /\ list' \in Seq(El) /\ Len(list') = n - 1
      /\ \A j \in 1..(n - 1) : list'[j] = IF j < i THEN list[j] ELSE list[j + 1]
  BY RemoveAtPoints DEF Types
<1>3. /\ \A j \in 1..(i - 1) : j \in 1..n /\ list'[j] = list[j]
      /\ \A j \in i..(n - 1) : j + 1 \in 1..n /\ list'[j] = list[j + 1]
  <2>1. \A j \in 1..(i - 1) : j \in 1..n /\ j \in 1..(n - 1) /\ j < i
    BY <1>1
  <2>2. \A j \in i..(n - 1) : j + 1 \in 1..n /\ j \in 1..(n - 1) /\ ~(j < i)
    BY <1>1
  <2> QED
    BY <2>1, <2>2, <1>2
<1>4. /\ i > 1 => /\ e # head /\ prev[e] = list[i - 1]
                 /\ list[i - 1] \in El \ {e}
      /\ i = 1 => e = head /\ prev[e] = list[n]
      /\ i < n => /\ next[e] = list[i + 1]
                 /\ list[i + 1] \in El \ {e} /\ next[e] # Null
      /\ i = n => next[e] = Null
  <2>1. i > 1 => i - 1 \in 1..n /\ i \in 2..n /\ i - 1 # i
    BY <1>1
  <2>2. i < n => i + 1 \in 1..n /\ i \in 1..(n - 1) /\ i + 1 # i
    BY <1>1
  <2>3. 1 \in 1..n
    BY <1>1
  <2> QED
    BY <2>1, <2>2, <2>3, <1>0, <1>1 DEF Shape
<1>5. /\ i > 1 => next'[list[i - 1]] = next[e]
      /\ \A x \in El \ {e} : (i > 1 => x # list[i - 1]) => next'[x] = next[x]
  BY <1>1, <1>4 DEF NextWithout, Types
<1>6. /\ i < n => prev'[list[i + 1]] = prev[e]
      /\ i = n /\ n > 1 => prev'[head] = prev[e]
      /\ \A x \in El \ {e} : x # (IF i < n THEN list[i + 1] ELSE head)
                             => prev'[x] = prev[x]
  BY <1>0, <1>1, <1>4 DEF PrevWithout, Types, Shape
<1>7. head' = IF i = 1 THEN next[e] ELSE head
  BY <1>1, <1>4 DEF HeadWithout
<1>8. \A j, k \in 1..(n - 1) : list'[j] = list'[k] => j = k
  <2> SUFFICES ASSUME NEW j \in 1..(n - 1), NEW k \in 1..(n - 1),
                      list'[j] = list'[k], j < k
               PROVE  FALSE
    BY <1>1
  <2>1. CASE k < i
    BY <2>1, <1>0, <1>1, <1>3 DEF Shape
  <2>2. CASE j < i /\ k >= i
    <3>1. j \in 1..n /\ k + 1 \in 1..n /\ j # k + 1 /\ list[j] = list[k + 1]
      BY <2>2, <1>1, <1>3
    <3> QED
      BY <3>1, <1>0 DEF Shape
  <2>3. CASE j >= i
    <3>1. j + 1 \in 1..n /\ k + 1 \in 1..n /\ j + 1 # k + 1 /\ list[j + 1] = list[k + 1]
      BY <2>3, <1>1, <1>3
    <3> QED
      BY <3>1, <1>0 DEF Shape
  <2> QED
    BY <2>1, <2>2, <2>3, <1>1
<1>9. \A j \in 1..(n - 2) : next'[list'[j]] = list'[j + 1]
  <2> TAKE j \in 1..(n - 2)
  <2>1. CASE j < i - 1
    <3>1. j \in 1..(i - 1) /\ j + 1 \in 1..(i - 1) /\ j \in 1..(n - 1) /\ j # i /\ j # i - 1
          /\ i - 1 \in 1..n /\ j \in 1..n
      BY <2>1, <1>1
    <3>2. list'[j] = list[j] /\ list'[j + 1] = list[j + 1]
      BY <3>1, <1>3
    <3>3. list[j] \in El \ {e} /\ list[j] # list[i - 1]
      BY <3>1, <1>0 DEF Shape
    <3>4. next[list[j]] = list[j + 1]
      BY <3>1, <1>0 DEF Shape
    <3> QED
      BY <3>2, <3>3, <3>4, <1>5
  <2>2. CASE j = i - 1
    <3>1. i > 1 /\ i < n /\ j \in 1..(i - 1) /\ i \in i..(n - 1) /\ j + 1 = i
      BY <2>2, <1>1
    <3> QED
      BY <2>2, <3>1, <1>3, <1>4, <1>5
  <2>3. CASE j >= i
    <3>1. /\ j \in i..(n - 1) /\ j + 1 \in i..(n - 1)
          /\ j + 1 \in 1..(n - 1) /\ j + 1 # i /\ j + 1 \in 1..n
          /\ i > 1 => i - 1 \in 1..n /\ i - 1 # j + 1
      BY <2>3, <1>1
    <3>2. list'[j] = list[j + 1] /\ list'[j + 1] = list[(j + 1) + 1]
      BY <3>1, <1>3
    <3>3. list[j + 1] \in El \ {e} /\ (i > 1 => list[j + 1] # list[i - 1])
      BY <3>1, <1>0 DEF Shape
    <3>4. next[list[j + 1]] = list[(j + 1) + 1]
      BY <3>1, <1>0 DEF Shape
    <3> QED
      BY <3>2, <3>3, <3>4, <1>5
  <2> QED
    BY <2>1, <2>2, <2>3, <1>1
<1>10. n > 1 => next'[list'[n - 1]] = Null
  <2>1. CASE i = n /\ n > 1
    <3>1. n - 1 \in 1..(i - 1)
      BY <2>1, <1>1
    <3> QED
      BY <3>1, <2>1, <1>3, <1>4, <1>5
  <2>2. CASE i < n
    <3>1. n - 1 \in i..(n - 1) /\ n \in 1..n /\ (n - 1) + 1 = n
          /\ i > 1 => i - 1 \in 1..n /\ i - 1 # n
      BY <2>2, <1>1
    <3>2. list[n] \in El \ {e} /\ (i > 1 => list[n] # list[i - 1])
      BY <3>1, <2>2, <1>0 DEF Shape
    <3> QED
      BY <3>1, <3>2, <1>0, <1>3, <1>5, <1>1 DEF Shape
  <2> QED
    BY <2>1, <2>2, <1>1
<1>11. \A j \in 2..(n - 1) : prev'[list'[j]] = list'[j - 1]
  <2> TAKE j \in 2..(n - 1)
  <2>1. CASE j < i
    <3>1. /\ j \in 1..(i - 1) /\ j - 1 \in 1..(i - 1) /\ j \in 2..n /\ j \in 1..n
          /\ j # i /\ j # 1 /\ 1 \in 1..n
          /\ i < n => i + 1 \in 1..n /\ j # i + 1
      BY <2>1, <1>1
    <3>2. list'[j] = list[j] /\ list'[j - 1] = list[j - 1]
      BY <3>1, <1>3
    <3>3. list[j] \in El \ {e} /\ list[j] # (IF i < n THEN list[i + 1] ELSE head)
      BY <3>1, <1>0, <1>1 DEF Shape
    <3> QED
      BY <3>1, <3>2, <3>3, <1>0, <1>6 DEF Shape
  <2>2. CASE j = i
    <3>1. i > 1 /\ i < n /\ j \in i..(n - 1) /\ j - 1 \in 1..(i - 1) /\ j - 1 = i - 1
      BY <2>2, <1>1
    <3> QED
      BY <2>2, <3>1, <1>3, <1>4, <1>6
  <2>3. CASE j > i
    <3>1. /\ j \in i..(n - 1) /\ j - 1 \in i..(n - 1) /\ (j - 1) + 1 = j
          /\ j + 1 \in 2..n /\ j + 1 \in 1..n /\ (j + 1) - 1 = j
          /\ j + 1 # i /\ j + 1 # i + 1 /\ i < n /\ i + 1 \in 1..n
      BY <2>3, <1>1
    <3>2. list'[j] = list[j + 1] /\ list'[j - 1] = list[j]
      BY <3>1, <1>3
    <3>3. list[j + 1] \in El \ {e} /\ list[j + 1] # list[i + 1]
      BY <3>1, <1>0, <1>1 DEF Shape
    <3>4. prev[list[j + 1]] = list[j]
      BY <3>1, <1>0 DEF Shape
    <3> QED
      BY <3>1, <3>2, <3>3, <3>4, <1>6
  <2> QED
    BY <2>1, <2>2, <2>3, <1>1
<1>12. n > 1 => head' = list'[1] /\ prev'[head'] = list'[n - 1]
  <2>1. CASE i = 1 /\ n > 1
    <3>1. 1 \in i..(n - 1) /\ n - 1 \in i..(n - 1) /\ (n - 1) + 1 = n /\ i < n
      BY <2>1, <1>1
    <3> QED
      BY <2>1, <3>1, <1>3, <1>4, <1>6, <1>7
  <2>2. CASE i > 1 /\ i < n
    <3>1. /\ 1 \in 1..(i - 1) /\ n - 1 \in i..(n - 1) /\ (n - 1) + 1 = n
          /\ 1 \in 1..n /\ i + 1 \in 1..n /\ 1 # i + 1 /\ i # 1
      BY <2>2, <1>1
    <3>2. head = list[1] /\ head \in El \ {e} /\ head # list[i + 1] /\ prev[head] = list[n]
      BY <3>1, <1>0, <1>1 DEF Shape
    <3>3. list'[1] = list[1] /\ list'[n - 1] = list[n]
      BY <3>1, <1>3
    <3>4. head' = head
      BY <2>2, <1>7
    <3>5. prev'[head] = prev[head]
      BY <2>2, <3>2, <1>6
    <3> QED
      BY <3>2, <3>3, <3>4, <3>5
  <2>3. CASE i = n /\ n > 1
    <3>1. 1 \in 1..(i - 1) /\ n - 1 \in 1..(i - 1) /\ i > 1
      BY <2>3, <1>1
    <3>2. head = list[1]
      BY <1>0, <1>1 DEF Shape
    <3> QED
      BY <2>3, <3>1, <3>2, <1>3, <1>4, <1>6, <1>7
  <2> QED
    BY <2>1, <2>2, <2>3, <1>1
<1>13. n = 1 => head' = Null
  BY <1>1, <1>4, <1>7
<1>14. (list' = <<>> <=> n = 1) /\ (n - 1) - 1 = n - 2
  BY <1>1, <1>2
<1>15. Linked'
  BY <1>1, <1>2, <1>8, <1>9, <1>10, <1>11, <1>12, <1>13, <1>14 DEF Linked
<1> QED
  BY <1>2, <1>15

LEMMA RmLinks ==
    ASSUME Types, Linked, NEW e \in El, Rm(e)
    PROVE  Types' /\ Linked'
<1>1. PICK i \in 1..Len(list) : e = list[i] /\ list' = RemoveAt(list, i)
  BY DEF Rm, Types
<1>2. Shape
  BY ShapeOfList
<1>3. next' = NextWithout(e) /\ prev' = PrevWithout(e) /\ head' = HeadWithout(e)
  BY DEF Rm
<1>4. list' \in Seq(El) /\ Linked'
  BY <1>1, <1>3, RemoveLinks
<1>5. next[e] \in Ptr /\ prev[e] \in Ptr
  BY DEF Types
<1>6. next' \in [El -> Ptr] /\ prev' \in [El -> Ptr]
  BY <1>3, <1>5 DEF Types, NextWithout, PrevWithout
<1> QED
  BY <1>4, <1>6 DEF Types, Rm, loop

LEMMA EachFreeLinks ==
    ASSUME Types, Linked, EachFree
    PROVE  Types' /\ Linked'
<1>1. PICK i \in 1..Len(list) : el = list[i] /\ list' = RemoveAt(list, i)
  BY DEF EachFree, Types
<1>2. el \in El
  BY <1>1 DEF Types
<1>3. PICK p \in Ptr, m \in Ptr :
        /\ next' = [NextWithout(el) EXCEPT ![el] = m]
        /\ prev' = [PrevWithout(el) EXCEPT ![el] = p]
  BY DEF EachFree
<1>4. next[el] \in Ptr /\ prev[el] \in Ptr
  BY <1>2 DEF Types
<1>5. NextWithout(el) \in [El -> Ptr] /\ PrevWithout(el) \in [El -> Ptr]
  BY <1>4 DEF Types, NextWithout, PrevWithout
<1>6. \A x \in El \ {el} : next'[x] = NextWithout(el)[x] /\ prev'[x] = PrevWithout(el)[x]
  BY <1>3, <1>5
<1>7. head' = HeadWithout(el)
  BY DEF EachFree
<1>8. list' \in Seq(El) /\ Linked'
  BY <1>1, <1>6, <1>7, RemoveLinks
<1>9. next' \in [El -> Ptr] /\ prev' \in [El -> Ptr]
  BY <1>3, <1>5
<1> QED
  BY <1>8, <1>9 DEF Types, EachFree, loop

LEMMA ReplaceLinks ==
    ASSUME Types, Linked, NEW e \in El, NEW old \in El, Replace(old, e)
    PROVE  Types' /\ Linked'
<1> DEFINE n == Len(list)
<1>0. Shape
  BY ShapeOfList
<1>1. CASE head = Null
  <2>1. /\ list' = <<e>> /\ head' = e
        /\ prev' = [prev EXCEPT ![e] = e] /\ next' = [next EXCEPT ![e] = Null]
    BY <1>1 DEF Replace
  <2>2. prev'[e] = e /\ next'[e] = Null
    BY <2>1 DEF Types
  <2>3. Linked'
    BY <2>1, <2>2 DEF Linked
  <2>4. Types'
    BY <2>1 DEF Types, Replace, loop, Ptr
  <2> QED
    BY <2>3, <2>4
<1>2. CASE head # Null
  <2>1. PICK i \in 1..n : old = list[i] /\ list' = ReplaceAt(list, i, e)
    BY <1>2 DEF Replace, Types
  <2>2. n \in Nat /\ n # 0 /\ i \in Nat /\ 1 <= i /\ i <= n
    BY <1>0, <2>1 DEF Shape
  <2>3. /\ list' \in Seq(El) /\ Len(list') = n
        /\ \A j \in 1..n : list'[j] = IF j = i THEN e ELSE list[j]
    BY <2>1 DEF Types, ReplaceAt
  <2>4. \A j \in 1..n : list[j] # e
    BY DEF Replace, MayAdd, Members, Types
  <2>5. /\ i > 1 => /\ old # head /\ prev[old] = list[i - 1]
                   /\ list[i - 1] \in El \ {e} /\ next[head] # Null
        /\ i = 1 => old = head /\ prev[old] = list[n]
        /\ i < n => /\ next[old] = list[i + 1] /\ next[head] # Null
                   /\ list[i + 1] \in El \ {e} /\ next[old] # Null
        /\ i = n => next[old] = Null
        /\ head = list[1] /\ head \in El \ {e} /\ (n = 1 => next[head] = Null)
    <3>1. i > 1 => i - 1 \in 1..n /\ i \in 2..n /\ i # 1 /\ n > 1
      BY <2>2
    <3>2. i < n => i + 1 \in 1..n /\ i \in 1..(n - 1) /\ n > 1
      BY <2>2
    <3>3. 1 \in 1..n /\ (n > 1 => 1 \in 1..(n - 1) /\ 1 + 1 \in 1..n)
      BY <2>2
    <3>4. head = list[1] /\ head \in El \ {e} /\ (n > 1 => next[head] # Null)
      BY <3>3, <1>0, <2>2, <2>4 DEF Shape
    <3> QED
      BY <3>1, <3>2, <3>3, <3>4, <1>0, <2>1, <2>2, <2>4 DEF Shape
  <2>6. /\ next'[e] = next[old]
        /\ i > 1 => next'[list[i - 1]] = e
        /\ \A x \in El \ {e} : (i > 1 => x # list[i - 1]) => next'[x] = next[x]
    BY <1>2, <2>2, <2>5 DEF Replace, Types
  <2> DEFINE after == IF i < n THEN list[i + 1] ELSE head
  <2>7. after \in El \ {e} /\ after = IF next[old] # Null THEN next[old] ELSE head
    BY <2>2, <2>5
  <2>8. /\ prev'[e] = IF n = 1 THEN e ELSE prev[old]
        /\ prev'[after] = e
        /\ \A x \in El \ {e} : x # after => prev'[x] = prev[x]
    <3>1. prev' = [prev EXCEPT ![e] = IF next[head] = Null THEN e ELSE prev[old],
                              ![after] = e]
      BY <1>2, <2>7 DEF Replace
    <3>2. next[head] = Null <=> n = 1
      <4>1. CASE n = 1
        BY <4>1, <2>5
      <4>2. CASE n > 1
        BY <4>2, <2>2, <2>5
      <4> QED
        BY <4>1, <4>2, <2>2
    <3> HIDE DEF after
    <3> QED
      BY <3>1, <3>2, <2>7 DEF Types
  <2>9. head' = IF i > 1 THEN head ELSE e
    BY <1>2, <2>2, <2>5 DEF Replace
  <2>10. Types'
    <3>1. next[old] \in Ptr /\ prev[old] \in Ptr /\ e \in Ptr
      BY DEF Types, Ptr
    <3>2. next' \in [El -> Ptr] /\ prev' \in [El -> Ptr]
      BY <1>2, <3>1 DEF Replace, Types
    <3> QED
      BY <3>2, <2>3 DEF Types, Replace, loop
  <2>11. \A j, k \in 1..n : list'[j] = list'[k] => j = k
    BY <2>3, <2>4, <1>0 DEF Shape
  <2>12. \A j \in 1..(n - 1) : next'[list'[j]] = list'[j + 1]
    <3> TAKE j \in 1..(n - 1)
    <3>1. j \in 1..n /\ j + 1 \in 1..n /\ (i > 1 => i - 1 \in 1..n)
      BY <2>2
    <3>2. CASE j = i
      BY <3>1, <3>2, <2>2, <2>3, <2>5, <2>6
    <3>3. CASE j = i - 1
      BY <3>1, <3>3, <2>2, <2>3, <2>6
    <3>4. CASE j # i /\ j # i - 1
      <4>1. list'[j] = list[j] /\ list'[j + 1] = list[j + 1]
        BY <3>1, <3>4, <2>2, <2>3
      <4>2. list[j] \in El \ {e} /\ (i > 1 => list[j] # list[i - 1])
        BY <3>1, <3>4, <2>2, <2>4, <1>0 DEF Shape
      <4> QED
        BY <4>1, <4>2, <2>6, <1>0 DEF Shape
    <3> QED
      BY <3>2, <3>3, <3>4
  <2>13. next'[list'[n]] = Null
    <3>1. n \in 1..n /\ (i > 1 => i - 1 \in 1..n /\ i - 1 # n)
      BY <2>2
    <3>2. CASE i = n
      BY <3>1, <3>2, <2>3, <2>5, <2>6
    <3>3. CASE i # n
      <4>1. list'[n] = list[n] /\ list[n] \in El \ {e} /\ (i > 1 => list[n] # list[i - 1])
        BY <3>1, <3>3, <2>3, <2>4, <1>0 DEF Shape
      <4> QED
        BY <4>1, <2>2, <2>6, <1>0 DEF Shape
    <3> QED
      BY <3>2, <3>3
  <2>14. \A j \in 2..n : prev'[list'[j]] = list'[j - 1]
    <3> TAKE j \in 2..n
    <3>1. j \in 1..n /\ j - 1 \in 1..n /\ (i < n => i + 1 \in 1..n) /\ 1 \in 1..n
      BY <2>2
    <3>2. CASE j = i
      <4>1. n > 1 /\ i > 1
        BY <3>2, <2>2
      <4>2. prev'[e] = list[i - 1]
        BY <4>1, <2>5, <2>8
      <4>3. list'[j] = e /\ list'[j - 1] = list[i - 1]
        BY <3>1, <3>2, <2>2, <2>3
      <4> QED
        BY <4>2, <4>3
    <3>3. CASE j = i + 1
      <4>1. i < n /\ j # i /\ j - 1 = i
        BY <3>3, <2>2
      <4> QED
        BY <3>1, <3>3, <4>1, <2>3, <2>8
    <3>4. CASE j # i /\ j # i + 1
      <4>1. list'[j] = list[j] /\ list'[j - 1] = list[j - 1]
        BY <3>1, <3>4, <2>2, <2>3
      <4>2. list[j] \in El \ {e} /\ list[j] # after
        <5>1. list[j] \in El \ {e} /\ list[j] # list[1] /\ (i < n => list[j] # list[i + 1])
          BY <3>1, <3>4, <2>2, <2>4, <1>0 DEF Shape
        <5> QED
          BY <5>1, <2>5
      <4> HIDE DEF after
      <4> QED
        BY <4>1, <4>2, <2>8, <1>0 DEF Shape
    <3> QED
      BY <3>2, <3>3, <3>4
  <2>15. head' = list'[1] /\ prev'[head'] = list'[n]
    <3>1. 1 \in 1..n /\ n \in 1..n
      BY <2>2
    <3>2. CASE i = 1 /\ n = 1
      BY <3>1, <3>2, <2>2, <2>3, <2>8, <2>9
    <3>3. CASE i = 1 /\ n # 1
      <4>1. i # n
        BY <3>3
      <4>2. list'[n] = list[n] /\ list'[1] = e /\ head' = e
        BY <3>1, <3>3, <4>1, <2>2, <2>3, <2>9
      <4> QED
        BY <4>2, <3>3, <2>5, <2>8
    <3>4. CASE i > 1
      <4>1. head' = head /\ list'[1] = head
        BY <3>1, <3>4, <2>2, <2>3, <2>5, <2>9
      <4>2. CASE i = n
        BY <3>1, <4>1, <4>2, <2>3, <2>8
      <4>3. CASE i # n
        <5>1. i < n /\ i + 1 \in 1..n /\ 1 # i + 1
          BY <4>3, <2>2
        <5>2. head # after /\ list'[n] = list[n] /\ prev[head] = list[n]
          BY <3>1, <4>3, <5>1, <2>2, <2>3, <2>5, <1>0 DEF Shape
        <5> HIDE DEF after
        <5> QED
          BY <4>1, <5>2, <2>5, <2>8
      <4> QED
        BY <4>2, <4>3
    <3> QED
      BY <3>2, <3>3, <3>4, <2>2
  <2>16. list' # <<>>
    BY <2>2, <2>3
  <2>17. Linked'
    BY <2>3, <2>11, <2>12, <2>13, <2>14, <2>15, <2>16 DEF Linked
  <2> QED
    BY <2>10, <2>17
<1> QED
  BY <1>1, <1>2

------------------------------------------------------------------------------
(* The loop *)

LEMMA OneOrMore ==
    ASSUME NEW n \in Nat, n >= 1
    PROVE  n = 1 \/ n > 1
OBVIOUS

LEMMA EachStartVisits ==
    ASSUME Types, Linked, EachStart
    PROVE  Types' /\ Linked' /\ EachVisitsAll'
<1>0. Shape
  BY ShapeOfList
<1>1. list' = list /\ todo' = list /\ el' = head /\ nx' = NextOf(head)
  BY DEF EachStart
<1>2. CASE list = <<>>
  <2>1. el' = Null /\ nx' = Null
    BY <1>1, <1>2 DEF Linked, NextOf
  <2>2. Ahead(todo, 0)'
    BY <1>1, <1>2 DEF Ahead
  <2> QED
    BY <1>1, <1>2, <2>1, <2>2 DEF EachVisitsAll, First, EachStart, Types, Linked, memory, Ptr
<1>3. CASE list # <<>>
  <2>1. Len(list) \in Nat /\ Len(list) >= 1 /\ head = list[1] /\ head # Null
    BY <1>0, <1>3, NullAssumption DEF Types, Shape
  <2>2. /\ Tail(list) \in Seq(El) /\ Len(Tail(list)) = Len(list) - 1
        /\ \A j \in 1..(Len(list) - 1) : Tail(list)[j] = list[j + 1]
    BY <1>3 DEF Types
  <2>3. nx' = First(Tail(list))
    <3>1. CASE Len(list) = 1
      BY <3>1, <1>0, <1>1, <2>1, <2>2 DEF First, NextOf, Shape
    <3>2. CASE Len(list) > 1
      <4>1. next[list[1]] = list[1 + 1]
        BY <3>2, <1>0, <2>1 DEF Shape
      <4>2. Tail(list)[1] = list[1 + 1]
        BY <3>2, <2>1, <2>2
      <4>3. Len(Tail(list)) # 0
        BY <3>2, <2>1, <2>2
      <4>4. Tail(list) # <<>>
        BY <4>3, EmptySeq
      <4> QED
        BY <4>1, <4>2, <4>4, <1>1, <2>1 DEF First, NextOf
    <3>3. Len(list) = 1 \/ Len(list) > 1
      BY <2>1, OneOrMore
    <3> QED
      BY <3>1, <3>2, <3>3
  <2>4. el' = First(list)
    BY <1>1, <1>3, <2>1 DEF First
  <2>5. Ahead(todo, 0)'
    BY <1>1, <2>1 DEF Ahead
  <2>6. EachVisitsAll'
    BY <1>1, <1>3, <2>1, <2>3, <2>4, <2>5 DEF EachVisitsAll, First
  <2>7. el' \in Ptr /\ nx' \in Ptr
    BY <1>0, <1>1, <2>1 DEF Shape, NextOf, Types, Ptr
  <2> QED
    BY <2>6, <2>7, <1>1 DEF EachStart, Types, Linked, memory
<1> QED
  BY <1>2, <1>3

LEMMA EachNextVisits ==
    ASSUME Types, Linked, EachVisitsAll, EachNext
    PROVE  Types' /\ Linked' /\ EachVisitsAll'
<1>0. Shape
  BY ShapeOfList
<1>1. list' = list /\ todo' = Tail(todo) /\ el' = nx /\ nx' = NextOf(nx)
  BY DEF EachNext
<1>2. todo # <<>>
  BY DEF EachNext, EachVisitsAll, First
<1> DEFINE s == Tail(todo)
<1>3. /\ s \in Seq(El) /\ Len(s) \in Nat /\ Len(s) = Len(todo) - 1
      /\ \A j \in 1..Len(s) : s[j] = todo[j + 1] /\ j + 1 \in 1..Len(todo)
  BY <1>2 DEF Types
<1>4. PICK k \in 0..Len(list) : Ahead(s, k)
  <2>1. PICK m \in 0..Len(list) : Ahead(todo, m) \/ Ahead(s, m)
    BY DEF EachNext, EachVisitsAll
  <2>2. CASE Ahead(todo, m)
    <3>1. m + 1 \in 0..Len(list) /\ Len(s) = Len(list) - (m + 1)
      BY <2>2, <1>0, <1>3 DEF Ahead, Shape
    <3>2. \A j \in 1..Len(s) : s[j] = list[(m + 1) + j]
      <4> TAKE j \in 1..Len(s)
      <4>1. s[j] = list[m + (j + 1)]
        BY <2>2, <1>3 DEF Ahead
      <4>2. m + (j + 1) = (m + 1) + j
        BY <1>3
      <4> QED
        BY <4>1, <4>2
    <3> QED
      BY <3>1, <3>2 DEF Ahead
  <2> QED
    BY <2>1, <2>2
<1>5. el' = First(s)
  BY <1>1, <1>2 DEF EachNext, EachVisitsAll
<1>6. nx' = IF s = <<>> THEN Null ELSE First(Tail(s))
  <2>1. CASE s = <<>>
    BY <2>1, <1>1, <1>5 DEF First, NextOf
  <2>2. CASE s # <<>>
    <3>1. Len(s) >= 1 /\ nx = s[1] /\ nx = list[k + 1]
      BY <2>2, <1>1, <1>3, <1>4, <1>5 DEF First, Ahead
    <3>2. /\ Len(Tail(s)) = Len(s) - 1
          /\ Tail(s) \in Seq(El)
          /\ \A j \in 1..(Len(s) - 1) : Tail(s)[j] = s[j + 1]
      BY <2>2, <1>3
    <3>3. k + 1 \in 1..Len(list) /\ Len(s) = Len(list) - k
      BY <3>1, <1>0, <1>4 DEF Ahead, Shape
    <3>4. nx' = next[list[k + 1]]
      BY <3>1, <3>3, <1>0, <1>1 DEF NextOf, Shape
    <3>5. CASE Len(s) = 1
      <4>1. k + 1 = Len(list)
        <5>1. Len(list) \in Int /\ k \in Int
          BY <1>0 DEF Shape
        <5>2. Len(list) - k = 1
          BY <3>3, <3>5
        <5> HIDE DEF s
        <5> QED
          BY <5>1, <5>2
      <4>3. Len(Tail(s)) = 0
        BY <3>2, <3>5
      <4>4. Tail(s) = <<>>
        BY <4>3, <3>2, EmptySeq
      <4>2. next[list[Len(list)]] = Null
        BY <3>3, <1>0 DEF Shape
      <4> QED
        BY <4>1, <4>2, <4>4, <3>4, <2>2 DEF First
    <3>6. CASE Len(s) > 1
      <4>1. Tail(s)[1] = s[1 + 1] /\ 1 + 1 \in 1..Len(s)
        BY <3>2, <3>6, <1>3
      <4>5. Len(Tail(s)) # 0
        BY <3>2, <3>6, <1>3
      <4>6. Tail(s) # <<>>
        BY <4>5, EmptySeq
      <4>2. k + 1 \in 1..(Len(list) - 1)
        BY <3>3, <3>6, <1>0 DEF Shape
      <4>3. s[1 + 1] = list[k + (1 + 1)] /\ k + (1 + 1) = (k + 1) + 1
        BY <4>1, <1>4 DEF Ahead
      <4>4. next[list[k + 1]] = list[(k + 1) + 1]
        BY <4>2, <1>0 DEF Shape
      <4>7. First(Tail(s)) = list[(k + 1) + 1]
        BY <4>1, <4>3, <4>6 DEF First
      <4> QED
        BY <4>4, <4>7, <3>4, <2>2
    <3> QED
      BY <3>1, <3>5, <3>6, <1>3
  <2> QED
    BY <2>1, <2>2
<1>7. Ahead(todo, k)'
  BY <1>1, <1>4 DEF Ahead
<1>8. EachVisitsAll'
  BY <1>1, <1>5, <1>6, <1>7 DEF EachVisitsAll, First
<1>9. nx \in Ptr /\ NextOf(nx) \in Ptr
  BY DEF Types, NextOf, Ptr
<1> QED
  BY <1>1, <1>3, <1>8, <1>9 DEF EachNext, Types, Linked, memory

LEMMA EachFreeVisits ==
    ASSUME Types, Linked, EachVisitsAll, EachFree
    PROVE  EachVisitsAll'
<1>0. Shape
  BY ShapeOfList
<1>1. PICK i \in 1..Len(list) : el = list[i] /\ list' = RemoveAt(list, i)
  BY DEF EachFree, Types
<1>2. el # Null /\ el \in Members /\ looping /\ loop' = loop
  BY <1>0, <1>1 DEF Shape, Members, Types, EachFree
<1>3. todo # <<>> /\ el = todo[1]
  BY <1>2 DEF EachVisitsAll, First
<1>4. PICK k \in 0..Len(list) : Ahead(todo, k)
  BY <1>2 DEF EachVisitsAll
<1>5. Len(todo) \in Nat /\ Len(todo) >= 1 /\ Len(list) \in Nat
  BY <1>3 DEF Types
<1>6. i = k + 1
  <2>1. k + 1 \in 1..Len(list) /\ todo[1] = list[k + 1]
    BY <1>4, <1>5 DEF Ahead
  <2> QED
    BY <2>1, <1>0, <1>1, <1>3 DEF Shape
<1>7. /\ list' \in Seq(El) /\ Len(list') = Len(list) - 1
      /\ \A j \in 1..(Len(list) - 1) :
            list'[j] = IF j < i THEN list[j] ELSE list[j + 1]
  BY <1>1, RemoveAtPoints DEF Types
<1>8. el \notin Members'
  <2> SUFFICES ASSUME NEW j \in 1..(Len(list) - 1), list'[j] = el
               PROVE  FALSE
    BY <1>5, <1>7 DEF Members
  <2>1. CASE j < i
    BY <2>1, <1>0, <1>1, <1>7 DEF Shape
  <2>2. CASE j >= i
    <3>1. j + 1 \in 1..Len(list) /\ j + 1 # i /\ list[j + 1] = el
      BY <2>2, <1>5, <1>7
    <3> QED
      BY <3>1, <1>0, <1>1 DEF Shape
  <2> QED
    BY <2>1, <2>2
<1>9. /\ Len(Tail(todo)) = Len(todo) - 1
      /\ \A j \in 1..(Len(todo) - 1) : Tail(todo)[j] = todo[j + 1]
  BY <1>3 DEF Types
<1>10. k \in 0..(Len(list) - 1)
  BY <1>4, <1>5 DEF Ahead
<1>11. \A j \in 1..(Len(todo) - 1) : Tail(todo)[j] = list'[k + j]
  <2> TAKE j \in 1..(Len(todo) - 1)
  <2>1. /\ j + 1 \in 1..Len(todo) /\ k + j \in 1..(Len(list) - 1)
        /\ ~(k + j < i) /\ (k + j) + 1 = k + (j + 1)
    BY <1>4, <1>5, <1>6, <1>10 DEF Ahead
  <2>2. Tail(todo)[j] = list[k + (j + 1)]
    BY <2>1, <1>4, <1>9 DEF Ahead
  <2>3. list'[k + j] = list[(k + j) + 1]
    BY <2>1, <1>7
  <2> QED
    BY <2>1, <2>2, <2>3
<1>12. Len(Tail(todo)) = Len(list') - k
  BY <1>4, <1>5, <1>7, <1>9, <1>10 DEF Ahead
<1>13. todo' = todo /\ el' = el /\ nx' = nx /\ looping' = looping
  BY <1>2 DEF loop
<1>14. Ahead(Tail(todo), k)'
  BY <1>9, <1>11, <1>12, <1>13 DEF Ahead
<1>15. k \in 0..Len(list')
  BY <1>7, <1>10
<1> QED
  BY <1>2, <1>3, <1>8, <1>13, <1>14, <1>15 DEF EachVisitsAll, First

------------------------------------------------------------------------------
(* The lookups.  Round is defined by recursion; that it follows the list is *)
(* shown by looking at the first round in which it would not.              *)

LEMMA LeastNumber ==
    ASSUME NEW T \in SUBSET Nat, T # {}
    PROVE  \E m \in T : \A k \in T : m <= k
<1> DEFINE R == OpToRel(<, Nat)
<1>1. IsWellFoundedOn(R, Nat)
  BY NatLessThanWellFounded, Zenon
<1>2. \A x, y \in Nat : y < x => <<y, x>> \in R
  BY DEF OpToRel
<1> HIDE DEF R
<1>3. PICK m \in T : \A y \in T : ~ (<<y, m>> \in R)
  BY <1>1, WFMin
<1>4. \A k \in T : ~(k < m)
  BY <1>2, <1>3, Zenon
<1>5. \A k \in T : m <= k
  BY <1>4, SMT
<1> QED
  BY <1>5

\* The k-th element after the first, or null behind the end.
Nth(k) == IF k < Len(list) THEN list[k + 1] ELSE Null

LEMMA NextOfNth ==
    ASSUME Shape, NEW k \in Nat
    PROVE  NextOf(Nth(k)) = Nth(k + 1)
<1>1. CASE k + 1 < Len(list)
  <2>1. Nth(k) = list[k + 1] /\ Nth(k + 1) = list[(k + 1) + 1]
    BY <1>1 DEF Nth, Shape
  <2>2. k + 1 \in 1..(Len(list) - 1) /\ k + 1 \in 1..Len(list)
    BY <1>1 DEF Shape
  <2> QED
    BY <2>1, <2>2 DEF Shape, NextOf
<1>2. CASE k + 1 = Len(list)
  <2>1. Nth(k) = list[Len(list)] /\ Nth(k + 1) = Null
    BY <1>2 DEF Nth, Shape
  <2>2. Len(list) # 0 /\ Len(list) \in 1..Len(list)
    BY <1>2 DEF Shape
  <2> QED
    BY <2>1, <2>2 DEF Shape, NextOf
<1>3. CASE k + 1 > Len(list)
  BY <1>3 DEF Nth, NextOf, Shape
<1> QED
  BY <1>1, <1>2, <1>3 DEF Shape

\* The loop variables hold one element after the other, and null at the end.
LEMMA RoundsFollow ==
    ASSUME Shape
    PROVE  \A k \in Nat : Round[k].el = Nth(k)
<1> DEFINE G == [k \in Nat |-> [el |-> Nth(k), nx |-> Nth(k + 1)]]
<1>1. head = Nth(0)
  BY DEF Nth, Shape
<1>2. ASSUME NEW k \in Nat
      PROVE  G[k] = IF k = 0 THEN [el |-> head, nx |-> NextOf(head)]
                    ELSE [el |-> G[k - 1].nx, nx |-> NextOf(G[k - 1].nx)]
  <2>1. NextOf(Nth(k)) = Nth(k + 1)
    BY NextOfNth
  <2>2. CASE k = 0
    BY <2>1, <2>2, <1>1
  <2>3. CASE k # 0
    <3>1. k - 1 \in Nat /\ (k - 1) + 1 = k
      BY <2>3
    <3>2. G[k - 1].nx = Nth(k)
      BY <3>1
    <3> QED
      BY <2>1, <2>3, <3>2
  <2> QED
    BY <2>2, <2>3
<1>3. G = [k \in Nat |-> IF k = 0 THEN [el |-> head, nx |-> NextOf(head)]
                         ELSE [el |-> G[k - 1].nx, nx |-> NextOf(G[k - 1].nx)]]
  BY <1>2
<1> HIDE DEF G
<1>4. Round = [k \in Nat |-> IF k = 0 THEN [el |-> head, nx |-> NextOf(head)]
                             ELSE [el |-> Round[k - 1].nx, nx |-> NextOf(Round[k - 1].nx)]]
  BY <1>3, Zenon DEF Round
<1>5. \A k \in Nat : Round[k] = G[k]
  <2> DEFINE T == {k \in Nat : Round[k] # G[k]}
  <2> SUFFICES ASSUME T # {} PROVE FALSE
    OBVIOUS
  <2>1. PICK m \in T : \A k \in T : m <= k
    <3>1. T \in SUBSET Nat
      OBVIOUS
    <3> HIDE DEF T
    <3> QED
      BY <3>1, LeastNumber
  <2>2. m \in Nat /\ m # 0
    <3>1. Round[0] = G[0]
      BY <1>2, <1>4
    <3> QED
      BY <2>1, <3>1
  <2>3. m - 1 \in Nat /\ Round[m - 1] = G[m - 1]
    BY <2>1, <2>2
  <2>4. Round[m] = G[m]
    BY <1>2, <1>4, <2>2, <2>3
  <2> QED
    BY <2>1, <2>4
<1> QED
  <2> TAKE k \in Nat
  <2>1. G[k].el = Nth(k)
    BY DEF G
  <2> QED
    BY <1>5, <2>1

\* A list is not longer than there are elements.
LEMMA ChainFits ==
    ASSUME NEW n \in Nat, NEW c \in [1..n -> El],
           \A i, j \in 1..n : c[i] = c[j] => i = j
    PROVE  n <= Cardinality(El) /\ Cardinality(El) \in Nat
<1>1. c \in Injection(1..n, El)
  BY DEF Injection, IsInjective
<1>2. Cardinality(1..n) = n
  BY FS_Interval
<1> QED
  BY <1>1, <1>2, ElAssumption, FS_Injection, FS_CardinalityType

LEMMA ListFits ==
    ASSUME Types, Linked
    PROVE  /\ Len(list) <= Cardinality(El) /\ Cardinality(El) \in Nat
           /\ Len(list) \in Nat
<1>1. list \in [1..Len(list) -> El] /\ Len(list) \in Nat
  BY DEF Types
<1>2. \A i, j \in 1..Len(list) : list[i] = list[j] => i = j
  BY DEF Linked
<1> QED
  BY <1>1, <1>2, ChainFits

LEMMA LastAgrees ==
    ASSUME Types, Linked
    PROVE  list_last = IF list = <<>> THEN Null ELSE Last(list)
<1>1. Shape
  BY ShapeOfList
<1>2. list = <<>> <=> Len(list) = 0
  BY DEF Types
<1> QED
  BY <1>1, <1>2, NullAssumption DEF list_last, Last, Shape

LEMMA ContainsAgrees ==
    ASSUME Types, Linked, NEW e \in El
    PROVE  list_contains(e) <=> e \in Members
<1>1. Shape
  BY ShapeOfList
<1>2. list_contains(e) <=> \E k \in 0..Cardinality(El) : Nth(k) = e
  <2>1. 0..Cardinality(El) \subseteq Nat
    BY ListFits
  <2> QED
    BY <1>1, <2>1, RoundsFollow DEF list_contains
<1>3. e \in Members <=> \E i \in 1..Len(list) : list[i] = e
  BY DEF Members, Types
<1>4. ASSUME NEW i \in 1..Len(list), list[i] = e
      PROVE  i - 1 \in 0..Cardinality(El) /\ Nth(i - 1) = e
  BY <1>4, ListFits DEF Nth
<1>5. ASSUME NEW k \in 0..Cardinality(El), Nth(k) = e
      PROVE  k + 1 \in 1..Len(list) /\ list[k + 1] = e
  BY <1>5, ListFits, NullAssumption DEF Nth
<1> QED
  BY <1>2, <1>3, <1>4, <1>5

LEMMA FindAgrees ==
    ASSUME Types, Linked, NEW Match \in SUBSET El
    PROVE  \/ list_find(Match) = Null /\ Members \cap Match = {}
           \/ \E i \in DOMAIN list : /\ list_find(Match) = list[i]
                                     /\ list[i] \in Match
                                     /\ \A j \in 1..(i - 1) : list[j] \notin Match
<1> DEFINE Stop(n) == Nth(n) \in Match \cup {Null}
           First0(n) == Stop(n) /\ \A m \in 0..(n - 1) : ~Stop(m)
           C == CHOOSE n \in 0..Cardinality(El) : First0(n)
<1>1. Shape /\ Len(list) <= Cardinality(El) /\ Cardinality(El) \in Nat /\ Len(list) \in Nat
  BY ShapeOfList, ListFits
<1>2. \A k \in Nat : Round[k].el = Nth(k)
  BY <1>1, RoundsFollow
<1>3. \E n \in 0..Cardinality(El) : First0(n)
  <2> DEFINE T == {n \in Nat : Stop(n)}
  <2>1. Len(list) \in T
    BY <1>1 DEF Nth
  <2>2. PICK m \in T : \A k \in T : m <= k
    <3>1. T \in SUBSET Nat /\ T # {}
      BY <2>1
    <3> HIDE DEF T
    <3> QED
      BY <3>1, LeastNumber
  <2>3. m \in 0..Cardinality(El)
    BY <2>1, <2>2, <1>1
  <2>4. \A k \in 0..(m - 1) : ~Stop(k)
    BY <2>2, <2>3, <1>1
  <2> QED
    BY <2>2, <2>3, <2>4
<1>4. list_find(Match) = Nth(C)
  <2>1. \A n \in 0..Cardinality(El) :
          (/\ Round[n].el \in Match \cup {Null}
           /\ \A m \in 0..(n - 1) : ~(Round[m].el \in Match \cup {Null})) <=> First0(n)
    BY <1>1, <1>2
  <2>2. (CHOOSE n \in 0..Cardinality(El) :
           (/\ Round[n].el \in Match \cup {Null}
            /\ \A m \in 0..(n - 1) : ~(Round[m].el \in Match \cup {Null}))) = C
    BY <2>1
  <2>3. C \in 0..Cardinality(El)
    BY <1>3
  <2>4. Round[C].el = Nth(C)
    BY <2>3, <1>1, <1>2
  <2> QED
    BY <2>2, <2>4 DEF list_find
<1>5. C \in 0..Cardinality(El) /\ First0(C)
  <2> HIDE DEF First0
  <2> QED
    BY <1>3
<1> HIDE DEF C
<1>6. \A j \in 1..Len(list) : j - 1 < C => list[j] \notin Match
  <2> SUFFICES ASSUME NEW j \in 1..Len(list), j - 1 < C PROVE list[j] \notin Match
    OBVIOUS
  <2>1. j - 1 \in 0..(C - 1) /\ Nth(j - 1) = list[j]
    BY <1>1, <1>5 DEF Nth
  <2> QED
    BY <1>5, <2>1
<1>7. CASE C < Len(list)
  <2>1. C + 1 \in 1..Len(list) /\ Nth(C) = list[C + 1]
    BY <1>1, <1>5, <1>7 DEF Nth
  <2>2. list[C + 1] \in Match
    BY <1>5, <2>1, <1>1 DEF Shape
  <2>3. \A j \in 1..((C + 1) - 1) : list[j] \notin Match
    BY <1>1, <1>5, <1>6, <1>7
  <2>4. DOMAIN list = 1..Len(list)
    BY DEF Types
  <2> QED
    BY <1>4, <2>1, <2>2, <2>3, <2>4
<1>8. CASE ~(C < Len(list))
  <2>1. Nth(C) = Null
    BY <1>8 DEF Nth
  <2>2. \A j \in 1..Len(list) : list[j] \notin Match
    BY <1>1, <1>5, <1>6, <1>8
  <2>3. DOMAIN list = 1..Len(list)
    BY DEF Types
  <2> QED
    BY <1>4, <2>1, <2>2, <2>3 DEF Members
<1> QED
  BY <1>7, <1>8

------------------------------------------------------------------------------
(* The invariant and its consequences *)

IInv == Types /\ Linked /\ EachVisitsAll

LEMMA InitInv == Init => IInv
<1> SUFFICES ASSUME Init PROVE IInv
  OBVIOUS
<1>1. ~looping /\ looping \in BOOLEAN /\ el \in Ptr /\ nx \in Ptr /\ todo \in Seq(El)
  <2>1. todo = <<>> /\ el = Null /\ nx = Null /\ looping = FALSE
    BY DEF Init
  <2>2. <<>> \in Seq(El)
    BY EmptySeq
  <2> QED
    BY <2>1, <2>2 DEF Ptr
<1>2. CASE head = Null /\ list = <<>>
  BY <1>1, <1>2 DEF Init, IInv, Types, Linked, EachVisitsAll
<1>3. CASE head \in El /\ list = <<head>> /\ prev[head] = head /\ next[head] = Null
  BY <1>1, <1>3 DEF Init, IInv, Types, Linked, EachVisitsAll
<1> QED
  BY <1>2, <1>3 DEF Init

\* The operations outside a loop leave it outside.
LEMMA NotLooping ==
    ASSUME ~looping, UNCHANGED loop
    PROVE  EachVisitsAll'
BY DEF loop, EachVisitsAll

LEMMA NextInv == IInv /\ [Next]_vars => IInv'
<1> SUFFICES ASSUME IInv, [Next]_vars PROVE IInv'
  OBVIOUS
<1> USE DEF IInv
<1>1. ASSUME NEW e \in El, AddHead(e) PROVE IInv'
  BY <1>1, AddHeadLinks, NotLooping DEF AddHead, MayAdd
<1>2. ASSUME NEW e \in El, AddTail(e) PROVE IInv'
  BY <1>2, AddTailLinks, NotLooping DEF AddTail, MayAdd
<1>3. ASSUME NEW e \in El, Rm(e) PROVE IInv'
  BY <1>3, RmLinks, NotLooping DEF Rm
<1>4. ASSUME NEW e \in El, NEW front \in El, NEW back \in El, AddIn(e, front, back)
      PROVE  IInv'
  BY <1>4, AddInLinks, NotLooping DEF AddIn, MayAdd
<1>5. ASSUME NEW e \in El, NEW old \in El, Replace(old, e) PROVE IInv'
  BY <1>5, ReplaceLinks, NotLooping DEF Replace, MayAdd
<1>6. CASE EachStart
  BY <1>6, EachStartVisits
<1>7. CASE EachNext
  BY <1>7, EachNextVisits
<1>8. CASE EachFree
  BY <1>8, EachFreeLinks, EachFreeVisits
<1>9. CASE EachEnd
  <2>1. /\ UNCHANGED <<head, prev, next, list>>
        /\ looping' = FALSE /\ el' = Null /\ nx' = Null /\ todo' = <<>>
    BY <1>9 DEF EachEnd, memory
  <2>2. <<>> \in Seq(El)
    BY EmptySeq
  <2>3. Types'
    BY <2>1, <2>2 DEF Types, Ptr
  <2>4. Linked'
    BY <2>1 DEF Linked
  <2>5. EachVisitsAll'
    BY <2>1 DEF EachVisitsAll
  <2> QED
    BY <2>3, <2>4, <2>5
<1>10. CASE UNCHANGED vars
  <2>1. UNCHANGED <<head, prev, next, list, looping, el, nx, todo>>
    BY <1>10 DEF vars, memory, loop
  <2>2. Types'
    BY <2>1 DEF Types
  <2>3. Linked'
    BY <2>1 DEF Linked
  <2>4. EachVisitsAll'
    <3>1. CASE ~looping
      BY <2>1, <3>1 DEF EachVisitsAll
    <3>2. CASE looping
      <4>1. PICK k \in 0..Len(list) :
              \/ Ahead(todo, k)
              \/ todo # <<>> /\ el \notin Members /\ Ahead(Tail(todo), k)
        BY <3>2 DEF EachVisitsAll
      <4>2. /\ Ahead(todo, k) => Ahead(todo, k)'
            /\ Ahead(Tail(todo), k) => Ahead(Tail(todo), k)'
            /\ Members' = Members
        BY <2>1 DEF Ahead, Members
      <4>3. /\ el = First(todo)
            /\ nx = IF todo = <<>> THEN Null ELSE First(Tail(todo))
        BY <3>2 DEF EachVisitsAll
      <4> QED
        BY <2>1, <4>1, <4>2, <4>3 DEF EachVisitsAll, First
    <3> QED
      BY <3>1, <3>2
  <2> QED
    BY <2>2, <2>3, <2>4
<1> QED
  BY <1>1, <1>2, <1>3, <1>4, <1>5, <1>6, <1>7, <1>8, <1>9, <1>10 DEF Next

LEMMA Invariance == Spec => []IInv
BY InitInv, NextInv, PTL DEF Spec

\* The pointers and the loop variables keep their types, and head is null or
\* points to an element that is linked, for any set of elements.
THEOREM TypeCorrect == Spec => []TypeOK
<1>1. IInv => TypeOK
  BY TypesLinkedTyped DEF IInv
<1> QED
  BY <1>1, Invariance, PTL

\* The operations of list2.h keep the pointers in agreement with the list the
\* caller has asked for, for lists of any length and any memory contents.
THEOREM ListLinked == Spec => []Linked
<1>1. IInv => Linked
  BY DEF IInv
<1> QED
  BY <1>1, Invariance, PTL

\* list_for_each visits every element once and in order although its body
\* frees elements, for lists of any length.
THEOREM LoopVisitsAll == Spec => []EachVisitsAll
<1>1. IInv => EachVisitsAll
  BY DEF IInv
<1> QED
  BY <1>1, Invariance, PTL

\* list_last, list_contains and list_find answer for the list that the caller has
\* asked for, whatever its length and whichever elements match.
THEOREM LookupsRight == Spec => []LookupsAgree
<1>1. IInv => LookupsAgree
  BY LastAgrees, ContainsAgrees, FindAgrees DEF IInv, LookupsAgree
<1> QED
  BY <1>1, Invariance, PTL

==============================================================================

-------------------------- MODULE SharedListProofs --------------------------
(***************************************************************************)
(* Theorems about SharedList.                                              *)
(*                                                                         *)
(* For lists that are searched, the elements that have been linked are the *)
(* ones that were added first; the pointers stand for them (Chain), also   *)
(* between the stores of list_add_tail, and a search that has not found    *)
(* its element is in front of it (Search).  For lists that elements are    *)
(* taken from nothing of the kind holds; but what next points to was added *)
(* later, except where an element lost to the list points to itself        *)
(* (Forward), and prev plays no part in it.                                *)
(***************************************************************************)
EXTENDS SharedList, FiniteSetTheorems, FunctionTheorems, WellFoundedInduction, TLAPS

\* list_add_tail has not linked its element yet.
Preparing == adder \in {"null", "test", "head", "prev", "prev of", "link", "link of", "next of"}

Types ==
    /\ use \in {"find", "take"}
    /\ head \in Ptr /\ prev \in [El -> Ptr] /\ next \in [El -> Ptr]
    /\ adder \in {"idle", "null", "test", "head", "alone", "prev", "prev of",
                  "link", "link of", "next of", "last", "last of"}
    /\ finder \in {"idle", "ahead", "look"}
    /\ taker \in {"idle", "test", "next of", "head of", "prev of", "store", "next", "head"}
    /\ new \in Ptr /\ at \in Ptr
    /\ first \in (IF taker = "idle" THEN Ptr ELSE El) /\ dest \in Ptr /\ val \in Ptr

\* Each element is added once, the latest is the one being added.
Given ==
    /\ added \in Seq(El) /\ taken \in Seq(El)
    /\ \A i, j \in DOMAIN added : added[i] = added[j] => i = j
    /\ adder # "idle" => added # <<>> /\ new = added[Len(added)]

(***************************************************************************)
(* Lists that are searched                                                 *)
(***************************************************************************)

\* How many elements are linked.
Linked == IF Preparing THEN Len(added) - 1 ELSE Len(added)

Links ==
    /\ head = IF Linked = 0 THEN Null ELSE added[1]
    /\ \A i \in 1..Linked : next[added[i]] = IF i = Linked THEN Null ELSE added[i + 1]

\* What the adder's place in list_add_tail says of the pointers.
AddPlace ==
    /\ Preparing /\ adder # "null" => next[new] = Null
    /\ adder = "head" => Linked = 0
    /\ adder = "alone" => Linked = 1
    /\ adder \in {"prev", "prev of", "link", "link of", "next of"} => Linked > 0
    /\ adder \in {"last", "last of"} => Linked > 1
    /\ adder \in {"prev of", "link of", "last of"} => at = head
    /\ adder = "next of" => at = added[Linked]
    /\ (adder = "idle" \/ Preparing) /\ Linked > 0 => prev[head] = added[Linked]

Chain == Links /\ AddPlace

\* The elements a search has in hand are linked, and the one it looks for, if it
\* was there at the start, is not behind.
Search ==
    /\ finder = "idle" => el = Null /\ nx = Null /\ target = Null /\ ~present
    /\ finder # "idle" => target \in El
    /\ {el, nx} \subseteq {added[i] : i \in 1..Linked} \cup {Null}
    /\ present =>
           \E i, k \in 1..Linked :
               /\ el = added[i] /\ target = added[k] /\ i <= k
               /\ finder = "look" /\ i < k => nx = added[i + 1]

(***************************************************************************)
(* Lists that elements are taken from                                      *)
(***************************************************************************)

\* x comes before y in s.
Before(s, x, y) == \E i, j \in DOMAIN s : i < j /\ s[i] = x /\ s[j] = y

\* The elements whose pointers list_add_tail has begun to set.
Prepared == {added[i] : i \in DOMAIN added} \ (IF adder = "null" THEN {new} ELSE {})

\* Nothing leads to x but perhaps x itself.
Unreached(x) ==
    /\ head # x
    /\ taker = "head" => val # x
    /\ \A y \in Prepared \ {x} : next[y] # x

Forward ==
    \A x \in Prepared : \/ next[x] = Null
                        \/ Before(added, x, next[x])
                        \/ next[x] = x /\ Unreached(x)

NoSearch == finder = "idle" /\ el = Null /\ nx = Null /\ ~present

HeadPrepared == head = Null \/ head \in Prepared

InOrder ==
    /\ \A i, j \in DOMAIN taken : i < j => Before(added, taken[i], taken[j])
    /\ \A i \in DOMAIN taken : \E j \in DOMAIN added : taken[i] = added[j]

TakePlace ==
    /\ taker = "idle" /\ head # Null => \A i \in DOMAIN taken : Before(added, taken[i], head)
    /\ taker # "idle" => head = first /\ taken # <<>> /\ first = taken[Len(taken)]
    /\ taker = "head" => val = Null \/ (val \in Prepared /\ Before(added, first, val))

\* Until it is linked, the new element is out of the taker's reach.
NewPlace ==
    /\ adder = "head" => head = Null /\ taker = "idle"
    /\ Preparing => Unreached(new) /\ \A i \in DOMAIN taken : taken[i] # new
    /\ Preparing /\ adder # "null" => next[new] = Null

Taking == NoSearch /\ HeadPrepared /\ InOrder /\ TakePlace /\ NewPlace

IInv ==
    /\ Types /\ Given
    /\ use = "find" => Chain /\ Search /\ taker = "idle" /\ taken = <<>> /\ ~fault
    /\ use = "take" => Forward /\ Taking

------------------------------------------------------------------------------
(* Types *)

LEMMA InitTypes == Init => Types /\ Given
  BY UsesAssumption DEF Init, Types, Given, Ptr

LEMMA AddTypes == Types /\ Add /\ UNCHANGED use => Types'
<1> SUFFICES ASSUME Types, Add, UNCHANGED use PROVE Types'
  OBVIOUS
<1> USE DEF Types, Ptr
<1>1. CASE AddCall
  <2>1. PICK e \in El, p \in Ptr, n \in Ptr :
            /\ new' = e
            /\ prev' = [prev EXCEPT ![e] = p] /\ next' = [next EXCEPT ![e] = n]
    BY <1>1 DEF AddCall
  <2>2. new' \in Ptr /\ prev' \in [El -> Ptr] /\ next' \in [El -> Ptr]
    BY <2>1
  <2>3. adder' = "null" /\ UNCHANGED <<head, at, finder, taker, first, dest, val>>
    BY <1>1 DEF AddCall, findVars, takeVars
  <2> QED
    BY <2>2, <2>3
<1>2. CASE AddNull
  BY <1>2 DEF AddNull, findVars, takeVars
<1>3. CASE AddTest
  BY <1>3 DEF AddTest, findVars, takeVars, memory
<1>4. CASE AddHead \/ AddAlone
  BY <1>4 DEF AddHead, AddAlone, findVars, takeVars
<1>5. CASE AddLoadHead
  BY <1>5 DEF AddLoadHead, findVars, takeVars, memory
<1>6. CASE AddPrev \/ AddLink \/ AddLast
  <2>1. CASE AddPrev
    BY <2>1 DEF AddPrev, findVars, takeVars
  <2>2. CASE AddLink
    BY <2>2 DEF AddLink, findVars, takeVars
  <2>3. CASE AddLast
    BY <2>3 DEF AddLast, findVars, takeVars
  <2> QED
    BY <1>6, <2>1, <2>2, <2>3, Zenon
<1>7. CASE AddLoadLast
  BY <1>7 DEF AddLoadLast, findVars, takeVars, memory
<1>8. CASE AddFault
  BY <1>8 DEF AddFault, Fault, findVars, takeVars, memory, addVars
<1> QED
  BY <1>1, <1>2, <1>3, <1>4, <1>5, <1>6, <1>7, <1>8 DEF Add

LEMMA FindTypes == Types /\ Find /\ UNCHANGED use => Types'
  BY DEF Find, FindCall, FindAhead, FindNext, FindReturn, Types, Ptr, memory, addVars, takeVars

LEMMA TakeTypes == Types /\ Take /\ UNCHANGED use => Types'
<1> SUFFICES ASSUME Types, Take, UNCHANGED use PROVE Types'
  OBVIOUS
<1> USE DEF Types, Ptr
<1>1. CASE TakeFirst
  BY <1>1 DEF TakeFirst, memory, addVars, findVars
<1>2. CASE TakeTest
  BY <1>2 DEF TakeTest, memory, addVars, findVars
<1>3. CASE TakeStore \/ TakeHead
  BY <1>3 DEF TakeStore, TakeHead, addVars, findVars
<1>4. CASE TakeDest \/ TakeValue \/ TakeNext
  BY <1>4 DEF TakeDest, TakeValue, TakeNext, memory, addVars, findVars
<1> QED
  BY <1>1, <1>2, <1>3, <1>4 DEF Take

\* What AddCall does to the sequence of what was added.
LEMMA AddCallGiven ==
    ASSUME Given, AddCall
    PROVE  /\ Given' /\ new' \in El
           /\ Len(added') = Len(added) + 1 /\ added'[Len(added')] = new'
           /\ \A i \in DOMAIN added : added'[i] = added[i] /\ added[i] # new'
           /\ DOMAIN added' = 1..(Len(added) + 1) /\ DOMAIN added = 1..Len(added)
<1>1. /\ new' \in El \ ToSet(added) /\ added' = Append(added, new') /\ taken' = taken
  BY DEF AddCall, takeVars
<1>2. /\ added' \in Seq(El) /\ Len(added') = Len(added) + 1
      /\ \A i \in DOMAIN added : added'[i] = added[i] /\ added[i] # new'
      /\ added'[Len(added')] = new' /\ Len(added) \in Nat
      /\ DOMAIN added' = 1..(Len(added) + 1) /\ DOMAIN added = 1..Len(added)
  BY <1>1 DEF ToSet, Given
<1>3. \A i, j \in DOMAIN added' : added'[i] = added'[j] => i = j
  BY <1>2 DEF Given
<1>4. added' # <<>>
  BY <1>2
<1> QED
  BY <1>1, <1>2, <1>3, <1>4 DEF Given

\* Every other step of the adder has an element in hand and leaves what was added.
LEMMA AddElse ==
    Add => AddCall \/ (adder # "idle" /\ UNCHANGED <<added, new>>)
  BY DEF Add, AddNull, AddTest, AddHead, AddAlone, AddLoadHead, AddPrev, AddLoadLast,
         AddLink, AddLast, AddFault, Fault, addVars

LEMMA AddOnly == Add => UNCHANGED <<findVars, takeVars>>
  BY DEF Add, AddCall, AddNull, AddTest, AddHead, AddAlone, AddLoadHead, AddPrev,
         AddLoadLast, AddLink, AddLast, AddFault, Fault

LEMMA FindOnly == Find => UNCHANGED <<memory, addVars, takeVars, fault>>
  BY DEF Find, FindCall, FindAhead, FindNext, FindReturn

LEMMA TakeOnly == Take => UNCHANGED <<next, addVars, findVars, fault>>
  BY DEF Take, TakeFirst, TakeTest, TakeDest, TakeValue, TakeStore, TakeNext, TakeHead, memory

LEMMA TypesStep ==
    ASSUME Types, Given, head = Null \/ head \in El, [Next]_vars
    PROVE  Types' /\ Given'
<1>1. CASE Add /\ UNCHANGED use
  <2>1. Given'
    <3>1. CASE AddCall
      BY <3>1, AddCallGiven
    <3>2. CASE adder # "idle" /\ UNCHANGED <<added, new>>
      BY <1>1, <3>2, AddOnly DEF Given, takeVars
    <3> QED
      BY <1>1, <3>1, <3>2, AddElse
  <2> QED
    BY <1>1, <2>1, AddTypes
<1>2. CASE Find /\ UNCHANGED use
  BY <1>2, FindTypes, FindOnly DEF Given, addVars, takeVars
<1>3. CASE Take /\ UNCHANGED use
  <2>1. taken' \in Seq(El)
    <3>1. taken' = taken \/ (head \in El /\ taken' = Append(taken, head))
      BY <1>3 DEF Take, TakeFirst, TakeTest, TakeDest, TakeValue, TakeStore, TakeNext, TakeHead
    <3> QED
      BY <3>1 DEF Given
  <2> QED
    BY <1>3, <2>1, TakeTypes, TakeOnly DEF Given, addVars
<1>4. CASE UNCHANGED vars
  BY <1>4 DEF Types, Given, vars, memory, addVars, findVars, takeVars
<1> QED
  BY <1>1, <1>2, <1>3, <1>4 DEF Next

------------------------------------------------------------------------------
(* Walking along next *)

LEMMA LeastNumber ==
    ASSUME NEW T \in SUBSET Nat, T # {}
    PROVE  \E m \in T : \A k \in T : m <= k
<1> DEFINE R == OpToRel(<, Nat)
<1>1. IsWellFoundedOn(R, Nat)
  BY NatLessThanWellFounded
<1>2. \A x, y \in Nat : y < x => <<y, x>> \in R
  BY DEF OpToRel
<1> HIDE DEF R
<1>3. PICK m \in T : \A y \in T : ~ (<<y, m>> \in R)
  BY <1>1, WFMin
<1>4. \A k \in T : ~(k < m)
  BY <1>2, <1>3, Zenon
<1>5. \A k \in T : m <= k
  BY <1>4, SMT
<1> QED
  BY <1>5

\* Where the pointers stand for a chain of n elements, the walk meets these and
\* then null.
LEMMA WalkChain ==
    ASSUME NEW n \in Nat, NEW c \in [1..n -> El],
           head = IF n = 0 THEN Null ELSE c[1],
           \A i \in 1..n : next[c[i]] = IF i = n THEN Null ELSE c[i + 1]
    PROVE  \A k \in Nat : Walk[k] = IF k < n THEN c[k + 1] ELSE Null
<1> DEFINE G == [k \in Nat |-> IF k < n THEN c[k + 1] ELSE Null]
<1>1. ASSUME NEW k \in Nat
      PROVE  G[k] = IF k = 0 THEN head
                    ELSE IF G[k - 1] = Null THEN Null ELSE next[G[k - 1]]
  <2>1. CASE k = 0
    BY <2>1
  <2>2. CASE k # 0 /\ k - 1 < n
    <3>1. G[k - 1] = c[k] /\ c[k] # Null /\ k \in 1..n
      BY <2>2, NullAssumption
    <3>2. next[c[k]] = IF k < n THEN c[k + 1] ELSE Null
      BY <3>1
    <3> QED
      BY <2>2, <3>1, <3>2
  <2>3. CASE k # 0 /\ ~(k - 1 < n)
    <3>1. G[k - 1] = Null /\ G[k] = Null
      BY <2>3
    <3> QED
      BY <2>3, <3>1
  <2> QED
    BY <2>1, <2>2, <2>3
<1>2. G = [k \in Nat |-> IF k = 0 THEN head
                         ELSE IF G[k - 1] = Null THEN Null ELSE next[G[k - 1]]]
  BY <1>1
<1> HIDE DEF G
<1>3. Walk = [k \in Nat |-> IF k = 0 THEN head
                            ELSE IF Walk[k - 1] = Null THEN Null ELSE next[Walk[k - 1]]]
  BY <1>2, Zenon DEF Walk
<1>4. \A k \in Nat : Walk[k] = G[k]
  <2> DEFINE T == {k \in Nat : Walk[k] # G[k]}
  <2> SUFFICES ASSUME T # {} PROVE FALSE
    OBVIOUS
  <2>1. PICK m \in T : \A k \in T : m <= k
    <3>1. T \in SUBSET Nat
      OBVIOUS
    <3> HIDE DEF T
    <3> QED
      BY <3>1, LeastNumber
  <2>2. m \in Nat /\ m # 0
    BY <1>1, <1>3
  <2>3. m - 1 \in Nat /\ Walk[m - 1] = G[m - 1]
    BY <2>1, <2>2
  <2>4. Walk[m] = G[m]
    BY <1>1, <1>3, <2>2, <2>3
  <2> QED
    BY <2>1, <2>4
<1> QED
  BY <1>4 DEF G

\* There are no more elements in a chain than there are elements.
LEMMA ChainFits ==
    ASSUME NEW n \in Nat, NEW c \in [1..n -> El],
           \A i, j \in 1..n : c[i] = c[j] => i = j
    PROVE  n <= Cardinality(El) /\ Cardinality(El) \in Nat
<1>1. c \in Injection(1..n, El)
  BY DEF Injection, IsInjective
<1>2. Cardinality(1..n) = n
  BY FS_Interval
<1> QED
  BY <1>1, <1>2, ElAssumption, FS_Injection, FS_CardinalityType

LEMMA LinkedRange ==
    ASSUME Given
    PROVE  /\ Linked \in 0..Len(added) /\ Len(added) \in Nat
           /\ Preparing => Len(added) = Linked + 1
           /\ ~Preparing => Len(added) = Linked
           /\ \A i \in 1..Len(added) : added[i] \in El /\ added[i] # Null
           /\ \A i, j \in 1..Len(added) : added[i] = added[j] => i = j
<1>1. Preparing => adder # "idle"
  BY DEF Preparing
<1>2. Len(added) \in Nat /\ (Preparing => Len(added) # 0)
  BY <1>1 DEF Given
<1> QED
  BY <1>2, NullAssumption DEF Linked, Given

\* While elements are only added, Visible is what has been linked.
LEMMA VisibleChain ==
    Given /\ Chain => Visible = [i \in 1..Linked |-> added[i]]
<1> SUFFICES ASSUME Given, Chain PROVE Visible = [i \in 1..Linked |-> added[i]]
  OBVIOUS
<1> DEFINE n == Linked
           c == [i \in 1..n |-> added[i]]
<1>1. n \in 0..Len(added) /\ n \in Nat
  BY LinkedRange
<1> HIDE DEF n
<1>2. c \in [1..n -> El] /\ \A i, j \in 1..n : c[i] = c[j] => i = j
  BY <1>1 DEF Given
<1>3. /\ head = IF n = 0 THEN Null ELSE c[1]
      /\ \A i \in 1..n : next[c[i]] = IF i = n THEN Null ELSE c[i + 1]
  <2>1. /\ head = IF n = 0 THEN Null ELSE added[1]
        /\ \A i \in 1..n : next[added[i]] = IF i = n THEN Null ELSE added[i + 1]
    BY DEF Chain, Links, n
  <2> QED
    BY <1>1, <2>1
<1> HIDE DEF c
<1>4. \A k \in Nat : Walk[k] = IF k < n THEN c[k + 1] ELSE Null
  BY <1>1, <1>2, <1>3, WalkChain
<1>5. n <= Cardinality(El) /\ Cardinality(El) \in Nat
  BY <1>1, <1>2, ChainFits
<1>6. \A m \in 1..(Cardinality(El) + 1) : Walk[m - 1] # Null <=> m \in 1..n
  BY <1>1, <1>2, <1>4, <1>5, NullAssumption
<1>7. {m \in 1..(Cardinality(El) + 1) : Walk[m - 1] # Null} = 1..n
  BY <1>1, <1>5, <1>6
<1>8. \A m \in 1..n : Walk[m - 1] = c[m]
  BY <1>1, <1>4
<1>9. Visible = [m \in 1..n |-> c[m]]
  BY <1>7, <1>8 DEF Visible
<1> QED
  BY <1>1, <1>9 DEF c, n

------------------------------------------------------------------------------
(* Lists that are searched: the pointers *)

\* What the pointers are, in a form the steps below can cite.
LEMMA ChainFacts ==
    ASSUME Given, Links
    PROVE  /\ Linked \in Nat /\ Len(added) \in Nat
           /\ \A i \in 1..Linked : added[i] \in El /\ added[i] # Null
           /\ \A i, j \in 1..Linked : added[i] = added[j] => i = j
           /\ head = Null <=> Linked = 0
           /\ Linked > 0 => head = added[1] /\ head \in El /\ added[Linked] \in El
           /\ Preparing => /\ Len(added) = Linked + 1 /\ new = added[Linked + 1]
                           /\ new \in El /\ new # Null
                           /\ \A i \in 1..Linked : added[i] # new
           /\ ~Preparing => Len(added) = Linked
<1>1. /\ Linked \in Nat /\ Len(added) \in Nat /\ Linked <= Len(added)
      /\ \A i \in 1..Len(added) : added[i] \in El /\ added[i] # Null
      /\ \A i, j \in 1..Len(added) : added[i] = added[j] => i = j
  BY LinkedRange
<1>2. Preparing => Len(added) = Linked + 1 /\ new = added[Linked + 1]
  <2>1. Preparing => adder # "idle"
    BY DEF Preparing
  <2> QED
    BY <2>1, LinkedRange DEF Given
<1>3. ~Preparing => Len(added) = Linked
  BY LinkedRange
<1>4. head = IF Linked = 0 THEN Null ELSE added[1]
  BY DEF Links
<1> DEFINE n == Linked
           l == Len(added)
<1> HIDE DEF n, l
<1>5. /\ n \in Nat /\ l \in Nat /\ n <= l
      /\ \A i \in 1..l : added[i] \in El /\ added[i] # Null
      /\ \A i, j \in 1..l : added[i] = added[j] => i = j
      /\ head = IF n = 0 THEN Null ELSE added[1]
      /\ Preparing => l = n + 1 /\ new = added[n + 1]
  BY <1>1, <1>2, <1>4 DEF n, l
<1>6. /\ \A i \in 1..n : added[i] \in El /\ added[i] # Null
      /\ \A i, j \in 1..n : added[i] = added[j] => i = j
      /\ head = Null <=> n = 0
      /\ n > 0 => head = added[1] /\ head \in El /\ added[n] \in El
  BY <1>5
<1>7. Preparing => /\ l = n + 1 /\ new = added[n + 1] /\ new \in El /\ new # Null
                  /\ \A i \in 1..n : added[i] # new
  BY <1>5
<1> QED
  BY <1>1, <1>3, <1>6, <1>7 DEF n, l

LEMMA AddCallChain ==
    ASSUME Types, Given, Chain, AddCall
    PROVE  Chain' /\ Linked' = Linked /\ \A i \in 1..Linked : added'[i] = added[i]
<1>1. /\ adder = "idle" /\ adder' = "null" /\ head' = head
      /\ Preparing' /\ ~Preparing
  BY DEF AddCall, Preparing
<1>2. /\ Len(added') = Len(added) + 1 /\ new' \in El
      /\ \A i \in 1..Len(added) : added'[i] = added[i] /\ added[i] # new'
  BY AddCallGiven
<1> Links /\ AddPlace
  BY DEF Chain
<1>3. Linked' = Linked /\ Linked = Len(added) /\ Len(added) \in Nat
  <2>1. Linked = Len(added) /\ Len(added) \in Nat
    BY <1>1, ChainFacts
  <2>2. Linked' = Len(added') - 1
    BY <1>1 DEF Linked
  <2> QED
    BY <1>2, <2>1, <2>2
<1>4. \A e \in El \ {new'} : next'[e] = next[e] /\ prev'[e] = prev[e]
  BY DEF AddCall, Types
<1> DEFINE n == Linked
<1>5. /\ n \in Nat
      /\ n > 0 => head = added[1]
      /\ \A i \in 1..n : added[i] \in El /\ added'[i] = added[i] /\ added[i] # new'
      /\ head = IF n = 0 THEN Null ELSE added[1]
      /\ \A i \in 1..n : next[added[i]] = IF i = n THEN Null ELSE added[i + 1]
      /\ n > 0 => prev[head] = added[n]
  BY <1>1, <1>2, <1>3, ChainFacts DEF Links, AddPlace
<1> HIDE DEF n
<1>6. \A i \in 1..n : next'[added'[i]] = IF i = n THEN Null ELSE added'[i + 1]
  BY <1>4, <1>5
<1>7. head' = IF n = 0 THEN Null ELSE added'[1]
  BY <1>1, <1>5
<1>8. n > 0 => prev'[head'] = added'[n]
  BY <1>1, <1>4, <1>5
<1>9. Links'
  BY <1>3, <1>6, <1>7 DEF Links, n
<1>10. AddPlace'
  BY <1>1, <1>3, <1>8 DEF AddPlace, n
<1> QED
  BY <1>3, <1>5, <1>9, <1>10 DEF Chain, n

\* The chain of before stands after a step that changes only prev or next of the
\* element being prepared.
LEMMA PrepareChain ==
    ASSUME Types, Given, Chain, AddNull \/ AddTest \/ AddPrev \/ AddLoadLast
    PROVE  Chain' /\ Linked' = Linked /\ UNCHANGED added
<1> Links /\ AddPlace
  BY DEF Chain
<1>1. /\ Preparing /\ Preparing' /\ adder' \notin {"null", "idle"}
      /\ UNCHANGED <<head, added, new>>
  BY DEF AddNull, AddTest, AddPrev, AddLoadLast, Preparing, memory
<1>2. Linked' = Linked
  BY <1>1 DEF Linked
<1> DEFINE n == Linked
<1>3. /\ n \in Nat
      /\ n > 0 => head = added[1]
      /\ head = Null <=> n = 0
      /\ new \in El
      /\ \A i \in 1..n : added[i] \in El /\ added[i] # new
      /\ head = IF n = 0 THEN Null ELSE added[1]
      /\ \A i \in 1..n : next[added[i]] = IF i = n THEN Null ELSE added[i + 1]
      /\ n > 0 => prev[head] = added[n]
  BY <1>1, ChainFacts DEF Links, AddPlace
<1>4. \A e \in El \ {new} : next'[e] = next[e] /\ prev'[e] = prev[e]
  BY <1>3 DEF AddNull, AddTest, AddPrev, AddLoadLast, memory, Types
<1>5. next'[new] = Null
  <2>1. CASE AddNull
    BY <2>1, <1>3 DEF AddNull, Types
  <2>2. CASE AddTest \/ AddPrev \/ AddLoadLast
    BY <2>2, <1>1 DEF AddTest, AddPrev, AddLoadLast, AddPlace, memory
  <2> QED
    BY <2>1, <2>2
<1>6. /\ adder' = "head" => n = 0
      /\ adder' \in {"prev", "prev of", "link", "link of", "next of"} => n > 0
      /\ adder' \notin {"alone", "last", "last of"}
      /\ adder' \notin {"prev of", "link of"}
      /\ adder' = "next of" => at' = added[n]
  <2>1. CASE AddNull
    BY <2>1 DEF AddNull
  <2>2. CASE AddTest
    BY <2>2, <1>3 DEF AddTest
  <2>3. CASE AddPrev
    BY <2>3 DEF AddPrev, AddPlace
  <2>4. CASE AddLoadLast
    BY <2>4, <1>3 DEF AddLoadLast, AddPlace
  <2> QED
    BY <2>1, <2>2, <2>3, <2>4
<1> HIDE DEF n
<1>7. /\ \A i \in 1..n : next'[added[i]] = IF i = n THEN Null ELSE added[i + 1]
      /\ n > 0 => prev'[head] = added[n]
  BY <1>3, <1>4
<1>8. Links'
  BY <1>1, <1>2, <1>3, <1>7 DEF Links, n
<1>9. AddPlace'
  BY <1>1, <1>2, <1>5, <1>6, <1>7 DEF AddPlace, n
<1> QED
  BY <1>1, <1>2, <1>8, <1>9 DEF Chain

LEMMA LoadHeadChain ==
    ASSUME Given, Chain, AddLoadHead
    PROVE  Chain' /\ Linked' = Linked /\ UNCHANGED added
<1> Links /\ AddPlace
  BY DEF Chain
<1>1. (Preparing <=> Preparing') /\ UNCHANGED <<head, prev, next, added, new>>
  BY DEF AddLoadHead, Preparing, memory
<1>2. Linked' = Linked
  BY <1>1 DEF Linked
<1>3. Links'
  BY <1>1, <1>2 DEF Links
<1>4. AddPlace'
  <2>1. CASE adder = "prev"
    BY <1>1, <1>2, <2>1 DEF AddLoadHead, AddPlace, Preparing
  <2>2. CASE adder = "link"
    BY <1>1, <1>2, <2>2 DEF AddLoadHead, AddPlace, Preparing
  <2>3. CASE adder = "last"
    BY <1>1, <1>2, <2>3 DEF AddLoadHead, AddPlace, Preparing
  <2> QED
    BY <2>1, <2>2, <2>3 DEF AddLoadHead
<1> QED
  BY <1>1, <1>2, <1>3, <1>4 DEF Chain

\* The stores that link the element.
LEMMA LinkChain ==
    ASSUME Types, Given, Chain, AddHead \/ AddLink
    PROVE  /\ Chain' /\ Linked' = Linked + 1 /\ UNCHANGED added
           /\ Linked + 1 = Len(added)
<1> Links /\ AddPlace
  BY DEF Chain
<1>1. /\ Preparing /\ ~Preparing' /\ UNCHANGED <<prev, added, new>>
      /\ adder \notin {"idle", "null"} /\ adder' \in {"alone", "last"}
  BY DEF AddHead, AddLink, Preparing
<1>2. Linked' = Linked + 1 /\ Linked + 1 = Len(added)
  <2>1. Linked' = Len(added)
    BY <1>1 DEF Linked
  <2> QED
    BY <1>1, <2>1, ChainFacts
<1> DEFINE n == Linked
<1>3. /\ n \in Nat
      /\ new = added[n + 1] /\ new \in El /\ next[new] = Null
      /\ \A i, j \in 1..n : added[i] = added[j] => i = j
      /\ \A i \in 1..n : added[i] \in El /\ added[i] # new
      /\ head = IF n = 0 THEN Null ELSE added[1]
      /\ \A i \in 1..n : next[added[i]] = IF i = n THEN Null ELSE added[i + 1]
  BY <1>1, ChainFacts DEF Links, AddPlace
<1>4. CASE AddHead
  <2>1. n = 0 /\ head' = new /\ next' = next /\ adder' = "alone"
    BY <1>4 DEF AddHead, AddPlace
  <2>2. Links'
    <3>1. Linked' = 1 /\ head' = added[1] /\ next'[added[1]] = Null
      BY <1>2, <1>3, <2>1
    <3> QED
      BY <1>1, <3>1 DEF Links
  <2>3. AddPlace'
    <3>1. Linked' = 1
      BY <1>2, <2>1
    <3> QED
      BY <1>1, <2>1, <3>1 DEF AddPlace
  <2> QED
    BY <1>1, <1>2, <2>2, <2>3 DEF Chain
<1>5. CASE AddLink
  <2>1. n > 0 /\ at = added[n] /\ head' = head /\ adder' = "last"
    BY <1>5 DEF AddLink, AddPlace
  <2>2. next' = [next EXCEPT ![added[n]] = added[n + 1]] /\ next \in [El -> Ptr]
    BY <1>3, <1>5, <2>1 DEF AddLink, Types
  <2> HIDE DEF n
  <2>3. \A i \in 1..(n + 1) : next'[added[i]] = IF i = n + 1 THEN Null ELSE added[i + 1]
    <3> SUFFICES ASSUME NEW i \in 1..(n + 1)
                 PROVE  next'[added[i]] = IF i = n + 1 THEN Null ELSE added[i + 1]
      OBVIOUS
    <3>1. CASE i = n + 1
      BY <3>1, <1>3, <2>1, <2>2
    <3>2. CASE i = n
      BY <3>2, <1>3, <2>1, <2>2
    <3>3. CASE i < n
      BY <3>3, <1>3, <2>1, <2>2
    <3> QED
      BY <3>1, <3>2, <3>3, <1>3
  <2>4. head' = added[1] /\ n + 1 # 0 /\ n + 1 > 1
    BY <1>3, <2>1
  <2>5. Linked' = n + 1
    BY <1>2 DEF n
  <2>6. Links'
    BY <1>1, <2>3, <2>4, <2>5 DEF Links
  <2>7. AddPlace'
    BY <1>1, <2>1, <2>4, <2>5 DEF AddPlace
  <2> QED
    BY <1>1, <1>2, <2>6, <2>7 DEF Chain
<1> QED
  BY <1>4, <1>5

\* The stores that let prev of the head follow.
LEMMA LastChain ==
    ASSUME Types, Given, Chain, AddAlone \/ AddLast
    PROVE  Chain' /\ Linked' = Linked /\ UNCHANGED added
<1> Links /\ AddPlace
  BY DEF Chain
<1>1. /\ ~Preparing /\ ~Preparing' /\ UNCHANGED <<head, next, added, new>>
      /\ adder # "idle" /\ adder' = "idle"
  BY DEF AddAlone, AddLast, Preparing
<1>2. Linked' = Linked
  BY <1>1 DEF Linked
<1>3. new = added[Linked] /\ head \in El
  <2>1. Linked = 1 \/ Linked > 1
    BY DEF AddAlone, AddLast, AddPlace
  <2> QED
    BY <1>1, <2>1, ChainFacts DEF Given
<1>4. prev'[head] = added[Linked]
  <2>1. CASE AddAlone
    <3>1. new = head
      <4>1. Linked = 1
        BY <2>1 DEF AddAlone, AddPlace
      <4> QED
        BY <1>3, <4>1 DEF Links
    <3> QED
      BY <1>3, <2>1, <3>1 DEF AddAlone, Types
  <2>2. CASE AddLast
    BY <1>3, <2>2 DEF AddLast, AddPlace, Types
  <2> QED
    BY <2>1, <2>2
<1>5. Links'
  BY <1>1, <1>2 DEF Links
<1>6. AddPlace'
  BY <1>1, <1>2, <1>4 DEF AddPlace
<1> QED
  BY <1>1, <1>2, <1>5, <1>6 DEF Chain

\* The adder never follows a null pointer.
LEMMA NoFault == ASSUME Given, Chain PROVE ~AddFault
<1> Links /\ AddPlace
  BY DEF Chain
<1>1. Linked \in Nat /\ (Linked > 0 => head \in El /\ added[Linked] \in El)
  BY ChainFacts
<1>2. ASSUME AddFault PROVE FALSE
  <2>1. /\ Linked > 0 \/ Linked > 1
        /\ at = head \/ at = added[Linked]
    BY <1>2 DEF AddFault, AddPlace
  <2>2. at = Null
    BY <1>2 DEF AddFault
  <2>3. at \in El
    BY <1>1, <2>1
  <2> QED
    BY <2>2, <2>3, NullAssumption
<1> QED
  BY <1>2

\* What an adder's step does to the chain.
LEMMA AddChain ==
    ASSUME Types, Given, Chain, Add
    PROVE  /\ Chain' /\ UNCHANGED fault
           /\ \/ Linked' = Linked
              \/ Linked' = Linked + 1 /\ Linked + 1 = Len(added) /\ UNCHANGED added
           /\ \A i \in 1..Linked : added'[i] = added[i]
<1>1. UNCHANGED fault
  BY NoFault DEF Add, AddCall, AddNull, AddTest, AddHead, AddAlone, AddLoadHead, AddPrev,
     AddLoadLast, AddLink, AddLast
<1>2. CASE AddCall
  BY <1>1, <1>2, AddCallChain
<1>3. CASE AddNull \/ AddTest \/ AddPrev \/ AddLoadLast
  BY <1>1, <1>3, PrepareChain
<1>4. CASE AddLoadHead
  BY <1>1, <1>4, LoadHeadChain
<1>5. CASE AddHead \/ AddLink
  BY <1>1, <1>5, LinkChain
<1>6. CASE AddAlone \/ AddLast
  BY <1>1, <1>6, LastChain
<1> QED
  BY <1>2, <1>3, <1>4, <1>5, <1>6, NoFault DEF Add

------------------------------------------------------------------------------
(* Lists that are searched: the search *)

\* The search goes on as it was while the adder adds.
LEMMA SearchAdd == ASSUME Types, Given, Chain, Search, Add PROVE Search'
<1>1. UNCHANGED <<finder, target, el, nx, present>>
  BY AddOnly DEF findVars
<1> DEFINE n == Linked
           m == Linked'
<1>2. n \in Nat /\ m \in Nat /\ n <= m /\ \A i \in 1..n : added'[i] = added[i]
  BY AddChain, ChainFacts DEF Chain
<1> HIDE DEF n, m
<1>3. {el, nx} \subseteq {added'[i] : i \in 1..m} \cup {Null}
  <2>1. {el, nx} \subseteq {added[i] : i \in 1..n} \cup {Null}
    BY DEF Search, n
  <2> QED
    BY <1>2, <2>1
<1>4. present =>
          \E i, k \in 1..m :
              /\ el = added'[i] /\ target = added'[k] /\ i <= k
              /\ finder = "look" /\ i < k => nx = added'[i + 1]
  <2> SUFFICES ASSUME present = TRUE
               PROVE  \E i, k \in 1..m :
                          /\ el = added'[i] /\ target = added'[k] /\ i <= k
                          /\ finder = "look" /\ i < k => nx = added'[i + 1]
    BY Zenon
  <2>1. PICK i \in 1..n, k \in 1..n :
            /\ el = added[i] /\ target = added[k] /\ i <= k
            /\ finder = "look" /\ i < k => nx = added[i + 1]
    BY Zenon DEF Search, n
  <2>2. i \in 1..m /\ k \in 1..m /\ (i < k => i + 1 \in 1..n)
    BY <1>2
  <2>3. el = added'[i] /\ target = added'[k] /\ (i < k => added'[i + 1] = added[i + 1])
    BY <1>2, <2>1, <2>2
  <2> QED
    BY <2>1, <2>2, <2>3
<1> QED
  BY <1>1, <1>3, <1>4, Zenon DEF Search, m

\* Following next from a linked element ends at a linked element or at null.
LEMMA LinkedNext ==
    ASSUME Given, Links
    PROVE  /\ \A p \in {added[i] : i \in 1..Linked} \cup {Null} :
                  NextOf(p) \in {added[i] : i \in 1..Linked} \cup {Null}
           /\ \A i \in 1..Linked : i + 1 \in 1..Linked => NextOf(added[i]) = added[i + 1]
<1> DEFINE n == Linked
<1>1. /\ n \in Nat
      /\ \A i \in 1..n : added[i] # Null
      /\ \A i \in 1..n : next[added[i]] = IF i = n THEN Null ELSE added[i + 1]
  BY ChainFacts DEF Links
<1> HIDE DEF n
<1>2. \A i \in 1..n : NextOf(added[i]) = IF i = n THEN Null ELSE added[i + 1]
  BY <1>1 DEF NextOf
<1>3. \A i \in 1..n : NextOf(added[i]) \in {added[j] : j \in 1..n} \cup {Null}
  <2> SUFFICES ASSUME NEW i \in 1..n
               PROVE  NextOf(added[i]) \in {added[j] : j \in 1..n} \cup {Null}
    OBVIOUS
  <2>1. i = n \/ i + 1 \in 1..n
    BY <1>1
  <2> QED
    BY <1>2, <2>1
<1>4. NextOf(Null) = Null
  BY DEF NextOf
<1>5. \A i \in 1..n : i + 1 \in 1..n => NextOf(added[i]) = added[i + 1]
  BY <1>1, <1>2
<1> QED
  BY <1>3, <1>4, <1>5 DEF n

LEMMA SearchFind ==
    ASSUME Types, Given, Chain, Search, Find
    PROVE  Search' /\ Chain' /\ Linked' = Linked
<1>1. UNCHANGED <<head, prev, next, adder, new, at, added>>
  BY FindOnly DEF memory, addVars
<1>2. Preparing' = Preparing /\ Linked' = Linked
  BY <1>1 DEF Linked, Preparing
<1>3. Chain'
  BY <1>1, <1>2 DEF Chain, Links, AddPlace
<1> DEFINE n == Linked
           L == {added[i] : i \in 1..n}
           Ahead(e, x, t, f) ==
               \E i, k \in 1..n :
                   /\ e = added[i] /\ t = added[k] /\ i <= k
                   /\ f = "look" /\ i < k => x = added[i + 1]
<1>4. /\ n \in Nat
      /\ head = Null \/ head \in L
      /\ n > 0 => head = added[1]
      /\ \A p \in L \cup {Null} : NextOf(p) \in L \cup {Null}
      /\ \A i \in 1..n : i + 1 \in 1..n => NextOf(added[i]) = added[i + 1]
  BY ChainFacts, LinkedNext DEF Chain
<1>5. /\ finder = "idle" => el = Null /\ nx = Null /\ target = Null /\ ~present
      /\ finder # "idle" => target \in El
      /\ {el, nx} \subseteq L \cup {Null}
      /\ present => Ahead(el, nx, target, finder)
  BY Zenon DEF Search
<1>6. SUFFICES /\ finder' = "idle" => el' = Null /\ nx' = Null /\ target' = Null /\ ~present'
               /\ finder' # "idle" => target' \in El
               /\ {el', nx'} \subseteq L \cup {Null}
               /\ present' => Ahead(el', nx', target', finder')
  BY <1>1, <1>2, <1>3, Zenon DEF Search
<1>7. Visible = [i \in 1..n |-> added[i]]
  BY VisibleChain
<1> HIDE DEF n
<1>8. CASE FindCall
  <2>1. /\ target' \in El /\ el' = head /\ nx' = nx /\ finder = "idle" /\ finder' = "ahead"
        /\ present' => target' \in ToSet(Visible)
    BY <1>8, Zenon DEF FindCall
  <2>2. nx' = Null
    BY <1>5, <2>1, Zenon
  <2>3. ASSUME present' PROVE Ahead(el', nx', target', finder')
    <3>1. PICK k \in 1..n : target' = added[k]
      BY <1>7, <2>1, <2>3 DEF ToSet
    <3>2. n > 0 /\ 1 \in 1..n /\ 1 <= k
      BY <1>4
    <3>3. el' = added[1]
      BY <1>4, <2>1, <3>2
    <3> QED
      BY <2>1, <3>1, <3>2, <3>3
  <2> QED
    BY <1>4, <2>1, <2>2, <2>3
<1>9. CASE FindAhead
  <2>1. /\ finder = "ahead" /\ finder' = "look" /\ target' = target
        /\ el' = el /\ nx' = NextOf(el) /\ present' = present
    BY <1>9 DEF FindAhead
  <2>2. ASSUME present' PROVE Ahead(el', nx', target', finder')
    <3>1. Ahead(el, nx, target, finder)
      BY <1>5, <2>1, <2>2, Zenon
    <3>2. PICK i \in 1..n, k \in 1..n : el = added[i] /\ target = added[k] /\ i <= k
      BY <3>1
    <3>3. i < k => i + 1 \in 1..n
      BY <1>4
    <3>4. i < k => nx' = added[i + 1]
      BY <1>4, <2>1, <3>2, <3>3
    <3> QED
      BY <2>1, <3>2, <3>4
  <2> HIDE DEF Ahead
  <2>3. target' \in El /\ {el', nx'} \subseteq L \cup {Null}
    BY <1>4, <1>5, <2>1
  <2> QED
    BY <2>1, <2>2, <2>3
<1>10. CASE FindNext
  <2>1. /\ finder = "look" /\ finder' = "look" /\ target' = target
        /\ el \notin {Null, target} /\ el' = nx /\ nx' = NextOf(nx) /\ present' = present
    BY <1>10 DEF FindNext
  <2>2. ASSUME present' PROVE Ahead(el', nx', target', finder')
    <3>1. Ahead(el, nx, target, finder)
      BY <1>5, <2>1, <2>2, Zenon
    <3>2. PICK i \in 1..n, k \in 1..n :
              /\ el = added[i] /\ target = added[k] /\ i <= k
              /\ i < k => nx = added[i + 1]
      BY <2>1, <3>1
    <3>3. i # k
      BY <2>1, <3>2
    <3>4. i < k /\ i + 1 \in 1..n /\ i + 1 <= k /\ (i + 1 < k => (i + 1) + 1 \in 1..n)
      BY <1>4, <3>2, <3>3
    <3>5. el' = added[i + 1] /\ (i + 1 < k => nx' = added[(i + 1) + 1])
      BY <1>4, <2>1, <3>2, <3>4
    <3> QED
      BY <2>1, <3>2, <3>4, <3>5
  <2> HIDE DEF Ahead
  <2>3. target' \in El /\ {el', nx'} \subseteq L \cup {Null}
    BY <1>4, <1>5, <2>1
  <2> QED
    BY <2>1, <2>2, <2>3
<1>11. CASE FindReturn
  BY <1>11 DEF FindReturn
<1> QED
  BY <1>8, <1>9, <1>10, <1>11 DEF Find

------------------------------------------------------------------------------
(* Lists that elements are taken from *)

LEMMA BeforeTrans ==
    ASSUME Given, NEW x, NEW y, NEW z, Before(added, x, y), Before(added, y, z)
    PROVE  Before(added, x, z)
<1>1. PICK i \in DOMAIN added, j \in DOMAIN added : i < j /\ added[i] = x /\ added[j] = y
  BY DEF Before
<1>2. PICK k \in DOMAIN added, l \in DOMAIN added : k < l /\ added[k] = y /\ added[l] = z
  BY DEF Before
<1>3. j = k /\ i < l
  BY <1>1, <1>2 DEF Given
<1> QED
  BY <1>1, <1>2, <1>3 DEF Before

\* The order of what was added stays as it is.
LEMMA BeforeGrows ==
    ASSUME Given, Add, NEW x, NEW y, Before(added, x, y)
    PROVE  Before(added', x, y)
<1>1. PICK i \in DOMAIN added, j \in DOMAIN added : i < j /\ added[i] = x /\ added[j] = y
  BY DEF Before
<1>2. CASE AddCall
  <2>1. DOMAIN added \subseteq DOMAIN added' /\ \A k \in DOMAIN added : added'[k] = added[k]
    BY <1>2, AddCallGiven
  <2> QED
    BY <1>1, <2>1 DEF Before
<1>3. CASE UNCHANGED added
  BY <1>3
<1> QED
  BY <1>2, <1>3, AddElse

\* What the invariant says of the elements, in a form the steps below can cite.
LEMMA TakeFacts ==
    ASSUME Types, Given, Forward, Taking
    PROVE  /\ Prepared \subseteq El /\ Null \notin Prepared
           /\ \A x \in Prepared : \E i \in DOMAIN added : x = added[i]
           /\ adder # "null" => \A i \in DOMAIN added : added[i] \in Prepared
           /\ Preparing => new \in El /\ new # Null
           /\ Preparing /\ adder # "null" => new \in Prepared
           /\ taker # "idle" => first = head /\ first \in Prepared
<1>1. Prepared \subseteq El /\ Null \notin Prepared
  BY NullAssumption DEF Prepared, Given
<1>2. \A x \in Prepared : \E i \in DOMAIN added : x = added[i]
  BY DEF Prepared
<1>3. adder # "null" => \A i \in DOMAIN added : added[i] \in Prepared
  BY DEF Prepared
<1>4. Preparing => new \in El /\ new # Null /\ \E i \in DOMAIN added : new = added[i]
  <2>1. Preparing => adder # "idle"
    BY DEF Preparing
  <2>2. added # <<>> => Len(added) \in DOMAIN added
    BY DEF Given
  <2> QED
    BY <2>1, <2>2, NullAssumption DEF Given
<1>5. taker # "idle" => first = head /\ first \in Prepared
  <2>1. taker # "idle" => first \in El /\ first = head
    BY DEF Types, Taking, TakePlace
  <2> QED
    BY <2>1, NullAssumption DEF Taking, HeadPrepared
<1> QED
  BY <1>1, <1>2, <1>3, <1>4, <1>5

\* Where next of an element leads, and that it does not lead to one being prepared.
LEMMA NextFacts ==
    ASSUME Types, Given, Forward, Taking, NEW x \in Prepared
    PROVE  /\ next[x] = Null \/ \E i \in DOMAIN added : next[x] = added[i]
           /\ Preparing /\ x # new => next[x] # new
<1>1. next[x] = Null \/ Before(added, x, next[x]) \/ next[x] = x
  BY DEF Forward
<1>2. next[x] = Null \/ \E i \in DOMAIN added : next[x] = added[i]
  BY <1>1, TakeFacts DEF Before
<1>3. Preparing /\ x # new => next[x] # new
  BY DEF Taking, NewPlace, Unreached
<1> QED
  BY <1>2, <1>3

LEMMA AddCallTaking ==
    ASSUME Types, Given, Forward, Taking, AddCall
    PROVE  Forward' /\ Taking'
<1>1. /\ UNCHANGED <<head, taken, taker, val, first>>
      /\ finder' = finder /\ el' = el /\ nx' = nx /\ present' = present
      /\ adder = "idle" /\ adder' = "null"
  BY DEF AddCall, takeVars, findVars
<1>2. /\ new' \in El
      /\ \A i \in DOMAIN added : added'[i] = added[i] /\ added[i] # new'
      /\ DOMAIN added' = DOMAIN added \cup {Len(added) + 1}
      /\ added'[Len(added) + 1] = new'
  <2>1. DOMAIN added = 1..Len(added) /\ DOMAIN added' = 1..(Len(added) + 1)
        /\ Len(added) \in Nat /\ Len(added') = Len(added) + 1
    BY AddCallGiven DEF Given
  <2>2. DOMAIN added' = DOMAIN added \cup {Len(added) + 1}
    BY <2>1
  <2> QED
    BY <2>1, <2>2, AddCallGiven
<1>3. Prepared' = Prepared /\ new' \notin Prepared
  <2>1. Prepared = {added[i] : i \in DOMAIN added}
    BY <1>1 DEF Prepared
  <2>2. Prepared' = {added'[i] : i \in DOMAIN added'} \ {new'}
    BY <1>1 DEF Prepared
  <2> QED
    BY <1>2, <2>1, <2>2
<1>4. \A x \in Prepared : next'[x] = next[x]
  BY <1>3, TakeFacts DEF AddCall, Types
<1>5. \A x, y : Before(added, x, y) => Before(added', x, y)
  BY BeforeGrows DEF Add
<1>6. Forward'
  <2> SUFFICES ASSUME NEW x \in Prepared
               PROVE  \/ next'[x] = Null
                      \/ Before(added', x, next'[x])
                      \/ next'[x] = x /\ Unreached(x)'
    BY <1>3 DEF Forward
  <2>1. Unreached(x) => Unreached(x)'
    BY <1>1, <1>3, <1>4 DEF Unreached
  <2> QED
    BY <1>4, <1>5, <2>1 DEF Forward
<1>7. HeadPrepared' /\ NoSearch'
  BY <1>1, <1>3 DEF Taking, HeadPrepared, NoSearch
<1>8. InOrder'
  BY <1>1, <1>2, <1>5 DEF Taking, InOrder
<1>9. TakePlace'
  BY <1>1, <1>3, <1>5 DEF Taking, TakePlace
<1>10. Unreached(new)'
  <2>1. head # new' /\ (taker = "head" => val # new')
    BY <1>2, <1>3, NullAssumption DEF Taking, HeadPrepared, TakePlace
  <2>2. \A y \in Prepared : next[y] # new'
    BY <1>2, NextFacts, NullAssumption
  <2> QED
    BY <1>1, <1>3, <1>4, <2>1, <2>2 DEF Unreached
<1>11. \A i \in DOMAIN taken : taken[i] # new'
  BY <1>2 DEF Taking, InOrder
<1>12. NewPlace'
  BY <1>1, <1>10, <1>11 DEF NewPlace
<1> QED
  BY <1>6, <1>7, <1>8, <1>9, <1>12 DEF Taking

LEMMA AddNullTaking ==
    ASSUME Types, Given, Forward, Taking, AddNull
    PROVE  Forward' /\ Taking'
<1>1. /\ UNCHANGED <<head, taken, taker, val, first, new, added>>
      /\ finder' = finder /\ el' = el /\ nx' = nx /\ present' = present
      /\ adder = "null" /\ adder' = "test" /\ Preparing /\ Preparing'
      /\ next' = [next EXCEPT ![new] = Null]
  BY DEF AddNull, takeVars, findVars, Preparing
<1>2. new \in El /\ Prepared \subseteq El
  BY <1>1, TakeFacts
<1>3. Prepared' = Prepared \cup {new} /\ new \notin Prepared
  <2>1. \E i \in DOMAIN added : added[i] = new
    BY <1>1 DEF Given
  <2>2. Prepared = {added[i] : i \in DOMAIN added} \ {new}
    BY <1>1 DEF Prepared
  <2>3. Prepared' = {added[i] : i \in DOMAIN added}
    BY <1>1 DEF Prepared
  <2> QED
    BY <2>1, <2>2, <2>3
<1>4. next'[new] = Null /\ \A x \in Prepared : next'[x] = next[x]
  BY <1>1, <1>2, <1>3 DEF Types
<1>5. Unreached(new)'
  BY <1>1, <1>3, <1>4 DEF Taking, NewPlace, Unreached
<1>6. Forward'
  <2> SUFFICES ASSUME NEW x \in Prepared
               PROVE  \/ next'[x] = Null
                      \/ Before(added, x, next'[x])
                      \/ next'[x] = x /\ Unreached(x)'
    BY <1>1, <1>3, <1>4 DEF Forward
  <2>1. Unreached(x) => Unreached(x)'
    BY <1>1, <1>2, <1>3, <1>4, NullAssumption DEF Unreached
  <2> QED
    BY <1>4, <2>1 DEF Forward
<1>7. HeadPrepared' /\ NoSearch' /\ InOrder'
  BY <1>1, <1>3 DEF Taking, HeadPrepared, NoSearch, InOrder
<1>8. TakePlace'
  BY <1>1, <1>3 DEF Taking, TakePlace
<1>9. NewPlace'
  BY <1>1, <1>4, <1>5 DEF Taking, NewPlace
<1> QED
  BY <1>6, <1>7, <1>8, <1>9 DEF Taking

LEMMA AddHeadTaking ==
    ASSUME Types, Given, Forward, Taking, AddHead
    PROVE  Forward' /\ Taking'
<1>1. /\ UNCHANGED <<next, taken, taker, val, first, new, added>>
      /\ finder' = finder /\ el' = el /\ nx' = nx /\ present' = present
      /\ adder = "head" /\ adder' = "alone" /\ Preparing /\ ~Preparing'
      /\ head' = new
  BY DEF AddHead, takeVars, findVars, Preparing
<1>2. /\ head = Null /\ taker = "idle" /\ next[new] = Null /\ new \in Prepared
      /\ \A i \in DOMAIN taken : taken[i] # new
      /\ new # Null
  BY <1>1, TakeFacts DEF Taking, NewPlace
<1>3. Prepared' = Prepared
  BY <1>1 DEF Prepared
<1>4. Forward'
  <2> SUFFICES ASSUME NEW x \in Prepared
               PROVE  \/ next[x] = Null
                      \/ Before(added, x, next[x])
                      \/ next[x] = x /\ Unreached(x)'
    BY <1>1, <1>3 DEF Forward
  <2>1. CASE next[x] = x /\ Unreached(x)
    <3>1. x # new
      BY <1>2, <2>1
    <3>2. Unreached(x)'
      BY <1>1, <1>2, <1>3, <2>1, <3>1 DEF Unreached
    <3> QED
      BY <2>1, <3>2
  <2> QED
    BY <2>1 DEF Forward
<1>5. HeadPrepared' /\ NoSearch' /\ InOrder'
  BY <1>1, <1>2, <1>3 DEF Taking, HeadPrepared, NoSearch, InOrder
<1>6. \A i \in DOMAIN taken : Before(added, taken[i], new)
  <2> SUFFICES ASSUME NEW i \in DOMAIN taken
               PROVE  Before(added, taken[i], new)
    OBVIOUS
  <2>1. /\ DOMAIN added = 1..Len(added) /\ Len(added) \in Nat
        /\ new = added[Len(added)] /\ added # <<>>
    BY <1>1 DEF Given
  <2>2. PICK j \in DOMAIN added : taken[i] = added[j]
    BY DEF Taking, InOrder
  <2>3. j # Len(added)
    BY <1>2, <2>1, <2>2
  <2>4. j < Len(added) /\ Len(added) \in DOMAIN added
    BY <2>1, <2>3
  <2> QED
    BY <2>1, <2>2, <2>4 DEF Before
<1>7. TakePlace'
  BY <1>1, <1>2, <1>3, <1>6 DEF TakePlace
<1>8. NewPlace'
  BY <1>1 DEF NewPlace
<1> QED
  BY <1>4, <1>5, <1>7, <1>8 DEF Taking

\* The pointer followed may be that of any element, prev being what it is.
LEMMA AddLinkTaking ==
    ASSUME Types, Given, Forward, Taking, AddLink
    PROVE  Forward' /\ Taking'
<1>1. /\ UNCHANGED <<head, taken, taker, val, first, new, added>>
      /\ finder' = finder /\ el' = el /\ nx' = nx /\ present' = present
      /\ adder = "next of" /\ adder' = "last" /\ Preparing /\ ~Preparing'
      /\ next' = [next EXCEPT ![at] = new] /\ at # Null
  BY DEF AddLink, takeVars, findVars, Preparing
<1>2. /\ next[new] = Null /\ new \in Prepared /\ Unreached(new)
      /\ at \in El /\ Prepared \subseteq El /\ new # Null
  BY <1>1, TakeFacts DEF Taking, NewPlace, Types, Ptr
<1>3. Prepared' = Prepared
  BY <1>1 DEF Prepared
<1>4. next'[at] = new /\ \A x \in El \ {at} : next'[x] = next[x]
  BY <1>1, <1>2 DEF Types
<1>5. Forward'
  <2> SUFFICES ASSUME NEW x \in Prepared
               PROVE  \/ next'[x] = Null
                      \/ Before(added, x, next'[x])
                      \/ next'[x] = x /\ Unreached(x)'
    BY <1>1, <1>3 DEF Forward
  <2>1. CASE x # at
    <3>1. next'[x] = next[x]
      BY <1>2, <1>4, <2>1
    <3>2. next[x] = x /\ Unreached(x) => x # new
      BY <1>2
    <3>3. x # new /\ Unreached(x) => Unreached(x)'
      BY <1>1, <1>2, <1>3, <1>4 DEF Unreached
    <3> QED
      BY <3>1, <3>2, <3>3 DEF Forward
  <2>2. CASE x = at /\ at = new
    <3>1. \A y \in Prepared \ {new} : next'[y] = next[y]
      BY <1>2, <1>4, <2>2
    <3>2. Unreached(x)'
      BY <1>1, <1>2, <1>3, <2>2, <3>1 DEF Unreached
    <3> QED
      BY <1>4, <2>2, <3>2
  <2>3. CASE x = at /\ at # new
    <3>1. /\ DOMAIN added = 1..Len(added) /\ Len(added) \in Nat
          /\ new = added[Len(added)] /\ added # <<>>
      <4>1. adder # "idle"
        BY <1>1
      <4>2. new = added[Len(added)] /\ added # <<>>
        BY <4>1 DEF Given
      <4> QED
        BY <4>2 DEF Given
    <3>2. PICK j \in DOMAIN added : x = added[j]
      BY TakeFacts
    <3>3. j < Len(added) /\ Len(added) \in DOMAIN added
      BY <2>3, <3>1, <3>2
    <3>4. Before(added, x, new)
      BY <3>1, <3>2, <3>3 DEF Before
    <3> QED
      BY <1>4, <2>3, <3>4
  <2> QED
    BY <2>1, <2>2, <2>3
<1>6. HeadPrepared' /\ NoSearch' /\ InOrder'
  BY <1>1, <1>3 DEF Taking, HeadPrepared, NoSearch, InOrder
<1>7. TakePlace'
  BY <1>1, <1>3 DEF Taking, TakePlace
<1>8. NewPlace'
  BY <1>1 DEF NewPlace
<1> QED
  BY <1>5, <1>6, <1>7, <1>8 DEF Taking

\* The steps that leave head and next alone.
LEMMA AddRestTaking ==
    ASSUME Types, Given, Forward, Taking,
           AddTest \/ AddAlone \/ AddLoadHead \/ AddPrev \/ AddLoadLast \/ AddLast \/ AddFault
    PROVE  Forward' /\ Taking'
<1>1. /\ UNCHANGED <<head, next, taken, taker, val, first, new, added>>
      /\ finder' = finder /\ el' = el /\ nx' = nx /\ present' = present
      /\ adder # "null" /\ adder' # "null" /\ (Preparing' => Preparing)
      /\ adder' = "head" => adder = "head" \/ head = Null
  BY DEF AddTest, AddAlone, AddLoadHead, AddPrev, AddLoadLast, AddLast, AddFault, Fault,
         takeVars, findVars, memory, addVars, Preparing
<1>2. Prepared' = Prepared
  BY <1>1 DEF Prepared
<1>3. \A x : Unreached(x) <=> Unreached(x)'
  BY <1>1, <1>2 DEF Unreached
<1>4. Forward'
  BY <1>1, <1>2, <1>3 DEF Forward
<1>5. HeadPrepared' /\ NoSearch' /\ InOrder'
  BY <1>1, <1>2 DEF Taking, HeadPrepared, NoSearch, InOrder
<1>6. TakePlace'
  BY <1>1, <1>2 DEF Taking, TakePlace
<1>7. head = Null => taker = "idle"
  BY TakeFacts
<1>8. NewPlace'
  <2>1. Preparing' => Unreached(new)' /\ (\A i \in DOMAIN taken' : taken'[i] # new')
    BY <1>1, <1>2 DEF Taking, NewPlace, Unreached
  <2> QED
    BY <1>1, <1>7, <2>1 DEF Taking, NewPlace
<1> QED
  BY <1>4, <1>5, <1>6, <1>8 DEF Taking

LEMMA AddTaking == ASSUME Types, Given, Forward, Taking, Add PROVE Forward' /\ Taking'
  BY AddCallTaking, AddNullTaking, AddHeadTaking, AddLinkTaking, AddRestTaking DEF Add

LEMMA TakeFirstTaking ==
    ASSUME Types, Given, Forward, Taking, TakeFirst
    PROVE  Forward' /\ Taking'
<1>1. /\ UNCHANGED <<head, next, adder, val, new, added>>
      /\ finder' = finder /\ el' = el /\ nx' = nx /\ present' = present
      /\ (Preparing <=> Preparing')
      /\ taker = "idle" /\ taker' = "test" /\ head # Null
      /\ first' = head /\ taken' = Append(taken, head)
  BY DEF TakeFirst, findVars, memory, addVars, Preparing
<1>2. Prepared' = Prepared /\ head \in Prepared
  BY <1>1 DEF Prepared, Taking, HeadPrepared
<1>3. \A x : Unreached(x) => Unreached(x)'
  BY <1>1, <1>2 DEF Unreached
<1>4. Forward'
  BY <1>1, <1>2, <1>3 DEF Forward
<1>5. HeadPrepared' /\ NoSearch'
  BY <1>1, <1>2 DEF Taking, HeadPrepared, NoSearch
<1> DEFINE l == Len(taken)
<1>6. /\ l \in Nat /\ DOMAIN taken = 1..l /\ DOMAIN taken' = 1..(l + 1)
      /\ Len(taken') = l + 1
      /\ taken'[l + 1] = head /\ \A i \in 1..l : taken'[i] = taken[i]
  <2>1. taken \in Seq(El) /\ head \in El
    BY <1>2, TakeFacts DEF Given
  <2> QED
    BY <1>1, <2>1
<1> HIDE DEF l
<1>7. \A i \in 1..l : Before(added, taken[i], head)
  BY <1>1, <1>6 DEF Taking, TakePlace
<1>8. InOrder'
  <2>1. \A i, j \in 1..(l + 1) : i < j => Before(added, taken'[i], taken'[j])
    <3> SUFFICES ASSUME NEW i \in 1..(l + 1), NEW j \in 1..(l + 1), i < j
                 PROVE  Before(added, taken'[i], taken'[j])
      OBVIOUS
    <3>1. i \in 1..l /\ (j \in 1..l \/ j = l + 1)
      BY <1>6
    <3> QED
      BY <1>6, <1>7, <3>1 DEF Taking, InOrder
  <2>2. \A i \in 1..(l + 1) : \E j \in DOMAIN added : taken'[i] = added[j]
    <3> SUFFICES ASSUME NEW i \in 1..(l + 1)
                 PROVE  \E j \in DOMAIN added : taken'[i] = added[j]
      OBVIOUS
    <3>1. i \in 1..l \/ i = l + 1
      BY <1>6
    <3> QED
      BY <1>2, <1>6, <3>1, TakeFacts DEF Taking, InOrder
  <2> QED
    BY <1>1, <1>6, <2>1, <2>2 DEF InOrder
<1>9. TakePlace'
  BY <1>1, <1>6 DEF TakePlace
<1>10. Preparing => \A i \in 1..(l + 1) : taken'[i] # new
  <2> SUFFICES ASSUME Preparing, NEW i \in 1..(l + 1) PROVE taken'[i] # new
    OBVIOUS
  <2>1. i \in 1..l \/ i = l + 1
    BY <1>6
  <2>2. head # new
    BY DEF Taking, NewPlace, Unreached
  <2> QED
    BY <1>6, <2>1, <2>2 DEF Taking, NewPlace
<1>11. NewPlace'
  <2>1. Preparing' => Unreached(new)'
    BY <1>1, <1>2 DEF Taking, NewPlace, Unreached
  <2> QED
    BY <1>1, <1>6, <1>10, <2>1 DEF Taking, NewPlace
<1> QED
  BY <1>4, <1>5, <1>8, <1>9, <1>11 DEF Taking

\* The element is not one that is out of the list, so next leads on.
LEMMA TakeNextTaking ==
    ASSUME Types, Given, Forward, Taking, TakeNext
    PROVE  Forward' /\ Taking'
<1>1. /\ UNCHANGED <<head, next, adder, new, added, taken, first>>
      /\ finder' = finder /\ el' = el /\ nx' = nx /\ present' = present
      /\ (Preparing <=> Preparing')
      /\ taker = "next" /\ taker' = "head" /\ val' = next[first]
  BY DEF TakeNext, findVars, memory, addVars, Preparing
<1>2. Prepared' = Prepared
  BY <1>1 DEF Prepared
<1>3. head = first /\ first \in Prepared
  BY <1>1, TakeFacts
<1>4. \A x : Unreached(x) => Unreached(x)'
  BY <1>1, <1>2, <1>3 DEF Unreached
<1>5. Forward'
  BY <1>1, <1>2, <1>4 DEF Forward
<1>6. HeadPrepared' /\ NoSearch' /\ InOrder'
  BY <1>1, <1>2 DEF Taking, HeadPrepared, NoSearch, InOrder
<1>7. val' = Null \/ (val' \in Prepared /\ Before(added, first, val'))
  <2>1. next[first] = Null \/ Before(added, first, next[first])
    BY <1>3 DEF Forward, Unreached
  <2>2. next[first] # Null => next[first] \in Prepared
    <3>1. CASE adder = "null"
      <4>1. Preparing
        BY <3>1 DEF Preparing
      <4>2. next[first] # new
        BY <1>3, <3>1, <4>1, NextFacts DEF Prepared
      <4> QED
        BY <1>3, <4>2, NextFacts DEF Prepared
    <3>2. CASE adder # "null"
      BY <1>3, <3>2, NextFacts, TakeFacts
    <3> QED
      BY <3>1, <3>2
  <2> QED
    BY <1>1, <2>1, <2>2
<1>8. TakePlace'
  BY <1>1, <1>2, <1>7 DEF Taking, TakePlace
<1>9. NewPlace'
  <2>1. Preparing' => Unreached(new)'
    BY <1>1, <1>2, <1>3 DEF Taking, NewPlace, Unreached
  <2> QED
    BY <1>1, <2>1 DEF Taking, NewPlace
<1> QED
  BY <1>5, <1>6, <1>8, <1>9 DEF Taking

LEMMA TakeHeadTaking ==
    ASSUME Types, Given, Forward, Taking, TakeHead
    PROVE  Forward' /\ Taking'
<1>1. /\ UNCHANGED <<next, adder, new, added, taken, first, val>>
      /\ finder' = finder /\ el' = el /\ nx' = nx /\ present' = present
      /\ (Preparing <=> Preparing')
      /\ taker = "head" /\ taker' = "idle" /\ head' = val
  BY DEF TakeHead, findVars, addVars, Preparing
<1>2. Prepared' = Prepared
  BY <1>1 DEF Prepared
<1>3. \A x : Unreached(x) => Unreached(x)'
  BY <1>1, <1>2 DEF Unreached
<1>4. Forward'
  BY <1>1, <1>2, <1>3 DEF Forward
<1>5. HeadPrepared' /\ NoSearch' /\ InOrder'
  BY <1>1, <1>2 DEF Taking, HeadPrepared, NoSearch, InOrder, TakePlace
<1>6. ASSUME val # Null, NEW i \in DOMAIN taken PROVE Before(added, taken[i], val)
  <2>1. Before(added, first, val) /\ first = taken[Len(taken)] /\ taken # <<>>
    BY <1>1, <1>6 DEF Taking, TakePlace
  <2>2. DOMAIN taken = 1..Len(taken) /\ Len(taken) \in Nat
    BY DEF Given
  <2>3. i = Len(taken) \/ (i < Len(taken) /\ Len(taken) \in DOMAIN taken)
    BY <2>2
  <2>4. CASE i < Len(taken) /\ Len(taken) \in DOMAIN taken
    <3>1. Before(added, taken[i], first)
      BY <2>1, <2>4 DEF Taking, InOrder
    <3> QED
      BY <2>1, <3>1, BeforeTrans
  <2> QED
    BY <2>1, <2>3, <2>4
<1>7. TakePlace'
  BY <1>1, <1>6 DEF TakePlace
<1>8. NewPlace'
  <2>1. Preparing' => Unreached(new)'
    BY <1>1, <1>2 DEF Taking, NewPlace, Unreached
  <2> QED
    BY <1>1, <2>1 DEF Taking, NewPlace
<1> QED
  BY <1>4, <1>5, <1>7, <1>8 DEF Taking

LEMMA TakeRestTaking ==
    ASSUME Types, Given, Forward, Taking, TakeTest \/ TakeDest \/ TakeValue \/ TakeStore
    PROVE  Forward' /\ Taking'
<1>1. /\ UNCHANGED <<head, next, adder, new, added, taken, first>>
      /\ finder' = finder /\ el' = el /\ nx' = nx /\ present' = present
      /\ (Preparing <=> Preparing')
      /\ taker \notin {"idle", "head"} /\ taker' \notin {"idle", "head"}
  BY DEF TakeTest, TakeDest, TakeValue, TakeStore, findVars, memory, addVars, Preparing
<1>2. Prepared' = Prepared
  BY <1>1 DEF Prepared
<1>3. \A x : Unreached(x) => Unreached(x)'
  BY <1>1, <1>2 DEF Unreached
<1>4. Forward'
  BY <1>1, <1>2, <1>3 DEF Forward
<1>5. HeadPrepared' /\ NoSearch' /\ InOrder'
  BY <1>1, <1>2 DEF Taking, HeadPrepared, NoSearch, InOrder
<1>6. TakePlace'
  BY <1>1 DEF Taking, TakePlace
<1>7. NewPlace'
  <2>1. Preparing' => Unreached(new)'
    BY <1>1, <1>2 DEF Taking, NewPlace, Unreached
  <2> QED
    BY <1>1, <2>1 DEF Taking, NewPlace
<1> QED
  BY <1>4, <1>5, <1>6, <1>7 DEF Taking

LEMMA TakeTaking == ASSUME Types, Given, Forward, Taking, Take PROVE Forward' /\ Taking'
  BY TakeFirstTaking, TakeNextTaking, TakeHeadTaking, TakeRestTaking DEF Take

------------------------------------------------------------------------------
(* The invariant and what follows from it *)

LEMMA InitIInv == Init => IInv
<1> SUFFICES ASSUME Init PROVE IInv
  OBVIOUS
<1>1. Types /\ Given
  BY InitTypes
<1>2. added = <<>> /\ taken = <<>> /\ adder = "idle" /\ head = Null
  BY DEF Init
<1>3. ~Preparing /\ Linked = 0 /\ Prepared = {}
  BY <1>2 DEF Linked, Preparing, Prepared
<1>4. Chain
  BY <1>2, <1>3 DEF Chain, Links, AddPlace
<1>5. Search /\ taker = "idle" /\ ~fault
  BY <1>2, <1>3 DEF Search, Init
<1>6. Forward /\ Taking
  BY <1>2, <1>3 DEF Init, Forward, Taking, NoSearch, HeadPrepared, InOrder, TakePlace, NewPlace
<1> QED
  BY <1>1, <1>2, <1>4, <1>5, <1>6 DEF IInv

LEMMA NextIInv == IInv /\ [Next]_vars => IInv'
<1> SUFFICES ASSUME IInv, [Next]_vars PROVE IInv'
  OBVIOUS
<1>1. Types /\ Given /\ use \in {"find", "take"} /\ use' = use
  BY DEF IInv, Types, Next, vars
<1>2. head = Null \/ head \in El
  BY <1>1 DEF Types, Ptr
<1>3. Types' /\ Given'
  BY <1>1, <1>2, TypesStep
<1>4. CASE use = "find"
  <2>1. Chain /\ Search /\ taker = "idle" /\ taken = <<>> /\ ~fault
    BY <1>4 DEF IInv
  <2>2. CASE Add
    <3>1. UNCHANGED <<taker, taken, fault>>
      BY <1>1, <2>1, <2>2, AddChain, AddOnly DEF takeVars
    <3> QED
      BY <1>1, <1>3, <1>4, <2>1, <2>2, <3>1, AddChain, SearchAdd DEF IInv
  <2>3. CASE Find
    BY <1>1, <1>3, <1>4, <2>1, <2>3, SearchFind, FindOnly DEF IInv, takeVars
  <2>4. ~Take
    BY <1>4, <2>1 DEF Take, TakeFirst, TakeTest, TakeDest, TakeValue, TakeStore,
       TakeNext, TakeHead
  <2>5. CASE UNCHANGED vars
    <3>1. Chain' /\ Search'
      <4>1. UNCHANGED <<head, prev, next, adder, new, at, added, finder, target, el, nx, present>>
        BY <2>5 DEF vars, memory, addVars, findVars
      <4>2. Linked' = Linked /\ (Preparing <=> Preparing')
        BY <4>1 DEF Linked, Preparing
      <4>3. Links' /\ AddPlace'
        BY <2>1, <4>1, <4>2 DEF Chain, Links, AddPlace
      <4>4. Search'
        BY <2>1, <4>1, <4>2, Zenon DEF Search
      <4> QED
        BY <4>3, <4>4 DEF Chain
    <3> QED
      BY <1>3, <1>4, <2>1, <2>5, <3>1 DEF IInv, vars, takeVars
  <2> QED
    BY <2>2, <2>3, <2>4, <2>5 DEF Next
<1>5. CASE use = "take"
  <2>1. Forward /\ Taking
    BY <1>5 DEF IInv
  <2>2. CASE Add
    BY <1>1, <1>3, <1>5, <2>1, <2>2, AddTaking DEF IInv
  <2>3. ~Find
    BY <1>5, <2>1 DEF Find, FindCall, FindAhead, FindNext, FindReturn, Taking, NoSearch
  <2>4. CASE Take
    BY <1>1, <1>3, <1>5, <2>1, <2>4, TakeTaking DEF IInv
  <2>5. CASE UNCHANGED vars
    <3>1. Forward' /\ Taking'
      <4>1. /\ UNCHANGED <<head, next, adder, new, added, taker, first, val, taken>>
            /\ finder' = finder /\ el' = el /\ nx' = nx /\ present' = present
        BY <2>5 DEF vars, memory, addVars, findVars, takeVars
      <4>2. Prepared' = Prepared /\ (Preparing <=> Preparing')
        BY <4>1 DEF Prepared, Preparing
      <4>3. Forward' /\ NewPlace'
        BY <2>1, <4>1, <4>2 DEF Taking, Forward, NewPlace, Unreached
      <4>4. NoSearch' /\ HeadPrepared' /\ InOrder' /\ TakePlace'
        BY <2>1, <4>1, <4>2 DEF Taking, NoSearch, HeadPrepared, InOrder, TakePlace
      <4> QED
        BY <4>3, <4>4 DEF Taking
    <3> QED
      BY <1>1, <1>3, <1>5, <3>1 DEF IInv
  <2> QED
    BY <2>2, <2>3, <2>4, <2>5 DEF Next
<1> QED
  BY <1>1, <1>4, <1>5

\* The invariant: it holds of every list, at every store and load.
THEOREM ListInvariant == Spec => []IInv
  BY InitIInv, NextIInv, PTL DEF Spec

\* A search finds an element that was linked when it began, though the adder is
\* at work and the search reads one element ahead (bos/fs.c fs_fd_acquire and
\* net/netdev.c find_node, by list_find).
THEOREM FoundIfPresent == Spec => []FindsPresent
<1>1. IInv => FindsPresent
  <2> SUFFICES ASSUME IInv, finder = "look", el = Null PROVE ~present
    BY DEF FindsPresent
  <2>1. CASE use = "find"
    <3>1. Given /\ Links /\ Search
      BY <2>1 DEF IInv, Chain
    <3>2. \A i \in 1..Linked : added[i] # Null
      BY <3>1, ChainFacts
    <3> QED
      BY <3>1, <3>2 DEF Search
  <2>2. CASE use = "take"
    BY <2>2 DEF IInv, Taking, NoSearch
  <2> QED
    BY <2>1, <2>2 DEF IInv, Types
<1> QED
  BY <1>1, ListInvariant, PTL

\* A search has only linked elements in hand, never one that list_add_tail is
\* still preparing (include/sys/list2.h 65).
THEOREM SearchVisitsLinked == Spec => []VisitsLinked
<1>1. IInv => VisitsLinked
  <2> SUFFICES ASSUME IInv PROVE VisitsLinked
    OBVIOUS
  <2>1. CASE use = "find"
    <3>1. Given /\ Chain /\ Search
      BY <2>1 DEF IInv
    <3>2. Visible = [i \in 1..Linked |-> added[i]]
      BY <3>1, VisibleChain
    <3>3. ToSet(Visible) = {added[i] : i \in 1..Linked}
      BY <3>2 DEF ToSet
    <3> QED
      BY <3>1, <3>3 DEF VisitsLinked, Search
  <2>2. CASE use = "take"
    BY <2>2 DEF IInv, Taking, NoSearch, VisitsLinked
  <2> QED
    BY <2>1, <2>2 DEF IInv, Types
<1> QED
  BY <1>1, ListInvariant, PTL

\* A walk along next only ever gains the new element at its end, whatever the
\* element's pointers hold when it is allocated (include/sys/list2.h 65).
THEOREM VisibleGrowsAtEnd == Spec => GrowsAtEnd
<1> DEFINE A == \/ use = "take"
                \/ Visible' = Visible
                \/ \E e \in El \ ToSet(Visible) : Visible' = Append(Visible, e)
<1>1. (Given /\ Chain => Visible = [i \in 1..Linked |-> added[i]])'
  BY VisibleChain, PTL
<1>2. IInv /\ [Next]_vars => A \/ UNCHANGED vars
  <2> SUFFICES ASSUME IInv, Next, use = "find" PROVE A
    BY DEF IInv, Types
  <2>1. Types /\ Given /\ Chain /\ Search /\ taker = "idle"
    BY DEF IInv
  <2>2. Visible = [i \in 1..Linked |-> added[i]]
    BY <2>1, VisibleChain
  <2>3. IInv' /\ use' = "find"
    BY NextIInv DEF Next
  <2>4. Visible' = [i \in 1..Linked' |-> added'[i]]
    BY <1>1, <2>3 DEF IInv
  <2>5. CASE Linked' = Linked /\ \A i \in 1..Linked : added'[i] = added[i]
    BY <2>2, <2>4, <2>5
  <2>6. CASE /\ Linked' = Linked + 1 /\ Linked + 1 = Len(added) /\ added' = added
    <3> DEFINE n == Linked
               e == added[n + 1]
    <3>1. /\ n \in Nat
          /\ \A i \in 1..(n + 1) : added[i] \in El
          /\ \A i, j \in 1..(n + 1) : added[i] = added[j] => i = j
      BY <2>1, <2>6, LinkedRange
    <3>2. Visible = [i \in 1..n |-> added[i]] /\ Visible' = [i \in 1..(n + 1) |-> added[i]]
      BY <2>2, <2>4, <2>6
    <3> HIDE DEF n
    <3>3. e \in El \ ToSet(Visible)
      BY <3>1, <3>2 DEF ToSet
    <3>4. Visible' = Append(Visible, e)
      BY <3>1, <3>2
    <3> QED
      BY <3>3, <3>4
  <2>7. CASE Add
    BY <2>1, <2>5, <2>6, <2>7, AddChain
  <2>8. CASE Find
    BY <2>1, <2>5, <2>8, SearchFind, FindOnly DEF addVars
  <2>9. ~Take
    BY <2>1 DEF Take, TakeFirst, TakeTest, TakeDest, TakeValue, TakeStore, TakeNext, TakeHead
  <2> QED
    BY <2>7, <2>8, <2>9 DEF Next
<1>3. IInv /\ [Next]_vars => [A]_vars
  BY <1>2
<1> QED
  BY <1>3, ListInvariant, PTL DEF Spec, GrowsAtEnd

\* What list_first gives comes in the order it was added and at most once, even
\* where list_rm and list_add_tail overlap (include/sys/list2.h 65, 104).
THEOREM TakenOrderly == Spec => []TakenInOrder
<1>1. IInv => TakenInOrder
  <2> SUFFICES ASSUME IInv PROVE TakenInOrder
    OBVIOUS
  <2>1. /\ \A i, j \in DOMAIN added : added[i] = added[j] => i = j
        /\ DOMAIN added \subseteq Nat /\ added \in Seq(El)
    BY DEF IInv, Given
  <2>2. CASE use = "find"
    <3>1. DOMAIN taken = {}
      BY <2>2 DEF IInv
    <3>2. [i \in {} |-> 0] \in [DOMAIN taken -> DOMAIN added]
      BY <3>1
    <3> QED
      BY <3>1, <3>2 DEF TakenInOrder
  <2>3. CASE use = "take"
    <3>1. InOrder
      BY <2>3 DEF IInv, Taking
    <3> DEFINE place == [i \in DOMAIN taken |-> CHOOSE j \in DOMAIN added : taken[i] = added[j]]
    <3>2. place \in [DOMAIN taken -> DOMAIN added]
          /\ \A i \in DOMAIN taken : taken[i] = added[place[i]]
      BY <3>1 DEF InOrder
    <3> HIDE DEF place
    <3>3. ASSUME NEW i \in DOMAIN taken, NEW j \in DOMAIN taken, i < j
          PROVE  place[i] < place[j]
      <4>1. Before(added, taken[i], taken[j])
        BY <3>1, <3>3 DEF InOrder
      <4>2. PICK k \in DOMAIN added, l \in DOMAIN added :
                k < l /\ added[k] = taken[i] /\ added[l] = taken[j]
        BY <4>1 DEF Before
      <4>3. k = place[i] /\ l = place[j]
        BY <2>1, <3>2, <4>2
      <4> QED
        BY <4>2, <4>3
    <3> QED
      BY <3>2, <3>3 DEF TakenInOrder
  <2> QED
    BY <2>2, <2>3 DEF IInv, Types
<1> QED
  BY <1>1, ListInvariant, PTL

==============================================================================

------------------------------- MODULE List2 -------------------------------
(***************************************************************************)
(* The doubly linked list of include/sys/list2.h, list.h and sys/list2.c:  *)
(* its pointers, and the sequence of elements they are to stand for.       *)
(*                                                                         *)
(* The list has no header: head points to the first element, the prev of   *)
(* the first element points to the last one, the next of the last one is   *)
(* null.  Every operation is one step here; SharedList takes the           *)
(* operations that two threads may overlap apart.  list_for_each is a loop *)
(* around a body of the caller's, so its steps are separate; the body may  *)
(* remove and free the element it is called for, as fs_node_destroy does.  *)
(*                                                                         *)
(* The variable list is a ghost: what the caller has asked for so far.  No *)
(* operation reads it except in its precondition.                          *)
(***************************************************************************)
EXTENDS Integers, Sequences, FiniteSets, SequencesExt

CONSTANTS El,       \* the elements, each with a prev and a next
          Null      \* 0x0

ASSUME NullAssumption == Null \notin El

\* Only so many elements have room in memory.
ASSUME ElAssumption == IsFiniteSet(El)

VARIABLES head,     \* the caller's pointer to the first element
          prev, next,
          list,     \* ghost: the elements in the order asked for
          looping,  \* a list_for_each is under way
          el, nx,   \* its loop variable and the next element, read ahead
          todo      \* ghost: what the loop still has to visit, el included

memory == <<head, prev, next>>
loop == <<looping, el, nx, todo>>
vars == <<memory, list, loop>>

Ptr == El \cup {Null}
Members == {list[i] : i \in DOMAIN list}

(* The caller's duty: an element is in at most one list, once, and a list  *)
(* is not changed while it is walked, except by the body of the loop.      *)
MayAdd(e) == ~looping /\ e \notin Members

\* A list comes into being as a null pointer or by list_init of an element,
\* out of memory that holds anything.
Init ==
    /\ prev \in [El -> Ptr]
    /\ next \in [El -> Ptr]
    /\ \/ head = Null /\ list = <<>>
       \/ /\ head \in El
          /\ list = <<head>>
          /\ prev[head] = head
          /\ next[head] = Null
    /\ looping = FALSE
    /\ el = Null
    /\ nx = Null
    /\ todo = <<>>

------------------------------------------------------------------------------
(* The operations *)

AddHead(e) ==
    /\ MayAdd(e)
    /\ next' = [next EXCEPT ![e] = head]
    /\ prev' = IF head = Null
                 THEN [prev EXCEPT ![e] = e]
                 ELSE [prev EXCEPT ![e] = prev[head], ![head] = e]
    /\ head' = e
    /\ list' = <<e>> \o list
    /\ UNCHANGED loop

\* Mutant: the last element keeps its null next.
AddTailUnlinked(e) ==
    /\ MayAdd(e)
    /\ head' = IF head = Null THEN e ELSE head
    /\ prev' = IF head = Null THEN [prev EXCEPT ![e] = e]
               ELSE [prev EXCEPT ![e] = prev[head], ![head] = e]
    /\ next' = [next EXCEPT ![e] = Null]
    /\ list' = Append(list, e)
    /\ UNCHANGED loop

AddTail(e) ==
    /\ MayAdd(e)
    /\ \/ /\ head = Null
          /\ head' = e
          /\ prev' = [prev EXCEPT ![e] = e]
          /\ next' = [next EXCEPT ![e] = Null]
       \/ /\ head # Null
          /\ prev' = [prev EXCEPT ![e] = prev[head], ![head] = e]
          /\ next' = [next EXCEPT ![e] = Null, ![prev[head]] = e]
          /\ UNCHANGED head
    /\ list' = Append(list, e)
    /\ UNCHANGED loop

AddIn(e, front, back) ==
    /\ MayAdd(e)
    /\ \E i \in 2..Len(list) :
          /\ front = list[i - 1]
          /\ back = list[i]
          /\ list' = InsertAt(list, i, e)
    /\ prev' = [prev EXCEPT ![e] = front, ![back] = e]
    /\ next' = [next EXCEPT ![e] = back, ![front] = e]
    /\ UNCHANGED <<head, loop>>

\* The element e takes the place of old; in an empty list it is the first.
Replace(old, e) ==
    /\ MayAdd(e)
    /\ \/ /\ head = Null
          /\ head' = e
          /\ prev' = [prev EXCEPT ![e] = e]
          /\ next' = [next EXCEPT ![e] = Null]
          /\ list' = <<e>>
       \/ /\ head # Null
          /\ \E i \in DOMAIN list : old = list[i] /\ list' = ReplaceAt(list, i, e)
          /\ prev' = [prev EXCEPT
                         ![e] = IF next[head] = Null THEN e ELSE prev[old],
                         ![IF next[old] # Null THEN next[old] ELSE head] = e]
          /\ next' = IF old # head
                       THEN [next EXCEPT ![e] = next[old], ![prev[old]] = e]
                       ELSE [next EXCEPT ![e] = next[old]]
          /\ head' = IF old # head THEN head ELSE e
    /\ UNCHANGED loop

\* list_rm: the pointers that end up in memory, other than those of e itself.
NextWithout(e) ==
    IF e # head THEN [next EXCEPT ![prev[e]] = next[e]] ELSE next

\* Mutant: the first element's pointer to the last one is not maintained.
PrevWithoutLast(e) ==
    IF next[e] # Null THEN [prev EXCEPT ![next[e]] = prev[e]] ELSE prev

PrevWithout(e) ==
    [prev EXCEPT ![IF next[e] # Null THEN next[e] ELSE head] = prev[e]]

\* Mutant: removing the first element does not move the head.
HeadWithoutMove(e) == head

HeadWithout(e) == IF e = head THEN next[e] ELSE head

Rm(e) ==
    /\ ~looping
    /\ \E i \in DOMAIN list : e = list[i] /\ list' = RemoveAt(list, i)
    /\ next' = NextWithout(e)
    /\ prev' = PrevWithout(e)
    /\ head' = HeadWithout(e)
    /\ UNCHANGED loop

------------------------------------------------------------------------------
(* list_for_each: the loop variable is set from a copy of next taken before *)
(* the body ran, because the body may remove and free the element.         *)

NextOf(p) == IF p = Null THEN Null ELSE next[p]

EachStart ==
    /\ ~looping
    /\ looping' = TRUE
    /\ el' = head
    /\ nx' = NextOf(head)
    /\ todo' = list
    /\ UNCHANGED <<memory, list>>

\* Mutant: the usual loop that reads next only after the body has run.
EachNextLate ==
    /\ looping
    /\ el # Null
    /\ el' = next[el]
    /\ nx' = NextOf(next[el])
    /\ todo' = Tail(todo)
    /\ UNCHANGED <<memory, list, looping>>

EachNext ==
    /\ looping
    /\ el # Null
    /\ el' = nx
    /\ nx' = NextOf(nx)
    /\ todo' = Tail(todo)
    /\ UNCHANGED <<memory, list, looping>>

\* The body removes the element and frees it; then its memory holds anything.
EachFree ==
    /\ looping
    /\ \E i \in DOMAIN list : el = list[i] /\ list' = RemoveAt(list, i)
    /\ \E p, n \in Ptr :
          /\ next' = [NextWithout(el) EXCEPT ![el] = n]
          /\ prev' = [PrevWithout(el) EXCEPT ![el] = p]
    /\ head' = HeadWithout(el)
    /\ UNCHANGED loop

\* The end of the list, or a return or break in the body.
EachEnd ==
    /\ looping
    /\ looping' = FALSE
    /\ el' = Null
    /\ nx' = Null
    /\ todo' = <<>>
    /\ UNCHANGED <<memory, list>>

Next ==
    \/ \E e \in El : AddHead(e) \/ AddTail(e) \/ Rm(e)
    \/ \E e, front, back \in El : AddIn(e, front, back)
    \/ \E e, old \in El : Replace(old, e)
    \/ EachStart \/ EachNext \/ EachFree \/ EachEnd

Spec == Init /\ [][Next]_vars

------------------------------------------------------------------------------
(* The operations that only look.                                          *)

list_last == IF head # Null THEN prev[head] ELSE Null

\* What the loop variables of list_for_each hold after n rounds.
Round[n \in Nat] ==
    IF n = 0
      THEN [el |-> head, nx |-> NextOf(head)]
      ELSE [el |-> Round[n - 1].nx, nx |-> NextOf(Round[n - 1].nx)]

\* _list2_find: the elements whose member equals the reference are Match.
list_find(Match) ==
    LET Stop(n) == Round[n].el \in Match \cup {Null}
    IN  Round[CHOOSE n \in 0..Cardinality(El) :
                  Stop(n) /\ \A m \in 0..(n - 1) : ~Stop(m)].el

\* The loop of __list2_contains visits the same elements.
list_contains(e) == \E n \in 0..Cardinality(El) : Round[n].el = e

------------------------------------------------------------------------------
(* Properties *)

\* Types; head is null exactly for the empty list and otherwise points to
\* an element of the list, never to one that has been removed.
TypeOK ==
    /\ head \in IF list = <<>> THEN {Null} ELSE Members
    /\ prev \in [El -> Ptr]
    /\ next \in [El -> Ptr]
    /\ list \in Seq(El)
    /\ looping \in BOOLEAN
    /\ el \in Ptr
    /\ nx \in Ptr
    /\ todo \in Seq(El)

\* The pointers stand for the list: from head along next the elements come
\* in the order asked for and then null, prev leads back, and the prev of the
\* first element is the last one (list2.h 11-15), after any sequence of the
\* operations, whatever the memory of unlinked elements holds.
Linked ==
    /\ \A i, j \in 1..Len(list) : list[i] = list[j] => i = j
    /\ \A i \in 1..(Len(list) - 1) : next[list[i]] = list[i + 1]
    /\ \A i \in 2..Len(list) : prev[list[i]] = list[i - 1]
    /\ IF list = <<>>
         THEN head = Null
         ELSE /\ head = list[1]
              /\ prev[head] = list[Len(list)]
              /\ next[list[Len(list)]] = Null

\* The lookups answer for the list: list_last gives its last element,
\* list_contains is membership, and list_find gives the first element that
\* matches, or null if none does (list2.c 43-53).
LookupsAgree ==
    /\ list_last = IF list = <<>> THEN Null ELSE Last(list)
    /\ \A e \in El : list_contains(e) <=> e \in Members
    /\ \A Match \in SUBSET El :
          \/ list_find(Match) = Null /\ Members \cap Match = {}
          \/ \E i \in DOMAIN list : /\ list_find(Match) = list[i]
                                    /\ list[i] \in Match
                                    /\ \A j \in 1..(i - 1) : list[j] \notin Match

First(s) == IF s = <<>> THEN Null ELSE Head(s)

\* The sequence s is what list holds after its first k elements.
Ahead(s, k) ==
    /\ Len(s) = Len(list) - k
    /\ \A i \in 1..Len(s) : s[i] = list[k + i]

\* list_for_each visits every element that was in the list when the loop
\* began, in order and once, although the body frees the elements it visits
\* (fs.c 177-184): its variables are the next two elements to come, and all
\* that are to come are still linked, except the one the body has freed.
EachVisitsAll ==
    looping =>
      /\ el = First(todo)
      /\ nx = IF todo = <<>> THEN Null ELSE First(Tail(todo))
      /\ \E k \in 0..Len(list) :
            \/ Ahead(todo, k)
            \/ todo # <<>> /\ el \notin Members /\ Ahead(Tail(todo), k)

==============================================================================

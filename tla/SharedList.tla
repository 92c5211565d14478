----------------------------- MODULE SharedList -----------------------------
(***************************************************************************)
(* A list of include/sys/list2.h that threads use at the same time without *)
(* a lock: one action per load or store of shared memory, in the order in  *)
(* which gcc without optimisation compiles each assignment.                *)
(*                                                                         *)
(* The descriptors (bos/fs.c fd_lst) and the nodes (childs of the socket   *)
(* directory) have one adder, the thread that makes sockets, and finders,  *)
(* namely read_thread and the receive threads; nothing is ever taken out,  *)
(* because no descriptor is freed and no node loses its last reference.    *)
(* The clients of a server and the datagrams of a socket have one adder,   *)
(* read_thread, and one taker, the thread in bos_accept or bos_recvfrom.   *)
(* The variable use says which of the two the list is for.                 *)
(*                                                                         *)
(* Without a taker the adder reads only what it has written itself, so     *)
(* stores that become visible late, but in order, are the same to a finder *)
(* as an adder that is slow.  With a taker late stores would only add to   *)
(* what can go wrong; they are left out.                                   *)
(***************************************************************************)
EXTENDS Naturals, Sequences, FiniteSets, SequencesExt

CONSTANTS El,           \* the elements; each is added at most once
          Null,         \* 0x0
          Uses          \* the uses to look at

ASSUME NullAssumption == Null \notin El
ASSUME ElAssumption == IsFiniteSet(El)
ASSUME UsesAssumption == Uses \subseteq {"find", "take"}

VARIABLES use,          \* whether elements are searched or taken
          head, prev, next,
          adder,        \* what list_add_tail does next
          new,          \* its element
          at,           \* the pointer it has loaded to follow
          finder,       \* what _list2_find does next
          target,       \* the element it looks for
          el, nx,       \* its loop variable and the next one, read ahead
          taker,        \* what the taker does next
          first,        \* the element list_first gave it
          dest, val,    \* the pointer and the value list_rm has loaded
          fault,        \* a null pointer has been dereferenced
          added,        \* ghost: the elements given to list_add_tail, in order
          taken,        \* ghost: what list_first gave, in order
          present       \* ghost: target was linked when the search began

memory == <<head, prev, next>>
addVars == <<adder, new, at, added>>
findVars == <<finder, target, el, nx, present>>
takeVars == <<taker, first, dest, val, taken>>
vars == <<use, memory, addVars, findVars, takeVars, fault>>

Ptr == El \cup {Null}

\* The elements a walk along next meets, at most one more than there are.
Walk[n \in Nat] ==
    IF n = 0 THEN head
    ELSE IF Walk[n - 1] = Null THEN Null ELSE next[Walk[n - 1]]

Visible ==
    [n \in {m \in 1..(Cardinality(El) + 1) : Walk[m - 1] # Null} |-> Walk[n - 1]]

Init ==
    /\ use \in Uses
    /\ head = Null
    /\ prev = [e \in El |-> Null]
    /\ next = [e \in El |-> Null]
    /\ adder = "idle" /\ new = Null /\ at = Null
    /\ finder = "idle" /\ target = Null /\ el = Null /\ nx = Null
    /\ taker = "idle" /\ first = Null /\ dest = Null /\ val = Null
    /\ fault = FALSE
    /\ added = <<>> /\ taken = <<>> /\ present = FALSE

\* A null dereference ends the program.
Fault ==
    /\ fault' = TRUE
    /\ UNCHANGED <<memory, addVars, findVars, takeVars>>

------------------------------------------------------------------------------
(* list_add_tail *)

\* The element has just been allocated, its pointers hold anything.
AddCall ==
    /\ adder = "idle"
    /\ \E e \in El \ ToSet(added), p, n \in Ptr :
          /\ new' = e
          /\ added' = Append(added, e)
          /\ prev' = [prev EXCEPT ![e] = p]
          /\ next' = [next EXCEPT ![e] = n]
    /\ adder' = "null"
    /\ UNCHANGED <<head, at, findVars, takeVars, fault>>

\* Mutant: the element keeps the next pointer it was allocated with.
AddNullForgotten ==
    /\ adder = "null"
    /\ adder' = "test"
    /\ UNCHANGED <<memory, new, at, added, findVars, takeVars, fault>>

AddNull ==
    /\ adder = "null"
    /\ next' = [next EXCEPT ![new] = Null]
    /\ adder' = "test"
    /\ UNCHANGED <<head, prev, new, at, added, findVars, takeVars, fault>>

AddTest ==
    /\ adder = "test"
    /\ adder' = IF head = Null THEN "head" ELSE "prev"
    /\ UNCHANGED <<memory, new, at, added, findVars, takeVars, fault>>

AddHead ==
    /\ adder = "head"
    /\ head' = new
    /\ adder' = "alone"
    /\ UNCHANGED <<prev, next, new, at, added, findVars, takeVars, fault>>

AddAlone ==
    /\ adder = "alone"
    /\ prev' = [prev EXCEPT ![new] = new]
    /\ adder' = "idle"
    /\ UNCHANGED <<head, next, new, at, added, findVars, takeVars, fault>>

\* Each of the three assignments of the else branch loads head anew.
AddLoadHead ==
    /\ \/ adder = "prev" /\ adder' = "prev of"
       \/ adder = "link" /\ adder' = "link of"
       \/ adder = "last" /\ adder' = "last of"
    /\ at' = head
    /\ UNCHANGED <<memory, new, added, findVars, takeVars, fault>>

AddPrev ==
    /\ adder = "prev of" /\ at # Null
    /\ prev' = [prev EXCEPT ![new] = prev[at]]
    /\ adder' = "link"
    /\ UNCHANGED <<head, next, new, at, added, findVars, takeVars, fault>>

AddLoadLast ==
    /\ adder = "link of" /\ at # Null
    /\ at' = prev[at]
    /\ adder' = "next of"
    /\ UNCHANGED <<memory, new, added, findVars, takeVars, fault>>

AddLink ==
    /\ adder = "next of" /\ at # Null
    /\ next' = [next EXCEPT ![at] = new]
    /\ adder' = "last"
    /\ UNCHANGED <<head, prev, new, at, added, findVars, takeVars, fault>>

AddLast ==
    /\ adder = "last of" /\ at # Null
    /\ prev' = [prev EXCEPT ![at] = new]
    /\ adder' = "idle"
    /\ UNCHANGED <<head, next, new, at, added, findVars, takeVars, fault>>

AddFault ==
    /\ adder \in {"prev of", "link of", "next of", "last of"} /\ at = Null
    /\ Fault

Add == AddCall \/ AddNull \/ AddTest \/ AddHead \/ AddAlone \/ AddLoadHead
       \/ AddPrev \/ AddLoadLast \/ AddLink \/ AddLast \/ AddFault

------------------------------------------------------------------------------
(* _list2_find, with the loop of list_for_each *)

NextOf(p) == IF p = Null THEN Null ELSE next[p]

FindCall ==
    /\ use = "find"
    /\ finder = "idle"
    /\ \E e \in El :
          /\ target' = e
          /\ present' = (e \in ToSet(Visible))
    /\ el' = head
    /\ finder' = "ahead"
    /\ UNCHANGED <<memory, addVars, nx, takeVars, fault>>

\* Mutant: the loop reads two elements ahead.
FindAheadTwo ==
    /\ finder = "ahead"
    /\ nx' = NextOf(NextOf(el))
    /\ finder' = "look"
    /\ UNCHANGED <<memory, addVars, target, el, present, takeVars, fault>>

FindAhead ==
    /\ finder = "ahead"
    /\ nx' = NextOf(el)
    /\ finder' = "look"
    /\ UNCHANGED <<memory, addVars, target, el, present, takeVars, fault>>

FindNext ==
    /\ finder = "look"
    /\ el \notin {Null, target}
    /\ el' = nx
    /\ nx' = NextOf(nx)
    /\ UNCHANGED <<memory, addVars, finder, target, present, takeVars, fault>>

FindReturn ==
    /\ finder = "look"
    /\ el \in {Null, target}
    /\ finder' = "idle"
    /\ target' = Null /\ el' = Null /\ nx' = Null /\ present' = FALSE
    /\ UNCHANGED <<memory, addVars, takeVars, fault>>

Find == FindCall \/ FindAhead \/ FindNext \/ FindReturn

------------------------------------------------------------------------------
(* list_first and list_rm of what it gives.  The element is the head and   *)
(* stays it: only the taker moves head on.                                 *)

TakeFirst ==
    /\ use = "take"
    /\ taker = "idle" /\ head # Null
    /\ first' = head
    /\ taken' = Append(taken, head)
    /\ taker' = "test"
    /\ UNCHANGED <<memory, addVars, findVars, dest, val, fault>>

TakeTest ==
    /\ taker = "test"
    /\ taker' = IF next[first] # Null THEN "next of" ELSE "head of"
    /\ UNCHANGED <<memory, addVars, findVars, first, dest, val, taken, fault>>

\* The element whose prev is written: el->next, loaded anew, or the head.
TakeDest ==
    /\ \/ taker = "next of" /\ dest' = next[first]
       \/ taker = "head of" /\ dest' = head
    /\ taker' = "prev of"
    /\ UNCHANGED <<memory, addVars, findVars, first, val, taken, fault>>

TakeValue ==
    /\ taker = "prev of"
    /\ val' = prev[first]
    /\ taker' = "store"
    /\ UNCHANGED <<memory, addVars, findVars, first, dest, taken, fault>>

TakeStore ==
    /\ taker = "store"
    /\ prev' = [prev EXCEPT ![dest] = val]
    /\ taker' = "next"
    /\ UNCHANGED <<head, next, addVars, findVars, first, dest, val, taken, fault>>

\* Mutant: the head moves to the element before.
TakeNextBack ==
    /\ taker = "next"
    /\ val' = prev[first]
    /\ taker' = "head"
    /\ UNCHANGED <<memory, addVars, findVars, first, dest, taken, fault>>

TakeNext ==
    /\ taker = "next"
    /\ val' = next[first]
    /\ taker' = "head"
    /\ UNCHANGED <<memory, addVars, findVars, first, dest, taken, fault>>

TakeHead ==
    /\ taker = "head"
    /\ head' = val
    /\ taker' = "idle"
    /\ UNCHANGED <<prev, next, addVars, findVars, first, dest, val, taken, fault>>

Take == TakeFirst \/ TakeTest \/ TakeDest \/ TakeValue \/ TakeStore
        \/ TakeNext \/ TakeHead

------------------------------------------------------------------------------

\* After a fault the program has ended.
Next == ~fault /\ (Add \/ Find \/ Take) /\ UNCHANGED use

\* A thread that has begun a search goes on with it.
Searching == ~fault /\ (FindAhead \/ FindNext \/ FindReturn) /\ UNCHANGED use

Spec == Init /\ [][Next]_vars /\ WF_vars(Searching)

------------------------------------------------------------------------------
(* Properties *)

\* An element that was linked when the search for it began is found, however
\* the adder's writes and the search interleave and although the search reads
\* one element ahead (fs.c 101, netdev.c 130).
FindsPresent == finder = "look" /\ el = Null => ~present

\* A search only ever visits elements that are linked: it never follows a
\* pointer of an element that is still being prepared.
VisitsLinked == {el, nx} \subseteq ToSet(Visible) \cup {Null}

\* While nothing is taken, what a walk along next sees only grows, one element
\* at a time at the end, although the element was allocated with pointers that
\* hold anything.
GrowsAtEnd ==
    [][\/ use = "take"
       \/ Visible' = Visible
       \/ \E e \in El \ ToSet(Visible) : Visible' = Append(Visible, e)]_vars

\* A search ends, although elements are added while it goes on.
SearchEnds == finder # "idle" ~> finder = "idle"

\* Clients and datagrams are taken in the order they came in and at most once,
\* even when list_rm and list_add_tail overlap: the overlap may lose elements
\* and end the program, but repeats none and swaps none.
TakenInOrder ==
    \E place \in [DOMAIN taken -> DOMAIN added] :
        \A i, j \in DOMAIN taken :
            /\ taken[i] = added[place[i]]
            /\ i < j => place[i] < place[j]

\* list_add_tail adds an element at the end of the list (list2.h 65): while no
\* operation is under way, a walk meets the elements that have been added and
\* not been taken, and no others.
AddedIsLinked ==
    adder = "idle" /\ taker = "idle" => ToSet(Visible) = ToSet(added) \ ToSet(taken)

==============================================================================

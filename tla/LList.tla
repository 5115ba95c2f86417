-------------------------------- MODULE LList --------------------------------
(***************************************************************************)
(* common/llist.c: a doubly linked list, with an iterator.                 *)
(*                                                                         *)
(* A list is a record of its first and last entry, its size and, for each  *)
(* entry that is allocated, its links and data.  An iterator is not used   *)
(* after the list is changed by other means.                               *)
(***************************************************************************)
EXTENDS Naturals, Sequences

CONSTANTS
  Data,
  MaxListSize       \* bound: no list is made longer

ASSUME MaxListSizeAssumption == MaxListSize \in Nat

VARIABLES
  list,
  it,               \* of the iterator, whether it is in use and its entry
  given             \* what the last operation returned

listVars == <<list, it, given>>

null == 0
NoData == "none"

EmptyList == [first |-> null, last |-> null, size |-> 0, entry |-> <<>>]
NoIterator == [used |-> FALSE, entry |-> null]

ListInit == list = EmptyList /\ it = NoIterator /\ given = NoData

Allocated(l) == DOMAIN l.entry
Unallocated(l) == CHOOSE e \in 1..MaxListSize : e \notin Allocated(l)
Following(l, e) == l.entry[e].next
Preceding(l, e) == l.entry[e].previous

-----------------------------------------------------------------------------
(* Links.                                                                  *)

SetNext(l, e, n) ==
  IF e = null THEN [l EXCEPT !.first = n] ELSE [l EXCEPT !.entry[e].next = n]
SetPrevious(l, e, p) ==
  IF e = null THEN [l EXCEPT !.last = p] ELSE [l EXCEPT !.entry[e].previous = p]

(* An entry is linked in between two, or at an end.                        *)
Insert(l, d, previous, next) ==
  LET e == Unallocated(l)
      new == [data |-> d, previous |-> previous, next |-> next]
      grown == [l EXCEPT !.size = @ + 1,
                         !.entry = [f \in DOMAIN @ \cup {e} |->
                                      IF f = e THEN new ELSE @[f]]]
  IN  SetPrevious(SetNext(grown, previous, e), next, e)

llist_remove_entry(l, e) ==
  LET cut == SetPrevious(SetNext(l, Preceding(l, e), Following(l, e)),
                         Following(l, e), Preceding(l, e))
  IN  [cut EXCEPT !.size = @ - 1, !.entry = [f \in DOMAIN @ \ {e} |-> @[f]]]

(* The entry n steps from e on.                                            *)
Walk(l, e, n, link) ==
  LET at[k \in 0..n] == IF k = 0 THEN e ELSE l.entry[at[k - 1]][link] IN at[n]

(* From the nearer end.                                                    *)
llist_get_entry(l, index) ==
  IF index < l.size \div 2 THEN Walk(l, l.first, index, "next")
  ELSE Walk(l, l.last, l.size - 1 - index, "previous")

add_last(l, d) == Insert(l, d, l.last, null)

(* The positions from the first entry on whose data is d, and the entries. *)
Entries(l) == [k \in 1..l.size |-> Walk(l, l.first, k - 1, "next")]
PlacesOf(l, d) == {k \in 1..l.size : l.entry[Entries(l)[k]].data = d}

llist_contains(l, d) == PlacesOf(l, d) # {}

FirstOf(s) == CHOOSE k \in s : \A j \in s : k <= j

-----------------------------------------------------------------------------
(* Operations.                                                             *)

Changed(l, d) == list' = l /\ given' = d /\ it' = NoIterator

Grows(n) == list.size + n <= MaxListSize

llist_add_first(d) == Grows(1) /\ Changed(Insert(list, d, null, list.first), NoData)

llist_add_last(d) == Grows(1) /\ Changed(add_last(list, d), NoData)

llist_add_at(index, d) ==
  IF index < list.size
  THEN LET after == llist_get_entry(list, index) IN
       Grows(1) /\ Changed(Insert(list, d, Preceding(list, after), after), NoData)
  ELSE index = list.size /\ llist_add_last(d)

(* The entries of a list of two.                                           *)
llist_add_all(d1, d2) ==
  Grows(2) /\ Changed(add_last(add_last(list, d1), d2), NoData)

lnode_add_after(node, d) ==
  Grows(1) /\ Changed(Insert(list, d, node, Following(list, node)), NoData)

lnode_add_before(node, d) ==
  Grows(1) /\ Changed(Insert(list, d, Preceding(list, node), node), NoData)

RemoveGiving(e) == Changed(llist_remove_entry(list, e), list.entry[e].data)

llist_remove_first == list.size > 0 /\ RemoveGiving(list.first)

llist_remove_last == list.size > 0 /\ RemoveGiving(list.last)

llist_remove_at(index) ==
  index < list.size /\ RemoveGiving(llist_get_entry(list, index))

(* The first entry of that data.                                           *)
llist_remove(d) ==
  /\ llist_contains(list, d)
  /\ RemoveGiving(Entries(list)[FirstOf(PlacesOf(list, d))])

lnode_remove(node) ==
  Changed(llist_remove_entry(list, node), NoData)

llist_clear == Changed(EmptyList, NoData)

(* The data changes places, from the ends to the middle.                   *)
llist_reverse ==
  LET swap(l, a, b) == [l EXCEPT !.entry[a].data = l.entry[b].data,
                                 !.entry[b].data = l.entry[a].data]
      met(s) == s.head = s.tail \/ Preceding(s.l, s.head) = s.tail
      step[k \in 0..list.size] ==
        IF k = 0 THEN [l |-> list, head |-> list.first, tail |-> list.last]
        ELSE LET s == step[k - 1]
             IN  IF met(s) THEN s
                 ELSE [l |-> swap(s.l, s.head, s.tail),
                       head |-> Following(s.l, s.head),
                       tail |-> Preceding(s.l, s.tail)]
  IN  Changed(step[list.size].l, NoData)

(* The copy takes the place of the list.  Of an empty list it is not fit   *)
(* for use, since its first entry is not set.                              *)
llist_clone ==
  LET copy[k \in 0..list.size] ==
        IF k = 0 THEN EmptyList
        ELSE add_last(copy[k - 1], list.entry[Entries(list)[k]].data)
  IN  /\ list.size > 0
      /\ Changed(copy[list.size], NoData)

llist_iterator ==
  /\ it' = [used |-> TRUE, entry |-> list.first]
  /\ given' = NoData
  /\ UNCHANGED list

llist_iterator_next ==
  /\ it.used
  /\ it.entry # null
  /\ given' = list.entry[it.entry].data
  /\ it' = [it EXCEPT !.entry = Following(list, it.entry)]
  /\ UNCHANGED list

(* Mutant: behind the last entry, it is the one before that goes.          *)
llist_iterator_remove_beyond ==
  /\ it.used
  /\ list.first # it.entry
  /\ list' = llist_remove_entry(list,
               IF it.entry = null THEN list.first ELSE Preceding(list, it.entry))
  /\ given' = NoData
  /\ UNCHANGED it

(* Before the first is given, it is an internal error.                     *)
llist_iterator_remove ==
  /\ it.used
  /\ list.first # it.entry
  /\ list' = llist_remove_entry(list,
               IF it.entry = null THEN list.last ELSE Preceding(list, it.entry))
  /\ given' = NoData
  /\ UNCHANGED it

ListNext ==
  \/ \E d \in Data :
       \/ llist_add_first(d) \/ llist_add_last(d) \/ llist_remove(d)
       \/ \E index \in 0..MaxListSize : llist_add_at(index, d)
       \/ \E node \in Allocated(list) :
            lnode_add_after(node, d) \/ lnode_add_before(node, d)
       \/ \E e \in Data : llist_add_all(d, e)
  \/ \E index \in 0..MaxListSize : llist_remove_at(index)
  \/ \E node \in Allocated(list) : lnode_remove(node)
  \/ llist_remove_first \/ llist_remove_last \/ llist_clear
  \/ llist_reverse \/ llist_clone
  \/ llist_iterator \/ llist_iterator_next \/ llist_iterator_remove

ListSpec == ListInit /\ [][ListNext]_listVars

-----------------------------------------------------------------------------
Contents(l) == [k \in 1..l.size |-> l.entry[llist_get_entry(l, k - 1)].data]

(* How many entries are before e; before the end, all are.                 *)
EntriesBefore(l, e) ==
  IF e = null THEN l.size
  ELSE FirstOf({k \in 1..l.size : Entries(l)[k] = e}) - 1

(* What llist_get() finds, forwards or backwards from the nearer end, is   *)
(* one sequence, which every operation changes as its name says; and an    *)
(* iterator gives its elements in order and removes those it has given.    *)
Sequence == INSTANCE SequenceSpec WITH
  seq <- Contents(list),
  cursor <- IF it.used THEN EntriesBefore(list, it.entry) ELSE 0,
  iterating <- it.used

KeepsSequence == Sequence!Spec
=============================================================================

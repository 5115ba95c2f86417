---------------------------- MODULE OrderedMapSpec ----------------------------
(***************************************************************************)
(* What tmap.h promises: a partial function from ordered keys to values,   *)
(* and iterators that go upwards through all of its entries, or through    *)
(* those of one class of neighbouring keys.                                *)
(***************************************************************************)
EXTENDS Naturals

CONSTANTS Keys, Values, Class

VARIABLES
  map,
  unvisited     \* the keys the iterator has yet to give

Init == map = <<>> /\ unvisited = {}

(* Whether an iterator under way gives an entry put in meanwhile is left   *)
(* open.                                                                   *)
Put(k, v) ==
  /\ map' = [x \in DOMAIN map \cup {k} |-> IF x = k THEN v ELSE map[x]]
  /\ unvisited' \in {unvisited, unvisited \cup {k}}

(* Removing ends an iteration.                                             *)
Remove(k) ==
  map' = [x \in DOMAIN map \ {k} |-> map[x]] /\ unvisited' = {}

Clear == map' = <<>> /\ unvisited' = {}

Iterate == unvisited' = DOMAIN map /\ UNCHANGED map

IteratePartial(m) ==
  unvisited' = {k \in DOMAIN map : Class[k] = m} /\ UNCHANGED map

Visit ==
  \E k \in unvisited :
    /\ \A l \in unvisited : k <= l
    /\ unvisited' = unvisited \ {k}
    /\ UNCHANGED map

Next ==
  \/ \E k \in Keys : Remove(k) \/ \E v \in Values[k] : Put(k, v)
  \/ Clear \/ Iterate \/ Visit
  \/ \E k \in Keys : IteratePartial(Class[k])

Spec == Init /\ [][Next]_<<map, unvisited>>
=============================================================================

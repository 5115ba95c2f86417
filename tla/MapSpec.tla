------------------------------- MODULE MapSpec -------------------------------
(***************************************************************************)
(* What hmap.h promises: a partial function from keys to values, and an    *)
(* iterator that gives each entry once, in no order a caller may rely on.  *)
(***************************************************************************)
CONSTANTS Keys, Values, NULL

VARIABLES
  map,         \* the entries
  unvisited,   \* the keys the iterator has yet to give
  ret          \* what the last call returned

Init == map = <<>> /\ unvisited = {} /\ ret = NULL

ValueOf(k) == IF k \in DOMAIN map THEN map[k] ELSE NULL

Put(k, v) ==
  /\ map' = [x \in DOMAIN map \cup {k} |-> IF x = k THEN v ELSE map[x]]
  /\ ret' = ValueOf(k)
  /\ unvisited' = {}          \* a change ends the iteration

Get(k) == ret' = ValueOf(k) /\ UNCHANGED <<map, unvisited>>

ContainsKey(k) == ret' = (k \in DOMAIN map) /\ UNCHANGED <<map, unvisited>>

(* What is taken out is not given any more, and all else still is.  Which  *)
(* entries may go during an iteration is for the implementation to say.    *)
Remove(k) ==
  /\ map' = [x \in DOMAIN map \ {k} |-> map[x]]
  /\ ret' = ValueOf(k)
  /\ unvisited' = unvisited \ {k}

Clear == map' = <<>> /\ unvisited' = {} /\ UNCHANGED ret

Iterate == unvisited' = DOMAIN map /\ UNCHANGED <<map, ret>>

Visit ==
  \E k \in unvisited :
    /\ ret' = map[k]
    /\ unvisited' = unvisited \ {k}
    /\ UNCHANGED map

(* next() past the end gives NULL.                                         *)
VisitNone == unvisited = {} /\ ret' = NULL /\ UNCHANGED <<map, unvisited>>

Next ==
  \/ \E k \in Keys : Get(k) \/ ContainsKey(k) \/ Remove(k)
  \/ \E k \in Keys, v \in Values : Put(k, v)
  \/ Clear \/ Iterate \/ Visit \/ VisitNone

Spec == Init /\ [][Next]_<<map, unvisited, ret>>
=============================================================================

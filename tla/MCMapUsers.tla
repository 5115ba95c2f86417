------------------------------ MODULE MCMapUsers ------------------------------
(* Instances of the hash map and the palette for TLC: images of up to      *)
(* four pixels of five colours, and four or all of these in each order;   *)
(* four fit in the table, and the map grows twice.  Some images also come  *)
(* with alpha values of every kind and with bit depths asked for.          *)
EXTENDS MapUsers, TLC

CONSTANTS c0, c1, c2, c3, c4

(* With 2, 5 and 11 buckets c0, c1 and c2 share a chain that comes apart;  *)
(* to the others c0 is the key NULL.                                       *)
FiveColors == {c0, c1, c2, c3, c4}
FiveHashes == c0 :> 0 @@ c1 :> 2 @@ c2 :> 10 @@ c3 :> 3 @@ c4 :> 113
UpTo(m) == UNION {[1..k -> FiveColors] : k \in 1..m}

(* All of the colours, and four of them and the first once more.           *)
Orders == {p \in [1..5 -> FiveColors] : \A i, j \in 1..5 : p[i] = p[j] => i = j}
Again == {[p EXCEPT ![5] = p[1]] : p \in Orders}

WithOptions(p, levels, depths) ==
  [pixels : p, transparency : levels, bit_count : depths]

Alphas == {{}, {128}, {0, 255}, {0, 128}, {128, 255}, {0, 128, 255}}

SomeImages ==
  WithOptions(UpTo(4) \cup Orders \cup Again, {{}}, {Unset})
    \cup WithOptions({<<c0>>, <<c1, c2, c1>>, <<c0, c1, c2, c3, c4>>}, Alphas, {Unset, 1, 8, 16, 24, 32})

(* Four keys, each with a value, and one of them with another.             *)
FourEntries ==
  [key : FiveColors \ {c4}, value : {c0}] \cup [key : {c1}, value : {c1}]
=============================================================================

--------------------------------- MODULE HMap ---------------------------------
(***************************************************************************)
(* common/hmap.c: a hash map of chained entries.  When an entry would make *)
(* it fuller than the load factor allows, hmap_put() moves every entry,    *)
(* one by one, to a new array of buckets before it inserts the new one.    *)
(***************************************************************************)
EXTENDS Naturals, Sequences, FiniteSets, Functions

CONSTANTS
  Keys,               \* as far as compare() tells them apart; NULL may be one
  Values,
  NULL,
  Hash,               \* hash() of a key, 0 for the key NULL
  DEFAULT_CAPACITY

ASSUME HashAssumption == Hash \in [Keys -> Nat]
ASSUME CapacityAssumption == DEFAULT_CAPACITY \in Nat \ {0}
ASSUME ValuesAssumption == NULL \notin Values   \* no caller stores NULL

VARIABLES
  buckets,        \* from 0..buckets_length - 1 to chains of entries
  buckets_length,
  threshold,
  size,
  old_buckets,    \* what hmap_rehash() has yet to move
  pending,        \* the entry hmap_put() inserts after that: none or one
  index,          \* the iterator's bucket, buckets_length at its end,
  it,             \* and the key of its entry
  ret             \* what the last call returned

mapVars == <<buckets, buckets_length, threshold, size>>
rehashVars == <<old_buckets, pending>>
itVars == <<index, it>>
vars == <<mapVars, rehashVars, itVars, ret>>

Entry == [key: Keys, value: Values]

hmap_hash(k, length) == Hash[k] % length

(* (uint32_t) (length * DEFAULT_LOAD_FACTOR)                               *)
threshold_of(length) == (length * 3) \div 4

NoBuckets(length) == [b \in 0..(length - 1) |-> <<>>]

Init ==
  /\ buckets = NoBuckets(DEFAULT_CAPACITY)
  /\ buckets_length = DEFAULT_CAPACITY
  /\ threshold = threshold_of(DEFAULT_CAPACITY)
  /\ size = 0
  /\ old_buckets = NoBuckets(0)
  /\ pending = <<>>
  /\ index = DEFAULT_CAPACITY
  /\ it \in Keys           \* not looked at before hmap_iterator()
  /\ ret = NULL

-----------------------------------------------------------------------------
(* Looking up.                                                             *)

chain(k) == buckets[hmap_hash(k, buckets_length)]

(* hmap_get_entry(): where the key stands first in its chain; {} for none. *)
hmap_get_entry(k) ==
  {p \in DOMAIN chain(k) :
     /\ chain(k)[p].key = k
     /\ \A q \in 1..(p - 1) : chain(k)[q].key # k}

Contains(k) == hmap_get_entry(k) # {}
Place(k) == CHOOSE p \in hmap_get_entry(k) : TRUE

hmap_get(k) == IF Contains(k) THEN chain(k)[Place(k)].value ELSE NULL

(* No call is under way.                                                   *)
Idle == pending = <<>>

Answer(a) == Idle /\ ret' = a /\ UNCHANGED <<mapVars, rehashVars, itVars>>

Get(k) == Answer(hmap_get(k))
ContainsKey(k) == Answer(Contains(k))

-----------------------------------------------------------------------------
(* Putting in.  Whoever holds an iterator drops it: it may stand in a      *)
(* bucket of the old array.                                                *)

DropIterator == index' = buckets_length' /\ UNCHANGED it

PutExisting(k, v) ==
  /\ Idle
  /\ Contains(k)
  /\ buckets' =
       [buckets EXCEPT ![hmap_hash(k, buckets_length)][Place(k)].value = v]
  /\ ret' = hmap_get(k)
  /\ UNCHANGED <<buckets_length, threshold, size, rehashVars>>
  /\ DropIterator

(* The new entry becomes the first of its chain.                           *)
Insert(e, chains, length) ==
  [chains EXCEPT ![hmap_hash(e.key, length)] = <<e>> \o @]

PutNew(k, v) ==
  /\ Idle
  /\ ~Contains(k)
  /\ size + 1 <= threshold
  /\ size' = size + 1
  /\ buckets' = Insert([key |-> k, value |-> v], buckets, buckets_length)
  /\ ret' = NULL
  /\ UNCHANGED <<buckets_length, threshold, rehashVars>>
  /\ DropIterator

(* hmap_rehash() begins.                                                   *)
Grow(k, v, limit) ==
  /\ Idle
  /\ ~Contains(k)
  /\ size + 1 > threshold
  /\ size' = size + 1
  /\ buckets_length' = buckets_length * 2 + 1
  /\ threshold' = limit
  /\ buckets' = NoBuckets(buckets_length')
  /\ old_buckets' = buckets
  /\ pending' = <<[key |-> k, value |-> v]>>
  /\ ret' = NULL
  /\ DropIterator

(* Mutant: the threshold stays that of the old array.                      *)
PutGrowingSameThreshold(k, v) == Grow(k, v, threshold)

PutGrowing(k, v) == Grow(k, v, threshold_of(buckets_length * 2 + 1))

(* The first entry of the first old chain goes to the end of its new one.  *)
MoveFirst(b, to) ==
  /\ old_buckets[b] # <<>>
  /\ \A a \in DOMAIN old_buckets : a < b => old_buckets[a] = <<>>
  /\ buckets' = [buckets EXCEPT ![to] = Append(@, Head(old_buckets[b]))]
  /\ old_buckets' = [old_buckets EXCEPT ![b] = Tail(@)]
  /\ UNCHANGED <<buckets_length, threshold, size, pending, itVars, ret>>

(* Mutant: the entry stays in the bucket of its old number.                *)
MoveToOldPlace == \E b \in DOMAIN old_buckets : MoveFirst(b, b)

MoveEntry ==
  \E b \in DOMAIN old_buckets :
    MoveFirst(b, hmap_hash(Head(old_buckets[b]).key, buckets_length))

InsertPending ==
  /\ ~Idle
  /\ \A b \in DOMAIN old_buckets : old_buckets[b] = <<>>
  /\ buckets' = Insert(Head(pending), buckets, buckets_length)
  /\ old_buckets' = NoBuckets(0)
  /\ pending' = <<>>
  /\ UNCHANGED <<buckets_length, threshold, size, itVars, ret>>

-----------------------------------------------------------------------------
(* Taking out.                                                             *)

Without(ch, p) ==
  [q \in 1..(Len(ch) - 1) |-> IF q < p THEN ch[q] ELSE ch[q + 1]]

AtEnd == index = buckets_length

(* The entry an iterator stands at must stay: next() goes on from it.      *)
RemoveSized(k, less) ==
  /\ Idle
  /\ AtEnd \/ k # it
  /\ IF Contains(k)
     THEN /\ buckets' = [buckets EXCEPT
                           ![hmap_hash(k, buckets_length)] = Without(@, Place(k))]
          /\ size' = less
     ELSE UNCHANGED <<buckets, size>>
  /\ ret' = hmap_get(k)
  /\ UNCHANGED <<buckets_length, threshold, rehashVars, itVars>>

(* Mutant: size-- is forgotten.                                            *)
RemoveUncounted(k) == RemoveSized(k, size)

Remove(k) == RemoveSized(k, size - 1)

Clear ==
  /\ Idle
  /\ buckets' = NoBuckets(buckets_length)
  /\ size' = 0
  /\ UNCHANGED <<buckets_length, threshold, rehashVars, ret>>
  /\ DropIterator

-----------------------------------------------------------------------------
(* Iterating.                                                              *)

(* To the first entry of the first bucket from b on that has one.          *)
StandAtFirst(b) ==
  LET full == {a \in b..(buckets_length - 1) : buckets[a] # <<>>}
  IN  IF full = {}
      THEN index' = buckets_length /\ UNCHANGED it
      ELSE \E a \in full :
             /\ \A d \in full : a <= d
             /\ index' = a
             /\ it' = Head(buckets[a]).key

(* hmap_iterator()                                                         *)
Iterate ==
  /\ Idle
  /\ StandAtFirst(0)
  /\ UNCHANGED <<mapVars, rehashVars, ret>>

NextFrom(following) ==
  /\ Idle
  /\ ~AtEnd
  /\ ret' = hmap_get(it)
  /\ IF Place(it) < Len(chain(it))
     THEN it' = chain(it)[Place(it) + 1].key /\ UNCHANGED index
     ELSE StandAtFirst(following)
  /\ UNCHANGED <<mapVars, rehashVars>>

(* Mutant: the scan goes on two buckets further.                           *)
IteratorNextSkipping == NextFrom(index + 2)

IteratorNext == NextFrom(index + 1)

IteratorNextAtEnd == Idle /\ AtEnd /\ Answer(NULL)

-----------------------------------------------------------------------------
Call ==
  \/ \E k \in Keys : Get(k) \/ ContainsKey(k) \/ Remove(k)
  \/ \E k \in Keys, v \in Values :
       PutExisting(k, v) \/ PutNew(k, v) \/ PutGrowing(k, v)
  \/ Clear \/ Iterate \/ IteratorNext \/ IteratorNextAtEnd

Rehash == MoveEntry \/ InsertPending

Next == Call \/ Rehash

Spec == Init /\ [][Next]_vars

-----------------------------------------------------------------------------
(* Properties.                                                             *)

Chains(n) == [0..(n - 1) -> Seq(Entry)]

TypeOK ==
  /\ buckets_length \in Nat \ {0}
  /\ buckets \in Chains(buckets_length)
  /\ threshold = threshold_of(buckets_length)
  /\ size \in Nat
  /\ \E n \in 0..buckets_length : old_buckets \in Chains(n)
  /\ pending \in Seq(Entry) /\ Len(pending) <= 1
  /\ index \in 0..buckets_length
  /\ it \in Keys
  /\ ret \in Values \cup {NULL} \cup BOOLEAN

EntriesOf(chains) ==
  {e \in Entry : \E b \in DOMAIN chains : \E p \in DOMAIN chains[b] : e = chains[b][p]}

Contents == EntriesOf(buckets) \cup EntriesOf(old_buckets) \cup Range(pending)

(* Every entry hangs in the bucket that its key is looked up in, also      *)
(* half-way through a rehash, and no chain holds a key twice: otherwise a  *)
(* lookup would miss it, and a put add it again.                           *)
FoundWhereLookedUp ==
  \A b \in DOMAIN buckets :
    /\ \A p \in DOMAIN buckets[b] :
         hmap_hash(buckets[b][p].key, buckets_length) = b
    /\ \A p, q \in DOMAIN buckets[b] :
         buckets[b][p].key = buckets[b][q].key => p = q

(* The size is that of the entries, those being moved included, and never  *)
(* more than the load factor allows: growing once is always enough.        *)
SizeCounts ==
  /\ size = Cardinality(Contents)
  /\ size = Cardinality({e.key : e \in Contents})
  /\ size <= threshold

(* The hash map implements a partial function whose iterator gives every   *)
(* entry once, whatever is taken out behind it.                            *)
ToVisit ==
  IF AtEnd THEN {}
  ELSE {e.key : e \in
         {f \in Contents :
            LET b == hmap_hash(f.key, buckets_length)
            IN  b > index \/ (b = index /\ Place(f.key) >= Place(it))}}

Map == INSTANCE MapSpec WITH
         map <- [k \in {e.key : e \in Contents} |->
                  (CHOOSE e \in Contents : e.key = k).value],
         unvisited <- ToVisit

ImplementsMap == Map!Spec
=============================================================================

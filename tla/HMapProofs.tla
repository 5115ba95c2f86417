------------------------------ MODULE HMapProofs ------------------------------
(***************************************************************************)
(* Proofs about the hash map, for every set of keys, hash function and     *)
(* initial capacity.                                                       *)
(*                                                                         *)
(* The invariant follows each key through a rehash: it is in one place     *)
(* only, in the new array, in the old one, or pending, and in either array *)
(* in the bucket its hash asks for.                                        *)
(***************************************************************************)
EXTENDS HMap, SequenceTheorems, FiniteSetTheorems, TLAPS

(* A key is in one place only: in a bucket, in an old one, or pending.     *)
Once(chains) ==
  \A b, d \in DOMAIN chains :
    \A p \in DOMAIN chains[b], q \in DOMAIN chains[d] :
      chains[b][p].key = chains[d][q].key => b = d /\ p = q

OldOnce == Once(old_buckets)

Placed(chains, n) ==
  \A b \in 0..(n - 1) :
    /\ \A p \in DOMAIN chains[b] : hmap_hash(chains[b][p].key, n) = b
    /\ \A p, q \in DOMAIN chains[b] :
         chains[b][p].key = chains[b][q].key => p = q

NotYetMoved ==
  \A x \in EntriesOf(buckets), y \in EntriesOf(old_buckets) : x.key # y.key

PendingIsNew ==
  \A e \in Range(pending), x \in EntriesOf(buckets) \cup EntriesOf(old_buckets) :
    x.key # e.key

AtRest == Idle => old_buckets = NoBuckets(0)

(* The iterator stands at an entry of the bucket it has reached.           *)
Standing ==
  ~AtEnd => /\ Idle
            /\ index = hmap_hash(it, buckets_length)
            /\ \E x \in EntriesOf(buckets) : x.key = it

Sized == IsFiniteSet(Contents) /\ size = Cardinality(Contents)

Inv ==
  /\ TypeOK
  /\ FoundWhereLookedUp
  /\ OldOnce /\ NotYetMoved /\ PendingIsNew
  /\ AtRest
  /\ Standing
  /\ Sized
  /\ size <= threshold

-----------------------------------------------------------------------------
LEMMA HashInRange ==
  ASSUME NEW k \in Keys, NEW n \in Nat \ {0}
  PROVE  hmap_hash(k, n) \in 0..(n - 1)
BY HashAssumption DEF hmap_hash

LEMMA PlaceIsIn ==
  ASSUME NEW k \in Keys, Contains(k)
  PROVE  /\ Place(k) \in DOMAIN chain(k)
         /\ chain(k)[Place(k)].key = k
BY DEF Contains, Place, hmap_get_entry

LEMMA ChainIsSeq ==
  ASSUME TypeOK, NEW k \in Keys
  PROVE  /\ chain(k) = buckets[hmap_hash(k, buckets_length)]
         /\ chain(k) \in Seq(Entry)
         /\ hmap_hash(k, buckets_length) \in DOMAIN buckets
BY HashInRange DEF TypeOK, Chains, chain

(* Chains being free of duplicates, the first entry found is the only one. *)
LEMMA ContainsIfThere ==
  ASSUME TypeOK, FoundWhereLookedUp, NEW k \in Keys
  PROVE  /\ Contains(k) <=> \E p \in DOMAIN chain(k) : chain(k)[p].key = k
         /\ \A p \in DOMAIN chain(k) : chain(k)[p].key = k => p = Place(k)
         /\ Contains(k) <=> \E x \in EntriesOf(buckets) : x.key = k
<1>1. /\ chain(k) = buckets[hmap_hash(k, buckets_length)]
      /\ chain(k) \in Seq(Entry)
      /\ hmap_hash(k, buckets_length) \in DOMAIN buckets
  BY ChainIsSeq
<1>2. \A p \in DOMAIN chain(k) : chain(k)[p].key = k => p \in hmap_get_entry(k)
  BY <1>1 DEF FoundWhereLookedUp, hmap_get_entry
<1>3. Contains(k) <=> \E p \in DOMAIN chain(k) : chain(k)[p].key = k
  BY <1>2 DEF Contains, hmap_get_entry
<1>4. \A p \in DOMAIN chain(k) : chain(k)[p].key = k => p = Place(k)
  BY <1>1, <1>3, PlaceIsIn DEF FoundWhereLookedUp
<1>5. (\E p \in DOMAIN chain(k) : chain(k)[p].key = k)
        <=> \E x \in EntriesOf(buckets) : x.key = k
  BY <1>1 DEF FoundWhereLookedUp, EntriesOf
<1>. QED
  BY <1>3, <1>4, <1>5

LEMMA ValueFound ==
  ASSUME TypeOK, NEW k \in Keys
  PROVE  hmap_get(k) \in Values \cup {NULL}
<1>1. CASE Contains(k)
  <2>1. chain(k)[Place(k)] \in Entry
    BY <1>1, ChainIsSeq, PlaceIsIn
  <2>. QED
    BY <1>1, <2>1 DEF hmap_get, Entry
<1>2. CASE ~Contains(k)
  BY <1>2 DEF hmap_get
<1>. QED
  BY <1>1, <1>2

LEMMA NoBucketsType ==
  ASSUME NEW n \in Nat
  PROVE  NoBuckets(n) \in Chains(n)
BY DEF NoBuckets, Chains

(* What Insert, Without and the change of a value make of a chain.         *)
LEMMA InsertType ==
  ASSUME NEW n \in Nat \ {0}, NEW chains \in Chains(n), NEW e \in Entry
  PROVE  /\ Insert(e, chains, n) \in Chains(n)
         /\ \A b \in 0..(n - 1) :
              Insert(e, chains, n)[b] =
                IF b = hmap_hash(e.key, n) THEN <<e>> \o chains[b]
                                           ELSE chains[b]
<1>1. e.key \in Keys
  BY DEF Entry
<1>2. hmap_hash(e.key, n) \in 0..(n - 1)
  BY <1>1, HashInRange
<1>. QED
  BY <1>2 DEF Insert, Chains

LEMMA WithoutType ==
  ASSUME NEW ch \in Seq(Entry), NEW p \in DOMAIN ch
  PROVE  /\ Without(ch, p) \in Seq(Entry)
         /\ Len(Without(ch, p)) = Len(ch) - 1
         /\ \A q \in 1..(Len(ch) - 1) :
              Without(ch, p)[q] = IF q < p THEN ch[q] ELSE ch[q + 1]
<1>1. Len(ch) \in Nat /\ p \in 1..Len(ch) /\ Len(ch) - 1 \in Nat
  OBVIOUS
<1>2. \A q \in 1..(Len(ch) - 1) :
        (IF q < p THEN ch[q] ELSE ch[q + 1]) \in Entry
  BY <1>1
<1>3. Without(ch, p) \in [1..(Len(ch) - 1) -> Entry]
  BY <1>2 DEF Without
<1>. QED
  BY <1>1, <1>3 DEF Without

LEMMA StandAtFirstType ==
  ASSUME TypeOK, NEW b \in Nat, StandAtFirst(b)
  PROVE  index' \in 0..buckets_length /\ it' \in Keys
<1>. DEFINE full == {a \in b..(buckets_length - 1) : buckets[a] # <<>>}
<1>1. CASE full = {}
  BY <1>1 DEF StandAtFirst, TypeOK
<1>2. CASE full # {}
  <2>1. PICK a \in full : index' = a /\ it' = Head(buckets[a]).key
    BY <1>2 DEF StandAtFirst
  <2>2. a \in 0..(buckets_length - 1) /\ buckets[a] # <<>>
    BY DEF TypeOK
  <2>3. buckets[a] \in Seq(Entry)
    BY <2>2 DEF TypeOK, Chains
  <2>4. Head(buckets[a]) \in Entry
    BY <2>2, <2>3
  <2>. QED
    BY <2>1, <2>2, <2>4 DEF Entry, TypeOK
<1>. QED
  BY <1>1, <1>2

LEMMA InitType == Init => TypeOK
<1>. SUFFICES ASSUME Init PROVE TypeOK
  OBVIOUS
<1>1. buckets \in Chains(buckets_length) /\ old_buckets \in Chains(0)
  BY NoBucketsType, CapacityAssumption DEF Init
<1>. QED
  BY <1>1, CapacityAssumption DEF Init, TypeOK

LEMMA NextType == Inv /\ [Next]_vars => TypeOK'
<1>. SUFFICES ASSUME Inv, [Next]_vars PROVE TypeOK'
  OBVIOUS
<1>. USE DEF mapVars, rehashVars, itVars
<1>. TypeOK /\ FoundWhereLookedUp
  BY DEF Inv
<1>1. CASE \E k \in Keys : Get(k) \/ ContainsKey(k)
  <2>1. PICK k \in Keys : Get(k) \/ ContainsKey(k)
    BY <1>1
  <2>2. ret' \in Values \cup {NULL} \cup BOOLEAN
    BY <2>1, ValueFound DEF Get, ContainsKey, Answer, Contains
  <2>. QED
    BY <2>1, <2>2 DEF Get, ContainsKey, Answer, TypeOK
<1>2. CASE \E k \in Keys : Remove(k)
  <2>1. PICK k \in Keys : Remove(k)
    BY <1>2
  <2>2. ret' \in Values \cup {NULL}
    BY <2>1, ValueFound DEF Remove, RemoveSized
  <2>3. CASE Contains(k)
    <3>1. Without(chain(k), Place(k)) \in Seq(Entry)
      BY <2>3, ChainIsSeq, PlaceIsIn, WithoutType
    <3>2. buckets' \in Chains(buckets_length)
      BY <2>1, <2>3, <3>1, ChainIsSeq DEF Remove, RemoveSized, TypeOK, Chains
    <3>3. size \in Nat \ {0}
      <4>1. Contents # {}
        BY <2>3, ContainsIfThere DEF Contents
      <4>. QED
        BY <4>1, FS_EmptySet DEF Inv, Sized, TypeOK
    <3>4. size' \in Nat
      BY <2>1, <2>3, <3>3 DEF Remove, RemoveSized
    <3>. QED
      BY <2>1, <2>2, <3>2, <3>4 DEF Remove, RemoveSized, TypeOK
  <2>4. CASE ~Contains(k)
    BY <2>1, <2>2, <2>4 DEF Remove, RemoveSized, TypeOK
  <2>. QED
    BY <2>3, <2>4
<1>3. CASE \E k \in Keys, v \in Values : PutExisting(k, v)
  <2>1. PICK k \in Keys, v \in Values : PutExisting(k, v)
    BY <1>3
  <2>2. [chain(k) EXCEPT ![Place(k)].value = v] \in Seq(Entry)
    <3>1. chain(k)[Place(k)] \in Entry /\ chain(k) \in Seq(Entry)
      BY <2>1, ChainIsSeq, PlaceIsIn DEF PutExisting
    <3>2. [chain(k)[Place(k)] EXCEPT !.value = v] \in Entry
      BY <3>1 DEF Entry
    <3>. DEFINE e == [chain(k)[Place(k)] EXCEPT !.value = v]
    <3>3. [chain(k) EXCEPT ![Place(k)].value = v] = [chain(k) EXCEPT ![Place(k)] = e]
      OBVIOUS
    <3>4. Place(k) \in 1..Len(chain(k))
      BY <2>1, <3>1, PlaceIsIn DEF PutExisting
    <3>. QED
      BY <3>1, <3>2, <3>3, <3>4, ExceptSeq
  <2>3. buckets' \in Chains(buckets_length)
    BY <2>1, <2>2, ChainIsSeq DEF PutExisting, TypeOK, Chains
  <2>. QED
    BY <2>1, <2>3, ValueFound DEF PutExisting, DropIterator, TypeOK
<1>4. CASE \E k \in Keys, v \in Values : PutNew(k, v)
  <2>1. PICK k \in Keys, v \in Values : PutNew(k, v)
    BY <1>4
  <2>2. [key |-> k, value |-> v] \in Entry
    BY DEF Entry
  <2>3. buckets' \in Chains(buckets_length)
    BY <2>1, <2>2, InsertType DEF PutNew, TypeOK
  <2>. QED
    BY <2>1, <2>3 DEF PutNew, DropIterator, TypeOK
<1>5. CASE \E k \in Keys, v \in Values : PutGrowing(k, v)
  <2>1. PICK k \in Keys, v \in Values : PutGrowing(k, v)
    BY <1>5
  <2>2. [key |-> k, value |-> v] \in Entry
    BY DEF Entry
  <2>3. /\ buckets_length' = buckets_length * 2 + 1
        /\ buckets_length' \in Nat \ {0} /\ buckets_length \in 0..buckets_length'
    BY <2>1 DEF PutGrowing, Grow, TypeOK
  <2>4. buckets' \in Chains(buckets_length') /\ old_buckets' \in Chains(buckets_length)
    BY <2>1, <2>3, NoBucketsType DEF PutGrowing, Grow, TypeOK
  <2>5. pending' \in Seq(Entry) /\ Len(pending') = 1
    BY <2>1, <2>2 DEF PutGrowing, Grow
  <2>. QED
    BY <2>1, <2>3, <2>4, <2>5 DEF PutGrowing, Grow, DropIterator, TypeOK
<1>6. CASE Clear
  BY <1>6, NoBucketsType DEF Clear, DropIterator, TypeOK
<1>7. CASE Iterate
  BY <1>7, StandAtFirstType DEF Iterate, TypeOK
<1>8. CASE IteratorNext
  <2>1. index \in 0..(buckets_length - 1) /\ index + 1 \in Nat
    BY <1>8 DEF IteratorNext, NextFrom, AtEnd, TypeOK
  <2>2. index' \in 0..buckets_length /\ it' \in Keys
    <3>1. CASE Place(it) < Len(chain(it))
      <4>1. it \in Keys /\ Contains(it)
        BY <1>8, ContainsIfThere
           DEF IteratorNext, NextFrom, Inv, Standing, TypeOK
      <4>2. Place(it) \in 1..Len(chain(it)) /\ chain(it) \in Seq(Entry)
        BY <3>1, <4>1, ChainIsSeq, PlaceIsIn
      <4>3. chain(it)[Place(it) + 1] \in Entry
        BY <3>1, <4>2
      <4>. QED
        BY <1>8, <3>1, <4>3 DEF IteratorNext, NextFrom, Entry, TypeOK
    <3>2. CASE ~(Place(it) < Len(chain(it)))
      BY <1>8, <2>1, <3>2, StandAtFirstType DEF IteratorNext, NextFrom
    <3>. QED
      BY <3>1, <3>2
  <2>3. ret' \in Values \cup {NULL}
    BY <1>8, ValueFound DEF IteratorNext, NextFrom, TypeOK
  <2>. QED
    BY <1>8, <2>2, <2>3 DEF IteratorNext, NextFrom, TypeOK
<1>9. CASE IteratorNextAtEnd
  BY <1>9 DEF IteratorNextAtEnd, Answer, TypeOK
<1>10. CASE MoveEntry
  <2>1. PICK b \in DOMAIN old_buckets :
          MoveFirst(b, hmap_hash(Head(old_buckets[b]).key, buckets_length))
    BY <1>10 DEF MoveEntry
  <2>2. PICK n \in 0..buckets_length : old_buckets \in Chains(n)
    BY DEF TypeOK
  <2>3. old_buckets[b] \in Seq(Entry) /\ old_buckets[b] # <<>>
    BY <2>1, <2>2 DEF MoveFirst, Chains
  <2>4. /\ Head(old_buckets[b]) \in Entry
        /\ Tail(old_buckets[b]) \in Seq(Entry)
    BY <2>3
  <2>5. hmap_hash(Head(old_buckets[b]).key, buckets_length)
          \in 0..(buckets_length - 1)
    BY <2>4, HashInRange DEF TypeOK, Entry
  <2>6. buckets' \in Chains(buckets_length)
    BY <2>1, <2>4, <2>5 DEF MoveFirst, TypeOK, Chains
  <2>7. old_buckets' \in Chains(n)
    BY <2>1, <2>2, <2>4 DEF MoveFirst, Chains
  <2>. QED
    BY <2>1, <2>6, <2>7 DEF MoveFirst, TypeOK
<1>11. CASE InsertPending
  <2>1. Head(pending) \in Entry
    BY <1>11 DEF InsertPending, Idle, TypeOK
  <2>2. buckets' \in Chains(buckets_length)
    BY <1>11, <2>1, InsertType DEF InsertPending, TypeOK
  <2>3. old_buckets' \in Chains(0)
    BY <1>11, NoBucketsType DEF InsertPending
  <2>. QED
    BY <1>11, <2>2, <2>3 DEF InsertPending, TypeOK
<1>12. CASE UNCHANGED vars
  BY <1>12 DEF vars, TypeOK
<1>. QED
  BY <1>1, <1>2, <1>3, <1>4, <1>5, <1>6, <1>7, <1>8, <1>9, <1>10, <1>11, <1>12
     DEF Next, Call, Rehash
-----------------------------------------------------------------------------
(* What a change of one chain does to the entries and to their places.     *)

LEMMA InEntries ==
  ASSUME NEW n \in Nat, NEW chains \in Chains(n), NEW x
  PROVE  x \in EntriesOf(chains)
           <=> \E b \in 0..(n - 1) : \E p \in DOMAIN chains[b] : x = chains[b][p]
<1>1. DOMAIN chains = 0..(n - 1) /\ \A b \in 0..(n - 1) : chains[b] \in Seq(Entry)
  BY DEF Chains
<1>2. \A b \in 0..(n - 1) : \A p \in DOMAIN chains[b] : chains[b][p] \in Entry
  BY <1>1
<1>. QED
  BY <1>1, <1>2 DEF EntriesOf

LEMMA Prepended ==
  ASSUME NEW s \in Seq(Entry), NEW e \in Entry
  PROVE  /\ DOMAIN (<<e>> \o s) = 1..(Len(s) + 1)
         /\ (<<e>> \o s)[1] = e
         /\ \A p \in 1..Len(s) : (<<e>> \o s)[p + 1] = s[p]
         /\ \A p \in DOMAIN (<<e>> \o s) : p # 1 =>
              p - 1 \in DOMAIN s /\ (<<e>> \o s)[p] = s[p - 1]
<1>1. Len(<<e>> \o s) = Len(s) + 1 /\ <<e>> \o s \in Seq(Entry)
  OBVIOUS
<1>2. DOMAIN (<<e>> \o s) = 1..(Len(s) + 1) /\ DOMAIN s = 1..Len(s)
  BY <1>1
<1>3. \A p \in 1..(Len(s) + 1) :
        (<<e>> \o s)[p] = IF p = 1 THEN e ELSE s[p - 1]
  OBVIOUS
<1>. QED
  BY <1>2, <1>3

LEMMA InsertPlaced ==
  ASSUME NEW n \in Nat \ {0}, NEW chains \in Chains(n), Placed(chains, n),
         NEW e \in Entry, \A x \in EntriesOf(chains) : x.key # e.key
  PROVE  /\ Placed(Insert(e, chains, n), n)
         /\ EntriesOf(Insert(e, chains, n)) = EntriesOf(chains) \cup {e}
<1>. DEFINE new == Insert(e, chains, n)
            h == hmap_hash(e.key, n)
<1>1. /\ new \in Chains(n)
      /\ \A b \in 0..(n - 1) :
           new[b] = IF b = h THEN <<e>> \o chains[b] ELSE chains[b]
  BY InsertType
<1>2. h \in 0..(n - 1)
  BY HashInRange DEF Entry
<1>3. /\ chains[h] \in Seq(Entry)
      /\ DOMAIN new[h] = 1..(Len(chains[h]) + 1)
      /\ new[h][1] = e
      /\ \A p \in 1..Len(chains[h]) : new[h][p + 1] = chains[h][p]
      /\ \A p \in DOMAIN new[h] : p # 1 =>
           p - 1 \in DOMAIN chains[h] /\ new[h][p] = chains[h][p - 1]
  <2>1. chains[h] \in Seq(Entry)
    BY <1>2 DEF Chains
  <2>2. new[h] = <<e>> \o chains[h]
    BY <1>1, <1>2
  <2>. HIDE DEF new, h
  <2>. QED
    BY <2>1, <2>2, Prepended
<1>. HIDE DEF new, h
<1>4. \A b \in 0..(n - 1) : \A p \in DOMAIN chains[b] : chains[b][p] \in EntriesOf(chains)
  BY DEF EntriesOf, Chains
<1>5. Placed(new, n)
  <2>1. ASSUME NEW b \in 0..(n - 1), b # h
        PROVE  /\ \A p \in DOMAIN new[b] : hmap_hash(new[b][p].key, n) = b
               /\ \A p, q \in DOMAIN new[b] :
                    new[b][p].key = new[b][q].key => p = q
    BY <1>1, <2>1 DEF Placed
  <2>2. \A p \in DOMAIN new[h] : hmap_hash(new[h][p].key, n) = h
    BY <1>2, <1>3 DEF Placed, h
  <2>3. ASSUME NEW p \in DOMAIN new[h], NEW q \in DOMAIN new[h],
               new[h][p].key = new[h][q].key
        PROVE  p = q
    <3>1. CASE p = 1 /\ q # 1
      BY <1>2, <1>3, <1>4, <2>3, <3>1
    <3>2. CASE q = 1 /\ p # 1
      BY <1>2, <1>3, <1>4, <2>3, <3>2
    <3>3. CASE p # 1 /\ q # 1
      <4>1. p - 1 = q - 1
        BY <1>2, <1>3, <2>3, <3>3 DEF Placed
      <4>. QED
        BY <1>3, <4>1
    <3>. QED
      BY <3>1, <3>2, <3>3
  <2>. QED
    BY <2>1, <2>2, <2>3 DEF Placed
<1>6. EntriesOf(new) = EntriesOf(chains) \cup {e}
  <2>1. ASSUME NEW x \in EntriesOf(new) PROVE x \in EntriesOf(chains) \cup {e}
    <3>1. PICK b \in 0..(n - 1) : \E p \in DOMAIN new[b] : x = new[b][p]
      BY <1>1, InEntries
    <3>2. CASE b = h
      <4>1. PICK p \in DOMAIN new[h] : x = new[h][p]
        BY <3>1, <3>2
      <4>2. CASE p = 1
        BY <1>3, <4>1, <4>2
      <4>3. CASE p # 1
        BY <1>2, <1>3, <1>4, <4>1, <4>3
      <4>. QED
        BY <4>2, <4>3
    <3>3. CASE b # h
      BY <1>1, <1>4, <3>1, <3>3
    <3>. QED
      BY <3>2, <3>3
  <2>2. ASSUME NEW x \in EntriesOf(chains) PROVE x \in EntriesOf(new)
    <3>1. PICK b \in 0..(n - 1) : \E p \in DOMAIN chains[b] : x = chains[b][p]
      BY InEntries
    <3>2. \E q \in DOMAIN new[b] : x = new[b][q]
      BY <1>1, <1>3, <3>1
    <3>. QED
      BY <1>1, <3>2, InEntries
  <2>3. 1 \in DOMAIN new[h]
    BY <1>3
  <2>4. e \in EntriesOf(new)
    BY <1>1, <1>2, <1>3, <2>3, InEntries
  <2>. QED
    BY <2>1, <2>2, <2>4
<1>. QED
  BY <1>5, <1>6 DEF new

Appended(chains, b, e) == [chains EXCEPT ![b] = Append(@, e)]

LEMMA AppendPlaced ==
  ASSUME NEW n \in Nat \ {0}, NEW chains \in Chains(n), Placed(chains, n),
         NEW e \in Entry, \A x \in EntriesOf(chains) : x.key # e.key
  PROVE  LET new == Appended(chains, hmap_hash(e.key, n), e)
         IN  /\ Placed(new, n)
             /\ EntriesOf(new) = EntriesOf(chains) \cup {e}
<1>. USE DEF Appended
<1>. DEFINE new == [chains EXCEPT ![hmap_hash(e.key, n)] = Append(@, e)]
            h == hmap_hash(e.key, n)
            last == Len(chains[h]) + 1
<1>1. h \in 0..(n - 1)
  BY HashInRange DEF Entry
<1>2. chains[h] \in Seq(Entry) /\ last \in Nat
  BY <1>1 DEF Chains
<1>3. /\ DOMAIN new[h] = 1..last
      /\ new[h][last] = e
      /\ \A p \in 1..(last - 1) : p \in DOMAIN chains[h] /\ new[h][p] = chains[h][p]
      /\ \A b \in 0..(n - 1) : b # h => new[b] = chains[b]
  BY <1>1, <1>2 DEF Chains
<1>4. new \in Chains(n)
  BY <1>1, <1>2 DEF Chains
<1>. HIDE DEF new, h
<1>5. \A b \in 0..(n - 1) : \A p \in DOMAIN chains[b] :
         chains[b][p].key # e.key /\ chains[b][p] \in EntriesOf(chains)
  BY InEntries
<1>6. DOMAIN chains[h] = 1..(last - 1)
  BY <1>2
<1>7. Placed(new, n)
  <2>1. ASSUME NEW b \in 0..(n - 1), b # h
        PROVE  /\ \A p \in DOMAIN new[b] : hmap_hash(new[b][p].key, n) = b
               /\ \A p, q \in DOMAIN new[b] :
                    new[b][p].key = new[b][q].key => p = q
    BY <1>3, <2>1 DEF Placed
  <2>2. \A p \in DOMAIN new[h] : hmap_hash(new[h][p].key, n) = h
    BY <1>1, <1>2, <1>3 DEF Placed, h
  <2>3. ASSUME NEW p \in DOMAIN new[h], NEW q \in DOMAIN new[h],
               new[h][p].key = new[h][q].key
        PROVE  p = q
    <3>1. \A r \in DOMAIN new[h] : r # last => r \in DOMAIN chains[h]
      BY <1>2, <1>3, <1>6
    <3>2. CASE p = last \/ q = last
      BY <1>1, <1>2, <1>3, <1>5, <1>6, <2>3, <3>1, <3>2
    <3>3. CASE p # last /\ q # last
      BY <1>1, <1>2, <1>3, <1>6, <2>3, <3>1, <3>3 DEF Placed
    <3>. QED
      BY <3>2, <3>3
  <2>. QED
    BY <2>1, <2>2, <2>3 DEF Placed
<1>8. EntriesOf(new) = EntriesOf(chains) \cup {e}
  <2>1. ASSUME NEW x \in EntriesOf(new) PROVE x \in EntriesOf(chains) \cup {e}
    <3>1. PICK b \in 0..(n - 1) : \E p \in DOMAIN new[b] : x = new[b][p]
      BY <1>4, InEntries
    <3>2. CASE b = h
      BY <1>1, <1>2, <1>3, <1>5, <3>1, <3>2
    <3>3. CASE b # h
      BY <1>3, <1>5, <3>1, <3>3
    <3>. QED
      BY <3>2, <3>3
  <2>2. ASSUME NEW x \in EntriesOf(chains) PROVE x \in EntriesOf(new)
    <3>1. PICK b \in 0..(n - 1) : \E p \in DOMAIN chains[b] : x = chains[b][p]
      BY InEntries
    <3>2. \E q \in DOMAIN new[b] : x = new[b][q]
      BY <1>2, <1>3, <1>6, <3>1
    <3>. QED
      BY <1>4, <3>2, InEntries
  <2>3. last \in DOMAIN new[h]
    BY <1>2, <1>3
  <2>4. e \in EntriesOf(new)
    BY <1>1, <1>3, <1>4, <2>3, InEntries
  <2>. QED
    BY <2>1, <2>2, <2>4
<1>. QED
  BY <1>7, <1>8 DEF new

LEMMA WithoutPlaced ==
  ASSUME NEW n \in Nat \ {0}, NEW chains \in Chains(n), Placed(chains, n),
         NEW b \in 0..(n - 1), NEW p \in DOMAIN chains[b]
  PROVE  LET new == [chains EXCEPT ![b] = Without(@, p)]
         IN  /\ Placed(new, n)
             /\ EntriesOf(new) = EntriesOf(chains) \ {chains[b][p]}
             /\ chains[b][p] \in EntriesOf(chains)
<1>. DEFINE new == [chains EXCEPT ![b] = Without(@, p)]
<1>1. /\ chains[b] \in Seq(Entry)
      /\ DOMAIN chains[b] = 1..Len(chains[b]) /\ Len(chains[b]) \in Nat
  BY DEF Chains
<1>2. /\ new[b] \in Seq(Entry)
      /\ DOMAIN new[b] = 1..(Len(chains[b]) - 1)
      /\ \A q \in 1..(Len(chains[b]) - 1) :
           new[b][q] = IF q < p THEN chains[b][q] ELSE chains[b][q + 1]
      /\ \A d \in 0..(n - 1) : d # b => new[d] = chains[d]
      /\ new \in Chains(n)
  <2>1. Without(chains[b], p) \in Seq(Entry)
    BY <1>1, WithoutType
  <2>2. new[b] = Without(chains[b], p)
    BY DEF Chains
  <2>3. new \in Chains(n) /\ \A d \in 0..(n - 1) : d # b => new[d] = chains[d]
    BY <2>1 DEF Chains
  <2>4. /\ Len(Without(chains[b], p)) = Len(chains[b]) - 1
        /\ \A q \in 1..(Len(chains[b]) - 1) :
             Without(chains[b], p)[q] =
               IF q < p THEN chains[b][q] ELSE chains[b][q + 1]
    BY <1>1, WithoutType
  <2>. HIDE DEF new
  <2>5. DOMAIN new[b] = 1..(Len(chains[b]) - 1)
    BY <2>1, <2>2, <2>4
  <2>. QED
    BY <2>1, <2>2, <2>3, <2>4, <2>5
<1>. HIDE DEF new
<1>3. Placed(new, n)
  <2>1. ASSUME NEW d \in 0..(n - 1), d # b
        PROVE  /\ \A q \in DOMAIN new[d] : hmap_hash(new[d][q].key, n) = d
               /\ \A q, r \in DOMAIN new[d] :
                    new[d][q].key = new[d][r].key => q = r
    BY <1>2, <2>1 DEF Placed
  <2>2. ASSUME NEW q \in DOMAIN new[b]
        PROVE  \E r \in DOMAIN chains[b] :
                 new[b][q] = chains[b][r] /\ r = IF q < p THEN q ELSE q + 1
    BY <1>1, <1>2
  <2>3. \A q \in DOMAIN new[b] : hmap_hash(new[b][q].key, n) = b
    BY <2>2 DEF Placed
  <2>4. ASSUME NEW q \in DOMAIN new[b], NEW r \in DOMAIN new[b],
               new[b][q].key = new[b][r].key
        PROVE  q = r
    <3>1. (IF q < p THEN q ELSE q + 1) = (IF r < p THEN r ELSE r + 1)
      BY <2>2, <2>4 DEF Placed
    <3>. QED
      BY <1>1, <1>2, <3>1
  <2>. QED
    BY <2>1, <2>3, <2>4 DEF Placed
<1>4. ASSUME NEW x \in EntriesOf(new) PROVE x \in EntriesOf(chains) \ {chains[b][p]}
  <2>1. PICK d \in 0..(n - 1) : \E q \in DOMAIN new[d] : x = new[d][q]
    BY <1>2, InEntries
  <2>2. CASE d = b
    <3>1. PICK r \in DOMAIN new[b] : x = new[b][r]
      BY <2>1, <2>2
    <3>2. PICK q \in DOMAIN chains[b] : x = chains[b][q] /\ q # p
      BY <1>1, <1>2, <3>1
    <3>3. x # chains[b][p]
      BY <3>2 DEF Placed
    <3>. QED
      BY <3>2, <3>3, InEntries
  <2>3. CASE d # b
    <3>1. PICK q \in DOMAIN chains[d] : x = chains[d][q]
      BY <1>2, <2>1, <2>3
    <3>2. x # chains[b][p]
      BY <2>3, <3>1 DEF Placed
    <3>. QED
      BY <3>1, <3>2, InEntries
  <2>. QED
    BY <2>2, <2>3
<1>5. ASSUME NEW x \in EntriesOf(chains), x # chains[b][p] PROVE x \in EntriesOf(new)
  <2>1. PICK d \in 0..(n - 1) : \E q \in DOMAIN chains[d] : x = chains[d][q]
    BY InEntries
  <2>2. CASE d = b
    <3>1. PICK q \in DOMAIN chains[b] : x = chains[b][q] /\ q # p
      BY <1>5, <2>1, <2>2
    <3>2. CASE q < p
      BY <1>1, <1>2, <3>1, <3>2, InEntries
    <3>3. CASE q > p
      <4>1. q - 1 \in DOMAIN new[b] /\ new[b][q - 1] = x
        BY <1>1, <1>2, <3>1, <3>3
      <4>. QED
        BY <1>2, <4>1, InEntries
    <3>. QED
      BY <1>1, <3>1, <3>2, <3>3
  <2>3. CASE d # b
    BY <1>2, <2>1, <2>3, InEntries
  <2>. QED
    BY <2>2, <2>3
<1>. QED
  BY <1>3, <1>4, <1>5, InEntries DEF new

Shortened(chains, b) == [chains EXCEPT ![b] = Tail(@)]

LEMMA TailOnce ==
  ASSUME NEW n \in Nat, NEW chains \in Chains(n), Once(chains),
         NEW b \in 0..(n - 1), chains[b] # <<>>
  PROVE  LET new == Shortened(chains, b)
         IN  /\ new \in Chains(n)
             /\ Once(new)
             /\ EntriesOf(chains) = EntriesOf(new) \cup {Head(chains[b])}
             /\ \A x \in EntriesOf(new) : x.key # Head(chains[b]).key
<1>. USE DEF Shortened
<1>. DEFINE new == [chains EXCEPT ![b] = Tail(@)]
<1>1. /\ chains[b] \in Seq(Entry) /\ Len(chains[b]) \in Nat \ {0}
      /\ DOMAIN chains[b] = 1..Len(chains[b])
      /\ DOMAIN chains = 0..(n - 1)
  BY DEF Chains
<1>2. /\ new[b] = Tail(chains[b]) /\ new[b] \in Seq(Entry)
      /\ DOMAIN new[b] = 1..(Len(chains[b]) - 1)
      /\ \A q \in 1..(Len(chains[b]) - 1) : new[b][q] = chains[b][q + 1]
      /\ Head(chains[b]) = chains[b][1]
      /\ \A d \in 0..(n - 1) : d # b => new[d] = chains[d]
  BY <1>1 DEF Chains
<1>3. new \in Chains(n) /\ DOMAIN new = 0..(n - 1)
  BY <1>1, <1>2 DEF Chains
<1>. HIDE DEF new
<1>4. ASSUME NEW d \in 0..(n - 1), NEW q \in DOMAIN new[d]
      PROVE  \E r \in DOMAIN chains[d] :
                /\ new[d][q] = chains[d][r]
                /\ r = IF d = b THEN q + 1 ELSE q
  BY <1>1, <1>2
<1>5. Once(new)
  <2>. SUFFICES ASSUME NEW d \in 0..(n - 1), NEW g \in 0..(n - 1),
                       NEW q \in DOMAIN new[d], NEW r \in DOMAIN new[g],
                       new[d][q].key = new[g][r].key
                PROVE  d = g /\ q = r
    BY <1>3 DEF Once
  <2>1. q \in Nat /\ r \in Nat
    BY <1>3 DEF Chains
  <2>2. /\ new[d][q] = chains[d][IF d = b THEN q + 1 ELSE q]
        /\ (IF d = b THEN q + 1 ELSE q) \in DOMAIN chains[d]
    BY <1>4
  <2>3. /\ new[g][r] = chains[g][IF g = b THEN r + 1 ELSE r]
        /\ (IF g = b THEN r + 1 ELSE r) \in DOMAIN chains[g]
    BY <1>4
  <2>4. d = g /\ (IF d = b THEN q + 1 ELSE q) = (IF g = b THEN r + 1 ELSE r)
    BY <1>1, <2>2, <2>3 DEF Once
  <2>. QED
    BY <2>1, <2>4
<1>6. \A x \in EntriesOf(new) : x \in EntriesOf(chains) /\ x.key # Head(chains[b]).key
  <2>. TAKE x \in EntriesOf(new)
  <2>1. PICK d \in 0..(n - 1) : \E q \in DOMAIN new[d] : x = new[d][q]
    BY <1>3, InEntries
  <2>2. PICK q \in DOMAIN new[d] : x = new[d][q]
    BY <2>1
  <2>3. q \in Nat \ {0}
    BY <1>3 DEF Chains
  <2>4. PICK r \in DOMAIN chains[d] : x = chains[d][r] /\ (d = b => r # 1)
    BY <1>4, <2>2, <2>3
  <2>5. x.key # chains[b][1].key
    BY <1>1, <2>4 DEF Once
  <2>. QED
    BY <1>2, <2>4, <2>5, InEntries
<1>7. ASSUME NEW x \in EntriesOf(chains), x # Head(chains[b]) PROVE x \in EntriesOf(new)
  <2>1. PICK d \in 0..(n - 1) : \E q \in DOMAIN chains[d] : x = chains[d][q]
    BY InEntries
  <2>2. CASE d = b
    <3>1. PICK q \in DOMAIN chains[b] : x = chains[b][q] /\ q # 1
      BY <1>2, <1>7, <2>1, <2>2
    <3>2. q - 1 \in DOMAIN new[b] /\ new[b][q - 1] = x
      BY <1>1, <1>2, <3>1
    <3>. QED
      BY <1>3, <3>2, InEntries
  <2>3. CASE d # b
    BY <1>2, <1>3, <2>1, <2>3, InEntries
  <2>. QED
    BY <2>2, <2>3
<1>8. Head(chains[b]) \in EntriesOf(chains)
  <2>1. 1 \in DOMAIN chains[b]
    BY <1>1
  <2>. QED
    BY <1>2, <2>1, InEntries
<1>. QED
  BY <1>3, <1>5, <1>6, <1>7, <1>8 DEF new

(* A new value leaves the entry where it is.                               *)
Revalued(e, v) == [e EXCEPT !.value = v]
Replaced(chains, b, p, v) == [chains EXCEPT ![b] = [@ EXCEPT ![p].value = v]]

LEMMA ReplacePlaced ==
  ASSUME NEW n \in Nat \ {0}, NEW chains \in Chains(n), Placed(chains, n),
         NEW b \in 0..(n - 1), NEW p \in DOMAIN chains[b], NEW v \in Values
  PROVE  /\ Placed(Replaced(chains, b, p, v), n)
         /\ EntriesOf(Replaced(chains, b, p, v)) =
              (EntriesOf(chains) \ {chains[b][p]}) \cup {Revalued(chains[b][p], v)}
         /\ Revalued(chains[b][p], v).key = chains[b][p].key
<1>. DEFINE new == [chains EXCEPT ![b] = [@ EXCEPT ![p].value = v]]
            e == [chains[b][p] EXCEPT !.value = v]
<1>1. chains[b] \in Seq(Entry) /\ chains[b][p] \in Entry
  BY DEF Chains
<1>2. e \in Entry /\ e.key = chains[b][p].key
  BY <1>1 DEF Entry
<1>3. /\ DOMAIN new[b] = DOMAIN chains[b]
      /\ new[b][p] = e
      /\ \A q \in DOMAIN chains[b] : q # p => new[b][q] = chains[b][q]
      /\ \A d \in 0..(n - 1) : d # b => new[d] = chains[d]
  BY <1>1 DEF Chains
<1>4. new \in Chains(n)
  <2>1. [chains[b] EXCEPT ![p] = e] \in Seq(Entry)
    BY <1>1, <1>2, ExceptSeq
  <2>2. new = [chains EXCEPT ![b] = [chains[b] EXCEPT ![p] = e]]
    OBVIOUS
  <2>. HIDE DEF new, e
  <2>. QED
    BY <2>1, <2>2 DEF Chains
<1>. HIDE DEF new, e
<1>5. Placed(new, n)
  <2>1. ASSUME NEW d \in 0..(n - 1), NEW q \in DOMAIN new[d]
        PROVE  q \in DOMAIN chains[d] /\ new[d][q].key = chains[d][q].key
    BY <1>2, <1>3
  <2>. QED
    BY <2>1 DEF Placed
<1>6. ASSUME NEW x
      PROVE  x \in EntriesOf(new)
               <=> x \in (EntriesOf(chains) \ {chains[b][p]}) \cup {e}
  <2>1. x \in EntriesOf(new) <=> \E d \in 0..(n - 1) : \E q \in DOMAIN new[d] : x = new[d][q]
    BY <1>4, InEntries
  <2>2. x \in EntriesOf(chains)
          <=> \E d \in 0..(n - 1) : \E q \in DOMAIN chains[d] : x = chains[d][q]
    BY InEntries
  <2>3. ASSUME NEW d \in 0..(n - 1), NEW q \in DOMAIN chains[d],
               chains[d][q] = chains[b][p]
        PROVE  d = b /\ q = p
    BY <2>3 DEF Placed
  <2>. QED
    BY <1>3, <2>1, <2>2, <2>3
<1>. QED
  BY <1>2, <1>5, <1>6 DEF new, e, Replaced, Revalued

LEMMA EmptyChains ==
  ASSUME NEW n \in Nat
  PROVE  EntriesOf(NoBuckets(n)) = {} /\ Placed(NoBuckets(n), n) /\ Once(NoBuckets(n))
BY DEF EntriesOf, NoBuckets, Placed, Once

LEMMA NoEntries ==
  ASSUME NEW n \in Nat, NEW chains \in Chains(n), \A b \in DOMAIN chains : chains[b] = <<>>
  PROVE  EntriesOf(chains) = {}
BY DEF EntriesOf

LEMMA FoundIsPlaced ==
  ASSUME TypeOK
  PROVE  FoundWhereLookedUp <=> Placed(buckets, buckets_length)
BY DEF FoundWhereLookedUp, Placed, TypeOK, Chains

(* Between calls every entry is in the buckets.                            *)
LEMMA AtRestAllThere ==
  ASSUME Inv, Idle
  PROVE  /\ old_buckets = NoBuckets(0)
         /\ EntriesOf(old_buckets) = {}
         /\ Range(pending) = {}
         /\ Contents = EntriesOf(buckets)
<1>1. old_buckets = NoBuckets(0)
  BY DEF Inv, AtRest
<1>2. Range(pending) = {}
  BY DEF Idle, Range
<1>. QED
  BY <1>1, <1>2, EmptyChains DEF Contents

(* What is left to show of a step from rest that leaves it so.             *)
LEMMA StaysAtRest ==
  ASSUME Inv, Idle, UNCHANGED rehashVars
  PROVE  /\ (OldOnce /\ NotYetMoved /\ PendingIsNew /\ AtRest)'
         /\ Contents' = EntriesOf(buckets')
<1>1. old_buckets' = NoBuckets(0) /\ pending' = <<>>
  BY AtRestAllThere DEF rehashVars, Idle
<1>2. Range(pending') = {}
  BY <1>1 DEF Range
<1>3. EntriesOf(old_buckets') = {} /\ Once(old_buckets')
  BY <1>1, EmptyChains
<1>. QED
  BY <1>1, <1>2, <1>3 DEF OldOnce, NotYetMoved, PendingIsNew, AtRest, Contents
-----------------------------------------------------------------------------
(* What each action leaves of the invariant, given the type.               *)

Rest == OldOnce /\ NotYetMoved /\ PendingIsNew /\ AtRest

LEMMA InitInv == Init => Inv
<1>. SUFFICES ASSUME Init PROVE Inv
  OBVIOUS
<1>1. TypeOK
  BY InitType
<1>2. /\ EntriesOf(buckets) = {} /\ Placed(buckets, buckets_length)
      /\ EntriesOf(old_buckets) = {} /\ Once(old_buckets)
      /\ Range(pending) = {}
  BY CapacityAssumption, EmptyChains DEF Init, Range
<1>3. Contents = {}
  BY <1>2 DEF Contents
<1>4. Sized
  BY <1>3, FS_EmptySet DEF Init, Sized
<1>5. size <= threshold
  BY CapacityAssumption DEF Init, threshold_of
<1>6. AtRest /\ Standing
  BY DEF Init, AtRest, Standing, AtEnd
<1>. QED
  BY <1>1, <1>2, <1>4, <1>5, <1>6, FoundIsPlaced
     DEF Inv, OldOnce, NotYetMoved, PendingIsNew

LEMMA RemoveInv ==
  ASSUME Inv, TypeOK', NEW k \in Keys, Remove(k)
  PROVE  Inv'
<1>. USE DEF mapVars, rehashVars, itVars
<1>. TypeOK /\ FoundWhereLookedUp /\ Idle
  BY DEF Inv, Remove, RemoveSized
<1>1. Rest' /\ Contents' = EntriesOf(buckets') /\ Contents = EntriesOf(buckets)
  BY StaysAtRest, AtRestAllThere DEF Remove, RemoveSized, Rest
<1>2. CASE Contains(k)
  <2>. DEFINE b == hmap_hash(k, buckets_length)
              p == Place(k)
  <2>1. b \in 0..(buckets_length - 1) /\ p \in DOMAIN buckets[b] /\ buckets[b][p].key = k
    BY <1>2, HashInRange, PlaceIsIn DEF TypeOK, chain
  <2>2. buckets' = [buckets EXCEPT ![b] = Without(@, p)] /\ size' = size - 1
    BY <1>2 DEF Remove, RemoveSized
  <2>. HIDE DEF b, p
  <2>3. /\ Placed(buckets', buckets_length)
        /\ EntriesOf(buckets') = EntriesOf(buckets) \ {buckets[b][p]}
        /\ buckets[b][p] \in EntriesOf(buckets)
    <3>1. /\ buckets_length \in Nat \ {0} /\ buckets \in Chains(buckets_length)
          /\ Placed(buckets, buckets_length)
      BY FoundIsPlaced DEF TypeOK
    <3>2. LET new == [buckets EXCEPT ![b] = Without(@, p)]
          IN  /\ Placed(new, buckets_length)
              /\ EntriesOf(new) = EntriesOf(buckets) \ {buckets[b][p]}
              /\ buckets[b][p] \in EntriesOf(buckets)
      BY <2>1, <3>1, WithoutPlaced, Zenon
    <3>. QED
      BY <2>2, <3>2, Zenon
  <2>4. FoundWhereLookedUp'
    BY <2>3, FoundIsPlaced DEF Remove, RemoveSized, FoundWhereLookedUp, TypeOK, Placed, Chains
  <2>5. Sized' /\ (size <= threshold)'
    <3>1. IsFiniteSet(Contents) /\ size = Cardinality(Contents)
      BY DEF Inv, Sized
    <3>2. IsFiniteSet(Contents') /\ Cardinality(Contents') = size - 1
      BY <1>1, <2>3, <3>1, FS_RemoveElement
    <3>3. size' <= threshold'
      BY <2>2 DEF Inv, Remove, RemoveSized, TypeOK, threshold_of
    <3>. QED
      BY <2>2, <3>2, <3>3 DEF Sized
  <2>6. Standing'
    <3>1. AtEnd \/ it # k
      BY DEF Remove, RemoveSized
    <3>. QED
      BY <1>1, <2>1, <2>3, <3>1 DEF Inv, Standing, AtEnd, Idle, Remove, RemoveSized
  <2>. QED
    BY <1>1, <2>4, <2>5, <2>6 DEF Inv, Rest
<1>3. CASE ~Contains(k)
  <2>1. buckets' = buckets /\ size' = size
    BY <1>3 DEF Remove, RemoveSized
  <2>2. Sized' /\ (size <= threshold)'
    BY <1>1, <2>1 DEF Inv, Sized, Remove, RemoveSized
  <2>3. FoundWhereLookedUp' /\ Standing'
    BY <2>1 DEF Inv, FoundWhereLookedUp, Standing, AtEnd, Idle, Remove, RemoveSized
  <2>. QED
    BY <1>1, <2>2, <2>3 DEF Inv, Rest
<1>. QED
  BY <1>2, <1>3

LEMMA PutExistingInv ==
  ASSUME Inv, TypeOK', NEW k \in Keys, NEW v \in Values, PutExisting(k, v)
  PROVE  Inv'
<1>. USE DEF mapVars, rehashVars, itVars
<1>. TypeOK /\ FoundWhereLookedUp /\ Idle
  BY DEF Inv, PutExisting
<1>. DEFINE b == hmap_hash(k, buckets_length)
            p == Place(k)
            e == Revalued(buckets[b][p], v)
<1>1. Rest' /\ Contents' = EntriesOf(buckets') /\ Contents = EntriesOf(buckets)
  BY StaysAtRest, AtRestAllThere DEF PutExisting, Rest
<1>2. b \in 0..(buckets_length - 1) /\ p \in DOMAIN buckets[b] /\ buckets[b][p].key = k
  BY HashInRange, PlaceIsIn DEF TypeOK, chain, PutExisting
<1>3. buckets' = Replaced(buckets, b, p, v)
  BY DEF PutExisting, Replaced
<1>. HIDE DEF b, p
<1>4. /\ Placed(buckets', buckets_length)
      /\ EntriesOf(buckets') = (EntriesOf(buckets) \ {buckets[b][p]}) \cup {e}
      /\ e.key = k
  <2>1. /\ buckets_length \in Nat \ {0} /\ buckets \in Chains(buckets_length)
        /\ Placed(buckets, buckets_length)
    BY FoundIsPlaced DEF TypeOK
  <2>. HIDE DEF e
  <2>. QED
    BY <1>2, <1>3, <2>1, ReplacePlaced DEF e
<1>. HIDE DEF e
<1>5. FoundWhereLookedUp'
  BY <1>4 DEF PutExisting, FoundWhereLookedUp, TypeOK, Placed, Chains
<1>6. buckets[b][p] \in EntriesOf(buckets)
  BY <1>2, InEntries DEF TypeOK
<1>7. e \notin EntriesOf(buckets) \ {buckets[b][p]}
  <2>. SUFFICES ASSUME NEW x \in EntriesOf(buckets), x.key = k PROVE x = buckets[b][p]
    BY <1>4
  <2>1. PICK d \in 0..(buckets_length - 1) : \E q \in DOMAIN buckets[d] : x = buckets[d][q]
    BY InEntries DEF TypeOK
  <2>2. PICK q \in DOMAIN buckets[d] : x = buckets[d][q]
    BY <2>1
  <2>3. d = b
    BY <1>2, <2>2, FoundIsPlaced DEF Placed, b
  <2>4. q = p
    BY <1>2, <2>2, <2>3, FoundIsPlaced DEF Placed
  <2>. QED
    BY <2>2, <2>3, <2>4
<1>8. Sized'
  <2>1. IsFiniteSet(Contents) /\ size = Cardinality(Contents)
    BY DEF Inv, Sized
  <2>2. /\ IsFiniteSet(Contents \ {buckets[b][p]})
        /\ Cardinality(Contents \ {buckets[b][p]}) = size - 1
    BY <1>1, <1>6, <2>1, FS_RemoveElement
  <2>. DEFINE others == EntriesOf(buckets) \ {buckets[b][p]}
  <2>3. /\ IsFiniteSet(others) /\ Cardinality(others) = size - 1
        /\ e \notin others /\ Contents' = others \cup {e}
    BY <1>1, <1>4, <1>7, <2>2
  <2>. HIDE DEF others
  <2>4. IsFiniteSet(Contents') /\ Cardinality(Contents') = size - 1 + 1
    BY <2>3, FS_AddElement
  <2>. QED
    BY <2>4 DEF Sized, PutExisting, TypeOK
<1>9. Standing' /\ (size <= threshold)'
  BY DEF Inv, Standing, AtEnd, PutExisting, DropIterator
<1>. QED
  BY <1>1, <1>5, <1>8, <1>9 DEF Inv, Rest

LEMMA PutNewInv ==
  ASSUME Inv, TypeOK', NEW k \in Keys, NEW v \in Values, PutNew(k, v)
  PROVE  Inv'
<1>. USE DEF mapVars, rehashVars, itVars
<1>. TypeOK /\ FoundWhereLookedUp /\ Idle
  BY DEF Inv, PutNew
<1>. DEFINE e == [key |-> k, value |-> v]
<1>1. Rest' /\ Contents' = EntriesOf(buckets') /\ Contents = EntriesOf(buckets)
  BY StaysAtRest, AtRestAllThere DEF PutNew, Rest
<1>2. e \in Entry /\ e.key = k
  BY DEF Entry
<1>3. buckets' = Insert(e, buckets, buckets_length)
  BY DEF PutNew
<1>. HIDE DEF e
<1>4. \A x \in EntriesOf(buckets) : x.key # k
  BY ContainsIfThere DEF PutNew
<1>5. /\ Placed(buckets', buckets_length)
      /\ EntriesOf(buckets') = EntriesOf(buckets) \cup {e}
  BY <1>2, <1>3, <1>4, FoundIsPlaced, InsertPlaced DEF TypeOK
<1>6. FoundWhereLookedUp'
  BY <1>5 DEF PutNew, FoundWhereLookedUp, TypeOK, Placed, Chains
<1>7. Sized'
  <2>1. IsFiniteSet(Contents) /\ size = Cardinality(Contents)
    BY DEF Inv, Sized
  <2>2. IsFiniteSet(Contents') /\ Cardinality(Contents') = size + 1
    BY <1>1, <1>2, <1>4, <1>5, <2>1, FS_AddElement
  <2>. QED
    BY <2>2 DEF Sized, PutNew
<1>8. Standing' /\ (size <= threshold)'
  BY DEF Standing, AtEnd, PutNew, DropIterator
<1>. QED
  BY <1>1, <1>6, <1>7, <1>8 DEF Inv, Rest

LEMMA PutGrowingInv ==
  ASSUME Inv, TypeOK', NEW k \in Keys, NEW v \in Values, PutGrowing(k, v)
  PROVE  Inv'
<1>. USE DEF mapVars, rehashVars, itVars
<1>. TypeOK /\ FoundWhereLookedUp /\ Idle
  BY DEF Inv, PutGrowing, Grow
<1>. DEFINE e == [key |-> k, value |-> v]
<1>1. Contents = EntriesOf(buckets)
  BY AtRestAllThere
<1>2. e.key = k
  OBVIOUS
<1>3. /\ buckets' = NoBuckets(buckets_length')
      /\ old_buckets' = buckets
      /\ pending' = <<e>>
  BY DEF PutGrowing, Grow
<1>. HIDE DEF e
<1>4. \A x \in EntriesOf(buckets) : x.key # k
  BY ContainsIfThere DEF PutGrowing, Grow
<1>5. Range(pending') = {e}
  <2>1. DOMAIN pending' = {1} /\ pending'[1] = e
    BY <1>3
  <2>. QED
    BY <2>1 DEF Range
<1>6. EntriesOf(buckets') = {} /\ Placed(buckets', buckets_length')
  BY <1>3, EmptyChains DEF TypeOK
<1>7. EntriesOf(old_buckets') = EntriesOf(buckets)
  BY <1>3
<1>8. Contents' = Contents \cup {e}
  BY <1>1, <1>5, <1>6, <1>7 DEF Contents
<1>9. Sized'
  <2>1. IsFiniteSet(Contents) /\ size = Cardinality(Contents)
    BY DEF Inv, Sized
  <2>2. IsFiniteSet(Contents') /\ Cardinality(Contents') = size + 1
    BY <1>1, <1>2, <1>4, <1>8, <2>1, FS_AddElement
  <2>. QED
    BY <2>2 DEF Sized, PutGrowing, Grow
<1>10. (size <= threshold)'
  <2>1. size <= (buckets_length * 3) \div 4 /\ size \in Nat /\ buckets_length \in Nat \ {0}
    BY DEF Inv, TypeOK, threshold_of
  <2>2. size + 1 <= ((buckets_length * 2 + 1) * 3) \div 4
    BY <2>1
  <2>. QED
    BY <2>2 DEF PutGrowing, Grow, threshold_of
<1>11. OldOnce'
  <2>1. Placed(buckets, buckets_length) /\ DOMAIN buckets = 0..(buckets_length - 1)
    BY FoundIsPlaced DEF TypeOK, Chains
  <2>2. Once(buckets)
    BY <2>1 DEF Placed, Once
  <2>. QED
    BY <1>3, <2>2 DEF OldOnce
<1>12. NotYetMoved' /\ PendingIsNew'
  BY <1>2, <1>4, <1>5, <1>6, <1>7 DEF NotYetMoved, PendingIsNew
<1>13. AtRest' /\ Standing'
  BY <1>3 DEF AtRest, Idle, Standing, AtEnd, PutGrowing, Grow, DropIterator
<1>14. FoundWhereLookedUp'
  BY <1>6 DEF FoundWhereLookedUp, TypeOK, Placed, Chains
<1>. QED
  BY <1>9, <1>10, <1>11, <1>12, <1>13, <1>14 DEF Inv

LEMMA ClearInv == ASSUME Inv, TypeOK', Clear PROVE Inv'
<1>. USE DEF mapVars, rehashVars, itVars
<1>. TypeOK /\ Idle
  BY DEF Inv, Clear
<1>1. Rest' /\ Contents' = EntriesOf(buckets')
  BY StaysAtRest DEF Clear, Rest
<1>2. EntriesOf(buckets') = {} /\ Placed(buckets', buckets_length)
  BY EmptyChains DEF Clear, TypeOK
<1>3. Sized'
  BY <1>1, <1>2, FS_EmptySet DEF Sized, Clear
<1>4. FoundWhereLookedUp'
  BY <1>2 DEF Clear, FoundWhereLookedUp, TypeOK, Placed, Chains
<1>5. Standing' /\ (size <= threshold)'
  BY DEF Standing, AtEnd, Clear, DropIterator, TypeOK, threshold_of
<1>. QED
  BY <1>1, <1>3, <1>4, <1>5 DEF Inv, Rest
(* The iterator stops at an entry that is there, or at the end.            *)
LEMMA StandAtFirstStands ==
  ASSUME TypeOK, FoundWhereLookedUp, Idle, NEW b \in Nat, StandAtFirst(b),
         UNCHANGED <<mapVars, rehashVars>>
  PROVE  Standing'
<1>. USE DEF mapVars, rehashVars
<1>. DEFINE full == {a \in b..(buckets_length - 1) : buckets[a] # <<>>}
<1>1. CASE full = {}
  BY <1>1 DEF StandAtFirst, Standing, AtEnd
<1>2. CASE full # {}
  <2>1. PICK a \in full : index' = a /\ it' = Head(buckets[a]).key
    BY <1>2 DEF StandAtFirst
  <2>2. a \in 0..(buckets_length - 1) /\ buckets[a] # <<>>
    BY DEF TypeOK
  <2>3. buckets[a] \in Seq(Entry)
    BY <2>2 DEF TypeOK, Chains
  <2>4. 1 \in DOMAIN buckets[a] /\ Head(buckets[a]) = buckets[a][1]
    BY <2>2, <2>3
  <2>5. buckets[a][1] \in EntriesOf(buckets)
    BY <2>2, <2>4, InEntries DEF TypeOK
  <2>6. a = hmap_hash(it', buckets_length)
    BY <2>1, <2>2, <2>4, FoundIsPlaced DEF Placed
  <2>. QED
    BY <2>1, <2>4, <2>5, <2>6 DEF Standing, Idle
<1>. QED
  BY <1>1, <1>2

LEMMA IteratorInv ==
  ASSUME Inv, TypeOK', Iterate \/ IteratorNext
  PROVE  Inv'
<1>. USE DEF mapVars, rehashVars
<1>. TypeOK /\ FoundWhereLookedUp /\ Idle /\ UNCHANGED <<mapVars, rehashVars>>
  BY DEF Inv, Iterate, IteratorNext, NextFrom
<1>1. Rest' /\ Contents' = Contents
  BY StaysAtRest, AtRestAllThere DEF Rest
<1>2. FoundWhereLookedUp' /\ Sized' /\ (size <= threshold)'
  BY <1>1 DEF Inv, FoundWhereLookedUp, Sized
<1>3. Standing'
  <2>1. CASE Iterate
    BY <2>1, StandAtFirstStands DEF Iterate
  <2>2. CASE IteratorNext /\ Place(it) < Len(chain(it))
    <3>1. it \in Keys /\ Contains(it) /\ index = hmap_hash(it, buckets_length)
      BY <2>2, ContainsIfThere DEF IteratorNext, NextFrom, Inv, Standing, TypeOK
    <3>2. /\ chain(it) \in Seq(Entry) /\ chain(it) = buckets[index]
          /\ Place(it) \in 1..Len(chain(it)) /\ index \in 0..(buckets_length - 1)
      BY <3>1, ChainIsSeq, PlaceIsIn, HashInRange DEF TypeOK
    <3>. DEFINE p == Place(it) + 1
    <3>3. p \in DOMAIN buckets[index] /\ it' = buckets[index][p].key /\ index' = index
      BY <2>2, <3>2 DEF IteratorNext, NextFrom
    <3>. HIDE DEF p
    <3>4. buckets[index][p] \in EntriesOf(buckets)
      BY <3>2, <3>3, InEntries DEF TypeOK
    <3>5. hmap_hash(it', buckets_length) = index
      BY <3>2, <3>3, FoundIsPlaced DEF Placed
    <3>. QED
      BY <3>3, <3>4, <3>5 DEF Standing, Idle
  <2>3. CASE IteratorNext /\ ~(Place(it) < Len(chain(it)))
    <3>1. index + 1 \in Nat
      BY DEF TypeOK
    <3>. QED
      BY <2>3, <3>1, StandAtFirstStands DEF IteratorNext, NextFrom
  <2>. QED
    BY <2>1, <2>2, <2>3
<1>. QED
  BY <1>1, <1>2, <1>3 DEF Inv, Rest

LEMMA MoveEntryInv == ASSUME Inv, TypeOK', MoveEntry PROVE Inv'
<1>. TypeOK /\ FoundWhereLookedUp
  BY DEF Inv
<1>1. PICK b \in DOMAIN old_buckets :
        MoveFirst(b, hmap_hash(Head(old_buckets[b]).key, buckets_length))
  BY DEF MoveEntry
<1>2. PICK n \in 0..buckets_length : old_buckets \in Chains(n)
  BY DEF TypeOK
<1>. DEFINE e == Head(old_buckets[b])
<1>3. /\ n \in Nat /\ b \in 0..(n - 1)
      /\ old_buckets[b] \in Seq(Entry) /\ old_buckets[b] # <<>>
  BY <1>1, <1>2 DEF MoveFirst, Chains
<1>4. e \in Entry
  BY <1>3
<1>. HIDE DEF e
<1>5. /\ buckets' = Appended(buckets, hmap_hash(e.key, buckets_length), e)
      /\ old_buckets' = Shortened(old_buckets, b)
      /\ UNCHANGED <<buckets_length, threshold, size, pending, itVars, ret>>
  BY <1>1 DEF MoveFirst, Appended, Shortened, e
<1>6. /\ Once(old_buckets')
      /\ EntriesOf(old_buckets) = EntriesOf(old_buckets') \cup {e}
      /\ \A x \in EntriesOf(old_buckets') : x.key # e.key
  BY <1>2, <1>3, <1>5, TailOnce DEF Inv, OldOnce, e
<1>7. /\ Placed(buckets', buckets_length)
      /\ EntriesOf(buckets') = EntriesOf(buckets) \cup {e}
  <2>1. \A x \in EntriesOf(buckets) : x.key # e.key
    BY <1>6 DEF Inv, NotYetMoved
  <2>2. /\ buckets_length \in Nat \ {0} /\ buckets \in Chains(buckets_length)
        /\ Placed(buckets, buckets_length)
    BY FoundIsPlaced DEF TypeOK
  <2>. QED
    BY <1>4, <1>5, <2>1, <2>2, AppendPlaced
<1>8. FoundWhereLookedUp'
  BY <1>5, <1>7 DEF FoundWhereLookedUp, TypeOK, Placed, Chains
<1>9. OldOnce' /\ NotYetMoved' /\ PendingIsNew'
  BY <1>5, <1>6, <1>7 DEF Inv, OldOnce, NotYetMoved, PendingIsNew
<1>10. Contents' = Contents
  BY <1>5, <1>6, <1>7 DEF Contents
<1>11. Sized' /\ (size <= threshold)'
  BY <1>5, <1>10 DEF Inv, Sized
<1>12. ~Idle
  <2>. SUFFICES ASSUME Idle PROVE FALSE
    OBVIOUS
  <2>1. DOMAIN old_buckets = {}
    BY AtRestAllThere DEF NoBuckets
  <2>. QED
    BY <2>1
<1>13. AtRest' /\ Standing'
  BY <1>5, <1>12 DEF Inv, AtRest, Idle, Standing, AtEnd, itVars
<1>. QED
  BY <1>8, <1>9, <1>11, <1>13 DEF Inv

LEMMA InsertPendingInv == ASSUME Inv, TypeOK', InsertPending PROVE Inv'
<1>. TypeOK /\ FoundWhereLookedUp
  BY DEF Inv
<1>. DEFINE e == Head(pending)
<1>1. e \in Entry /\ Range(pending) = {e}
  <2>1. pending \in Seq(Entry) /\ Len(pending) = 1
    <3>1. pending \in Seq(Entry) /\ Len(pending) <= 1 /\ pending # <<>>
      BY DEF InsertPending, Idle, TypeOK
    <3>2. Len(pending) \in Nat /\ Len(pending) # 0
      BY <3>1, EmptySeq
    <3>. QED
      BY <3>1, <3>2
  <2>2. DOMAIN pending = {1} /\ e = pending[1] /\ e \in Entry
    BY <2>1
  <2>. QED
    BY <2>2 DEF Range
<1>2. /\ buckets' = Insert(e, buckets, buckets_length)
      /\ old_buckets' = NoBuckets(0) /\ pending' = <<>>
      /\ UNCHANGED <<buckets_length, threshold, size, itVars, ret>>
  BY DEF InsertPending
<1>. HIDE DEF e
<1>3. EntriesOf(old_buckets) = {}
  <2>1. PICK n \in 0..buckets_length : old_buckets \in Chains(n)
    BY DEF TypeOK
  <2>2. \A b \in DOMAIN old_buckets : old_buckets[b] = <<>>
    BY DEF InsertPending
  <2>. QED
    BY <2>1, <2>2, NoEntries
<1>4. /\ Placed(buckets', buckets_length)
      /\ EntriesOf(buckets') = EntriesOf(buckets) \cup {e}
  <2>1. \A x \in EntriesOf(buckets) : x.key # e.key
    BY <1>1 DEF Inv, PendingIsNew
  <2>2. /\ buckets_length \in Nat \ {0} /\ buckets \in Chains(buckets_length)
        /\ Placed(buckets, buckets_length)
    BY FoundIsPlaced DEF TypeOK
  <2>. QED
    BY <1>1, <1>2, <2>1, <2>2, InsertPlaced
<1>5. /\ EntriesOf(old_buckets') = {} /\ Once(old_buckets')
      /\ Range(pending') = {}
  BY <1>2, EmptyChains DEF Range
<1>6. FoundWhereLookedUp'
  BY <1>2, <1>4 DEF FoundWhereLookedUp, TypeOK, Placed, Chains
<1>7. OldOnce' /\ NotYetMoved' /\ PendingIsNew' /\ AtRest'
  BY <1>2, <1>5 DEF OldOnce, NotYetMoved, PendingIsNew, AtRest
<1>8. Contents' = Contents
  BY <1>1, <1>3, <1>4, <1>5 DEF Contents
<1>9. Sized' /\ (size <= threshold)'
  BY <1>2, <1>8 DEF Inv, Sized
<1>10. Standing'
  BY <1>2 DEF Inv, Standing, AtEnd, itVars, InsertPending
<1>. QED
  BY <1>6, <1>7, <1>9, <1>10 DEF Inv

(* A lookup changes nothing but the answer.                                *)
LEMMA SameInv ==
  ASSUME Inv, TypeOK', UNCHANGED <<mapVars, rehashVars, itVars>>
  PROVE  Inv'
<1>1. UNCHANGED <<buckets, buckets_length, threshold, size, old_buckets, pending, index, it>>
  BY DEF mapVars, rehashVars, itVars
<1>2. Contents' = Contents
  BY <1>1 DEF Contents
<1>. QED
  BY <1>1, <1>2 DEF Inv, FoundWhereLookedUp, OldOnce, NotYetMoved, PendingIsNew,
                    AtRest, Idle, Standing, AtEnd, Sized

LEMMA NextInv == Inv /\ [Next]_vars => Inv'
<1>. SUFFICES ASSUME Inv, [Next]_vars PROVE Inv'
  OBVIOUS
<1>1. TypeOK'
  BY NextType
<1>2. ASSUME NEW k \in Keys, Get(k) \/ ContainsKey(k) PROVE Inv'
  BY <1>1, <1>2, SameInv DEF Get, ContainsKey, Answer
<1>3. CASE IteratorNextAtEnd \/ UNCHANGED vars
  BY <1>1, <1>3, SameInv DEF IteratorNextAtEnd, Answer, vars
<1>4. ASSUME NEW k \in Keys, Remove(k) PROVE Inv'
  BY <1>1, <1>4, RemoveInv
<1>5. ASSUME NEW k \in Keys, NEW v \in Values,
             PutExisting(k, v) \/ PutNew(k, v) \/ PutGrowing(k, v)
      PROVE  Inv'
  BY <1>1, <1>5, PutExistingInv, PutNewInv, PutGrowingInv
<1>6. CASE Clear
  BY <1>1, <1>6, ClearInv
<1>7. CASE Iterate \/ IteratorNext
  BY <1>1, <1>7, IteratorInv
<1>8. CASE MoveEntry \/ InsertPending
  BY <1>1, <1>8, MoveEntryInv, InsertPendingInv
<1>. QED
  BY <1>2, <1>3, <1>4, <1>5, <1>6, <1>7, <1>8 DEF Next, Call, Rehash

LEMMA Invariant == Spec => []Inv
BY InitInv, NextInv, PTL DEF Spec

-----------------------------------------------------------------------------
(* The variables of the map keep their types, the threshold that of the    *)
(* array among them (hmap_put(), hmap_rehash(), hmap_remove()).            *)
THEOREM HMapTypeCorrect == Spec => []TypeOK
<1>1. Inv => TypeOK
  BY DEF Inv
<1>. QED
  BY <1>1, Invariant, PTL

(* Every entry hangs in the bucket its key is looked up in, with every     *)
(* hash function, while hmap_rehash() moves them as well.                  *)
THEOREM EntriesFound == Spec => []FoundWhereLookedUp
<1>1. Inv => FoundWhereLookedUp
  BY DEF Inv
<1>. QED
  BY <1>1, Invariant, PTL
(* One entry for each key, wherever it is, so as many keys as entries.     *)
LEMMA OneEntryPerKey ==
  ASSUME Inv
  PROVE  Cardinality({e.key : e \in Contents}) = size
<1>. DEFINE keys == {e.key : e \in Contents}
            key == [e \in Contents |-> e.key]
<1>. TypeOK /\ FoundWhereLookedUp
  BY DEF Inv
<1>1. Placed(buckets, buckets_length) /\ buckets \in Chains(buckets_length)
  BY FoundIsPlaced DEF TypeOK
<1>2. ASSUME NEW x \in EntriesOf(buckets), NEW y \in EntriesOf(buckets), x.key = y.key
      PROVE  x = y
  <2>1. PICK b \in 0..(buckets_length - 1) : \E p \in DOMAIN buckets[b] : x = buckets[b][p]
    BY <1>1, InEntries DEF TypeOK
  <2>2. PICK d \in 0..(buckets_length - 1) : \E q \in DOMAIN buckets[d] : y = buckets[d][q]
    BY <1>1, InEntries DEF TypeOK
  <2>3. b = d
    BY <1>1, <1>2, <2>1, <2>2 DEF Placed
  <2>. QED
    BY <1>1, <1>2, <2>1, <2>2, <2>3 DEF Placed
<1>3. ASSUME NEW x \in EntriesOf(old_buckets), NEW y \in EntriesOf(old_buckets),
             x.key = y.key
      PROVE  x = y
  BY <1>3 DEF Inv, OldOnce, Once, EntriesOf
<1>4. ASSUME NEW x \in Range(pending), NEW y \in Range(pending) PROVE x = y
  BY DEF Range, TypeOK
<1>5. ASSUME NEW x \in Contents, NEW y \in Contents, x.key = y.key PROVE x = y
  BY <1>2, <1>3, <1>4, <1>5 DEF Contents, Inv, NotYetMoved, PendingIsNew
<1>6. key \in Bijection(Contents, keys)
  <2>1. key \in [Contents -> keys]
    OBVIOUS
  <2>2. \A x, y \in Contents : key[x] = key[y] => x = y
    BY <1>5
  <2>3. \A k \in keys : \E x \in Contents : key[x] = k
    OBVIOUS
  <2>. HIDE DEF key, keys
  <2>. QED
    BY <2>1, <2>2, <2>3 DEF Bijection, Injection, IsInjective, Surjection
<1>. HIDE DEF key, keys
<1>7. Cardinality(keys) = Cardinality(Contents)
  BY <1>6, FS_Bijection DEF ExistsBijection, Inv, Sized
<1>. QED
  BY <1>7 DEF Inv, Sized, keys

(* hmap_size() is the number of entries and of keys, while they are being  *)
(* moved as well, and hmap_put() never needs to grow the array twice.      *)
THEOREM SizeIsTheCount == Spec => []SizeCounts
<1>1. Inv => SizeCounts
  BY OneEntryPerKey DEF Inv, Sized, SizeCounts
<1>. QED
  BY <1>1, Invariant, PTL

-----------------------------------------------------------------------------
(* The map that a set of entries is.                                       *)

KeysOf(S) == {e.key : e \in S}
MapOf(S) == [k \in KeysOf(S) |-> (CHOOSE e \in S : e.key = k).value]
KeysDiffer(S) == \A x, y \in S : x.key = y.key => x = y

LEMMA MapOfIs ==
  ASSUME NEW S, KeysDiffer(S)
  PROVE  /\ DOMAIN MapOf(S) = KeysOf(S)
         /\ \A e \in S : e.key \in KeysOf(S) /\ MapOf(S)[e.key] = e.value
<1>1. DOMAIN MapOf(S) = KeysOf(S)
  BY DEF MapOf
<1>2. ASSUME NEW e \in S PROVE e.key \in KeysOf(S) /\ MapOf(S)[e.key] = e.value
  <2>1. e.key \in KeysOf(S)
    BY DEF KeysOf
  <2>2. (CHOOSE x \in S : x.key = e.key) = e
    BY DEF KeysDiffer
  <2>. QED
    BY <2>1, <2>2 DEF MapOf
<1>. QED
  BY <1>1, <1>2

(* A function is the map of the entries if it has their keys and values.   *)
LEMMA MapOfUnique ==
  ASSUME NEW S, KeysDiffer(S), NEW f, f = [k \in DOMAIN f |-> f[k]],
         DOMAIN f = KeysOf(S), \A e \in S : f[e.key] = e.value
  PROVE  f = MapOf(S)
<1>1. \A k \in KeysOf(S) : f[k] = MapOf(S)[k]
  <2>. SUFFICES ASSUME NEW e \in S PROVE f[e.key] = MapOf(S)[e.key]
    BY DEF KeysOf
  <2>. QED
    BY MapOfIs
<1>2. MapOf(S) = [k \in KeysOf(S) |-> MapOf(S)[k]]
  BY DEF MapOf
<1>. QED
  BY <1>1, <1>2

LEMMA MapOfNone == MapOf({}) = <<>>
BY DEF MapOf, KeysOf

LEMMA MapOfAdded ==
  ASSUME NEW S, KeysDiffer(S), NEW k, NEW v, \A x \in S : x.key # k
  PROVE  LET e == [key |-> k, value |-> v] IN
         /\ KeysDiffer(S \cup {e})
         /\ MapOf(S \cup {e}) =
              [x \in DOMAIN MapOf(S) \cup {k} |-> IF x = k THEN v ELSE MapOf(S)[x]]
<1>. DEFINE e == [key |-> k, value |-> v]
            f == [x \in DOMAIN MapOf(S) \cup {k} |-> IF x = k THEN v ELSE MapOf(S)[x]]
<1>1. e.key = k /\ e.value = v
  OBVIOUS
<1>. HIDE DEF e
<1>2. KeysDiffer(S \cup {e})
  BY <1>1 DEF KeysDiffer
<1>3. DOMAIN f = KeysOf(S \cup {e})
  <2>1. DOMAIN MapOf(S) = KeysOf(S)
    BY MapOfIs
  <2>2. KeysOf(S \cup {e}) = KeysOf(S) \cup {k}
    BY <1>1 DEF KeysOf
  <2>. QED
    BY <2>1, <2>2
<1>4. \A x \in S \cup {e} : f[x.key] = x.value
  BY <1>1, <1>3, MapOfIs DEF KeysOf
<1>5. f = [x \in DOMAIN f |-> f[x]]
  OBVIOUS
<1>. HIDE DEF f
<1>6. f = MapOf(S \cup {e})
  BY <1>2, <1>3, <1>4, <1>5, MapOfUnique
<1>. QED
  BY <1>2, <1>6 DEF e, f

LEMMA MapOfWithout ==
  ASSUME NEW S, KeysDiffer(S), NEW e \in S
  PROVE  /\ KeysDiffer(S \ {e})
         /\ KeysOf(S \ {e}) = KeysOf(S) \ {e.key}
         /\ MapOf(S \ {e}) = [x \in DOMAIN MapOf(S) \ {e.key} |-> MapOf(S)[x]]
<1>. DEFINE f == [x \in DOMAIN MapOf(S) \ {e.key} |-> MapOf(S)[x]]
<1>1. KeysDiffer(S \ {e})
  BY DEF KeysDiffer
<1>2. KeysOf(S \ {e}) = KeysOf(S) \ {e.key}
  BY DEF KeysDiffer, KeysOf
<1>3. DOMAIN f = KeysOf(S \ {e})
  BY <1>2, MapOfIs
<1>4. \A x \in S \ {e} : f[x.key] = x.value
  BY <1>2, <1>3, MapOfIs DEF KeysOf
<1>5. f = [x \in DOMAIN f |-> f[x]]
  OBVIOUS
<1>. HIDE DEF f
<1>6. f = MapOf(S \ {e})
  BY <1>1, <1>3, <1>4, <1>5, MapOfUnique
<1>. QED
  BY <1>1, <1>2, <1>6 DEF f

-----------------------------------------------------------------------------
LEMMA ContentsDiffer ==
  ASSUME Inv
  PROVE  KeysDiffer(Contents)
<1>. TypeOK /\ FoundWhereLookedUp
  BY DEF Inv
<1>1. Placed(buckets, buckets_length) /\ buckets \in Chains(buckets_length)
  BY FoundIsPlaced DEF TypeOK
<1>2. ASSUME NEW x \in EntriesOf(buckets), NEW y \in EntriesOf(buckets), x.key = y.key
      PROVE  x = y
  <2>1. PICK b \in 0..(buckets_length - 1) : \E p \in DOMAIN buckets[b] : x = buckets[b][p]
    BY <1>1, InEntries DEF TypeOK
  <2>2. PICK d \in 0..(buckets_length - 1) : \E q \in DOMAIN buckets[d] : y = buckets[d][q]
    BY <1>1, InEntries DEF TypeOK
  <2>3. b = d
    BY <1>1, <1>2, <2>1, <2>2 DEF Placed
  <2>. QED
    BY <1>1, <1>2, <2>1, <2>2, <2>3 DEF Placed
<1>3. ASSUME NEW x \in EntriesOf(old_buckets), NEW y \in EntriesOf(old_buckets),
             x.key = y.key
      PROVE  x = y
  BY <1>3 DEF Inv, OldOnce, Once, EntriesOf
<1>4. ASSUME NEW x \in Range(pending), NEW y \in Range(pending) PROVE x = y
  BY DEF Range, TypeOK
<1>. QED
  BY <1>2, <1>3, <1>4 DEF KeysDiffer, Contents, Inv, NotYetMoved, PendingIsNew

(* Where an entry is.                                                      *)
LEMMA WhereItIs ==
  ASSUME Inv, Idle, NEW x \in Contents
  PROVE  /\ x \in Entry /\ x.key \in Keys
         /\ Contains(x.key)
         /\ hmap_hash(x.key, buckets_length) \in 0..(buckets_length - 1)
         /\ chain(x.key) = buckets[hmap_hash(x.key, buckets_length)]
         /\ chain(x.key) \in Seq(Entry)
         /\ Place(x.key) \in 1..Len(chain(x.key))
         /\ chain(x.key)[Place(x.key)] = x
<1>. TypeOK /\ FoundWhereLookedUp
  BY DEF Inv
<1>1. x \in EntriesOf(buckets) /\ KeysDiffer(Contents)
  BY AtRestAllThere, ContentsDiffer
<1>2. x \in Entry /\ x.key \in Keys
  BY <1>1 DEF EntriesOf, Entry
<1>3. Contains(x.key)
  BY <1>1, <1>2, ContainsIfThere
<1>4. /\ chain(x.key) = buckets[hmap_hash(x.key, buckets_length)]
      /\ chain(x.key) \in Seq(Entry)
      /\ hmap_hash(x.key, buckets_length) \in 0..(buckets_length - 1)
  BY <1>2, ChainIsSeq, HashInRange DEF TypeOK
<1>5. Place(x.key) \in 1..Len(chain(x.key)) /\ chain(x.key)[Place(x.key)].key = x.key
  BY <1>2, <1>3, <1>4, PlaceIsIn
<1>6. chain(x.key)[Place(x.key)] \in EntriesOf(buckets)
  BY <1>4, <1>5, InEntries DEF TypeOK
<1>7. chain(x.key)[Place(x.key)] = x
  BY <1>1, <1>5, <1>6, AtRestAllThere DEF KeysDiffer
<1>. QED
  BY <1>2, <1>3, <1>4, <1>5, <1>7

(* And the entry that is somewhere is found there.                         *)
LEMMA WhatIsThere ==
  ASSUME Inv, Idle, NEW b \in 0..(buckets_length - 1), NEW p \in DOMAIN buckets[b]
  PROVE  /\ buckets[b][p] \in Contents /\ buckets[b][p].key \in Keys
         /\ hmap_hash(buckets[b][p].key, buckets_length) = b
         /\ chain(buckets[b][p].key) = buckets[b]
         /\ Place(buckets[b][p].key) = p
<1>. TypeOK /\ FoundWhereLookedUp
  BY DEF Inv
<1>. DEFINE x == buckets[b][p]
<1>1. x \in Contents
  BY AtRestAllThere, InEntries DEF TypeOK
<1>2. x.key \in Keys
  BY <1>1, WhereItIs
<1>3. hmap_hash(x.key, buckets_length) = b
  BY FoundIsPlaced DEF Placed
<1>4. chain(x.key) = buckets[b]
  BY <1>3 DEF chain
<1>5. Place(x.key) = p
  BY <1>2, <1>4, ContainsIfThere
<1>. QED
  BY <1>1, <1>2, <1>3, <1>4, <1>5

(* The map that the program's is.                                          *)
MapBar == MapOf(Contents)

(* A lookup answers with the value of the map, or that there is none.      *)
LEMMA GetIsValue ==
  ASSUME Inv, Idle, NEW k \in Keys
  PROVE  /\ Contains(k) <=> k \in DOMAIN MapBar
         /\ hmap_get(k) = IF k \in DOMAIN MapBar THEN MapBar[k] ELSE NULL
<1>. TypeOK /\ FoundWhereLookedUp
  BY DEF Inv
<1>1. KeysDiffer(Contents) /\ Contents = EntriesOf(buckets)
  BY ContentsDiffer, AtRestAllThere
<1>2. DOMAIN MapBar = KeysOf(Contents)
  BY <1>1, MapOfIs DEF MapBar
<1>3. Contains(k) <=> k \in KeysOf(Contents)
  BY <1>1, ContainsIfThere DEF KeysOf
<1>4. ASSUME Contains(k) PROVE hmap_get(k) = MapBar[k]
  <2>1. PICK x \in Contents : x.key = k
    BY <1>3, <1>4 DEF KeysOf
  <2>2. chain(k)[Place(k)] = x
    BY <2>1, WhereItIs
  <2>. QED
    BY <1>1, <1>4, <2>1, <2>2, MapOfIs DEF hmap_get, MapBar
<1>. QED
  BY <1>2, <1>3, <1>4 DEF hmap_get

(* The iterator has yet to give the keys behind where it stands.           *)
Behind(k) ==
  LET b == hmap_hash(k, buckets_length)
  IN  b > index \/ (b = index /\ Place(k) >= Place(it))

LEMMA ToVisitIs ==
  /\ AtEnd => ToVisit = {}
  /\ ~AtEnd => \A k : k \in ToVisit <=> k \in KeysOf(Contents) /\ Behind(k)
  /\ AtEnd' => ToVisit' = {}
  /\ ~AtEnd' => \A k : k \in ToVisit' <=> k \in KeysOf(Contents)' /\ Behind(k)'
<1>1. /\ AtEnd => ToVisit = {}
      /\ ~AtEnd => \A k : k \in ToVisit <=> k \in KeysOf(Contents) /\ Behind(k)
  BY DEF ToVisit, Behind, KeysOf
<1>2. /\ AtEnd' => ToVisit' = {}
      /\ ~AtEnd' => \A k : k \in ToVisit' <=> k \in KeysOf(Contents)' /\ Behind(k)'
  BY DEF ToVisit, Behind, KeysOf
<1>. QED
  BY <1>1, <1>2

-----------------------------------------------------------------------------
(* Step by step.                                                           *)

LEMMA PutContents ==
  ASSUME Inv, NEW k \in Keys, NEW v \in Values, PutNew(k, v) \/ PutGrowing(k, v)
  PROVE  Contents' = Contents \cup {[key |-> k, value |-> v]}
<1>. DEFINE e == [key |-> k, value |-> v]
<1>. TypeOK /\ FoundWhereLookedUp /\ Idle
  BY DEF Inv, PutNew, PutGrowing, Grow
<1>1. Contents = EntriesOf(buckets) /\ e \in Entry /\ e.key = k
  BY AtRestAllThere DEF Entry
<1>2. \A x \in EntriesOf(buckets) : x.key # k
  BY ContainsIfThere DEF PutNew, PutGrowing, Grow
<1>3. CASE PutNew(k, v)
  <2>1. buckets' = Insert(e, buckets, buckets_length) /\ UNCHANGED rehashVars
    BY <1>3 DEF PutNew
  <2>2. Contents' = EntriesOf(buckets')
    BY <2>1, StaysAtRest
  <2>. HIDE DEF e
  <2>3. EntriesOf(buckets') = EntriesOf(buckets) \cup {e}
    BY <1>1, <1>2, <2>1, FoundIsPlaced, InsertPlaced DEF TypeOK
  <2>. QED
    BY <1>1, <2>2, <2>3 DEF e
<1>4. CASE PutGrowing(k, v)
  <2>1. /\ buckets' = NoBuckets(buckets_length') /\ buckets_length' \in Nat
        /\ old_buckets' = buckets /\ pending' = <<e>>
    BY <1>4 DEF PutGrowing, Grow, TypeOK
  <2>. HIDE DEF e
  <2>2. EntriesOf(buckets') = {}
    BY <2>1, EmptyChains
  <2>3. Range(pending') = {e}
    <3>1. DOMAIN pending' = {1} /\ pending'[1] = e
      BY <2>1
    <3>. QED
      BY <3>1 DEF Range
  <2>. QED
    BY <1>1, <2>1, <2>2, <2>3 DEF Contents, e
<1>. QED
  BY <1>3, <1>4

(* A rehash only moves entries.                                            *)
LEMMA RehashContents ==
  ASSUME Inv, MoveEntry \/ InsertPending
  PROVE  Contents' = Contents
<1>. TypeOK
  BY DEF Inv
<1>0. /\ buckets_length \in Nat \ {0} /\ buckets \in Chains(buckets_length)
      /\ Placed(buckets, buckets_length)
  BY FoundIsPlaced DEF TypeOK, Inv
<1>1. CASE MoveEntry
  <2>1. PICK b \in DOMAIN old_buckets :
          MoveFirst(b, hmap_hash(Head(old_buckets[b]).key, buckets_length))
    BY <1>1 DEF MoveEntry
  <2>2. PICK n \in 0..buckets_length : old_buckets \in Chains(n)
    BY DEF TypeOK
  <2>. DEFINE e == Head(old_buckets[b])
  <2>3. /\ n \in Nat /\ b \in 0..(n - 1)
        /\ old_buckets[b] \in Seq(Entry) /\ old_buckets[b] # <<>>
    BY <2>1, <2>2 DEF MoveFirst, Chains
  <2>4. e \in Entry
    BY <2>3
  <2>. HIDE DEF e
  <2>5. /\ buckets' = Appended(buckets, hmap_hash(e.key, buckets_length), e)
        /\ old_buckets' = Shortened(old_buckets, b)
        /\ pending' = pending
    BY <2>1 DEF MoveFirst, Appended, Shortened, e
  <2>6. EntriesOf(old_buckets) = EntriesOf(old_buckets') \cup {e}
    BY <2>2, <2>3, <2>5, TailOnce DEF Inv, OldOnce, e
  <2>7. e \in EntriesOf(old_buckets)
    BY <2>6
  <2>8. \A x \in EntriesOf(buckets) : x.key # e.key
    BY <2>7 DEF Inv, NotYetMoved
  <2>9. EntriesOf(buckets') = EntriesOf(buckets) \cup {e}
    BY <1>0, <2>4, <2>5, <2>8, AppendPlaced
  <2>. QED
    BY <2>5, <2>6, <2>9 DEF Contents
<1>2. CASE InsertPending
  <2>. DEFINE e == Head(pending)
  <2>1. e \in Entry /\ Range(pending) = {e}
    <3>1. pending \in Seq(Entry) /\ Len(pending) <= 1 /\ pending # <<>>
      BY <1>2 DEF InsertPending, Idle, TypeOK
    <3>2. Len(pending) = 1
      <4>. DEFINE n == Len(pending)
      <4>1. n \in Nat /\ n # 0 /\ n <= 1
        BY <3>1, EmptySeq
      <4>. HIDE DEF n
      <4>2. n = 1
        BY <4>1
      <4>. QED
        BY <4>2 DEF n
    <3>3. DOMAIN pending = {1} /\ e = pending[1] /\ e \in Entry
      BY <3>1, <3>2
    <3>. QED
      BY <3>3 DEF Range
  <2>2. /\ buckets' = Insert(e, buckets, buckets_length)
        /\ old_buckets' = NoBuckets(0) /\ pending' = <<>>
    BY <1>2 DEF InsertPending
  <2>. HIDE DEF e
  <2>3. EntriesOf(old_buckets) = {}
    <3>1. PICK n \in 0..buckets_length : old_buckets \in Chains(n)
      BY DEF TypeOK
    <3>2. \A b \in DOMAIN old_buckets : old_buckets[b] = <<>>
      BY <1>2 DEF InsertPending
    <3>. QED
      BY <3>1, <3>2, NoEntries
  <2>4. EntriesOf(buckets') = EntriesOf(buckets) \cup {e}
    <3>1. \A x \in EntriesOf(buckets) : x.key # e.key
      BY <2>1 DEF Inv, PendingIsNew
    <3>. QED
      BY <1>0, <2>1, <2>2, <3>1, InsertPlaced
  <2>5. EntriesOf(old_buckets') = {} /\ Range(pending') = {}
    BY <2>2, EmptyChains DEF Range
  <2>. QED
    BY <2>1, <2>3, <2>4, <2>5 DEF Contents
<1>. QED
  BY <1>1, <1>2

LEMMA PuttingRefines ==
  ASSUME Inv, Inv', NEW k \in Keys, NEW v \in Values,
         PutNew(k, v) \/ PutGrowing(k, v)
  PROVE  Map!Put(k, v)
<1>. DEFINE e == [key |-> k, value |-> v]
<1>1. Idle /\ ~Contains(k) /\ ret' = NULL /\ AtEnd'
  BY DEF PutNew, PutGrowing, Grow, DropIterator, AtEnd
<1>2. KeysDiffer(Contents) /\ \A x \in Contents : x.key # k
  <2>1. k \notin DOMAIN MapBar /\ DOMAIN MapBar = KeysOf(Contents)
    BY <1>1, GetIsValue, ContentsDiffer, MapOfIs DEF MapBar
  <2>. QED
    BY <2>1, ContentsDiffer DEF KeysOf
<1>3. Contents' = Contents \cup {e}
  BY PutContents
<1>4. MapBar' = [x \in DOMAIN MapBar \cup {k} |-> IF x = k THEN v ELSE MapBar[x]]
  BY <1>2, <1>3, MapOfAdded DEF MapBar
<1>5. ToVisit' = {}
  BY <1>1, ToVisitIs
<1>6. k \notin DOMAIN MapBar
  BY <1>1, GetIsValue
<1>. QED
  BY <1>1, <1>4, <1>5, <1>6 DEF Map!Put, Map!ValueOf, MapBar, MapOf, KeysOf

LEMMA PutExistingRefines ==
  ASSUME Inv, Inv', NEW k \in Keys, NEW v \in Values, PutExisting(k, v)
  PROVE  Map!Put(k, v)
<1>. TypeOK /\ FoundWhereLookedUp /\ Idle /\ Contains(k)
  BY DEF Inv, PutExisting
<1>. DEFINE b == hmap_hash(k, buckets_length)
            p == Place(k)
            x == buckets[b][p]
            e == Revalued(x, v)
<1>1. /\ b \in 0..(buckets_length - 1) /\ p \in DOMAIN buckets[b] /\ x.key = k
      /\ buckets[b] \in Seq(Entry)
  BY HashInRange, PlaceIsIn, ChainIsSeq DEF TypeOK, chain
<1>2. buckets' = Replaced(buckets, b, p, v) /\ UNCHANGED rehashVars
  BY DEF PutExisting, Replaced
<1>3. x \in Contents /\ x \in Entry /\ Contents = EntriesOf(buckets)
  BY <1>1, WhatIsThere, AtRestAllThere
<1>4. Contents' = EntriesOf(buckets')
  BY <1>2, StaysAtRest
<1>5. /\ EntriesOf(buckets') = (EntriesOf(buckets) \ {x}) \cup {e}
      /\ e.key = k
  <2>1. /\ buckets_length \in Nat \ {0} /\ buckets \in Chains(buckets_length)
        /\ Placed(buckets, buckets_length)
    BY FoundIsPlaced DEF TypeOK
  <2>. HIDE DEF b, p
  <2>. QED
    BY <1>1, <1>2, <2>1, ReplacePlaced
<1>6. e = [key |-> k, value |-> v]
  BY <1>1, <1>3 DEF Revalued, Entry
<1>7. ret' = hmap_get(k) /\ AtEnd'
  BY DEF PutExisting, DropIterator, AtEnd
<1>. DEFINE others == Contents \ {x}
<1>8. Contents' = others \cup {[key |-> k, value |-> v]}
  BY <1>3, <1>4, <1>5, <1>6
<1>. HIDE DEF e, b, p, x
<1>9. KeysDiffer(Contents) /\ DOMAIN MapBar = KeysOf(Contents)
  BY ContentsDiffer, MapOfIs DEF MapBar
<1>10. /\ KeysDiffer(others)
       /\ KeysOf(others) = KeysOf(Contents) \ {k}
       /\ MapOf(others) = [y \in DOMAIN MapBar \ {k} |-> MapBar[y]]
  <2>1. /\ KeysDiffer(Contents \ {x})
        /\ KeysOf(Contents \ {x}) = KeysOf(Contents) \ {x.key}
        /\ MapOf(Contents \ {x}) =
             [y \in DOMAIN MapOf(Contents) \ {x.key} |-> MapOf(Contents)[y]]
    BY <1>3, <1>9, MapOfWithout
  <2>. QED
    BY <1>1, <2>1 DEF MapBar
<1>11. \A y \in others : y.key # k
  BY <1>10 DEF KeysOf
<1>. HIDE DEF others
<1>12. MapBar' = [y \in DOMAIN MapOf(others) \cup {k} |->
                    IF y = k THEN v ELSE MapOf(others)[y]]
  <2>1. MapOf(others \cup {[key |-> k, value |-> v]}) =
          [y \in DOMAIN MapOf(others) \cup {k} |->
             IF y = k THEN v ELSE MapOf(others)[y]]
    <3>1. KeysDiffer(others)
      BY <1>10
    <3>. QED
      BY <1>11, <3>1, MapOfAdded
  <2>. QED
    BY <1>8, <2>1 DEF MapBar
<1>13. DOMAIN MapOf(others) = DOMAIN MapBar \ {k}
  BY <1>10
<1>14. MapBar' = [y \in DOMAIN MapBar \cup {k} |-> IF y = k THEN v ELSE MapBar[y]]
  <2>1. DOMAIN MapOf(others) \cup {k} = DOMAIN MapBar \cup {k}
    BY <1>13
  <2>2. \A y \in DOMAIN MapBar \cup {k} : y # k => MapOf(others)[y] = MapBar[y]
    BY <1>10
  <2>. QED
    BY <1>12, <2>1, <2>2
<1>15. hmap_get(k) = IF k \in DOMAIN MapBar THEN MapBar[k] ELSE NULL
  BY GetIsValue
<1>16. ToVisit' = {}
  BY <1>7, ToVisitIs
<1>. QED
  BY <1>7, <1>14, <1>15, <1>16 DEF Map!Put, Map!ValueOf, MapBar, MapOf, KeysOf

LEMMA LookingUpRefines ==
  ASSUME Inv, NEW k \in Keys, Get(k) \/ ContainsKey(k)
  PROVE  Map!Get(k) \/ Map!ContainsKey(k)
<1>1. Idle /\ UNCHANGED <<mapVars, rehashVars, itVars>>
  BY DEF Get, ContainsKey, Answer
<1>2. MapBar' = MapBar /\ ToVisit' = ToVisit
  BY <1>1 DEF MapBar, MapOf, KeysOf, Contents, EntriesOf, ToVisit, AtEnd, Place,
     hmap_get_entry, chain, mapVars, rehashVars, itVars
<1>3. CASE Get(k)
  BY <1>1, <1>2, <1>3, GetIsValue
     DEF Get, Answer, Map!Get, Map!ValueOf, MapBar, MapOf, KeysOf
<1>4. CASE ContainsKey(k)
  <2>1. ret' = Contains(k)
    BY <1>4 DEF ContainsKey, Answer
  <2>2. ret' = (k \in DOMAIN MapBar)
    <3>1. (Contains(k) = TRUE \/ Contains(k) = FALSE) /\ (Contains(k) <=> k \in DOMAIN MapBar)
      BY <1>1, GetIsValue DEF Contains
    <3>2. CASE k \in DOMAIN MapBar
      BY <2>1, <3>1, <3>2
    <3>3. CASE k \notin DOMAIN MapBar
      <4>1. ret' = FALSE
        BY <2>1, <3>1, <3>3
      <4>2. (k \in DOMAIN MapBar) = FALSE
        BY <3>3
      <4>. QED
        BY <4>1, <4>2
    <3>. QED
      BY <3>2, <3>3
  <2>. QED
    BY <1>2, <2>2, Zenon DEF Map!ContainsKey, MapBar, MapOf, KeysOf
<1>. QED
  BY <1>3, <1>4

LEMMA ClearRefines == ASSUME Inv, Inv', Clear PROVE Map!Clear
<1>. TypeOK /\ Idle /\ AtEnd'
  BY DEF Inv, Clear, DropIterator, AtEnd
<1>1. Contents' = EntriesOf(buckets') /\ ret' = ret
  BY StaysAtRest DEF Clear
<1>2. Contents' = {}
  BY <1>1, EmptyChains DEF Clear, TypeOK
<1>3. MapBar' = <<>>
  BY <1>2, MapOfNone DEF MapBar
<1>4. ToVisit' = {}
  BY ToVisitIs
<1>. QED
  BY <1>1, <1>3, <1>4 DEF Map!Clear, MapBar, MapOf, KeysOf

LEMMA RehashRefines ==
  ASSUME Inv, Inv', MoveEntry \/ InsertPending
  PROVE  UNCHANGED <<MapBar, ToVisit, ret>>
<1>1. ~Idle /\ UNCHANGED <<buckets_length, index, it, ret>>
  <2>1. CASE MoveEntry
    <3>1. ~Idle
      <4>. SUFFICES ASSUME Idle PROVE FALSE
        OBVIOUS
      <4>1. DOMAIN old_buckets = {}
        BY AtRestAllThere DEF NoBuckets
      <4>. QED
        BY <2>1, <4>1 DEF MoveEntry
    <3>. QED
      BY <2>1, <3>1 DEF MoveEntry, MoveFirst, itVars
  <2>2. CASE InsertPending
    BY <2>2 DEF InsertPending, itVars
  <2>. QED
    BY <2>1, <2>2
<1>2. AtEnd /\ AtEnd'
  BY <1>1 DEF Inv, Standing, AtEnd
<1>3. Contents' = Contents
  BY RehashContents
<1>. QED
  BY <1>1, <1>2, <1>3, ToVisitIs DEF MapBar

-----------------------------------------------------------------------------
(* The iterator.                                                           *)

LEMMA SameMap ==
  ASSUME UNCHANGED <<mapVars, rehashVars>>
  PROVE  /\ Contents' = Contents /\ MapBar' = MapBar /\ buckets_length' = buckets_length
         /\ \A k : Place(k)' = Place(k)
<1>1. UNCHANGED <<buckets, buckets_length, old_buckets, pending>>
  BY DEF mapVars, rehashVars
<1>2. Contents' = Contents
  BY <1>1 DEF Contents
<1>3. \A k : Place(k)' = Place(k)
  BY <1>1 DEF Place, hmap_get_entry, chain
<1>. QED
  BY <1>1, <1>2, <1>3 DEF MapBar

(* From bucket b on nothing is passed over.                                *)
LEMMA StandAtFirstGives ==
  ASSUME Inv, Idle, NEW b \in Nat, StandAtFirst(b), UNCHANGED <<mapVars, rehashVars>>
  PROVE  \A x \in Contents : x.key \in ToVisit' <=> hmap_hash(x.key, buckets_length) >= b
<1>. TypeOK /\ FoundWhereLookedUp
  BY DEF Inv
<1>. DEFINE full == {a \in b..(buckets_length - 1) : buckets[a] # <<>>}
            h(x) == hmap_hash(x.key, buckets_length)
<1>1. /\ Contents' = Contents /\ buckets_length' = buckets_length
      /\ \A k : Place(k)' = Place(k)
  BY SameMap
<1>2. \A x \in Contents : /\ h(x) \in 0..(buckets_length - 1)
                          /\ Place(x.key) \in Nat /\ Place(x.key) >= 1
                          /\ h(x) >= b => h(x) \in full
  <2>. SUFFICES ASSUME NEW x \in Contents
                PROVE  /\ h(x) \in 0..(buckets_length - 1)
                       /\ Place(x.key) \in Nat /\ Place(x.key) >= 1
                       /\ buckets[h(x)] # <<>>
    BY DEF TypeOK
  <2>1. /\ h(x) \in 0..(buckets_length - 1)
        /\ buckets[h(x)] \in Seq(Entry)
        /\ Place(x.key) \in 1..Len(buckets[h(x)])
    BY WhereItIs
  <2>. QED
    BY <2>1
<1>3. CASE full = {}
  <2>1. AtEnd'
    BY <1>3 DEF StandAtFirst, AtEnd, mapVars
  <2>2. ToVisit' = {}
    BY <2>1, ToVisitIs
  <2>. QED
    BY <1>2, <1>3, <2>2
<1>4. CASE full # {}
  <2>1. PICK a \in full : /\ \A d \in full : a <= d
                          /\ index' = a /\ it' = Head(buckets[a]).key
    BY <1>4 DEF StandAtFirst
  <2>2. a \in 0..(buckets_length - 1) /\ a >= b /\ buckets[a] # <<>> /\ buckets_length \in Nat
    BY DEF TypeOK
  <2>3. buckets[a] \in Seq(Entry)
    BY <2>2 DEF TypeOK, Chains
  <2>4. 1 \in DOMAIN buckets[a] /\ Head(buckets[a]) = buckets[a][1]
    BY <2>2, <2>3
  <2>5. PICK j : j = buckets[a][1].key
    OBVIOUS
  <2>6. hmap_hash(j, buckets_length) = a /\ Place(j) = 1 /\ it' = j
    BY <2>1, <2>2, <2>4, <2>5, WhatIsThere
  <2>7. ~AtEnd'
    BY <1>1, <2>1, <2>2 DEF AtEnd
  <2>8. Place(it)' = 1
    <3>1. Place(it)' = Place(j)'
      BY <2>6 DEF Place, hmap_get_entry, chain
    <3>. QED
      BY <1>1, <2>6, <3>1
  <2>9. ASSUME NEW x \in Contents PROVE x.key \in ToVisit' <=> h(x) >= b
    <3>1. x.key \in KeysOf(Contents)'
      BY <1>1 DEF KeysOf
    <3>2. x.key \in ToVisit' <=> Behind(x.key)'
      BY <2>7, <3>1, ToVisitIs
    <3>3. Behind(x.key)' <=> h(x) > a \/ (h(x) = a /\ Place(x.key) >= 1)
      BY <1>1, <2>1, <2>8 DEF Behind
    <3>4. h(x) >= b <=> h(x) >= a
      BY <1>2, <2>1, <2>2
    <3>. HIDE DEF h
    <3>. QED
      BY <1>2, <2>2, <3>2, <3>3, <3>4
  <2>. QED
    BY <2>9
<1>. QED
  BY <1>3, <1>4

LEMMA IterateRefines == ASSUME Inv, Inv', Iterate PROVE Map!Iterate
<1>. TypeOK /\ Idle /\ StandAtFirst(0) /\ UNCHANGED <<mapVars, rehashVars, ret>>
  BY DEF Inv, Iterate
<1>1. Contents' = Contents /\ MapBar' = MapBar
  BY SameMap
<1>2. \A x \in Contents : x.key \in ToVisit'
  <2>1. \A x \in Contents : hmap_hash(x.key, buckets_length) >= 0
    BY WhereItIs DEF TypeOK
  <2>. QED
    BY <2>1, StandAtFirstGives
<1>3. ToVisit' = KeysOf(Contents)
  BY <1>1, <1>2, ToVisitIs DEF KeysOf
<1>4. DOMAIN MapBar = KeysOf(Contents)
  BY ContentsDiffer, MapOfIs DEF MapBar
<1>. QED
  BY <1>1, <1>3, <1>4 DEF Map!Iterate, MapBar, MapOf, KeysOf

(* hmap_iterator_next() gives an entry not given before, and that one only.*)
LEMMA IteratorNextRefines ==
  ASSUME Inv, Inv', IteratorNext
  PROVE  Map!Visit
<1>. TypeOK /\ FoundWhereLookedUp /\ Idle /\ ~AtEnd /\ UNCHANGED <<mapVars, rehashVars>>
     /\ ret' = hmap_get(it)
  BY DEF Inv, IteratorNext, NextFrom
<1>1. /\ Contents' = Contents /\ MapBar' = MapBar /\ buckets_length' = buckets_length
      /\ \A k : Place(k)' = Place(k)
  BY SameMap
<1>2. PICK z \in Contents : z.key = it
  BY AtRestAllThere DEF Inv, Standing
<1>3. PICK i : i = it
  OBVIOUS
<1>4. PICK P : P = Place(it)
  OBVIOUS
<1>5. /\ i \in Keys /\ index = hmap_hash(i, buckets_length)
      /\ index \in 0..(buckets_length - 1) /\ chain(i) = buckets[index]
      /\ buckets[index] \in Seq(Entry) /\ P \in 1..Len(buckets[index])
      /\ buckets[index][P] = z
  BY <1>2, <1>3, <1>4, WhereItIs DEF Inv, Standing
<1>. DEFINE h(x) == hmap_hash(x.key, buckets_length)
<1>6. ASSUME NEW x \in Contents
      PROVE  /\ x.key \in ToVisit <=> h(x) > index \/ (h(x) = index /\ Place(x.key) >= P)
             /\ h(x) = index => /\ Place(x.key) \in 1..Len(buckets[index])
                                /\ Place(x.key) = P <=> x.key = i
             /\ h(x) \in Nat
             /\ x.key = i => h(x) = index
  <2>1. x.key \in KeysOf(Contents)
    BY DEF KeysOf
  <2>2. x.key \in ToVisit <=> h(x) > index \/ (h(x) = index /\ Place(x.key) >= P)
    BY <1>4, <2>1, ToVisitIs DEF Behind
  <2>3. ASSUME h(x) = index
        PROVE  /\ Place(x.key) \in 1..Len(buckets[index])
               /\ buckets[index][Place(x.key)] = x
    BY <2>3, WhereItIs
  <2>4. ASSUME h(x) = index, Place(x.key) = P PROVE x.key = i
    BY <1>2, <1>3, <1>5, <2>3, <2>4
  <2>5. x.key = i => Place(x.key) = P /\ h(x) = index
    BY <1>3, <1>4, <1>5
  <2>6. h(x) \in Nat
    BY WhereItIs DEF TypeOK
  <2>. QED
    BY <2>2, <2>3, <2>4, <2>5, <2>6
<1>7. i \in ToVisit
  <2>1. h(z) = index /\ Place(z.key) = P /\ z.key = i
    BY <1>2, <1>3, <1>4, <1>5
  <2>. QED
    BY <1>5, <1>6, <2>1
<1>8. ASSUME NEW x \in Contents PROVE x.key \in ToVisit' <=> x.key \in ToVisit /\ x.key # i
  <2>. HIDE DEF h
  <2>1. CASE P < Len(buckets[index])
    <3>1. /\ index' = index /\ it' = buckets[index][P + 1].key
      BY <1>3, <1>4, <1>5, <2>1 DEF IteratorNext, NextFrom
    <3>2. PICK j : j = buckets[index][P + 1].key
      OBVIOUS
    <3>3. P + 1 \in DOMAIN buckets[index]
      BY <1>5, <2>1
    <3>4. Place(j) = P + 1 /\ it' = j
      BY <1>5, <3>1, <3>2, <3>3, WhatIsThere
    <3>5. Place(it)' = P + 1
      <4>1. Place(it)' = Place(j)'
        BY <3>4 DEF Place, hmap_get_entry, chain
      <4>. QED
        BY <1>1, <3>4, <4>1
    <3>6. ~AtEnd' /\ x.key \in KeysOf(Contents)'
      BY <1>1, <1>5, <3>1 DEF AtEnd, KeysOf
    <3>7. x.key \in ToVisit' <=> h(x) > index \/ (h(x) = index /\ Place(x.key) >= P + 1)
      <4>1. x.key \in ToVisit' <=> Behind(x.key)'
        BY <3>6, ToVisitIs
      <4>2. Behind(x.key)' <=> h(x) > index \/ (h(x) = index /\ Place(x.key) >= P + 1)
        BY <1>1, <3>1, <3>5 DEF Behind, h
      <4>. QED
        BY <4>1, <4>2
    <3>8. h(x) \in Nat /\ index \in Nat /\ P \in Nat /\ Len(buckets[index]) \in Nat
      BY <1>5, <1>6 DEF TypeOK
    <3>9. CASE h(x) = index
      <4>1. Place(x.key) \in Nat /\ (Place(x.key) = P <=> x.key = i)
        BY <1>6, <3>8, <3>9
      <4>. QED
        BY <1>6, <3>7, <3>8, <3>9, <4>1
    <3>10. CASE h(x) # index
      BY <1>6, <3>7, <3>8, <3>10
    <3>. QED
      BY <3>9, <3>10
  <2>2. CASE ~(P < Len(buckets[index]))
    <3>1. StandAtFirst(index + 1)
      BY <1>3, <1>4, <1>5, <2>2 DEF IteratorNext, NextFrom
    <3>2. PICK m : m = index + 1
      OBVIOUS
    <3>3. m \in Nat /\ StandAtFirst(m)
      BY <1>5, <3>1, <3>2
    <3>4. x.key \in ToVisit' <=> h(x) >= m
      BY <3>3, StandAtFirstGives DEF h
    <3>5. h(x) \in Nat /\ index \in Nat /\ P = Len(buckets[index]) /\ P \in Nat
      BY <1>5, <1>6, <2>2
    <3>6. CASE h(x) = index
      <4>1. Place(x.key) \in 1..P /\ (Place(x.key) = P <=> x.key = i)
        BY <1>6, <3>5, <3>6
      <4>. QED
        BY <1>6, <3>2, <3>4, <3>5, <3>6, <4>1
    <3>7. CASE h(x) # index
      BY <1>6, <3>2, <3>4, <3>5, <3>7
    <3>. QED
      BY <3>6, <3>7
  <2>. QED
    BY <2>1, <2>2
<1>9. ToVisit \subseteq KeysOf(Contents) /\ ToVisit' \subseteq KeysOf(Contents)
  BY <1>1, ToVisitIs
<1>10. ToVisit' = ToVisit \ {i}
  BY <1>8, <1>9 DEF KeysOf
<1>11. ret' = MapBar[i]
  <2>1. i \in DOMAIN MapBar
    BY <1>7, <1>9, ContentsDiffer, MapOfIs DEF MapBar
  <2>. QED
    BY <1>3, <1>5, <2>1, GetIsValue
<1>. QED
  BY <1>1, <1>7, <1>10, <1>11 DEF Map!Visit, MapBar, MapOf, KeysOf

LEMMA IteratorAtEndRefines ==
  ASSUME Inv, IteratorNextAtEnd
  PROVE  Map!VisitNone
<1>1. AtEnd /\ ret' = NULL /\ UNCHANGED <<mapVars, rehashVars, itVars>>
  BY DEF IteratorNextAtEnd, Answer
<1>2. AtEnd'
  BY <1>1 DEF AtEnd, mapVars, itVars
<1>3. ToVisit = {} /\ ToVisit' = {}
  BY <1>1, <1>2, ToVisitIs
<1>4. MapBar' = MapBar
  BY <1>1, SameMap
<1>. QED
  BY <1>1, <1>3, <1>4 DEF Map!VisitNone, MapBar, MapOf, KeysOf

-----------------------------------------------------------------------------
(* Taking out.                                                             *)

(* Where an entry is found after a step.                                   *)
LEMMA PlaceAfter ==
  ASSUME TypeOK', FoundWhereLookedUp', NEW b \in 0..(buckets_length' - 1),
         NEW p \in DOMAIN (buckets'[b]), NEW k, k = buckets'[b][p].key
  PROVE  Place(k)' = p
<1>1. DOMAIN buckets' = 0..(buckets_length' - 1)
  BY DEF TypeOK, Chains
<1>2. /\ hmap_hash(k, buckets_length') = b
      /\ \A q \in DOMAIN (buckets'[b]) : buckets'[b][q].key = k => q = p
  BY <1>1 DEF FoundWhereLookedUp
<1>3. chain(k)' = buckets'[b]
  BY <1>2 DEF chain
<1>4. buckets'[b] \in Seq(Entry)
  BY <1>1 DEF TypeOK, Chains
<1>5. hmap_get_entry(k)' = {p}
  BY <1>2, <1>3, <1>4 DEF hmap_get_entry
<1>. QED
  BY <1>5 DEF Place

(* What is taken out is not given any more, and all that was yet to be     *)
(* given still is, although it has moved up in its chain.                  *)
LEMMA RemovedRefines ==
  ASSUME Inv, Inv', NEW k \in Keys, Remove(k), Contains(k)
  PROVE  Map!Remove(k)
<1>. TypeOK /\ FoundWhereLookedUp /\ Idle /\ TypeOK' /\ FoundWhereLookedUp'
  BY DEF Inv, Remove, RemoveSized
<1>1. PICK b, p : b = hmap_hash(k, buckets_length) /\ p = Place(k)
  OBVIOUS
<1>2. /\ b \in 0..(buckets_length - 1) /\ p \in DOMAIN buckets[b]
      /\ buckets[b][p].key = k
      /\ buckets[b] \in Seq(Entry)
  BY <1>1, HashInRange, PlaceIsIn, ChainIsSeq DEF TypeOK, chain
<1>3. /\ buckets' = [buckets EXCEPT ![b] = Without(@, p)]
      /\ UNCHANGED <<buckets_length, rehashVars, index, it>>
      /\ AtEnd \/ k # it
      /\ ret' = hmap_get(k)
  BY <1>1 DEF Remove, RemoveSized, itVars
<1>4. PICK x : x = buckets[b][p]
  OBVIOUS
<1>5. x \in Contents /\ x.key = k /\ Contents = EntriesOf(buckets)
  BY <1>2, <1>4, WhatIsThere, AtRestAllThere
<1>6. Contents' = Contents \ {x}
  <2>1. /\ buckets_length \in Nat \ {0} /\ buckets \in Chains(buckets_length)
        /\ Placed(buckets, buckets_length)
    BY FoundIsPlaced DEF TypeOK
  <2>2. b \in 0..(buckets_length - 1) /\ p \in DOMAIN buckets[b]
    BY <1>2
  <2>3. LET new == [buckets EXCEPT ![b] = Without(@, p)]
        IN  /\ Placed(new, buckets_length)
            /\ EntriesOf(new) = EntriesOf(buckets) \ {buckets[b][p]}
            /\ buckets[b][p] \in EntriesOf(buckets)
    BY <2>1, <2>2, WithoutPlaced, Zenon
  <2>4. Contents' = EntriesOf(buckets')
    BY <1>3, StaysAtRest
  <2>5. EntriesOf(buckets') = EntriesOf(buckets) \ {buckets[b][p]}
    BY <1>3, <2>3, Zenon
  <2>. QED
    BY <1>4, <1>5, <2>4, <2>5, Zenon
<1>7. KeysDiffer(Contents) /\ DOMAIN MapBar = KeysOf(Contents)
  BY ContentsDiffer, MapOfIs DEF MapBar
<1>8. /\ KeysOf(Contents)' = KeysOf(Contents) \ {k}
      /\ MapBar' = [y \in DOMAIN MapBar \ {k} |-> MapBar[y]]
  <2>1. /\ KeysOf(Contents \ {x}) = KeysOf(Contents) \ {x.key}
        /\ MapOf(Contents \ {x}) =
             [y \in DOMAIN MapOf(Contents) \ {x.key} |-> MapOf(Contents)[y]]
    BY <1>5, <1>7, MapOfWithout
  <2>. QED
    BY <1>5, <1>6, <2>1 DEF MapBar, KeysOf
<1>9. ToVisit' = ToVisit \ {k}
  <2>1. CASE AtEnd
    <3>1. AtEnd'
      BY <1>3, <2>1 DEF AtEnd
    <3>. QED
      BY <2>1, <3>1, ToVisitIs
  <2>2. CASE ~AtEnd
    <3>0. ~AtEnd' /\ k # it
      BY <1>3, <2>2 DEF AtEnd
    <3>1. ASSUME NEW y \in Contents, y.key # k
          PROVE  /\ hmap_hash(y.key, buckets_length) \in 0..(buckets_length - 1)
                 /\ Place(y.key) \in Nat
                 /\ Place(y.key)' =
                      IF hmap_hash(y.key, buckets_length) = b /\ Place(y.key) > p
                      THEN Place(y.key) - 1 ELSE Place(y.key)
                 /\ hmap_hash(y.key, buckets_length) = b => Place(y.key) # p
      <4>1. PICK d, q : d = hmap_hash(y.key, buckets_length) /\ q = Place(y.key)
        OBVIOUS
      <4>2. /\ d \in 0..(buckets_length - 1) /\ buckets[d] \in Seq(Entry)
            /\ q \in 1..Len(buckets[d]) /\ buckets[d][q] = y
        BY <4>1, WhereItIs
      <4>3. CASE d # b
        <5>1. buckets'[d] = buckets[d]
          BY <1>3, <4>2, <4>3
        <5>2. Place(y.key)' = q
          <6>1. PICK j : j = y.key
            OBVIOUS
          <6>2. d \in 0..(buckets_length' - 1) /\ q \in DOMAIN (buckets'[d])
                /\ j = buckets'[d][q].key
            BY <1>3, <4>2, <5>1, <6>1
          <6>3. Place(j)' = q
            BY <6>2, PlaceAfter
          <6>. QED
            BY <6>1, <6>3
        <5>. QED
          BY <4>1, <4>2, <4>3, <5>2
      <4>4. CASE d = b
        <5>1. /\ buckets'[b] \in Seq(Entry)
              /\ Len(buckets'[b]) = Len(buckets[b]) - 1
              /\ \A r \in 1..(Len(buckets[b]) - 1) :
                   buckets'[b][r] = IF r < p THEN buckets[b][r] ELSE buckets[b][r + 1]
          <6>1. buckets'[b] = Without(buckets[b], p)
            BY <1>2, <1>3 DEF TypeOK, Chains
          <6>. QED
            BY <1>2, <6>1, WithoutType
        <5>2. q # p
          BY <1>4, <1>5, <3>1, <4>2, <4>4
        <5>3. PICK r : r = IF q > p THEN q - 1 ELSE q
          OBVIOUS
        <5>4. p \in 1..Len(buckets[b]) /\ Len(buckets[b]) \in Nat
          BY <1>2
        <5>5. r \in 1..(Len(buckets[b]) - 1) /\ buckets'[b][r] = y
          BY <4>2, <4>4, <5>1, <5>2, <5>3, <5>4
        <5>6. Place(y.key)' = r
          <6>1. PICK j : j = y.key
            OBVIOUS
          <6>2. b \in 0..(buckets_length' - 1) /\ r \in DOMAIN (buckets'[b])
                /\ j = buckets'[b][r].key
            BY <1>2, <1>3, <5>1, <5>5, <6>1
          <6>3. Place(j)' = r
            BY <6>2, PlaceAfter
          <6>. QED
            BY <6>1, <6>3
        <5>. QED
          BY <4>1, <4>2, <4>4, <5>2, <5>3, <5>6
      <4>. QED
        BY <4>3, <4>4
    <3>2. PICK z \in Contents : z.key = it
      BY <2>2, AtRestAllThere DEF Inv, Standing
    <3>3. PICK i : i = it
      OBVIOUS
    <3>4. /\ i = z.key /\ i # k /\ index = hmap_hash(i, buckets_length)
          /\ Place(it)' = Place(i)'
      <4>1. it' = i
        BY <1>3, <3>3
      <4>. QED
        BY <2>2, <3>0, <3>2, <3>3, <4>1 DEF Inv, Standing, Place, hmap_get_entry, chain
    <3>5. ASSUME NEW y \in Contents, y.key # k
          PROVE  Behind(y.key)' <=> Behind(y.key)
      <4>. DEFINE d == hmap_hash(y.key, buckets_length)
      <4>1. Behind(y.key) <=> d > index \/ (d = index /\ Place(y.key) >= Place(i))
        BY <3>3 DEF Behind
      <4>2. Behind(y.key)' <=> d > index \/ (d = index /\ Place(y.key)' >= Place(i)')
        BY <1>3, <3>4 DEF Behind
      <4>3. /\ Place(i) \in Nat
            /\ Place(i)' = IF index = b /\ Place(i) > p THEN Place(i) - 1 ELSE Place(i)
            /\ index = b => Place(i) # p
        BY <3>1, <3>2, <3>4
      <4>4. /\ Place(y.key) \in Nat
            /\ Place(y.key)' = IF d = b /\ Place(y.key) > p
                               THEN Place(y.key) - 1 ELSE Place(y.key)
            /\ d = b => Place(y.key) # p
        BY <3>1, <3>5
      <4>5. p \in Nat
        BY <1>2
      <4>. HIDE DEF d
      <4>6. CASE d = index /\ d = b
        <5>1. Place(y.key)' >= Place(i)' <=> Place(y.key) >= Place(i)
          BY <4>3, <4>4, <4>5, <4>6
        <5>. QED
          BY <4>1, <4>2, <5>1
      <4>7. CASE d = index /\ d # b
        BY <4>1, <4>2, <4>3, <4>4, <4>7
      <4>8. CASE d # index
        BY <4>1, <4>2, <4>8
      <4>. QED
        BY <4>6, <4>7, <4>8
    <3>6. ASSUME NEW y \in Contents PROVE y.key \in ToVisit' <=> y.key \in ToVisit /\ y.key # k
      <4>1. y.key \in KeysOf(Contents)
        BY DEF KeysOf
      <4>2. y.key \in ToVisit <=> Behind(y.key)
        BY <2>2, <4>1, ToVisitIs
      <4>3. y.key \in ToVisit' <=> y.key # k /\ Behind(y.key)'
        BY <1>8, <3>0, <4>1, ToVisitIs
      <4>. QED
        BY <3>5, <4>2, <4>3
    <3>7. ToVisit \subseteq KeysOf(Contents) /\ ToVisit' \subseteq KeysOf(Contents)
      BY <1>8, <2>2, <3>0, ToVisitIs
    <3>. QED
      BY <3>6, <3>7 DEF KeysOf
  <2>. QED
    BY <2>1, <2>2
<1>10. hmap_get(k) = IF k \in DOMAIN MapBar THEN MapBar[k] ELSE NULL
  BY GetIsValue
<1>. QED
  BY <1>3, <1>8, <1>9, <1>10 DEF Map!Remove, Map!ValueOf, MapBar, MapOf, KeysOf

LEMMA RemovedNothingRefines ==
  ASSUME Inv, NEW k \in Keys, Remove(k), ~Contains(k)
  PROVE  Map!Remove(k)
<1>. Idle /\ UNCHANGED <<mapVars, rehashVars, itVars>> /\ ret' = hmap_get(k)
  BY DEF Remove, RemoveSized, mapVars
<1>1. Contents' = Contents /\ MapBar' = MapBar
  BY SameMap
<1>2. ToVisit' = ToVisit
  BY <1>1 DEF ToVisit, AtEnd, Place, hmap_get_entry, chain, mapVars, itVars
<1>3. k \notin DOMAIN MapBar /\ DOMAIN MapBar = KeysOf(Contents)
  BY GetIsValue, ContentsDiffer, MapOfIs DEF MapBar
<1>4. k \notin ToVisit
  BY <1>3, ToVisitIs
<1>5. MapBar' = [x \in DOMAIN MapBar \ {k} |-> MapBar[x]]
  <2>1. MapBar = [x \in DOMAIN MapBar |-> MapBar[x]]
    BY <1>3 DEF MapBar, MapOf
  <2>2. DOMAIN MapBar \ {k} = DOMAIN MapBar
    BY <1>3
  <2>. QED
    BY <1>1, <2>1, <2>2
<1>6. hmap_get(k) = IF k \in DOMAIN MapBar THEN MapBar[k] ELSE NULL
  BY GetIsValue
<1>. QED
  BY <1>2, <1>4, <1>5, <1>6 DEF Map!Remove, Map!ValueOf, MapBar, MapOf, KeysOf

-----------------------------------------------------------------------------
(* The hash map is a map from keys to values with an iterator that gives   *)
(* each entry once: every step of hmap.c is one of the abstract map's, or, *)
(* as those of hmap_rehash(), none; for every hash function, number of     *)
(* buckets and sequence of calls.                                          *)
THEOREM HMapIsAMap == Spec => ImplementsMap
<1>1. Init => Map!Init
  <2>. SUFFICES ASSUME Init PROVE Map!Init
    OBVIOUS
  <2>1. Contents = {}
    <3>1. DEFAULT_CAPACITY \in Nat /\ 0 \in Nat
      BY CapacityAssumption
    <3>2. EntriesOf(buckets) = {} /\ EntriesOf(old_buckets) = {}
      BY <3>1, EmptyChains DEF Init
    <3>3. Range(pending) = {}
      BY DEF Init, Range
    <3>. QED
      BY <3>2, <3>3 DEF Contents
  <2>2. MapBar = <<>>
    BY <2>1, MapOfNone DEF MapBar
  <2>3. ToVisit = {}
    BY ToVisitIs DEF Init, AtEnd
  <2>. QED
    BY <2>2, <2>3 DEF Init, Map!Init, MapBar, MapOf, KeysOf
<1>2. ASSUME Inv, Inv', [Next]_vars
      PROVE  \/ Map!Next
             \/ UNCHANGED <<MapBar, ToVisit, ret>>
  <2>1. ASSUME NEW k \in Keys, Get(k) \/ ContainsKey(k) PROVE Map!Next
    BY <1>2, <2>1, LookingUpRefines DEF Map!Next
  <2>2. ASSUME NEW k \in Keys, Remove(k) PROVE Map!Next
    BY <1>2, <2>2, RemovedRefines, RemovedNothingRefines DEF Map!Next
  <2>3. ASSUME NEW k \in Keys, NEW v \in Values,
               PutExisting(k, v) \/ PutNew(k, v) \/ PutGrowing(k, v)
        PROVE  Map!Next
    BY <1>2, <2>3, PutExistingRefines, PuttingRefines DEF Map!Next
  <2>4. CASE Clear
    BY <1>2, <2>4, ClearRefines DEF Map!Next
  <2>5. CASE Iterate
    BY <1>2, <2>5, IterateRefines DEF Map!Next
  <2>6. CASE IteratorNext
    BY <1>2, <2>6, IteratorNextRefines DEF Map!Next
  <2>7. CASE IteratorNextAtEnd
    BY <1>2, <2>7, IteratorAtEndRefines DEF Map!Next
  <2>8. CASE MoveEntry \/ InsertPending
    BY <1>2, <2>8, RehashRefines
  <2>9. CASE UNCHANGED vars
    <3>1. UNCHANGED <<mapVars, rehashVars, itVars, ret>>
      BY <2>9 DEF vars
    <3>2. MapBar' = MapBar
      BY <3>1, SameMap
    <3>3. ToVisit' = ToVisit
      BY <3>1 DEF ToVisit, Contents, AtEnd, Place, hmap_get_entry, chain,
         mapVars, rehashVars, itVars
    <3>. QED
      BY <3>1, <3>2, <3>3
  <2>. QED
    BY <1>2, <2>1, <2>2, <2>3, <2>4, <2>5, <2>6, <2>7, <2>8, <2>9 DEF Next, Call, Rehash
<1>3. Inv /\ Inv' /\ [Next]_vars => [Map!Next]_<<MapBar, ToVisit, ret>>
  BY <1>2
<1>. QED
  BY <1>1, <1>3, Invariant, PTL DEF Spec, ImplementsMap, Map!Spec, MapBar, MapOf, KeysOf
=============================================================================

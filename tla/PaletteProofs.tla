----------------------------- MODULE PaletteProofs -----------------------------
(***************************************************************************)
(* Proofs about the palette of an image, for every image, hash function    *)
(* and number of colours that a colour table may have.                     *)
(*                                                                         *)
(* create_icon() goes over the hash map twice, to number its colours and   *)
(* to write them, and finds them by their numbers later.  That is right if *)
(* the map gives its keys in the same order both times: the invariant says *)
(* that the numbers are in the order of the places of the entries, and how *)
(* far the second iteration is in it.                                      *)
(***************************************************************************)
EXTENDS Palette, HMapProofs

ColorsIn == KeysOf(Contents)

(* Each colour is the value of its own entry.                              *)
OwnValues == \A e \in Contents : e.value = e.key

(* The order of the entries in the array of chains.                        *)
Earlier ==
  {p \in Keys \X Keys :
     LET a == hmap_hash(p[1], buckets_length)
         b == hmap_hash(p[2], buckets_length)
     IN  a < b \/ (a = b /\ Place(p[1]) < Place(p[2]))}

(* The colours S have the numbers below m, in order.                       *)
Numbered(S, m, number, order) ==
  /\ \A j \in S : number[j] \in 0..(m - 1)
  /\ \A i \in 0..(m - 1) : \E j \in S : number[j] = i
  /\ \A j, k \in S : <<j, k>> \in order => number[j] < number[k]

ColorsOf(m) == {pixels[p] : p \in 1..m}

(* What was counted: nothing that is not in the image, and all of it as    *)
(* long as it fits.                                                        *)
CountedSoFar ==
  LET m == IF phase = "count" THEN n - 1 ELSE Len(pixels)
  IN  /\ ColorsIn \subseteq ColorsOf(m)
      /\ size <= MaxColors => ColorsIn = ColorsOf(m)

NumberedSoFar ==
  Numbered(IF phase = "assign" THEN ColorsIn \ ToVisit ELSE ColorsIn,
           next_index, color_index, Earlier)

(* The table goes on with the first colour the iterator has yet to give.   *)
TableSoFar ==
  /\ \A i \in 1..Len(table) : table[i] \in ColorsIn /\ color_index[table[i]] = i - 1
  /\ it_init => \A k \in ColorsIn : k \in ToVisit <=> color_index[k] >= Len(table)
  /\ phase = "table" /\ ~it_init => table = <<>>
  /\ phase = "pixels" => Len(table) = next_index

DataSoFar ==
  /\ Len(data) = n - 1
  /\ \A p \in 1..(n - 1) : data[p] = color_index[pixels[p]]

PaletteTypeOK ==
  /\ pixels \in Seq(Keys)
  /\ phase \in {"count", "assign", "table", "pixels", "truecolor"}
  /\ n \in 1..(Len(pixels) + 1)
  /\ color_index \in [Keys -> Nat]
  /\ next_index \in Nat
  /\ it_init \in BOOLEAN
  /\ table \in Seq(Keys)
  /\ data \in Seq(Nat)

HasTableInv ==
  /\ phase \in {"assign", "table", "pixels"} =>
       size <= MaxColors /\ ~need_transparency /\ bit_count <= 16
  /\ phase = "truecolor" =>
       ~(size <= MaxColors /\ ~need_transparency /\ bit_count <= 16)

PaletteInv ==
  /\ Inv /\ PaletteTypeOK /\ OwnValues
  /\ phase # "count" => Idle
  /\ CountedSoFar
  /\ HasTableInv
  /\ phase \in {"assign", "table", "pixels"} => NumberedSoFar
  /\ phase \in {"table", "pixels"} => TableSoFar
  /\ it_init => phase = "table"
  /\ phase \in {"count", "assign"} => table = <<>>
  /\ phase # "pixels" => data = <<>>
  /\ phase = "pixels" => DataSoFar

-----------------------------------------------------------------------------
(* The iterator of the map.                                                *)

(* Of two entries at rest one comes first, and not the other as well.      *)
LEMMA OneIsEarlier ==
  ASSUME Inv, Idle, NEW j \in ColorsIn, NEW k \in ColorsIn
  PROVE  /\ j \in Keys /\ k \in Keys
         /\ j = k \/ <<j, k>> \in Earlier \/ <<k, j>> \in Earlier
         /\ ~(<<j, k>> \in Earlier /\ <<k, j>> \in Earlier)
         /\ <<j, j>> \notin Earlier
<1>1. PICK x \in Contents, y \in Contents : x.key = j /\ y.key = k
  BY DEF ColorsIn, KeysOf
<1>. DEFINE a == hmap_hash(j, buckets_length)
            b == hmap_hash(k, buckets_length)
            p == Place(j)
            q == Place(k)
<1>2. /\ j \in Keys /\ k \in Keys
      /\ a \in 0..(buckets_length - 1) /\ b \in 0..(buckets_length - 1)
      /\ chain(j) \in Seq(Entry) /\ chain(k) \in Seq(Entry)
      /\ p \in 1..Len(chain(j)) /\ q \in 1..Len(chain(k))
      /\ chain(j) = buckets[a] /\ chain(k) = buckets[b]
      /\ chain(j)[p] = x /\ chain(k)[q] = y
  BY <1>1, WhereItIs
<1>3. a \in Int /\ b \in Int /\ p \in Int /\ q \in Int
  <2>1. buckets_length \in Nat
    BY DEF Inv, TypeOK
  <2>. HIDE DEF a, b, p, q
  <2>2. Len(chain(j)) \in Nat /\ Len(chain(k)) \in Nat
    BY <1>2
  <2>. QED
    BY <1>2, <2>1, <2>2
<1>4. a = b /\ p = q => j = k
  <2>. HIDE DEF a, b, p, q
  <2>. QED
    BY <1>1, <1>2
<1>5. /\ <<j, k>> \in Earlier <=> a < b \/ (a = b /\ p < q)
      /\ <<k, j>> \in Earlier <=> b < a \/ (b = a /\ q < p)
      /\ <<j, j>> \in Earlier <=> a < a \/ (a = a /\ p < p)
  BY <1>2 DEF Earlier
<1>. HIDE DEF a, b, p, q
<1>. QED
  BY <1>2, <1>3, <1>4, <1>5

(* The iterator has yet to give the colour it stands at and all after it.  *)
LEMMA ToVisitIsLater ==
  ASSUME Inv, Idle, ~AtEnd
  PROVE  /\ it \in ColorsIn /\ it \in Keys
         /\ \A k \in ColorsIn : k \in ToVisit <=> k = it \/ <<it, k>> \in Earlier
<1>1. it \in ColorsIn /\ index = hmap_hash(it, buckets_length) /\ it \in Keys
  BY AtRestAllThere DEF Inv, Standing, ColorsIn, KeysOf, TypeOK
<1>2. ASSUME NEW k \in ColorsIn
      PROVE  k \in ToVisit <=> k = it \/ <<it, k>> \in Earlier
  <2>1. k \in ToVisit <=> Behind(k)
    BY <1>2, ToVisitIs DEF ColorsIn
  <2>2. /\ k \in Keys
        /\ k = it \/ <<it, k>> \in Earlier \/ <<k, it>> \in Earlier
        /\ ~(<<it, k>> \in Earlier /\ <<k, it>> \in Earlier)
    BY <1>1, <1>2, OneIsEarlier
  <2>. DEFINE a == hmap_hash(it, buckets_length)
              b == hmap_hash(k, buckets_length)
              p == Place(it)
              q == Place(k)
  <2>3. /\ <<it, k>> \in Earlier <=> a < b \/ (a = b /\ p < q)
        /\ <<k, it>> \in Earlier <=> b < a \/ (b = a /\ q < p)
        /\ Behind(k) <=> b > a \/ (b = a /\ q >= p)
    BY <1>1, <2>2 DEF Earlier, Behind
  <2>4. a \in Int /\ b \in Int /\ p \in Int /\ q \in Int
    <3>1. ASSUME NEW j \in ColorsIn
          PROVE  hmap_hash(j, buckets_length) \in Int /\ Place(j) \in Int
      <4>1. PICK x \in Contents : x.key = j
        BY <3>1 DEF ColorsIn, KeysOf
      <4>2. /\ hmap_hash(j, buckets_length) \in 0..(buckets_length - 1)
            /\ Place(j) \in 1..Len(chain(j)) /\ chain(j) \in Seq(Entry)
        BY <4>1, WhereItIs
      <4>. QED
        BY <4>2 DEF Inv, TypeOK
    <3>. QED
      BY <1>1, <1>2, <3>1
  <2>5. k = it => a = b /\ p = q
    OBVIOUS
  <2>. HIDE DEF a, b, p, q
  <2>. QED
    BY <2>1, <2>2, <2>3, <2>4, <2>5
<1>. QED
  BY <1>1, <1>2

LEMMA SameColors ==
  ASSUME UNCHANGED <<mapVars, rehashVars>>
  PROVE  /\ ColorsIn' = ColorsIn /\ Earlier' = Earlier /\ size' = size
         /\ Idle' = Idle /\ OwnValues' = OwnValues
<1>1. /\ Contents' = Contents /\ buckets_length' = buckets_length
      /\ \A k : Place(k)' = Place(k)
  BY SameMap
<1>. QED
  BY <1>1 DEF ColorsIn, KeysOf, Earlier, mapVars, rehashVars, Idle, OwnValues

LEMMA IterateStarts ==
  ASSUME Inv, Inv', Iterate
  PROVE  ToVisit' = ColorsIn /\ UNCHANGED <<mapVars, rehashVars>>
<1>1. Map!Iterate
  BY IterateRefines
<1>. QED
  BY <1>1 DEF Map!Iterate, Iterate, ColorsIn, KeysOf

LEMMA IteratorGives ==
  ASSUME Inv, Inv', OwnValues, IteratorNext
  PROVE  /\ it \in ColorsIn /\ it \in Keys /\ it \in ToVisit
         /\ ret' = it
         /\ ToVisit' = ToVisit \ {it}
         /\ Idle /\ ~AtEnd
         /\ UNCHANGED <<mapVars, rehashVars>>
<1>1. Idle /\ ~AtEnd /\ ret' = hmap_get(it) /\ UNCHANGED <<mapVars, rehashVars>>
  BY DEF IteratorNext, NextFrom
<1>2. it \in ColorsIn /\ it \in Keys /\ it \in ToVisit
  BY <1>1, ToVisitIsLater
<1>3. KeysDiffer(Contents)
  BY ContentsDiffer
<1>4. ASSUME NEW k \in ColorsIn PROVE MapBar[k] = k
  <2>1. PICK x \in Contents : x.key = k
    BY <1>4 DEF ColorsIn, KeysOf
  <2>. QED
    BY <1>3, <2>1, MapOfIs DEF OwnValues, MapBar
<1>5. DOMAIN MapBar = ColorsIn
  BY <1>3, MapOfIs DEF MapBar, ColorsIn
<1>6. ret' = it
  BY <1>1, <1>2, <1>4, <1>5, GetIsValue
<1>7. PICK k \in ToVisit : ret' = MapBar[k] /\ ToVisit' = ToVisit \ {k}
  <2>1. Map!Visit
    BY IteratorNextRefines
  <2>. QED
    BY <2>1 DEF Map!Visit, MapBar, MapOf, KeysOf
<1>8. k \in ColorsIn
  <2>1. \A y : y \in ToVisit => y \in KeysOf(Contents)
    BY <1>1, ToVisitIs
  <2>. QED
    BY <1>7, <2>1 DEF ColorsIn
<1>. QED
  BY <1>1, <1>2, <1>4, <1>6, <1>7, <1>8

-----------------------------------------------------------------------------
(* Numbers in an order.                                                    *)

LEMMA NumberedMore ==
  ASSUME NEW S \in SUBSET Keys, NEW m \in Nat, NEW number \in [Keys -> Nat], NEW order,
         Numbered(S, m, number, order),
         NEW x \in Keys, x \notin S, <<x, x>> \notin order,
         \A j \in S : <<x, j>> \notin order
  PROVE  Numbered(S \cup {x}, m + 1, [number EXCEPT ![x] = m], order)
<1>. DEFINE new == [number EXCEPT ![x] = m]
<1>1. new[x] = m /\ \A j \in S : new[j] = number[j]
  OBVIOUS
<1>. HIDE DEF new
<1>2. ASSUME NEW j \in S \cup {x} PROVE new[j] \in 0..m
  BY <1>1 DEF Numbered
<1>3. ASSUME NEW i \in 0..m PROVE \E j \in S \cup {x} : new[j] = i
  <2>1. CASE i = m
    BY <1>1, <2>1
  <2>2. CASE i # m
    <3>1. PICK j \in S : number[j] = i
      BY <1>3, <2>2 DEF Numbered
    <3>. QED
      BY <1>1, <3>1
  <2>. QED
    BY <2>1, <2>2
<1>4. ASSUME NEW j \in S \cup {x}, NEW k \in S \cup {x}, <<j, k>> \in order
      PROVE  new[j] < new[k]
  <2>1. j \in S
    BY <1>4
  <2>2. CASE k \in S
    BY <1>1, <1>4, <2>1, <2>2 DEF Numbered
  <2>3. CASE k = x
    BY <1>1, <2>1, <2>3 DEF Numbered
  <2>. QED
    BY <2>2, <2>3
<1>5. 0..(m + 1 - 1) = 0..m
  OBVIOUS
<1>6. Numbered(S \cup {x}, m + 1, new, order)
  BY <1>2, <1>3, <1>4, <1>5 DEF Numbered
<1>. QED
  BY <1>6 DEF new

(* No two colours have the same number.                                    *)
LEMMA NumbersDiffer ==
  ASSUME Inv, Idle, NEW S \in SUBSET ColorsIn, NEW m \in Nat, NEW number,
         Numbered(S, m, number, Earlier), NEW j \in S, NEW k \in S, number[j] = number[k]
  PROVE  j = k
<1>1. j = k \/ <<j, k>> \in Earlier \/ <<k, j>> \in Earlier
  BY OneIsEarlier
<1>2. number[j] \in Int
  BY DEF Numbered
<1>. QED
  BY <1>1, <1>2 DEF Numbered

-----------------------------------------------------------------------------
(* Step by step.                                                           *)

Tabled == phase \in {"assign", "table", "pixels"}

LEMMA HasTableSame ==
  ASSUME HasTableInv, UNCHANGED imageVars, size' = size, Tabled, Tabled'
  PROVE  HasTableInv'
<1>1. need_transparency' = need_transparency /\ bit_count' = bit_count
  BY DEF imageVars, need_transparency
<1>. QED
  BY <1>1 DEF HasTableInv, Tabled

LEMMA PaletteStepsAreOfTheMap == PaletteInv /\ [PaletteNext]_allVars => [Next]_vars
<1>. SUFFICES ASSUME PaletteInv, [PaletteNext]_allVars PROVE [Next]_vars
  OBVIOUS
<1>1. CASE CountColor
  <2>1. (Color \in Keys /\ Color \in Values) \/ UNCHANGED vars
    BY <1>1, ColorsAssumption DEF CountColor, Count, Color, PaletteInv, PaletteTypeOK
  <2>2. PutNew(Color, Color) \/ PutGrowing(Color, Color) \/ UNCHANGED vars
    BY <1>1 DEF CountColor, Count
  <2>. QED
    BY <2>1, <2>2 DEF Next, Call
<1>2. CASE FinishAdding
  BY <1>2 DEF FinishAdding, Next
<1>3. CASE Counted
  BY <1>3 DEF Counted, Next, Call
<1>4. CASE AssignIndex \/ NextInit \/ NextColor
  BY <1>4 DEF AssignIndex, Assign, NextInit, NextColor, Next, Call
<1>5. CASE Assigned \/ NoNextColor \/ WritePixel \/ PaletteDone \/ UNCHANGED allVars
  BY <1>5 DEF Assigned, NoNextColor, WritePixel, PaletteDone, allVars
<1>. QED
  BY <1>1, <1>2, <1>3, <1>4, <1>5 DEF PaletteNext

LEMMA PaletteInitInv == PaletteInit => PaletteInv
<1>. SUFFICES ASSUME PaletteInit PROVE PaletteInv
  OBVIOUS
<1>1. Inv /\ Idle
  BY InitInv DEF PaletteInit, Init, Idle
<1>2. Contents = {}
  <2>1. Contents = EntriesOf(buckets) /\ buckets = NoBuckets(DEFAULT_CAPACITY)
    BY <1>1, AtRestAllThere DEF PaletteInit, Init
  <2>. QED
    BY <2>1, EmptyChains, CapacityAssumption
<1>3. PaletteTypeOK
  <2>1. pixels \in Seq(Keys) /\ Len(pixels) \in Nat
    BY ImagesAssumption, LenProperties DEF PaletteInit, Image
  <2>2. n \in 1..(Len(pixels) + 1)
    BY <2>1 DEF PaletteInit
  <2>3. table \in Seq(Keys) /\ data \in Seq(Nat)
    BY EmptySeq DEF PaletteInit
  <2>4. color_index \in [Keys -> Nat] /\ next_index \in Nat
    BY DEF PaletteInit
  <2>5. phase = "count" /\ it_init = FALSE
    BY DEF PaletteInit
  <2>. QED
    BY <2>1, <2>2, <2>3, <2>4, <2>5 DEF PaletteTypeOK
<1>4. CountedSoFar /\ OwnValues
  BY <1>2 DEF PaletteInit, CountedSoFar, OwnValues, ColorsIn, KeysOf, ColorsOf
<1>. QED
  BY <1>1, <1>3, <1>4 DEF PaletteInv, PaletteInit, HasTableInv

LEMMA CountColorInv == ASSUME PaletteInv, Inv', CountColor PROVE PaletteInv'
<1>1. /\ Idle /\ phase = "count" /\ n \in 1..Len(pixels) /\ Color \in Keys
      /\ n' = n + 1
      /\ UNCHANGED <<imageVars, pixels, phase, color_index, next_index, it_init, table,
                     data>>
      /\ n \in Nat /\ Len(pixels) \in Nat /\ pixels \in Seq(Keys)
  BY DEF PaletteInv, PaletteTypeOK, CountColor, Count, Color, imageVars
<1>2. PaletteTypeOK'
  BY <1>1 DEF PaletteInv, PaletteTypeOK
<1>3. ColorsOf(n) = ColorsOf(n - 1) \cup {Color}
  BY <1>1 DEF ColorsOf, Color
<1>4. /\ ColorsIn \subseteq ColorsOf(n - 1)
      /\ size <= MaxColors => ColorsIn = ColorsOf(n - 1)
  BY <1>1 DEF PaletteInv, CountedSoFar
<1>5. n' - 1 = n /\ {pixels'[p] : p \in 1..(n' - 1)} = ColorsOf(n)
  BY <1>1 DEF ColorsOf
<1>6. OwnValues' /\ ColorsIn' \subseteq ColorsOf(n) /\ (size' <= MaxColors => ColorsIn' = ColorsOf(n))
  <2>1. CASE PutNew(Color, Color) \/ PutGrowing(Color, Color)
    <3>1. Contents' = Contents \cup {[key |-> Color, value |-> Color]}
      BY <1>1, <2>1, PutContents, ColorsAssumption DEF PaletteInv
    <3>2. ColorsIn' = ColorsIn \cup {Color} /\ OwnValues'
      <4>1. PICK e : e = [key |-> Color, value |-> Color]
        OBVIOUS
      <4>2. e.key = Color /\ e.value = Color /\ Contents' = Contents \cup {e}
        BY <3>1, <4>1
      <4>3. \A x \in Contents : x.value = x.key
        BY DEF PaletteInv, OwnValues
      <4>4. OwnValues'
        BY <4>2, <4>3 DEF OwnValues
      <4>5. ColorsIn' = {x.key : x \in Contents \cup {e}}
        BY <4>2 DEF ColorsIn, KeysOf
      <4>. QED
        BY <4>2, <4>4, <4>5 DEF ColorsIn, KeysOf
    <3>3. size' = size + 1 /\ size \in Nat
      BY <2>1 DEF PutNew, PutGrowing, Grow, PaletteInv, Inv, TypeOK
    <3>. QED
      BY <1>3, <1>4, <3>2, <3>3, MaxColorsAssumption
  <2>2. CASE UNCHANGED vars
    <3>1. ColorsIn' = ColorsIn /\ size' = size /\ OwnValues'
      BY <2>2, SameColors DEF vars, PaletteInv
    <3>2. size <= MaxColors => Color \in ColorsIn
      <4>1. size <= MaxColors => Contains(Color)
        <5>1. CASE ~(size <= MaxColors /\ ~Contains(Color))
          BY <5>1
        <5>2. CASE size <= MaxColors /\ ~Contains(Color)
          <6>1. PutNew(Color, Color) \/ PutGrowing(Color, Color)
            BY <5>2 DEF CountColor, Count, palette_count
          <6>2. size' = size + 1 /\ size \in Nat
            BY <6>1 DEF PutNew, PutGrowing, Grow, PaletteInv, Inv, TypeOK
          <6>. QED
            BY <3>1, <6>2
        <5>. QED
          BY <5>1, <5>2
      <4>2. Contains(Color) => Color \in ColorsIn
        <5>1. Contents = EntriesOf(buckets)
          BY <1>1, AtRestAllThere DEF PaletteInv
        <5>. QED
          BY <1>1, <5>1, ContainsIfThere DEF PaletteInv, Inv, ColorsIn, KeysOf
      <4>. QED
        BY <4>1, <4>2
    <3>. QED
      BY <1>3, <1>4, <3>1, <3>2
  <2>. QED
    BY <2>1, <2>2 DEF CountColor, Count
<1>7. CountedSoFar'
  <2>1. phase' = "count"
    BY <1>1
  <2>. QED
    BY <1>5, <1>6, <2>1 DEF CountedSoFar, ColorsOf
<1>9. HasTableInv'
  BY <1>1 DEF HasTableInv
<1>. QED
  BY <1>9, <1>1, <1>2, <1>6, <1>7 DEF PaletteInv

LEMMA FinishAddingInv == ASSUME PaletteInv, Inv', FinishAdding PROVE PaletteInv'
<1>1. ~Idle
  <2>1. CASE InsertPending
    BY <2>1 DEF InsertPending
  <2>2. CASE MoveEntry
    <3>1. PICK b \in DOMAIN old_buckets : old_buckets[b] # <<>>
      BY <2>2 DEF MoveEntry, MoveFirst
    <3>2. old_buckets # NoBuckets(0)
      BY <3>1 DEF NoBuckets
    <3>. QED
      BY <3>2 DEF PaletteInv, Inv, AtRest
  <2>. QED
    BY <2>1, <2>2 DEF FinishAdding, Rehash
<1>2. phase = "count" /\ UNCHANGED createVars
  BY <1>1 DEF PaletteInv, FinishAdding
<1>9. HasTableInv'
  BY <1>2 DEF HasTableInv, createVars
<1>3. Contents' = Contents /\ size' = size
  BY RehashContents DEF PaletteInv, FinishAdding, Rehash, MoveEntry, MoveFirst, InsertPending
<1>4. ColorsIn' = ColorsIn /\ OwnValues'
  BY <1>3 DEF PaletteInv, OwnValues, ColorsIn, KeysOf
<1>5. PaletteTypeOK'
  BY <1>2 DEF PaletteInv, PaletteTypeOK, createVars, imageVars
<1>6. CountedSoFar'
  BY <1>2, <1>3, <1>4 DEF PaletteInv, CountedSoFar, createVars, imageVars, ColorsOf
<1>. QED
  BY <1>9, <1>2, <1>4, <1>5, <1>6 DEF PaletteInv, createVars

LEMMA CountedInv == ASSUME PaletteInv, Inv', Counted PROVE PaletteInv'
<1>1. /\ Idle /\ phase = "count" /\ n > Len(pixels)
      /\ phase' = IF HasTable THEN "assign" ELSE "truecolor"
      /\ next_index' = 0
      /\ phase' = "assign" => Iterate
      /\ UNCHANGED <<mapVars, rehashVars>>
      /\ UNCHANGED <<imageVars, pixels, n, color_index, it_init, table, data>>
  BY DEF Counted, palette_count, Iterate, vars, imageVars
<1>2. /\ ColorsIn' = ColorsIn /\ Idle' /\ OwnValues' /\ size' = size
  BY <1>1, SameColors DEF PaletteInv
<1>3. PaletteTypeOK'
  BY <1>1 DEF PaletteInv, PaletteTypeOK
<1>4. n - 1 = Len(pixels)
  BY <1>1 DEF PaletteInv, PaletteTypeOK
<1>5. CountedSoFar'
  <2>1. /\ ColorsIn \subseteq ColorsOf(Len(pixels))
        /\ size <= MaxColors => ColorsIn = ColorsOf(Len(pixels))
    BY <1>1, <1>4 DEF PaletteInv, CountedSoFar
  <2>2. ColorsOf(Len(pixels))' = ColorsOf(Len(pixels)) /\ phase' # "count"
    BY <1>1 DEF ColorsOf
  <2>. QED
    BY <1>2, <2>1, <2>2 DEF CountedSoFar
<1>6. phase' = "assign" => NumberedSoFar'
  <2>. SUFFICES ASSUME phase' = "assign" PROVE NumberedSoFar'
    OBVIOUS
  <2>1. ToVisit' = ColorsIn
    BY <1>1, IterateStarts DEF PaletteInv
  <2>2. ColorsIn' \ ToVisit' = {} /\ 0..(next_index' - 1) = {}
    BY <1>1, <1>2, <2>1
  <2>. QED
    BY <2>2 DEF NumberedSoFar, Numbered
<1>7. phase' = "assign" \/ phase' = "truecolor"
  BY <1>1
<1>8. ~it_init' /\ table' = <<>> /\ data' = <<>>
  BY <1>1 DEF PaletteInv
<1>9. HasTableInv'
  <2>1. /\ phase' = "assign" <=>
             size <= MaxColors /\ ~need_transparency /\ bit_count <= 16
        /\ phase' = "assign" \/ phase' = "truecolor"
    BY <1>1 DEF HasTable, palette_count
  <2>2. need_transparency' = need_transparency /\ bit_count' = bit_count
    BY <1>1 DEF imageVars, need_transparency
  <2>. QED
    BY <1>2, <2>1, <2>2 DEF HasTableInv
<1>. QED
  BY <1>9, <1>2, <1>3, <1>5, <1>6, <1>7, <1>8 DEF PaletteInv

LEMMA AssignIndexInv == ASSUME PaletteInv, Inv', AssignIndex PROVE PaletteInv'
<1>1. /\ phase = "assign" /\ IteratorNext
      /\ color_index' = [color_index EXCEPT ![ret'] = next_index]
      /\ next_index' = next_index + 1
      /\ UNCHANGED <<imageVars, pixels, phase, n, it_init, table, data>>
  BY DEF AssignIndex, Assign, imageVars
<1>2. /\ it \in ColorsIn /\ it \in Keys /\ it \in ToVisit /\ ret' = it
      /\ ToVisit' = ToVisit \ {it} /\ Idle /\ ~AtEnd
      /\ UNCHANGED <<mapVars, rehashVars>>
  BY <1>1, IteratorGives DEF PaletteInv
<1>3. /\ ColorsIn' = ColorsIn /\ Earlier' = Earlier /\ size' = size
      /\ Idle' /\ OwnValues'
  BY <1>2, SameColors DEF PaletteInv
<1>4. PaletteTypeOK'
  BY <1>1, <1>2 DEF PaletteInv, PaletteTypeOK
<1>5. CountedSoFar'
  BY <1>1, <1>3 DEF PaletteInv, CountedSoFar, ColorsOf
<1>6. NumberedSoFar'
  <2>. DEFINE S == ColorsIn \ ToVisit
  <2>1. /\ Numbered(S, next_index, color_index, Earlier)
        /\ next_index \in Nat /\ color_index \in [Keys -> Nat]
    BY <1>1 DEF PaletteInv, NumberedSoFar, PaletteTypeOK
  <2>2. it \notin S /\ ColorsIn' \ ToVisit' = S \cup {it}
    BY <1>2, <1>3
  <2>3. <<it, it>> \notin Earlier /\ S \subseteq Keys
    BY <1>2, OneIsEarlier DEF PaletteInv
  <2>4. \A j \in S : <<it, j>> \notin Earlier
    BY <1>2, ToVisitIsLater DEF PaletteInv
  <2>. HIDE DEF S
  <2>5. Numbered(S \cup {it}, next_index + 1, [color_index EXCEPT ![it] = next_index],
                 Earlier)
    BY <1>2, <2>1, <2>2, <2>3, <2>4, NumberedMore
  <2>. QED
    BY <1>1, <1>2, <1>3, <2>2, <2>5 DEF NumberedSoFar
<1>9. HasTableInv'
  BY <1>1, <1>3, HasTableSame DEF PaletteInv, Tabled
<1>. QED
  BY <1>9, <1>1, <1>3, <1>4, <1>5, <1>6 DEF PaletteInv

LEMMA AssignedInv == ASSUME PaletteInv, Inv', Assigned PROVE PaletteInv'
<1>1. /\ phase = "assign" /\ AtEnd /\ phase' = "table"
      /\ UNCHANGED <<imageVars, pixels, n, color_index, next_index, it_init, table,
                     data>>
      /\ UNCHANGED <<mapVars, rehashVars>>
  BY DEF Assigned, vars, imageVars
<1>2. /\ ColorsIn' = ColorsIn /\ Earlier' = Earlier /\ size' = size
      /\ Idle' /\ OwnValues'
  BY <1>1, SameColors DEF PaletteInv
<1>3. PaletteTypeOK'
  BY <1>1 DEF PaletteInv, PaletteTypeOK
<1>4. CountedSoFar'
  BY <1>1, <1>2 DEF PaletteInv, CountedSoFar, ColorsOf
<1>5. NumberedSoFar'
  <2>1. ColorsIn \ ToVisit = ColorsIn
    BY <1>1, ToVisitIs
  <2>. QED
    BY <1>1, <1>2, <2>1 DEF PaletteInv, NumberedSoFar
<1>6. TableSoFar' /\ ~it_init' /\ table' = <<>>
  <2>1. table' = <<>> /\ ~it_init' /\ 1..Len(table') = {}
    BY <1>1 DEF PaletteInv
  <2>. QED
    BY <1>1, <2>1 DEF TableSoFar
<1>9. HasTableInv'
  BY <1>1, <1>2, HasTableSame DEF PaletteInv, Tabled
<1>. QED
  BY <1>9, <1>1, <1>2, <1>3, <1>4, <1>5, <1>6 DEF PaletteInv

LEMMA NextInitInv == ASSUME PaletteInv, Inv', NextInit PROVE PaletteInv'
<1>1. /\ phase = "table" /\ ~it_init /\ Iterate /\ it_init' = TRUE
      /\ UNCHANGED <<imageVars, pixels, phase, n, color_index, next_index, table,
                     data>>
  BY DEF NextInit, imageVars
<1>2. ToVisit' = ColorsIn /\ UNCHANGED <<mapVars, rehashVars>> /\ table = <<>>
  BY <1>1, IterateStarts DEF PaletteInv, TableSoFar
<1>3. /\ ColorsIn' = ColorsIn /\ Earlier' = Earlier /\ size' = size
      /\ Idle' /\ OwnValues'
  BY <1>1, <1>2, SameColors DEF PaletteInv
<1>4. PaletteTypeOK'
  BY <1>1 DEF PaletteInv, PaletteTypeOK
<1>5. CountedSoFar' /\ NumberedSoFar'
  BY <1>1, <1>3 DEF PaletteInv, CountedSoFar, NumberedSoFar, ColorsOf
<1>6. TableSoFar'
  <2>1. table' = <<>> /\ Len(table') = 0 /\ 1..Len(table') = {}
    BY <1>1, <1>2
  <2>2. \A k \in ColorsIn : color_index[k] >= 0
    <3>1. ColorsIn \subseteq Keys
      BY <1>1, OneIsEarlier DEF PaletteInv, Iterate
    <3>. QED
      BY <3>1 DEF PaletteInv, PaletteTypeOK
  <2>. QED
    BY <1>1, <1>2, <1>3, <2>1, <2>2 DEF TableSoFar
<1>9. HasTableInv'
  BY <1>1, <1>3, HasTableSame DEF PaletteInv, Tabled
<1>. QED
  BY <1>9, <1>1, <1>3, <1>4, <1>5, <1>6 DEF PaletteInv

LEMMA NextColorInv == ASSUME PaletteInv, Inv', NextColor PROVE PaletteInv'
<1>1. /\ phase = "table" /\ it_init /\ IteratorNext /\ table' = Append(table, ret')
      /\ UNCHANGED <<imageVars, pixels, phase, n, color_index, next_index, it_init,
                     data>>
  BY DEF NextColor, imageVars
<1>2. /\ it \in ColorsIn /\ it \in Keys /\ it \in ToVisit /\ ret' = it
      /\ ToVisit' = ToVisit \ {it} /\ Idle /\ ~AtEnd
      /\ UNCHANGED <<mapVars, rehashVars>>
  BY <1>1, IteratorGives DEF PaletteInv
<1>3. /\ ColorsIn' = ColorsIn /\ Earlier' = Earlier /\ size' = size
      /\ Idle' /\ OwnValues'
  BY <1>2, SameColors DEF PaletteInv
<1>4. PaletteTypeOK'
  BY <1>1, <1>2 DEF PaletteInv, PaletteTypeOK
<1>5. CountedSoFar' /\ NumberedSoFar'
  BY <1>1, <1>3 DEF PaletteInv, CountedSoFar, NumberedSoFar, ColorsOf
<1>. DEFINE l == Len(table)
<1>6. /\ l \in Nat /\ table \in Seq(Keys) /\ next_index \in Nat
      /\ color_index \in [Keys -> Nat]
      /\ Numbered(ColorsIn, next_index, color_index, Earlier)
      /\ \A i \in 1..l : table[i] \in ColorsIn /\ color_index[table[i]] = i - 1
      /\ \A k \in ColorsIn : k \in ToVisit <=> color_index[k] >= l
  BY <1>1 DEF PaletteInv, PaletteTypeOK, NumberedSoFar, TableSoFar
<1>7. color_index[it] = l
  <2>1. color_index[it] \in 0..(next_index - 1) /\ color_index[it] >= l
    BY <1>2, <1>6 DEF Numbered
  <2>2. PICK j \in ColorsIn : color_index[j] = l
    <3>1. l \in 0..(next_index - 1)
      BY <1>6, <2>1
    <3>. QED
      BY <1>6, <3>1 DEF Numbered
  <2>3. j \in ToVisit
    BY <1>6, <2>2
  <2>4. j = it \/ <<it, j>> \in Earlier
    BY <1>2, <2>3, ToVisitIsLater DEF PaletteInv
  <2>5. <<it, j>> \in Earlier => color_index[it] < color_index[j]
    BY <1>2, <1>6 DEF Numbered
  <2>. QED
    BY <1>6, <2>1, <2>2, <2>4, <2>5
<1>8. TableSoFar'
  <2>1. /\ Len(table') = l + 1 /\ table'[l + 1] = it
        /\ \A i \in 1..l : table'[i] = table[i]
    BY <1>1, <1>2, <1>6, AppendProperties
  <2>. HIDE DEF l
  <2>2. ASSUME NEW i \in 1..(l + 1)
        PROVE  table'[i] \in ColorsIn /\ color_index[table'[i]] = i - 1
    <3>1. CASE i = l + 1
      BY <1>2, <1>6, <1>7, <2>1, <3>1
    <3>2. CASE i # l + 1
      <4>1. i \in 1..l
        BY <1>6, <2>2, <3>2
      <4>. QED
        BY <1>6, <2>1, <4>1
    <3>. QED
      BY <3>1, <3>2
  <2>3. ASSUME NEW k \in ColorsIn
        PROVE  k \in ToVisit' <=> color_index[k] >= l + 1
    <3>1. color_index[k] = l => k = it
      BY <1>2, <1>6, <1>7, <2>3, NumbersDiffer DEF PaletteInv
    <3>2. color_index[k] \in Int
      BY <1>6 DEF Numbered
    <3>. QED
      BY <1>2, <1>6, <1>7, <3>1, <3>2
  <2>. QED
    BY <1>1, <1>3, <2>1, <2>2, <2>3 DEF TableSoFar
<1>9. HasTableInv'
  BY <1>1, <1>3, HasTableSame DEF PaletteInv, Tabled
<1>. QED
  BY <1>9, <1>1, <1>3, <1>4, <1>5, <1>8 DEF PaletteInv

LEMMA NoNextColorInv == ASSUME PaletteInv, Inv', NoNextColor PROVE PaletteInv'
<1>1. /\ phase = "table" /\ it_init /\ AtEnd /\ it_init' = FALSE /\ n' = 1
      /\ phase' = "pixels"
      /\ UNCHANGED <<imageVars, pixels, color_index, next_index, table, data>>
      /\ UNCHANGED <<mapVars, rehashVars>>
  BY DEF NoNextColor, vars, imageVars
<1>2. /\ ColorsIn' = ColorsIn /\ Earlier' = Earlier /\ size' = size
      /\ Idle' /\ OwnValues'
  BY <1>1, SameColors DEF PaletteInv
<1>3. PaletteTypeOK'
  <2>1. pixels \in Seq(Keys) /\ Len(pixels) \in Nat
    BY LenProperties DEF PaletteInv, PaletteTypeOK
  <2>2. n' \in 1..(Len(pixels') + 1)
    BY <1>1, <2>1
  <2>. QED
    BY <1>1, <2>2 DEF PaletteInv, PaletteTypeOK
<1>4. CountedSoFar' /\ NumberedSoFar'
  BY <1>1, <1>2 DEF PaletteInv, CountedSoFar, NumberedSoFar, ColorsOf
<1>. DEFINE l == Len(table)
<1>5. /\ l \in Nat /\ next_index \in Nat
      /\ Numbered(ColorsIn, next_index, color_index, Earlier)
      /\ \A i \in 1..l : table[i] \in ColorsIn /\ color_index[table[i]] = i - 1
      /\ \A k \in ColorsIn : k \in ToVisit <=> color_index[k] >= l
      /\ ToVisit = {}
  BY <1>1, ToVisitIs, LenProperties DEF PaletteInv, PaletteTypeOK, NumberedSoFar, TableSoFar
<1>6. l = next_index
  <2>1. CASE l < next_index
    <3>1. PICK j \in ColorsIn : color_index[j] = l
      <4>1. l \in 0..(next_index - 1)
        BY <1>5, <2>1
      <4>. QED
        BY <1>5, <4>1 DEF Numbered
    <3>. QED
      BY <1>5, <3>1
  <2>2. CASE l > next_index
    <3>1. l \in 1..l
      BY <1>5, <2>2
    <3>2. table[l] \in ColorsIn /\ color_index[table[l]] = l - 1
      BY <1>5, <3>1
    <3>3. color_index[table[l]] \in 0..(next_index - 1)
      BY <1>5, <3>2 DEF Numbered
    <3>. QED
      BY <1>5, <2>2, <3>2, <3>3
  <2>. QED
    BY <1>5, <2>1, <2>2
<1>7. TableSoFar'
  BY <1>1, <1>2, <1>5, <1>6 DEF TableSoFar
<1>8. DataSoFar'
  <2>1. data' = <<>> /\ n' - 1 = 0 /\ 1..(n' - 1) = {}
    BY <1>1 DEF PaletteInv
  <2>. QED
    BY <2>1 DEF DataSoFar
<1>9. HasTableInv'
  BY <1>1, <1>2, HasTableSame DEF PaletteInv, Tabled
<1>. QED
  BY <1>9, <1>1, <1>2, <1>3, <1>4, <1>7, <1>8 DEF PaletteInv

LEMMA WritePixelInv == ASSUME PaletteInv, Inv', WritePixel PROVE PaletteInv'
<1>1. /\ phase = "pixels" /\ n <= Len(pixels)
      /\ data' = Append(data, palette_lookup(Color)) /\ n' = n + 1
      /\ UNCHANGED <<imageVars, pixels, phase, color_index, next_index, it_init,
                     table>>
      /\ UNCHANGED <<mapVars, rehashVars, itVars>>
  BY DEF WritePixel, vars, imageVars
<1>2. /\ ColorsIn' = ColorsIn /\ Earlier' = Earlier /\ size' = size
      /\ Idle /\ Idle' /\ OwnValues'
  BY <1>1, SameColors DEF PaletteInv
<1>3. /\ n \in Nat \ {0} /\ n \in 1..Len(pixels) /\ Len(pixels) \in Nat
      /\ pixels \in Seq(Keys) /\ color_index \in [Keys -> Nat] /\ data \in Seq(Nat)
      /\ Color \in Keys
  BY <1>1, LenProperties DEF PaletteInv, PaletteTypeOK, Color
<1>4. palette_lookup(Color) = color_index[Color]
  <2>1. Color \in ColorsIn
    <3>1. ColorsIn = ColorsOf(Len(pixels))
      BY <1>1 DEF PaletteInv, CountedSoFar, HasTableInv
    <3>. QED
      BY <1>3, <3>1 DEF ColorsOf, Color
  <2>2. PICK x \in Contents : x.key = Color
    BY <2>1 DEF ColorsIn, KeysOf
  <2>3. /\ Contains(Color) /\ chain(Color)[Place(Color)] = x
    BY <1>2, <2>2, WhereItIs DEF PaletteInv
  <2>4. x.value = Color
    BY <2>2 DEF PaletteInv, OwnValues
  <2>. QED
    BY <2>3, <2>4 DEF palette_lookup, hmap_get
<1>5. PaletteTypeOK'
  <2>1. data' \in Seq(Nat)
    BY <1>1, <1>3, <1>4, AppendProperties
  <2>2. n' \in 1..(Len(pixels') + 1)
    BY <1>1, <1>3
  <2>. QED
    BY <1>1, <2>1, <2>2 DEF PaletteInv, PaletteTypeOK
<1>6. CountedSoFar' /\ NumberedSoFar'
  BY <1>1, <1>2 DEF PaletteInv, CountedSoFar, NumberedSoFar, ColorsOf
<1>7. TableSoFar'
  BY <1>1, <1>2 DEF PaletteInv, TableSoFar
<1>8. DataSoFar'
  <2>1. Len(data) = n - 1 /\ \A p \in 1..(n - 1) : data[p] = color_index[pixels[p]]
    BY <1>1 DEF PaletteInv, DataSoFar
  <2>2. /\ Len(data') = n /\ data'[n] = color_index[pixels[n]]
        /\ \A p \in 1..(n - 1) : data'[p] = data[p]
    BY <1>1, <1>3, <1>4, <2>1, AppendProperties DEF Color
  <2>. QED
    BY <1>1, <1>3, <2>1, <2>2 DEF DataSoFar
<1>9. HasTableInv'
  BY <1>1, <1>2, HasTableSame DEF PaletteInv, Tabled
<1>. QED
  BY <1>9, <1>1, <1>2, <1>5, <1>6, <1>7, <1>8 DEF PaletteInv

LEMMA PaletteNextInv == PaletteInv /\ [PaletteNext]_allVars => PaletteInv'
<1>. SUFFICES ASSUME PaletteInv, [PaletteNext]_allVars PROVE PaletteInv'
  OBVIOUS
<1>1. Inv'
  BY PaletteStepsAreOfTheMap, NextInv DEF PaletteInv
<1>2. CASE CountColor \/ FinishAdding \/ Counted
  BY <1>1, <1>2, CountColorInv, FinishAddingInv, CountedInv
<1>3. CASE AssignIndex \/ Assigned
  BY <1>1, <1>3, AssignIndexInv, AssignedInv
<1>4. CASE NextInit \/ NextColor \/ NoNextColor
  BY <1>1, <1>4, NextInitInv, NextColorInv, NoNextColorInv
<1>5. CASE WritePixel
  BY <1>1, <1>5, WritePixelInv
<1>6. CASE PaletteDone \/ UNCHANGED allVars
  <2>1. UNCHANGED <<mapVars, rehashVars, itVars>> /\ UNCHANGED createVars
    BY <1>6 DEF PaletteDone, allVars, vars
  <2>2. /\ ColorsIn' = ColorsIn /\ Earlier' = Earlier /\ size' = size
        /\ Idle' = Idle /\ OwnValues' = OwnValues /\ Contents' = Contents
    BY <2>1, SameColors, SameMap
  <2>3. ToVisit' = ToVisit
    BY <2>1, <2>2 DEF ToVisit, AtEnd, Place, hmap_get_entry, chain, mapVars, itVars
  <2>4. PaletteTypeOK'
    BY <2>1 DEF PaletteInv, PaletteTypeOK, createVars, imageVars
  <2>5. CountedSoFar' = CountedSoFar /\ NumberedSoFar' = NumberedSoFar
    BY <2>1, <2>2, <2>3 DEF CountedSoFar, NumberedSoFar, createVars, imageVars, ColorsOf
  <2>6. TableSoFar' = TableSoFar /\ DataSoFar' = DataSoFar
    BY <2>1, <2>2, <2>3 DEF TableSoFar, DataSoFar, createVars, imageVars
  <2>7. HasTableInv' = HasTableInv
    BY <2>1, <2>2 DEF HasTableInv, need_transparency, createVars, imageVars, mapVars
  <2>. QED
    BY <1>1, <2>1, <2>2, <2>4, <2>5, <2>6, <2>7 DEF PaletteInv, createVars
<1>. QED
  BY <1>2, <1>3, <1>4, <1>5, <1>6 DEF PaletteNext

LEMMA PaletteInvariant == PaletteSpec => []PaletteInv
BY PaletteInitInv, PaletteNextInv, PTL DEF PaletteSpec

-----------------------------------------------------------------------------
LEMMA FiniteImage ==
  ASSUME NEW S, IsFiniteSet(S), NEW f
  PROVE  IsFiniteSet({f[x] : x \in S})
<1>. DEFINE g == [x \in S |-> f[x]]
            T == {f[x] : x \in S}
<1>1. g \in Surjection(S, T)
  BY DEF Surjection
<1>. HIDE DEF g, T
<1>2. IsFiniteSet(T)
  BY <1>1, FS_Surjection
<1>. QED
  BY <1>2 DEF T

LEMMA ColorsAreCounted ==
  ASSUME PaletteInv
  PROVE  /\ IsFiniteSet(ColorsUsed) /\ IsFiniteSet(ColorsIn)
         /\ size = Cardinality(ColorsIn) /\ size \in Nat
         /\ phase # "count" => ColorsIn \subseteq ColorsUsed
         /\ phase \in {"assign", "table", "pixels"} => ColorsIn = ColorsUsed
<1>1. DOMAIN pixels = 1..Len(pixels) /\ Len(pixels) \in Nat
  BY DEF PaletteInv, PaletteTypeOK
<1>2. ColorsUsed = ColorsOf(Len(pixels))
  BY <1>1 DEF ColorsUsed, ColorsOf
<1>3. IsFiniteSet(ColorsUsed)
  <2>1. IsFiniteSet(1..Len(pixels))
    BY <1>1, FS_Interval
  <2>2. IsFiniteSet({pixels[p] : p \in 1..Len(pixels)})
    BY <2>1, FiniteImage, Zenon
  <2>. QED
    BY <1>2, <2>2 DEF ColorsOf
<1>4. IsFiniteSet(ColorsIn)
  <2>1. IsFiniteSet(Contents)
    BY DEF PaletteInv, Inv, Sized
  <2>. DEFINE key == [e \in Contents |-> e.key]
  <2>2. IsFiniteSet({key[e] : e \in Contents})
    <3>. HIDE DEF key
    <3>. QED
      BY <2>1, FiniteImage, Zenon
  <2>. QED
    BY <2>2 DEF ColorsIn, KeysOf
<1>5. size = Cardinality(ColorsIn) /\ size \in Nat
  BY OneEntryPerKey DEF PaletteInv, ColorsIn, KeysOf, Inv, TypeOK
<1>. QED
  BY <1>2, <1>3, <1>4, <1>5 DEF PaletteInv, CountedSoFar, HasTableInv

(* The table and the pixels of an image with a table give every pixel its  *)
(* own colour, and the table holds none twice (palette_assign_indices(),   *)
(* palette_next(), palette_lookup() over an hmap of any hash function).    *)
THEOREM PixelsComeWithTheirColors == PaletteSpec => []PixelsKeepColor
<1>1. PaletteInv => PixelsKeepColor
  <2>. SUFFICES ASSUME PaletteInv, Written
                PROVE  /\ Len(data) = Len(pixels)
                       /\ \A p \in DOMAIN pixels : table[data[p] + 1] = pixels[p]
                       /\ Len(table) = Cardinality(ColorsUsed)
    BY DEF PixelsKeepColor
  <2>1. /\ phase = "pixels" /\ n > Len(pixels) /\ Idle
        /\ pixels \in Seq(Keys) /\ n \in 1..(Len(pixels) + 1) /\ Len(pixels) \in Nat
        /\ table \in Seq(Keys) /\ Len(table) = next_index /\ next_index \in Nat
        /\ Numbered(ColorsIn, next_index, color_index, Earlier)
        /\ \A i \in 1..Len(table) :
             table[i] \in ColorsIn /\ color_index[table[i]] = i - 1
        /\ Len(data) = n - 1
        /\ \A p \in 1..(n - 1) : data[p] = color_index[pixels[p]]
    BY DEF Written, PaletteInv, PaletteTypeOK, NumberedSoFar, TableSoFar, DataSoFar
  <2>2. n - 1 = Len(pixels) /\ DOMAIN pixels = 1..Len(pixels)
    BY <2>1
  <2>3. ColorsIn = ColorsUsed /\ IsFiniteSet(ColorsIn)
    BY <2>1, ColorsAreCounted
  <2>4. ASSUME NEW k \in ColorsIn
        PROVE  color_index[k] + 1 \in 1..Len(table) /\ table[color_index[k] + 1] = k
    <3>1. color_index[k] \in 0..(next_index - 1)
      BY <2>1 DEF Numbered
    <3>2. color_index[k] + 1 \in 1..Len(table) /\ color_index[k] + 1 - 1 = color_index[k]
      BY <2>1, <3>1
    <3>3. PICK i : i = color_index[k] + 1
      OBVIOUS
    <3>4. table[i] \in ColorsIn /\ color_index[table[i]] = i - 1
      BY <2>1, <3>2, <3>3
    <3>5. color_index[table[i]] = color_index[k]
      BY <3>1, <3>3, <3>4
    <3>. QED
      BY <2>1, <3>2, <3>3, <3>4, <3>5, NumbersDiffer DEF PaletteInv
  <2>5. ASSUME NEW p \in DOMAIN pixels PROVE table[data[p] + 1] = pixels[p]
    <3>1. pixels[p] \in ColorsIn
      BY <2>3, <2>5 DEF ColorsUsed
    <3>. QED
      BY <2>1, <2>2, <2>4, <2>5, <3>1
  <2>6. Len(table) = Cardinality(ColorsUsed)
    <3>. DEFINE places == 1..Len(table)
                f == [i \in places |-> table[i]]
    <3>1. IsFiniteSet(places) /\ Cardinality(places) = Len(table)
      BY <2>1, FS_Interval
    <3>2. f \in Bijection(places, ColorsIn)
      <4>1. f \in [places -> ColorsIn]
        BY <2>1
      <4>2. \A i, j \in places : f[i] = f[j] => i = j
        BY <2>1
      <4>3. \A k \in ColorsIn : \E i \in places : f[i] = k
        BY <2>4
      <4>. QED
        BY <4>1, <4>2, <4>3 DEF Bijection, Injection, Surjection, IsInjective
    <3>. HIDE DEF places, f
    <3>3. Cardinality(places) = Cardinality(ColorsIn)
      BY <2>3, <3>1, <3>2, FS_Bijection DEF ExistsBijection
    <3>. QED
      BY <2>3, <3>1, <3>3
  <2>. QED
    BY <2>1, <2>2, <2>5, <2>6
<1>. QED
  BY <1>1, PaletteInvariant, PTL

(* An image gets a colour table exactly if all its colours fit in one, its *)
(* alpha values are at most on and off and no depth above 16 is asked for, *)
(* although palette_add() is not called for more than the first colour     *)
(* that is too many (create_icon()).                                       *)
THEOREM TableExactlyIfItSuffices == PaletteSpec => []TableIfItSuffices
<1>1. PaletteInv => TableIfItSuffices
  <2>. SUFFICES ASSUME PaletteInv PROVE TableIfItSuffices
    OBVIOUS
  <2>1. /\ IsFiniteSet(ColorsUsed) /\ IsFiniteSet(ColorsIn)
        /\ size = Cardinality(ColorsIn) /\ size \in Nat
        /\ phase # "count" => ColorsIn \subseteq ColorsUsed
        /\ phase \in {"assign", "table", "pixels"} => ColorsIn = ColorsUsed
    BY ColorsAreCounted
  <2>2. CASE phase \in {"assign", "table", "pixels"}
    BY <2>1, <2>2 DEF TableIfItSuffices, TableSuffices, PaletteInv, HasTableInv
  <2>3. CASE phase = "truecolor"
    <3>1. Cardinality(ColorsIn) <= Cardinality(ColorsUsed) /\ Cardinality(ColorsUsed) \in Nat
      BY <2>1, <2>3, FS_Subset, FS_CardinalityType
    <3>2. ~(size <= MaxColors /\ ~need_transparency /\ bit_count <= 16)
      BY <2>3 DEF PaletteInv, HasTableInv
    <3>3. Cardinality(ColorsUsed) <= MaxColors => size <= MaxColors
      BY <2>1, <3>1, MaxColorsAssumption
    <3>. QED
      BY <2>3, <3>2, <3>3 DEF TableIfItSuffices, TableSuffices
  <2>4. CASE phase = "count"
    BY <2>4 DEF TableIfItSuffices
  <2>. QED
    BY <2>2, <2>3, <2>4 DEF PaletteInv, PaletteTypeOK
<1>. QED
  BY <1>1, PaletteInvariant, PTL
=============================================================================

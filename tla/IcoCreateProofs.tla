--------------------------- MODULE IcoCreateProofs ---------------------------
(***************************************************************************)
(* Proofs about create_icon(), for any number of inputs of any size, each  *)
(* of them failing anywhere, and a disk that fills at any time.            *)
(***************************************************************************)
EXTENDS IcoCreate, FiniteSetTheorems, FunctionTheorems, SequenceTheorems, TLAPS

-----------------------------------------------------------------------------
(* Pixels and masks of every size are read from where they were written,   *)
(* and no two of them are written to the same place.                       *)

Depths == {1, 2, 4, 8, 16, 24, 32}

IsPicture(s) ==
  /\ s.width \in Nat \ {0} /\ s.height \in Nat \ {0}
  /\ s.bits \in Depths
  /\ s.bits = 24 => RowBytes(s) % 3 = 0

Bits(s) == 0..(s.bits - 1)

-----------------------------------------------------------------------------
(* Arithmetic.                                                             *)

LEMMA RowLength ==
  ASSUME NEW n \in Nat
  PROVE  \E k \in Nat : ROW_BYTES(n) = 4 * k /\ 32 * k >= n
<1> DEFINE k == (n + 31) \div 32
<1>1. k \in Nat /\ 32 * k >= n
  OBVIOUS
<1> QED BY <1>1 DEF ROW_BYTES

(* Rows of r bytes do not overlap.                                         *)
LEMMA RowsApart ==
  ASSUME NEW a \in Nat, NEW b \in Nat, NEW r \in Nat, a < b
  PROVE  a * r + r <= b * r /\ a * r \in Nat
<1>1. PICK d \in Nat : b = a + 1 + d
  <2>1. b - a - 1 \in Nat /\ b = a + 1 + (b - a - 1)
    OBVIOUS
  <2> QED BY <2>1
<1>2. b * r = a * r + r + d * r
  BY <1>1
<1>3. d * r \in Nat /\ a * r \in Nat
  OBVIOUS
<1> QED BY <1>2, <1>3

LEMMA SameRow ==
  ASSUME NEW a \in Nat, NEW b \in Nat, NEW r \in Nat,
         NEW p \in 0..(r - 1), NEW q \in 0..(r - 1),
         a * r + p = b * r + q
  PROVE  a = b /\ p = q
<1>1. a * r \in Nat /\ b * r \in Nat
  OBVIOUS
<1>2. ~(a < b)
  BY <1>1, RowsApart
<1>3. ~(b < a)
  BY <1>1, RowsApart
<1> QED BY <1>1, <1>2, <1>3

-----------------------------------------------------------------------------
(* Within a row.                                                           *)

(* So many values on as fill m times four bytes are m times four bytes on. *)
LEMMA PackedFurther ==
  ASSUME NEW size \in Depths, NEW n \in Nat, NEW m \in Nat, NEW b \in 0..(size - 1),
         size = 24 => m % 3 = 0
  PROVE  Packed(n + (32 * m) \div size, size, b) =
           <<Packed(n, size, b)[1] + 4 * m, Packed(n, size, b)[2]>>
<1>1. CASE size = 1
  BY <1>1 DEF Packed
<1>2. CASE size = 2
  BY <1>2 DEF Packed
<1>3. CASE size = 4
  BY <1>3 DEF Packed
<1>4. CASE size = 8
  BY <1>4 DEF Packed
<1>5. CASE size = 16
  BY <1>5 DEF Packed
<1>6. CASE size = 24
  BY <1>6 DEF Packed
<1>7. CASE size = 32
  BY <1>7 DEF Packed
<1> QED BY <1>1, <1>2, <1>3, <1>4, <1>5, <1>6, <1>7 DEF Depths

LEMMA PackedWithin ==
  ASSUME NEW size \in Depths, NEW n \in Nat, NEW b \in 0..(size - 1),
         NEW bytes \in Nat, (n + 1) * size <= 8 * bytes
  PROVE  Packed(n, size, b)[1] \in 0..(bytes - 1)
<1>1. CASE size = 1
  BY <1>1 DEF Packed
<1>2. CASE size = 2
  BY <1>2 DEF Packed
<1>3. CASE size = 4
  BY <1>3 DEF Packed
<1>4. CASE size = 8
  BY <1>4 DEF Packed
<1>5. CASE size = 16
  BY <1>5 DEF Packed
<1>6. CASE size = 24
  BY <1>6 DEF Packed
<1>7. CASE size = 32
  BY <1>7 DEF Packed
<1> QED BY <1>1, <1>2, <1>3, <1>4, <1>5, <1>6, <1>7 DEF Depths

LEMMA PackedApart ==
  ASSUME NEW size \in Depths, NEW n \in Nat, NEW m \in Nat,
         NEW b \in 0..(size - 1), NEW e \in 0..(size - 1),
         Packed(n, size, b)[1] = Packed(m, size, e)[1],
         Packed(n, size, b)[2] = Packed(m, size, e)[2]
  PROVE  n = m /\ b = e
<1>1. CASE size = 1
  BY <1>1 DEF Packed
<1>2. CASE size = 2
  BY <1>2 DEF Packed
<1>3. CASE size = 4
  BY <1>3 DEF Packed
<1>4. CASE size = 8
  BY <1>4 DEF Packed
<1>5. CASE size = 16
  BY <1>5 DEF Packed
<1>6. CASE size = 24
  BY <1>6 DEF Packed
<1>7. CASE size = 32
  BY <1>7 DEF Packed
<1> QED BY <1>1, <1>2, <1>3, <1>4, <1>5, <1>6, <1>7 DEF Depths

-----------------------------------------------------------------------------
(* In a picture.                                                           *)

LEMMA StoredRows ==
  ASSUME NEW s, IsPicture(s), NEW y \in Rows(s)
  PROVE  Stored(s, y) \in Nat /\ Stored(s, y) < s.height
BY DEF IsPicture, Rows, Stored

(* A row is a multiple of four bytes, long enough for its values.          *)
LEMMA RowHolds ==
  ASSUME NEW w \in Nat \ {0}, NEW size \in Depths
  PROVE  \E k \in Nat : ROW_BYTES(w * size) = 4 * k /\ w * size <= 32 * k
<1>1. w * size \in Nat
  BY DEF Depths
<1> QED BY <1>1, RowLength

LEMMA ColumnFits ==
  ASSUME NEW w \in Nat, NEW x \in 0..(w - 1), NEW size \in Depths
  PROVE  (x + 1) * size <= w * size
<1>1. x + 1 \in Nat /\ size \in Nat
  BY DEF Depths
<1>2. CASE x + 1 = w
  BY <1>1, <1>2
<1>3. CASE x + 1 < w
  BY <1>1, <1>3, RowsApart
<1> QED BY <1>1, <1>2, <1>3

(* So much is before row a of rows of four times k bytes.                  *)
LEMMA RowStart ==
  ASSUME NEW a \in Nat, NEW k \in Nat
  PROVE  /\ a * k \in Nat
         /\ a * (4 * k) = 4 * (a * k)
         /\ a * (4 * k) * 8 = 32 * (a * k)
OBVIOUS

LEMMA ThirdsOfProducts ==
  ASSUME NEW a \in Nat, NEW k \in Nat, (4 * k) % 3 = 0
  PROVE  (a * k) % 3 = 0
<1>1. PICK j \in Nat : k = 3 * j
  <2>1. k % 3 = 0
    OBVIOUS
  <2>2. k = 3 * (k \div 3) /\ k \div 3 \in Nat
    BY <2>1
  <2> QED BY <2>2
<1>2. a * k = 3 * (a * j) /\ a * j \in Nat
  BY <1>1
<1>3. \A t \in Nat : (3 * t) % 3 = 0
  OBVIOUS
<1> DEFINE t == a * j
<1>4. t \in Nat /\ a * k = 3 * t
  BY <1>2
<1> HIDE DEF t
<1> QED BY <1>3, <1>4

(* A pixel is where its row and its column put it, for the writer and for  *)
(* the reader.                                                             *)
LEMMA PixelPlace ==
  ASSUME NEW s, IsPicture(s), NEW x \in Columns(s), NEW y \in Rows(s), NEW b \in Bits(s)
  PROVE  LET place == <<Packed(x, s.bits, b)[1] + Stored(s, y) * RowBytes(s),
                        Packed(x, s.bits, b)[2]>>
         IN  PixelWritten(s, x, y, b) = place /\ PixelRead(s, x, y, b) = place
<1> DEFINE a == Stored(s, y)
           size == s.bits
           row == Packed(x, size, b)
<1>1. a \in Nat /\ size \in Depths /\ x \in Nat /\ b \in 0..(size - 1)
  BY StoredRows DEF IsPicture, Columns, Bits
<1>2. PICK k \in Nat : RowBytes(s) = 4 * k
  BY RowHolds DEF IsPicture, RowBytes
<1> DEFINE m == a * k
<1>3. /\ m \in Nat /\ a * RowBytes(s) = 4 * m
      /\ a * RowBytes(s) * 8 = 32 * m
  BY <1>1, <1>2, RowStart
<1>4. size = 24 => m % 3 = 0
  BY <1>1, <1>2, ThirdsOfProducts DEF IsPicture
<1> HIDE DEF m, a, size
<1>5. Packed(x + (32 * m) \div size, size, b) = <<row[1] + 4 * m, row[2]>>
  BY <1>1, <1>3, <1>4, PackedFurther
<1>6. PixelRead(s, x, y, b) = Packed(x + (32 * m) \div size, size, b)
  BY <1>3 DEF PixelRead, simple_vec, imod, a, size
<1>7. PixelWritten(s, x, y, b) = <<row[1] + 4 * m, row[2]>>
  <2>1. CASE size < 24
    BY <1>3, <1>5, <2>1 DEF PixelWritten, simple_setvec, a, size
  <2>2. CASE ~(size < 24)
    <3>1. size \in {24, 32}
      BY <1>1, <2>2 DEF Depths
    <3>2. PixelWritten(s, x, y, b) =
            <<(size \div 8) * x + b \div 8 + a * RowBytes(s), b % 8>>
      BY <2>2 DEF PixelWritten, irow, a, size
    <3>3. row = <<x * (size \div 8) + b \div 8, b % 8>>
      BY <3>1 DEF Packed
    <3>4. x * (size \div 8) = (size \div 8) * x
      BY <1>1, <3>1
    <3> QED BY <1>3, <3>2, <3>3, <3>4
  <2> QED BY <2>1, <2>2
<1> QED BY <1>3, <1>5, <1>6, <1>7 DEF a, size

(* Every bit of a pixel is read from where it was written, whatever the    *)
(* width and height are, and that is within the image data and a place of  *)
(* its own; at 24 bits, if the rows are a multiple of three bytes.         *)
THEOREM PixelsFoundAgain ==
  ASSUME NEW s, IsPicture(s), NEW x \in Columns(s), NEW y \in Rows(s), NEW b \in Bits(s)
  PROVE  /\ PixelRead(s, x, y, b) = PixelWritten(s, x, y, b)
         /\ PixelWritten(s, x, y, b)[1] < s.height * RowBytes(s)
         /\ \A v \in Columns(s), w \in Rows(s), e \in Bits(s) :
              PixelWritten(s, v, w, e) = PixelWritten(s, x, y, b)
                => v = x /\ w = y /\ e = b
<1> DEFINE r == RowBytes(s)
           at(v, e) == Packed(v, s.bits, e)[1]
<1>1. PICK k \in Nat : r = 4 * k /\ s.width * s.bits <= 32 * k
  BY RowHolds DEF IsPicture, RowBytes
<1>2. r \in Nat /\ s.width * s.bits <= 8 * r
  BY <1>1
<1>3. ASSUME NEW v \in Columns(s), NEW e \in Bits(s)
      PROVE  at(v, e) \in 0..(r - 1)
  <2>1. s.bits \in Depths /\ v \in Nat /\ e \in 0..(s.bits - 1)
    BY DEF IsPicture, Columns, Bits
  <2>2. (v + 1) * s.bits <= s.width * s.bits
    BY ColumnFits DEF IsPicture, Columns
  <2>3. (v + 1) * s.bits \in Int /\ s.width * s.bits \in Int
    BY <2>1 DEF Depths, IsPicture
  <2>4. (v + 1) * s.bits <= 8 * r
    BY <1>2, <2>2, <2>3
  <2> HIDE DEF r
  <2> QED BY <1>2, <2>1, <2>4, PackedWithin
<1> HIDE DEF r, at
<1>4. PixelRead(s, x, y, b) = PixelWritten(s, x, y, b)
  BY PixelPlace
<1>5. PixelWritten(s, x, y, b)[1] = at(x, b) + Stored(s, y) * r
  BY PixelPlace DEF at, r
<1>6. PixelWritten(s, x, y, b)[1] < s.height * r
  <2>1. Stored(s, y) * r + r <= s.height * r /\ Stored(s, y) * r \in Nat
    BY <1>2, StoredRows, RowsApart DEF IsPicture
  <2>2. at(x, b) \in 0..(r - 1) /\ s.height * r \in Nat
    BY <1>2, <1>3 DEF IsPicture
  <2> QED BY <1>2, <1>5, <2>1, <2>2
<1>7. ASSUME NEW v \in Columns(s), NEW w \in Rows(s), NEW e \in Bits(s),
             PixelWritten(s, v, w, e) = PixelWritten(s, x, y, b)
      PROVE  v = x /\ w = y /\ e = b
  <2>1. PixelWritten(s, v, w, e)[1] = at(v, e) + Stored(s, w) * r
    BY PixelPlace DEF at, r
  <2>2. Stored(s, w) \in Nat /\ Stored(s, y) \in Nat
    BY StoredRows
  <2>3. at(v, e) \in 0..(r - 1) /\ at(x, b) \in 0..(r - 1)
    BY <1>3
  <2>4. Stored(s, w) * r + at(v, e) = Stored(s, y) * r + at(x, b)
    <3>1. Stored(s, w) * r \in Nat /\ Stored(s, y) * r \in Nat
      BY <1>2, <2>2
    <3> QED BY <1>5, <1>7, <2>1, <2>3, <3>1
  <2>5. Stored(s, w) = Stored(s, y) /\ at(v, e) = at(x, b)
    BY <1>2, <2>2, <2>3, <2>4, SameRow
  <2>6. w = y
    BY <2>5 DEF Stored, IsPicture, Rows
  <2>7. Packed(v, s.bits, e)[2] = Packed(x, s.bits, b)[2]
    BY <1>7, PixelPlace
  <2>8. v = x /\ e = b
    BY <2>5, <2>7, PackedApart DEF at, IsPicture, Columns, Bits
  <2> QED BY <2>6, <2>8
<1> QED BY <1>4, <1>6, <1>7 DEF r

(* Every bit of a mask is read from where it was written, within the mask, *)
(* and none of the bits written eight at a time, those behind the width    *)
(* included, is written over it.                                           *)
THEOREM MaskFoundAgain ==
  ASSUME NEW s, IsPicture(s), NEW x \in Columns(s), NEW y \in Rows(s)
  PROVE  /\ MaskRead(s, x, y) = MaskWritten(s, x, y)
         /\ MaskWritten(s, x, y)[1] < s.height * MaskRowBytes(s)
         /\ \A v \in 0..(8 * Octets(s) - 1), w \in Rows(s) :
              MaskWritten(s, v, w) = MaskWritten(s, x, y) => v = x /\ w = y
<1> DEFINE r == MaskRowBytes(s)
           a == Stored(s, y)
<1>1. PICK k \in Nat : r = 4 * k /\ s.width <= 32 * k
  BY RowLength DEF IsPicture, MaskRowBytes
<1>2. Octets(s) \in Nat /\ Octets(s) <= r /\ s.width <= 8 * Octets(s)
  BY <1>1 DEF Octets, IsPicture
<1>3. r \in Nat /\ x \in 0..(8 * Octets(s) - 1) /\ mask_row(s) = r
  BY <1>1, <1>2 DEF Columns, IsPicture, mask_row
<1>4. a \in Nat /\ a < s.height /\ s.height \in Nat
  BY StoredRows DEF IsPicture
<1> HIDE DEF r, a
<1>5. \A v \in 0..(8 * Octets(s) - 1), w \in Rows(s) :
        MaskWritten(s, v, w) = <<Stored(s, w) * r + v \div 8, 7 - (v % 8)>>
  BY <1>3 DEF MaskWritten
<1>6. MaskRead(s, x, y) = MaskWritten(s, x, y)
  <2> DEFINE m == a * r
  <2>1. m \in Nat /\ a * r * 8 = 8 * m
    BY <1>3, <1>4
  <2> HIDE DEF m
  <2>2. MaskRead(s, x, y) = Packed(x + 8 * m, 1, 0)
    BY <2>1 DEF MaskRead, simple_vec, mmod, r, a
  <2>3. Packed(x + 8 * m, 1, 0) = <<m + x \div 8, 7 - (x % 8)>>
    BY <1>2, <1>3, <2>1 DEF Packed
  <2>4. MaskWritten(s, x, y) = <<m + x \div 8, 7 - (x % 8)>>
    BY <1>3, <1>5 DEF m, a
  <2> QED BY <2>2, <2>3, <2>4
<1>7. MaskWritten(s, x, y)[1] < s.height * r
  <2>1. a * r + r <= s.height * r /\ a * r \in Nat
    BY <1>3, <1>4, RowsApart
  <2>2. x \div 8 \in 0..(r - 1) /\ s.height * r \in Nat
    BY <1>2, <1>3, <1>4
  <2>3. MaskWritten(s, x, y)[1] = a * r + x \div 8
    BY <1>3, <1>5 DEF a
  <2> QED BY <1>3, <2>1, <2>2, <2>3
<1>8. ASSUME NEW v \in 0..(8 * Octets(s) - 1), NEW w \in Rows(s),
             MaskWritten(s, v, w) = MaskWritten(s, x, y)
      PROVE  v = x /\ w = y
  <2>1. Stored(s, w) \in Nat /\ Stored(s, y) \in Nat
    BY StoredRows
  <2>2. v \div 8 \in 0..(r - 1) /\ x \div 8 \in 0..(r - 1)
    BY <1>2, <1>3
  <2>3. /\ Stored(s, w) * r + v \div 8 = Stored(s, y) * r + x \div 8
        /\ 7 - (v % 8) = 7 - (x % 8)
    BY <1>3, <1>5, <1>8
  <2>4. Stored(s, w) = Stored(s, y) /\ v \div 8 = x \div 8
    <3> DEFINE p == v \div 8
               q == x \div 8
    <3>1. p \in 0..(r - 1) /\ q \in 0..(r - 1) /\ r \in Nat
      BY <1>3, <2>2
    <3>2. Stored(s, w) * r + p = Stored(s, y) * r + q
      BY <2>3
    <3> HIDE DEF p, q
    <3>3. Stored(s, w) = Stored(s, y) /\ p = q
      BY <2>1, <3>1, <3>2, SameRow
    <3> QED BY <3>3 DEF p, q
  <2>5. w = y
    BY <2>4 DEF Stored, IsPicture, Rows
  <2>6. v = x
    BY <1>2, <1>3, <2>3, <2>4
  <2> QED BY <2>5, <2>6
<1> QED BY <1>6, <1>7, <1>8 DEF r

-----------------------------------------------------------------------------
(* As many places are written as there are bits, all of them in the image. *)
THEOREM PictureComesThrough ==
  ASSUME NEW s, IsPicture(s)
  PROVE  PixelsSurvive(s) /\ MaskSurvives(s)
<1>. DEFINE bits == 0..(s.bits - 1)
            places == {PixelWritten(s, x, y, b) :
                         x \in Columns(s), y \in Rows(s), b \in bits}
            cells == (Columns(s) \X Rows(s)) \X bits
            f == [t \in cells |-> PixelWritten(s, t[1][1], t[1][2], t[2])]
<1>1. bits = Bits(s) /\ s.width \in Nat \ {0} /\ s.height \in Nat \ {0}
      /\ s.bits \in Nat \ {0}
  BY DEF Bits, IsPicture, Depths
<1>2. /\ IsFiniteSet(cells)
      /\ Cardinality(cells) = s.width * s.height * s.bits
  <2>1. /\ IsFiniteSet(Columns(s)) /\ Cardinality(Columns(s)) = s.width
        /\ IsFiniteSet(Rows(s)) /\ Cardinality(Rows(s)) = s.height
        /\ IsFiniteSet(bits) /\ Cardinality(bits) = s.bits
    <3>1. 0 \in Int /\ s.width - 1 \in Int /\ s.height - 1 \in Int /\ s.bits - 1 \in Int
      BY <1>1
    <3>2. /\ IsFiniteSet(0..(s.width - 1)) /\ IsFiniteSet(0..(s.height - 1))
          /\ IsFiniteSet(0..(s.bits - 1))
          /\ Cardinality(0..(s.width - 1)) =
               IF 0 > s.width - 1 THEN 0 ELSE s.width - 1 - 0 + 1
          /\ Cardinality(0..(s.height - 1)) =
               IF 0 > s.height - 1 THEN 0 ELSE s.height - 1 - 0 + 1
          /\ Cardinality(0..(s.bits - 1)) =
               IF 0 > s.bits - 1 THEN 0 ELSE s.bits - 1 - 0 + 1
      BY <3>1, FS_Interval
    <3>. QED
      BY <1>1, <3>2 DEF Columns, Rows
  <2>2. /\ IsFiniteSet(Columns(s) \X Rows(s))
        /\ Cardinality(Columns(s) \X Rows(s)) = s.width * s.height
    BY <2>1, FS_Product
  <2>. DEFINE grid == Columns(s) \X Rows(s)
  <2>3. IsFiniteSet(grid) /\ Cardinality(grid) = s.width * s.height
    BY <2>2
  <2>. HIDE DEF grid, bits
  <2>4. /\ IsFiniteSet(grid \X bits)
        /\ Cardinality(grid \X bits) = s.width * s.height * s.bits
    BY <2>1, <2>3, FS_Product
  <2>. QED
    BY <2>4 DEF grid
<1>3. f \in Bijection(cells, places)
  <2>1. f \in [cells -> places]
    OBVIOUS
  <2>2. ASSUME NEW p \in places PROVE \E t \in cells : f[t] = p
    <3>1. PICK x \in Columns(s), y \in Rows(s), b \in bits : p = PixelWritten(s, x, y, b)
      OBVIOUS
    <3>2. <<<<x, y>>, b>> \in cells
      OBVIOUS
    <3>. QED
      BY <3>1, <3>2
  <2>3. ASSUME NEW t \in cells, NEW u \in cells, f[t] = f[u] PROVE t = u
    <3>1. PICK x \in Columns(s), y \in Rows(s), b \in bits : t = <<<<x, y>>, b>>
      OBVIOUS
    <3>2. PICK v \in Columns(s), w \in Rows(s), d \in bits : u = <<<<v, w>>, d>>
      OBVIOUS
    <3>3. PixelWritten(s, v, w, d) = PixelWritten(s, x, y, b)
      BY <2>3, <3>1, <3>2
    <3>4. v = x /\ w = y /\ d = b
      <4>. HIDE DEF bits
      <4>. QED
        BY <1>1, <3>3, PixelsFoundAgain
    <3>. QED
      BY <3>1, <3>2, <3>4
  <2>. HIDE DEF f, cells, places
  <2>. QED
    BY <2>1, <2>2, <2>3, Fun_IsBij
<1>4. Cardinality(places) = s.width * s.height * s.bits
  <2>. HIDE DEF f, cells, places
  <2>1. ExistsBijection(cells, places)
    BY <1>3 DEF ExistsBijection
  <2>. QED
    BY <1>2, <2>1, FS_Bijection
<1>5. /\ \A x \in Columns(s), y \in Rows(s), b \in bits :
           PixelRead(s, x, y, b) = PixelWritten(s, x, y, b)
      /\ \A p \in places : p[1] < s.height * RowBytes(s)
  <2>. HIDE DEF bits
  <2>. QED
    BY <1>1, PixelsFoundAgain
<1>6. PixelsSurvive(s)
  BY <1>4, <1>5 DEF PixelsSurvive
<1>7. MaskSurvives(s)
  <2>1. \A x \in Columns(s), y \in Rows(s) :
          /\ MaskRead(s, x, y) = MaskWritten(s, x, y)
          /\ MaskWritten(s, x, y)[1] < s.height * MaskRowBytes(s)
          /\ \A v \in 0..(8 * Octets(s) - 1), w \in Rows(s) :
               MaskWritten(s, v, w) = MaskWritten(s, x, y) => v = x /\ w = y
    BY MaskFoundAgain
  <2>2. ASSUME NEW x \in s.width..(8 * Octets(s) - 1), NEW y \in Rows(s),
               NEW v \in Columns(s), NEW w \in Rows(s)
        PROVE  MaskWritten(s, x, y) # MaskRead(s, v, w)
    <3>1. x \in 0..(8 * Octets(s) - 1) /\ x # v
      BY <1>1 DEF Columns
    <3>. QED
      BY <2>1, <3>1
  <2>. QED
    BY <2>1, <2>2 DEF MaskSurvives
<1>. QED
  BY <1>6, <1>7

-----------------------------------------------------------------------------
(* create_icon().                                                          *)

Reading == pc \in {"open", "signature", "info", "size", "reread", "rows"}
Writing == pc \in {"image", "palette", "pixels", "packed", "mask", "release"}
Returning == pc \in {"return", "done"}

(* The inputs that have been read could be.                                *)
ReadableSoFar ==
  /\ Reading => out = "none" /\ \A k \in 1..(c - 1) : ~Unreadable(inputs[k])
  /\ pc = "signature" => input.fault # "missing"
  /\ pc = "info" => input.fault \notin {"missing", "short", "foreign", "reader"}
  /\ pc \in {"size", "reread"} => ~Unreadable(input) \/ input.fault = "reread"
  /\ pc = "rows" => ~Unreadable(input) \/ input.fault = "rows"
  /\ pc \in {"size", "reread"} => input.raw
  /\ pc = "rows" => ~input.raw
  /\ pc \in {"outfile", "create"} => out = "none"
  /\ \/ pc \in {"outfile", "create", "dir", "entries"}
     \/ Writing \/ Returning \/ out = "open"
     => \A k \in 1..filec : ~Unreadable(inputs[k])

(* Once its image is written, nothing of an input is held.                 *)
Closing == pc \in {"done", "failed"}
LeftOpen == IF out = "open" THEN Output ELSE {}

Held ==
  /\ ~Closing => ptr = live /\ ptr \cap Output = LeftOpen
  /\ Writing => \A x \in ptr : x[1] = 0 \/ x[1] >= c
  /\ pc = "return" => \A x \in ptr : x[1] = 0
  /\ Closing => ptr = {} /\ live = LeftOpen

Stacked ==
  /\ pc \in {"open", "outfile", "create", "failed"} => headers = <<>>
  /\ pc \in {"signature", "info", "size", "reread", "rows"} => headers = <<c>>
  /\ pc \in {"dir", "entries"} \/ Writing => headers = <<"output">>

Inv == TypeOK /\ ReadableSoFar /\ Held /\ Stacked

-----------------------------------------------------------------------------
LEMMA InputsType ==
  ASSUME TypeOK
  PROVE  /\ filec \in Nat \ {0}
         /\ \A k \in 1..filec : inputs[k] \in Input
         /\ input \in Input
<1>1. inputs \in Seq(Input) /\ inputs # <<>>
  BY InputsAssumption DEF TypeOK
<1>2. filec \in Nat \ {0} /\ DOMAIN inputs = 1..filec
  BY <1>1, EmptySeq DEF filec
<1>3. \A k \in 1..filec : inputs[k] \in Input
  BY <1>1, <1>2
<1>. QED
  BY <1>2, <1>3 DEF TypeOK, input

LEMMA OfIs ==
  ASSUME NEW k, NEW a, NEW b
  PROVE  Of(k, {a}) = {<<k, a>>} /\ Of(k, {a, b}) = {<<k, a>>, <<k, b>>}
BY DEF Of

LEMMA OwnIs ==
  /\ Output = {<<0, "out">>}
  /\ Of(0, {"img", "outname", "out"}) = {<<0, "img">>, <<0, "outname">>, <<0, "out">>}
BY DEF Of, Output

LEMMA OwnersAreInputs ==
  TypeOK => \A x \in ptr : x[1] = 0 \/ x[1] \in 1..filec
BY OwnIs DEF TypeOK, Objects

(* What an image's pointer points to is no object of the call's own.       *)
LEMMA ObjectsOf ==
  ASSUME NEW k \in 1..filec, filec \in Nat, NEW m \in Members
  PROVE  <<k, m>> \in Objects /\ <<k, m>> \notin Output
BY OwnIs DEF Objects

(* What a step may change of what TypeOK speaks of.                        *)
LEMMA TypeKept ==
  ASSUME TypeOK, inputs' = inputs, opt' = opt, filec' = filec, full' = full,
         pc' \in {"open", "signature", "info", "size", "reread", "rows",
                  "outfile", "create", "dir", "entries",
                  "image", "palette", "pixels", "packed", "mask", "release",
                  "return", "done", "failed", "aborted", "died"},
         c' \in 1..filec, ptr' \subseteq Objects, live' \subseteq Objects,
         out' \in {"none", "open"}
  PROVE  TypeOK'
BY DEF TypeOK, Objects

LEMMA RestoreOne ==
  ASSUME NEW h
  PROVE  restore_message_header(<<h>>) = <<>>
BY DEF restore_message_header

LEMMA RestoreSet ==
  ASSUME NEW h
  PROVE  restore_message_header(set_message_header(<<>>, h)) = <<>>
BY RestoreOne DEF set_message_header

(* The label "cleanup" restores everything.                                *)
LEMMA FailInv ==
  ASSUME Inv, ~Closing, NEW h, Fail(h), restore_message_header(h) = <<>>
  PROVE  Inv'
<1>. USE DEF diskVars
<1>1. TypeOK'
  <2>1. live' \subseteq Objects /\ ptr' \subseteq Objects
    BY DEF Fail, Inv, TypeOK
  <2>. QED
    BY <2>1, TypeKept DEF Fail, callVars, outVars, Inv, TypeOK, filec
<1>2. ReadableSoFar'
  BY DEF Fail, callVars, outVars, Inv, ReadableSoFar, Reading, Writing, Returning,
         filec
<1>3. Held'
  <2>1. live' = ptr \cap Output
    BY DEF Fail, Inv, Held
  <2>. QED
    BY <2>1 DEF Fail, outVars, Inv, Held, Writing, Closing, LeftOpen
<1>4. Stacked'
  BY DEF Fail, Stacked, Writing
<1>. QED
  BY <1>1, <1>2, <1>3, <1>4 DEF Inv

LEMMA InitInv == Init => Inv
<1>. SUFFICES ASSUME Init PROVE Inv
  OBVIOUS
<1>1. inputs \in Seq(Input) /\ inputs # <<>>
  BY InputsAssumption DEF Init
<1>2. Len(inputs) \in Nat \ {0}
  BY <1>1, EmptySeq
<1>. ptr = {<<0, "img">>} /\ live = {<<0, "img">>}
  BY OfIs DEF Init
<1>3. TypeOK
  <2>1. filec \in Nat \ {0} /\ 1 \in 1..filec
    BY <1>2 DEF filec
  <2>2. c \in 1..filec
    BY <2>1 DEF Init
  <2>3. ptr \subseteq Objects /\ live \subseteq Objects
    BY OwnIs DEF Objects
  <2>. QED
    BY <2>2, <2>3 DEF Init, TypeOK
<1>4. ReadableSoFar
  BY <1>2 DEF Init, ReadableSoFar, Reading, Writing, Returning
<1>5. Held
  BY OwnIs DEF Init, Held, Writing, Closing, LeftOpen
<1>. QED
  BY <1>3, <1>4, <1>5 DEF Init, Inv, Stacked, Writing

(* An object of the input in hand is allocated.                            *)
LEMMA AllocateInput ==
  ASSUME Inv, NEW m \in Members, Allocate(Of(c, {m})), ~Closing, ~Closing',
         out' = out, c' = c, pc' # "return", Writing' => Writing
  PROVE  Held' /\ ptr' \subseteq Objects /\ live' \subseteq Objects
<1>1. filec \in Nat \ {0} /\ c \in 1..filec
  BY InputsType DEF Inv, TypeOK
<1>2. ptr' = ptr \cup {<<c, m>>} /\ live' = live \cup {<<c, m>>}
  BY OfIs DEF Allocate
<1>3. <<c, m>> \in Objects /\ <<c, m>> \notin Output
  BY <1>1, ObjectsOf
<1>4. ptr' = live' /\ ptr' \cap Output = LeftOpen'
  BY <1>2, <1>3 DEF Inv, Held, LeftOpen
<1>5. ptr' \subseteq Objects /\ live' \subseteq Objects
  BY <1>2, <1>3 DEF Inv, TypeOK
<1>6. Writing' => \A x \in ptr' : x[1] = 0 \/ x[1] >= c'
  BY <1>1, <1>2 DEF Inv, Held
<1>. QED
  BY <1>4, <1>5, <1>6 DEF Held

LEMMA StepInv == Inv /\ [Next]_vars => Inv'
<1>. SUFFICES ASSUME Inv, [Next]_vars PROVE Inv'
  OBVIOUS
<1>. TypeOK /\ ReadableSoFar /\ Held /\ Stacked
  BY DEF Inv
<1>. filec \in Nat \ {0} /\ c \in 1..filec
  BY InputsType DEF TypeOK
<1>. ptr \subseteq Objects /\ live \subseteq Objects
  BY DEF TypeOK
<1>. out \in {"none", "open"} /\ full \in BOOLEAN
  BY DEF TypeOK
<1>0. inputs' = inputs /\ opt' = opt /\ filec' = filec
  <2>1. inputs' = inputs /\ opt' = opt
    BY DEF Next, Step, OpenInput, InputMissing, RejectInput, CreateReader, ReadInfo,
           RejectInfo, SizeRaw, StoreRaw, Store, RejectRaw, ReadRows, LibpngAborts,
           NameOut, OpenOut, OutNotOpened, Refuse, WriteDir,
           WriteEntry, WriteRaw, WriteHeader, WritePalette, PackPixels, WritePixels,
           PixelsWritten, WriteMask, WriteFails, ReleaseImage, ReleaseTo, Succeed,
           DiskFills, Returned, Fail, vars, callVars
  <2>. QED
    BY <2>1 DEF filec
<1>. USE <1>0
<1>. USE DEF callVars, heapVars, outVars, diskVars
<1>1. CASE OpenInput
  <2>0. "in" \in Members
    BY DEF Members
  <2>1. Held' /\ ptr' \subseteq Objects /\ live' \subseteq Objects
    BY <1>1, <2>0, AllocateInput DEF OpenInput, Closing, Writing
  <2>. USE <1>1 DEF OpenInput
  <2>2. TypeOK'
    BY <2>1, TypeKept
  <2>3. ReadableSoFar'
    BY DEF ReadableSoFar, Reading, Writing, Returning, input
  <2>4. Stacked'
    BY DEF Stacked, Writing, set_message_header
  <2>. QED
    BY <2>1, <2>2, <2>3, <2>4 DEF Inv
<1>2. CASE InputMissing
  BY <1>2, FailInv, RestoreSet DEF InputMissing, Stacked, Closing
<1>3. CASE RejectInput \/ RejectInfo \/ RejectRaw
  BY <1>3, FailInv, RestoreOne
     DEF RejectInput, RejectInfo, RejectRaw, BadSignature, Stacked, Closing
<1>4. CASE CreateReader
  <2>0. "png_ptr" \in Members
    BY DEF Members
  <2>1. Held' /\ ptr' \subseteq Objects /\ live' \subseteq Objects
    BY <1>4, <2>0, AllocateInput DEF CreateReader, Closing, Writing
  <2>. USE <1>4 DEF CreateReader
  <2>2. TypeOK'
    BY <2>1, TypeKept
  <2>3. ReadableSoFar'
    BY DEF ReadableSoFar, Reading, Writing, Returning, input
  <2>4. Stacked'
    BY DEF Stacked, Writing
  <2>. QED
    BY <2>1, <2>2, <2>3, <2>4 DEF Inv
<1>5. CASE ReadInfo
  <2>. USE <1>5 DEF ReadInfo
  <2>1. TypeOK'
    BY TypeKept
  <2>2. input.fault \in InputFaults /\ input.raw \in BOOLEAN
    BY InputsType DEF Input
  <2>3. input.fault \in {"none", "reread", "rows", "end"}
    BY <2>2 DEF ReadableSoFar, InputFaults
  <2>4. /\ input.raw => ~Unreadable(input) \/ input.fault = "reread"
        /\ ~input.raw => ~Unreadable(input) \/ input.fault = "rows"
    BY <2>3 DEF Unreadable
  <2>5. ReadableSoFar'
    BY <2>2, <2>4 DEF ReadableSoFar, Reading, Writing, Returning, input
  <2>6. Held' /\ Stacked'
    BY DEF Held, Stacked, Writing, Closing, LeftOpen
  <2>. QED
    BY <2>1, <2>5, <2>6 DEF Inv
<1>6. CASE SizeRaw
  <2>. USE <1>6 DEF SizeRaw
  <2>1. /\ <<c, "image_data">> \in Objects /\ <<c, "image_data">> \notin Output
        /\ <<c, "png_ptr">> \notin Output
    BY ObjectsOf DEF Members
  <2>2. /\ ptr' = (ptr \ {<<c, "png_ptr">>}) \cup {<<c, "image_data">>}
        /\ live' = (live \ {<<c, "png_ptr">>}) \cup {<<c, "image_data">>}
    BY OfIs
  <2>3. ptr' = live' /\ ptr' \subseteq Objects /\ ptr' \cap Output = LeftOpen
    BY <2>1, <2>2 DEF Held, Closing
  <2>4. TypeOK'
    BY <2>3, TypeKept
  <2>5. Held' /\ Stacked'
    BY <2>3 DEF Held, Stacked, Writing, Closing, LeftOpen
  <2>6. ReadableSoFar'
    BY DEF ReadableSoFar, Reading, Writing, Returning, input
  <2>. QED
    BY <2>4, <2>5, <2>6 DEF Inv
<1>7. CASE StoreRaw \/ ReadRows
  <2>1. /\ pc \in {"reread", "rows"} /\ NextInput
        /\ UNCHANGED <<inputs, opt, out, file, dib_start, full, saved>>
        /\ headers' = restore_message_header(headers)
    BY <1>7 DEF StoreRaw, Store, ReadRows
  <2>2. \A k \in 1..c : ~Unreadable(inputs[k])
    <3>1. ~Unreadable(input)
      BY <1>7 DEF StoreRaw, Store, ReadRows, ReadableSoFar
    <3>2. \A k \in 1..c : k = c \/ k \in 1..(c - 1)
      OBVIOUS
    <3>3. \A k \in 1..(c - 1) : ~Unreadable(inputs[k])
      BY <2>1 DEF ReadableSoFar, Reading
    <3>. QED
      BY <3>1, <3>2, <3>3 DEF input
  <2>3. headers' = <<>> /\ out = "none"
    BY <2>1, RestoreOne DEF Stacked, ReadableSoFar, Reading
  <2>4. ptr' = live' /\ ptr' \subseteq Objects /\ ptr' \cap Output = {}
    <3>1. /\ <<c, "row_datas">> \in Objects /\ <<c, "palette">> \in Objects
          /\ <<c, "row_datas">> \notin Output /\ <<c, "palette">> \notin Output
      BY ObjectsOf DEF Members
    <3>2. ptr = live /\ ptr \cap Output = {}
      BY <2>1, <2>3 DEF Held, Closing, LeftOpen
    <3>3. CASE ReadRows
      <4>1. /\ ptr' = ptr \cup {<<c, "row_datas">>, <<c, "palette">>}
            /\ live' = live \cup {<<c, "row_datas">>, <<c, "palette">>}
        BY <3>3, OfIs DEF ReadRows, Allocate
      <4>. QED
        BY <3>1, <3>2, <4>1
    <3>. QED
      BY <1>7, <3>2, <3>3 DEF StoreRaw, Store
  <2>5. CASE c < filec
    <3>0. c' = c + 1 /\ pc' = "open"
      BY <2>1, <2>5 DEF NextInput
    <3>. c + 1 \in 1..filec
      BY <2>5
    <3>1. c' = c + 1 /\ pc' = "open" /\ c' \in 1..filec
      BY <3>0
    <3>5. \A k \in 1..(c' - 1) : k \in 1..c
      BY <3>1
    <3>2. TypeOK'
      BY <2>1, <2>4, <3>1, TypeKept
    <3>3. ReadableSoFar'
      BY <2>1, <2>2, <2>3, <3>1, <3>5 DEF ReadableSoFar, Reading, Writing, Returning
    <3>4. Held' /\ Stacked'
      BY <2>1, <2>3, <2>4, <3>1 DEF Held, Stacked, Writing, Closing, LeftOpen
    <3>. QED
      BY <3>2, <3>3, <3>4 DEF Inv
  <2>6. CASE ~(c < filec)
    <3>0. c' = 1 /\ pc' = "outfile"
      BY <2>1, <2>6 DEF NextInput
    <3>. 1 \in 1..filec
      OBVIOUS
    <3>1. c' = 1 /\ pc' = "outfile" /\ c' \in 1..filec
      BY <3>0
    <3>5. \A k \in 1..filec : k \in 1..c
      BY <2>6
    <3>2. TypeOK'
      BY <2>1, <2>4, <3>1, TypeKept
    <3>3. ReadableSoFar'
      BY <2>1, <2>2, <2>3, <3>1, <3>5 DEF ReadableSoFar, Reading, Writing, Returning
    <3>4. Held' /\ Stacked'
      BY <2>1, <2>3, <2>4, <3>1 DEF Held, Stacked, Writing, Closing, LeftOpen
    <3>. QED
      BY <3>2, <3>3, <3>4 DEF Inv
  <2>. QED
    BY <2>5, <2>6
<1>8. CASE LibpngAborts
  <2>1. /\ pc' = "aborted" /\ ~Closing /\ pc \in {"info", "rows", "release"}
        /\ UNCHANGED <<inputs, opt, c, ptr, live, out, full, saved, headers>>
    BY <1>8 DEF LibpngAborts, Closing
  <2>2. TypeOK'
    BY <2>1, TypeKept
  <2>3. ReadableSoFar' /\ Held' /\ Stacked'
    BY <2>1 DEF ReadableSoFar, Held, Stacked, Reading, Writing, Returning, Closing,
                LeftOpen
  <2>. QED
    BY <2>2, <2>3 DEF Inv
<1>9. CASE NameOut \/ OpenOut
  <2>1. PICK m \in {"outname", "out"} :
          /\ ptr' = ptr \cup {<<0, m>>} /\ live' = live \cup {<<0, m>>}
          /\ m = "out" <=> OpenOut
    <3>1. /\ NameOut => pc = "outfile" /\ Allocate({<<0, "outname">>})
          /\ OpenOut => pc = "create" /\ Allocate({<<0, "out">>})
      BY OfIs DEF NameOut, OpenOut, Output
    <3>. QED
      BY <1>9, <3>1 DEF Allocate
  <2>2. /\ UNCHANGED <<inputs, opt, c, full, saved>>
        /\ pc \in {"outfile", "create"} /\ pc' \in {"create", "dir"}
        /\ NameOut => out' = out /\ pc' = "create" /\ headers' = headers
        /\ OpenOut => out' = "open" /\ pc' = "dir" /\ headers' = <<"output">>
        /\ out = "none" /\ headers = <<>>
    <3>1. headers = <<>> /\ out = "none"
      BY <1>9 DEF NameOut, OpenOut, Stacked, ReadableSoFar
    <3>2. OutHeader = <<"output">>
      BY <3>1 DEF OutHeader, set_message_header, restore_message_header
    <3>3. NameOut => /\ UNCHANGED <<inputs, opt, c, full, saved>>
                     /\ pc = "outfile" /\ pc' = "create"
                     /\ out' = out /\ headers' = headers
      BY DEF NameOut
    <3>4. OpenOut => /\ UNCHANGED <<inputs, opt, c, full, saved>>
                     /\ pc = "create" /\ pc' = "dir"
                     /\ out' = "open" /\ headers' = <<"output">>
      BY <3>2 DEF OpenOut
    <3>. HIDE DEF OutHeader
    <3>. QED
      BY <1>9, <3>1, <3>3, <3>4
  <2>3. ptr' = live' /\ ptr' \subseteq Objects /\ ptr' \cap Output = LeftOpen'
    <3>1. ptr = live /\ ptr \cap Output = {}
      BY <2>2 DEF Held, Closing, LeftOpen
    <3>2. <<0, m>> \in Objects /\ (<<0, m>> \in Output <=> m = "out")
      BY OwnIs DEF Objects
    <3>. QED
      BY <1>9, <2>1, <2>2, <3>1, <3>2, OwnIs DEF LeftOpen
  <2>4. TypeOK'
    BY <1>9, <2>2, <2>3, TypeKept
  <2>5. ReadableSoFar' /\ Stacked'
    BY <1>9, <2>2 DEF ReadableSoFar, Stacked, Reading, Writing, Returning
  <2>6. Held'
    BY <2>2, <2>3 DEF Held, Writing, Closing
  <2>. QED
    BY <2>4, <2>5, <2>6 DEF Inv
<1>10. CASE OutNotOpened
  <2>1. restore_message_header(<<>>) = <<>>
    BY DEF restore_message_header
  <2>. QED
    BY <1>10, <2>1, FailInv, RestoreSet DEF OutNotOpened, OutHeader, Stacked, Closing
<1>11. CASE Refuse
  <2>1. /\ pc' = "died" /\ pc = "outfile"
        /\ UNCHANGED <<inputs, opt, c, ptr, live, out, full, saved, headers>>
    BY <1>11 DEF Refuse
  <2>2. TypeOK'
    BY <2>1, TypeKept
  <2>3. ReadableSoFar' /\ Held' /\ Stacked'
    BY <2>1 DEF ReadableSoFar, Held, Stacked, Reading, Writing, Returning, Closing,
                LeftOpen
  <2>. QED
    BY <2>2, <2>3 DEF Inv
<1>12. CASE DiskFills
  <2>1. UNCHANGED <<inputs, opt, pc, c, ptr, live, out, headers>> /\ full' \in BOOLEAN
    BY <1>12 DEF DiskFills
  <2>2. TypeOK'
    BY <2>1 DEF TypeOK, Objects
  <2>3. ReadableSoFar' /\ Held' /\ Stacked'
    BY <2>1 DEF ReadableSoFar, Held, Stacked, Reading, Writing, Returning, Closing,
                LeftOpen, input
  <2>. QED
    BY <2>2, <2>3 DEF Inv
<1>13. CASE WriteDir \/ WriteEntry
  <2>1. /\ UNCHANGED <<inputs, opt, ptr, live, out, full, saved, headers>>
        /\ pc \in {"dir", "entries"} /\ pc' \in {"entries", "image"}
        /\ c' \in {c, c + 1, 1} /\ c' <= filec
        /\ pc' = "image" => c' = 1
    BY <1>13 DEF WriteDir, WriteEntry
  <2>2. c' \in 1..filec
    BY <2>1
  <2>3. TypeOK'
    BY <2>1, <2>2, TypeKept
  <2>4. Held'
    BY <2>1, OwnersAreInputs DEF Held, Writing, Closing, LeftOpen
  <2>5. Stacked' /\ ReadableSoFar'
    BY <2>1 DEF ReadableSoFar, Stacked, Reading, Writing, Returning
  <2>. QED
    BY <2>3, <2>4, <2>5 DEF Inv
<1>14. CASE WriteRaw \/ WriteHeader \/ WritePalette \/ WritePixels \/ WriteMask
  <2>1. /\ UNCHANGED <<inputs, opt, c, ptr, live, out, full, saved, headers>>
        /\ Writing /\ Writing'
    BY <1>14 DEF WriteRaw, WriteHeader, WritePalette, WritePixels, PixelsWritten,
                 WriteMask, Writing
  <2>2. TypeOK'
    BY <2>1, TypeKept DEF Writing
  <2>3. ReadableSoFar' /\ Held' /\ Stacked'
    BY <2>1 DEF ReadableSoFar, Held, Stacked, Reading, Writing, Returning, Closing,
                LeftOpen
  <2>. QED
    BY <2>2, <2>3 DEF Inv
<1>15. CASE PackPixels
  <2>0. "image_data" \in Members
    BY DEF Members
  <2>1. Held' /\ ptr' \subseteq Objects /\ live' \subseteq Objects
    BY <1>15, <2>0, AllocateInput DEF PackPixels, Closing, Writing
  <2>2. UNCHANGED <<inputs, opt, c, out, full, saved, headers>>
        /\ pc = "pixels" /\ pc' = "packed"
    BY <1>15 DEF PackPixels
  <2>3. TypeOK'
    BY <2>1, <2>2, TypeKept
  <2>. QED
    BY <2>1, <2>2, <2>3 DEF Inv, ReadableSoFar, Stacked, Reading, Writing, Returning
<1>16. CASE WriteFails
  BY <1>16, FailInv, RestoreOne DEF WriteFails, Stacked, Writing, Closing
<1>17. CASE ReleaseImage
  <2>1. /\ UNCHANGED <<inputs, opt, out, full, saved, headers>>
        /\ pc = "release"
        /\ ptr' = {x \in ptr : x[1] # c} /\ live' = live \ {x \in ptr : x[1] = c}
        /\ IF c < filec THEN c' = c + 1 /\ pc' = "image" ELSE pc' = "return" /\ c' = c
    BY <1>17 DEF ReleaseImage, ReleaseTo
  <2>2. TypeOK'
    <3>1. c' \in 1..filec
      BY <2>1
    <3>. QED
      BY <2>1, <3>1, TypeKept
  <2>3. \A x \in ptr : x[1] = 0 \/ (x[1] \in 1..filec /\ x[1] >= c)
    BY <2>1, OwnersAreInputs DEF Held, Writing
  <2>4. Held'
    <3>1. ptr' = live' /\ ptr' \cap Output = LeftOpen
      <4>1. \A x \in Output : x[1] = 0 /\ 0 # c
        BY OwnIs
      <4>. QED
        BY <2>1, <4>1 DEF Held, Closing
    <3>2. \A x \in ptr' : x[1] = 0 \/ x[1] >= c + 1
      BY <2>1, <2>3
    <3>3. c = filec => \A x \in ptr' : x[1] = 0
      BY <2>1, <2>3
    <3>. QED
      BY <2>1, <3>1, <3>2, <3>3 DEF Held, Writing, Closing, LeftOpen
  <2>5. ReadableSoFar' /\ Stacked'
    BY <2>1 DEF ReadableSoFar, Stacked, Reading, Writing, Returning
  <2>. QED
    BY <2>2, <2>4, <2>5 DEF Inv
<1>18. CASE Succeed
  <2>1. /\ UNCHANGED <<inputs, opt, c, out, full, saved, headers>>
        /\ pc = "return" /\ pc' = "done"
        /\ ptr' = {} /\ live' = live \ {<<0, "outname">>, <<0, "img">>}
    BY <1>18, OfIs DEF Succeed
  <2>2. TypeOK'
    BY <2>1, TypeKept
  <2>3. live' = LeftOpen
    <3>1. ptr = live /\ ptr \cap Output = LeftOpen /\ \A x \in ptr : x[1] = 0
      BY <2>1 DEF Held, Closing
    <3>2. \A x \in ptr : x \in {<<0, "img">>, <<0, "outname">>, <<0, "out">>}
      BY <3>1, OwnIs DEF Objects
    <3>. QED
      BY <2>1, <3>1, <3>2, OwnIs
  <2>4. Held' /\ ReadableSoFar' /\ Stacked'
    BY <2>1, <2>3 DEF Held, ReadableSoFar, Stacked, Reading, Writing, Returning,
                      Closing, LeftOpen
  <2>. QED
    BY <2>2, <2>4 DEF Inv
<1>19. CASE UNCHANGED vars
  <2>1. UNCHANGED <<inputs, opt, pc, c, ptr, live, out, full, saved, headers>>
    BY <1>19 DEF vars
  <2>2. TypeOK'
    BY <2>1 DEF TypeOK, Objects
  <2>3. ReadableSoFar' /\ Held' /\ Stacked'
    BY <2>1 DEF ReadableSoFar, Held, Stacked, Reading, Writing, Returning, Closing,
                LeftOpen, input
  <2>. QED
    BY <2>2, <2>3 DEF Inv
<1>. QED
  BY <1>1, <1>2, <1>3, <1>4, <1>5, <1>6, <1>7, <1>8, <1>9, <1>10, <1>11, <1>12,
     <1>13, <1>14, <1>15, <1>16, <1>17, <1>18, <1>19 DEF Next, Step, Returned

LEMMA Invariant == Spec => []Inv
BY InitInv, StepInv, PTL DEF Spec

-----------------------------------------------------------------------------
(* create_icon()'s variables keep their types.                             *)
THEOREM CreateTypeCorrect == Spec => []TypeOK
<1>1. Inv => TypeOK
  BY DEF Inv
<1>. QED
  BY <1>1, Invariant, PTL

(* create_icon() has no pointer to what is gone, and frees on each way out *)
(* everything but the FILE of its output, which it leaves open.            *)
THEOREM EverythingReleased == Spec => []NothingLeaksOrDangles
<1>1. Inv => NothingLeaksOrDangles
  BY DEF Inv, Held, Closing, LeftOpen, NothingLeaksOrDangles
<1>. QED
  BY <1>1, Invariant, PTL

(* An input that create_icon() cannot read, wherever it stands among the   *)
(* others, leaves the output as it was.                                    *)
THEOREM OutputUntouched == Spec => []UntouchedIfUnreadable
<1>1. Inv => UntouchedIfUnreadable
  BY DEF Inv, TypeOK, ReadableSoFar, Returning, UntouchedIfUnreadable
<1>. QED
  BY <1>1, Invariant, PTL

(* A create_icon() that returns false has restored the message headers.    *)
THEOREM CreateHeadersRestored == Spec => []HeadersBalanced
<1>1. Inv => HeadersBalanced
  BY DEF Inv, Stacked, HeadersBalanced
<1>. QED
  BY <1>1, Invariant, PTL

-----------------------------------------------------------------------------
(* The layout of the file.                                                 *)

(* What is known of an input once it has been read.                        *)
Kept(k) ==
  IF inputs[k].raw THEN SizedRaw(inputs[k]) ELSE Sized(inputs[k], opt.bit_count)

Measured ==
  /\ pc \in {"outfile", "create", "dir"} => c = 1
  /\ DOMAIN img = 1..filec
  /\ \A k \in 1..filec :
       \/ Reading /\ k < c
       \/ pc = "reread" /\ k = c
       \/ pc \in {"outfile", "create", "dir", "entries"}
       \/ Writing /\ k >= c
       => img[k] = Kept(k)

Laying == pc = "entries" \/ Writing \/ Returning

EntryRecord == [dib_offset: Nat, dib_size: Nat, hotspot_x: Nat, hotspot_y: Nat]

FileType ==
  /\ file = [type |-> file.type, dir |-> file.dir, image |-> file.image,
             len |-> file.len]
  /\ file.dir \in Seq(EntryRecord)
  /\ file.len \in Nat
  /\ dib_start \in Nat
  /\ pc \in {"dir", "entries"} => file.image = <<>>
  /\ Reading \/ pc \in {"outfile", "create", "dir"} =>
       file.dir = <<>> /\ file.image = <<>>

(* The entries so far follow each other without gaps.                      *)
FirstImage == SizeofFileDir + filec * SizeofFileDirEntry
Entered == IF pc = "entries" THEN c - 1 ELSE filec
At(k) == file.dir[k].dib_offset
EndOf(k) == At(k) + dib_size(Kept(k))

Laid ==
  Laying =>
    /\ file.type = opt.type
    /\ Len(file.dir) = Entered
    /\ \A k \in 1..Entered : file.dir[k].dib_size = dib_size(Kept(k))
    /\ Entered > 0 => At(1) = FirstImage
    /\ \A k \in 1..Entered : k > 1 => At(k) = EndOf(k - 1)
    /\ \A j, k \in 1..Entered : j < k => EndOf(j) <= At(k)
    /\ dib_start = IF Entered = 0 THEN FirstImage ELSE EndOf(Entered)
    /\ pc = "entries" =>
         file.len = SizeofFileDir + (c - 1) * SizeofFileDirEntry

(* Where the next byte goes.                                               *)
MaskOf(k) == IF inputs[k].raw THEN 0 ELSE Kept(k).mask_size

Located ==
  /\ pc = "image" => file.len = At(c)
  /\ pc \in {"palette", "pixels", "packed", "mask"} => ~input.raw
  /\ pc = "palette" => Kept(c).bit_count <= 16
  /\ pc = "palette" => file.len = At(c) + SizeofBitmapInfoHeader
  /\ pc \in {"pixels", "packed"} =>
       file.len = At(c) + SizeofBitmapInfoHeader
                    + Kept(c).palette_count * SizeofRGBQuad
  /\ pc = "mask" => file.len = EndOf(c) - MaskOf(c)
  /\ pc = "release" => file.len = EndOf(c)
  /\ Returning => file.len = EndOf(filec)

(* The headers written, of the image being written as well.                *)
HeaderMade(k) ==
  LET i == Kept(k) IN
  IF inputs[k].raw
  THEN [magic |-> "png", size |-> inputs[k].length, width |-> i.width,
        height |-> i.height, bits |-> i.bit_count, clr_used |-> 0,
        compressed |-> FALSE, clean |-> inputs[k].fault = "none"]
  ELSE [magic |-> "dib", size |-> SizeofBitmapInfoHeader, width |-> i.width,
        height |-> i.height * 2, bits |-> i.bit_count,
        clr_used |-> i.palette_count, compressed |-> FALSE,
        clean |-> i.bit_count > 16 \/ counted(inputs[k]) <= i.palette_count]

Begun == IF pc = "image" THEN c - 1 ELSE IF Returning THEN filec ELSE c

Headed ==
  Writing \/ Returning =>
    /\ DOMAIN file.image = {At(k) : k \in 1..Begun}
    /\ \A k \in 1..Begun : file.image[At(k)] = HeaderMade(k)

LayoutInv == Measured /\ FileType /\ Laid /\ Located /\ Headed

-----------------------------------------------------------------------------
(* Sizes.                                                                  *)

LEMMA SmallPowers ==
  ASSUME NEW b \in 0..23
  PROVE  /\ 2 ^ b \in Nat \ {0}
         /\ b >= 1 => 2 ^ b >= 2
         /\ b >= 4 => 2 ^ b >= 16
         /\ b >= 8 => 2 ^ b >= 256
<1>0. CASE b = 0
  BY <1>0
<1>1. CASE b = 1
  BY <1>1
<1>2. CASE b = 2
  BY <1>2
<1>3. CASE b = 3
  BY <1>3
<1>4. CASE b = 4
  BY <1>4
<1>5. CASE b = 5
  BY <1>5
<1>6. CASE b = 6
  BY <1>6
<1>7. CASE b = 7
  BY <1>7
<1>8. CASE b = 8
  BY <1>8
<1>9. CASE b = 9
  BY <1>9
<1>10. CASE b = 10
  BY <1>10
<1>11. CASE b = 11
  BY <1>11
<1>12. CASE b = 12
  BY <1>12
<1>13. CASE b = 13
  BY <1>13
<1>14. CASE b = 14
  BY <1>14
<1>15. CASE b = 15
  BY <1>15
<1>16. CASE b = 16
  BY <1>16
<1>17. CASE b = 17
  BY <1>17
<1>18. CASE b = 18
  BY <1>18
<1>19. CASE b = 19
  BY <1>19
<1>20. CASE b = 20
  BY <1>20
<1>21. CASE b = 21
  BY <1>21
<1>22. CASE b = 22
  BY <1>22
<1>23. CASE b = 23
  BY <1>23
<1>. QED
  BY <1>0, <1>1, <1>2, <1>3, <1>4, <1>5, <1>6, <1>7, <1>8, <1>9, <1>10, <1>11,
     <1>12, <1>13, <1>14, <1>15, <1>16, <1>17, <1>18, <1>19, <1>20, <1>21, <1>22, <1>23

LEMMA PaletteDepth ==
  ASSUME NEW n \in 1..256
  PROVE  palette_depth(n) \in {1, 4, 8} /\ n <= 2 ^ palette_depth(n)
<1>. DEFINE P(d) == n <= 2 ^ d /\ \A b \in {1, 4, 8} : n <= 2 ^ b => d <= b
<1>1. 2 ^ 1 = 2 /\ 2 ^ 4 = 16 /\ 2 ^ 8 = 256
  OBVIOUS
<1>2. \E d \in {1, 4, 8} : P(d)
  <2>1. CASE n <= 2
    BY <1>1, <2>1
  <2>2. CASE n > 2 /\ n <= 16
    BY <1>1, <2>2
  <2>3. CASE n > 16
    BY <1>1, <2>3
  <2>. QED
    BY <2>1, <2>2, <2>3
<1>3. palette_depth(n) \in {1, 4, 8} /\ P(palette_depth(n))
  BY <1>2 DEF palette_depth
<1>. QED
  BY <1>3

(* The bits of a pixel are enough for its colours, unless it has no table. *)
LEMMA EnoughBits ==
  ASSUME NEW i \in Input, NEW m \in Nat \cup {Unset}
  PROVE  /\ counted(i) \in 1..257
         /\ bit_count(i, m) \in Nat \ {0}
         /\ bit_count(i, m) < 24 => /\ ~need_transparency(i)
                                    /\ i.colors <= 256
                                    /\ counted(i) = i.colors
                                    /\ counted(i) <= 2 ^ bit_count(i, m)
<1>1. i.colors \in Nat \ {0} /\ counted(i) \in 1..257
      /\ (counted(i) <= 256 => counted(i) = i.colors)
  BY DEF Input, counted, Least
<1>2. bit_count(i, m) = Greatest(depth(i, m), m) /\ (m = -1 \/ m \in Nat)
  BY DEF bit_count, Unset
<1>3. CASE need_transparency(i) \/ counted(i) > 256
  <2>1. depth(i, m) \in {24, 32}
    BY <1>1, <1>3 DEF depth
  <2>. QED
    BY <1>1, <1>2, <2>1 DEF Greatest
<1>4. CASE ~need_transparency(i) /\ counted(i) <= 256
  <2>1. depth(i, m) = palette_depth(counted(i))
    BY <1>1, <1>4 DEF depth
  <2>2. depth(i, m) \in {1, 4, 8} /\ counted(i) <= 2 ^ depth(i, m)
    BY <1>1, <1>4, <2>1, PaletteDepth
  <2>3. bit_count(i, m) \in Nat /\ bit_count(i, m) >= depth(i, m)
    BY <1>2, <2>2 DEF Greatest
  <2>4. bit_count(i, m) < 24 => counted(i) <= 2 ^ bit_count(i, m)
    <3>1. 2 ^ 1 = 2 /\ 2 ^ 4 = 16 /\ 2 ^ 8 = 256
      OBVIOUS
    <3>2. CASE bit_count(i, m) < 24
      <4>1. bit_count(i, m) \in 0..23
        BY <2>3, <3>2
      <4>2. /\ 2 ^ bit_count(i, m) \in Nat
            /\ bit_count(i, m) >= 1 => 2 ^ bit_count(i, m) >= 2
            /\ bit_count(i, m) >= 4 => 2 ^ bit_count(i, m) >= 16
            /\ bit_count(i, m) >= 8 => 2 ^ bit_count(i, m) >= 256
        BY <4>1, SmallPowers
      <4>3. CASE depth(i, m) = 1
        BY <1>1, <2>2, <2>3, <3>1, <4>2, <4>3
      <4>4. CASE depth(i, m) = 4
        BY <1>1, <2>2, <2>3, <3>1, <4>2, <4>4
      <4>5. CASE depth(i, m) = 8
        BY <1>1, <2>2, <2>3, <3>1, <4>2, <4>5
      <4>. QED
        BY <2>2, <4>3, <4>4, <4>5
    <3>. QED
      BY <3>2
  <2>. QED
    BY <1>1, <1>4, <2>2, <2>3, <2>4
<1>. QED
  BY <1>1, <1>3, <1>4

LEMMA RowBytesType ==
  ASSUME NEW n \in Nat \ {0}
  PROVE  ROW_BYTES(n) \in Nat \ {0}
BY DEF ROW_BYTES

LEMMA ProductPositive ==
  ASSUME NEW a \in Nat \ {0}, NEW b \in Nat \ {0}
  PROVE  a * b \in Nat \ {0}
OBVIOUS

(* What is kept of an input, and that its parts sum up to its size.        *)
LEMMA KeptType ==
  ASSUME TypeOK, NEW k \in 1..filec
  PROVE  /\ inputs[k] \in Input
         /\ Kept(k).raw = inputs[k].raw
         /\ Kept(k).width = inputs[k].width /\ Kept(k).height = inputs[k].height
         /\ Kept(k).bit_count \in Nat \ {0}
         /\ Kept(k).palette_count \in Nat
         /\ Kept(k).image_size \in Nat \ {0} /\ Kept(k).mask_size \in Nat
         /\ MaskOf(k) \in Nat
         /\ dib_size(Kept(k)) \in Nat \ {0}
         /\ MaskOf(k) <= dib_size(Kept(k))
         /\ inputs[k].raw => /\ Kept(k).image_size = inputs[k].length
                             /\ dib_size(Kept(k)) = inputs[k].length
         /\ ~inputs[k].raw =>
              /\ Kept(k).bit_count = bit_count(inputs[k], opt.bit_count)
              /\ Kept(k).palette_count =
                   IF Kept(k).bit_count > 16 THEN 0 ELSE 2 ^ Kept(k).bit_count
              /\ Kept(k).image_size =
                   inputs[k].height * ROW_BYTES(inputs[k].width * Kept(k).bit_count)
              /\ Kept(k).mask_size = inputs[k].height * ROW_BYTES(inputs[k].width * 1)
              /\ dib_size(Kept(k)) =
                   Kept(k).palette_count * 4 + 40 + Kept(k).image_size + Kept(k).mask_size
<1>1. inputs[k] \in Input /\ opt.bit_count \in Nat \cup {Unset}
  BY InputsType, OptionsAssumption DEF TypeOK
<1>. DEFINE i == inputs[k]
<1>2. /\ i.raw \in BOOLEAN /\ i.width \in Nat \ {0} /\ i.height \in Nat \ {0}
      /\ i.length \in Nat \ {0}
  BY <1>1 DEF Input
<1>. HIDE DEF i
<1>3. CASE i.raw
  <2>1. Kept(k) = SizedRaw(i)
    BY <1>3 DEF Kept, i
  <2>2. /\ SizedRaw(i).raw = TRUE /\ SizedRaw(i).width = i.width
        /\ SizedRaw(i).height = i.height /\ SizedRaw(i).bit_count = 32
        /\ SizedRaw(i).image_size = i.length /\ SizedRaw(i).palette_count = 0
        /\ SizedRaw(i).mask_size = 0
    BY DEF SizedRaw, Zeroed
  <2>3. MaskOf(k) = 0 /\ dib_size(Kept(k)) = i.length
    BY <1>3, <2>1, <2>2 DEF dib_size, MaskOf, i
  <2>4. /\ Kept(k).raw = TRUE /\ Kept(k).width = i.width
        /\ Kept(k).height = i.height /\ Kept(k).bit_count = 32
        /\ Kept(k).image_size = i.length /\ Kept(k).palette_count = 0
        /\ Kept(k).mask_size = 0
    BY <2>1, <2>2
  <2>5. i.raw = TRUE
    BY <1>2, <1>3
  <2>6. dib_size(Kept(k)) \in Nat \ {0} /\ MaskOf(k) \in Nat /\ MaskOf(k) <= dib_size(Kept(k))
    BY <1>2, <2>3
  <2>7. Kept(k).raw = i.raw
    BY <2>4, <2>5
  <2>. HIDE DEF Kept
  <2>. QED
    BY <1>1, <1>2, <2>3, <2>4, <2>5, <2>6, <2>7 DEF i
<1>4. CASE ~i.raw
  <2>. DEFINE b == bit_count(i, opt.bit_count)
  <2>0. b \in Nat \ {0}
    BY <1>1, EnoughBits DEF i
  <2>1. Kept(k) = Sized(i, opt.bit_count)
    BY <1>4 DEF Kept, i
  <2>2. /\ Kept(k).raw = FALSE /\ Kept(k).width = i.width /\ Kept(k).height = i.height
        /\ Kept(k).bit_count = b
        /\ Kept(k).palette_count = (IF b > 16 THEN 0 ELSE 2 ^ b)
        /\ Kept(k).image_size = i.height * ROW_BYTES(i.width * b)
        /\ Kept(k).mask_size = i.height * ROW_BYTES(i.width * 1)
    BY <2>1 DEF Sized, size_of
  <2>. HIDE DEF b
  <2>3. Kept(k).palette_count \in Nat
    <3>1. b <= 16 => b \in 0..23
      BY <2>0
    <3>2. b <= 16 => 2 ^ b \in Nat
      BY <3>1, SmallPowers
    <3>. QED
      BY <2>0, <2>2, <3>2
  <2>4. i.width * b \in Nat \ {0} /\ i.width * 1 \in Nat \ {0}
    BY <1>2, <2>0, ProductPositive
  <2>5. ROW_BYTES(i.width * b) \in Nat \ {0} /\ ROW_BYTES(i.width * 1) \in Nat \ {0}
    BY <2>4, RowBytesType
  <2>6. Kept(k).image_size \in Nat \ {0} /\ Kept(k).mask_size \in Nat \ {0}
    BY <1>2, <2>2, <2>5, ProductPositive
  <2>7. dib_size(Kept(k)) =
          Kept(k).palette_count * 4 + 40 + Kept(k).image_size + Kept(k).mask_size
    BY <2>2 DEF dib_size, SizeofRGBQuad, SizeofBitmapInfoHeader
  <2>8. MaskOf(k) = Kept(k).mask_size
    BY <1>4 DEF MaskOf, i
  <2>9. dib_size(Kept(k)) \in Nat \ {0} /\ MaskOf(k) <= dib_size(Kept(k))
    BY <2>3, <2>6, <2>7, <2>8
  <2>. QED
    BY <1>1, <1>2, <1>4, <2>0, <2>2, <2>3, <2>6, <2>7, <2>8, <2>9 DEF i, b
<1>. QED
  BY <1>2, <1>3, <1>4

(* The rows of a mask and their padding, one by one, are the mask.         *)
LEMMA MaskFilled ==
  ASSUME NEW i, i.height \in Nat \ {0}, i.width \in Nat,
         i.mask_size = i.height * ROW_BYTES(i.width * 1)
  PROVE  mask_written(i) = i.mask_size
<1>. DEFINE r == ROW_BYTES(i.width * 1)
            o == (i.width + 7) \div 8
<1>1. r \in Nat /\ o \in Nat
  BY DEF ROW_BYTES
<1>. HIDE DEF r
<1>2. (i.height * r) \div i.height = r
  BY <1>1
<1>3. o + (r - o) = r
  BY <1>1
<1>. QED
  BY <1>2, <1>3 DEF mask_written, r

-----------------------------------------------------------------------------
LEMMA LayoutInit == Init => LayoutInv
<1>. SUFFICES ASSUME Init PROVE LayoutInv
  OBVIOUS
<1>1. TypeOK
  BY InitInv DEF Inv
<1>2. Measured /\ Laid /\ Located /\ Headed
  BY DEF Init, Measured, Reading, Writing, Returning, Laid, Laying, Located, Headed, filec
<1>3. FileType
  BY DEF Init, FileType
<1>. QED
  BY <1>2, <1>3 DEF LayoutInv

(* Nothing of the layout depends on what the following leave alone.        *)
LEMMA SameParts ==
  ASSUME inputs' = inputs, opt' = opt
  PROVE  /\ filec' = filec /\ FirstImage' = FirstImage
         /\ \A k : /\ Kept(k)' = Kept(k) /\ MaskOf(k)' = MaskOf(k)
                   /\ dib_size(Kept(k))' = dib_size(Kept(k))
                   /\ HeaderMade(k)' = HeaderMade(k)
         /\ file.dir' = file.dir =>
              \A k : At(k)' = At(k) /\ EndOf(k)' = EndOf(k)
<1>1. filec' = filec /\ FirstImage' = FirstImage
  BY DEF filec, FirstImage
<1>2. \A k : Kept(k)' = Kept(k) /\ MaskOf(k)' = MaskOf(k)
  BY DEF Kept, MaskOf
<1>3. \A k : dib_size(Kept(k))' = dib_size(Kept(k)) /\ HeaderMade(k)' = HeaderMade(k)
  BY <1>2 DEF HeaderMade, dib_size
<1>4. file.dir' = file.dir => \A k : At(k)' = At(k) /\ EndOf(k)' = EndOf(k)
  BY <1>3 DEF At, EndOf
<1>. QED
  BY <1>1, <1>2, <1>3, <1>4

(* The call ends other than by success.                                    *)
LEMMA EndedLayout ==
  ASSUME LayoutInv, inputs' = inputs, opt' = opt,
         UNCHANGED <<img, file, dib_start>>, pc' \in {"failed", "aborted", "died"}
  PROVE  LayoutInv'
<1>1. filec' = filec
  BY DEF filec
<1>2. Measured'
  BY <1>1 DEF LayoutInv, Measured, Reading, Writing
<1>3. FileType'
  BY DEF LayoutInv, FileType, Reading
<1>4. Laid' /\ Located' /\ Headed'
  BY DEF Laid, Laying, Located, Headed, Writing, Returning
<1>. QED
  BY <1>2, <1>3, <1>4 DEF LayoutInv

(* A step that writes nothing, before the output's directory is begun.     *)
LEMMA ReadingLayout ==
  ASSUME LayoutInv, inputs' = inputs, opt' = opt, UNCHANGED <<file, dib_start>>,
         Reading \/ pc \in {"outfile", "create"},
         Reading' \/ pc' \in {"outfile", "create", "dir"},
         Measured'
  PROVE  LayoutInv'
<1>1. FileType'
  BY DEF LayoutInv, FileType, Reading
<1>2. Laid' /\ Located' /\ Headed'
  BY DEF Laid, Laying, Located, Headed, Writing, Returning, Reading
<1>. QED
  BY <1>1, <1>2 DEF LayoutInv

(* Nor on the disk.                                                        *)
LEMMA SameLayout ==
  ASSUME LayoutInv, UNCHANGED <<inputs, opt, pc, c, img, file, dib_start>>
  PROVE  LayoutInv'
<1>1. UNCHANGED <<inputs, opt, pc, c, img, file, dib_start>>
  OBVIOUS
<1>2. /\ filec' = filec /\ FirstImage' = FirstImage /\ Entered' = Entered
      /\ Begun' = Begun /\ input' = input
      /\ \A k : /\ Kept(k)' = Kept(k) /\ MaskOf(k)' = MaskOf(k)
                /\ dib_size(Kept(k))' = dib_size(Kept(k))
                /\ HeaderMade(k)' = HeaderMade(k)
                /\ At(k)' = At(k) /\ EndOf(k)' = EndOf(k)
  BY <1>1, SameParts DEF Entered, Begun, Returning, filec, input
<1>. Measured /\ FileType /\ Laid /\ Located /\ Headed
  BY DEF LayoutInv
<1>3. Measured' /\ FileType'
  BY <1>1, <1>2 DEF Measured, FileType, Reading, Writing
<1>4. Laid'
  BY <1>1, <1>2 DEF Laid, Laying, Writing, Returning
<1>5. Located'
  BY <1>1, <1>2 DEF Located, Returning
<1>6. Headed'
  BY <1>1, <1>2 DEF Headed, Writing, Returning
<1>. QED
  BY <1>3, <1>4, <1>5, <1>6 DEF LayoutInv

LEMMA ReadLayout ==
  ASSUME Inv, LayoutInv, StoreRaw \/ ReadRows
  PROVE  LayoutInv'
<1>. USE DEF callVars, heapVars, outVars
<1>2. filec \in Nat \ {0} /\ c \in 1..filec
  BY InputsType DEF Inv, TypeOK
<1>1. /\ pc \in {"reread", "rows"} /\ NextInput
      /\ UNCHANGED <<inputs, opt, out, file, dib_start>>
      /\ DOMAIN img' = 1..filec /\ img'[c] = Kept(c)
      /\ \A k \in 1..filec : k # c => img'[k] = img[k]
  <2>1. CASE StoreRaw
    <3>1. pc = "reread" /\ img' = img
      BY <2>1 DEF StoreRaw, Store
    <3>. QED
      BY <1>2, <2>1, <3>1 DEF StoreRaw, Store, LayoutInv, Measured
  <2>2. CASE ReadRows
    <3>1. img' = [img EXCEPT ![c] = Kept(c)]
      BY <2>2 DEF ReadRows, Inv, ReadableSoFar, Kept, input
    <3>. HIDE DEF Kept
    <3>2. DOMAIN img = 1..filec
      BY DEF LayoutInv, Measured
    <3>. QED
      BY <1>2, <2>2, <3>1, <3>2 DEF ReadRows
  <2>. QED
    BY <2>1, <2>2
<1>. HIDE DEF callVars, heapVars, outVars
<1>3. filec' = filec /\ \A k : Kept(k)' = Kept(k)
  BY <1>1, SameParts
<1>4. DOMAIN img' = 1..filec /\ \A k \in 1..c : img'[k] = Kept(k)
  <2>1. DOMAIN img = 1..filec /\ \A k \in 1..filec : k < c => img[k] = Kept(k)
    BY <1>1 DEF LayoutInv, Measured, Reading
  <2>3. ASSUME NEW k \in 1..c, k # c PROVE img'[k] = Kept(k)
    <3>1. k \in 1..filec /\ k < c
      BY <1>2, <2>3
    <3>2. img'[k] = img[k]
      BY <1>1, <2>1, <2>3, <3>1
    <3>. QED
      BY <2>1, <3>1, <3>2
  <2>. QED
    BY <1>1, <2>3
<1>5. \/ c < filec /\ c' = c + 1 /\ pc' = "open"
      \/ c = filec /\ c' = 1 /\ pc' = "outfile"
  <2>1. CASE c < filec
    BY <1>1, <2>1 DEF NextInput
  <2>2. CASE c = filec
    BY <1>1, <1>2, <2>2 DEF NextInput
  <2>. QED
    BY <1>2, <2>1, <2>2
<1>6. Measured'
  <2>1. CASE c < filec /\ c' = c + 1 /\ pc' = "open"
    BY <1>2, <1>3, <1>4, <2>1 DEF Measured, Reading, Writing
  <2>2. CASE c = filec /\ c' = 1 /\ pc' = "outfile"
    BY <1>2, <1>3, <1>4, <2>2 DEF Measured, Reading, Writing
  <2>. QED
    BY <1>5, <2>1, <2>2
<1>. QED
  BY <1>1, <1>5, <1>6, ReadingLayout DEF Reading

LEMMA OpenedLayout ==
  ASSUME Inv, LayoutInv, OpenInput \/ CreateReader \/ ReadInfo
  PROVE  LayoutInv'
<1>1. /\ Reading /\ Reading'
      /\ UNCHANGED <<inputs, opt, c, img, file, dib_start>>
  BY DEF OpenInput, CreateReader, ReadInfo, Reading, callVars, heapVars, outVars
<1>2. filec' = filec /\ \A k : Kept(k)' = Kept(k)
  BY <1>1, SameParts
<1>3. Measured'
  <2>1. pc' \in {"signature", "info", "size", "rows"}
    BY DEF OpenInput, CreateReader, ReadInfo
  <2>. QED
    BY <1>1, <1>2, <2>1 DEF LayoutInv, Measured, Reading, Writing
<1>. QED
  BY <1>1, <1>3, ReadingLayout

LEMMA SizeRawLayout == ASSUME Inv, LayoutInv, SizeRaw PROVE LayoutInv'
<1>1. /\ pc = "size" /\ pc' = "reread"
      /\ UNCHANGED <<inputs, opt, c, file, dib_start>>
      /\ img' = [img EXCEPT ![c] = Kept(c)]
  BY DEF SizeRaw, Inv, ReadableSoFar, Kept, input, callVars, outVars
<1>2. filec' = filec /\ \A k : Kept(k)' = Kept(k)
  BY <1>1, SameParts
<1>3. filec \in Nat \ {0} /\ c \in 1..filec
  BY InputsType DEF Inv, TypeOK
<1>4. DOMAIN img = 1..filec /\ \A k \in 1..filec : k < c => img[k] = Kept(k)
  BY <1>1 DEF LayoutInv, Measured, Reading
<1>5. /\ DOMAIN img' = 1..filec /\ img'[c] = Kept(c)
      /\ \A k \in 1..filec : k < c => img'[k] = Kept(k)
  BY <1>1, <1>3, <1>4
<1>6. Measured'
  BY <1>1, <1>2, <1>5 DEF Measured, Reading, Writing
<1>. QED
  BY <1>1, <1>6, ReadingLayout DEF Reading

LEMMA OpenOutLayout == ASSUME Inv, LayoutInv, NameOut \/ OpenOut PROVE LayoutInv'
<1>1. /\ pc \in {"outfile", "create"} /\ pc' \in {"create", "dir"}
      /\ UNCHANGED <<inputs, opt, c, img, file, dib_start>>
  BY DEF NameOut, OpenOut, callVars, outVars
<1>2. filec' = filec /\ \A k : Kept(k)' = Kept(k)
  BY <1>1, SameParts
<1>3. Measured'
  BY <1>1, <1>2 DEF LayoutInv, Measured, Reading, Writing
<1>. QED
  BY <1>1, <1>3, ReadingLayout

LEMMA FailedLayout ==
  ASSUME Inv, LayoutInv,
         \/ InputMissing \/ RejectInput \/ RejectInfo \/ RejectRaw \/ LibpngAborts
         \/ OutNotOpened \/ Refuse \/ WriteFails
  PROVE  LayoutInv'
<1>1. /\ UNCHANGED <<inputs, opt, img, file, dib_start>>
      /\ pc' \in {"failed", "aborted", "died"}
  BY DEF InputMissing, RejectInput, RejectInfo, RejectRaw, LibpngAborts,
         OutNotOpened, Refuse, WriteFails, Fail, callVars, heapVars, outVars
<1>. QED
  BY <1>1, EndedLayout

LEMMA WriteDirLayout == ASSUME Inv, LayoutInv, WriteDir PROVE LayoutInv'
<1>1. /\ pc = "dir" /\ pc' = "entries"
      /\ UNCHANGED <<inputs, opt, c, img>>
      /\ file' = [file EXCEPT !.type = opt.type, !.len = 6]
      /\ dib_start' = FirstImage
  BY DEF WriteDir, callVars, heapVars, SizeofFileDir, FirstImage
<1>2. /\ filec' = filec /\ FirstImage' = FirstImage
      /\ \A k : Kept(k)' = Kept(k)
  BY <1>1, SameParts
<1>3. filec \in Nat \ {0} /\ c = 1
  BY <1>1, InputsType DEF Inv, LayoutInv, Measured
<1>4. Measured'
  BY <1>1, <1>2 DEF LayoutInv, Measured, Reading, Writing
<1>5. /\ file'.type = opt.type
      /\ file'.dir = <<>> /\ file'.image = <<>> /\ file'.len = 6
      /\ file' = [type |-> file'.type, dir |-> file'.dir, image |-> file'.image,
                  len |-> file'.len]
  BY <1>1 DEF LayoutInv, FileType
<1>6. FileType'
  <2>1. dib_start' \in Nat
    BY <1>1, <1>3 DEF FirstImage, SizeofFileDir, SizeofFileDirEntry
  <2>2. file'.dir \in Seq(EntryRecord) /\ file'.len \in Nat
    BY <1>5
  <2>. QED
    BY <1>1, <1>5, <2>1, <2>2 DEF FileType, Reading
<1>7. Laid'
  <2>1. Entered' = 0
    BY <1>1, <1>3 DEF Entered
  <2>. QED
    BY <1>1, <1>2, <1>3, <1>5, <2>1 DEF Laid, SizeofFileDir, SizeofFileDirEntry
<1>8. Located' /\ Headed'
  BY <1>1 DEF Located, Headed, Writing, Returning
<1>. QED
  BY <1>4, <1>6, <1>7, <1>8 DEF LayoutInv

LEMMA AppendIs ==
  ASSUME NEW S, NEW s \in Seq(S), NEW x \in S
  PROVE  /\ Append(s, x) \in Seq(S) /\ Len(Append(s, x)) = Len(s) + 1
         /\ Append(s, x)[Len(s) + 1] = x
         /\ \A k \in 1..Len(s) : Append(s, x)[k] = s[k]
OBVIOUS

LEMMA WriteEntryLayout == ASSUME Inv, LayoutInv, WriteEntry PROVE LayoutInv'
<1>. DEFINE e == Entry(img[c])
<1>1. /\ pc = "entries"
      /\ UNCHANGED <<inputs, opt, img>>
      /\ file' = [file EXCEPT !.dir = Append(@, e), !.len = @ + 16]
      /\ dib_start' = dib_start + dib_size(img[c])
      /\ \/ c < filec /\ c' = c + 1 /\ pc' = "entries"
         \/ ~(c < filec) /\ c' = 1 /\ pc' = "image"
  BY DEF WriteEntry, callVars, heapVars, SizeofFileDirEntry
<1>2. /\ filec' = filec /\ FirstImage' = FirstImage
      /\ \A k : Kept(k)' = Kept(k) /\ dib_size(Kept(k))' = dib_size(Kept(k))
  BY <1>1, SameParts
<1>3. filec \in Nat \ {0} /\ c \in 1..filec /\ TypeOK
  BY InputsType DEF Inv, TypeOK
<1>4. img[c] = Kept(c) /\ \A k \in 1..filec : img[k] = Kept(k)
  BY <1>1, <1>3 DEF LayoutInv, Measured
<1>5. /\ Len(file.dir) = c - 1
      /\ file.dir \in Seq(EntryRecord) /\ file.len \in Nat /\ dib_start \in Nat
      /\ file.image = <<>>
      /\ file.len = 6 + (c - 1) * 16
  BY <1>1 DEF LayoutInv, FileType, Laid, Laying, Entered, EntryRecord,
              SizeofFileDir, SizeofFileDirEntry
<1>6. /\ e \in EntryRecord
      /\ e.dib_offset = dib_start /\ e.dib_size = dib_size(Kept(c))
  <2>1. opt.hotspot_x \in Nat /\ opt.hotspot_y \in Nat
    BY <1>3, OptionsAssumption DEF TypeOK
  <2>2. Kept(c).bit_count \in Nat /\ dib_size(Kept(c)) \in Nat
    BY <1>3, KeptType
  <2>. HIDE DEF Kept
  <2>. QED
    BY <1>4, <1>5, <2>1, <2>2 DEF Entry, EntryRecord
<1>. HIDE DEF e
<1>7. /\ file'.dir = Append(file.dir, e) /\ file'.len = file.len + 16
      /\ file'.type = file.type /\ file.type = opt.type
      /\ file'.image = <<>>
      /\ file' = [type |-> file'.type, dir |-> file'.dir, image |-> file'.image,
                  len |-> file'.len]
  BY <1>1, <1>5 DEF LayoutInv, FileType, Laid, Laying
<1>8. /\ file'.dir \in Seq(EntryRecord) /\ Len(file'.dir) = c
      /\ file'.dir[c] = e
      /\ \A k \in 1..(c - 1) : file'.dir[k] = file.dir[k]
  <2>1. c = Len(file.dir) + 1
    BY <1>3, <1>5
  <2>. QED
    BY <1>5, <1>6, <1>7, <2>1, AppendIs
<1>9. Entered = c - 1 /\ Entered' = c
  BY <1>1, <1>2, <1>3 DEF Entered
<1>. DEFINE at(k) == file'.dir[k].dib_offset
            end(k) == at(k) + dib_size(Kept(k))
<1>10. /\ at(c) = dib_start /\ end(c) = dib_start + dib_size(Kept(c))
       /\ \A k \in 1..(c - 1) : at(k) = At(k) /\ end(k) = EndOf(k)
       /\ \A k : At(k)' = at(k) /\ EndOf(k)' = end(k)
  <2>1. at(c) = dib_start
    BY <1>6, <1>8
  <2>2. \A k \in 1..(c - 1) : at(k) = At(k) /\ end(k) = EndOf(k)
    BY <1>8 DEF At, EndOf
  <2>3. \A k : At(k)' = at(k) /\ EndOf(k)' = end(k)
    BY <1>2 DEF At, EndOf
  <2>. QED
    BY <2>1, <2>2, <2>3
<1>. HIDE DEF at, end
<1>11. Measured'
  BY <1>1, <1>2, <1>3, <1>4 DEF LayoutInv, Measured, Reading, Writing
<1>12. FileType'
  <2>1. dib_start' \in Nat
    BY <1>1, <1>3, <1>4, <1>5, KeptType
  <2>2. file'.len \in Nat
    BY <1>5, <1>7
  <2>3. ~(Reading' \/ pc' \in {"outfile", "create", "dir"})
    BY <1>1 DEF Reading
  <2>. QED
    BY <1>7, <1>8, <2>1, <2>2, <2>3 DEF FileType
<1>13. /\ c > 1 => At(1) = FirstImage /\ dib_start = EndOf(c - 1)
       /\ c = 1 => dib_start = FirstImage
       /\ \A k \in 1..(c - 1) : file.dir[k].dib_size = dib_size(Kept(k))
       /\ \A k \in 1..(c - 1) : k > 1 => At(k) = EndOf(k - 1)
       /\ \A j, k \in 1..(c - 1) : j < k => EndOf(j) <= At(k)
  BY <1>1, <1>3, <1>9 DEF LayoutInv, Laid, Laying
<1>14. \A k \in 1..(c - 1) : /\ At(k) \in Nat /\ dib_size(Kept(k)) \in Nat
                             /\ EndOf(k) = At(k) + dib_size(Kept(k))
  <2>1. ASSUME NEW k \in 1..(c - 1) PROVE At(k) \in Nat /\ dib_size(Kept(k)) \in Nat
    <3>1. k \in DOMAIN file.dir /\ k \in 1..filec
      BY <1>3, <1>5
    <3>2. file.dir[k] \in EntryRecord
      BY <1>5, <3>1
    <3>. QED
      BY <1>3, <3>1, <3>2, KeptType DEF At, EntryRecord
  <2>. QED
    BY <2>1 DEF EndOf
<1>15. Laid'
  <2>1. \A k \in 1..c : file'.dir[k].dib_size = dib_size(Kept(k))
    BY <1>3, <1>6, <1>8, <1>13
  <2>2. at(1) = FirstImage
    BY <1>3, <1>10, <1>13
  <2>3. ASSUME NEW k \in 1..c, k > 1 PROVE at(k) = end(k - 1)
    <3>1. k - 1 \in 1..(c - 1)
      BY <1>3, <2>3
    <3>2. CASE k = c
      BY <1>10, <1>13, <2>3, <3>1, <3>2
    <3>3. CASE k # c
      BY <1>3, <1>10, <1>13, <2>3, <3>1, <3>3
    <3>. QED
      BY <3>2, <3>3
  <2>4. ASSUME NEW j \in 1..c, NEW k \in 1..c, j < k PROVE end(j) <= at(k)
    <3>1. j \in 1..(c - 1) /\ c - 1 \in 1..(c - 1)
      BY <1>3, <2>4
    <3>2. CASE k = c
      <4>1. EndOf(j) <= EndOf(c - 1)
        <5>1. CASE j = c - 1
          BY <1>14, <3>1, <5>1
        <5>2. CASE j < c - 1
          BY <1>13, <1>14, <3>1, <5>2
        <5>. QED
          BY <1>3, <3>1, <5>1, <5>2
      <4>. QED
        BY <1>3, <1>10, <1>13, <2>4, <3>1, <3>2, <4>1
    <3>3. CASE k # c
      BY <1>3, <1>10, <1>13, <2>4, <3>1, <3>3
    <3>. QED
      BY <3>2, <3>3
  <2>5. dib_start' = end(c)
    BY <1>1, <1>4, <1>10
  <2>6. pc' = "entries" => file'.len = 6 + (c' - 1) * 16
    BY <1>1, <1>3, <1>5, <1>7
  <2>. QED
    BY <1>1, <1>2, <1>3, <1>7, <1>8, <1>9, <1>10, <2>1, <2>2, <2>3, <2>4, <2>5, <2>6
    DEF Laid, SizeofFileDir, SizeofFileDirEntry
<1>16. Located'
  <2>1. CASE pc' = "image"
    <3>1. at(1) = FirstImage
      BY <1>3, <1>10, <1>13
    <3>2. c = filec /\ c' = 1 /\ file'.len = 6 + filec * 16
      BY <1>1, <1>3, <1>5, <1>7, <2>1
    <3>. QED
      BY <1>10, <2>1, <3>1, <3>2
      DEF Located, Returning, FirstImage, SizeofFileDir, SizeofFileDirEntry
  <2>2. CASE pc' = "entries"
    BY <2>2 DEF Located, Returning
  <2>. QED
    BY <1>1, <2>1, <2>2
<1>17. Headed'
  <2>1. CASE pc' = "image"
    <3>1. Begun' = 0
      BY <1>1, <2>1 DEF Begun
    <3>. QED
      BY <1>7, <3>1 DEF Headed
  <2>2. CASE pc' = "entries"
    BY <2>2 DEF Headed, Writing, Returning
  <2>. QED
    BY <1>1, <2>1, <2>2
<1>. QED
  BY <1>11, <1>12, <1>15, <1>16, <1>17 DEF LayoutInv

-----------------------------------------------------------------------------
(* The steps that write an image leave the directory as it is.             *)
LEMMA SameDirectory ==
  ASSUME Inv, LayoutInv, Writing \/ Returning, Writing' \/ Returning',
         inputs' = inputs, opt' = opt, dib_start' = dib_start,
         file'.dir = file.dir, file'.type = file.type
  PROVE  /\ Laid'
         /\ filec \in Nat \ {0} /\ c \in 1..filec
         /\ filec' = filec
         /\ \A k : /\ At(k)' = At(k) /\ EndOf(k)' = EndOf(k)
                   /\ Kept(k)' = Kept(k) /\ MaskOf(k)' = MaskOf(k)
                   /\ HeaderMade(k)' = HeaderMade(k)
         /\ \A k \in 1..filec :
              /\ At(k) \in Nat /\ EndOf(k) \in Nat
              /\ EndOf(k) = At(k) + dib_size(Kept(k))
              /\ At(k) < EndOf(k)
              /\ k > 1 => At(k) = EndOf(k - 1)
              /\ \A j \in 1..filec : j < k => At(j) < At(k)
<1>1. filec' = filec /\ FirstImage' = FirstImage
      /\ \A k : /\ Kept(k)' = Kept(k) /\ MaskOf(k)' = MaskOf(k)
                /\ dib_size(Kept(k))' = dib_size(Kept(k))
                /\ HeaderMade(k)' = HeaderMade(k)
                /\ At(k)' = At(k) /\ EndOf(k)' = EndOf(k)
  BY SameParts
<1>2. filec \in Nat \ {0} /\ c \in 1..filec /\ TypeOK
  BY InputsType DEF Inv, TypeOK
<1>3. Entered = filec /\ Entered' = filec /\ Laying /\ Laid /\ pc' # "entries"
  BY <1>1 DEF Entered, Laying, Writing, Returning, LayoutInv
<1>4. Laid'
  <2>1. /\ Len(file.dir) = filec /\ file.type = opt.type
        /\ \A k \in 1..filec : file.dir[k].dib_size = dib_size(Kept(k))
        /\ filec > 0 => At(1) = FirstImage
        /\ \A k \in 1..filec : k > 1 => At(k) = EndOf(k - 1)
        /\ \A j, k \in 1..filec : j < k => EndOf(j) <= At(k)
        /\ dib_start = IF filec = 0 THEN FirstImage ELSE EndOf(filec)
    BY <1>3 DEF Laid
  <2>. QED
    BY <1>1, <1>3, <2>1 DEF Laid
<1>5. ASSUME NEW k \in 1..filec
      PROVE  /\ At(k) \in Nat /\ EndOf(k) \in Nat
             /\ EndOf(k) = At(k) + dib_size(Kept(k)) /\ At(k) < EndOf(k)
  <2>1. Len(file.dir) = filec /\ file.dir \in Seq(EntryRecord)
    BY <1>3 DEF Laid, LayoutInv, FileType
  <2>2. file.dir[k] \in EntryRecord
    BY <2>1
  <2>3. At(k) \in Nat
    BY <2>2 DEF At, EntryRecord
  <2>4. dib_size(Kept(k)) \in Nat \ {0}
    BY <1>2, KeptType
  <2>. QED
    BY <2>3, <2>4 DEF EndOf
<1>6. \A k \in 1..filec : /\ k > 1 => At(k) = EndOf(k - 1)
                          /\ \A j \in 1..filec : j < k => EndOf(j) <= At(k)
  BY <1>2, <1>3 DEF Laid
<1>. QED
  BY <1>1, <1>2, <1>4, <1>5, <1>6

(* An image's header is written at its offset, after those of the images   *)
(* before it.                                                              *)
LEMMA WriteHeaderLayout ==
  ASSUME Inv, LayoutInv, WriteRaw \/ WriteHeader
  PROVE  LayoutInv'
<1>1. PICK h, n :
        /\ pc = "image"
        /\ UNCHANGED <<inputs, opt, c, img, dib_start>>
        /\ PutImage(h, n)
        /\ \/ /\ img[c].raw /\ pc' = "release"
              /\ h = RawHeader(img[c]) /\ n = img[c].image_size
           \/ /\ ~img[c].raw
              /\ pc' = IF img[c].bit_count <= 16 THEN "palette" ELSE "pixels"
              /\ h = BitmapHeader(img[c]) /\ n = 40
  <2>1. CASE WriteRaw
    BY <2>1 DEF WriteRaw, callVars, heapVars
  <2>2. CASE WriteHeader
    BY <2>2 DEF WriteHeader, callVars, heapVars, SizeofBitmapInfoHeader
  <2>. QED
    BY <2>1, <2>2
<1>2. /\ file'.dir = file.dir /\ file'.type = file.type
      /\ file'.image = [p \in DOMAIN file.image \cup {file.len} |->
                          IF p = file.len THEN h ELSE file.image[p]]
      /\ file'.len = file.len + n
      /\ file' = [type |-> file'.type, dir |-> file'.dir, image |-> file'.image,
                  len |-> file'.len]
  BY <1>1 DEF LayoutInv, FileType, PutImage
<1>3. Writing /\ Writing' /\ pc' \in {"release", "palette", "pixels"}
  BY <1>1 DEF Writing
<1>4. /\ Laid'
      /\ filec \in Nat \ {0} /\ c \in 1..filec
      /\ filec' = filec
      /\ \A k : /\ At(k)' = At(k) /\ EndOf(k)' = EndOf(k)
                /\ Kept(k)' = Kept(k) /\ MaskOf(k)' = MaskOf(k)
                /\ HeaderMade(k)' = HeaderMade(k)
      /\ \A k \in 1..filec :
           /\ At(k) \in Nat /\ EndOf(k) \in Nat
           /\ EndOf(k) = At(k) + dib_size(Kept(k))
           /\ At(k) < EndOf(k)
           /\ \A j \in 1..filec : j < k => At(j) < At(k)
  BY <1>1, <1>2, <1>3, SameDirectory
<1>5. Measured'
  BY <1>1, <1>3, <1>4 DEF LayoutInv, Measured, Reading, Writing
<1>6. img[c] = Kept(c) /\ file.len = At(c)
  BY <1>1, <1>4 DEF LayoutInv, Measured, Located, Writing
<1>7. /\ Kept(c).raw = input.raw
      /\ Kept(c).image_size \in Nat
      /\ input.raw => dib_size(Kept(c)) = Kept(c).image_size /\ MaskOf(c) = 0
      /\ input.raw => input.length = inputs[c].length
  <2>1. TypeOK
    BY DEF Inv
  <2>. QED
    BY <1>4, <2>1, KeptType DEF input, MaskOf
<1>8. FileType'
  <2>1. file.len \in Nat /\ n \in Nat /\ file.dir \in Seq(EntryRecord) /\ dib_start \in Nat
    BY <1>1, <1>6, <1>7 DEF LayoutInv, FileType
  <2>2. ~(Reading' \/ pc' \in {"outfile", "create", "dir", "entries"})
    BY <1>3 DEF Reading
  <2>. QED
    BY <1>1, <1>2, <2>1, <2>2 DEF FileType
<1>9. h = HeaderMade(c)
  <2>1. CASE input.raw
    BY <1>1, <1>6, <1>7, <2>1 DEF HeaderMade, RawHeader, input
  <2>2. CASE ~input.raw
    BY <1>1, <1>6, <1>7, <2>2 DEF HeaderMade, BitmapHeader, stored_height, input
  <2>. QED
    BY <2>1, <2>2
<1>10. Headed'
  <2>1. Begun = c - 1 /\ Begun' = c
    BY <1>1, <1>3 DEF Begun, Returning
  <2>2. /\ DOMAIN file.image = {At(k) : k \in 1..(c - 1)}
        /\ \A k \in 1..(c - 1) : file.image[At(k)] = HeaderMade(k)
    BY <1>3, <2>1 DEF LayoutInv, Headed
  <2>3. DOMAIN file'.image = {At(k) : k \in 1..c}
    BY <1>2, <1>4, <1>6, <2>2
  <2>4. ASSUME NEW k \in 1..c PROVE file'.image[At(k)] = HeaderMade(k)
    <3>1. CASE k = c
      BY <1>2, <1>6, <1>9, <3>1
    <3>2. CASE k # c
      <4>1. k \in 1..(c - 1) /\ k \in 1..filec /\ k < c
        BY <1>4, <3>2
      <4>2. At(k) # At(c)
        BY <1>4, <4>1
      <4>. QED
        BY <1>2, <1>6, <2>2, <4>1, <4>2
    <3>. QED
      BY <3>1, <3>2
  <2>5. DOMAIN file'.image = {At(k)' : k \in 1..c}
    BY <1>4, <2>3
  <2>6. \A k \in 1..c : file'.image[At(k)'] = HeaderMade(k)'
    BY <1>4, <2>4
  <2>. QED
    BY <2>1, <2>5, <2>6 DEF Headed
<1>11. Located'
  <2>0. c' = c /\ input' = input
    BY <1>1 DEF input
  <2>1. CASE img[c].raw
    <3>1. pc' = "release" /\ n = Kept(c).image_size /\ input.raw
      BY <1>1, <1>6, <1>7, <2>1
    <3>2. file'.len = EndOf(c)
      BY <1>2, <1>4, <1>6, <1>7, <3>1
    <3>. QED
      BY <1>4, <2>0, <3>1, <3>2 DEF Located, Returning
  <2>2. CASE ~img[c].raw
    <3>1. /\ n = 40 /\ ~input.raw /\ pc' \in {"palette", "pixels"}
          /\ pc' = "palette" => Kept(c).bit_count <= 16
          /\ pc' = "pixels" => ~(Kept(c).bit_count <= 16)
      BY <1>1, <1>6, <1>7, <2>2
    <3>2. file'.len = At(c) + SizeofBitmapInfoHeader
      BY <1>2, <1>4, <1>6, <3>1 DEF SizeofBitmapInfoHeader
    <3>3. pc' = "pixels" => Kept(c).palette_count = 0
      <4>1. TypeOK
        BY DEF Inv
      <4>2. Kept(c).bit_count \in Nat
            /\ Kept(c).palette_count =
                 IF Kept(c).bit_count > 16 THEN 0 ELSE 2 ^ Kept(c).bit_count
        BY <1>4, <3>1, <4>1, KeptType DEF input
      <4>. QED
        BY <3>1, <4>2
    <3>4. Kept(c)' = Kept(c) /\ At(c)' = At(c)
      BY <1>1, <1>2 DEF Kept, At
    <3>5. At(c) \in Nat
      BY <1>4
    <3>. QED
      BY <2>0, <3>1, <3>2, <3>3, <3>4, <3>5
      DEF Located, Returning, SizeofRGBQuad, SizeofBitmapInfoHeader
  <2>. QED
    BY <2>1, <2>2
<1>. QED
  BY <1>4, <1>5, <1>8, <1>10, <1>11 DEF LayoutInv

(* The same, and the headers and the inputs as well.                       *)
LEMMA SameImages ==
  ASSUME Inv, LayoutInv, Writing, Writing', c' = c, pc # "image", pc' # "image",
         inputs' = inputs, opt' = opt, dib_start' = dib_start, img' = img,
         \/ file' = file
         \/ \E n \in Nat : Put(n)
  PROVE  /\ Measured' /\ FileType' /\ Laid' /\ Headed'
         /\ filec \in Nat \ {0} /\ c \in 1..filec
         /\ input' = input
         /\ Kept(c)' = Kept(c) /\ At(c)' = At(c)
         /\ EndOf(c)' = EndOf(c) /\ MaskOf(c)' = MaskOf(c)
         /\ At(c) \in Nat /\ EndOf(c) = At(c) + dib_size(Kept(c))
         /\ img[c] = Kept(c)
<1>1. /\ file'.dir = file.dir /\ file'.type = file.type
      /\ file'.image = file.image /\ file'.len \in Nat
      /\ file' = [type |-> file'.type, dir |-> file'.dir, image |-> file'.image,
                  len |-> file'.len]
  <2>1. CASE file' = file
    BY <2>1 DEF LayoutInv, FileType
  <2>2. CASE \E n \in Nat : Put(n)
    BY <2>2 DEF LayoutInv, FileType, Put
  <2>. QED
    BY <2>1, <2>2
<1>2. /\ Laid'
      /\ filec \in Nat \ {0} /\ c \in 1..filec
      /\ filec' = filec
      /\ \A k : /\ At(k)' = At(k) /\ EndOf(k)' = EndOf(k)
                /\ Kept(k)' = Kept(k) /\ MaskOf(k)' = MaskOf(k)
                /\ HeaderMade(k)' = HeaderMade(k)
      /\ \A k \in 1..filec :
           /\ At(k) \in Nat /\ EndOf(k) = At(k) + dib_size(Kept(k))
  BY <1>1, SameDirectory
<1>3. Measured'
  BY <1>2 DEF LayoutInv, Measured, Reading, Writing
<1>4. FileType'
  <2>1. ~(Reading' \/ pc' \in {"outfile", "create", "dir", "entries"})
    BY DEF Reading, Writing
  <2>. QED
    BY <1>1, <2>1 DEF LayoutInv, FileType
<1>5. Headed'
  <2>1. Begun = c /\ Begun' = c
    BY DEF Begun, Writing, Returning
  <2>. QED
    BY <1>1, <1>2, <2>1 DEF LayoutInv, Headed
<1>6. /\ input' = input /\ Kept(c)' = Kept(c) /\ At(c)' = At(c)
      /\ EndOf(c)' = EndOf(c) /\ MaskOf(c)' = MaskOf(c)
  <2>1. input' = input /\ Kept(c)' = Kept(c) /\ At(c)' = At(c) /\ MaskOf(c)' = MaskOf(c)
    BY <1>1 DEF input, Kept, At, MaskOf
  <2>2. dib_size(Kept(c))' = dib_size(Kept(c))
    BY <2>1 DEF dib_size
  <2>. QED
    BY <2>1, <2>2 DEF EndOf
<1>7. img[c] = Kept(c)
  BY <1>2 DEF LayoutInv, Measured, Writing
<1>. QED
  BY <1>2, <1>3, <1>4, <1>5, <1>6, <1>7

(* The colour table is as long as the header says, since no image has more *)
(* colours than its bits can tell.                                         *)
LEMMA WritePaletteLayout == ASSUME Inv, LayoutInv, WritePalette PROVE LayoutInv'
<1>. DEFINE n == SizeofRGBQuad * colors_written(img[c])
<1>1. /\ pc = "palette" /\ pc' = "pixels" /\ c' = c
      /\ UNCHANGED <<inputs, opt, img, dib_start>>
      /\ Put(n)
  BY DEF WritePalette, callVars, heapVars
<1>2. filec \in Nat \ {0} /\ c \in 1..filec /\ TypeOK
  BY InputsType DEF Inv, TypeOK
<1>3. ~input.raw /\ Kept(c).bit_count <= 16 /\ img[c] = Kept(c)
  BY <1>1, <1>2 DEF LayoutInv, Located, Measured, Writing
<1>4. n = Kept(c).palette_count * SizeofRGBQuad /\ n \in Nat
  <2>1. /\ input \in Input /\ opt.bit_count \in Nat \cup {Unset}
        /\ input = inputs[c]
    BY <1>2, InputsType, OptionsAssumption DEF TypeOK, input
  <2>2. /\ Kept(c).bit_count = bit_count(input, opt.bit_count)
        /\ Kept(c).bit_count \in Nat
        /\ Kept(c).palette_count =
             IF Kept(c).bit_count > 16 THEN 0 ELSE 2 ^ Kept(c).bit_count
    BY <1>2, <1>3, <2>1, KeptType
  <2>3. counted(input) \in Nat /\ counted(input) <= 2 ^ Kept(c).bit_count
    <3>. DEFINE b == bit_count(input, opt.bit_count)
    <3>1. /\ counted(input) \in 1..257 /\ b \in Nat \ {0}
          /\ b < 24 => counted(input) <= 2 ^ b
      BY <2>1, EnoughBits
    <3>2. b = Kept(c).bit_count
      BY <2>2
    <3>. HIDE DEF b, Kept
    <3>3. b < 24
      BY <1>3, <2>2, <3>2
    <3>. QED
      BY <3>1, <3>2, <3>3
  <2>4. 2 ^ Kept(c).bit_count \in Nat
    <3>1. Kept(c).bit_count \in 0..23
      BY <1>3, <2>2
    <3>. QED
      BY <3>1, SmallPowers
  <2>5. colors_written(Kept(c)) = 2 ^ Kept(c).bit_count
    <3>1. \A a, b \in Nat : a <= b => Greatest(a, b) = b
      BY DEF Greatest
    <3>. QED
      BY <2>3, <2>4, <3>1 DEF colors_written
  <2>6. Kept(c).palette_count = 2 ^ Kept(c).bit_count
    BY <1>3, <2>2
  <2>. QED
    BY <1>3, <2>4, <2>5, <2>6 DEF SizeofRGBQuad
<1>. HIDE DEF n
<1>6. Writing /\ Writing'
  BY <1>1 DEF Writing
<1>7. /\ Measured' /\ FileType' /\ Laid' /\ Headed'
      /\ input' = input
      /\ Kept(c)' = Kept(c) /\ At(c)' = At(c)
      /\ At(c) \in Nat
  BY <1>1, <1>4, <1>6, SameImages
<1>8. Located'
  <2>1. file.len = At(c) + SizeofBitmapInfoHeader
    BY <1>1 DEF LayoutInv, Located
  <2>2. file'.len = file.len + n
    BY <1>1 DEF Put, LayoutInv, FileType
  <2>. QED
    BY <1>1, <1>3, <1>4, <1>7, <2>1, <2>2 DEF Located, Returning, SizeofBitmapInfoHeader
<1>. QED
  BY <1>7, <1>8 DEF LayoutInv

LEMMA PackPixelsLayout == ASSUME Inv, LayoutInv, PackPixels PROVE LayoutInv'
<1>1. /\ pc = "pixels" /\ pc' = "packed" /\ c' = c /\ file' = file
      /\ UNCHANGED <<inputs, opt, img, dib_start>>
  BY DEF PackPixels, callVars, outVars
<1>2. Writing /\ Writing'
  BY <1>1 DEF Writing
<1>3. /\ Measured' /\ FileType' /\ Laid' /\ Headed'
      /\ input' = input
      /\ Kept(c)' = Kept(c) /\ At(c)' = At(c)
  BY <1>1, <1>2, SameImages
<1>4. Located'
  BY <1>1, <1>3 DEF LayoutInv, Located, Returning
<1>. QED
  BY <1>3, <1>4 DEF LayoutInv

LEMMA WritePixelsLayout == ASSUME Inv, LayoutInv, WritePixels PROVE LayoutInv'
<1>1. /\ pc = "packed" /\ pc' = "mask" /\ c' = c
      /\ UNCHANGED <<inputs, opt, img, dib_start>>
      /\ Put(img[c].image_size)
  BY DEF WritePixels, PixelsWritten, callVars, heapVars
<1>2. filec \in Nat \ {0} /\ c \in 1..filec /\ TypeOK
  BY InputsType DEF Inv, TypeOK
<1>3. ~input.raw /\ img[c] = Kept(c)
  BY <1>1, <1>2 DEF LayoutInv, Located, Measured, Writing
<1>4. /\ Kept(c).image_size \in Nat /\ Kept(c).palette_count \in Nat
      /\ MaskOf(c) = Kept(c).mask_size /\ MaskOf(c) \in Nat
      /\ dib_size(Kept(c)) =
           Kept(c).palette_count * 4 + 40 + Kept(c).image_size + Kept(c).mask_size
  BY <1>2, <1>3, KeptType DEF MaskOf, input
<1>5. Writing /\ Writing'
  BY <1>1 DEF Writing
<1>6. /\ Measured' /\ FileType' /\ Laid' /\ Headed'
      /\ input' = input
      /\ EndOf(c)' = EndOf(c) /\ MaskOf(c)' = MaskOf(c)
      /\ At(c) \in Nat /\ EndOf(c) = At(c) + dib_size(Kept(c))
  BY <1>1, <1>3, <1>4, <1>5, SameImages
<1>7. Located'
  <2>1. file.len = At(c) + 40 + Kept(c).palette_count * 4
    BY <1>1 DEF LayoutInv, Located, SizeofBitmapInfoHeader, SizeofRGBQuad
  <2>2. file'.len = file.len + Kept(c).image_size
    BY <1>1, <1>3 DEF Put, LayoutInv, FileType
  <2>3. file'.len = EndOf(c) - MaskOf(c)
    BY <1>4, <1>6, <2>1, <2>2
  <2>. QED
    BY <1>1, <1>3, <1>6, <2>3 DEF Located, Returning
<1>. QED
  BY <1>6, <1>7 DEF LayoutInv

LEMMA WriteMaskLayout == ASSUME Inv, LayoutInv, WriteMask PROVE LayoutInv'
<1>1. /\ pc = "mask" /\ pc' = "release" /\ c' = c
      /\ UNCHANGED <<inputs, opt, img, dib_start>>
      /\ Put(mask_written(img[c]))
  BY DEF WriteMask, callVars, heapVars
<1>2. filec \in Nat \ {0} /\ c \in 1..filec /\ TypeOK
  BY InputsType DEF Inv, TypeOK
<1>3. ~input.raw /\ img[c] = Kept(c) /\ file.len = EndOf(c) - MaskOf(c)
  BY <1>1, <1>2 DEF LayoutInv, Located, Measured, Writing
<1>4. /\ mask_written(img[c]) = MaskOf(c) /\ MaskOf(c) \in Nat
      /\ dib_size(Kept(c)) \in Nat
  <2>1. /\ Kept(c).height \in Nat \ {0} /\ Kept(c).width \in Nat
        /\ Kept(c).mask_size = Kept(c).height * ROW_BYTES(Kept(c).width * 1)
        /\ MaskOf(c) = Kept(c).mask_size /\ MaskOf(c) \in Nat
        /\ dib_size(Kept(c)) \in Nat
    BY <1>2, <1>3, KeptType DEF MaskOf, input, Input
  <2>. QED
    BY <1>3, <2>1, MaskFilled
<1>5. Put(MaskOf(c))
  BY <1>1, <1>4
<1>6. Writing /\ Writing'
  BY <1>1 DEF Writing
<1>7. /\ Measured' /\ FileType' /\ Laid' /\ Headed'
      /\ input' = input
      /\ EndOf(c)' = EndOf(c) /\ MaskOf(c)' = MaskOf(c)
      /\ At(c) \in Nat /\ EndOf(c) = At(c) + dib_size(Kept(c))
  BY <1>1, <1>4, <1>5, <1>6, SameImages
<1>8. Located'
  <2>1. file'.len = file.len + MaskOf(c)
    BY <1>5 DEF Put, LayoutInv, FileType
  <2>2. file'.len = EndOf(c)
    BY <1>3, <1>4, <1>7, <2>1
  <2>. QED
    BY <1>1, <1>7, <2>2 DEF Located, Returning
<1>. QED
  BY <1>7, <1>8 DEF LayoutInv

(* The next image is written after this one, which is no longer known.     *)
LEMMA ReleaseLayout == ASSUME Inv, LayoutInv, ReleaseImage PROVE LayoutInv'
<1>1. /\ pc = "release"
      /\ UNCHANGED <<inputs, opt, file, dib_start>>
      /\ img' = [img EXCEPT ![c] = Zeroed]
      /\ IF c < filec THEN c' = c + 1 /\ pc' = "image" ELSE pc' = "return" /\ c' = c
  BY DEF ReleaseImage, ReleaseTo, callVars, outVars
<1>2. filec \in Nat \ {0} /\ c \in 1..filec
  BY InputsType DEF Inv, TypeOK
<1>3. \/ c < filec /\ c' = c + 1 /\ pc' = "image"
      \/ c = filec /\ c' = c /\ pc' = "return"
  BY <1>1, <1>2
<1>4. Writing /\ (Writing' \/ Returning')
  BY <1>1, <1>3 DEF Writing, Returning
<1>5. /\ Laid' /\ filec' = filec
      /\ \A k : /\ At(k)' = At(k) /\ EndOf(k)' = EndOf(k)
                /\ Kept(k)' = Kept(k) /\ MaskOf(k)' = MaskOf(k)
                /\ HeaderMade(k)' = HeaderMade(k)
      /\ \A k \in 1..filec : k > 1 => At(k) = EndOf(k - 1)
  BY <1>1, <1>4, SameDirectory
<1>6. Measured'
  <2>1. DOMAIN img = 1..filec /\ \A k \in 1..filec : k >= c => img[k] = Kept(k)
    BY <1>4 DEF LayoutInv, Measured
  <2>2. DOMAIN img' = 1..filec /\ \A k \in 1..filec : k # c => img'[k] = img[k]
    BY <1>1, <2>1
  <2>3. CASE c < filec /\ c' = c + 1 /\ pc' = "image"
    BY <1>2, <1>5, <2>1, <2>2, <2>3 DEF Measured, Reading, Writing
  <2>4. CASE pc' = "return"
    BY <1>5, <2>2, <2>4 DEF Measured, Reading, Writing
  <2>. QED
    BY <1>3, <2>3, <2>4
<1>7. FileType'
  <2>1. ~(Reading' \/ pc' \in {"outfile", "create", "dir", "entries"})
    BY <1>3 DEF Reading
  <2>. QED
    BY <1>1, <2>1 DEF LayoutInv, FileType
<1>8. Headed'
  <2>1. Begun = c /\ Begun' = c
    BY <1>1, <1>2, <1>3, <1>5 DEF Begun, Returning
  <2>. QED
    BY <1>1, <1>4, <1>5, <2>1 DEF LayoutInv, Headed
<1>9. Located'
  <2>1. file.len = EndOf(c)
    BY <1>1 DEF LayoutInv, Located
  <2>2. CASE c < filec /\ c' = c + 1 /\ pc' = "image"
    <3>1. At(c + 1) = EndOf(c)
      BY <1>2, <1>5, <2>2
    <3>2. file'.dir[c'].dib_offset = At(c + 1)
      BY <1>1, <2>2 DEF At
    <3>. QED
      BY <1>1, <2>1, <2>2, <3>1, <3>2 DEF Located, Returning, At
  <2>3. CASE c = filec /\ pc' = "return"
    <3>1. EndOf(filec)' = EndOf(filec)
      BY <1>5
    <3>. QED
      BY <1>1, <2>1, <2>3, <3>1 DEF Located, Returning
  <2>. QED
    BY <1>3, <2>2, <2>3
<1>. QED
  BY <1>5, <1>6, <1>7, <1>8, <1>9 DEF LayoutInv

LEMMA SucceedLayout == ASSUME Inv, LayoutInv, Succeed PROVE LayoutInv'
<1>1. /\ pc = "return" /\ pc' = "done"
      /\ UNCHANGED <<inputs, opt, c, img, file, dib_start>>
  BY DEF Succeed, callVars, outVars
<1>2. /\ Laid' /\ filec' = filec
      /\ \A k : /\ At(k)' = At(k) /\ EndOf(k)' = EndOf(k)
                /\ Kept(k)' = Kept(k) /\ HeaderMade(k)' = HeaderMade(k)
  BY <1>1, SameDirectory DEF Returning
<1>3. Measured' /\ FileType'
  BY <1>1, <1>2 DEF LayoutInv, Measured, FileType, Reading, Writing
<1>4. EndOf(filec)' = EndOf(filec)
  BY <1>2
<1>5. Located'
  BY <1>1, <1>4 DEF LayoutInv, Located, Returning
<1>6. Begun = filec /\ Begun' = filec
  BY <1>1, <1>2 DEF Begun, Returning
<1>7. Headed'
  BY <1>1, <1>2, <1>6 DEF LayoutInv, Headed, Writing, Returning
<1>. QED
  BY <1>2, <1>3, <1>5, <1>7 DEF LayoutInv

LEMMA LayoutStep ==
  ASSUME Inv, LayoutInv, [Next]_vars
  PROVE  LayoutInv'
<1>1. CASE OpenInput \/ CreateReader \/ ReadInfo
  BY <1>1, OpenedLayout
<1>2. CASE StoreRaw \/ ReadRows
  BY <1>2, ReadLayout
<1>3. CASE \/ InputMissing \/ RejectInput \/ RejectInfo \/ RejectRaw \/ LibpngAborts
           \/ OutNotOpened \/ Refuse \/ WriteFails
  BY <1>3, FailedLayout
<1>4. CASE NameOut \/ OpenOut
  BY <1>4, OpenOutLayout
<1>5. CASE WriteDir
  BY <1>5, WriteDirLayout
<1>6. CASE WriteEntry
  BY <1>6, WriteEntryLayout
<1>7. CASE WriteRaw \/ WriteHeader
  BY <1>7, WriteHeaderLayout
<1>8. CASE WritePalette
  BY <1>8, WritePaletteLayout
<1>9. CASE WritePixels
  BY <1>9, WritePixelsLayout
<1>10. CASE WriteMask
  BY <1>10, WriteMaskLayout
<1>11. CASE ReleaseImage
  BY <1>11, ReleaseLayout
<1>12. CASE DiskFills \/ UNCHANGED vars
  <2>1. UNCHANGED <<inputs, opt, pc, c, img, file, dib_start>>
    BY <1>12 DEF DiskFills, callVars, heapVars, outVars, vars
  <2>. QED
    BY <2>1, SameLayout
<1>13. CASE SizeRaw
  BY <1>13, SizeRawLayout
<1>14. CASE PackPixels
  BY <1>14, PackPixelsLayout
<1>15. CASE Succeed
  BY <1>15, SucceedLayout
<1>. QED
  BY <1>1, <1>2, <1>3, <1>4, <1>5, <1>6, <1>7, <1>8, <1>9, <1>10, <1>11, <1>12,
     <1>13, <1>14, <1>15
  DEF Next, Step, Returned

(* The directory and the images written so far agree, with what is known   *)
(* of the inputs and with where the next byte goes, in every state.        *)
THEOREM LayoutAlways == Spec => [](Inv /\ LayoutInv)
<1>1. Init => Inv /\ LayoutInv
  BY InitInv, LayoutInit
<1>2. Inv /\ LayoutInv /\ [Next]_vars => (Inv /\ LayoutInv)'
  BY LayoutStep, StepInv
<1>. QED
  BY <1>1, <1>2, PTL DEF Spec

-----------------------------------------------------------------------------
(* The file when the call has succeeded.                                   *)
LEMMA Finished ==
  ASSUME Inv, LayoutInv, pc = "done"
  PROVE  /\ Len(file.dir) = filec /\ filec \in Nat \ {0}
         /\ file.type = opt.type
         /\ DOMAIN file.image = {At(k) : k \in 1..filec}
         /\ At(1) = FirstImage
         /\ dib_start = EndOf(filec)
         /\ \A k \in 1..filec :
              /\ At(k) \in Nat /\ dib_size(Kept(k)) \in Nat \ {0}
              /\ file.dir[k].dib_size = dib_size(Kept(k))
              /\ EndOf(k) = At(k) + dib_size(Kept(k))
              /\ HeaderOf(file, k) = HeaderMade(k)
         /\ \A j, k \in 1..filec : j < k => EndOf(j) <= At(k)
<1>1. TypeOK /\ filec \in Nat \ {0}
  BY InputsType DEF Inv
<1>2. Entered = filec /\ Begun = filec /\ Laying
  BY DEF Entered, Begun, Laying, Returning
<1>3. /\ Len(file.dir) = filec
      /\ file.type = opt.type
      /\ At(1) = FirstImage
      /\ dib_start = EndOf(filec)
      /\ \A k \in 1..filec : file.dir[k].dib_size = dib_size(Kept(k))
      /\ \A j, k \in 1..filec : j < k => EndOf(j) <= At(k)
  BY <1>1, <1>2 DEF LayoutInv, Laid
<1>4. /\ DOMAIN file.image = {At(k) : k \in 1..filec}
      /\ \A k \in 1..filec : file.image[At(k)] = HeaderMade(k)
  BY <1>2 DEF LayoutInv, Headed, Returning
<1>5. ASSUME NEW k \in 1..filec
      PROVE  /\ At(k) \in Nat /\ dib_size(Kept(k)) \in Nat \ {0}
             /\ EndOf(k) = At(k) + dib_size(Kept(k))
             /\ HeaderOf(file, k) = HeaderMade(k)
  <2>1. file.dir[k] \in EntryRecord
    BY <1>3 DEF LayoutInv, FileType
  <2>2. At(k) \in Nat
    BY <2>1 DEF At, EntryRecord
  <2>3. dib_size(Kept(k)) \in Nat \ {0}
    BY <1>1, KeptType
  <2>. QED
    BY <1>4, <2>2, <2>3 DEF EndOf, HeaderOf, At
<1>. QED
  BY <1>1, <1>3, <1>4, <1>5

(* Each image of a file that create_icon() writes is written where the     *)
(* directory entry written for it says, and is as long as that says,       *)
(* however many images there are and whatever their depths.                *)
THEOREM ImagesAreWhereEntriesSay == Spec => []LayoutExact
<1>1. Inv /\ LayoutInv => LayoutExact
  <2>. SUFFICES ASSUME Inv, LayoutInv, ~full PROVE LayoutExact
    BY DEF LayoutExact
  <2>1. filec \in Nat \ {0} /\ c \in 1..filec
    BY InputsType DEF Inv, TypeOK
  <2>2. pc = "image" => file.len = file.dir[c].dib_offset
    BY DEF LayoutInv, Located, At
  <2>3. CASE pc = "release"
    <3>1. file.dir[c].dib_size = dib_size(Kept(c))
      BY <2>1, <2>3 DEF LayoutInv, Laid, Laying, Entered, Writing
    <3>2. file.len = At(c) + dib_size(Kept(c))
      BY <2>3 DEF LayoutInv, Located, EndOf
    <3>. QED
      BY <2>3, <3>1, <3>2 DEF LayoutExact, At
  <2>4. CASE pc = "done"
    BY <2>4, Finished DEF LayoutInv, Located, Returning, LayoutExact
  <2>. QED
    BY <2>2, <2>3, <2>4 DEF LayoutExact
<1>. QED
  BY <1>1, LayoutAlways, PTL

(* When the disk filled, the pixels of Given images had been given to the  *)
(* output's FILE, or were to be given since.  Of those too large for the   *)
(* buffer, fwrite() has found the disk still taking them.                  *)
Given == IF pc \in {"mask", "release"} THEN c ELSE IF Returning THEN filec ELSE c - 1

Large(k) == Kept(k).image_size > BufferSize

PixelsEnd(k) == EndOf(k) - MaskOf(k)

SavedInv ==
  full =>
    /\ saved \in Int
    /\ Writing \/ Returning =>
         \A k \in 1..Given : Large(k) => saved + BufferSize >= PixelsEnd(k)

(* What comes before the next byte has been given.                         *)
LEMMA GivenBefore ==
  ASSUME Inv, LayoutInv, Writing \/ Returning, NEW k \in 1..Given
  PROVE  PixelsEnd(k) <= file.len /\ PixelsEnd(k) \in Int /\ k \in 1..filec
<1>1. filec \in Nat \ {0} /\ c \in 1..filec /\ TypeOK
  BY InputsType DEF Inv, TypeOK
<1>2. k \in 1..filec
  BY <1>1 DEF Given
<1>3. /\ \A j \in 1..filec : /\ At(j) \in Nat /\ EndOf(j) \in Nat /\ At(j) < EndOf(j)
                             /\ MaskOf(j) \in Nat
      /\ \A i, j \in 1..filec : i < j => EndOf(i) <= At(j)
  <2>1. Entered = filec /\ Laying /\ Laid
    BY DEF Entered, Laying, Writing, Returning, LayoutInv
  <2>2. ASSUME NEW j \in 1..filec
        PROVE  At(j) \in Nat /\ EndOf(j) \in Nat /\ At(j) < EndOf(j) /\ MaskOf(j) \in Nat
    <3>1. Len(file.dir) = filec /\ file.dir \in Seq(EntryRecord)
      BY <2>1 DEF Laid, LayoutInv, FileType
    <3>2. file.dir[j] \in EntryRecord
      BY <3>1
    <3>3. At(j) \in Nat
      BY <3>2 DEF At, EntryRecord
    <3>4. dib_size(Kept(j)) \in Nat \ {0} /\ MaskOf(j) \in Nat
      BY <1>1, KeptType
    <3>. QED
      BY <3>3, <3>4 DEF EndOf
  <2>3. \A i, j \in 1..filec : i < j => EndOf(i) <= At(j)
    BY <2>1 DEF Laid
  <2>. QED
    BY <2>2, <2>3
<1>4. PixelsEnd(k) \in Int /\ PixelsEnd(k) <= EndOf(k)
  BY <1>2, <1>3 DEF PixelsEnd
<1>5. file.len \in Nat
  BY DEF LayoutInv, FileType
<1>6. CASE Returning
  <2>1. file.len = EndOf(filec)
    BY <1>6 DEF LayoutInv, Located
  <2>2. EndOf(k) <= EndOf(filec)
    BY <1>1, <1>2, <1>3
  <2>. QED
    BY <1>1, <1>2, <1>3, <1>4, <2>1, <2>2
<1>7. CASE Writing /\ k < c
  <2>1. file.len >= At(c)
    <3>1. /\ pc = "image" => file.len = At(c)
          /\ pc = "palette" => file.len = At(c) + SizeofBitmapInfoHeader
          /\ pc \in {"pixels", "packed"} =>
               file.len = At(c) + SizeofBitmapInfoHeader
                            + Kept(c).palette_count * SizeofRGBQuad
          /\ pc = "mask" => file.len = EndOf(c) - MaskOf(c) /\ ~inputs[c].raw
          /\ pc = "release" => file.len = EndOf(c)
      BY DEF LayoutInv, Located, input
    <3>2. /\ Kept(c).palette_count \in Nat /\ Kept(c).image_size \in Nat
          /\ MaskOf(c) \in Nat
          /\ ~inputs[c].raw => /\ MaskOf(c) = Kept(c).mask_size
                               /\ dib_size(Kept(c)) =
                                    Kept(c).palette_count * 4 + 40 + Kept(c).image_size
                                      + Kept(c).mask_size
      BY <1>1, KeptType DEF MaskOf
    <3>3. EndOf(c) = At(c) + dib_size(Kept(c))
      BY DEF EndOf
    <3>4. pc \in {"pixels", "packed"} => file.len >= At(c)
      BY <1>1, <1>3, <3>1, <3>2 DEF SizeofRGBQuad, SizeofBitmapInfoHeader
    <3>5. pc = "mask" => file.len >= At(c)
      BY <1>1, <1>3, <3>1, <3>2, <3>3
    <3>6. pc \in {"image", "palette", "release"} => file.len >= At(c)
      BY <1>1, <1>3, <3>1 DEF SizeofBitmapInfoHeader
    <3>. QED
      BY <1>7, <3>4, <3>5, <3>6 DEF Writing
  <2>. QED
    BY <1>1, <1>2, <1>3, <1>4, <1>5, <1>7, <2>1
<1>8. CASE Writing /\ ~(k < c)
  <2>1. k = c /\ pc \in {"mask", "release"}
    BY <1>1, <1>8 DEF Given, Writing, Returning
  <2>2. /\ pc = "mask" => file.len = EndOf(c) - MaskOf(c)
        /\ pc = "release" => file.len = EndOf(c)
    BY DEF LayoutInv, Located
  <2>. QED
    BY <1>2, <1>4, <2>1, <2>2 DEF PixelsEnd
<1>. QED
  BY <1>2, <1>4, <1>6, <1>7, <1>8

LEMMA SavedStep ==
  ASSUME Inv, LayoutInv, SavedInv, [Next]_vars
  PROVE  SavedInv'
<1>1. filec \in Nat \ {0} /\ c \in 1..filec /\ TypeOK /\ full \in BOOLEAN
  BY InputsType DEF Inv, TypeOK
<1>2. CASE DiskFills
  <2>1. /\ UNCHANGED <<inputs, opt, pc, c, file>>
        /\ saved' = file.len - Least(BufferSize, file.len)
    BY <1>2 DEF DiskFills, callVars, heapVars, outVars
  <2>2. file.len \in Nat /\ BufferSize \in Nat
    BY BufferAssumption DEF LayoutInv, FileType
  <2>3. saved' \in Int /\ saved' + BufferSize >= file.len
    BY <2>1, <2>2 DEF Least
  <2>4. Given' = Given /\ \A k : PixelsEnd(k)' = PixelsEnd(k)
    BY <2>1, SameParts DEF Given, Returning, PixelsEnd
  <2>5. Writing \/ Returning =>
          \A k \in 1..Given : saved' + BufferSize >= PixelsEnd(k)
    BY <2>2, <2>3, GivenBefore
  <2>. QED
    BY <2>1, <2>3, <2>4, <2>5 DEF SavedInv, Writing, Returning
<1>3. CASE ~DiskFills
  <2>. SUFFICES ASSUME full' PROVE SavedInv'
    BY DEF SavedInv
  <2>1. /\ UNCHANGED <<inputs, opt, saved>> /\ full
    BY <1>1, <1>3 DEF Next, Step, OpenInput, InputMissing, RejectInput, CreateReader,
           ReadInfo, RejectInfo, SizeRaw, StoreRaw, Store, RejectRaw, ReadRows,
           LibpngAborts, NameOut, OpenOut, OutNotOpened, Refuse, WriteDir,
           WriteEntry, WriteRaw, WriteHeader, WritePalette, PackPixels, WritePixels,
           PixelsWritten, WriteMask, WriteFails, ReleaseImage, ReleaseTo, Succeed,
           Returned, Fail, vars, callVars, diskVars
  <2>2. saved \in Int /\ BufferSize \in Nat
    BY <2>1, BufferAssumption DEF SavedInv
  <2>3. /\ filec' = filec
        /\ \A k : Large(k)' = Large(k) /\ MaskOf(k)' = MaskOf(k)
        /\ file'.dir = file.dir => \A k : PixelsEnd(k)' = PixelsEnd(k)
    BY <2>1, SameParts DEF Large, PixelsEnd
  <2>4. CASE ~(Writing' \/ Returning')
    BY <2>1, <2>2, <2>4 DEF SavedInv
  <2>5. CASE WriteEntry /\ pc' = "image"
    <3>1. c' = 1
      BY <2>5 DEF WriteEntry
    <3>2. Given' = 0
      BY <2>5, <3>1 DEF Given, Returning
    <3>. QED
      BY <2>1, <2>2, <3>2 DEF SavedInv
  <2>6. CASE /\ Writing \/ Returning
             /\ Writing' \/ Returning'
             /\ ~WritePixels
    <3>1. /\ Given' = Given \/ (Given' = c /\ Given = c - 1 /\ ~Large(c))
          /\ file'.dir = file.dir
      <4>1. CASE \/ WritePalette \/ PackPixels \/ WriteMask \/ WriteHeader
                 \/ Succeed \/ UNCHANGED vars
        <5>1. /\ file'.dir = file.dir /\ c' = c
              /\ \/ pc \in {"image", "palette", "pixels"}
                    /\ pc' \in {"palette", "pixels", "packed"}
                 \/ pc = "mask" /\ pc' = "release"
                 \/ pc = "return" /\ pc' = "done"
                 \/ pc' = pc
          BY <4>1 DEF WritePalette, PackPixels, WriteMask, WriteHeader, Succeed, Put,
                      PutImage, vars, callVars, outVars, LayoutInv, FileType
        <5>. QED
          BY <2>3, <5>1 DEF Given, Returning
      <4>2. CASE WriteRaw
        <5>1. /\ file'.dir = file.dir /\ c' = c /\ pc = "image" /\ pc' = "release"
              /\ Checked(img[c].image_size)
          BY <4>2 DEF WriteRaw, PutImage, LayoutInv, FileType
        <5>2. img[c] = Kept(c)
          BY <1>1, <5>1 DEF LayoutInv, Measured, Writing
        <5>3. Kept(c).image_size \in Nat
          BY <1>1, KeptType
        <5>4. ~Large(c)
          BY <2>1, <2>2, <5>1, <5>2, <5>3 DEF Checked, Large
        <5>. QED
          BY <5>1, <5>4 DEF Given, Returning
      <4>3. CASE ReleaseImage
        <5>1. /\ file'.dir = file.dir /\ pc = "release"
              /\ \/ c' = c + 1 /\ pc' = "image"
                 \/ c = filec /\ pc' = "return"
          BY <1>1, <4>3 DEF ReleaseImage, ReleaseTo, outVars
        <5>. QED
          BY <1>1, <2>3, <5>1 DEF Given, Returning
      <4>. QED
        BY <1>3, <2>6, <4>1, <4>2, <4>3 DEF Next, Step, Writing, Returning, OpenInput,
           InputMissing, RejectInput, BadSignature, CreateReader,
           ReadInfo, RejectInfo, SizeRaw, StoreRaw, Store, RejectRaw, ReadRows,
           LibpngAborts, NameOut, OpenOut, OutNotOpened, Refuse, WriteDir,
           WriteEntry, WriteFails, Returned, Fail
    <3>2. \A k \in 1..Given : Large(k) => saved + BufferSize >= PixelsEnd(k)
      BY <2>1, <2>6 DEF SavedInv
    <3>3. \A k \in 1..Given' : Large(k) => saved + BufferSize >= PixelsEnd(k)
      BY <1>1, <3>1, <3>2
    <3>. QED
      BY <2>1, <2>2, <2>3, <3>1, <3>3 DEF SavedInv
  <2>7. CASE WritePixels
    <3>1. /\ pc = "packed" /\ pc' = "mask" /\ c' = c
          /\ Checked(img[c].image_size) /\ file'.dir = file.dir
      BY <2>7 DEF WritePixels, PixelsWritten, Put, LayoutInv, FileType
    <3>2. img[c] = Kept(c)
      BY <1>1, <3>1 DEF LayoutInv, Measured, Writing
    <3>3. Kept(c).image_size \in Nat
      BY <1>1, KeptType
    <3>4. ~Large(c)
      BY <2>1, <2>2, <3>1, <3>2, <3>3 DEF Checked, Large
    <3>5. Given' = c /\ Given = c - 1
      BY <3>1 DEF Given, Returning
    <3>6. \A k \in 1..(c - 1) : Large(k) => saved + BufferSize >= PixelsEnd(k)
      BY <2>1, <3>1, <3>5 DEF SavedInv, Writing
    <3>7. \A k \in 1..c : Large(k) => saved + BufferSize >= PixelsEnd(k)
      BY <1>1, <3>4, <3>6
    <3>. QED
      BY <2>1, <2>2, <2>3, <3>1, <3>5, <3>7 DEF SavedInv
  <2>8. CASE ~(Writing \/ Returning) /\ (Writing' \/ Returning') /\ ~WriteEntry
    BY <1>3, <2>8 DEF Next, Step, Writing, Returning, OpenInput,
           InputMissing, RejectInput, BadSignature, CreateReader,
           ReadInfo, RejectInfo, SizeRaw, StoreRaw, Store, RejectRaw, ReadRows, NextInput,
           LibpngAborts, NameOut, OpenOut, OutNotOpened, Refuse, WriteDir, WriteRaw,
           WriteHeader, WritePalette, PackPixels, WriteMask, WritePixels, PixelsWritten,
           ReleaseImage, ReleaseTo, Succeed,
           WriteFails, Returned, Fail, vars
  <2>9. CASE WriteEntry /\ pc' # "image"
    BY <2>4, <2>9 DEF WriteEntry, Writing, Returning
  <2>. QED
    BY <2>4, <2>5, <2>6, <2>7, <2>8, <2>9
<1>. QED
  BY <1>2, <1>3

(* fwrite() leaves in the buffer no more than fits: a create_icon() that   *)
(* returns true, on whatever disk, has had every image whose pixels are    *)
(* more than that, with all before it, written to the disk but for the     *)
(* last buffer of it.                                                      *)
THEOREM LargeImagesAreOnDisk == Spec => []SuccessKeepsLargeImages
<1>1. Init => Inv /\ LayoutInv /\ SavedInv
  BY InitInv, LayoutInit DEF Init, SavedInv
<1>2. Inv /\ LayoutInv /\ SavedInv /\ [Next]_vars => (Inv /\ LayoutInv /\ SavedInv)'
  BY StepInv, LayoutStep, SavedStep
<1>3. Inv /\ LayoutInv /\ SavedInv => SuccessKeepsLargeImages
  <2>. SUFFICES ASSUME Inv, LayoutInv, SavedInv, pc = "done", full,
                       NEW k \in 1..filec, Known(inputs[k]).image_size > BufferSize
                PROVE  saved + BufferSize >= EndOfPixels(k)
    BY DEF SuccessKeepsLargeImages
  <2>1. Known(inputs[k]) = Kept(k)
    BY DEF Known, Kept
  <2>2. Given = filec /\ Large(k)
    BY <2>1 DEF Given, Returning, Large
  <2>3. saved + BufferSize >= PixelsEnd(k)
    BY <2>2 DEF SavedInv, Returning
  <2>4. Kept(k).mask_size = MaskOf(k)
    <3>1. inputs[k].raw => Kept(k).mask_size = 0
      BY DEF Kept, SizedRaw, Zeroed
    <3>. QED
      BY <3>1 DEF MaskOf
  <2>5. EndOfPixels(k) = PixelsEnd(k)
    <3>1. /\ file.dir[k].dib_offset \in Nat /\ dib_size(Kept(k)) \in Nat
          /\ MaskOf(k) \in Nat
      BY Finished, KeptType DEF Inv, At
    <3>. QED
      BY <2>1, <2>4, <3>1 DEF EndOfPixels, PixelsEnd, EndOf, At
  <2>. QED
    BY <2>3, <2>5
<1>. QED
  BY <1>1, <1>2, <1>3, PTL DEF Spec

(* In a file that create_icon() has written, an image of less than 24 bits *)
(* a pixel had no more colours than the file has for it, and no alpha that *)
(* its mask cannot tell, for any minimum of bits asked for.                *)
THEOREM NoColorIsLost == Spec => []ColorsKept
<1>1. Inv /\ LayoutInv => ColorsKept
  <2>. SUFFICES ASSUME Inv, LayoutInv, pc = "done",
                       NEW k \in 1..filec, ~inputs[k].raw,
                       ~(HeaderOf(file, k).bits >= 24)
                PROVE  /\ inputs[k].colors <= palette_count(HeaderOf(file, k))
                       /\ ~need_transparency(inputs[k])
    BY DEF ColorsKept
  <2>. DEFINE h == HeaderMade(k)
              b == Kept(k).bit_count
  <2>1. TypeOK /\ HeaderOf(file, k) = h
    BY Finished DEF Inv
  <2>2. /\ inputs[k] \in Input
        /\ b = bit_count(inputs[k], opt.bit_count) /\ b \in Nat \ {0}
        /\ Kept(k).palette_count = IF b > 16 THEN 0 ELSE 2 ^ b
    BY <2>1, KeptType
  <2>3. h.bits = b /\ h.clr_used = Kept(k).palette_count
    BY DEF HeaderMade
  <2>4. b < 24
    BY <2>1, <2>2, <2>3
  <2>5. opt.bit_count \in Nat \cup {Unset}
    BY <2>1, OptionsAssumption DEF TypeOK
  <2>6. /\ ~need_transparency(inputs[k])
        /\ inputs[k].colors <= 2 ^ b
    <3>. DEFINE d == bit_count(inputs[k], opt.bit_count)
    <3>1. d < 24 => /\ ~need_transparency(inputs[k])
                    /\ counted(inputs[k]) = inputs[k].colors
                    /\ counted(inputs[k]) <= 2 ^ d
      BY <2>2, <2>5, EnoughBits
    <3>2. d = b
      BY <2>2
    <3>. HIDE DEF d, b
    <3>. QED
      BY <2>4, <3>1, <3>2
  <2>7. palette_count(h) = 2 ^ b
    <3>. HIDE DEF h, b
    <3>0. b \in 0..23
      BY <2>2, <2>4
    <3>1. 2 ^ b \in Nat \ {0}
      BY <3>0, SmallPowers
    <3>2. h.clr_used = IF b > 16 THEN 0 ELSE 2 ^ b
      BY <2>2, <2>3 DEF b
    <3>. QED
      BY <2>3, <2>4, <3>0, <3>1, <3>2 DEF palette_count
  <2>. QED
    BY <2>1, <2>6, <2>7
<1>. QED
  BY <1>1, LayoutAlways, PTL

-----------------------------------------------------------------------------
(* What is read back.                                                      *)

(* The minimum of bits asked for, if any, is one that images have.         *)
KnownDepths == \A o \in Options : o.bit_count \in Depths \cup {Unset}

LEMMA DepthKnown ==
  ASSUME NEW i \in Input, NEW m \in Depths \cup {Unset}
  PROVE  bit_count(i, m) \in Depths
<1>1. depth(i, m) \in {1, 4, 8, 24, 32}
  <2>1. counted(i) \in 1..257
    BY DEF Input, counted, Least
  <2>2. counted(i) <= 256 => palette_depth(counted(i)) \in {1, 4, 8}
    BY <2>1, PaletteDepth
  <2>. QED
    BY <2>2 DEF depth
<1>. DEFINE d == depth(i, m)
<1>2. d \in Depths /\ bit_count(i, m) = Greatest(d, m)
  BY <1>1 DEF Depths, bit_count
<1>. HIDE DEF d
<1>. QED
  BY <1>2 DEF Greatest, Unset, Depths

(* Of every image that create_icon() writes, whatever its width, height    *)
(* and depth, extract_icons() reads the pixels and the mask from where     *)
(* they were written, and none was written over another; unless rows of    *)
(* 24 bits a pixel are no multiple of three bytes.                         *)
THEOREM PixelsComeBack ==
  ASSUME KnownDepths
  PROVE  Spec => []PixelsReadBack
<1>1. Inv /\ LayoutInv => PixelsReadBack
  <2>. SUFFICES ASSUME Inv, LayoutInv, pc = "release", ~img[c].raw,
                       ~ThirdsOfRows(Picture(img[c]))
                PROVE  PictureSurvives[Picture(img[c])]
    BY DEF PixelsReadBack
  <2>. DEFINE s == Picture(img[c])
              i == inputs[c]
              m == opt.bit_count
  <2>1. TypeOK /\ c \in 1..filec /\ filec \in Nat
    BY InputsType DEF Inv, TypeOK
  <2>2. /\ i \in Input /\ inputs \in Inputs /\ c \in DOMAIN inputs
        /\ opt \in Options /\ m \in Depths \cup {Unset}
    BY <2>1, InputsType, InputsAssumption DEF TypeOK, KnownDepths, filec
  <2>3. img[c] = Kept(c)
    BY <2>1 DEF LayoutInv, Measured, Writing
  <2>4. Kept(c).raw = i.raw
    BY <2>1, KeptType
  <2>5. img[c] = Sized(i, m)
    BY <2>3, <2>4 DEF Kept
  <2>6. s \in Pictures
    BY <2>2, <2>5 DEF Pictures
  <2>7. IsPicture(s)
    <3>1. /\ s.width = i.width /\ s.height = i.height /\ s.bits = bit_count(i, m)
      BY <2>5 DEF Picture, Sized
    <3>2. i.width \in Nat \ {0} /\ i.height \in Nat \ {0}
      BY <2>2 DEF Input
    <3>3. bit_count(i, m) \in Depths
      BY <2>2, DepthKnown
    <3>. QED
      BY <3>1, <3>2, <3>3 DEF IsPicture, ThirdsOfRows
  <2>8. PixelsSurvive(s) /\ MaskSurvives(s)
    BY <2>7, PictureComesThrough
  <2>. QED
    BY <2>6, <2>8 DEF PictureSurvives
<1>. QED
  BY <1>1, LayoutAlways, PTL

(* The depths that extract_icons() reads, among those of 16 bits is not.   *)
DepthsRead == \A o \in Options : o.bit_count \in {Unset, 1, 2, 4, 8, 24, 32}

(* A row of 32 bits a pixel does not have more than IntMax bits (libpng's  *)
(* limit is a million pixels), and no PNG is as short as a bitmap header.  *)
InputsFit ==
  \A s \in Inputs : \A k \in DOMAIN s :
    s[k].width <= IntMax \div 32 /\ s[k].length >= SizeofBitmapInfoHeader

LEMMA WidthFits ==
  ASSUME NEW w \in Nat, w <= IntMax \div 32, NEW g \in {4, 8, 24, 32}
  PROVE  w <= IntMax \div g
<1>1. IntMax \in Nat
  BY LimitsAssumption
<1>2. CASE g = 4
  BY <1>1, <1>2
<1>3. CASE g = 8
  BY <1>1, <1>3
<1>4. CASE g = 24
  BY <1>1, <1>4
<1>5. CASE g = 32
  BY <1>1, <1>5
<1>. QED
  BY <1>2, <1>3, <1>4, <1>5

LEMMA HalfOfTwice ==
  ASSUME NEW n \in Nat
  PROVE  Abs(n * 2) \div 2 = n
BY DEF Abs

(* What the reader makes of the header written of an image that is not raw.*)
LEMMA DibReadBack ==
  ASSUME TypeOK, DepthsRead, InputsFit, NEW k \in 1..filec, ~inputs[k].raw
  PROVE  LET h == HeaderMade(k) IN
         /\ ~IsPng(h) /\ h.width = inputs[k].width /\ height(h) = inputs[k].height
         /\ DibBytes(h) = dib_size(Kept(k)) /\ dib_size(Kept(k)) >= 40
         /\ DibSupported(h) /\ Decodable(h)
<1>. DEFINE i == inputs[k]
            b == Kept(k).bit_count
            h == HeaderMade(k)
<1>1. /\ i \in Input /\ i.width \in Nat \ {0} /\ i.height \in Nat \ {0}
      /\ Kept(k).width = i.width /\ Kept(k).height = i.height
      /\ b = bit_count(i, opt.bit_count)
      /\ Kept(k).palette_count = IF b > 16 THEN 0 ELSE 2 ^ b
      /\ Kept(k).image_size = i.height * ROW_BYTES(i.width * b)
      /\ Kept(k).mask_size = i.height * ROW_BYTES(i.width * 1)
      /\ dib_size(Kept(k)) =
           Kept(k).palette_count * 4 + 40 + Kept(k).image_size + Kept(k).mask_size
      /\ Kept(k).image_size \in Nat \ {0} /\ Kept(k).palette_count \in Nat
  BY KeptType DEF Input
<1>2. opt.bit_count \in {Unset, 1, 2, 4, 8, 24, 32}
  BY DEF TypeOK, DepthsRead
<1>3. b \in {1, 2, 4, 8, 24, 32}
  <2>1. depth(i, opt.bit_count) \in {1, 4, 8, 24, 32}
    <3>1. counted(i) \in 1..257
      BY <1>1 DEF Input, counted, Least
    <3>2. counted(i) <= 256 => palette_depth(counted(i)) \in {1, 4, 8}
      BY <3>1, PaletteDepth
    <3>. QED
      BY <3>2 DEF depth
  <2>. DEFINE d == depth(i, opt.bit_count)
              m == opt.bit_count
  <2>2. d \in {1, 4, 8, 24, 32} /\ b = Greatest(d, m) /\ m \in {-1, 1, 2, 4, 8, 24, 32}
    BY <1>1, <1>2, <2>1 DEF bit_count, Unset
  <2>. HIDE DEF d, m, b
  <2>. QED
    BY <2>2 DEF Greatest
<1>4. b < 24 => counted(i) <= 2 ^ b
  <2>1. opt.bit_count \in Nat \cup {Unset}
    BY <1>2
  <2>. DEFINE d == bit_count(i, opt.bit_count)
  <2>2. d < 24 => counted(i) <= 2 ^ d
    BY <1>1, <2>1, EnoughBits
  <2>3. d = b
    BY <1>1
  <2>. HIDE DEF d, b
  <2>. QED
    BY <2>2, <2>3
<1>5. i.width <= IntMax \div 32
  <2>1. inputs \in Inputs
    BY DEF TypeOK
  <2>2. k \in DOMAIN inputs
    BY <2>1, InputsAssumption DEF filec
  <2>. QED
    BY <2>1, <2>2 DEF InputsFit, i
<1>6. /\ h.magic = "dib" /\ h.size = 40 /\ h.width = i.width
      /\ h.height = i.height * 2 /\ h.bits = b /\ h.clr_used = Kept(k).palette_count
      /\ h.compressed = FALSE
      /\ h.clean = (b > 16 \/ counted(i) <= Kept(k).palette_count)
  BY <1>1 DEF HeaderMade, SizeofBitmapInfoHeader
<1>. HIDE DEF i, h, b
<1>7. ~IsPng(h) /\ height(h) = i.height
  BY <1>1, <1>6, HalfOfTwice DEF IsPng, height
<1>8. /\ palette_count(h) = Kept(k).palette_count
      /\ palette_count(h) \in 0..256
      /\ b <= 16 => counted(i) <= Kept(k).palette_count
  <2>1. CASE b \in {24, 32}
    <3>1. h.clr_used = 0
      BY <1>1, <1>6, <2>1
    <3>. QED
      BY <1>1, <1>6, <2>1, <3>1 DEF palette_count
  <2>2. CASE b = 1
    <3>1. Kept(k).palette_count = 2
      BY <1>1, <2>2
    <3>. QED
      BY <1>1, <1>4, <1>6, <2>2, <3>1 DEF palette_count
  <2>3. CASE b = 2
    <3>1. Kept(k).palette_count = 4
      BY <1>1, <2>3
    <3>. QED
      BY <1>1, <1>4, <1>6, <2>3, <3>1 DEF palette_count
  <2>4. CASE b = 4
    <3>1. Kept(k).palette_count = 16
      BY <1>1, <2>4
    <3>. QED
      BY <1>1, <1>4, <1>6, <2>4, <3>1 DEF palette_count
  <2>5. CASE b = 8
    <3>1. Kept(k).palette_count = 256
      BY <1>1, <2>5
    <3>. QED
      BY <1>1, <1>4, <1>6, <2>5, <3>1 DEF palette_count
  <2>. QED
    BY <1>3, <2>1, <2>2, <2>3, <2>4, <2>5
<1>9. image_size(h) = Kept(k).image_size /\ mask_size(h) = Kept(k).mask_size
  <2>1. i.width * 1 = i.width
    BY <1>1
  <2>. QED
    BY <1>1, <1>6, <1>7, <2>1 DEF image_size, mask_size
<1>10. Kept(k).image_size > 0 /\ Kept(k).mask_size > 0 /\ Kept(k).mask_size \in Nat
  <2>1. i.width * 1 \in Nat \ {0}
    BY <1>1
  <2>2. ROW_BYTES(i.width * 1) \in Nat \ {0}
    BY <2>1, RowBytesType
  <2>. QED
    BY <1>1, <2>2, ProductPositive
<1>11. /\ DibBytes(h) = dib_size(Kept(k))
       /\ dib_size(Kept(k)) >= 40
  <2>1. DibBytes(h) = 40 + 4 * Kept(k).palette_count
                         + (Kept(k).image_size + Kept(k).mask_size)
    BY <1>6, <1>8, <1>9 DEF DibBytes, PaletteBytes, PixelBytes, SizeofRGBQuad
  <2>. QED
    BY <1>1, <1>10, <2>1
<1>12. DibSupported(h)
  <2>1. Greatest(4, b) \in {4, 8, 24, 32}
    BY <1>3 DEF Greatest
  <2>2. h.width <= IntMax \div Greatest(4, h.bits)
    BY <1>1, <1>5, <1>6, <2>1, WidthFits
  <2>3. Abs(h.width) = h.width
    BY <1>1, <1>6 DEF Abs
  <2>4. WidthSupported(h)
    BY <2>2, <2>3 DEF WidthSupported
  <2>. QED
    BY <1>6, <1>8, <1>9, <1>10, <2>4 DEF DibSupported, SizeofBitmapInfoHeader
<1>13. Decodable(h)
  <2>1. CASE b > 16
    BY <1>6, <2>1 DEF Decodable
  <2>2. CASE b <= 16
    <3>1. counted(i) <= Kept(k).palette_count
      BY <1>8, <2>2
    <3>. QED
      BY <1>6, <3>1 DEF Decodable
  <2>. QED
    BY <1>3, <2>1, <2>2
<1>. QED
  BY <1>1, <1>6, <1>7, <1>11, <1>12, <1>13 DEF i, h

(* extract_icons() finds in a file that create_icon() has written every    *)
(* image, complete and in the order of the inputs, whatever their sizes    *)
(* and number, and gives it the input's dimensions.                        *)
THEOREM CreatedFilesReadBack ==
  ASSUME DepthsRead, InputsFit
  PROVE  Spec => []ReadsBack
<1>1. Inv /\ LayoutInv => ReadsBack
  <2>. SUFFICES ASSUME Inv, LayoutInv, pc = "done", ~full,
                       \A k \in 1..filec : inputs[k].fault = "none"
                PROVE  /\ WellFormed(file)
                       /\ Images(file) = 1..filec
                       /\ \A k \in 1..filec :
                            LET h == HeaderOf(file, k) IN
                            /\ Index(file, k) = k
                            /\ IsPng(h) <=> inputs[k].raw
                            /\ h.width = inputs[k].width
                            /\ height(h) = inputs[k].height
                            /\ Extent(file, k) = file.dir[k].dib_size
    BY DEF ReadsBack
  <2>1. /\ Len(file.dir) = filec /\ filec \in Nat \ {0}
        /\ file.type = opt.type
        /\ DOMAIN file.image = {At(k) : k \in 1..filec}
        /\ At(1) = FirstImage
        /\ \A k \in 1..filec :
             /\ At(k) \in Nat /\ dib_size(Kept(k)) \in Nat \ {0}
             /\ file.dir[k].dib_size = dib_size(Kept(k))
             /\ EndOf(k) = At(k) + dib_size(Kept(k))
             /\ HeaderOf(file, k) = HeaderMade(k)
        /\ \A j, k \in 1..filec : j < k => EndOf(j) <= At(k)
    BY Finished
  <2>2. TypeOK /\ file.len = EndOf(filec)
    BY DEF Inv, LayoutInv, Located, Returning
  <2>3. Images(file) = 1..filec
    BY <2>1 DEF Images
  <2>4. ASSUME NEW k \in 1..filec
        PROVE  LET h == HeaderOf(file, k) IN
               /\ IsPng(h) <=> inputs[k].raw
               /\ h.width = inputs[k].width
               /\ height(h) = inputs[k].height
               /\ Extent(file, k) = dib_size(Kept(k))
               /\ dib_size(Kept(k)) >= 40
               /\ IF IsPng(h) THEN h.clean ELSE DibSupported(h) /\ Decodable(h)
    <3>. DEFINE h == HeaderOf(file, k)
    <3>1. h = HeaderMade(k) /\ file.dir[k].dib_size = dib_size(Kept(k))
      BY <2>1
    <3>2. CASE inputs[k].raw
      <4>1. /\ h.magic = "png" /\ h.width = Kept(k).width /\ h.height = Kept(k).height
            /\ h.clean = (inputs[k].fault = "none")
        BY <3>1, <3>2 DEF HeaderMade
      <4>2. /\ Kept(k).width = inputs[k].width /\ Kept(k).height = inputs[k].height
            /\ dib_size(Kept(k)) = inputs[k].length
        BY <2>2, <3>2, KeptType
      <4>3. inputs[k].length >= 40
        <5>1. inputs \in Inputs /\ k \in DOMAIN inputs
          BY <2>2, InputsAssumption DEF TypeOK, filec
        <5>. QED
          BY <5>1 DEF InputsFit, SizeofBitmapInfoHeader
      <4>4. IsPng(h) /\ height(h) = h.height
        BY <4>1 DEF IsPng, height
      <4>. QED
        BY <3>1, <3>2, <4>1, <4>2, <4>3, <4>4 DEF Extent
    <3>3. CASE ~inputs[k].raw
      <4>1. /\ ~IsPng(h) /\ h.width = inputs[k].width /\ height(h) = inputs[k].height
            /\ DibBytes(h) = dib_size(Kept(k)) /\ dib_size(Kept(k)) >= 40
            /\ DibSupported(h) /\ Decodable(h)
        BY <2>2, <3>1, <3>3, DibReadBack
      <4>. QED
        BY <3>3, <4>1 DEF Extent
    <3>. QED
      BY <3>2, <3>3
  <2>5. ASSUME NEW k \in 1..filec PROVE Index(file, k) = k
    <3>1. {d \in Images(file) : file.dir[d].dib_offset <= file.dir[k].dib_offset} = 1..k
      <4>1. ASSUME NEW d \in 1..filec PROVE At(d) <= At(k) <=> d <= k
        <5>1. CASE d < k
          BY <2>1, <5>1
        <5>2. CASE d = k
          BY <2>1, <5>2
        <5>3. CASE d > k
          <6>1. EndOf(k) <= At(d) /\ EndOf(k) > At(k)
            BY <2>1, <5>3
          <6>. QED
            BY <2>1, <5>3, <6>1
        <5>. QED
          BY <5>1, <5>2, <5>3
      <4>2. \A d : d \in 1..k <=> d \in 1..filec /\ d <= k
        BY <2>1
      <4>. QED
        BY <2>3, <4>1, <4>2 DEF At
    <3>2. Cardinality(1..k) = IF 1 > k THEN 0 ELSE k - 1 + 1
      BY FS_Interval
    <3>3. Cardinality(1..k) = k
      BY <2>1, <3>2
    <3>. QED
      BY <3>1, <3>3 DEF Index
  <2>6. WellFormed(file)
    <3>1. file.type # "unknown"
      BY <2>1, <2>2, OptionsAssumption DEF TypeOK
    <3>2. \A e \in Images(file) : file.dir[e].dib_offset \in DOMAIN file.image
      BY <2>1, <2>3 DEF At
    <3>3. ASSUME NEW e \in 1..filec
          PROVE  /\ At(e) >= FirstImage
                 /\ EndOf(e) <= file.len
                 /\ \A d \in (1..filec) \ {e} : At(d) >= EndOf(e) \/ EndOf(d) <= At(e)
      <4>1. At(e) >= FirstImage
        <5>1. CASE e = 1
          BY <2>1, <5>1
        <5>2. CASE e > 1
          <6>1. 1 \in 1..filec /\ EndOf(1) <= At(e) /\ EndOf(1) > At(1)
            BY <2>1, <5>2
          <6>. QED
            BY <2>1, <6>1
        <5>. QED
          BY <5>1, <5>2
      <4>2. EndOf(e) <= EndOf(filec)
        <5>1. CASE e = filec
          BY <2>1, <5>1
        <5>2. CASE e < filec
          <6>1. filec \in 1..filec
            BY <2>1
          <6>. QED
            BY <2>1, <5>2, <6>1
        <5>. QED
          BY <2>1, <5>1, <5>2
      <4>3. ASSUME NEW d \in (1..filec) \ {e} PROVE At(d) >= EndOf(e) \/ EndOf(d) <= At(e)
        <5>1. d < e \/ e < d
          OBVIOUS
        <5>. QED
          BY <2>1, <5>1
      <4>. QED
        BY <2>2, <4>1, <4>2, <4>3
    <3>4. \A e \in 1..filec : At(e) + Extent(file, e) = EndOf(e)
      BY <2>1, <2>4
    <3>5. FirstImage = SizeofFileDir + Len(file.dir) * SizeofFileDirEntry
      BY <2>1 DEF FirstImage
    <3>6. ASSUME NEW e \in Images(file)
          PROVE  LET first == file.dir[e].dib_offset
                     last == first + Extent(file, e)
                     h == HeaderOf(file, e)
                 IN  /\ first >= SizeofFileDir + Len(file.dir) * SizeofFileDirEntry
                     /\ last <= file.len
                     /\ Extent(file, e) >= SizeofBitmapInfoHeader
                     /\ IF IsPng(h) THEN h.clean ELSE DibSupported(h) /\ Decodable(h)
                     /\ \A d \in Images(file) \ {e} :
                          \/ file.dir[d].dib_offset >= last
                          \/ file.dir[d].dib_offset + Extent(file, d) <= first
      <4>1. e \in 1..filec
        BY <2>3
      <4>2. At(e) >= FirstImage /\ EndOf(e) <= file.len
        BY <3>3, <4>1
      <4>3. \A d \in Images(file) \ {e} :
              \/ file.dir[d].dib_offset >= EndOf(e)
              \/ file.dir[d].dib_offset + Extent(file, d) <= At(e)
        BY <2>3, <3>3, <3>4, <4>1 DEF At
      <4>4. At(e) = file.dir[e].dib_offset
        BY DEF At
      <4>5. Extent(file, e) >= SizeofBitmapInfoHeader
        BY <2>4, <4>1 DEF SizeofBitmapInfoHeader
      <4>6. LET h == HeaderOf(file, e) IN
            IF IsPng(h) THEN h.clean ELSE DibSupported(h) /\ Decodable(h)
        BY <2>4, <4>1
      <4>. QED
        BY <3>4, <3>5, <4>1, <4>2, <4>3, <4>4, <4>5, <4>6
    <3>7. file.len >= SizeofFileDir + Len(file.dir) * SizeofFileDirEntry
      <4>1. 1 \in 1..filec /\ At(1) = FirstImage /\ EndOf(1) <= file.len
        BY <2>1, <3>3
      <4>2. EndOf(1) = At(1) + dib_size(Kept(1)) /\ At(1) \in Nat
            /\ dib_size(Kept(1)) \in Nat
        BY <2>1, <4>1
      <4>3. file.len \in Nat
        <5>1. filec \in 1..filec
          BY <2>1
        <5>. QED
          BY <2>1, <2>2, <5>1
      <4>. QED
        BY <3>5, <4>1, <4>2, <4>3
    <3>. QED
      BY <3>1, <3>2, <3>6, <3>7 DEF WellFormed
  <2>. QED
    BY <2>1, <2>3, <2>4, <2>5, <2>6
<1>. QED
  BY <1>1, LayoutAlways, PTL
=============================================================================

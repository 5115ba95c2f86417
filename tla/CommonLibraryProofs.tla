-------------------------- MODULE CommonLibraryProofs --------------------------
(***************************************************************************)
(* Proofs about the string buffer, the linked list and the parsers of      *)
(* integers; those about the tree are in TMapProofs, and are shown here to *)
(* hold of it among the others.                                            *)
(***************************************************************************)
EXTENDS CommonLibrary, TMapProofs

-----------------------------------------------------------------------------
(* The string buffer: no operation uses memory behind its buffer, whatever *)
(* is put into it, wherever and however often.                             *)

BufInv ==
  /\ len \in Nat /\ capacity \in Nat
  /\ WithinCapacity

LEMMA Normalized ==
  ASSUME NEW n \in Nat, NEW pos \in Int
  PROVE  normalize(n, pos) \in Nat /\ normalize(n, pos) <= n
BY DEF normalize, MaxOf

LEMMA EndsInOrder ==
  ASSUME NEW n \in Nat, NEW sp \in Int, NEW ep \in Int
  PROVE  /\ From(n, sp, ep) \in Nat /\ To(n, sp, ep) \in Nat
         /\ From(n, sp, ep) <= To(n, sp, ep) /\ To(n, sp, ep) <= n
<1> DEFINE a == normalize(n, sp)
           b == normalize(n, ep)
<1>1. a \in Nat /\ a <= n /\ b \in Nat /\ b <= n
  BY Normalized
<1>2. From(n, sp, ep) = MinOf(a, b) /\ To(n, sp, ep) = MaxOf(a, b)
  BY DEF From, To
<1> HIDE DEF a, b
<1>3. CASE a > b
  BY <1>1, <1>2, <1>3 DEF MaxOf, MinOf
<1>4. CASE ~(a > b)
  BY <1>1, <1>2, <1>4 DEF MaxOf, MinOf
<1> QED BY <1>3, <1>4

LEMMA PartsAreStrings ==
  ASSUME NEW s \in Parts
  PROVE  Len(s) \in Nat
<1>1. PICK t \in Strings, sp \in Positions, ep \in Positions : s = Part(t, sp, ep)
  BY DEF Parts
<1>2. t \in Seq({t[k] : k \in DOMAIN t}) /\ sp \in Int /\ ep \in Int
  BY StrBufAssumption
<1>3. Len(t) \in Nat
  BY <1>2
<1> DEFINE m == From(Len(t), sp, ep)
           n == To(Len(t), sp, ep)
<1>4. m \in Nat /\ n \in Nat /\ m <= n /\ n <= Len(t)
  BY <1>2, <1>3, EndsInOrder
<1>5. s = SubSeq(t, m + 1, n)
  BY <1>1 DEF Part
<1> HIDE DEF m, n
<1>6. Len(SubSeq(t, m + 1, n)) = n - m
  BY <1>2, <1>4
<1> QED BY <1>4, <1>5, <1>6

LEMMA EnsuredEnough ==
  ASSUME NEW min \in Nat, len \in Nat, capacity \in Nat
  PROVE  /\ Ensured(min) \in Nat
         /\ Ensured(min) >= min /\ Ensured(min) >= capacity
BY DEF Ensured, MaxOf

(* The length of the repetitions is a number like another.                 *)
LEMMA AddedLength ==
  ASSUME NEW s \in Parts, NEW times \in Repetitions
  PROVE  Len(s) * times \in Nat /\ times * Len(s) = Len(s) * times
<1>1. Len(s) \in Nat /\ times \in Nat
  BY PartsAreStrings, StrBufAssumption
<1>2. \A a, b \in Nat : a * b \in Nat /\ b * a = a * b
  OBVIOUS
<1> QED BY <1>1, <1>2

LEMMA Used ==
  ASSUME NEW n, NEW bytes, Uses(n, bytes), ~overrun, ~(n > bytes)
  PROVE  ~overrun'
BY Zenon DEF Uses

LEMMA NewKeeps ==
  ASSUME BufInv, NEW n \in Lengths, strbuf_new_with_capacity(n)
  PROVE  BufInv'
BY StrBufAssumption
   DEF BufInv, strbuf_new_with_capacity, WithinCapacity, Exists, Uninitialized

LEMMA NewFromDataKeeps ==
  ASSUME BufInv, NEW s \in Parts, NEW times \in Repetitions,
         strbuf_new_from_data_n(times, s)
  PROVE  BufInv'
<1> DEFINE n == Len(s) * times
<1>1. n \in Nat
  BY AddedLength
<1>2. len' = n /\ capacity' = n + 1 /\ UNCHANGED overrun
  BY DEF strbuf_new_from_data_n
<1>3. buf' = [memcpy(Uninitialized(n + 1), 0, times, s) EXCEPT ![n] = NUL]
  BY <1>2 DEF strbuf_new_from_data_n
<1> HIDE DEF n
<1>4. DOMAIN buf' = 0..n /\ buf'[n] = NUL
  BY <1>1, <1>3 DEF memcpy, Uninitialized
<1> QED BY <1>1, <1>2, <1>4 DEF BufInv, WithinCapacity, Exists

LEMMA EnsureCapacityKeeps ==
  ASSUME BufInv, NEW n \in Lengths, strbuf_ensure_capacity(n)
  PROVE  BufInv'
<1>1. capacity' \in Nat /\ capacity' >= capacity
  BY StrBufAssumption, EnsuredEnough DEF BufInv, strbuf_ensure_capacity
<1>2. DOMAIN buf' = 0..(capacity' - 1) /\ buf'[len] = NUL
  BY <1>1 DEF BufInv, strbuf_ensure_capacity, realloc, WithinCapacity, Exists
<1> QED BY <1>1, <1>2 DEF BufInv, strbuf_ensure_capacity, WithinCapacity, Exists

LEMMA SetLengthKeeps ==
  ASSUME BufInv, NEW n \in Lengths, strbuf_set_length(n)
  PROVE  BufInv'
<1>1. n \in Nat
  BY StrBufAssumption
<1>2. capacity' \in Nat /\ capacity' >= n + 1
  BY <1>1, EnsuredEnough DEF BufInv, strbuf_set_length
<1>3. DOMAIN buf' = 0..(capacity' - 1) /\ buf'[n] = NUL
  BY <1>1, <1>2 DEF strbuf_set_length, realloc, Terminated
<1>4. ~overrun'
  <2>1. Uses(n + 1, capacity') /\ ~overrun
    BY DEF BufInv, strbuf_set_length, WithinCapacity
  <2>2. ~(n + 1 > capacity')
    BY <1>1, <1>2
  <2> QED BY <2>1, <2>2, Used
<1> QED BY <1>1, <1>2, <1>3, <1>4 DEF BufInv, strbuf_set_length, WithinCapacity, Exists

(* The terminating null moves with what follows the part, behind what is   *)
(* put in its place.                                                       *)
LEMMA ReplaceKeeps ==
  ASSUME BufInv, NEW s \in Parts, NEW times \in Repetitions,
         NEW sp \in Positions, NEW ep \in Positions,
         strbuf_replace_data_n(sp, ep, times, s)
  PROVE  BufInv'
<1> DEFINE from == From(len, sp, ep)
           to == To(len, sp, ep)
           addlen == Len(s) * times
           length == len + addlen - (to - from)
           bytes == IF length = len THEN capacity ELSE Ensured(length + 1)
           grown == realloc(buf, bytes)
           moved == IF length = len THEN buf
                    ELSE memmove(grown, from + addlen, to, len + 1 - to)
<1>1. sp \in Int /\ ep \in Int
  BY StrBufAssumption
<1>2. /\ from \in Nat /\ to \in Nat /\ len \in Nat
      /\ from <= to /\ to <= len
  BY <1>1, EndsInOrder DEF BufInv
<1>3. addlen \in Nat /\ times * Len(s) = addlen
  BY AddedLength
<1>4. /\ buf' = Terminated(memcpy(moved, from, times, s), length)
      /\ len' = length /\ capacity' = bytes
      /\ Uses(MaxOf(len, len') + 1, capacity')
  BY DEF strbuf_replace_data_n, Replaced
<1>5. /\ len < capacity /\ capacity \in Nat /\ ~overrun
      /\ DOMAIN buf = 0..(capacity - 1) /\ buf[len] = NUL
  BY DEF BufInv, WithinCapacity, strbuf_replace_data_n
<1> HIDE DEF addlen, from, to
<1>6. length \in Nat /\ length >= from + addlen
  BY <1>2, <1>3
<1>7. bytes \in Nat /\ bytes > length /\ bytes >= capacity
  <2>1. CASE length = len
    BY <1>5, <2>1
  <2>2. CASE length # len
    <3>1. length + 1 \in Nat
      BY <1>6
    <3> HIDE DEF length
    <3>2. bytes = Ensured(length + 1)
      BY <2>2
    <3> HIDE DEF bytes
    <3> QED BY <1>2, <1>5, <1>6, <3>1, <3>2, EnsuredEnough
  <2> QED BY <2>1, <2>2
<1>8. DOMAIN moved = 0..(bytes - 1) /\ moved[length] = NUL
  <2>1. CASE length = len
    BY <1>5, <2>1
  <2>2. CASE length # len
    <3>1. DOMAIN grown = 0..(bytes - 1) /\ grown[len] = NUL
      BY <1>2, <1>5, <1>7 DEF realloc
    <3> HIDE DEF grown, bytes
    <3>2. length \in (from + addlen)..((from + addlen) + (len + 1 - to) - 1)
      BY <1>2, <1>3
    <3>3. to + (length - (from + addlen)) = len
      BY <1>2, <1>3
    <3>4. moved = memmove(grown, from + addlen, to, len + 1 - to)
      BY <2>2
    <3>5. length \in 0..(bytes - 1)
      BY <1>6, <1>7
    <3> HIDE DEF moved, length
    <3> QED BY <3>1, <3>2, <3>3, <3>4, <3>5 DEF memmove
  <2> QED BY <2>1, <2>2
<1> HIDE DEF moved, bytes
<1>9. DOMAIN buf' = 0..(bytes - 1)
  BY <1>4, <1>8 DEF Terminated, memcpy
<1>10. buf'[length] = NUL
  <2>1. length \in 0..(bytes - 1) /\ length \notin from..(from + addlen - 1)
    BY <1>2, <1>3, <1>6, <1>7
  <2> HIDE DEF length
  <2>2. memcpy(moved, from, times, s)[length] = moved[length]
    BY <1>3, <1>8, <2>1 DEF memcpy
  <2>3. DOMAIN memcpy(moved, from, times, s) = 0..(bytes - 1)
    BY <1>8 DEF memcpy
  <2> QED BY <1>4, <1>6, <1>8, <2>1, <2>2, <2>3 DEF Terminated
<1>11. ~overrun'
  <2> HIDE DEF length
  <2>1. ~(MaxOf(len, len') + 1 > capacity')
    BY <1>2, <1>4, <1>5, <1>6, <1>7 DEF MaxOf
  <2> QED BY <1>4, <1>5, <2>1, Used
<1> QED BY <1>4, <1>6, <1>7, <1>9, <1>10, <1>11 DEF BufInv, WithinCapacity, Exists

LEMMA SubstringKeeps ==
  ASSUME BufInv, NEW sp \in Positions, NEW ep \in Positions,
         strbuf_substring(sp, ep)
  PROVE  BufInv'
<1>1. To(len, sp, ep) \in Nat /\ To(len, sp, ep) <= len
  BY StrBufAssumption, EndsInOrder DEF BufInv
<1>2. ~overrun'
  <2>1. Uses(To(len, sp, ep) + 1, capacity) /\ ~overrun
    BY DEF BufInv, strbuf_substring, WithinCapacity
  <2>2. ~(To(len, sp, ep) + 1 > capacity)
    BY <1>1 DEF BufInv, WithinCapacity, strbuf_substring
  <2> QED BY <2>1, <2>2, Used
<1> QED BY <1>2 DEF BufInv, WithinCapacity, strbuf_substring, Exists

LEMMA FreeKeeps ==
  ASSUME BufInv, NEW sp \in Positions, NEW ep \in Positions,
         strbuf_free_to_substring(sp, ep)
  PROVE  BufInv'
<1>1. /\ normalize(len, sp) \in Nat
      /\ normalize(len, ep) \in Nat /\ normalize(len, ep) <= len
  BY StrBufAssumption, Normalized DEF BufInv
<1>2. ~overrun'
  <2> DEFINE a == normalize(len, sp)
             b == normalize(len, ep)
  <2>1. Uses(MaxOf(b, b - a + 1), capacity) /\ ~overrun
    BY DEF BufInv, strbuf_free_to_substring, WithinCapacity
  <2>2. len < capacity /\ len \in Nat /\ capacity \in Nat
    BY DEF BufInv, WithinCapacity, strbuf_free_to_substring
  <2> HIDE DEF a, b
  <2>3. ~(MaxOf(b, b - a + 1) > capacity)
    BY <1>1, <2>2 DEF MaxOf, a, b
  <2> QED BY <2>1, <2>3, Used
<1> QED BY <1>2 DEF BufInv, WithinCapacity, strbuf_free_to_substring, Exists

LEMMA BufNextInv == BufInv /\ [BufNext]_bufVars => BufInv'
<1> SUFFICES ASSUME BufInv, [BufNext]_bufVars
             PROVE  BufInv'
  OBVIOUS
<1>1. ASSUME UNCHANGED bufVars
      PROVE  BufInv'
  BY <1>1 DEF BufInv, bufVars, WithinCapacity, Exists
<1> QED BY <1>1, NewKeeps, NewFromDataKeeps, EnsureCapacityKeeps, SetLengthKeeps,
           ReplaceKeeps, SubstringKeeps, FreeKeeps DEF BufNext

LEMMA BufAlways == BufSpec => []BufInv
<1>1. BufInit => BufInv
  BY DEF BufInit, BufInv, WithinCapacity, Exists
<1> QED BY BufNextInv, <1>1, PTL DEF BufSpec

(* What the library does to a buffer and to a parser is what these do by   *)
(* themselves.                                                             *)
LEMMA PartsAlone == LibrarySpec => BufSpec /\ ParseSpec /\ Spec
<1>1. LibraryInit => BufInit /\ ParseInit /\ Init
  BY DEF LibraryInit
<1>2. [LibraryNext]_libraryVars =>
        [BufNext]_bufVars /\ [ParseNext]_parseVars /\ [Next]_vars
  BY DEF LibraryNext, libraryVars, bufVars, parseVars
<1> QED BY <1>1, <1>2, PTL DEF LibrarySpec, BufSpec, ParseSpec, Spec

(* What is proved of the tree on its own holds of it among the others.     *)
THEOREM TreeAmongOthers ==
  LibrarySpec => []Linked /\ []Balanced /\ ImplementsOrderedMap
<1> QED BY PartsAlone, TreeIsLinked, TreeIsBalanced, TreeIsAnOrderedMap, PTL

(* No operation on a string buffer uses memory behind it, and the length   *)
(* is always where the null is.                                            *)
THEOREM BufferHolds == LibrarySpec => []WithinCapacity
<1>1. BufInv => WithinCapacity
  BY DEF BufInv
<1> QED BY BufAlways, PartsAlone, <1>1, PTL

-----------------------------------------------------------------------------
(* The buffer as a text.                                                   *)

(* The recursive function of FlattenSeq, named.                            *)
Joining(S, g) ==
  [i \in 1..Len(S) |-> IF i = 1 THEN S[i] ELSE g[i - 1] \o S[i]]

LEMMA Flattened ==
  ASSUME NEW S, Len(S) # 0
  PROVE  \E f : /\ f = CHOOSE g : g = Joining(S, g)
                /\ Seqs!FlattenSeq(S) = f[Len(S)]
BY DEF Seqs!FlattenSeq, Joining

(* The position nearest to the one asked for is the one normalized.        *)
LEMMA PlaceIs ==
  ASSUME NEW s, Len(s) \in Nat, NEW p \in Int
  PROVE  Place(s, p) = normalize(Len(s), p)
<1> DEFINE n == Len(s)
           q == IF p < 0 THEN n + 1 + p ELSE p
           a == normalize(n, p)
           Near(k) == \A l \in 0..n : (k - q) * (k - q) <= (l - q) * (l - q)
<1>1. a = IF q > n THEN n ELSE IF q < 0 THEN 0 ELSE q
  BY DEF normalize, MaxOf
<1>2. q \in Int /\ n \in Nat
  OBVIOUS
<1>3. Place(s, p) = CHOOSE k \in 0..n : Near(k)
  BY DEF Place
<1> HIDE DEF q, n, a
<1>4. a \in 0..n
  BY <1>1, <1>2
<1>5. \A k \in 0..n : k # a => (a - q) * (a - q) < (k - q) * (k - q)
  <2> SUFFICES ASSUME NEW k \in 0..n, k # a
               PROVE  (a - q) * (a - q) < (k - q) * (k - q)
    OBVIOUS
  <2> DEFINE x == a - q  y == k - q
  <2>1. x \in Int /\ y \in Int
    BY <1>2, <1>4
  <2>2. \/ 0 <= x /\ x < y
        \/ y < x /\ x <= 0
    BY <1>1, <1>2
  <2> HIDE DEF x, y
  <2>3. x * x < y * y
    BY <2>1, <2>2
  <2> QED BY <2>3 DEF x, y
<1>6. \A k \in 0..n : Near(k) <=> k = a
  <2>1. \A k \in 0..n : (k - q) * (k - q) \in Int
    BY <1>2
  <2> QED BY <1>4, <1>5, <2>1
<1> HIDE DEF Near
<1> QED BY <1>3, <1>4, <1>6 DEF n, a

LEMMA EndsAre ==
  ASSUME NEW s, Len(s) \in Nat, NEW p \in Int, NEW q \in Int
  PROVE  /\ Sets!Min(Ends(s, p, q)) = From(Len(s), p, q)
         /\ Sets!Max(Ends(s, p, q)) = To(Len(s), p, q)
<1> DEFINE a == normalize(Len(s), p)
           b == normalize(Len(s), q)
<1>1. a \in Int /\ b \in Int
  <2>1. \A x \in Int : normalize(Len(s), x) \in Nat
    BY Normalized
  <2> QED BY <2>1
<1>2. Ends(s, p, q) = {a, b}
  BY PlaceIs DEF Ends
<1>3. From(Len(s), p, q) = MinOf(a, b) /\ To(Len(s), p, q) = MaxOf(a, b)
  BY DEF From, To
<1> HIDE DEF a, b
<1>4. Sets!Min({a, b}) = MinOf(a, b)
  BY <1>1 DEF Sets!Min, MinOf
<1>5. Sets!Max({a, b}) = MaxOf(a, b)
  BY <1>1 DEF Sets!Max, MaxOf
<1> QED BY <1>2, <1>3, <1>4, <1>5

LEMMA OneMore ==
  ASSUME NEW L \in Nat \ {0}, NEW i \in Nat, NEW k \in Nat, k < L
  PROVE  (i * L + k) % L = k
<1>1. i * L \in Nat
  OBVIOUS
<1> QED BY <1>1

(* Copies of a string, one behind the other, as memcpy() makes them.       *)
Copies(s, n) == [k \in 1..(n * Len(s)) |-> s[1 + ((k - 1) % Len(s))]]

(* One copy more, behind those there are; hence what FlattenSeq computes   *)
(* from the first to the last.                                             *)
LEMMA CopiesAre ==
  ASSUME NEW X, NEW s \in Seq(X), Len(s) > 0
  PROVE  /\ Copies(s, 1) = s
         /\ \A n \in Nat : Copies(s, n + 1) = Copies(s, n) \o s
<1> DEFINE L == Len(s)
<1>1. L \in Nat \ {0}
  OBVIOUS
<1>2. Copies(s, 1) = s
  <2>1. \A k \in 1..L : (k - 1) % L = k - 1
    BY <1>1
  <2> QED BY <2>1 DEF Copies
<1>3. ASSUME NEW n \in Nat
      PROVE  Copies(s, n + 1) = Copies(s, n) \o s
  <2> DEFINE m == n * L
  <2>1. m \in Nat /\ (n + 1) * L = m + L
    BY <1>1
  <2>2. \A k \in 1..m : s[1 + ((k - 1) % L)] \in X
    BY <1>1
  <2>3. Copies(s, n) \in Seq(X) /\ Len(Copies(s, n)) = m
    BY <2>1, <2>2 DEF Copies
  <2>4. \A k \in 1..L : (m + k - 1) % L = k - 1
    <3> SUFFICES ASSUME NEW k \in 1..L PROVE (m + k - 1) % L = k - 1
      OBVIOUS
    <3>1. (n * L + (k - 1)) % L = k - 1
      BY <1>1, OneMore
    <3> QED BY <2>1, <3>1
  <2> HIDE DEF m, L
  <2>5. DOMAIN Copies(s, n + 1) = 1..(m + L)
    BY <2>1 DEF Copies, L
  <2>6. ASSUME NEW k \in 1..(m + L)
        PROVE  Copies(s, n + 1)[k] = (Copies(s, n) \o s)[k]
    <3>1. Copies(s, n + 1)[k] = s[1 + ((k - 1) % L)]
      BY <2>1 DEF Copies, L
    <3>2. CASE k <= m
      <4>1. Copies(s, n)[k] = s[1 + ((k - 1) % L)]
        BY <2>1, <3>2 DEF Copies, L, m
      <4> QED BY <2>1, <2>3, <3>1, <3>2, <4>1, <1>1 DEF L
    <3>3. CASE k > m
      <4>1. k - m \in 1..L /\ (k - 1) % L = k - m - 1
        <5>1. k - m \in 1..L
          BY <1>1, <2>1, <3>3
        <5> QED BY <2>1, <2>4, <5>1
      <4>2. (Copies(s, n) \o s)[k] = s[k - m]
        BY <2>1, <2>3, <3>3, <4>1, <1>1 DEF L
      <4> QED BY <3>1, <4>1, <4>2, <1>1, <2>1
    <3>4. k <= m \/ k > m
      BY <1>1, <2>1 DEF L
    <3> QED BY <3>2, <3>3, <3>4
  <2>7. Copies(s, n) \o s \in Seq(X) /\ Len(Copies(s, n) \o s) = m + L
    BY <2>1, <2>3, <1>1 DEF L
  <2>8. DOMAIN (Copies(s, n) \o s) = 1..(m + L)
    BY <2>7
  <2>9. Copies(s, n + 1) = [k \in 1..(m + L) |-> Copies(s, n + 1)[k]]
    BY <2>1 DEF Copies, L
  <2>10. Copies(s, n) \o s = [k \in 1..(m + L) |-> (Copies(s, n) \o s)[k]]
    <3>1. \A t \in Seq(X) : t = [k \in 1..Len(t) |-> t[k]]
      OBVIOUS
    <3> QED BY <2>7, <3>1
  <2> QED BY <2>6, <2>9, <2>10
<1> QED BY <1>2, <1>3

LEMMA RepeatedIs ==
  ASSUME NEW X, NEW s \in Seq(X), NEW times \in Nat
  PROVE  /\ Repeated(s, times) \in Seq(X)
         /\ Len(Repeated(s, times)) = times * Len(s)
         /\ \A k \in 1..(times * Len(s)) :
              Repeated(s, times)[k] = s[1 + ((k - 1) % Len(s))]
<1> DEFINE S == [i \in 1..times |-> s]
<1>1. Len(S) = times /\ \A i \in 1..times : S[i] = s
  OBVIOUS
<1>2. Repeated(s, times) = Seqs!FlattenSeq(S)
  BY DEF Repeated
<1>3. CASE times = 0
  <2>1. Repeated(s, times) = S /\ S = <<>>
    BY <1>1, <1>2, <1>3 DEF Seqs!FlattenSeq
  <2>2. times * Len(s) = 0
    BY <1>3
  <2> QED BY <2>1, <2>2
<1>4. CASE times > 0
  <2> DEFINE Longer(g) == [i \in 1..times |-> IF i = 1 THEN s ELSE g[i - 1] \o s]
             Eq(g) == g = Longer(g)
  <2>1. PICK f : f = (CHOOSE g : g = Joining(S, g)) /\ Repeated(s, times) = f[times]
    <3>1. Len(S) # 0
      BY <1>1, <1>4
    <3> HIDE DEF S
    <3>2. \E f : /\ f = (CHOOSE g : g = Joining(S, g))
                 /\ Seqs!FlattenSeq(S) = f[Len(S)]
      BY <3>1, Flattened
    <3> QED BY <1>1, <1>2, <3>2
  <2>2. \A g : Eq(g) <=> g = Joining(S, g)
    <3>1. ASSUME NEW g PROVE Longer(g) = Joining(S, g)
      BY <1>1 DEF Joining
    <3> QED BY <3>1
  <2>3. f = CHOOSE g : Eq(g)
    BY <2>1, <2>2
  <2> DEFINE h == IF Len(s) > 0 THEN [i \in 1..times |-> Copies(s, i)]
                  ELSE [i \in 1..times |-> <<>>]
  <2>4. Eq(h)
    <3>1. CASE Len(s) > 0
      <4>1. \A i \in 1..times :
              Copies(s, i) = IF i = 1 THEN s ELSE Copies(s, i - 1) \o s
        <5> SUFFICES ASSUME NEW i \in 1..times, i # 1 
                     PROVE  Copies(s, i) = Copies(s, i - 1) \o s
          BY <3>1, CopiesAre
        <5>1. i - 1 \in Nat /\ (i - 1) + 1 = i
          OBVIOUS
        <5> QED BY <3>1, <5>1, CopiesAre
      <4> HIDE DEF Copies
      <4>2. \A i \in 1..times : i # 1 => i - 1 \in 1..times
        OBVIOUS
      <4> QED BY <3>1, <4>1, <4>2
    <3>2. CASE ~(Len(s) > 0)
      <4>1. s = <<>>
        BY <3>2
      <4>2. \A i \in 1..times : i # 1 => i - 1 \in 1..times
        OBVIOUS
      <4> QED BY <3>2, <4>1, <4>2
    <3> QED BY <3>1, <3>2
  <2> HIDE DEF Eq
  <2>5. Eq(f)
    BY <2>3, <2>4
  <2>6. \A i \in 1..times : f[i] = h[i]
    <3>1. f = [i \in 1..times |-> IF i = 1 THEN s ELSE f[i - 1] \o s]
      BY <2>5 DEF Eq
    <3>2. h = [i \in 1..times |-> IF i = 1 THEN s ELSE h[i - 1] \o s]
      BY <2>4 DEF Eq
    <3> HIDE DEF h
    <3> DEFINE Bad == {i \in 1..times : f[i] # h[i]}
    <3> SUFFICES ASSUME Bad # {} PROVE FALSE
      OBVIOUS
    <3>3. PICK m \in Bad : \A i \in Bad : m <= i
      <4>1. Bad \in SUBSET Nat
        OBVIOUS
      <4> HIDE DEF Bad
      <4> QED BY <4>1, LeastOf
    <3>4. m # 1
      BY <3>1, <3>2, <3>3
    <3>5. m - 1 \in 1..times /\ m - 1 \notin Bad
      BY <3>3, <3>4
    <3>6. m \in 1..times /\ f[m] # h[m] /\ f[m - 1] = h[m - 1]
      BY <3>3, <3>5
    <3>7. f[m] = f[m - 1] \o s
      BY <3>1, <3>4, <3>6
    <3>8. h[m] = h[m - 1] \o s
      BY <3>2, <3>4, <3>6
    <3> QED BY <3>6, <3>7, <3>8
  <2>7. Repeated(s, times) = h[times]
    BY <1>4, <2>1, <2>6, times \in 1..times
  <2>8. CASE Len(s) > 0
    <3>1. Repeated(s, times) = Copies(s, times)
      BY <1>4, <2>7, <2>8
    <3> DEFINE L == Len(s)
               n == times * L
    <3>2. L \in Nat \ {0} /\ n \in Nat
      BY <2>8
    <3>3. \A k \in 1..n : s[1 + ((k - 1) % L)] \in X
      BY <3>2
    <3>4. Repeated(s, times) = [k \in 1..n |-> s[1 + ((k - 1) % L)]]
      BY <3>1 DEF Copies
    <3> HIDE DEF n, L
    <3>5. Repeated(s, times) \in Seq(X) /\ Len(Repeated(s, times)) = n
      BY <3>2, <3>3, <3>4
    <3> QED BY <3>4, <3>5 DEF n, L
  <2>9. CASE ~(Len(s) > 0)
    <3>1. Len(s) = 0 /\ times * Len(s) = 0
      BY <2>9
    <3>2. Repeated(s, times) = <<>>
      BY <1>4, <2>7, <2>9
    <3> QED BY <3>1, <3>2
  <2> QED BY <2>8, <2>9
<1> QED BY <1>3, <1>4

(* A part of the text.                                                     *)
LEMMA PartOfText ==
  ASSUME BufInv, Exists, NEW a \in 0..len, NEW b \in a..len
  PROVE  SubSeq(Text, a + 1, b) = StringOf(buf, a, b - a)
<1> DEFINE X == {buf[p] : p \in 0..(len - 1)}
<1>1. len \in Nat
  BY DEF BufInv
<1>2. /\ Text \in Seq(X) /\ Len(Text) = len
      /\ \A k \in 1..len : Text[k] = buf[k - 1]
  BY <1>1 DEF Text, StringOf
<1> HIDE DEF X
<1>3. SubSeq(Text, a + 1, b) = [k \in 1..(b - a) |-> Text[a + k]]
  BY <1>1, <1>2
<1>4. \A k \in 1..(b - a) : Text[a + k] = buf[a + k - 1]
  BY <1>1, <1>2
<1> QED BY <1>3, <1>4 DEF StringOf

LEMMA PartsOfText ==
  ASSUME BufInv, Exists, NEW sp \in Positions, NEW ep \in Positions
  PROVE  LET from == From(len, sp, ep)
             to == To(len, sp, ep)
         IN  /\ Before(Text, sp, ep) = StringOf(buf, 0, from)
             /\ Between(Text, sp, ep) = StringOf(buf, from, to - from)
             /\ Behind(Text, sp, ep) = StringOf(buf, to, len - to)
<1> DEFINE from == From(len, sp, ep)
           to == To(len, sp, ep)
<1>1. len \in Nat /\ sp \in Int /\ ep \in Int
  BY StrBufAssumption DEF BufInv
<1>2. Len(Text) = len
  BY <1>1 DEF Text, StringOf
<1>3. Sets!Min(Ends(Text, sp, ep)) = from /\ Sets!Max(Ends(Text, sp, ep)) = to
  BY <1>1, <1>2, EndsAre
<1>4. from \in 0..len /\ to \in from..len /\ from \in 0..from
  BY <1>1, EndsInOrder
<1> HIDE DEF from, to
<1>5. Before(Text, sp, ep) = StringOf(buf, 0, from)
  <2> DEFINE start == 0
  <2>1. /\ start \in 0..len /\ from \in start..len
        /\ start + 1 = 1 /\ from - start = from
    BY <1>1, <1>4
  <2> HIDE DEF start
  <2>2. SubSeq(Text, start + 1, from) = StringOf(buf, start, from - start)
    BY <2>1, PartOfText
  <2> QED BY <1>3, <2>1, <2>2 DEF Before, start
<1>6. Between(Text, sp, ep) = StringOf(buf, from, to - from)
  BY <1>3, <1>4, PartOfText DEF Between
<1>7. Behind(Text, sp, ep) = StringOf(buf, to, len - to)
  <2>1. to \in 0..len /\ len \in to..len
    BY <1>1, <1>4
  <2> QED BY <1>2, <1>3, <2>1, PartOfText DEF Behind
<1> QED BY <1>5, <1>6, <1>7 DEF from, to

(* Both ways to take a part out give the same.                             *)
LEMMA FreedPart ==
  ASSUME BufInv, Exists, NEW sp \in Positions, NEW ep \in Positions,
         Ordered(sp, ep)
  PROVE  FreedTo(sp, ep) = Substring(sp, ep)
<1> DEFINE a == normalize(len, sp)
           b == normalize(len, ep)
           moved == memmove(buf, 0, a, b - a)
<1>1. /\ len \in Nat /\ capacity \in Nat /\ len < capacity
      /\ DOMAIN buf = 0..(capacity - 1)
  BY DEF BufInv, WithinCapacity
<1>2. a \in Nat /\ b \in Nat /\ a <= b /\ b <= len
  BY <1>1, StrBufAssumption, Normalized DEF Ordered
<1>3. From(len, sp, ep) = a /\ To(len, sp, ep) = b
  BY <1>2 DEF From, To, MinOf, MaxOf
<1>4. FreedTo(sp, ep) = StringOf(moved, 0, b - a)
  BY DEF FreedTo
<1>5. Substring(sp, ep) = StringOf(buf, a, b - a)
  BY <1>3 DEF Substring
<1> HIDE DEF a, b
<1>6. \A k \in 1..(b - a) : moved[0 + k - 1] = buf[a + k - 1]
  <2> SUFFICES ASSUME NEW k \in 1..(b - a)
               PROVE  moved[0 + k - 1] = buf[a + k - 1]
    OBVIOUS
  <2>1. /\ 0 + k - 1 \in DOMAIN buf /\ 0 + k - 1 \in 0..(0 + (b - a) - 1)
        /\ a + ((0 + k - 1) - 0) = a + k - 1
    BY <1>1, <1>2
  <2> QED BY <2>1 DEF memmove
<1> HIDE DEF moved
<1> QED BY <1>4, <1>5, <1>6 DEF StringOf

(* What is moved, and what is put in its place.                            *)
LEMMA PartsTyped ==
  ASSUME NEW s \in Parts
  PROVE  \E X : s \in Seq(X)
<1>1. PICK t \in Strings, sp \in Positions, ep \in Positions : s = Part(t, sp, ep)
  BY DEF Parts
<1> DEFINE X == {t[k] : k \in DOMAIN t}
<1>2. t \in Seq(X) /\ sp \in Int /\ ep \in Int
  BY StrBufAssumption
<1> HIDE DEF X
<1>3. Len(t) \in Nat
  BY <1>2
<1> DEFINE m == From(Len(t), sp, ep)
           n == To(Len(t), sp, ep)
<1>4. m \in Nat /\ n \in Nat /\ m <= n /\ n <= Len(t)
  BY <1>2, <1>3, EndsInOrder
<1>5. s = SubSeq(t, m + 1, n)
  BY <1>1 DEF Part
<1> HIDE DEF m, n
<1>6. SubSeq(t, m + 1, n) \in Seq(X)
  BY <1>2, <1>4
<1> QED BY <1>5, <1>6

(* Where the characters of sequences are that are joined.                  *)
LEMMA JoinedTwo ==
  \A Z : \A A, B \in Seq(Z) :
    /\ A \o B \in Seq(Z) /\ Len(A \o B) = Len(A) + Len(B)
    /\ \A k \in 1..Len(A) : (A \o B)[k] = A[k]
    /\ \A k \in (Len(A) + 1)..(Len(A) + Len(B)) : (A \o B)[k] = B[k - Len(A)]
<1> TAKE Z
<1> TAKE A, B \in Seq(Z)
<1>1. A \o B \in Seq(Z) /\ Len(A \o B) = Len(A) + Len(B)
  OBVIOUS
<1>2. /\ \A k \in 1..Len(A) : (A \o B)[k] = A[k]
      /\ \A k \in (Len(A) + 1)..(Len(A) + Len(B)) : (A \o B)[k] = B[k - Len(A)]
  OBVIOUS
<1> QED BY <1>1, <1>2

LEMMA Joined ==
  \A Z : \A A, B, C \in Seq(Z) :
    /\ A \o B \o C \in Seq(Z)
    /\ Len(A \o B \o C) = Len(A) + Len(B) + Len(C)
    /\ \A k \in 1..Len(A) : (A \o B \o C)[k] = A[k]
    /\ \A k \in (Len(A) + 1)..(Len(A) + Len(B)) :
         (A \o B \o C)[k] = B[k - Len(A)]
    /\ \A k \in (Len(A) + Len(B) + 1)..(Len(A) + Len(B) + Len(C)) :
         (A \o B \o C)[k] = C[k - (Len(A) + Len(B))]
<1> TAKE Z
<1> TAKE A, B, C \in Seq(Z)
<1> DEFINE D == A \o B
<1>1. D \in Seq(Z) /\ Len(D) = Len(A) + Len(B)
  BY JoinedTwo, Zenon
<1>2. /\ \A k \in 1..Len(A) : D[k] = A[k]
      /\ \A k \in (Len(A) + 1)..(Len(A) + Len(B)) : D[k] = B[k - Len(A)]
  BY JoinedTwo, Zenon
<1> HIDE DEF D
<1>3. /\ D \o C \in Seq(Z) /\ Len(D \o C) = Len(D) + Len(C)
      /\ \A k \in 1..Len(D) : (D \o C)[k] = D[k]
      /\ \A k \in (Len(D) + 1)..(Len(D) + Len(C)) : (D \o C)[k] = C[k - Len(D)]
  <2>1. D \in Seq(Z)
    BY <1>1
  <2> QED BY <2>1, JoinedTwo, Zenon
<1>4. \A k \in 1..Len(A) : (D \o C)[k] = A[k]
  BY <1>1, <1>2, <1>3
<1>5. \A k \in (Len(A) + 1)..(Len(A) + Len(B)) : (D \o C)[k] = B[k - Len(A)]
  <2> SUFFICES ASSUME NEW k \in (Len(A) + 1)..(Len(A) + Len(B))
               PROVE  (D \o C)[k] = B[k - Len(A)]
    OBVIOUS
  <2>1. k \in 1..Len(D)
    BY <1>1
  <2> QED BY <1>2, <1>3, <2>1
<1> QED BY <1>1, <1>3, <1>4, <1>5 DEF D

LEMMA ReplacedText ==
  ASSUME BufInv, Exists, NEW s \in Parts, NEW times \in Repetitions,
         NEW sp \in Positions, NEW ep \in Positions
  PROVE  LET r == Replaced(sp, ep, times, s)
         IN  StringOf(r.buf, 0, r.len) =
               Before(Text, sp, ep) \o Repeated(s, times) \o Behind(Text, sp, ep)
<1> DEFINE from == From(len, sp, ep)
           to == To(len, sp, ep)
           addlen == Len(s) * times
           length == len + addlen - (to - from)
           bytes == IF length = len THEN capacity ELSE Ensured(length + 1)
           grown == realloc(buf, bytes)
           moved == IF length = len THEN buf
                    ELSE memmove(grown, from + addlen, to, len + 1 - to)
           made == Terminated(memcpy(moved, from, times, s), length)
           middle == Repeated(s, times)
           A == StringOf(buf, 0, from)
           C == StringOf(buf, to, len - to)
<1>1. sp \in Int /\ ep \in Int
  BY StrBufAssumption
<1>2. /\ from \in Nat /\ to \in Nat /\ len \in Nat
      /\ from <= to /\ to <= len
  BY <1>1, EndsInOrder DEF BufInv
<1>3. addlen \in Nat /\ times * Len(s) = addlen
  BY AddedLength
<1>4. Replaced(sp, ep, times, s) = [buf |-> made, len |-> length, capacity |-> bytes]
  BY DEF Replaced
<1>5. /\ len < capacity /\ capacity \in Nat
      /\ DOMAIN buf = 0..(capacity - 1)
  BY DEF BufInv, WithinCapacity
<1>6. PICK X : s \in Seq(X)
  BY PartsTyped
<1>7. middle \in Seq(X) /\ Len(middle) = addlen
      /\ \A k \in 1..addlen : middle[k] = s[1 + ((k - 1) % Len(s))]
  BY <1>3, <1>6, StrBufAssumption, RepeatedIs
<1>8. Before(Text, sp, ep) = A /\ Behind(Text, sp, ep) = C
  BY PartsOfText
<1> HIDE DEF addlen, from, to, middle
<1>9. length \in Nat /\ length = from + addlen + (len - to)
  BY <1>2, <1>3
<1>10. bytes \in Nat /\ bytes > length /\ bytes >= capacity
  <2>1. CASE length = len
    BY <1>5, <2>1
  <2>2. CASE length # len
    <3>1. length + 1 \in Nat
      BY <1>9
    <3> HIDE DEF length
    <3>2. bytes = Ensured(length + 1)
      BY <2>2
    <3> HIDE DEF bytes
    <3> QED BY <1>2, <1>5, <1>9, <3>1, <3>2, EnsuredEnough
  <2> QED BY <2>1, <2>2
(* What is before the part stays, and what is behind it moves.             *)
<1>11. /\ DOMAIN moved = 0..(bytes - 1)
       /\ \A p \in 0..(from - 1) : moved[p] = buf[p]
       /\ \A p \in (from + addlen)..(length - 1) :
            moved[p] = buf[to + (p - (from + addlen))]
  <2>1. CASE length = len
    <3>1. from + addlen = to /\ moved = buf /\ bytes = capacity
      BY <1>2, <1>3, <2>1
    <3>2. \A p \in (from + addlen)..(length - 1) :
            to + (p - (from + addlen)) = p
      BY <1>2, <1>3, <1>9, <3>1
    <3> HIDE DEF moved, bytes, length
    <3> QED BY <1>5, <3>1, <3>2
  <2>2. CASE length # len
    <3>1. /\ DOMAIN grown = 0..(bytes - 1)
          /\ \A p \in 0..(capacity - 1) : grown[p] = buf[p]
      BY <1>5, <1>10 DEF realloc
    <3>2. moved = memmove(grown, from + addlen, to, len + 1 - to)
      BY <2>2
    <3> HIDE DEF grown, bytes, moved, length
    <3>3. DOMAIN moved = 0..(bytes - 1)
      BY <3>1, <3>2 DEF memmove
    <3>4. ASSUME NEW p \in 0..(from - 1) PROVE moved[p] = buf[p]
      <4>1. /\ p \notin (from + addlen)..((from + addlen) + (len + 1 - to) - 1)
            /\ p \in 0..(bytes - 1) /\ p \in 0..(capacity - 1)
        BY <1>2, <1>3, <1>5, <1>10
      <4> QED BY <3>1, <3>2, <4>1 DEF memmove
    <3>5. ASSUME NEW p \in (from + addlen)..(length - 1)
          PROVE  moved[p] = buf[to + (p - (from + addlen))]
      <4>1. /\ p \in (from + addlen)..((from + addlen) + (len + 1 - to) - 1)
            /\ p \in 0..(bytes - 1)
            /\ to + (p - (from + addlen)) \in 0..(capacity - 1)
        BY <1>2, <1>3, <1>5, <1>9, <1>10
      <4>2. moved[p] = grown[to + (p - (from + addlen))]
        BY <3>1, <3>2, <4>1 DEF memmove
      <4> QED BY <3>1, <4>1, <4>2
    <3> QED BY <3>3, <3>4, <3>5
  <2> QED BY <2>1, <2>2
<1> HIDE DEF moved, bytes, length
<1>12. \A p \in 0..(length - 1) :
         made[p] = IF p \in from..(from + addlen - 1)
                   THEN s[1 + ((p - from) % Len(s))] ELSE moved[p]
  <2> SUFFICES ASSUME NEW p \in 0..(length - 1)
               PROVE  made[p] = IF p \in from..(from + addlen - 1)
                                THEN s[1 + ((p - from) % Len(s))] ELSE moved[p]
    OBVIOUS
  <2>1. p \in 0..(bytes - 1) /\ ~(p > length)
    BY <1>9, <1>10
  <2>2. DOMAIN memcpy(moved, from, times, s) = 0..(bytes - 1)
    BY <1>11 DEF memcpy
  <2>3. made[p] = memcpy(moved, from, times, s)[p]
    BY <2>1, <2>2 DEF Terminated
  <2> QED BY <1>3, <1>11, <2>1, <2>3 DEF memcpy
<1> HIDE DEF made
<1> DEFINE T == StringOf(made, 0, length)
           Y == {buf[p] : p \in 0..(len - 1)}
           Z == X \cup Y
<1>13. /\ A \in Seq(Z) /\ Len(A) = from
       /\ \A k \in 1..from : A[k] = buf[k - 1]
  <2>1. \A k \in 1..from : buf[0 + k - 1] \in Z /\ 0 + k - 1 = k - 1
    BY <1>2
  <2> HIDE DEF Z
  <2> QED BY <1>2, <2>1 DEF StringOf
<1>14. /\ C \in Seq(Z) /\ Len(C) = len - to
       /\ \A k \in 1..(len - to) : C[k] = buf[to + k - 1]
  <2>1. \A k \in 1..(len - to) : buf[to + k - 1] \in Z
    BY <1>2
  <2> HIDE DEF Z
  <2> QED BY <1>2, <2>1 DEF StringOf
<1>15. middle \in Seq(Z)
  BY <1>7
<1>16. T = [k \in 1..length |-> made[k - 1]]
  <2>1. \A k \in 1..length : 0 + k - 1 = k - 1
    OBVIOUS
  <2> QED BY <2>1 DEF StringOf
<1> HIDE DEF A, C, Z, T
<1> DEFINE U == A \o middle \o C
<1>17. /\ U \in Seq(Z) /\ Len(U) = length
       /\ \A k \in 1..from : U[k] = A[k]
       /\ \A k \in (from + 1)..(from + addlen) : U[k] = middle[k - from]
       /\ \A k \in (from + addlen + 1)..length : U[k] = C[k - (from + addlen)]
  <2> DEFINE a == Len(A)  b == Len(middle)  c == Len(C)
  <2>1. /\ U \in Seq(Z) /\ Len(U) = a + b + c
        /\ \A k \in 1..a : U[k] = A[k]
        /\ \A k \in (a + 1)..(a + b) : U[k] = middle[k - a]
        /\ \A k \in (a + b + 1)..(a + b + c) : U[k] = C[k - (a + b)]
    <3>1. A \in Seq(Z)
      BY <1>13
    <3>2. C \in Seq(Z)
      BY <1>14
    <3> QED BY <1>15, <3>1, <3>2, Joined, SMT
  <2>2. a = from /\ b = addlen /\ c = len - to /\ a + b + c = length
    BY <1>7, <1>9, <1>13, <1>14
  <2> HIDE DEF U, a, b, c
  <2> QED BY <2>1, <2>2
<1> HIDE DEF U
<1>18. ASSUME NEW k \in 1..length PROVE U[k] = made[k - 1]
  <2>0. k - 1 \in 0..(length - 1)
    BY <1>9
  <2>1. CASE k <= from
    <3>1. U[k] = A[k]
      BY <1>2, <1>17, <2>1
    <3>2. /\ k - 1 \in 0..(from - 1) /\ k \in 1..from
          /\ k - 1 \notin from..(from + addlen - 1)
      BY <1>2, <1>3, <1>9, <2>1
    <3> QED BY <1>11, <1>12, <1>13, <2>0, <3>1, <3>2
  <2>2. CASE k > from /\ k <= from + addlen
    <3>1. U[k] = middle[k - from] /\ k - from \in 1..addlen
      <4>1. k \in (from + 1)..(from + addlen) /\ k - from \in 1..addlen
        BY <1>2, <1>3, <1>9, <2>2
      <4> QED BY <1>17, <4>1
    <3>2. k - 1 \in from..(from + addlen - 1) /\ (k - from) - 1 = (k - 1) - from
      BY <1>2, <1>3, <1>9, <2>2
    <3> QED BY <1>7, <1>12, <2>0, <3>1, <3>2
  <2>3. CASE k > from + addlen
    <3>1. U[k] = C[k - (from + addlen)] /\ k - (from + addlen) \in 1..(len - to)
      <4>1. /\ k \in (from + addlen + 1)..length
            /\ k - (from + addlen) \in 1..(len - to)
        BY <1>2, <1>3, <1>9, <2>3
      <4> QED BY <1>17, <4>1
    <3>2. /\ k - 1 \notin from..(from + addlen - 1)
          /\ k - 1 \in (from + addlen)..(length - 1)
          /\ to + (k - (from + addlen)) - 1 = to + ((k - 1) - (from + addlen))
      BY <1>2, <1>3, <1>9, <2>3
    <3> QED BY <1>11, <1>12, <1>14, <2>0, <3>1, <3>2
  <2>4. k <= from \/ (k > from /\ k <= from + addlen) \/ k > from + addlen
    BY <1>2, <1>3, <1>9
  <2> QED BY <2>1, <2>2, <2>3, <2>4
<1>19. U = T
  <2>1. \A t \in Seq(Z) : t = [k \in 1..Len(t) |-> t[k]]
    OBVIOUS
  <2>2. U = [k \in 1..length |-> U[k]]
    BY <1>17, <2>1
  <2> QED BY <1>16, <1>18, <2>2
<1>20. LET r == Replaced(sp, ep, times, s)
       IN  StringOf(r.buf, 0, r.len) = T
  BY <1>4 DEF T
<1>21. Before(Text, sp, ep) \o Repeated(s, times) \o Behind(Text, sp, ep) = U
  BY <1>8 DEF U, middle
<1> QED BY <1>19, <1>20, <1>21

(* Whatever was done to a string buffer, to replace, copy or take out a    *)
(* part of it, at any two positions, is to do so with its text.            *)
THEOREM TextIsEdited == LibrarySpec => []EditsAsText
<1>1. BufInv => EditsAsText
  <2>1. ASSUME BufInv, Exists, NEW sp \in Positions, NEW ep \in Positions
        PROVE  /\ Substring(sp, ep) = Between(Text, sp, ep)
               /\ Ordered(sp, ep) => FreedTo(sp, ep) = Between(Text, sp, ep)
    <3>1. Substring(sp, ep) = Between(Text, sp, ep)
      BY <2>1, PartsOfText DEF Substring
    <3> QED BY <2>1, <3>1, FreedPart
  <2> QED BY <2>1, ReplacedText DEF EditsAsText
<1> QED BY BufAlways, PartsAlone, <1>1, PTL

-----------------------------------------------------------------------------
(* The linked list: its entries are those of a sequence, linked in its     *)
(* order.                                                                  *)

(* The k-th entry, and null before the first and behind the last.          *)
At(s, k) == IF k \in 1..Len(s) THEN s[k] ELSE null

IsList(l) ==
  /\ l = [first |-> l.first, last |-> l.last, size |-> l.size, entry |-> l.entry]
  /\ null \notin DOMAIN l.entry
  /\ l.entry = [e \in DOMAIN l.entry |->
                  [data |-> l.entry[e].data, previous |-> l.entry[e].previous,
                   next |-> l.entry[e].next]]

Placed(s) == {s[k] : k \in 1..Len(s)}

Distinct(s) == \A j, k \in 1..Len(s) : s[j] = s[k] => j = k

Chained(l, s) ==
  /\ s \in Seq(1..MaxListSize) /\ Distinct(s)
  /\ IsList(l)
  /\ l.first = At(s, 1) /\ l.last = At(s, Len(s)) /\ l.size = Len(s)
  /\ DOMAIN l.entry = Placed(s)
  /\ \A k \in 1..Len(s) : /\ l.entry[s[k]].previous = At(s, k - 1)
                          /\ l.entry[s[k]].next = At(s, k + 1)

(* A link that is set.                                                     *)
LEMMA NextSet ==
  ASSUME NEW l, IsList(l), NEW e \in DOMAIN l.entry \cup {null}, NEW n
  PROVE  /\ IsList(SetNext(l, e, n))
         /\ SetNext(l, e, n) =
              [first |-> IF e = null THEN n ELSE l.first, last |-> l.last,
               size |-> l.size,
               entry |-> [f \in DOMAIN l.entry |->
                 [data |-> l.entry[f].data, previous |-> l.entry[f].previous,
                  next |-> IF f = e THEN n ELSE l.entry[f].next]]]
<1>1. CASE e = null
  <2>1. SetNext(l, e, n) = [first |-> n, last |-> l.last, size |-> l.size, entry |-> l.entry]
    BY <1>1 DEF SetNext, IsList
  <2>2. l.entry = [f \in DOMAIN l.entry |->
                 [data |-> l.entry[f].data, previous |-> l.entry[f].previous,
                  next |-> IF f = e THEN n ELSE l.entry[f].next]]
    BY <1>1 DEF IsList
  <2> QED BY <1>1, <2>1, <2>2 DEF IsList
<1>2. CASE e # null
  <2> DEFINE E == [f \in DOMAIN l.entry |->
                 [data |-> l.entry[f].data, previous |-> l.entry[f].previous,
                  next |-> IF f = e THEN n ELSE l.entry[f].next]]
  <2>1. SetNext(l, e, n) = [l EXCEPT !.entry = [l.entry EXCEPT ![e] = [l.entry[e] EXCEPT !.next = n]]]
    BY <1>2 DEF SetNext
  <2>2. [l.entry[e] EXCEPT !.next = n] = [data |-> l.entry[e].data, previous |-> l.entry[e].previous, next |-> n]
    BY <1>2 DEF IsList
  <2>3. [l.entry EXCEPT ![e] = [l.entry[e] EXCEPT !.next = n]] = E
    BY <1>2, <2>2 DEF IsList
  <2>4. SetNext(l, e, n) = [first |-> l.first, last |-> l.last, size |-> l.size, entry |-> E]
    <3> HIDE DEF E
    <3> QED BY <2>1, <2>3 DEF IsList
  <2> QED BY <1>2, <2>4 DEF IsList
<1> QED BY <1>1, <1>2

LEMMA PreviousSet ==
  ASSUME NEW l, IsList(l), NEW e \in DOMAIN l.entry \cup {null}, NEW p
  PROVE  /\ IsList(SetPrevious(l, e, p))
         /\ SetPrevious(l, e, p) =
              [first |-> l.first, last |-> IF e = null THEN p ELSE l.last,
               size |-> l.size,
               entry |-> [f \in DOMAIN l.entry |->
                 [data |-> l.entry[f].data, 
                  previous |-> IF f = e THEN p ELSE l.entry[f].previous,
                  next |-> l.entry[f].next]]]
<1>1. CASE e = null
  <2>1. SetPrevious(l, e, p) = [first |-> l.first, last |-> p, size |-> l.size, entry |-> l.entry]
    BY <1>1 DEF SetPrevious, IsList
  <2>2. l.entry = [f \in DOMAIN l.entry |->
                 [data |-> l.entry[f].data,
                  previous |-> IF f = e THEN p ELSE l.entry[f].previous,
                  next |-> l.entry[f].next]]
    BY <1>1 DEF IsList
  <2> QED BY <1>1, <2>1, <2>2 DEF IsList
<1>2. CASE e # null
  <2> DEFINE E == [f \in DOMAIN l.entry |->
                 [data |-> l.entry[f].data,
                  previous |-> IF f = e THEN p ELSE l.entry[f].previous,
                  next |-> l.entry[f].next]]
  <2>1. SetPrevious(l, e, p) = [l EXCEPT !.entry = [l.entry EXCEPT ![e] = [l.entry[e] EXCEPT !.previous = p]]]
    BY <1>2 DEF SetPrevious
  <2>2. [l.entry[e] EXCEPT !.previous = p] = [data |-> l.entry[e].data, previous |-> p, next |-> l.entry[e].next]
    BY <1>2 DEF IsList
  <2>3. [l.entry EXCEPT ![e] = [l.entry[e] EXCEPT !.previous = p]] = E
    BY <1>2, <2>2 DEF IsList
  <2>4. SetPrevious(l, e, p) = [first |-> l.first, last |-> l.last, size |-> l.size, entry |-> E]
    <3> HIDE DEF E
    <3> QED BY <2>1, <2>3 DEF IsList
  <2> QED BY <1>2, <2>4 DEF IsList
<1> QED BY <1>1, <1>2

-----------------------------------------------------------------------------
(* One entry more, and one less.                                           *)
Put(s, k, e) ==
  [j \in 1..(Len(s) + 1) |-> IF j < k THEN s[j] ELSE IF j = k THEN e ELSE s[j - 1]]
Cut(s, k) == [j \in 1..(Len(s) - 1) |-> IF j < k THEN s[j] ELSE s[j + 1]]

(* A sequence that something is put into, as the abstract list says it.    *)
LEMMA PutIs ==
  \A X : \A s \in Seq(X) : \A k \in 1..(Len(s) + 1), e \in X :
    /\ Put(s, k, e) \in Seq(X) /\ Len(Put(s, k, e)) = Len(s) + 1
    /\ \A j \in 1..(Len(s) + 1) :
         Put(s, k, e)[j] = IF j < k THEN s[j] ELSE IF j = k THEN e ELSE s[j - 1]
    /\ Sequence!Seqs!InsertAt(s, k, e) = Put(s, k, e)
<1> TAKE X
<1> TAKE s \in Seq(X)
<1> TAKE k \in 1..(Len(s) + 1), e \in X
<1>1. Len(s) \in Nat /\ k \in Nat
  OBVIOUS
<1>2. \A j \in 1..(Len(s) + 1) :
        (IF j < k THEN s[j] ELSE IF j = k THEN e ELSE s[j - 1]) \in X
  OBVIOUS
<1>3. Put(s, k, e) \in Seq(X) /\ Len(Put(s, k, e)) = Len(s) + 1
  BY <1>1, <1>2 DEF Put
<1> DEFINE A == SubSeq(s, 1, k - 1)
           C == SubSeq(s, k, Len(s))
           B == <<e>>
           U == A \o B \o C
<1>4. A \in Seq(X) /\ Len(A) = k - 1 /\ \A j \in 1..(k - 1) : A[j] = s[j]
  OBVIOUS
<1>5. /\ C \in Seq(X) /\ Len(C) = Len(s) + 1 - k
      /\ \A j \in 1..(Len(s) + 1 - k) : C[j] = s[k + j - 1]
  OBVIOUS
<1>6. B \in Seq(X) /\ Len(B) = 1 /\ B[1] = e
  OBVIOUS
<1>7. Sequence!Seqs!InsertAt(s, k, e) = U
  BY DEF Sequence!Seqs!InsertAt
<1> HIDE DEF A, B, C
<1>8. /\ U \in Seq(X) /\ Len(U) = Len(A) + Len(B) + Len(C)
      /\ \A j \in 1..Len(A) : U[j] = A[j]
      /\ \A j \in (Len(A) + 1)..(Len(A) + Len(B)) : U[j] = B[j - Len(A)]
      /\ \A j \in (Len(A) + Len(B) + 1)..(Len(A) + Len(B) + Len(C)) :
           U[j] = C[j - (Len(A) + Len(B))]
  <2>1. A \in Seq(X)
    BY <1>4
  <2>2. B \in Seq(X)
    BY <1>6
  <2>3. C \in Seq(X)
    BY <1>5
  <2> QED BY <2>1, <2>2, <2>3, Joined, SMT
<1> HIDE DEF U
<1>9. Len(U) = Len(s) + 1
  BY <1>1, <1>4, <1>5, <1>6, <1>8
<1>10. ASSUME NEW j \in 1..(Len(s) + 1)
       PROVE  U[j] = IF j < k THEN s[j] ELSE IF j = k THEN e ELSE s[j - 1]
  <2>1. CASE j < k
    BY <1>4, <1>8, <2>1
  <2>2. CASE j = k
    <3>1. j \in (Len(A) + 1)..(Len(A) + Len(B)) /\ j - Len(A) = 1
      BY <1>1, <1>4, <1>6, <2>2
    <3>2. U[j] = B[j - Len(A)]
      BY <1>8, <3>1
    <3> QED BY <1>6, <2>2, <3>1, <3>2
  <2>3. CASE j > k
    <3>1. /\ j \in (Len(A) + Len(B) + 1)..(Len(A) + Len(B) + Len(C))
          /\ j - (Len(A) + Len(B)) = j - k
      BY <1>1, <1>4, <1>5, <1>6, <2>3
    <3>2. U[j] = C[j - k]
      BY <1>8, <3>1
    <3>3. j - k \in 1..(Len(s) + 1 - k) /\ k + (j - k) - 1 = j - 1
      BY <1>1, <2>3
    <3>4. C[j - k] = s[k + (j - k) - 1]
      BY <1>5, <3>3
    <3> QED BY <2>3, <3>2, <3>3, <3>4
  <2> QED BY <2>1, <2>2, <2>3
<1>11. U = Put(s, k, e)
  <2>1. \A t \in Seq(X) : t = [j \in 1..Len(t) |-> t[j]]
    OBVIOUS
  <2>2. U = [j \in 1..(Len(s) + 1) |-> U[j]]
    BY <1>8, <1>9, <2>1
  <2> QED BY <1>10, <2>2 DEF Put
<1> QED BY <1>3, <1>7, <1>11 DEF Put

(* Without its k-th element.                                               *)
LEMMA CutIs ==
  \A X : \A s \in Seq(X) : \A k \in 1..Len(s) :
    /\ Cut(s, k) \in Seq(X) /\ Len(Cut(s, k)) = Len(s) - 1
    /\ \A j \in 1..(Len(s) - 1) :
         Cut(s, k)[j] = IF j < k THEN s[j] ELSE s[j + 1]
    /\ Sequence!Seqs!RemoveAt(s, k) = Cut(s, k)
<1> TAKE X
<1> TAKE s \in Seq(X)
<1> TAKE k \in 1..Len(s)
<1>1. Len(s) \in Nat /\ k \in Nat
  OBVIOUS
<1>2. \A j \in 1..(Len(s) - 1) : (IF j < k THEN s[j] ELSE s[j + 1]) \in X
  OBVIOUS
<1>3. Cut(s, k) \in Seq(X) /\ Len(Cut(s, k)) = Len(s) - 1
  BY <1>1, <1>2 DEF Cut
<1> DEFINE A == SubSeq(s, 1, k - 1)
           C == SubSeq(s, k + 1, Len(s))
           U == A \o C
<1>4. A \in Seq(X) /\ Len(A) = k - 1 /\ \A j \in 1..(k - 1) : A[j] = s[j]
  OBVIOUS
<1>5. /\ C \in Seq(X) /\ Len(C) = Len(s) - k
      /\ \A j \in 1..(Len(s) - k) : C[j] = s[k + j]
  OBVIOUS
<1>7. Sequence!Seqs!RemoveAt(s, k) = U
  BY DEF Sequence!Seqs!RemoveAt
<1> HIDE DEF A, C
<1>8. /\ U \in Seq(X) /\ Len(U) = Len(A) + Len(C)
      /\ \A j \in 1..Len(A) : U[j] = A[j]
      /\ \A j \in (Len(A) + 1)..(Len(A) + Len(C)) : U[j] = C[j - Len(A)]
  <2>1. A \in Seq(X)
    BY <1>4
  <2>2. C \in Seq(X)
    BY <1>5
  <2> QED BY <2>1, <2>2, JoinedTwo, Zenon
<1> HIDE DEF U
<1>9. Len(U) = Len(s) - 1
  BY <1>1, <1>4, <1>5, <1>8
<1>10. ASSUME NEW j \in 1..(Len(s) - 1)
       PROVE  U[j] = IF j < k THEN s[j] ELSE s[j + 1]
  <2>1. CASE j < k
    <3>1. j \in 1..(k - 1) /\ j \in 1..Len(A)
      BY <1>1, <1>4, <2>1
    <3> QED BY <1>4, <1>8, <2>1, <3>1
  <2>3. CASE j >= k
    <3>1. j \in (Len(A) + 1)..(Len(A) + Len(C)) /\ j - Len(A) = j + 1 - k
      BY <1>1, <1>4, <1>5, <2>3
    <3>2. U[j] = C[j + 1 - k]
      BY <1>8, <3>1
    <3>3. j + 1 - k \in 1..(Len(s) - k) /\ k + (j + 1 - k) = j + 1
      BY <1>1, <2>3
    <3> QED BY <1>5, <2>3, <3>2, <3>3
  <2> QED BY <2>1, <2>3
<1>11. U = Cut(s, k)
  <2>1. \A t \in Seq(X) : t = [j \in 1..Len(t) |-> t[j]]
    OBVIOUS
  <2>2. U = [j \in 1..(Len(s) - 1) |-> U[j]]
    BY <1>8, <1>9, <2>1
  <2> QED BY <1>10, <2>2 DEF Cut
<1> QED BY <1>3, <1>7, <1>11 DEF Cut

(* While the list is not full, there is an entry to allocate.              *)
LEMMA RoomForMore ==
  ASSUME NEW l, NEW s, Chained(l, s), Len(s) < MaxListSize
  PROVE  Unallocated(l) \in (1..MaxListSize) \ Placed(s)
<1>1. s \in Seq(1..MaxListSize) /\ Len(s) \in Nat /\ Allocated(l) = Placed(s)
  BY DEF Chained, Allocated
<1>2. \E e \in 1..MaxListSize : e \notin Placed(s)
  <2> SUFFICES ASSUME \A e \in 1..MaxListSize : e \in Placed(s)
               PROVE  FALSE
    OBVIOUS
  <2> DEFINE f == [e \in 1..MaxListSize |-> CHOOSE k \in 1..Len(s) : s[k] = e]
  <2>1. \A e \in 1..MaxListSize : f[e] \in 1..Len(s) /\ s[f[e]] = e
    BY DEF Placed
  <2>2. f \in [1..MaxListSize -> 1..Len(s)]
    BY <2>1
  <2>3. /\ IsFiniteSet(1..MaxListSize) /\ IsFiniteSet(1..Len(s))
        /\ Cardinality(1..Len(s)) < Cardinality(1..MaxListSize)
    <3>1. \A n \in Nat : IsFiniteSet(1..n) /\ Cardinality(1..n) = n
      <4> TAKE n \in Nat
      <4>1. IsFiniteSet(1..n) /\ Cardinality(1..n) = IF 1 > n THEN 0 ELSE n - 1 + 1
        BY FS_Interval
      <4> QED BY <4>1
    <3> QED BY <1>1, <3>1, MaxListSizeAssumption
  <2> HIDE DEF f
  <2>4. \E x, y \in 1..MaxListSize : x # y /\ f[x] = f[y]
    BY <2>2, <2>3, FS_PigeonHole
  <2> QED BY <2>1, <2>4
<1> QED BY <1>1, <1>2 DEF Unallocated

(* The data in the order of the entries.                                   *)
DataOf(l, s) == [k \in 1..Len(s) |-> l.entry[s[k]].data]

(* Where the links can lead.                                               *)
LEMMA AtIs ==
  ASSUME NEW s \in Seq(1..MaxListSize), Distinct(s), NEW j \in Int
  PROVE  /\ At(s, j) \in Placed(s) \cup {null}
         /\ At(s, j) = null <=> j \notin 1..Len(s)
         /\ \A k \in 1..Len(s) : At(s, j) = s[k] <=> j = k
<1>1. \A k \in 1..Len(s) : s[k] \in 1..MaxListSize /\ s[k] # null
  BY MaxListSizeAssumption DEF null
<1> QED BY <1>1 DEF At, Placed, Distinct

(* An entry linked in at the k-th place.                                   *)
LEMMA Inserted ==
  ASSUME NEW l, NEW s, Chained(l, s), Len(s) < MaxListSize,
         NEW k \in 1..(Len(s) + 1), NEW d
  PROVE  LET n == Insert(l, d, At(s, k - 1), At(s, k))
             t == Put(s, k, Unallocated(l))
         IN  Chained(n, t) /\ DataOf(n, t) = Put(DataOf(l, s), k, d)
<1> DEFINE e == Unallocated(l)
           p == At(s, k - 1)
           q == At(s, k)
           new == [data |-> d, previous |-> p, next |-> q]
           grown == [l EXCEPT !.size = @ + 1,
                              !.entry = [f \in DOMAIN @ \cup {e} |->
                                           IF f = e THEN new ELSE @[f]]]
           n == Insert(l, d, p, q)
           t == Put(s, k, e)
           D == Placed(s) \cup {e}
<1>1. /\ s \in Seq(1..MaxListSize) /\ Distinct(s) /\ IsList(l) /\ Len(s) \in Nat
      /\ l.first = At(s, 1) /\ l.last = At(s, Len(s)) /\ l.size = Len(s)
      /\ DOMAIN l.entry = Placed(s)
      /\ \A j \in 1..Len(s) : /\ l.entry[s[j]].previous = At(s, j - 1)
                              /\ l.entry[s[j]].next = At(s, j + 1)
  BY DEF Chained
<1>2. e \in (1..MaxListSize) \ Placed(s) /\ e # null
  BY RoomForMore DEF null
<1>3. n = SetPrevious(SetNext(grown, p, e), q, e)
  BY DEF Insert
<1> HIDE DEF e
<1>4. /\ p \in Placed(s) \cup {null} /\ q \in Placed(s) \cup {null}
      /\ p = null <=> k = 1
      /\ q = null <=> k = Len(s) + 1
      /\ \A j \in 1..Len(s) : (p = s[j] <=> j = k - 1) /\ (q = s[j] <=> j = k)
  BY <1>1, AtIs
<1>5. /\ grown = [first |-> l.first, last |-> l.last, size |-> l.size + 1,
                  entry |-> [f \in D |-> IF f = e THEN new ELSE l.entry[f]]]
      /\ IsList(grown)
  <2>1. grown = [first |-> l.first, last |-> l.last, size |-> l.size + 1,
                  entry |-> [f \in D |-> IF f = e THEN new ELSE l.entry[f]]]
    <3> DEFINE g == [l EXCEPT !.size = l.size + 1]
               E == [f \in D |-> IF f = e THEN new ELSE l.entry[f]]
    <3>1. g = [first |-> l.first, last |-> l.last, size |-> l.size + 1,
               entry |-> l.entry]
      BY <1>1 DEF IsList
    <3>2. grown = [g EXCEPT !.entry = E]
      <4>1. g.entry = l.entry
        BY <3>1
      <4>2. grown = [g EXCEPT !.entry = [f \in DOMAIN g.entry \cup {e} |->
                                           IF f = e THEN new ELSE g.entry[f]]]
        OBVIOUS
      <4> HIDE DEF g, grown
      <4> QED BY <1>1, <4>1, <4>2
    <3> HIDE DEF g, grown, E
    <3>3. grown = [first |-> l.first, last |-> l.last, size |-> l.size + 1,
                   entry |-> E]
      BY <3>1, <3>2
    <3> QED BY <3>3 DEF E
  <2>2. null \notin D
    BY <1>1, <1>2 DEF IsList
  <2> HIDE DEF grown, D
  <2>3. \A f \in D : IF f = e THEN TRUE ELSE f \in DOMAIN l.entry
    BY <1>1 DEF D
  <2>4. \A f \in D : (IF f = e THEN new ELSE l.entry[f])
                     = [data |-> (IF f = e THEN new ELSE l.entry[f]).data,
                        previous |-> (IF f = e THEN new ELSE l.entry[f]).previous,
                        next |-> (IF f = e THEN new ELSE l.entry[f]).next]
    BY <1>1, <2>3 DEF IsList
  <2> QED BY <2>1, <2>2, <2>4 DEF IsList
<1> HIDE DEF grown, p, q
<1> DEFINE linked == SetNext(grown, p, e)
<1>6. /\ IsList(linked)
      /\ linked = [first |-> IF k = 1 THEN e ELSE l.first, last |-> l.last,
               size |-> l.size + 1,
               entry |-> [f \in D |->
                 [data |-> IF f = e THEN d ELSE l.entry[f].data,
                  previous |-> IF f = e THEN p ELSE l.entry[f].previous,
                  next |-> IF f = p THEN e ELSE IF f = e THEN q ELSE l.entry[f].next]]]
  <2>1. p \in DOMAIN grown.entry \cup {null}
    BY <1>4, <1>5
  <2>2. /\ IsList(linked)
        /\ linked = [first |-> IF p = null THEN e ELSE grown.first, last |-> grown.last,
               size |-> grown.size,
               entry |-> [f \in DOMAIN grown.entry |->
                 [data |-> grown.entry[f].data, previous |-> grown.entry[f].previous,
                  next |-> IF f = p THEN e ELSE grown.entry[f].next]]]
    <3>1. IsList(grown)
      BY <1>5
    <3> QED BY <2>1, <3>1, NextSet, Zenon
  <2>3. \A f \in D : /\ grown.entry[f].data = IF f = e THEN d ELSE l.entry[f].data
                     /\ grown.entry[f].previous = IF f = e THEN p ELSE l.entry[f].previous
                     /\ grown.entry[f].next = IF f = e THEN q ELSE l.entry[f].next
    BY <1>5
  <2> HIDE DEF linked, D
  <2>4. DOMAIN grown.entry = D /\ grown.first = l.first /\ grown.last = l.last
        /\ grown.size = l.size + 1
    BY <1>5
  <2> QED BY <1>4, <2>2, <2>3, <2>4
<1> HIDE DEF linked
<1>7. /\ IsList(n)
      /\ n = [first |-> IF k = 1 THEN e ELSE l.first,
              last |-> IF k = Len(s) + 1 THEN e ELSE l.last,
              size |-> l.size + 1,
              entry |-> [f \in D |->
                 [data |-> IF f = e THEN d ELSE l.entry[f].data,
                  previous |-> IF f = q THEN e ELSE IF f = e THEN p ELSE l.entry[f].previous,
                  next |-> IF f = p THEN e ELSE IF f = e THEN q ELSE l.entry[f].next]]]
  <2>0. n = SetPrevious(linked, q, e)
    BY <1>3 DEF linked
  <2> HIDE DEF n
  <2>1. q \in DOMAIN linked.entry \cup {null}
    BY <1>4, <1>6
  <2>2. /\ IsList(n)
        /\ n = [first |-> linked.first, last |-> IF q = null THEN e ELSE linked.last,
               size |-> linked.size,
               entry |-> [f \in DOMAIN linked.entry |->
                 [data |-> linked.entry[f].data,
                  previous |-> IF f = q THEN e ELSE linked.entry[f].previous,
                  next |-> linked.entry[f].next]]]
    <3>1. IsList(linked)
      BY <1>6
    <3> QED BY <2>0, <2>1, <3>1, PreviousSet, Zenon
  <2>3. \A f \in D : /\ linked.entry[f].data = IF f = e THEN d ELSE l.entry[f].data
                     /\ linked.entry[f].previous = IF f = e THEN p ELSE l.entry[f].previous
                     /\ linked.entry[f].next = IF f = p THEN e ELSE IF f = e THEN q ELSE l.entry[f].next
    BY <1>6
  <2> HIDE DEF D
  <2>4. DOMAIN linked.entry = D /\ linked.first = (IF k = 1 THEN e ELSE l.first) /\ linked.last = l.last
        /\ linked.size = l.size + 1
    BY <1>6
  <2> QED BY <1>4, <2>2, <2>3, <2>4
<1> HIDE DEF n
<1>8. /\ t \in Seq(1..MaxListSize) /\ Len(t) = Len(s) + 1
      /\ \A j \in 1..(Len(s) + 1) :
           t[j] = IF j < k THEN s[j] ELSE IF j = k THEN e ELSE s[j - 1]
  <2>1. s \in Seq(1..MaxListSize)
    BY <1>1
  <2>2. k \in 1..(Len(s) + 1) /\ e \in 1..MaxListSize
    BY <1>2
  <2>3. \A j \in 1..(Len(s) + 1) :
          (IF j < k THEN s[j] ELSE IF j = k THEN e ELSE s[j - 1]) \in 1..MaxListSize
    BY <1>1, <2>1, <2>2, MaxListSizeAssumption
  <2> QED BY <1>1, <2>3 DEF Put
<1> HIDE DEF t
<1>9. \A j \in Int : At(t, j) = IF j < k THEN At(s, j) ELSE IF j = k THEN e ELSE At(s, j - 1)
  BY <1>1, <1>8 DEF At
<1>10. Distinct(t)
  <2>1. \A j \in 1..Len(s) : s[j] # e
    BY <1>2 DEF Placed
  <2> DEFINE Old(j) == IF j < k THEN j ELSE j - 1
  <2>2. \A j \in 1..(Len(s) + 1) :
          j # k => Old(j) \in 1..Len(s) /\ t[j] = s[Old(j)]
    BY <1>1, <1>8
  <2>3. \A i, j \in 1..(Len(s) + 1) :
          i # k /\ j # k /\ Old(i) = Old(j) => i = j
    BY <1>1
  <2>4. t[k] = e
    BY <1>8
  <2> HIDE DEF Old
  <2>5. \A i, j \in 1..(Len(s) + 1) : t[i] = t[j] => i = j
    <3> SUFFICES ASSUME NEW i \in 1..(Len(s) + 1), NEW j \in 1..(Len(s) + 1),
                        t[i] = t[j]
                 PROVE  i = j
      OBVIOUS
    <3>1. CASE i = k \/ j = k
      BY <2>1, <2>2, <2>4, <3>1
    <3>2. CASE i # k /\ j # k
      BY <1>1, <2>2, <2>3, <3>2 DEF Distinct
    <3> QED BY <3>1, <3>2
  <2> QED BY <1>8, <2>5 DEF Distinct
<1>11. Placed(t) = D
  <2>1. \A j \in 1..(Len(s) + 1) : t[j] \in D
    <3> SUFFICES ASSUME NEW j \in 1..(Len(s) + 1) PROVE t[j] \in D
      OBVIOUS
    <3>1. CASE j < k
      <4>1. j \in 1..Len(s) /\ t[j] = s[j]
        BY <1>1, <1>8, <3>1
      <4> QED BY <4>1 DEF Placed
    <3>2. CASE j = k
      BY <1>8, <3>2
    <3>3. CASE j > k
      <4>1. j - 1 \in 1..Len(s) /\ t[j] = s[j - 1]
        BY <1>1, <1>8, <3>3
      <4> QED BY <4>1 DEF Placed
    <3> QED BY <3>1, <3>2, <3>3
  <2>2. \A j \in 1..Len(s) : \E i \in 1..(Len(s) + 1) : t[i] = s[j]
    <3> SUFFICES ASSUME NEW j \in 1..Len(s) PROVE \E i \in 1..(Len(s) + 1) : t[i] = s[j]
      OBVIOUS
    <3>1. CASE j < k
      BY <1>1, <1>8, <3>1
    <3>2. CASE j >= k
      <4>1. j + 1 \in 1..(Len(s) + 1) /\ (j + 1) - 1 = j /\ ~(j + 1 < k) /\ j + 1 # k
        BY <1>1, <3>2
      <4> QED BY <1>8, <4>1
    <3> QED BY <3>1, <3>2
  <2>3. t[k] = e
    BY <1>8
  <2> QED BY <1>8, <2>1, <2>2, <2>3 DEF Placed
<1>12. /\ n.first = At(t, 1) /\ n.last = At(t, Len(t)) /\ n.size = Len(t)
       /\ DOMAIN n.entry = D
  <2>1. n.first = At(t, 1)
    BY <1>1, <1>7, <1>9
  <2>2. n.last = At(t, Len(t))
    <3>1. (Len(s) + 1) - 1 = Len(s) /\ Len(s) + 1 \in Int
      BY <1>1
    <3> QED BY <1>1, <1>7, <1>8, <1>9, <3>1
  <2> QED BY <1>1, <1>7, <1>8, <2>1, <2>2
<1>13. ASSUME NEW j \in 1..(Len(s) + 1)
       PROVE  /\ n.entry[t[j]].previous = At(t, j - 1)
              /\ n.entry[t[j]].next = At(t, j + 1)
              /\ n.entry[t[j]].data = IF j < k THEN l.entry[s[j]].data
                                      ELSE IF j = k THEN d ELSE l.entry[s[j - 1]].data
  <2> DEFINE f == t[j]
  <2>0. f \in D
    BY <1>8, <1>11 DEF Placed
  <2> HIDE DEF f
  <2>1. /\ n.entry[f].data = IF f = e THEN d ELSE l.entry[f].data
        /\ n.entry[f].previous = IF f = q THEN e ELSE IF f = e THEN p ELSE l.entry[f].previous
        /\ n.entry[f].next = IF f = p THEN e ELSE IF f = e THEN q ELSE l.entry[f].next
    BY <1>7, <2>0
  <2>2. CASE j < k
    <3>1. j \in 1..Len(s) /\ f = s[j] /\ f # e
      BY <1>1, <1>2, <1>8, <2>2 DEF f, Placed
    <3>2. f # q /\ (f = p <=> j = k - 1)
      BY <1>4, <3>1, <2>2
    <3>3. n.entry[f].previous = At(t, j - 1)
      BY <1>1, <1>9, <2>1, <2>2, <3>1, <3>2
    <3>4. n.entry[f].next = At(t, j + 1)
      <4>1. CASE j = k - 1
        BY <1>9, <2>1, <3>1, <3>2, <4>1
      <4>2. CASE j # k - 1
        <5>1. j + 1 < k /\ j + 1 \in Int
          BY <2>2, <4>2
        <5> QED BY <1>1, <1>9, <2>1, <3>1, <3>2, <4>2, <5>1
      <4> QED BY <4>1, <4>2
    <3> QED BY <2>1, <2>2, <3>1, <3>3, <3>4 DEF f
  <2>3. CASE j = k
    <3>1. f = e /\ e # p /\ e # q
      BY <1>2, <1>4, <1>8, <2>3 DEF f
    <3>2. At(t, j - 1) = p /\ At(t, j + 1) = q
      <4>1. /\ j - 1 \in Int /\ j - 1 < k /\ j - 1 = k - 1
            /\ j + 1 \in Int /\ ~(j + 1 < k) /\ j + 1 # k /\ (j + 1) - 1 = k
        BY <2>3
      <4> QED BY <1>9, <4>1 DEF p, q
    <3> QED BY <2>1, <2>3, <3>1, <3>2 DEF f
  <2>4. CASE j > k
    <3>1. j - 1 \in 1..Len(s) /\ f = s[j - 1] /\ f # e
      BY <1>1, <1>2, <1>8, <2>4 DEF f, Placed
    <3>2. f # p /\ (f = q <=> j - 1 = k)
      BY <1>4, <3>1, <2>4
    <3>3. n.entry[f].next = At(t, j + 1)
      <4>1. j + 1 \in Int /\ ~(j + 1 < k) /\ j + 1 # k /\ (j + 1) - 1 = (j - 1) + 1
        BY <2>4
      <4> QED BY <1>1, <1>9, <2>1, <3>1, <3>2, <4>1
    <3>4. n.entry[f].previous = At(t, j - 1)
      <4>1. CASE j - 1 = k
        BY <1>9, <2>1, <3>1, <3>2, <4>1
      <4>2. CASE j - 1 # k
        <5>1. ~(j - 1 < k) /\ j - 1 \in Int
          BY <2>4
        <5> QED BY <1>1, <1>9, <2>1, <3>1, <3>2, <4>2, <5>1
      <4> QED BY <4>1, <4>2
    <3> QED BY <2>1, <2>4, <3>1, <3>3, <3>4 DEF f
  <2> QED BY <2>2, <2>3, <2>4
<1>14. Chained(n, t)
  BY <1>7, <1>8, <1>10, <1>11, <1>12, <1>13 DEF Chained
<1>15. DataOf(n, t) = Put(DataOf(l, s), k, d)
  <2>1. DataOf(n, t) = [j \in 1..(Len(s) + 1) |-> n.entry[t[j]].data]
    BY <1>8 DEF DataOf
  <2>2. Len(DataOf(l, s)) = Len(s)
    BY <1>1 DEF DataOf
  <2>3. \A j \in 1..(Len(s) + 1) :
          /\ j < k => DataOf(l, s)[j] = l.entry[s[j]].data
          /\ j > k => DataOf(l, s)[j - 1] = l.entry[s[j - 1]].data
    BY <1>1 DEF DataOf
  <2> QED BY <1>13, <2>1, <2>2, <2>3 DEF Put
<1> QED BY <1>14, <1>15 DEF n, t, e, p, q

(* An entry taken out of the k-th place.                                   *)
LEMMA Removed ==
  ASSUME NEW l, NEW s, Chained(l, s), NEW k \in 1..Len(s)
  PROVE  LET n == llist_remove_entry(l, s[k])
             t == Cut(s, k)
         IN  Chained(n, t) /\ DataOf(n, t) = Cut(DataOf(l, s), k)
<1> DEFINE e == s[k]
           p == At(s, k - 1)
           q == At(s, k + 1)
           cut == SetPrevious(SetNext(l, p, q), q, p)
           n == llist_remove_entry(l, e)
           t == Cut(s, k)
           D == Placed(s) \ {e}
<1>1. /\ s \in Seq(1..MaxListSize) /\ Distinct(s) /\ IsList(l) /\ Len(s) \in Nat
      /\ l.first = At(s, 1) /\ l.last = At(s, Len(s)) /\ l.size = Len(s)
      /\ DOMAIN l.entry = Placed(s)
      /\ \A j \in 1..Len(s) : /\ l.entry[s[j]].previous = At(s, j - 1)
                              /\ l.entry[s[j]].next = At(s, j + 1)
  BY DEF Chained
<1>2. /\ e \in Placed(s)
      /\ \A j \in 1..Len(s) : s[j] \in Placed(s) /\ (s[j] = e <=> j = k)
  BY <1>1 DEF Placed, Distinct
<1>3. n = [cut EXCEPT !.size = @ - 1,
                      !.entry = [f \in DOMAIN @ \ {e} |-> @[f]]]
  BY <1>1, <1>2 DEF llist_remove_entry, Preceding, Following
<1>4. /\ p \in Placed(s) \cup {null} /\ q \in Placed(s) \cup {null}
      /\ p = null <=> k = 1
      /\ q = null <=> k = Len(s)
      /\ \A j \in 1..Len(s) : (p = s[j] <=> j = k - 1) /\ (q = s[j] <=> j = k + 1)
  BY <1>1, AtIs
<1> HIDE DEF e, p, q
<1> DEFINE linked == SetNext(l, p, q)
<1>6. /\ IsList(linked)
      /\ linked = [first |-> IF k = 1 THEN q ELSE l.first, last |-> l.last,
               size |-> l.size,
               entry |-> [f \in Placed(s) |->
                 [data |-> l.entry[f].data, previous |-> l.entry[f].previous,
                  next |-> IF f = p THEN q ELSE l.entry[f].next]]]
  <2>1. p \in DOMAIN l.entry \cup {null}
    BY <1>1, <1>4
  <2>2. /\ IsList(linked)
        /\ linked = [first |-> IF p = null THEN q ELSE l.first, last |-> l.last,
               size |-> l.size,
               entry |-> [f \in DOMAIN l.entry |->
                 [data |-> l.entry[f].data, previous |-> l.entry[f].previous,
                  next |-> IF f = p THEN q ELSE l.entry[f].next]]]
    <3>1. IsList(l)
      BY <1>1
    <3> QED BY <2>1, <3>1, NextSet, Zenon
  <2> HIDE DEF linked
  <2> QED BY <1>1, <1>4, <2>2
<1>7. /\ IsList(cut)
      /\ cut = [first |-> IF k = 1 THEN q ELSE l.first,
              last |-> IF k = Len(s) THEN p ELSE l.last,
              size |-> l.size,
              entry |-> [f \in Placed(s) |->
                 [data |-> l.entry[f].data,
                  previous |-> IF f = q THEN p ELSE l.entry[f].previous,
                  next |-> IF f = p THEN q ELSE l.entry[f].next]]]
  <2>0. cut = SetPrevious(linked, q, p)
    BY DEF linked
  <2> HIDE DEF cut, linked
  <2>1. q \in DOMAIN linked.entry \cup {null}
    BY <1>4, <1>6
  <2>2. /\ IsList(cut)
        /\ cut = [first |-> linked.first, last |-> IF q = null THEN p ELSE linked.last,
               size |-> linked.size,
               entry |-> [f \in DOMAIN linked.entry |->
                 [data |-> linked.entry[f].data,
                  previous |-> IF f = q THEN p ELSE linked.entry[f].previous,
                  next |-> linked.entry[f].next]]]
    <3>1. IsList(linked)
      BY <1>6
    <3> QED BY <2>0, <2>1, <3>1, PreviousSet, Zenon
  <2>3. \A f \in Placed(s) :
          /\ linked.entry[f].data = l.entry[f].data
          /\ linked.entry[f].previous = l.entry[f].previous
          /\ linked.entry[f].next = IF f = p THEN q ELSE l.entry[f].next
    BY <1>6
  <2>4. /\ DOMAIN linked.entry = Placed(s)
        /\ linked.first = (IF k = 1 THEN q ELSE l.first) /\ linked.last = l.last
        /\ linked.size = l.size
    BY <1>6
  <2> QED BY <1>4, <2>2, <2>3, <2>4
<1> HIDE DEF cut, n
<1>5. /\ IsList(n)
      /\ n = [first |-> IF k = 1 THEN q ELSE l.first,
              last |-> IF k = Len(s) THEN p ELSE l.last,
              size |-> l.size - 1,
              entry |-> [f \in D |->
                 [data |-> l.entry[f].data,
                  previous |-> IF f = q THEN p ELSE l.entry[f].previous,
                  next |-> IF f = p THEN q ELSE l.entry[f].next]]]
  <2> DEFINE E == [f \in D |->
                 [data |-> l.entry[f].data,
                  previous |-> IF f = q THEN p ELSE l.entry[f].previous,
                  next |-> IF f = p THEN q ELSE l.entry[f].next]]
             g == [cut EXCEPT !.size = cut.size - 1]
  <2>1. [f \in DOMAIN cut.entry \ {e} |-> cut.entry[f]] = E
    BY <1>7
  <2>2. g = [first |-> IF k = 1 THEN q ELSE l.first,
             last |-> IF k = Len(s) THEN p ELSE l.last,
             size |-> l.size - 1, entry |-> cut.entry]
    BY <1>7
  <2>3. n = [g EXCEPT !.entry = [f \in DOMAIN g.entry \ {e} |-> g.entry[f]]]
    BY <1>3
  <2> HIDE DEF g, E
  <2>4. g.entry = cut.entry
    BY <2>2
  <2>5. n = [g EXCEPT !.entry = E]
    BY <2>1, <2>3, <2>4
  <2>6. n = [first |-> IF k = 1 THEN q ELSE l.first,
             last |-> IF k = Len(s) THEN p ELSE l.last,
             size |-> l.size - 1, entry |-> E]
    BY <2>2, <2>5
  <2>7. null \notin D
    BY <1>1 DEF IsList
  <2> QED BY <2>6, <2>7 DEF IsList, E
<1>8. /\ t \in Seq(1..MaxListSize) /\ Len(t) = Len(s) - 1
      /\ \A j \in 1..(Len(s) - 1) : t[j] = IF j < k THEN s[j] ELSE s[j + 1]
  <2>3. \A j \in 1..(Len(s) - 1) :
          (IF j < k THEN s[j] ELSE s[j + 1]) \in 1..MaxListSize
    <3>1. s \in Seq(1..MaxListSize) /\ Len(s) \in Nat /\ k \in Nat
      BY <1>1
    <3>2. \A i \in 1..Len(s) : s[i] \in 1..MaxListSize
      BY <3>1, MaxListSizeAssumption
    <3>3. \A j \in 1..(Len(s) - 1) : j \in 1..Len(s) /\ j + 1 \in 1..Len(s)
      BY <3>1
    <3> QED BY <3>2, <3>3
  <2> QED BY <1>1, <2>3 DEF Cut
<1> HIDE DEF t
<1> DEFINE Old(j) == IF j < k THEN j ELSE j + 1
<1>9. /\ \A j \in 1..(Len(s) - 1) :
          Old(j) \in 1..Len(s) /\ Old(j) # k /\ t[j] = s[Old(j)]
      /\ \A i, j \in 1..(Len(s) - 1) : Old(i) = Old(j) => i = j
      /\ \A i \in 1..Len(s) : i # k => \E j \in 1..(Len(s) - 1) : Old(j) = i
  <2>1. \A i \in 1..Len(s) : i # k => \E j \in 1..(Len(s) - 1) : Old(j) = i
    <3> SUFFICES ASSUME NEW i \in 1..Len(s), i # k
                 PROVE  \E j \in 1..(Len(s) - 1) : Old(j) = i
      OBVIOUS
    <3>1. CASE i < k
      <4>1. i \in 1..(Len(s) - 1) /\ Old(i) = i
        BY <1>1, <3>1
      <4> QED BY <4>1
    <3>2. CASE i > k
      <4>1. i - 1 \in 1..(Len(s) - 1) /\ Old(i - 1) = i
        BY <1>1, <3>2
      <4> QED BY <4>1
    <3> QED BY <3>1, <3>2
  <2>2. \A j \in 1..(Len(s) - 1) :
          Old(j) \in 1..Len(s) /\ Old(j) # k /\ t[j] = s[Old(j)]
    BY <1>1, <1>8
  <2>3. \A i, j \in 1..(Len(s) - 1) : Old(i) = Old(j) => i = j
    BY <1>1
  <2> QED BY <2>1, <2>2, <2>3
<1>10. \A j \in Int : /\ j < k => At(t, j) = At(s, j)
                      /\ j >= k => At(t, j) = At(s, j + 1)
  BY <1>1, <1>8 DEF At
<1> HIDE DEF Old
<1>11. Distinct(t) /\ Placed(t) = D
  <2>1. \A j \in 1..(Len(s) - 1) : t[j] \in D
    BY <1>2, <1>9
  <2>2. \A f \in D : \E j \in 1..(Len(s) - 1) : t[j] = f
    <3> SUFFICES ASSUME NEW f \in D PROVE \E j \in 1..(Len(s) - 1) : t[j] = f
      OBVIOUS
    <3>1. PICK i \in 1..Len(s) : f = s[i]
      BY DEF Placed
    <3>2. i # k
      BY <1>2, <3>1
    <3> QED BY <1>9, <3>1, <3>2
  <2>3. Placed(t) = D
    BY <1>8, <2>1, <2>2 DEF Placed
  <2>4. \A i, j \in 1..(Len(s) - 1) : t[i] = t[j] => i = j
    <3> SUFFICES ASSUME NEW i \in 1..(Len(s) - 1), NEW j \in 1..(Len(s) - 1),
                        t[i] = t[j]
                 PROVE  i = j
      OBVIOUS
    <3>1. Old(i) \in 1..Len(s) /\ Old(j) \in 1..Len(s) /\ s[Old(i)] = s[Old(j)]
      BY <1>9
    <3>2. Old(i) = Old(j)
      BY <1>1, <3>1 DEF Distinct
    <3> QED BY <1>9, <3>2
  <2> QED BY <1>8, <2>3, <2>4 DEF Distinct
<1>12. n.first = At(t, 1) /\ n.last = At(t, Len(t)) /\ n.size = Len(t)
       /\ DOMAIN n.entry = D
  <2>1. n.first = At(t, 1)
    BY <1>1, <1>5, <1>10 DEF q
  <2>2. n.last = At(t, Len(t))
    <3>1. CASE k = Len(s)
      <4>1. Len(s) - 1 < k /\ Len(s) - 1 \in Int
        BY <1>1, <3>1
      <4> QED BY <1>5, <1>8, <1>10, <3>1, <4>1 DEF p
    <3>2. CASE k # Len(s)
      <4>1. Len(s) - 1 >= k /\ Len(s) - 1 \in Int /\ (Len(s) - 1) + 1 = Len(s)
        BY <1>1, <3>2
      <4> QED BY <1>1, <1>5, <1>8, <1>10, <3>2, <4>1
    <3> QED BY <3>1, <3>2
  <2> QED BY <1>1, <1>5, <1>8, <2>1, <2>2
<1>13. ASSUME NEW j \in 1..(Len(s) - 1)
       PROVE  /\ n.entry[t[j]].previous = At(t, j - 1)
              /\ n.entry[t[j]].next = At(t, j + 1)
              /\ n.entry[t[j]].data = IF j < k THEN l.entry[s[j]].data
                                      ELSE l.entry[s[j + 1]].data
  <2> DEFINE f == t[j]
             i == Old(j)
  <2>1. f \in D /\ i \in 1..Len(s) /\ i # k /\ f = s[i]
    BY <1>2, <1>9
  <2>2. i = IF j < k THEN j ELSE j + 1
    BY DEF Old
  <2> HIDE DEF f, i
  <2>3. /\ n.entry[f].data = l.entry[f].data
        /\ n.entry[f].previous = IF f = q THEN p ELSE l.entry[f].previous
        /\ n.entry[f].next = IF f = p THEN q ELSE l.entry[f].next
    BY <1>5, <2>1
  <2>4. /\ n.entry[f].previous = IF i = k + 1 THEN p ELSE At(s, i - 1)
        /\ n.entry[f].next = IF i = k - 1 THEN q ELSE At(s, i + 1)
    <3>1. (f = q <=> i = k + 1) /\ (f = p <=> i = k - 1)
      BY <1>4, <2>1
    <3> QED BY <1>1, <2>1, <2>3, <3>1
  <2>5. CASE j < k
    <3>1. i = j /\ i # k + 1 /\ j - 1 \in Int /\ j - 1 < k /\ j + 1 \in Int
      BY <2>2, <2>5
    <3>2. n.entry[f].previous = At(t, j - 1)
      BY <1>10, <2>4, <3>1
    <3>3. n.entry[f].next = At(t, j + 1)
      <4>1. CASE j + 1 < k
        BY <1>10, <2>4, <3>1, <4>1
      <4>2. CASE j + 1 >= k
        <5>1. j + 1 = k /\ j = k - 1 /\ (j + 1) + 1 = k + 1
          BY <2>5, <4>2
        <5> QED BY <1>10, <2>4, <3>1, <4>2, <5>1 DEF q
      <4> QED BY <4>1, <4>2
    <3> QED BY <2>1, <2>3, <2>5, <3>1, <3>2, <3>3 DEF f
  <2>6. CASE j >= k
    <3>1. /\ i = j + 1 /\ i # k - 1 /\ j - 1 \in Int /\ j + 1 \in Int
          /\ j + 1 >= k /\ i + 1 = (j + 1) + 1 /\ i - 1 = (j - 1) + 1
      BY <2>2, <2>6
    <3>2. n.entry[f].next = At(t, j + 1)
      BY <1>10, <2>4, <3>1
    <3>3. n.entry[f].previous = At(t, j - 1)
      <4>1. CASE j = k
        <5>1. i = k + 1 /\ j - 1 = k - 1 /\ j - 1 < k
          BY <3>1, <4>1
        <5> QED BY <1>10, <2>4, <3>1, <5>1 DEF p
      <4>2. CASE j # k
        <5>1. i # k + 1 /\ j - 1 >= k
          BY <2>6, <3>1, <4>2
        <5> QED BY <1>10, <2>4, <3>1, <5>1
      <4> QED BY <4>1, <4>2
    <3> QED BY <2>1, <2>3, <2>6, <3>1, <3>2, <3>3 DEF f
  <2> QED BY <2>5, <2>6
<1>14. Chained(n, t)
  BY <1>5, <1>8, <1>11, <1>12, <1>13 DEF Chained
<1>15. DataOf(n, t) = Cut(DataOf(l, s), k)
  <2>1. DataOf(n, t) = [j \in 1..(Len(s) - 1) |-> n.entry[t[j]].data]
    BY <1>8 DEF DataOf
  <2>2. Len(DataOf(l, s)) = Len(s)
    BY <1>1 DEF DataOf
  <2>3. \A j \in 1..(Len(s) - 1) :
          /\ DataOf(l, s)[j] = l.entry[s[j]].data
          /\ DataOf(l, s)[j + 1] = l.entry[s[j + 1]].data
    BY <1>1 DEF DataOf
  <2> QED BY <1>13, <2>1, <2>2, <2>3 DEF Cut
<1> QED BY <1>14, <1>15 DEF n, t, e

(* The function h goes along the links.                                    *)
Goes(h, l, e, n, link) ==
  h = [k \in 0..n |-> IF k = 0 THEN e ELSE l.entry[h[k - 1]][link]]

LEMMA Walked ==
  ASSUME NEW l, NEW e, NEW n \in Nat, NEW link, NEW h, Goes(h, l, e, n, link)
  PROVE  Walk(l, e, n, link) = h[n]
<1> DEFINE Eq(g) == g = [k \in 0..n |-> IF k = 0 THEN e ELSE l.entry[g[k - 1]][link]]
           at == CHOOSE g : Eq(g)
<1>1. Walk(l, e, n, link) = at[n]
  BY DEF Walk
<1>2. Eq(h)
  BY DEF Goes
<1> HIDE DEF Eq
<1>3. Eq(at)
  BY <1>2
<1> HIDE DEF at
<1>4. \A k \in 0..n : at[k] = h[k]
  <2> DEFINE Bad == {k \in 0..n : at[k] # h[k]}
  <2> SUFFICES ASSUME Bad # {} PROVE FALSE
    OBVIOUS
  <2>1. PICK m \in Bad : \A k \in Bad : m <= k
    <3>1. Bad \in SUBSET Nat
      OBVIOUS
    <3> HIDE DEF Bad
    <3> QED BY <3>1, LeastOf
  <2>2. /\ at = [k \in 0..n |-> IF k = 0 THEN e ELSE l.entry[at[k - 1]][link]]
        /\ h = [k \in 0..n |-> IF k = 0 THEN e ELSE l.entry[h[k - 1]][link]]
    BY <1>2, <1>3 DEF Eq
  <2>3. m # 0
    BY <2>1, <2>2
  <2>4. m - 1 \in 0..n /\ m - 1 \notin Bad /\ m \in 0..n /\ at[m] # h[m]
    BY <2>1, <2>3
  <2>5. at[m] = l.entry[at[m - 1]][link] /\ h[m] = l.entry[h[m - 1]][link]
    BY <2>2, <2>3, <2>4
  <2> QED BY <2>4, <2>5
<1>5. n \in 0..n
  OBVIOUS
<1> QED BY <1>1, <1>4, <1>5

(* From either end the links lead to every entry.                          *)
LEMMA EntryAt ==
  ASSUME NEW l, NEW s, Chained(l, s), NEW a \in 0..(Len(s) - 1)
  PROVE  /\ Walk(l, l.first, a, "next") = s[a + 1]
         /\ Walk(l, l.last, a, "previous") = s[Len(s) - a]
<1>1. /\ Len(s) \in Nat /\ l.first = At(s, 1) /\ l.last = At(s, Len(s))
      /\ \A j \in 1..Len(s) : /\ l.entry[s[j]].previous = At(s, j - 1)
                              /\ l.entry[s[j]].next = At(s, j + 1)
  BY DEF Chained
<1>2. Walk(l, l.first, a, "next") = s[a + 1]
  <2> DEFINE h == [k \in 0..a |-> s[k + 1]]
  <2>1. Goes(h, l, l.first, a, "next")
    <3>1. \A k \in 0..a : k # 0 => h[k - 1] = s[k] /\ k \in 1..Len(s) /\ k + 1 \in 1..Len(s)
      BY <1>1
    <3>2. \A k \in 0..a : k # 0 => s[k + 1] = l.entry[h[k - 1]].next
      <4> HIDE DEF h
      <4> QED BY <1>1, <3>1 DEF At
    <3>3. s[0 + 1] = l.first
      BY <1>1 DEF At
    <3> DEFINE H == [k \in 0..a |-> IF k = 0 THEN l.first ELSE l.entry[h[k - 1]].next]
    <3>4. \A k \in 0..a : s[k + 1] = IF k = 0 THEN l.first ELSE l.entry[h[k - 1]].next
      BY <3>2, <3>3
    <3>5. h = H
      BY <3>4
    <3> HIDE DEF h
    <3> QED BY <3>5 DEF Goes
  <2>2. a \in Nat /\ h[a] = s[a + 1]
    OBVIOUS
  <2> HIDE DEF h
  <2>3. Walk(l, l.first, a, "next") = h[a]
    BY <2>1, <2>2, Walked
  <2> QED BY <2>2, <2>3
<1>3. Walk(l, l.last, a, "previous") = s[Len(s) - a]
  <2> DEFINE h == [k \in 0..a |-> s[Len(s) - k]]
  <2>1. Goes(h, l, l.last, a, "previous")
    <3>1. \A k \in 0..a : k # 0 => /\ h[k - 1] = s[Len(s) - k + 1]
                                   /\ Len(s) - k + 1 \in 1..Len(s) /\ Len(s) - k \in 1..Len(s)
                                   /\ (Len(s) - k + 1) - 1 = Len(s) - k
      BY <1>1
    <3>2. \A k \in 0..a : k # 0 => s[Len(s) - k] = l.entry[h[k - 1]].previous
      <4> HIDE DEF h
      <4> SUFFICES ASSUME NEW k \in 0..a, k # 0
                   PROVE  s[Len(s) - k] = l.entry[h[k - 1]].previous
        OBVIOUS
      <4> DEFINE j == Len(s) - k + 1
      <4>1. j \in 1..Len(s) /\ j - 1 = Len(s) - k /\ j - 1 \in 1..Len(s) /\ h[k - 1] = s[j]
        BY <3>1
      <4> HIDE DEF j
      <4> QED BY <1>1, <4>1 DEF At
    <3>3. s[Len(s) - 0] = l.last
      BY <1>1 DEF At
    <3> QED BY <3>2, <3>3 DEF Goes
  <2>2. a \in Nat /\ h[a] = s[Len(s) - a]
    OBVIOUS
  <2> HIDE DEF h
  <2>3. Walk(l, l.last, a, "previous") = h[a]
    BY <2>1, <2>2, Walked
  <2> QED BY <2>2, <2>3
<1> QED BY <1>2, <1>3

(* What llist_get() finds is the entry of that place.                      *)
LEMMA EntriesAre ==
  ASSUME NEW l, NEW s, Chained(l, s)
  PROVE  /\ \A i \in 0..(Len(s) - 1) : llist_get_entry(l, i) = s[i + 1]
         /\ Entries(l) = s
<1>1. Len(s) \in Nat /\ l.size = Len(s) /\ s \in Seq(1..MaxListSize)
  BY DEF Chained
<1>2. ASSUME NEW i \in 0..(Len(s) - 1)
      PROVE  llist_get_entry(l, i) = s[i + 1]
  <2>1. /\ Len(s) - 1 - i \in 0..(Len(s) - 1)
        /\ Len(s) - (Len(s) - 1 - i) = i + 1
    BY <1>1
  <2>2. Walk(l, l.first, i, "next") = s[i + 1]
    BY EntryAt
  <2>3. Walk(l, l.last, Len(s) - 1 - i, "previous") = s[i + 1]
    <3>1. Walk(l, l.last, Len(s) - 1 - i, "previous") = s[Len(s) - (Len(s) - 1 - i)]
      BY <2>1, EntryAt
    <3> QED BY <2>1, <3>1
  <2> QED BY <1>1, <2>2, <2>3 DEF llist_get_entry
<1>3. Entries(l) = s
  <2>1. \A k \in 1..Len(s) : Walk(l, l.first, k - 1, "next") = s[k]
    <3> SUFFICES ASSUME NEW k \in 1..Len(s) PROVE Walk(l, l.first, k - 1, "next") = s[k]
      OBVIOUS
    <3>1. k - 1 \in 0..(Len(s) - 1) /\ (k - 1) + 1 = k
      BY <1>1
    <3>2. Walk(l, l.first, k - 1, "next") = s[(k - 1) + 1]
      BY <3>1, EntryAt
    <3> QED BY <3>1, <3>2
  <2>2. s = [k \in 1..Len(s) |-> s[k]]
    BY <1>1, MaxListSizeAssumption
  <2> QED BY <1>1, <2>1, <2>2 DEF Entries
<1> QED BY <1>2, <1>3

(* The places of two entries' data exchanged.                              *)
Swapped(l, a, b) == [l EXCEPT !.entry[a].data = l.entry[b].data,
                              !.entry[b].data = l.entry[a].data]

(* Only the data of the two changes.                                       *)
LEMMA SwappedIs ==
  ASSUME NEW l, IsList(l), NEW a \in DOMAIN l.entry, NEW b \in DOMAIN l.entry, a # b
  PROVE  Swapped(l, a, b) =
           [first |-> l.first, last |-> l.last, size |-> l.size,
            entry |-> [f \in DOMAIN l.entry |->
              [data |-> IF f = a THEN l.entry[b].data
                        ELSE IF f = b THEN l.entry[a].data ELSE l.entry[f].data,
               previous |-> l.entry[f].previous, next |-> l.entry[f].next]]]
<1> DEFINE x == [l.entry[a] EXCEPT !.data = l.entry[b].data]
           y == [l.entry[b] EXCEPT !.data = l.entry[a].data]
           E == [l.entry EXCEPT ![a] = x]
           F == [E EXCEPT ![b] = y]
           g == [l EXCEPT !.entry = E]
<1>1. x = [data |-> l.entry[b].data, previous |-> l.entry[a].previous,
           next |-> l.entry[a].next]
  BY DEF IsList
<1>2. y = [data |-> l.entry[a].data, previous |-> l.entry[b].previous,
           next |-> l.entry[b].next]
  BY DEF IsList
<1>3. g = [first |-> l.first, last |-> l.last, size |-> l.size, entry |-> E]
  <2> HIDE DEF E
  <2> QED BY DEF IsList
<1>4. Swapped(l, a, b) = [g EXCEPT !.entry[b].data = l.entry[a].data]
  BY DEF Swapped
<1>5. [g EXCEPT !.entry[b].data = l.entry[a].data]
      = [g EXCEPT !.entry = [g.entry EXCEPT ![b] = [g.entry[b] EXCEPT !.data = l.entry[a].data]]]
  OBVIOUS
<1>6. g.entry = E /\ g.entry[b] = l.entry[b]
  <2>1. E[b] = l.entry[b]
    OBVIOUS
  <2> HIDE DEF E
  <2> QED BY <1>3, <2>1
<1> HIDE DEF g
<1>7. Swapped(l, a, b) = [g EXCEPT !.entry = F]
  BY <1>4, <1>5, <1>6
<1>8. Swapped(l, a, b) = [first |-> l.first, last |-> l.last, size |-> l.size, entry |-> F]
  <2> HIDE DEF E, F
  <2> QED BY <1>3, <1>7
<1>9. F = [f \in DOMAIN l.entry |->
              [data |-> IF f = a THEN l.entry[b].data
                        ELSE IF f = b THEN l.entry[a].data ELSE l.entry[f].data,
               previous |-> l.entry[f].previous, next |-> l.entry[f].next]]
  <2> HIDE DEF x, y
  <2> QED BY <1>1, <1>2 DEF IsList
<1> QED BY <1>8, <1>9

(* The recursive function of llist_reverse.                                *)
Met(l, head, tail) == head = tail \/ Preceding(l, head) = tail
Reversing(l, n, g) ==
  [k \in 0..n |->
     IF k = 0 THEN [l |-> l, head |-> l.first, tail |-> l.last]
     ELSE IF Met(g[k - 1].l, g[k - 1].head, g[k - 1].tail) THEN g[k - 1]
     ELSE [l |-> Swapped(g[k - 1].l, g[k - 1].head, g[k - 1].tail),
           head |-> Following(g[k - 1].l, g[k - 1].head),
           tail |-> Preceding(g[k - 1].l, g[k - 1].tail)]]

LEMMA ReversingIs ==
  ASSUME llist_reverse
  PROVE  \E f : /\ f = CHOOSE g : g = Reversing(list, list.size, g)
                /\ Changed(f[list.size].l, NoData)
BY DEF llist_reverse, Reversing, Met, Swapped

PlaceOf(s, e) == CHOOSE j \in 1..Len(s) : s[j] = e

(* The list, the data of the first and last c entries exchanged.           *)
Moved(l, s, c) ==
  [first |-> l.first, last |-> l.last, size |-> l.size,
   entry |-> [e \in DOMAIN l.entry |->
     [data |-> IF PlaceOf(s, e) <= c \/ PlaceOf(s, e) > Len(s) - c
               THEN l.entry[s[Len(s) + 1 - PlaceOf(s, e)]].data
               ELSE l.entry[e].data,
      previous |-> l.entry[e].previous, next |-> l.entry[e].next]]]

(* Every entry has its place.                                              *)
LEMMA PlaceIsOf ==
  ASSUME NEW l, NEW s, Chained(l, s)
  PROVE  /\ \A j \in 1..Len(s) : s[j] \in DOMAIN l.entry /\ PlaceOf(s, s[j]) = j
         /\ \A e \in DOMAIN l.entry : /\ PlaceOf(s, e) \in 1..Len(s)
                                      /\ s[PlaceOf(s, e)] = e
<1>1. DOMAIN l.entry = Placed(s) /\ Distinct(s)
  BY DEF Chained
<1> QED BY <1>1 DEF Placed, Distinct, PlaceOf

(* Reversing starts with the list as it is.                                *)
LEMMA NoneMoved ==
  ASSUME NEW l, NEW s, Chained(l, s)
  PROVE  Moved(l, s, 0) = l
<1>1. IsList(l) /\ Len(s) \in Nat
  BY DEF Chained
<1>2. \A e \in DOMAIN l.entry : ~(PlaceOf(s, e) <= 0 \/ PlaceOf(s, e) > Len(s) - 0)
  BY <1>1, PlaceIsOf
<1>3. Moved(l, s, 0) =
        [first |-> l.first, last |-> l.last, size |-> l.size,
         entry |-> [e \in DOMAIN l.entry |->
           [data |-> l.entry[e].data, previous |-> l.entry[e].previous,
            next |-> l.entry[e].next]]]
  BY <1>2 DEF Moved
<1> QED BY <1>1, <1>3 DEF IsList

(* Nothing but the data has moved.                                         *)
LEMMA MovedIs ==
  ASSUME NEW l, NEW s, Chained(l, s), NEW c \in Nat, c <= Len(s)
  PROVE  /\ IsList(Moved(l, s, c))
         /\ DOMAIN Moved(l, s, c).entry = DOMAIN l.entry
         /\ \A j \in 1..Len(s) :
              /\ Moved(l, s, c).entry[s[j]].data =
                   IF j <= c \/ j > Len(s) - c THEN l.entry[s[Len(s) + 1 - j]].data
                   ELSE l.entry[s[j]].data
              /\ Moved(l, s, c).entry[s[j]].previous = At(s, j - 1)
              /\ Moved(l, s, c).entry[s[j]].next = At(s, j + 1)
         /\ Chained(Moved(l, s, c), s)
<1> DEFINE M == Moved(l, s, c)
<1>1. IsList(l) /\ Len(s) \in Nat
      /\ \A j \in 1..Len(s) : /\ l.entry[s[j]].previous = At(s, j - 1)
                              /\ l.entry[s[j]].next = At(s, j + 1)
  BY DEF Chained
<1>2. IsList(M) /\ DOMAIN M.entry = DOMAIN l.entry
  BY <1>1 DEF IsList, Moved
<1>3. \A j \in 1..Len(s) :
        /\ M.entry[s[j]].data =
                   IF j <= c \/ j > Len(s) - c THEN l.entry[s[Len(s) + 1 - j]].data
                   ELSE l.entry[s[j]].data
        /\ M.entry[s[j]].previous = At(s, j - 1)
        /\ M.entry[s[j]].next = At(s, j + 1)
  <2> SUFFICES ASSUME NEW j \in 1..Len(s)
               PROVE
        /\ M.entry[s[j]].data =
                   IF j <= c \/ j > Len(s) - c THEN l.entry[s[Len(s) + 1 - j]].data
                   ELSE l.entry[s[j]].data
        /\ M.entry[s[j]].previous = At(s, j - 1)
        /\ M.entry[s[j]].next = At(s, j + 1)
    OBVIOUS
  <2>1. s[j] \in DOMAIN l.entry /\ PlaceOf(s, s[j]) = j
    BY PlaceIsOf
  <2>2. M.entry[s[j]] =
          [data |-> IF PlaceOf(s, s[j]) <= c \/ PlaceOf(s, s[j]) > Len(s) - c
                    THEN l.entry[s[Len(s) + 1 - PlaceOf(s, s[j])]].data
                    ELSE l.entry[s[j]].data,
           previous |-> l.entry[s[j]].previous, next |-> l.entry[s[j]].next]
    BY <2>1 DEF Moved
  <2> QED BY <1>1, <2>1, <2>2
<1>4. M.first = l.first /\ M.last = l.last /\ M.size = l.size
  BY DEF Moved
<1> HIDE DEF M
<1>5. Chained(M, s)
  BY <1>2, <1>3, <1>4 DEF Chained
<1> QED BY <1>2, <1>3, <1>5 DEF M

(* One more pair.                                                          *)
LEMMA MovedMore ==
  ASSUME NEW l, NEW s, Chained(l, s), NEW c \in Nat, c + 1 < Len(s) - c
  PROVE  Swapped(Moved(l, s, c), s[c + 1], s[Len(s) - c]) = Moved(l, s, c + 1)
<1> DEFINE M == Moved(l, s, c)
           N == Moved(l, s, c + 1)
           a == s[c + 1]
           b == s[Len(s) - c]
<1>1. /\ Len(s) \in Nat /\ Distinct(s) /\ c <= Len(s) /\ c + 1 <= Len(s)
      /\ c + 1 \in Nat /\ c + 1 \in 1..Len(s) /\ Len(s) - c \in 1..Len(s)
  BY DEF Chained
<1>2. a \in DOMAIN l.entry /\ b \in DOMAIN l.entry /\ a # b
  BY <1>1, PlaceIsOf DEF Distinct
<1>3. /\ IsList(M) /\ DOMAIN M.entry = DOMAIN l.entry
      /\ \A j \in 1..Len(s) :
              /\ M.entry[s[j]].data =
                   IF j <= c \/ j > Len(s) - c THEN l.entry[s[Len(s) + 1 - j]].data
                   ELSE l.entry[s[j]].data
              /\ M.entry[s[j]].previous = At(s, j - 1)
              /\ M.entry[s[j]].next = At(s, j + 1)
  BY <1>1, MovedIs
<1>4. /\ IsList(N) /\ DOMAIN N.entry = DOMAIN l.entry
      /\ \A j \in 1..Len(s) :
              /\ N.entry[s[j]].data =
                   IF j <= c + 1 \/ j > Len(s) - (c + 1) THEN l.entry[s[Len(s) + 1 - j]].data
                   ELSE l.entry[s[j]].data
              /\ N.entry[s[j]].previous = At(s, j - 1)
              /\ N.entry[s[j]].next = At(s, j + 1)
  BY <1>1, MovedIs
<1>5. M.first = N.first /\ M.last = N.last /\ M.size = N.size
  BY DEF Moved
<1> HIDE DEF M
<1>6. M.entry[a].data = l.entry[a].data /\ M.entry[b].data = l.entry[b].data
  <2>1. /\ ~(c + 1 <= c \/ c + 1 > Len(s) - c)
        /\ ~(Len(s) - c <= c \/ Len(s) - c > Len(s) - c)
    BY <1>1
  <2> QED BY <1>1, <1>3, <2>1
<1> HIDE DEF N, a, b
<1>7. Swapped(M, a, b) =
        [first |-> M.first, last |-> M.last, size |-> M.size,
         entry |-> [f \in DOMAIN M.entry |->
              [data |-> IF f = a THEN M.entry[b].data
                        ELSE IF f = b THEN M.entry[a].data ELSE M.entry[f].data,
               previous |-> M.entry[f].previous, next |-> M.entry[f].next]]]
  <2>1. a \in DOMAIN M.entry /\ b \in DOMAIN M.entry
    BY <1>2, <1>3
  <2>2. IsList(M) /\ a # b
    BY <1>2, <1>3
  <2> QED BY <2>1, <2>2, SwappedIs, Zenon
<1>8. \A f \in DOMAIN l.entry :
        N.entry[f] = [data |-> IF f = a THEN M.entry[b].data
                        ELSE IF f = b THEN M.entry[a].data ELSE M.entry[f].data,
                      previous |-> M.entry[f].previous, next |-> M.entry[f].next]
  <2> SUFFICES ASSUME NEW f \in DOMAIN l.entry
               PROVE  N.entry[f] = [data |-> IF f = a THEN M.entry[b].data
                        ELSE IF f = b THEN M.entry[a].data ELSE M.entry[f].data,
                      previous |-> M.entry[f].previous, next |-> M.entry[f].next]
    OBVIOUS
  <2>1. PICK j \in 1..Len(s) : f = s[j]
    BY PlaceIsOf
  <2>2. (f = a <=> j = c + 1) /\ (f = b <=> j = Len(s) - c)
    BY <1>1, <2>1 DEF Distinct, a, b
  <2>3. N.entry[f] = [data |-> N.entry[f].data, previous |-> N.entry[f].previous,
                      next |-> N.entry[f].next]
    BY <1>4 DEF IsList
  <2>4. N.entry[f].previous = M.entry[f].previous /\ N.entry[f].next = M.entry[f].next
    BY <1>3, <1>4, <2>1
  <2>5. N.entry[f].data = IF f = a THEN M.entry[b].data
                        ELSE IF f = b THEN M.entry[a].data ELSE M.entry[f].data
    <3>1. CASE j = c + 1
      <4>1. Len(s) + 1 - j = Len(s) - c
        BY <1>1, <3>1
      <4> QED BY <1>1, <1>4, <1>6, <2>1, <2>2, <3>1, <4>1 DEF b
    <3>2. CASE j = Len(s) - c
      <4>1. Len(s) + 1 - j = c + 1 /\ j > Len(s) - (c + 1) /\ j # c + 1
        BY <1>1, <3>2
      <4> QED BY <1>1, <1>4, <1>6, <2>1, <2>2, <3>2, <4>1 DEF a
    <3>3. CASE j # c + 1 /\ j # Len(s) - c
      <4>1. (j <= c <=> j <= c + 1) /\ (j > Len(s) - c <=> j > Len(s) - (c + 1))
        BY <1>1, <3>3
      <4> QED BY <1>3, <1>4, <2>1, <2>2, <3>3, <4>1
    <3> QED BY <3>1, <3>2, <3>3
  <2> QED BY <2>3, <2>4, <2>5
<1>9. N = [first |-> M.first, last |-> M.last, size |-> M.size,
           entry |-> [f \in DOMAIN l.entry |-> N.entry[f]]]
  BY <1>4, <1>5 DEF IsList
<1>10. Swapped(M, a, b) = N
  <2>1. [f \in DOMAIN l.entry |-> N.entry[f]] =
          [f \in DOMAIN M.entry |->
              [data |-> IF f = a THEN M.entry[b].data
                        ELSE IF f = b THEN M.entry[a].data ELSE M.entry[f].data,
               previous |-> M.entry[f].previous, next |-> M.entry[f].next]]
    BY <1>3, <1>8
  <2> QED BY <1>7, <1>9, <2>1
<1> QED BY <1>10 DEF M, N, a, b

LesserOf(a, b) == IF a < b THEN a ELSE b

(* The loop ends where the ends meet: half of the pairs are exchanged, and *)
(* no pair twice.                                                          *)
LEMMA ReversedBy ==
  ASSUME NEW l, NEW s, Chained(l, s), NEW f,
         f = CHOOSE g : g = Reversing(l, Len(s), g)
  PROVE  f[Len(s)].l = Moved(l, s, Len(s) \div 2)
<1> DEFINE n == Len(s)
           half == n \div 2
           C(k) == LesserOf(k, half)
           h == [k \in 0..n |-> [l |-> Moved(l, s, C(k)), head |-> At(s, C(k) + 1),
                                 tail |-> At(s, n - C(k))]]
           Eq(g) == g = Reversing(l, n, g)
<1>1. n \in Nat /\ l.first = At(s, 1) /\ l.last = At(s, n) /\ Distinct(s)
      /\ s \in Seq(1..MaxListSize)
  BY DEF Chained
<1>2. half \in Nat /\ (n = 2 * half \/ n = 2 * half + 1) /\ 2 * half <= n /\ half <= n
  BY <1>1
<1> HIDE DEF n, half
<1>3. Eq(h)
  <2>1. h[0] = [l |-> l, head |-> l.first, tail |-> l.last]
    <3>1. C(0) = 0 /\ n - 0 = n /\ 0 + 1 = 1 /\ 0 \in 0..n
      BY <1>1, <1>2 DEF LesserOf
    <3>2. h[0] = [l |-> Moved(l, s, 0), head |-> At(s, 0 + 1), tail |-> At(s, n - 0)]
      BY <3>1
    <3> QED BY <1>1, <3>1, <3>2, NoneMoved
  <2>2. ASSUME NEW k \in 0..n, k # 0
        PROVE  h[k] = IF Met(h[k - 1].l, h[k - 1].head, h[k - 1].tail) THEN h[k - 1]
                      ELSE [l |-> Swapped(h[k - 1].l, h[k - 1].head, h[k - 1].tail),
                            head |-> Following(h[k - 1].l, h[k - 1].head),
                            tail |-> Preceding(h[k - 1].l, h[k - 1].tail)]
    <3> DEFINE c == C(k - 1)
               M == Moved(l, s, c)
               a == s[c + 1]
               b == s[n - c]
    <3>1. /\ c \in Nat /\ c <= half /\ c <= n /\ c + 1 \in 1..n /\ n - c \in 1..n
          /\ k - 1 \in 0..n
      <4>1. k - 1 \in 0..n /\ k - 1 \in Nat /\ k - 1 < n
        BY <1>1, <2>2
      <4>2. c \in Nat /\ c <= half /\ c <= k - 1
        BY <1>2, <4>1 DEF LesserOf
      <4> HIDE DEF c
      <4> QED BY <1>1, <1>2, <4>1, <4>2
    <3>2. h[k - 1] = [l |-> M, head |-> a, tail |-> b]
      <4>1. At(s, c + 1) = a /\ At(s, n - c) = b
        BY <3>1 DEF At, n
      <4>2. h[k - 1] = [l |-> Moved(l, s, C(k - 1)), head |-> At(s, C(k - 1) + 1),
                        tail |-> At(s, n - C(k - 1))]
        BY <3>1
      <4> QED BY <4>1, <4>2
    <3>3. h[k] = [l |-> Moved(l, s, C(k)), head |-> At(s, C(k) + 1), tail |-> At(s, n - C(k))]
      OBVIOUS
    <3> HIDE DEF h
    <3>4. h[k - 1].l = M /\ h[k - 1].head = a /\ h[k - 1].tail = b
      BY <3>2
    <3>5. /\ Following(M, a) = At(s, c + 2) /\ Preceding(M, a) = At(s, c)
          /\ Preceding(M, b) = At(s, n - c - 1)
      <4>1. \A j \in 1..Len(s) : /\ M.entry[s[j]].previous = At(s, j - 1)
                                 /\ M.entry[s[j]].next = At(s, j + 1)
        <5>1. c \in Nat /\ c <= Len(s)
          BY <3>1 DEF n
        <5> HIDE DEF c
        <5> QED BY <5>1, MovedIs
      <4>2. (c + 1) + 1 = c + 2 /\ (c + 1) - 1 = c
        BY <3>1
      <4> HIDE DEF M
      <4> QED BY <3>1, <4>1, <4>2 DEF Following, Preceding, n
    <3> HIDE DEF M
    <3>6. Met(M, a, b) <=> c = half
      <4>1. a = b <=> c + 1 = n - c
        BY <1>1, <3>1 DEF Distinct, n
      <4>2. At(s, c) = b <=> c = n - c
        BY <1>1, <3>1, AtIs DEF n
      <4>3. (c + 1 = n - c \/ c = n - c) <=> c = half
        BY <1>1, <1>2, <3>1
      <4> QED BY <3>5, <4>1, <4>2, <4>3 DEF Met
    <3>7. CASE c = half
      <4>1. C(k) = c
        BY <1>1, <1>2, <2>2, <3>7 DEF LesserOf
      <4>2. h[k] = [l |-> M, head |-> At(s, c + 1), tail |-> At(s, n - c)]
        BY <3>3, <4>1 DEF M
      <4>3. At(s, c + 1) = a /\ At(s, n - c) = b
        BY <3>1 DEF At, n
      <4> QED BY <3>2, <3>4, <3>6, <3>7, <4>2, <4>3
    <3>8. CASE c # half
      <4>1. C(k) = c + 1 /\ c + 1 < n - c
        BY <1>1, <1>2, <2>2, <3>1, <3>8 DEF LesserOf
      <4>2. Swapped(M, a, b) = Moved(l, s, c + 1)
        <5>1. c \in Nat /\ c + 1 < Len(s) - c
          BY <3>1, <4>1 DEF n
        <5> HIDE DEF c
        <5> QED BY <5>1, MovedMore DEF M, n
      <4>3. (c + 1) + 1 = c + 2 /\ n - (c + 1) = n - c - 1
        BY <1>1, <3>1
      <4>4. h[k] = [l |-> Moved(l, s, c + 1), head |-> At(s, c + 2), tail |-> At(s, n - c - 1)]
        BY <3>3, <4>1, <4>3
      <4> QED BY <3>4, <3>5, <3>6, <3>8, <4>2, <4>4
    <3> QED BY <3>7, <3>8
  <2> HIDE DEF C
  <2>3. h = [k \in 0..n |-> h[k]]
    OBVIOUS
  <2> HIDE DEF h
  <2>4. \A k \in 0..n : h[k] =
          IF k = 0 THEN [l |-> l, head |-> l.first, tail |-> l.last]
          ELSE IF Met(h[k - 1].l, h[k - 1].head, h[k - 1].tail) THEN h[k - 1]
          ELSE [l |-> Swapped(h[k - 1].l, h[k - 1].head, h[k - 1].tail),
                head |-> Following(h[k - 1].l, h[k - 1].head),
                tail |-> Preceding(h[k - 1].l, h[k - 1].tail)]
    BY <2>1, <2>2
  <2>5. Reversing(l, n, h) = [k \in 0..n |-> h[k]]
    BY <2>4 DEF Reversing
  <2> QED BY <2>3, <2>5
<1>4. Eq(f)
  <2>1. f = CHOOSE g : Eq(g)
    BY DEF n
  <2> HIDE DEF Eq, h
  <2> QED BY <1>3, <2>1
<1>5. \A k \in 0..n : f[k] = h[k]
  <2> DEFINE Bad == {k \in 0..n : f[k] # h[k]}
             Then(x) == IF Met(x.l, x.head, x.tail) THEN x
                        ELSE [l |-> Swapped(x.l, x.head, x.tail),
                              head |-> Following(x.l, x.head),
                              tail |-> Preceding(x.l, x.tail)]
             first == [l |-> l, head |-> l.first, tail |-> l.last]
  <2> SUFFICES ASSUME Bad # {} PROVE FALSE
    OBVIOUS
  <2> HIDE DEF h
  <2>1. PICK m \in Bad : \A k \in Bad : m <= k
    <3>1. Bad \in SUBSET Nat
      BY <1>1
    <3> HIDE DEF Bad
    <3> QED BY <3>1, LeastOf
  <2>2. /\ f = [k \in 0..n |-> IF k = 0 THEN first ELSE Then(f[k - 1])]
        /\ h = [k \in 0..n |-> IF k = 0 THEN first ELSE Then(h[k - 1])]
    BY <1>3, <1>4 DEF Reversing
  <2> HIDE DEF Then, first, Eq
  <2>3. m # 0
    BY <2>1, <2>2
  <2>4. m - 1 \in 0..n /\ m - 1 \notin Bad /\ m \in 0..n /\ f[m] # h[m]
    BY <1>1, <2>1, <2>3
  <2>5. f[m] = Then(f[m - 1]) /\ h[m] = Then(h[m - 1])
    BY <2>2, <2>3, <2>4
  <2>6. f[m - 1] = h[m - 1]
    BY <2>4
  <2> QED BY <2>4, <2>5, <2>6
<1>6. n \in 0..n /\ C(n) = half
  BY <1>1, <1>2 DEF LesserOf
<1>7. h[n].l = Moved(l, s, half)
  BY <1>6
<1> QED BY <1>5, <1>6, <1>7 DEF n, half

(* Half of the pairs is all of the list.                                   *)
LEMMA HalfMoved ==
  ASSUME NEW l, NEW s, Chained(l, s)
  PROVE  LET M == Moved(l, s, Len(s) \div 2)
         IN  Chained(M, s) /\ DataOf(M, s) = Sequence!Seqs!Reverse(DataOf(l, s))
<1> DEFINE n == Len(s)
           half == n \div 2
           M == Moved(l, s, half)
<1>1. n \in Nat
  BY DEF Chained
<1>2. half \in Nat /\ (n = 2 * half \/ n = 2 * half + 1) /\ half <= n
  BY <1>1
<1> HIDE DEF half
<1>4. /\ \A j \in 1..n : M.entry[s[j]].data =
                   IF j <= half \/ j > n - half THEN l.entry[s[n + 1 - j]].data
                   ELSE l.entry[s[j]].data
      /\ Chained(M, s)
  BY <1>2, MovedIs
<1> HIDE DEF M, n
<1>5. ASSUME NEW j \in 1..n
      PROVE  M.entry[s[j]].data = l.entry[s[n + 1 - j]].data
  <2>1. CASE j <= half \/ j > n - half
    BY <1>4, <2>1
  <2>2. CASE ~(j <= half \/ j > n - half)
    <3>1. n + 1 - j = j
      BY <1>1, <1>2, <2>2
    <3> QED BY <1>4, <2>2, <3>1
  <2> QED BY <2>1, <2>2
<1>6. DataOf(M, s) = Sequence!Seqs!Reverse(DataOf(l, s))
  <2> DEFINE D == DataOf(l, s)
  <2>1. Len(D) = n /\ \A j \in 1..n : D[j] = l.entry[s[j]].data
    BY <1>1 DEF DataOf, n
  <2> HIDE DEF D
  <2>2. Sequence!Seqs!Reverse(D) = [j \in 1..Len(D) |-> D[(Len(D) - j) + 1]]
    BY DEF Sequence!Seqs!Reverse
  <2>3. \A j \in 1..n : (n - j) + 1 \in 1..n /\ (n - j) + 1 = n + 1 - j
    BY <1>1
  <2>4. DataOf(M, s) = [j \in 1..n |-> M.entry[s[j]].data]
    BY DEF DataOf, n
  <2> QED BY <1>5, <2>1, <2>2, <2>3, <2>4 DEF D
<1> QED BY <1>4, <1>6 DEF M, half, n

(* llist_reverse() reverses.                                               *)
LEMMA Reversed ==
  ASSUME NEW s, Chained(list, s), llist_reverse
  PROVE  /\ Chained(list', s)
         /\ DataOf(list', s) = Sequence!Seqs!Reverse(DataOf(list, s))
         /\ given' = NoData /\ it' = NoIterator
<1> DEFINE M == Moved(list, s, Len(s) \div 2)
<1>1. list.size = Len(s)
  BY DEF Chained
<1>3. Changed(M, NoData)
  <2>1. PICK f : /\ f = CHOOSE g : g = Reversing(list, list.size, g)
                 /\ Changed(f[list.size].l, NoData)
    BY ReversingIs
  <2>2. f[Len(s)].l = M
    BY <1>1, <2>1, ReversedBy
  <2> QED BY <1>1, <2>1, <2>2
<1>4. Chained(M, s) /\ DataOf(M, s) = Sequence!Seqs!Reverse(DataOf(list, s))
  BY HalfMoved
<1> HIDE DEF M
<1> QED BY <1>3, <1>4 DEF Changed

(* An entry at the end.                                                    *)
LEMMA Appended ==
  ASSUME NEW l, NEW s, Chained(l, s), Len(s) < MaxListSize, NEW d
  PROVE  LET n == add_last(l, d)
             t == Put(s, Len(s) + 1, Unallocated(l))
         IN  /\ Chained(n, t) /\ Len(t) = Len(s) + 1
             /\ DataOf(n, t) = Put(DataOf(l, s), Len(s) + 1, d)
<1> DEFINE k == Len(s) + 1
           t == Put(s, k, Unallocated(l))
<1>1. Len(s) \in Nat /\ l.last = At(s, Len(s))
  BY DEF Chained
<1>2. k \in 1..(Len(s) + 1) /\ k - 1 = Len(s) /\ At(s, k) = null
  BY <1>1 DEF At
<1>3. add_last(l, d) = Insert(l, d, At(s, k - 1), At(s, k))
  BY <1>1, <1>2 DEF add_last
<1>4. Len(t) = Len(s) + 1
  BY <1>1 DEF Put
<1>5. /\ Chained(Insert(l, d, At(s, k - 1), At(s, k)), t)
      /\ DataOf(Insert(l, d, At(s, k - 1), At(s, k)), t) = Put(DataOf(l, s), k, d)
  <2> HIDE DEF k
  <2> QED BY <1>2, Inserted
<1> QED BY <1>3, <1>4, <1>5

(* The recursive function of llist_clone.                                  *)
Copying(l, n, g) ==
  [k \in 0..n |-> IF k = 0 THEN EmptyList
                  ELSE add_last(g[k - 1], l.entry[Entries(l)[k]].data)]

CopyOf(l, n) == (CHOOSE g : g = Copying(l, n, g))[n]

LEMMA CopyingIs ==
  ASSUME llist_clone
  PROVE  list.size > 0 /\ Changed(CopyOf(list, list.size), NoData)
BY DEF llist_clone, Copying, CopyOf

(* The recursion is well-founded.                                          *)
LEMMA CopyingExists ==
  ASSUME NEW l, NEW n \in Nat
  PROVE  \E h : h = Copying(l, n, h)
<1> DEFINE Bad == {m \in Nat : ~ \E h : h = Copying(l, m, h)}
<1> SUFFICES ASSUME Bad # {} PROVE FALSE
  OBVIOUS
<1>1. PICK m \in Bad : \A k \in Bad : m <= k
  <2>1. Bad \in SUBSET Nat
    OBVIOUS
  <2> HIDE DEF Bad
  <2> QED BY <2>1, LeastOf
<1>2. m \in Nat /\ ~ \E h : h = Copying(l, m, h)
  BY <1>1
<1>3. m # 0
  <2> SUFFICES ASSUME m = 0 PROVE FALSE
    OBVIOUS
  <2> DEFINE h == [k \in 0..0 |-> EmptyList]
  <2>1. h = Copying(l, 0, h)
    BY DEF Copying
  <2> HIDE DEF h
  <2> QED BY <1>2, <2>1
<1>4. m - 1 \in Nat /\ m - 1 \notin Bad
  BY <1>1, <1>2, <1>3
<1>5. PICK g : g = Copying(l, m - 1, g)
  BY <1>4
<1> DEFINE D(k) == l.entry[Entries(l)[k]].data
           h == [k \in 0..m |-> IF k < m THEN g[k] ELSE add_last(g[m - 1], D(m))]
<1>6. h = Copying(l, m, h)
  <2> HIDE DEF D
  <2>1. g = [k \in 0..(m - 1) |-> IF k = 0 THEN EmptyList ELSE add_last(g[k - 1], D(k))]
    BY <1>5 DEF Copying, D
  <2>2. ASSUME NEW k \in 0..m
        PROVE  h[k] = IF k = 0 THEN EmptyList ELSE add_last(h[k - 1], D(k))
    <3>1. CASE k < m
      <4>1. k \in 0..(m - 1) /\ h[k] = g[k] /\ (k # 0 => h[k - 1] = g[k - 1])
        BY <1>2, <3>1
      <4> HIDE DEF h
      <4> QED BY <2>1, <4>1
    <3>2. CASE k = m
      <4>1. h[k] = add_last(g[m - 1], D(m)) /\ h[k - 1] = g[m - 1]
        BY <1>2, <1>3, <3>2
      <4> HIDE DEF h
      <4> QED BY <1>3, <3>2, <4>1
    <3> QED BY <1>2, <3>1, <3>2
  <2>3. h = [k \in 0..m |-> h[k]]
    OBVIOUS
  <2> HIDE DEF h
  <2>4. [k \in 0..m |-> h[k]] =
        [k \in 0..m |-> IF k = 0 THEN EmptyList ELSE add_last(h[k - 1], D(k))]
    BY <2>2
  <2>5. Copying(l, m, h) =
        [k \in 0..m |-> IF k = 0 THEN EmptyList ELSE add_last(h[k - 1], D(k))]
    BY DEF Copying, D
  <2> QED BY <2>3, <2>4, <2>5
<1> HIDE DEF h
<1> QED BY <1>2, <1>6

(* The copy has entries of its own, with the same data.                    *)
LEMMA CopiedBy ==
  ASSUME NEW l, NEW s, Chained(l, s), Len(s) <= MaxListSize
  PROVE  \E t : /\ Chained(CopyOf(l, Len(s)), t) /\ Len(t) = Len(s)
                /\ DataOf(CopyOf(l, Len(s)), t) = DataOf(l, s)
<1> DEFINE f == CHOOSE g : g = Copying(l, Len(s), g)
           n == Len(s)
           D == DataOf(l, s)
           Good(k) == \E t : /\ Chained(f[k], t) /\ Len(t) = k
                             /\ DataOf(f[k], t) = [j \in 1..k |-> D[j]]
<1>1. n \in Nat /\ MaxListSize \in Nat /\ Entries(l) = s
      /\ \A k \in 1..n : l.entry[s[k]].data = D[k]
  BY EntriesAre, MaxListSizeAssumption DEF Chained, DataOf
<1>2. f = Copying(l, n, f)
  <2>1. PICK h : h = Copying(l, n, h)
    BY <1>1, CopyingExists
  <2> DEFINE Eq(g) == g = Copying(l, n, g)
  <2>2. Eq(h) /\ f = CHOOSE g : Eq(g)
    BY <2>1
  <2> HIDE DEF Eq, f
  <2>3. Eq(f)
    BY <2>2
  <2> QED BY <2>3 DEF Eq
<1> HIDE DEF D, f
<1>3. \A k \in 0..n : f[k] = IF k = 0 THEN EmptyList ELSE add_last(f[k - 1], D[k])
  <2>1. f = [k \in 0..n |-> IF k = 0 THEN EmptyList
                  ELSE add_last(f[k - 1], l.entry[Entries(l)[k]].data)]
    BY <1>2 DEF Copying
  <2> HIDE DEF n
  <2>2. ASSUME NEW k \in 0..n
        PROVE  f[k] = IF k = 0 THEN EmptyList ELSE add_last(f[k - 1], D[k])
    <3>1. f[k] = IF k = 0 THEN EmptyList
                  ELSE add_last(f[k - 1], l.entry[Entries(l)[k]].data)
      BY <2>1
    <3>2. k # 0 => l.entry[Entries(l)[k]].data = D[k]
      BY <1>1
    <3> QED BY <3>1, <3>2
  <2> QED BY <2>2
<1>4. \A k \in 0..n : Good(k)
  <2> DEFINE Bad == {k \in 0..n : ~Good(k)}
  <2> SUFFICES ASSUME Bad # {} PROVE FALSE
    OBVIOUS
  <2> HIDE DEF Good
  <2>1. PICK m \in Bad : \A k \in Bad : m <= k
    <3>1. Bad \in SUBSET Nat
      BY <1>1
    <3> HIDE DEF Bad
    <3> QED BY <3>1, LeastOf
  <2>2. Good(0)
    <3>1. f[0] = EmptyList
      BY <1>1, <1>3
    <3> DEFINE t == <<>>
    <3>2. Chained(EmptyList, t) /\ Len(t) = 0
      BY DEF Chained, EmptyList, IsList, At, Placed, Distinct
    <3>3. DataOf(EmptyList, t) = [j \in 1..0 |-> D[j]]
      BY DEF DataOf
    <3> HIDE DEF t
    <3> QED BY <3>1, <3>2, <3>3 DEF Good
  <2>3. m \in 0..n /\ ~Good(m) /\ m # 0 /\ m - 1 \in 0..n /\ Good(m - 1)
    <3>1. m # 0 /\ m \in 0..n
      BY <2>1, <2>2
    <3>2. m - 1 \in 0..n /\ m - 1 \notin Bad
      BY <1>1, <2>1, <3>1
    <3> QED BY <2>1, <3>1, <3>2
  <2>4. PICK u : /\ Chained(f[m - 1], u) /\ Len(u) = m - 1
                 /\ DataOf(f[m - 1], u) = [j \in 1..(m - 1) |-> D[j]]
    BY <2>3 DEF Good
  <2> DEFINE t == Put(u, Len(u) + 1, Unallocated(f[m - 1]))
  <2>5. Len(u) < MaxListSize
    BY <1>1, <2>3, <2>4
  <2>6. /\ Chained(add_last(f[m - 1], D[m]), t) /\ Len(t) = Len(u) + 1
        /\ DataOf(add_last(f[m - 1], D[m]), t) = Put(DataOf(f[m - 1], u), Len(u) + 1, D[m])
    BY <2>4, <2>5, Appended
  <2>7. f[m] = add_last(f[m - 1], D[m])
    BY <1>3, <2>3
  <2>8. Put([j \in 1..(m - 1) |-> D[j]], m, D[m]) = [j \in 1..m |-> D[j]]
    BY <2>3 DEF Put
  <2>9. Len(u) + 1 = m
    BY <1>1, <2>3, <2>4
  <2> HIDE DEF t
  <2>10. Good(m)
    BY <2>4, <2>6, <2>7, <2>8, <2>9 DEF Good
  <2> QED BY <2>3, <2>10
<1>5. [j \in 1..n |-> D[j]] = DataOf(l, s)
  BY DEF D, DataOf
<1>6. n \in 0..n
  BY <1>1
<1>7. CopyOf(l, n) = f[n]
  BY DEF CopyOf, f
<1> QED BY <1>4, <1>5, <1>6, <1>7

(* llist_clone() copies.                                                   *)
LEMMA Cloned ==
  ASSUME NEW s, Chained(list, s), Len(s) <= MaxListSize, llist_clone
  PROVE  /\ \E t : Chained(list', t) /\ Len(t) = Len(s) /\ DataOf(list', t) = DataOf(list, s)
         /\ given' = NoData /\ it' = NoIterator
<1>1. list.size = Len(s)
  BY DEF Chained
<1>2. Changed(CopyOf(list, Len(s)), NoData)
  BY <1>1, CopyingIs
<1>3. \E t : /\ Chained(CopyOf(list, Len(s)), t) /\ Len(t) = Len(s)
             /\ DataOf(CopyOf(list, Len(s)), t) = DataOf(list, s)
  BY CopiedBy
<1> QED BY <1>2, <1>3 DEF Changed

(* An iterator stands at an entry or behind the last one.                  *)
Stands(s) == it.used => it.entry \in Placed(s) \cup {null}

(* The list represents a sequence by the entries s.                        *)
Represents(s) ==
  /\ Chained(list, s) /\ Len(s) <= MaxListSize
  /\ DataOf(list, s) \in Seq(Data)
  /\ it = [used |-> it.used, entry |-> it.entry]
  /\ it.used \in BOOLEAN
  /\ Stands(s)

ListInv == \E s : Represents(s)

(* What the abstract list is of a chain of entries.                        *)
LEMMA ContentsAre ==
  ASSUME NEW l, NEW s, Chained(l, s)
  PROVE  /\ Contents(l) = DataOf(l, s) /\ Len(DataOf(l, s)) = Len(s)
         /\ EntriesBefore(l, null) = Len(s)
         /\ \A k \in 1..Len(s) : EntriesBefore(l, s[k]) = k - 1
<1>1. /\ Len(s) \in Nat /\ l.size = Len(s) /\ Distinct(s) /\ Entries(l) = s
      /\ DOMAIN l.entry = Placed(s) /\ null \notin DOMAIN l.entry
  <2>1. Entries(l) = s
    BY EntriesAre
  <2> QED BY <2>1 DEF Chained, IsList
<1>2. Contents(l) = DataOf(l, s)
  <2>1. \A k \in 1..Len(s) : llist_get_entry(l, k - 1) = s[k]
    <3> SUFFICES ASSUME NEW k \in 1..Len(s) PROVE llist_get_entry(l, k - 1) = s[k]
      OBVIOUS
    <3>1. k - 1 \in 0..(Len(s) - 1) /\ (k - 1) + 1 = k
      BY <1>1
    <3>2. llist_get_entry(l, k - 1) = s[(k - 1) + 1]
      BY <3>1, EntriesAre
    <3> QED BY <3>1, <3>2
  <2> QED BY <1>1, <2>1 DEF Contents, DataOf
<1>3. Len(DataOf(l, s)) = Len(s)
  BY <1>1 DEF DataOf
<1>4. EntriesBefore(l, null) = Len(s)
  BY <1>1 DEF EntriesBefore
<1>5. ASSUME NEW k \in 1..Len(s)
      PROVE  EntriesBefore(l, s[k]) = k - 1
  <2>1. s[k] # null
    BY <1>1 DEF Placed
  <2>2. {j \in 1..Len(s) : s[j] = s[k]} = {k}
    BY <1>1 DEF Distinct
  <2>3. FirstOf({k}) = k
    BY <1>1 DEF FirstOf
  <2> QED BY <1>1, <2>1, <2>2, <2>3 DEF EntriesBefore
<1> QED BY <1>2, <1>3, <1>4, <1>5

(* An operation that ends the use of an iterator.                          *)
LEMMA ChangedTo ==
  ASSUME NEW l, NEW t, Chained(l, t), Len(t) <= MaxListSize,
         DataOf(l, t) \in Seq(Data), NEW d, Changed(l, d)
  PROVE  /\ ListInv'
         /\ Contents(list)' = DataOf(l, t) /\ given' = d
         /\ Sequence!Ended
<1>1. list' = l /\ given' = d /\ it' = NoIterator
  BY DEF Changed
<1>2. it'.used = FALSE /\ it' = [used |-> it'.used, entry |-> it'.entry]
  BY <1>1 DEF NoIterator
<1>3. Represents(t)'
  BY <1>1, <1>2 DEF Represents, Stands
<1>4. Contents(l) = DataOf(l, t)
  BY ContentsAre
<1> QED BY <1>1, <1>2, <1>3, <1>4 DEF ListInv, Sequence!Ended

(* An element added, and one removed, at any place.                        *)
LEMMA AddedTo ==
  ASSUME NEW s, Represents(s), NEW k \in 1..(Len(s) + 1), NEW d \in Data, Grows(1),
         Changed(Insert(list, d, At(s, k - 1), At(s, k)), NoData)
  PROVE  ListInv' /\ Sequence!Next
<1> DEFINE n == Insert(list, d, At(s, k - 1), At(s, k))
           t == Put(s, k, Unallocated(list))
           D == DataOf(list, s)
<1>1. /\ Chained(list, s) /\ Len(s) \in Nat /\ D \in Seq(Data) /\ list.size = Len(s)
      /\ Len(s) + 1 <= MaxListSize
  BY DEF Represents, Chained, Grows
<1>2. Chained(n, t) /\ DataOf(n, t) = Put(D, k, d)
  <2>1. Len(s) < MaxListSize
    BY <1>1, MaxListSizeAssumption
  <2> QED BY <1>1, <2>1, Inserted
<1>3. Len(t) = Len(s) + 1
  BY <1>1 DEF Put
<1>4. Contents(list) = D /\ Len(D) = Len(s)
  BY <1>1, ContentsAre
<1> HIDE DEF n, t, D
<1>5. Put(D, k, d) \in Seq(Data) /\ Sequence!Seqs!InsertAt(D, k, d) = Put(D, k, d)
  <2>1. k \in 1..(Len(D) + 1) /\ d \in Data /\ D \in Seq(Data)
    BY <1>1, <1>4
  <2> QED BY <2>1, PutIs
<1>6. /\ ListInv' /\ Contents(list)' = Put(D, k, d) /\ given' = NoData
      /\ Sequence!Ended
  <2>1. /\ Chained(n, t) /\ Len(t) <= MaxListSize /\ DataOf(n, t) \in Seq(Data)
        /\ Changed(n, NoData)
    BY <1>1, <1>2, <1>3, <1>5 DEF n
  <2> QED BY <1>2, <2>1, ChangedTo
<1>7. Sequence!Add(k, d)
  BY <1>4, <1>5, <1>6 DEF Sequence!Add
<1>8. k \in 1..(MaxListSize + 1) /\ k <= Len(Contents(list)) + 1
  BY <1>1, <1>4, MaxListSizeAssumption
<1> QED BY <1>6, <1>7, <1>8 DEF Sequence!Next

LEMMA RemovedFrom ==
  ASSUME NEW s, Represents(s), NEW k \in 1..Len(s),
         NEW given1 \in {NoData, list.entry[s[k]].data},
         Changed(llist_remove_entry(list, s[k]), given1)
  PROVE  ListInv' /\ Sequence!Next
<1> DEFINE n == llist_remove_entry(list, s[k])
           t == Cut(s, k)
           D == DataOf(list, s)
<1>1. /\ Chained(list, s) /\ Len(s) \in Nat /\ D \in Seq(Data) /\ list.size = Len(s)
      /\ Len(s) <= MaxListSize
  BY DEF Represents, Chained
<1>2. Chained(n, t) /\ DataOf(n, t) = Cut(D, k)
  BY <1>1, Removed
<1>3. Len(t) = Len(s) - 1
  BY <1>1 DEF Cut
<1>4. Contents(list) = D /\ Len(D) = Len(s)
  BY <1>1, ContentsAre
<1>5. D[k] = list.entry[s[k]].data
  BY DEF DataOf
<1> HIDE DEF n, t, D
<1>6. Cut(D, k) \in Seq(Data) /\ Sequence!Seqs!RemoveAt(D, k) = Cut(D, k)
  <2>1. k \in 1..Len(D) /\ D \in Seq(Data)
    BY <1>1, <1>4
  <2> QED BY <2>1, CutIs
<1>7. /\ ListInv' /\ Contents(list)' = Cut(D, k) /\ given' = given1
      /\ Sequence!Ended
  <2>1. /\ Chained(n, t) /\ Len(t) <= MaxListSize /\ DataOf(n, t) \in Seq(Data)
        /\ Changed(n, given1)
    BY <1>1, <1>2, <1>3, <1>6, MaxListSizeAssumption DEF n
  <2> QED BY <1>2, <2>1, ChangedTo
<1>8. Sequence!RemoveElement(k)
  BY <1>4, <1>5, <1>6, <1>7 DEF Sequence!RemoveElement
<1>9. k \in DOMAIN Contents(list)
  <2>1. k \in DOMAIN D
    BY <1>1, <1>4
  <2> QED BY <1>4, <2>1
<1> QED BY <1>7, <1>8, <1>9 DEF Sequence!Next

(* What is known of a list that is used.                                   *)
LEMMA KnownOf ==
  ASSUME NEW s, Represents(s)
  PROVE  /\ Chained(list, s) /\ Len(s) \in Nat /\ list.size = Len(s)
         /\ list.first = At(s, 1) /\ list.last = At(s, Len(s)) /\ At(s, Len(s) + 1) = null
         /\ At(s, 0) = null
         /\ \A k \in 1..Len(s) : /\ At(s, k) = s[k]
                                 /\ Preceding(list, s[k]) = At(s, k - 1)
                                 /\ Following(list, s[k]) = At(s, k + 1)
         /\ \A e \in Allocated(list) : \E k \in 1..Len(s) : e = s[k]
         /\ \A i \in 0..(Len(s) - 1) : llist_get_entry(list, i) = s[i + 1]
         /\ Entries(list) = s
<1>1. Chained(list, s)
  BY DEF Represents
<1>2. /\ \A i \in 0..(Len(s) - 1) : llist_get_entry(list, i) = s[i + 1]
      /\ Entries(list) = s
  BY <1>1, EntriesAre
<1>3. Len(s) \in Nat
  BY <1>1 DEF Chained
<1> QED BY <1>1, <1>2, <1>3 DEF Chained, At, Preceding, Following, Allocated, Placed

(* The operations.                                                         *)
LEMMA AddsAtEnds ==
  ASSUME NEW s, Represents(s), NEW d \in Data,
         llist_add_first(d) \/ llist_add_last(d)
  PROVE  ListInv' /\ Sequence!Next
<1>1. Len(s) \in Nat /\ list.first = At(s, 1) /\ list.last = At(s, Len(s))
      /\ At(s, Len(s) + 1) = null /\ At(s, 0) = null
  BY KnownOf
<1>2. CASE llist_add_first(d)
  <2>1. 1 \in 1..(Len(s) + 1) /\ 1 - 1 = 0
    BY <1>1
  <2>2. Grows(1) /\ Changed(Insert(list, d, At(s, 1 - 1), At(s, 1)), NoData)
    BY <1>1, <1>2, <2>1 DEF llist_add_first
  <2> QED BY <2>1, <2>2, AddedTo
<1>3. CASE llist_add_last(d)
  <2> DEFINE k == Len(s) + 1
  <2>1. k \in 1..(Len(s) + 1) /\ k - 1 = Len(s)
    BY <1>1
  <2>2. Grows(1) /\ Changed(Insert(list, d, At(s, k - 1), At(s, k)), NoData)
    BY <1>1, <1>3, <2>1 DEF llist_add_last, add_last
  <2> HIDE DEF k
  <2> QED BY <2>1, <2>2, AddedTo
<1> QED BY <1>2, <1>3

LEMMA AddsWithin ==
  ASSUME NEW s, Represents(s), NEW d \in Data,
         \/ \E index \in 0..MaxListSize : llist_add_at(index, d)
         \/ \E e \in Allocated(list) :
              lnode_add_after(e, d) \/ lnode_add_before(e, d)
  PROVE  ListInv' /\ Sequence!Next
<1>1. /\ Len(s) \in Nat /\ list.size = Len(s)
      /\ \A k \in 1..Len(s) : /\ At(s, k) = s[k]
                              /\ Preceding(list, s[k]) = At(s, k - 1)
                              /\ Following(list, s[k]) = At(s, k + 1)
      /\ \A e \in Allocated(list) : \E k \in 1..Len(s) : e = s[k]
      /\ \A i \in 0..(Len(s) - 1) : llist_get_entry(list, i) = s[i + 1]
  BY KnownOf
<1>2. ASSUME NEW index \in 0..MaxListSize, llist_add_at(index, d)
      PROVE  ListInv' /\ Sequence!Next
  <2>1. CASE index < list.size
    <3> DEFINE k == index + 1
    <3>1. k \in 1..Len(s) /\ k \in 1..(Len(s) + 1) /\ llist_get_entry(list, index) = s[k]
      BY <1>1, <2>1
    <3>2. Grows(1) /\ Changed(Insert(list, d, At(s, k - 1), At(s, k)), NoData)
      <4>1. Grows(1) /\ Changed(Insert(list, d, Preceding(list, s[k]), s[k]), NoData)
        BY <1>2, <2>1, <3>1 DEF llist_add_at
      <4> HIDE DEF k
      <4> QED BY <1>1, <3>1, <4>1
    <3> HIDE DEF k
    <3> QED BY <3>1, <3>2, AddedTo
  <2>2. CASE ~(index < list.size)
    <3>1. llist_add_last(d)
      BY <1>2, <2>2 DEF llist_add_at
    <3> QED BY <3>1, AddsAtEnds
  <2> QED BY <2>1, <2>2
<1>3. ASSUME NEW e \in Allocated(list), lnode_add_after(e, d)
      PROVE  ListInv' /\ Sequence!Next
  <2>1. PICK j \in 1..Len(s) : e = s[j]
    BY <1>1
  <2> DEFINE k == j + 1
  <2>2. k \in 1..(Len(s) + 1) /\ k - 1 = j
    BY <1>1
  <2>3. Grows(1) /\ Changed(Insert(list, d, At(s, k - 1), At(s, k)), NoData)
    BY <1>1, <1>3, <2>1, <2>2 DEF lnode_add_after
  <2> HIDE DEF k
  <2> QED BY <2>2, <2>3, AddedTo
<1>4. ASSUME NEW e \in Allocated(list), lnode_add_before(e, d)
      PROVE  ListInv' /\ Sequence!Next
  <2>1. PICK k \in 1..Len(s) : e = s[k]
    BY <1>1
  <2>2. k \in 1..(Len(s) + 1)
    BY <1>1
  <2>3. Grows(1) /\ Changed(Insert(list, d, At(s, k - 1), At(s, k)), NoData)
    BY <1>1, <1>4, <2>1 DEF lnode_add_before
  <2> QED BY <2>2, <2>3, AddedTo
<1> QED BY <1>2, <1>3, <1>4

LEMMA AddsAll ==
  ASSUME NEW s, Represents(s), NEW d \in Data, NEW e \in Data, llist_add_all(d, e)
  PROVE  ListInv' /\ Sequence!Next
<1> DEFINE m == add_last(list, d)
           t == Put(s, Len(s) + 1, Unallocated(list))
           n == add_last(m, e)
           u == Put(t, Len(t) + 1, Unallocated(m))
           D == DataOf(list, s)
<1>1. /\ Chained(list, s) /\ Len(s) \in Nat /\ D \in Seq(Data) /\ list.size = Len(s)
      /\ Len(s) + 2 <= MaxListSize /\ MaxListSize \in Nat
  BY MaxListSizeAssumption DEF Represents, Chained, Grows, llist_add_all
<1>2. Contents(list) = D /\ Len(D) = Len(s)
  BY <1>1, ContentsAre
<1>3. /\ Chained(m, t) /\ Len(t) = Len(s) + 1
      /\ DataOf(m, t) = Put(D, Len(s) + 1, d)
  <2>1. Len(s) < MaxListSize
    BY <1>1
  <2> QED BY <1>1, <2>1, Appended
<1> HIDE DEF m, t, D
<1>4. /\ Chained(n, u) /\ Len(u) = Len(t) + 1
      /\ DataOf(n, u) = Put(DataOf(m, t), Len(t) + 1, e)
  <2>1. Len(t) < MaxListSize
    BY <1>1, <1>3
  <2> QED BY <1>3, <2>1, Appended
<1> HIDE DEF n, u
<1>5. Put(D, Len(s) + 1, d) = Append(D, d) /\ Append(D, d) \in Seq(Data)
  <2>1. Append(D, d) \in Seq(Data) /\ Len(Append(D, d)) = Len(s) + 1
    BY <1>1, <1>2
  <2>2. \A j \in 1..(Len(s) + 1) : Append(D, d)[j] = IF j < Len(s) + 1 THEN D[j] ELSE d
    BY <1>1, <1>2
  <2>3. Append(D, d) = [j \in 1..(Len(s) + 1) |-> Append(D, d)[j]]
    <3>1. \A z \in Seq(Data) : z = [j \in 1..Len(z) |-> z[j]]
      OBVIOUS
    <3> QED BY <2>1, <3>1
  <2>4. \A j \in 1..(Len(s) + 1) : j < Len(s) + 1 \/ j = Len(s) + 1
    BY <1>1
  <2> QED BY <2>1, <2>2, <2>3, <2>4 DEF Put
<1>6. Put(Append(D, d), Len(t) + 1, e) = D \o <<d, e>> /\ D \o <<d, e>> \in Seq(Data)
  BY <1>1, <1>2, <1>3 DEF Put
<1>7. Changed(n, NoData)
  BY DEF llist_add_all, n, m
<1>8. /\ ListInv' /\ Contents(list)' = D \o <<d, e>> /\ given' = NoData
      /\ Sequence!Ended
  <2>1. /\ Chained(n, u) /\ Len(u) <= MaxListSize
        /\ DataOf(n, u) = D \o <<d, e>> /\ DataOf(n, u) \in Seq(Data)
    <3>1. Len(u) <= MaxListSize
      BY <1>1, <1>3, <1>4
    <3>2. DataOf(m, t) = Append(D, d)
      BY <1>3, <1>5
    <3> QED BY <1>4, <1>6, <3>1, <3>2
  <2> QED BY <1>7, <2>1, ChangedTo
<1>9. Sequence!AddAll(<<d, e>>)
  BY <1>2, <1>8 DEF Sequence!AddAll
<1> QED BY <1>8, <1>9 DEF Sequence!Next

LEMMA Removes ==
  ASSUME NEW s, Represents(s),
         \/ \E d \in Data : llist_remove(d)
         \/ \E index \in 0..MaxListSize : llist_remove_at(index)
         \/ \E e \in Allocated(list) : lnode_remove(e)
         \/ llist_remove_first \/ llist_remove_last
  PROVE  ListInv' /\ Sequence!Next
<1>1. /\ Len(s) \in Nat /\ list.size = Len(s)
      /\ list.first = At(s, 1) /\ list.last = At(s, Len(s))
      /\ \A k \in 1..Len(s) : At(s, k) = s[k]
      /\ \A e \in Allocated(list) : \E k \in 1..Len(s) : e = s[k]
      /\ \A i \in 0..(Len(s) - 1) : llist_get_entry(list, i) = s[i + 1]
      /\ Entries(list) = s
  BY KnownOf
<1>2. ASSUME NEW k \in 1..Len(s), RemoveGiving(s[k])
      PROVE  ListInv' /\ Sequence!Next
  BY <1>2, RemovedFrom DEF RemoveGiving
<1>3. ASSUME NEW d \in Data, llist_remove(d)
      PROVE  ListInv' /\ Sequence!Next
  <2> DEFINE P == PlacesOf(list, d)
  <2>1. P # {} /\ P \in SUBSET (1..Len(s))
    BY <1>1, <1>3 DEF llist_remove, llist_contains, PlacesOf
  <2> HIDE DEF P
  <2>2. \E m \in P : \A k \in P : m <= k
    <3>1. P \in SUBSET Nat
      BY <1>1, <2>1
    <3> QED BY <2>1, <3>1, LeastOf
  <2>3. FirstOf(P) \in 1..Len(s)
    BY <2>1, <2>2 DEF FirstOf
  <2>4. RemoveGiving(s[FirstOf(P)])
    BY <1>1, <1>3 DEF llist_remove, P
  <2> QED BY <1>2, <2>3, <2>4
<1>4. ASSUME NEW index \in 0..MaxListSize, llist_remove_at(index)
      PROVE  ListInv' /\ Sequence!Next
  <2>1. index \in 0..(Len(s) - 1) /\ index + 1 \in 1..Len(s)
    BY <1>1, <1>4 DEF llist_remove_at
  <2>2. RemoveGiving(s[index + 1])
    BY <1>1, <1>4, <2>1 DEF llist_remove_at
  <2> QED BY <1>2, <2>1, <2>2
<1>5. ASSUME NEW e \in Allocated(list), lnode_remove(e)
      PROVE  ListInv' /\ Sequence!Next
  <2>1. PICK k \in 1..Len(s) : e = s[k]
    BY <1>1
  <2>2. Changed(llist_remove_entry(list, s[k]), NoData)
    BY <1>5, <2>1 DEF lnode_remove
  <2>3. NoData \in {NoData, list.entry[s[k]].data}
    OBVIOUS
  <2> QED BY <2>2, <2>3, RemovedFrom
<1>6. CASE llist_remove_first
  <2>1. 1 \in 1..Len(s)
    BY <1>1, <1>6 DEF llist_remove_first
  <2>2. RemoveGiving(s[1])
    BY <1>1, <1>6, <2>1 DEF llist_remove_first
  <2> QED BY <1>2, <2>1, <2>2
<1>7. CASE llist_remove_last
  <2>1. Len(s) \in 1..Len(s)
    BY <1>1, <1>7 DEF llist_remove_last
  <2>2. RemoveGiving(s[Len(s)])
    BY <1>1, <1>7, <2>1 DEF llist_remove_last
  <2> QED BY <1>2, <2>1, <2>2
<1> QED BY <1>3, <1>4, <1>5, <1>6, <1>7

LEMMA Becomes ==
  ASSUME NEW s, Represents(s), llist_clear \/ llist_reverse \/ llist_clone
  PROVE  ListInv' /\ Sequence!Next
<1> DEFINE D == DataOf(list, s)
<1>1. /\ Chained(list, s) /\ Len(s) \in Nat /\ D \in Seq(Data) /\ Len(s) <= MaxListSize
      /\ MaxListSize \in Nat
  BY MaxListSizeAssumption DEF Represents, Chained
<1>2. Contents(list) = D
  BY <1>1, ContentsAre
<1> HIDE DEF D
<1>3. ASSUME NEW X, X \in Seq(Data), X \in {<<>>, D, Sequence!Seqs!Reverse(D)},
             NEW t, Chained(list', t), Len(t) <= MaxListSize, DataOf(list', t) = X,
             given' = NoData, it' = NoIterator
      PROVE  ListInv' /\ Sequence!Next
  <2> DEFINE l == list'
  <2>1. Changed(l, NoData)
    BY <1>3 DEF Changed
  <2>2. Chained(l, t) /\ DataOf(l, t) = X
    BY <1>3
  <2> HIDE DEF l
  <2>3. ListInv' /\ Contents(list)' = X /\ Sequence!Ended
    BY <1>3, <2>1, <2>2, ChangedTo
  <2>4. Sequence!Become(X)
    BY <1>3, <2>3 DEF Sequence!Become
  <2> QED BY <1>2, <1>3, <2>3, <2>4 DEF Sequence!Next
<1>4. CASE llist_clear
  <2>1. Chained(list', <<>>) /\ DataOf(list', <<>>) = <<>>
    <3>1. list' = EmptyList
      BY <1>4 DEF llist_clear, Changed
    <3>2. Chained(EmptyList, <<>>) /\ DataOf(EmptyList, <<>>) = <<>>
      BY DEF Chained, EmptyList, IsList, At, Placed, Distinct, DataOf
    <3> QED BY <3>1, <3>2
  <2>2. given' = NoData /\ it' = NoIterator
    BY <1>4 DEF llist_clear, Changed
  <2>3. <<>> \in Seq(Data) /\ Len(<<>>) <= MaxListSize
    BY <1>1
  <2> QED BY <1>3, <2>1, <2>2, <2>3
<1>5. CASE llist_reverse
  <2>1. /\ Chained(list', s)
        /\ DataOf(list', s) = Sequence!Seqs!Reverse(D)
        /\ given' = NoData /\ it' = NoIterator
    BY <1>1, <1>5, Reversed DEF D
  <2>2. Sequence!Seqs!Reverse(D) \in Seq(Data)
    BY <1>1 DEF Sequence!Seqs!Reverse
  <2> QED BY <1>1, <1>3, <2>1, <2>2
<1>6. CASE llist_clone
  <2>1. /\ \E t : Chained(list', t) /\ Len(t) = Len(s) /\ DataOf(list', t) = D
        /\ given' = NoData /\ it' = NoIterator
    BY <1>1, <1>6, Cloned DEF D
  <2> QED BY <1>1, <1>3, <2>1
<1> QED BY <1>4, <1>5, <1>6

(* Where the iterator stands: at the k-th entry, or behind the last one.   *)
LEMMA StandsAt ==
  ASSUME NEW s, Represents(s), it.used
  PROVE  \E k \in 1..(Len(s) + 1) :
           /\ it.entry = At(s, k) /\ EntriesBefore(list, it.entry) = k - 1
           /\ it.entry = null <=> k = Len(s) + 1
<1>1. /\ Chained(list, s) /\ Len(s) \in Nat
      /\ s \in Seq(1..MaxListSize) /\ Distinct(s)
  BY DEF Represents, Chained
<1>2. /\ EntriesBefore(list, null) = Len(s)
      /\ \A k \in 1..Len(s) : EntriesBefore(list, s[k]) = k - 1
  BY <1>1, ContentsAre
<1>3. CASE it.entry = null
  <2>1. /\ Len(s) + 1 \in 1..(Len(s) + 1) /\ (Len(s) + 1) - 1 = Len(s)
        /\ At(s, Len(s) + 1) = null
    BY <1>1 DEF At
  <2> QED BY <1>2, <1>3, <2>1
<1>4. CASE it.entry # null
  <2>1. PICK k \in 1..Len(s) : it.entry = s[k]
    BY <1>4 DEF Represents, Stands, Placed
  <2>2. k \in 1..(Len(s) + 1) /\ k # Len(s) + 1 /\ At(s, k) = s[k]
    BY <1>1 DEF At
  <2> QED BY <1>2, <1>4, <2>1, <2>2
<1> QED BY <1>3, <1>4

(* The iterator.                                                           *)
LEMMA Begins ==
  ASSUME NEW s, Represents(s), llist_iterator
  PROVE  ListInv' /\ Sequence!Next
<1>1. /\ Chained(list, s) /\ Len(s) \in Nat /\ Len(s) <= MaxListSize
      /\ DataOf(list, s) \in Seq(Data) /\ list.first = At(s, 1)
  BY DEF Represents, Chained
<1>2. list' = list /\ it' = [used |-> TRUE, entry |-> list.first] /\ given' = NoData
  BY DEF llist_iterator
<1>3. list.first \in Placed(s) \cup {null}
  BY <1>1 DEF At, Placed
<1>4. it'.used = TRUE /\ it' = [used |-> it'.used, entry |-> it'.entry]
      /\ it'.entry = list.first
  BY <1>2
<1>5. Represents(s)'
  BY <1>1, <1>2, <1>3, <1>4 DEF Represents, Stands
<1>6. EntriesBefore(list, list.first) = 0
  <2>1. /\ EntriesBefore(list, null) = Len(s)
        /\ \A k \in 1..Len(s) : EntriesBefore(list, s[k]) = k - 1
    BY <1>1, ContentsAre
  <2>2. CASE Len(s) = 0
    BY <1>1, <2>1, <2>2 DEF At
  <2>3. CASE Len(s) # 0
    <3>1. 1 \in 1..Len(s) /\ list.first = s[1]
      BY <1>1, <2>3 DEF At
    <3> QED BY <2>1, <3>1
  <2> QED BY <2>2, <2>3
<1>7. Sequence!Begin
  BY <1>2, <1>4, <1>6 DEF Sequence!Begin
<1> QED BY <1>5, <1>7 DEF ListInv, Sequence!Next

LEMMA Gives ==
  ASSUME NEW s, Represents(s), llist_iterator_next
  PROVE  ListInv' /\ Sequence!Next
<1> DEFINE D == DataOf(list, s)
<1>1. /\ Chained(list, s) /\ Len(s) \in Nat /\ Len(s) <= MaxListSize
      /\ D \in Seq(Data) /\ s \in Seq(1..MaxListSize) /\ Distinct(s)
      /\ it = [used |-> it.used, entry |-> it.entry]
      /\ \A k \in 1..Len(s) : Following(list, s[k]) = At(s, k + 1)
  BY KnownOf DEF Represents, Chained
<1>2. /\ list' = list /\ it.used /\ it.entry # null
      /\ given' = list.entry[it.entry].data
      /\ it' = [it EXCEPT !.entry = Following(list, it.entry)]
  BY DEF llist_iterator_next
<1>3. PICK k \in 1..(Len(s) + 1) :
        /\ it.entry = At(s, k) /\ EntriesBefore(list, it.entry) = k - 1
        /\ it.entry = null <=> k = Len(s) + 1
  BY <1>2, StandsAt
<1>4. k \in 1..Len(s) /\ it.entry = s[k] /\ k + 1 \in 1..(Len(s) + 1)
  BY <1>1, <1>2, <1>3 DEF At
<1>5. it' = [used |-> it.used, entry |-> At(s, k + 1)]
  BY <1>1, <1>2, <1>4
<1>6. /\ it'.used = it.used /\ it'.entry = At(s, k + 1)
      /\ it' = [used |-> it'.used, entry |-> it'.entry]
  BY <1>5
<1>7. At(s, k + 1) \in Placed(s) \cup {null}
  BY <1>1, <1>4 DEF At, Placed
<1>8. Represents(s)'
  BY <1>1, <1>2, <1>6, <1>7 DEF Represents, Stands
<1>9. EntriesBefore(list, At(s, k + 1)) = k
  <2>1. /\ EntriesBefore(list, null) = Len(s)
        /\ \A j \in 1..Len(s) : EntriesBefore(list, s[j]) = j - 1
    BY <1>1, ContentsAre
  <2>2. CASE k = Len(s)
    BY <1>1, <2>1, <2>2 DEF At
  <2>3. CASE k # Len(s)
    <3>1. k + 1 \in 1..Len(s) /\ (k + 1) - 1 = k
      BY <1>1, <1>4, <2>3
    <3> QED BY <2>1, <3>1 DEF At
  <2> QED BY <2>2, <2>3
<1>10. /\ Contents(list) = D /\ Len(D) = Len(s) /\ D[k] = list.entry[s[k]].data
  BY <1>1, <1>4, ContentsAre DEF DataOf
<1> HIDE DEF D
<1>11. /\ k - 1 < Len(s) /\ (k - 1) + 1 = k /\ given' = D[k]
       /\ EntriesBefore(list', it'.entry) = k
  BY <1>1, <1>2, <1>4, <1>6, <1>9, <1>10
<1>12. Sequence!Give
  BY <1>2, <1>3, <1>6, <1>10, <1>11 DEF Sequence!Give
<1> QED BY <1>8, <1>12 DEF ListInv, Sequence!Next

LEMMA RemovesGiven ==
  ASSUME NEW s, Represents(s), llist_iterator_remove
  PROVE  ListInv' /\ Sequence!Next
<1> DEFINE D == DataOf(list, s)
           e == IF it.entry = null THEN list.last ELSE Preceding(list, it.entry)
<1>1. /\ Chained(list, s) /\ Len(s) \in Nat /\ Len(s) <= MaxListSize
      /\ D \in Seq(Data) /\ s \in Seq(1..MaxListSize) /\ Distinct(s)
      /\ it = [used |-> it.used, entry |-> it.entry] /\ it.used \in BOOLEAN
      /\ list.first = At(s, 1) /\ list.last = At(s, Len(s))
      /\ \A k \in 1..Len(s) : Preceding(list, s[k]) = At(s, k - 1)
  BY KnownOf DEF Represents, Chained
<1>2. /\ list' = llist_remove_entry(list, e) /\ it.used /\ list.first # it.entry
      /\ given' = NoData /\ it' = it
  BY DEF llist_iterator_remove
<1>3. PICK k \in 1..(Len(s) + 1) :
        /\ it.entry = At(s, k) /\ EntriesBefore(list, it.entry) = k - 1
        /\ it.entry = null <=> k = Len(s) + 1
  BY <1>2, StandsAt
<1> DEFINE j == k - 1
<1>4. k # 1 /\ j \in 1..Len(s)
  BY <1>1, <1>2, <1>3
<1>5. e = s[j]
  <2>1. CASE k = Len(s) + 1
    <3>1. it.entry = null /\ j = Len(s)
      BY <1>1, <1>3, <2>1
    <3> QED BY <1>1, <1>4, <3>1 DEF At
  <2>2. CASE k # Len(s) + 1
    <3>1. it.entry # null /\ k \in 1..Len(s) /\ it.entry = s[k]
      BY <1>1, <1>3, <2>2 DEF At
    <3> QED BY <1>1, <1>4, <3>1 DEF At
  <2> QED BY <2>1, <2>2
<1> DEFINE n == llist_remove_entry(list, s[j])
           t == Cut(s, j)
<1>6. list' = n
  BY <1>2, <1>5
<1> HIDE DEF e
<1>7. Chained(n, t) /\ DataOf(n, t) = Cut(D, j) /\ Len(t) = Len(s) - 1
  <2> HIDE DEF j
  <2>1. Chained(n, t) /\ DataOf(n, t) = Cut(D, j)
    BY <1>1, <1>4, Removed
  <2>2. Len(t) = Len(s) - 1
    BY <1>1, <1>4 DEF Cut
  <2> QED BY <2>1, <2>2
<1>8. Contents(list) = D /\ Len(D) = Len(s)
  BY <1>1, ContentsAre
<1>9. At(t, j) = it.entry
  <2>1. t = [i \in 1..(Len(s) - 1) |-> IF i < j THEN s[i] ELSE s[i + 1]]
    BY DEF Cut
  <2>2. CASE k = Len(s) + 1
    <3>1. j \notin 1..Len(t) /\ it.entry = null
      BY <1>1, <1>3, <1>7, <2>2
    <3> HIDE DEF t
    <3> QED BY <3>1 DEF At
  <2>3. CASE k # Len(s) + 1
    <3>1. j \in 1..(Len(s) - 1) /\ ~(j < j) /\ j + 1 = k /\ k \in 1..Len(s)
      BY <1>1, <1>3, <1>4, <2>3
    <3>2. t[j] = s[j + 1]
      BY <2>1, <3>1
    <3>3. it.entry = s[k]
      BY <1>3, <3>1 DEF At
    <3> HIDE DEF t
    <3> QED BY <1>7, <3>1, <3>2, <3>3 DEF At
  <2> QED BY <2>2, <2>3
<1> HIDE DEF n, t, D
<1>10. Cut(D, j) \in Seq(Data) /\ Sequence!Seqs!RemoveAt(D, j) = Cut(D, j)
  <2>1. j \in 1..Len(D) /\ D \in Seq(Data)
    BY <1>1, <1>4, <1>8
  <2> HIDE DEF j
  <2> QED BY <2>1, CutIs
<1>11. /\ Len(t) \in Nat /\ Len(t) <= MaxListSize /\ j \in 1..(Len(t) + 1)
  BY <1>1, <1>4, <1>7, MaxListSizeAssumption
<1>12. Contents(n) = Cut(D, j) /\ EntriesBefore(n, it.entry) = j - 1
  <2>1. /\ Contents(n) = DataOf(n, t)
        /\ EntriesBefore(n, null) = Len(t)
        /\ \A i \in 1..Len(t) : EntriesBefore(n, t[i]) = i - 1
    BY <1>7, ContentsAre
  <2>2. CASE j = Len(t) + 1
    <3>1. At(t, j) = null /\ j - 1 = Len(t)
      BY <1>11, <2>2 DEF At
    <3> QED BY <1>7, <1>9, <2>1, <3>1
  <2>3. CASE j # Len(t) + 1
    <3>1. j \in 1..Len(t)
      BY <1>11, <2>3
    <3>2. At(t, j) = t[j]
      BY <3>1 DEF At
    <3> QED BY <1>7, <1>9, <2>1, <3>1, <3>2
  <2> QED BY <2>2, <2>3
<1>13. it.entry \in Placed(t) \cup {null}
  BY <1>9 DEF At, Placed
<1>14. Represents(t)'
  BY <1>1, <1>2, <1>6, <1>7, <1>10, <1>11, <1>13 DEF Represents, Stands
<1>15. Sequence!RemoveGiven
  <2>1. /\ EntriesBefore(list, it.entry) = j /\ j > 0
        /\ EntriesBefore(list', it'.entry) = j - 1
        /\ Contents(list)' = Cut(D, j)
    BY <1>2, <1>3, <1>4, <1>6, <1>12
  <2> HIDE DEF j
  <2> QED BY <1>2, <1>8, <1>10, <2>1 DEF Sequence!RemoveGiven
<1> QED BY <1>14, <1>15 DEF ListInv, Sequence!Next

(* Every operation keeps the chain and is a step of the abstract list.     *)
LEMMA ListStep ==
  ASSUME ListInv, ListNext
  PROVE  ListInv' /\ Sequence!Next
<1>1. PICK s : Represents(s)
  BY DEF ListInv
<1>2. ASSUME NEW d \in Data, llist_add_first(d) \/ llist_add_last(d)
      PROVE  ListInv' /\ Sequence!Next
  BY <1>1, <1>2, AddsAtEnds
<1>3. ASSUME NEW d \in Data,
             \/ \E index \in 0..MaxListSize : llist_add_at(index, d)
             \/ \E e \in Allocated(list) :
                  lnode_add_after(e, d) \/ lnode_add_before(e, d)
      PROVE  ListInv' /\ Sequence!Next
  BY <1>1, <1>3, AddsWithin
<1>4. ASSUME NEW d \in Data, NEW e \in Data, llist_add_all(d, e)
      PROVE  ListInv' /\ Sequence!Next
  BY <1>1, <1>4, AddsAll
<1>5. CASE \/ \E d \in Data : llist_remove(d)
           \/ \E index \in 0..MaxListSize : llist_remove_at(index)
           \/ \E e \in Allocated(list) : lnode_remove(e)
           \/ llist_remove_first \/ llist_remove_last
  BY <1>1, <1>5, Removes
<1>6. CASE llist_clear \/ llist_reverse \/ llist_clone
  BY <1>1, <1>6, Becomes
<1>7. CASE llist_iterator
  BY <1>1, <1>7, Begins
<1>8. CASE llist_iterator_next
  BY <1>1, <1>8, Gives
<1>9. CASE llist_iterator_remove
  BY <1>1, <1>9, RemovesGiven
<1> QED BY <1>2, <1>3, <1>4, <1>5, <1>6, <1>7, <1>8, <1>9 DEF ListNext

LEMMA ListInitInv == ListInit => ListInv /\ Sequence!Init
<1> SUFFICES ASSUME ListInit PROVE ListInv /\ Sequence!Init
  OBVIOUS
<1>1. list = EmptyList /\ it = NoIterator /\ given = NoData
  BY DEF ListInit
<1>2. /\ Chained(EmptyList, <<>>) /\ DataOf(EmptyList, <<>>) = <<>>
      /\ Len(<<>>) = 0
  BY DEF Chained, EmptyList, IsList, At, Placed, Distinct, DataOf
<1>3. it.used = FALSE /\ it = [used |-> it.used, entry |-> it.entry]
  BY <1>1 DEF NoIterator
<1>4. Represents(<<>>)
  <2>1. Chained(list, <<>>) /\ Len(<<>>) <= MaxListSize
    BY <1>1, <1>2, MaxListSizeAssumption
  <2>2. DataOf(list, <<>>) \in Seq(Data)
    <3>1. <<>> \in Seq(Data)
      OBVIOUS
    <3> QED BY <1>1, <1>2, <3>1
  <2>3. Stands(<<>>)
    BY <1>3 DEF Stands
  <2> QED BY <1>3, <2>1, <2>2, <2>3 DEF Represents
<1>5. Contents(list) = <<>>
  BY <1>1, <1>2, ContentsAre
<1> QED BY <1>1, <1>3, <1>4, <1>5 DEF ListInv, Sequence!Init

(* The linked list is the sequence llist.h promises: whatever is added,    *)
(* removed, reversed, copied or iterated over, the links in both directions, *)
(* the ends and the size agree on one order, each operation changes it as its *)
(* name says, and an iterator gives it in order and removes what it has given. *)
THEOREM ListKeepsSequence == LibrarySpec => KeepsSequence
<1>1. ASSUME UNCHANGED listVars
      PROVE  /\ ListInv => ListInv'
             /\ UNCHANGED <<Contents(list), it.used,
                  IF it.used THEN EntriesBefore(list, it.entry) ELSE 0, given>>
  BY <1>1 DEF listVars, ListInv, Represents, Stands
<1>2. ListInv /\ [LibraryNext]_libraryVars =>
        /\ ListInv'
        /\ [Sequence!Next]_<<Contents(list), it.used,
             IF it.used THEN EntriesBefore(list, it.entry) ELSE 0, given>>
  <2>1. [LibraryNext]_libraryVars => [ListNext]_listVars
    BY DEF LibraryNext, libraryVars, listVars
  <2> QED BY <1>1, <2>1, ListStep
<1>3. LibraryInit => ListInit
  BY DEF LibraryInit
<1> QED BY <1>2, <1>3, ListInitInv, PTL DEF LibrarySpec, KeepsSequence, Sequence!Spec

-----------------------------------------------------------------------------
(* The parsers of integers give what is spelled, for types of every size.  *)

(* The ranges, and what the reading knows of itself.                       *)
ReadsExactly ==
  /\ greatest \in Nat
  /\ lowest \in {-greatest - 1, 0}
  /\ negative \in BOOLEAN
  /\ negative => signed
  /\ value \in Int /\ lowest <= value /\ value <= greatest
  /\ negative => value <= 0
  /\ ~negative => value >= 0
  /\ instr \in {"first", "sign", "digits", "accepted", "malformed", "overflow"}
  /\ instr = "first" => spelled = "nothing" /\ exact = 0 /\ value = 0 /\ ~negative
  /\ instr = "sign" => spelled = "sign" /\ exact = 0 /\ value = 0 /\ negative
  /\ instr = "digits" => spelled = "number" /\ exact = value

ParseInv == ReadsExactly /\ ParsesWhatFits

(* Nine is the last digit.                                                 *)
LEMMA DigitIsDigit ==
  ASSUME NEW ch \in Character
  PROVE  /\ IsDigit(ch) <=> ch \in Zero..(Zero + 9)
         /\ IsDigit(ch) => Digit(ch) = ch - Zero
<1> DEFINE u == (ch - Zero) % 256
<1>1. u = (IF ch >= Zero THEN ch - Zero ELSE ch - Zero + 256)
  BY DEF Character, Zero
<1>2. CASE ch >= Zero
  BY <1>1, <1>2 DEF Digit, IsDigit, Character, Zero
<1>3. CASE ch < Zero
  BY <1>1, <1>3 DEF Digit, IsDigit, Character, Zero
<1> QED BY <1>2, <1>3 DEF Character, Zero

(* A tenth and a unit make up the whole, the unit having its sign.         *)
LEMMA Tenths ==
  ASSUME NEW n \in Int
  PROVE  /\ Tenth(n) \in Int /\ Unit(n) \in Int
         /\ n = 10 * Tenth(n) + Unit(n)
         /\ n >= 0 => Tenth(n) >= 0 /\ Unit(n) \in 0..9
         /\ n <= 0 => Tenth(n) <= 0 /\ -Unit(n) \in 0..9
BY DEF Tenth, Unit

(* The comparison of the last digit decides whether the next value is in   *)
(* the range.                                                              *)
LEMMA OverflowsBeyond ==
  ASSUME ReadsExactly, NEW c \in 0..9
  PROVE  Overflows(c) <=>
           ~ LET v == value * 10 + (IF negative THEN -c ELSE c)
             IN  lowest <= v /\ v <= greatest
<1>1. greatest \in Int /\ lowest \in Int /\ lowest <= 0 /\ greatest >= 0
  BY DEF ReadsExactly
<1>2. value \in Int /\ negative \in BOOLEAN
  BY DEF ReadsExactly
<1>3. CASE negative
  <2>1. value <= 0
    BY <1>3 DEF ReadsExactly
  <2>2. /\ Tenth(lowest) \in Int /\ Unit(lowest) \in Int
        /\ lowest = 10 * Tenth(lowest) + Unit(lowest)
        /\ -Unit(lowest) \in 0..9
    BY <1>1, Tenths
  <2> QED BY <1>1, <1>2, <1>3, <2>1, <2>2 DEF Overflows
<1>4. CASE ~negative
  <2>1. value >= 0
    BY <1>4 DEF ReadsExactly
  <2>2. /\ Tenth(greatest) \in Int /\ Unit(greatest) \in Int
        /\ greatest = 10 * Tenth(greatest) + Unit(greatest)
        /\ Unit(greatest) \in 0..9
    BY <1>1, Tenths
  <2> QED BY <1>1, <1>2, <1>4, <2>1, <2>2 DEF Overflows
<1> QED BY <1>2, <1>3, <1>4

LEMMA ParseInitInv == ParseInit => ParseInv
<1> SUFFICES ASSUME ParseInit
             PROVE  ParseInv
  OBVIOUS
<1>1. greatest \in Nat /\ lowest \in {-greatest - 1, 0}
  BY GreatestAssumption DEF ParseInit
<1>2. value = 0 /\ lowest <= value /\ value <= greatest
  BY <1>1 DEF ParseInit
<1>3. ReadsExactly
  <2>1. /\ negative \in BOOLEAN /\ ~negative /\ exact = 0
        /\ instr = "first" /\ spelled = "nothing"
    BY DEF ParseInit
  <2> QED BY <1>1, <1>2, <2>1 DEF ReadsExactly
<1>4. value \in lowest..greatest
  BY <1>1, <1>2
<1>5. instr = "first"
  BY DEF ParseInit
<1>6. ParsesWhatFits
  BY <1>4, <1>5 DEF ParsesWhatFits
<1> QED BY <1>3, <1>6 DEF ParseInv

LEMMA ParseNextInv == ParseInv /\ [ParseNext]_parseVars => ParseInv'
<1> SUFFICES ASSUME ParseInv, [ParseNext]_parseVars
             PROVE  ParseInv'
  OBVIOUS
<1> USE DEF ParseInv
<1>1. ASSUME NEW ch \in Character \ {0}, ReadDigit(ch)
      PROVE  ParseInv'
  <2> DEFINE c == Digit(ch)
  <2>1. ch \in Zero..(Zero + 9) /\ c = ch - Zero /\ c \in 0..9
    BY <1>1, DigitIsDigit DEF ReadDigit, Zero
  <2>2. value = exact /\ spelled # "else"
    BY <1>1 DEF ReadDigit, Reading, ReadsExactly
  <2>3. spelled' = "number"
    BY <1>1, <2>1, <2>2 DEF ReadDigit, Spell, SpelledWith, Minus, Zero
  <2>4. value' = value * 10 + (IF negative THEN -c ELSE c)
    BY <1>1 DEF ReadDigit
  <2>5. exact' = value'
    BY <1>1, <2>1, <2>2, <2>3, <2>4 DEF ReadDigit, Spell, ReadsExactly, Zero
  <2>6. lowest <= value' /\ value' <= greatest
    BY <1>1, <2>1, <2>4, OverflowsBeyond DEF ReadDigit
  <2>7. value' \in Int /\ (negative => value' <= 0) /\ (~negative => value' >= 0)
    BY <2>1, <2>4 DEF ReadsExactly
  <2>8. UNCHANGED <<lowest, greatest, negative>> /\ instr' = "digits"
    BY <1>1 DEF ReadDigit
  <2>9. ReadsExactly'
    BY <2>3, <2>5, <2>6, <2>7, <2>8 DEF ReadsExactly, signed
  <2> QED BY <2>6, <2>7, <2>8, <2>9 DEF ParsesWhatFits, ReadsExactly
<1>2. ASSUME NEW ch \in Character \ {0}, RejectOverflow(ch)
      PROVE  ParseInv'
  <2> DEFINE c == Digit(ch)
             v == value * 10 + (IF negative THEN -c ELSE c)
  <2>1. ch \in Zero..(Zero + 9) /\ c = ch - Zero /\ c \in 0..9
    BY <1>2, DigitIsDigit DEF RejectOverflow, Zero
  <2>2. value = exact /\ spelled # "else"
    BY <1>2 DEF RejectOverflow, Reading, ReadsExactly
  <2>3. spelled' = "number"
    BY <1>2, <2>1, <2>2 DEF RejectOverflow, Spell, SpelledWith, Minus, Zero
  <2>4. exact' = v
    BY <1>2, <2>1, <2>2, <2>3 DEF RejectOverflow, Spell, ReadsExactly, Zero
  <2>5. ~(lowest <= v /\ v <= greatest)
    BY <1>2, <2>1, OverflowsBeyond DEF RejectOverflow
  <2>6. UNCHANGED <<lowest, greatest, negative, value>> /\ instr' = "overflow"
    BY <1>2 DEF RejectOverflow
  <2>7. ReadsExactly'
    BY <2>6 DEF ReadsExactly, signed
  <2> QED BY <2>4, <2>5, <2>6, <2>7 DEF ParsesWhatFits, ReadsExactly
<1>3. ASSUME NEW ch \in Character \ {0}, RejectCharacter(ch)
      PROVE  ParseInv'
  <2>1. ch \notin Zero..(Zero + 9)
    BY <1>3, DigitIsDigit DEF RejectCharacter
  <2>2. spelled' # "number"
    BY <1>3, <2>1 DEF RejectCharacter, Spell, SpelledWith
  <2>3. UNCHANGED <<lowest, greatest, negative, value>> /\ instr' = "malformed"
    BY <1>3 DEF RejectCharacter
  <2> QED BY <2>2, <2>3 DEF ParsesWhatFits, ReadsExactly, signed
<1>4. ASSUME ReadMinus
      PROVE  ParseInv'
  <2>1. spelled' = "sign" /\ exact' = exact
    BY <1>4 DEF ReadMinus, Spell, SpelledWith, ReadsExactly
  <2> QED BY <1>4, <2>1 DEF ReadMinus, ParsesWhatFits, ReadsExactly, signed
<1>5. ASSUME Accept
      PROVE  ParseInv'
  BY <1>5 DEF Accept, ParsesWhatFits, ReadsExactly, signed
<1>6. ASSUME RejectEmpty
      PROVE  ParseInv'
  BY <1>6 DEF RejectEmpty, ParsesWhatFits, ReadsExactly, signed
<1>7. ASSUME UNCHANGED parseVars
      PROVE  ParseInv'
  BY <1>7 DEF parseVars, ParsesWhatFits, ReadsExactly, signed
<1> QED BY <1>1, <1>2, <1>3, <1>4, <1>5, <1>6, <1>7 DEF ParseNext

(* parse_int8() to parse_uint64(), and those of any other size, accept the *)
(* numbers of their type and no other, and no value on the way overflows.  *)
THEOREM ParsesExactly == LibrarySpec => []ParsesWhatFits
<1>1. ParseInv => ParsesWhatFits
  BY DEF ParseInv
<1> QED BY ParseInitInv, ParseNextInv, PartsAlone, <1>1, PTL DEF ParseSpec
=============================================================================

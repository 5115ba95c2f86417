---------------------------- MODULE GroupIconProofs ----------------------------
(***************************************************************************)
(* Proofs about read_library(), for libraries of any number of sections of *)
(* any size, and about the extraction of resources from them, for groups   *)
(* of any number of images, whatever the sizes of these are, in the        *)
(* resources and in the group.                                             *)
(*                                                                         *)
(* extract_group_icon_cursor_resource() adds up one thing to know how much *)
(* memory it needs and another to know where in it an image goes.  The     *)
(* invariant has the sums of the first pass, image by image, beside the    *)
(* offset of the second: for each image that the second has gone over, the *)
(* offset may have come four bytes, the size of a hot spot, nearer to them.*)
(***************************************************************************)
EXTENDS GroupIcon, FiniteSetTheorems, WellFoundedInduction, TLAPS

(***************************************************************************)
(* read_library().                                                         *)
(***************************************************************************)
AsRead ==
  /\ memory = [p \in 0..(library.size - 1) |-> p]
  /\ total_size = library.size

(* The maximum is one, of the sections counted so far.                     *)
Measured == \A i \in 1..c : End(sections[i]) <= size

(* What is yet to be moved is still where the file has it.                 *)
Unmoved(s) ==
  \A p \in 0..(s.size_of_raw_data - 1) :
    s.pointer_to_raw_data + p < total_size =>
      memory[s.pointer_to_raw_data + p] = s.pointer_to_raw_data + p

Settled(s) ==
  InPlace(s) /\ s.virtual_address + s.size_of_raw_data <= total_size

Halfway ==
  InOrder => \A i \in WithData : IF i <= d THEN Unmoved(sections[i])
                                 ELSE Settled(sections[i])

Inv ==
  /\ TypeOK
  /\ Measured
  /\ pc = "read" => AsRead /\ c = 0
  /\ pc = "measure" => AsRead /\ library.headers = "PE"
  /\ pc = "relocate" =>
       /\ library.headers = "PE"
       /\ c = Len(sections) /\ total_size = VmaSize
       /\ Halfway
  /\ Relocated
  /\ WellFormedIsLoaded

-----------------------------------------------------------------------------
LEMMA SectionType ==
  ASSUME TypeOK, NEW i \in DOMAIN sections
  PROVE  /\ sections[i] \in Section
         /\ sections[i].virtual_address \in Nat
         /\ sections[i].virtual_size \in Nat
         /\ sections[i].pointer_to_raw_data \in Nat
         /\ sections[i].size_of_raw_data \in Nat
         /\ sections[i].virtual_address >= HeaderSize
         /\ sections[i].uninitialized \in BOOLEAN
<1>1. library \in Libraries /\ sections \in Seq(Section)
  BY LibrariesAssumption DEF TypeOK, Library, sections
<1>2. sections[i] \in Section
  BY <1>1
<1>3. sections[i].virtual_address >= HeaderSize
  BY <1>1, SectionsAssumption DEF sections
<1>. QED
  BY <1>2, <1>3 DEF Section

LEMMA LibraryType ==
  ASSUME TypeOK
  PROVE  /\ library \in Library
         /\ library.size \in Nat \ {0}
         /\ sections \in Seq(Section)
         /\ Len(sections) \in Nat
         /\ DOMAIN sections = 1..Len(sections)
         /\ HeaderSize \in Nat \ {0}
         /\ library.headers \in {"other", "stub", "cut", "NE", "PE"}
BY LibrariesAssumption, HeaderSizeAssumption DEF TypeOK, Library, sections

LEMMA EndType ==
  ASSUME TypeOK, NEW i \in DOMAIN sections
  PROVE  /\ End(sections[i]) \in Nat
         /\ sections[i].virtual_address + sections[i].size_of_raw_data
              <= End(sections[i])
         /\ sections[i].virtual_address + sections[i].virtual_size
              <= End(sections[i])
BY SectionType DEF End, Larger

(* The largest of the ends is no smaller than any.                         *)
LEMMA VmaSizeType ==
  ASSUME TypeOK, Measured, c = Len(sections)
  PROVE  /\ VmaSize \in Nat
         /\ \A i \in DOMAIN sections : End(sections[i]) <= VmaSize
<1>1. CASE sections = <<>>
  BY <1>1 DEF VmaSize, TypeOK
<1>2. CASE sections # <<>>
  BY <1>2, LibraryType DEF VmaSize, Measured, TypeOK
<1>. QED
  BY <1>1, <1>2

-----------------------------------------------------------------------------
LEMMA InitInv == Init => Inv
<1>. SUFFICES ASSUME Init PROVE Inv
  OBVIOUS
<1>1. library \in Library /\ library.size \in Nat \ {0}
      /\ Len(library.sections) \in Nat
  BY LibrariesAssumption DEF Init, Library
<1>2. TypeOK
  <2>1. memory \in [0..(total_size - 1) -> Nat \cup {Junk}]
    BY <1>1 DEF Init
  <2>. QED
    BY <1>1, <2>1 DEF Init, TypeOK, sections
<1>. QED
  BY <1>2 DEF Init, Inv, Measured, AsRead, Relocated, WellFormedIsLoaded

(* Where nothing but pc and the counters changes.                          *)
LEMMA SameFile ==
  ASSUME library' = library
  PROVE  /\ sections' = sections /\ WithData' = WithData
         /\ InOrder' = InOrder
BY DEF sections, WithData, InOrder

LEMMA IdentifyInv ==
  ASSUME Inv, RefuseHeaders \/ AcceptNE \/ AcceptPE
  PROVE  Inv'
<1>. USE DEF Inv
<1>1. /\ UNCHANGED <<library, memory, total_size, c, size, d>>
      /\ pc = "read"
  BY DEF RefuseHeaders, AcceptNE, AcceptPE
<1>2. TypeOK'
  BY <1>1 DEF RefuseHeaders, AcceptNE, AcceptPE, TypeOK, sections
<1>3. Measured'
  BY <1>1 DEF Measured, sections
<1>4. AsRead'
  BY <1>1 DEF AsRead
<1>5. CASE RefuseHeaders
  BY <1>1, <1>2, <1>3, <1>4, <1>5
     DEF RefuseHeaders, Relocated, WellFormedIsLoaded
<1>6. CASE AcceptNE
  BY <1>1, <1>2, <1>3, <1>4, <1>6
     DEF AcceptNE, Relocated, WellFormedIsLoaded
<1>7. CASE AcceptPE
  BY <1>1, <1>2, <1>3, <1>4, <1>7
     DEF AcceptPE, Relocated, WellFormedIsLoaded
<1>. QED
  BY <1>5, <1>6, <1>7

LEMMA MeasureInv ==
  ASSUME Inv, Measure
  PROVE  Inv'
<1>. USE DEF Inv
<1>1. /\ pc = "measure" /\ c < Len(sections) /\ c' = c + 1
      /\ size' = Larger(size, End(sections[c + 1]))
      /\ UNCHANGED <<library, memory, total_size, d, pc>>
  BY DEF Measure
<1>2. c \in Nat /\ c + 1 \in DOMAIN sections /\ size \in Nat
  BY <1>1, LibraryType DEF TypeOK
<1>3. End(sections[c + 1]) \in Nat
  BY <1>2, EndType
<1>4. size' \in Nat /\ size <= size' /\ End(sections[c + 1]) <= size'
  BY <1>1, <1>2, <1>3 DEF Larger
<1>5. sections' = sections
  BY <1>1 DEF sections
<1>6. TypeOK'
  BY <1>1, <1>2, <1>4, <1>5, LibraryType DEF TypeOK
<1>7. Measured'
  <2>. SUFFICES ASSUME NEW i \in 1..(c + 1)
                PROVE  End(sections[i]) <= size'
    BY <1>1, <1>5 DEF Measured, End, Larger
  <2>1. i \in DOMAIN sections /\ End(sections[i]) \in Nat
    BY <1>1, <1>2, LibraryType, EndType
  <2>2. CASE i \in 1..c
    BY <1>2, <1>4, <2>1, <2>2 DEF Measured
  <2>3. CASE i = c + 1
    BY <1>4, <2>3
  <2>. QED
    BY <1>2, <2>2, <2>3
<1>8. AsRead'
  BY <1>1 DEF AsRead
<1>. QED
  BY <1>1, <1>6, <1>7, <1>8 DEF Relocated, WellFormedIsLoaded

(* Of a library that a linker makes, the headers fit.                      *)
LEMMA ExtendInv ==
  ASSUME Inv, Extend
  PROVE  Inv'
<1>. USE DEF Inv
<1>1. /\ pc = "measure" /\ c = Len(sections)
      /\ total_size' = VmaSize
      /\ memory' = [p \in 0..(VmaSize - 1) |->
                      IF p < total_size THEN memory[p] ELSE Junk]
      /\ d' = Len(sections)
      /\ pc' = IF VmaSize < HeaderSize THEN "refused" ELSE "relocate"
      /\ UNCHANGED <<library, c, size>>
  BY DEF Extend
<1>2. AsRead /\ library.headers = "PE" /\ library.size \in Nat \ {0}
  BY <1>1, LibraryType
<1>3. VmaSize \in Nat /\ \A i \in DOMAIN sections : End(sections[i]) <= VmaSize
  BY <1>1, VmaSizeType
<1>4. sections' = sections /\ WithData' = WithData /\ InOrder' = InOrder
  BY <1>1, SameFile
<1>5. \A p \in 0..(VmaSize - 1) :
        memory'[p] = IF p < library.size THEN p ELSE Junk
  BY <1>1, <1>2, <1>3 DEF AsRead
<1>6. TypeOK'
  <2>1. memory' \in [0..(total_size' - 1) -> Nat \cup {Junk}]
    BY <1>1, <1>3, <1>5
  <2>. QED
    BY <1>1, <1>3, <1>4, <2>1, LibraryType DEF TypeOK
<1>7. Measured'
  BY <1>1, <1>4 DEF Measured, End, Larger
<1>8. VmaSize' = VmaSize
  <2>1. CASE sections = <<>>
    BY <1>1, <1>4, <2>1 DEF VmaSize
  <2>2. CASE sections # <<>>
    BY <1>1, <1>4, <2>2 DEF VmaSize
  <2>. QED
    BY <2>1, <2>2
<1>9. Halfway'
  <2>. SUFFICES ASSUME InOrder, NEW i \in WithData
                PROVE  i <= d' /\ Unmoved(sections[i])'
    BY <1>4 DEF Halfway
  <2>1. i \in DOMAIN sections /\ i <= d'
    BY <1>1, LibraryType DEF WithData
  <2>2. /\ sections[i].pointer_to_raw_data \in Nat
        /\ sections[i].size_of_raw_data \in Nat
        /\ sections[i].pointer_to_raw_data + sections[i].size_of_raw_data
             <= library.size
    BY <2>1, SectionType DEF InOrder
  <2>. QED
    BY <1>1, <1>2, <1>3, <1>4, <1>5, <2>1, <2>2 DEF Unmoved
<1>10. WellFormedIsLoaded'
  <2>1. CASE sections = <<>>
    BY <1>1, <1>2, <2>1, LibraryType
       DEF WellFormedIsLoaded, VmaSize, AsRead
  <2>2. CASE sections # <<>>
    <3>1. 1 \in DOMAIN sections
      BY <2>2, LibraryType
    <3>2. VmaSize >= HeaderSize
      <4>1. sections[1].virtual_address >= HeaderSize
        BY <3>1, SectionType
      <4>2. /\ sections[1].virtual_address \in Nat
            /\ sections[1].size_of_raw_data \in Nat
            /\ End(sections[1]) \in Nat
            /\ sections[1].virtual_address + sections[1].size_of_raw_data
                 <= End(sections[1])
        BY <3>1, SectionType, EndType
      <4>. QED
        BY <1>3, <3>1, <4>1, <4>2, LibraryType
    <3>. QED
      BY <1>1, <1>3, <3>2, LibraryType DEF WellFormedIsLoaded
  <2>. QED
    BY <2>1, <2>2
<1>11. Relocated'
  BY <1>1 DEF Relocated
<1>. QED
  BY <1>1, <1>2, <1>4, <1>6, <1>7, <1>8, <1>9, <1>10, <1>11

-----------------------------------------------------------------------------
LEMMA SkipInv ==
  ASSUME Inv, SkipUninitialized
  PROVE  Inv'
<1>. USE DEF Inv
<1>1. /\ pc = "relocate" /\ d > 0 /\ sections[d].uninitialized
      /\ d' = d - 1
      /\ UNCHANGED <<library, memory, total_size, c, size, pc>>
  BY DEF SkipUninitialized, Current
<1>2. sections' = sections /\ WithData' = WithData /\ InOrder' = InOrder
  BY <1>1, SameFile
<1>3. TypeOK'
  BY <1>1, <1>2, LibraryType DEF TypeOK
<1>4. Measured' /\ VmaSize' = VmaSize
  BY <1>1, <1>2 DEF Measured, End, Larger, VmaSize
<1>5. Halfway'
  <2>. SUFFICES ASSUME InOrder, NEW i \in WithData
                PROVE  IF i <= d' THEN Unmoved(sections[i])'
                       ELSE Settled(sections[i])'
    BY <1>2 DEF Halfway
  <2>1. i \in DOMAIN sections /\ i # d
    BY <1>1 DEF WithData
  <2>2. IF i <= d THEN Unmoved(sections[i]) ELSE Settled(sections[i])
    BY <1>1 DEF Halfway
  <2>3. (i <= d') <=> (i <= d)
    BY <1>1, <2>1, LibraryType DEF TypeOK
  <2>4. /\ Unmoved(sections[i])' <=> Unmoved(sections[i])
        /\ Settled(sections[i])' <=> Settled(sections[i])
    BY <1>1, <1>2 DEF Unmoved, Settled, InPlace
  <2>. QED
    BY <2>2, <2>3, <2>4
<1>. QED
  BY <1>1, <1>2, <1>3, <1>4, <1>5 DEF Relocated, WellFormedIsLoaded

(* The heart of it: a section that moves up in memory reaches neither the  *)
(* data of those before it, nor the place of those behind it.              *)
LEMMA MoveInv ==
  ASSUME Inv, MoveSection
  PROVE  Inv'
<1>. USE DEF Inv
<1>. DEFINE s == sections[d]
            va == s.virtual_address
            raw == s.pointer_to_raw_data
            n == s.size_of_raw_data
<1>1. /\ pc = "relocate" /\ d > 0 /\ ~s.uninitialized
      /\ Fits(s)
      /\ memory' = Moved(s)
      /\ d' = d - 1
      /\ UNCHANGED <<library, total_size, c, size, pc>>
  BY DEF MoveSection, Current
<1>2. sections' = sections /\ WithData' = WithData /\ InOrder' = InOrder
  BY <1>1, SameFile
<1>3. d \in DOMAIN sections /\ d \in Nat \ {0} /\ total_size \in Nat
  BY <1>1, LibraryType DEF TypeOK
<1>4. va \in Nat /\ raw \in Nat /\ n \in Nat
  BY <1>3, SectionType
<1>5. va + n <= total_size /\ raw + n <= total_size
  BY <1>1 DEF Fits, check_offset
<1>6. DOMAIN memory = 0..(total_size - 1)
  BY DEF TypeOK
<1>7. \A p \in 0..(total_size - 1) :
        memory'[p] = IF p \in va..(va + n - 1) THEN memory[p - va + raw]
                     ELSE memory[p]
  BY <1>1, <1>6 DEF Moved
<1>. HIDE DEF va, raw, n
<1>8. TypeOK'
  <2>1. \A p \in 0..(total_size - 1) : memory'[p] \in Nat \cup {Junk}
    <3>. SUFFICES ASSUME NEW p \in 0..(total_size - 1)
                  PROVE  memory'[p] \in Nat \cup {Junk}
      OBVIOUS
    <3>1. CASE p \in va..(va + n - 1)
      <4>1. p - va + raw \in 0..(total_size - 1)
        BY <1>3, <1>4, <1>5, <3>1
      <4>2. memory[p - va + raw] \in Nat \cup {Junk}
        BY <4>1 DEF TypeOK
      <4>. QED
        BY <1>7, <3>1, <4>2
    <3>2. CASE p \notin va..(va + n - 1)
      BY <1>7, <3>2 DEF TypeOK
    <3>. QED
      BY <3>1, <3>2
  <2>2. memory' \in [0..(total_size - 1) -> Nat \cup {Junk}]
    BY <1>1, <1>6, <2>1 DEF Moved
  <2>. QED
    BY <1>1, <1>2, <1>3, <2>2, LibraryType DEF TypeOK
<1>9. Measured' /\ VmaSize' = VmaSize
  BY <1>1, <1>2 DEF Measured, End, Larger, VmaSize
<1>10. Halfway'
  <2>. SUFFICES ASSUME InOrder, NEW i \in WithData
                PROVE  IF i <= d' THEN Unmoved(sections[i])'
                       ELSE Settled(sections[i])'
    BY <1>2 DEF Halfway
  <2>. DEFINE t == sections[i]
  <2>1. i \in DOMAIN sections /\ i \in Nat
    BY LibraryType DEF WithData
  <2>2. /\ t.virtual_address \in Nat /\ t.pointer_to_raw_data \in Nat
        /\ t.size_of_raw_data \in Nat
    BY <2>1, SectionType
  <2>3. IF i <= d THEN Unmoved(t) ELSE Settled(t)
    BY <1>1 DEF Halfway
  <2>4. /\ Unmoved(t)' <=> \A p \in 0..(t.size_of_raw_data - 1) :
             t.pointer_to_raw_data + p < total_size =>
               memory'[t.pointer_to_raw_data + p] = t.pointer_to_raw_data + p
        /\ Settled(t)' <=>
             /\ \A p \in 0..(t.size_of_raw_data - 1) :
                  memory'[t.virtual_address + p] = t.pointer_to_raw_data + p
             /\ t.virtual_address + t.size_of_raw_data <= total_size
    BY <1>1, <1>2 DEF Unmoved, Settled, InPlace
  <2>5. CASE n = 0
    <3>1. i # d
      BY <2>5 DEF WithData, n
    <3>2. \A p \in 0..(total_size - 1) : memory'[p] = memory[p]
      BY <1>4, <1>7, <2>5
    <3>3. (i <= d') <=> (i <= d)
      BY <1>1, <1>3, <2>1, <3>1
    <3>4. ASSUME Unmoved(t) PROVE Unmoved(t)'
      <4>. HIDE DEF t
      <4>. QED
        BY <1>3, <2>2, <2>4, <3>2, <3>4 DEF Unmoved
    <3>5. ASSUME Settled(t) PROVE Settled(t)'
      <4>. HIDE DEF t
      <4>. QED
        BY <1>3, <2>2, <2>4, <3>2, <3>5 DEF Settled, InPlace
    <3>. QED
      BY <2>3, <3>3, <3>4, <3>5
  <2>6. CASE n # 0
    <3>1. d \in WithData
      BY <1>1, <1>3, <1>4, <2>6 DEF WithData, n
    <3>2. raw <= va
      BY <3>1 DEF InOrder, raw, va
    <3>3. CASE i < d
      <4>1. t.pointer_to_raw_data + t.size_of_raw_data <= raw
        BY <3>1, <3>3 DEF InOrder, raw
      <4>2. Unmoved(t)
        BY <1>3, <2>1, <2>3, <3>3
      <4>3. Unmoved(t)'
        <5>. HIDE DEF t
        <5>. SUFFICES ASSUME NEW p \in 0..(t.size_of_raw_data - 1),
                             t.pointer_to_raw_data + p < total_size
                      PROVE  memory'[t.pointer_to_raw_data + p]
                               = t.pointer_to_raw_data + p
          BY <2>4
        <5>1. /\ t.pointer_to_raw_data + p \in 0..(total_size - 1)
              /\ t.pointer_to_raw_data + p \notin va..(va + n - 1)
          BY <1>3, <1>4, <2>2, <3>2, <4>1
        <5>2. memory[t.pointer_to_raw_data + p] = t.pointer_to_raw_data + p
          BY <4>2 DEF Unmoved
        <5>. QED
          BY <1>7, <5>1, <5>2
      <4>. QED
        BY <1>1, <1>3, <2>1, <3>3, <4>3
    <3>4. CASE i = d
      <4>1. /\ t.virtual_address = va /\ t.pointer_to_raw_data = raw
            /\ t.size_of_raw_data = n
        BY <3>4 DEF va, raw, n
      <4>2. Unmoved(t)
        BY <1>3, <2>3, <3>4
      <4>3. Settled(t)'
        <5>. HIDE DEF t
        <5>. SUFFICES ASSUME NEW p \in 0..(n - 1)
                      PROVE  memory'[va + p] = raw + p
          BY <1>5, <2>4, <4>1
        <5>1. PICK q \in 0..(total_size - 1) : q = va + p
          BY <1>3, <1>4, <1>5
        <5>2. q \in va..(va + n - 1) /\ q - va + raw = raw + p
          BY <1>4, <5>1
        <5>3. raw + p < total_size /\ memory[raw + p] = raw + p
          BY <1>3, <1>4, <1>5, <4>1, <4>2 DEF Unmoved
        <5>4. memory'[q] = memory[q - va + raw]
          BY <1>7, <5>2
        <5>. QED
          BY <5>1, <5>2, <5>3, <5>4
      <4>. QED
        BY <1>1, <1>3, <3>4, <4>3
    <3>5. CASE i > d
      <4>1. va + n <= t.virtual_address
        BY <3>1, <3>5 DEF InOrder, va, n
      <4>2. Settled(t)
        BY <1>3, <2>1, <2>3, <3>5
      <4>3. Settled(t)'
        <5>. HIDE DEF t
        <5>. SUFFICES ASSUME NEW p \in 0..(t.size_of_raw_data - 1)
                      PROVE  memory'[t.virtual_address + p]
                               = t.pointer_to_raw_data + p
          BY <2>4, <4>2 DEF Settled
        <5>1. /\ t.virtual_address + p \in 0..(total_size - 1)
              /\ t.virtual_address + p \notin va..(va + n - 1)
          BY <1>3, <1>4, <2>2, <4>1, <4>2 DEF Settled
        <5>2. memory[t.virtual_address + p] = t.pointer_to_raw_data + p
          BY <4>2 DEF Settled, InPlace
        <5>3. memory'[t.virtual_address + p] = memory[t.virtual_address + p]
          BY <1>7, <5>1
        <5>. QED
          BY <5>2, <5>3
      <4>. QED
        BY <1>1, <1>3, <2>1, <3>5, <4>3
    <3>. QED
      BY <1>3, <2>1, <3>3, <3>4, <3>5
  <2>. QED
    BY <2>5, <2>6
<1>. QED
  BY <1>1, <1>2, <1>8, <1>9, <1>10 DEF Relocated, WellFormedIsLoaded

LEMMA RefuseSectionInv ==
  ASSUME Inv, RefuseSection
  PROVE  Inv'
<1>. USE DEF Inv
<1>. DEFINE s == sections[d]
<1>1. /\ pc = "relocate" /\ d > 0 /\ ~s.uninitialized /\ ~Fits(s)
      /\ pc' = "refused"
      /\ UNCHANGED <<library, memory, total_size, c, size, d>>
  BY DEF RefuseSection, Current
<1>2. sections' = sections /\ WithData' = WithData /\ InOrder' = InOrder
  BY <1>1, SameFile
<1>3. TypeOK'
  BY <1>1, <1>2 DEF TypeOK
<1>4. Measured'
  BY <1>1, <1>2 DEF Measured, End, Larger
<1>5. d \in DOMAIN sections /\ total_size \in Nat
  BY <1>1, LibraryType DEF TypeOK
<1>6. /\ s.virtual_address \in Nat /\ s.virtual_size \in Nat
      /\ s.pointer_to_raw_data \in Nat /\ s.size_of_raw_data \in Nat
      /\ End(s) \in Nat
      /\ s.virtual_address + s.size_of_raw_data <= End(s)
      /\ s.virtual_address + s.virtual_size <= End(s)
  BY <1>5, SectionType, EndType
<1>7. End(s) <= total_size
  BY <1>1, <1>5, VmaSizeType
<1>8. \/ s.pointer_to_raw_data > s.virtual_address
      \/ s.size_of_raw_data = 0 /\ s.virtual_size = 0
  BY <1>1, <1>5, <1>6, <1>7 DEF Fits, check_offset
<1>9. WellFormedIsLoaded'
  BY <1>1, <1>2, <1>5, <1>8 DEF WellFormedIsLoaded
<1>. QED
  BY <1>1, <1>3, <1>4, <1>9 DEF Relocated

LEMMA FindInv ==
  ASSUME Inv, FindResources
  PROVE  Inv'
<1>. USE DEF Inv
<1>1. /\ pc = "relocate" /\ d = 0
      /\ pc' = IF library.resources THEN "loaded" ELSE "refused"
      /\ UNCHANGED <<library, memory, total_size, c, size, d>>
  BY DEF FindResources
<1>2. sections' = sections /\ WithData' = WithData /\ InOrder' = InOrder
  BY <1>1, SameFile
<1>3. TypeOK'
  BY <1>1, <1>2 DEF TypeOK
<1>4. Measured'
  BY <1>1, <1>2 DEF Measured, End, Larger
<1>5. Relocated'
  <2>. SUFFICES ASSUME InOrder, NEW i \in WithData
                PROVE  InPlace(sections[i])'
    BY <1>2 DEF Relocated
  <2>1. i \in Nat \ {0}
    BY LibraryType DEF WithData
  <2>2. ~(i <= d)
    BY <1>1, <2>1
  <2>3. Settled(sections[i])
    BY <1>1, <2>2 DEF Halfway
  <2>. QED
    BY <1>1, <1>2, <2>3 DEF Settled, InPlace
<1>6. WellFormedIsLoaded'
  BY <1>1, <1>2 DEF WellFormedIsLoaded
<1>. QED
  BY <1>1, <1>3, <1>4, <1>5, <1>6

LEMMA NextInv == Inv /\ [Next]_vars => Inv'
<1>. SUFFICES ASSUME Inv, [Next]_vars PROVE Inv'
  OBVIOUS
<1>1. CASE RefuseHeaders \/ AcceptNE \/ AcceptPE
  BY <1>1, IdentifyInv
<1>2. CASE Measure
  BY <1>2, MeasureInv
<1>3. CASE Extend
  BY <1>3, ExtendInv
<1>4. CASE SkipUninitialized
  BY <1>4, SkipInv
<1>5. CASE MoveSection
  BY <1>5, MoveInv
<1>6. CASE RefuseSection
  BY <1>6, RefuseSectionInv
<1>7. CASE FindResources
  BY <1>7, FindInv
<1>8. CASE UNCHANGED vars
  BY <1>8 DEF vars, Inv, TypeOK, Measured, AsRead, VmaSize, Halfway, Unmoved,
              Settled, InPlace, Relocated, WellFormedIsLoaded, InOrder,
              WithData, sections, End, Larger
<1>. QED
  BY <1>1, <1>2, <1>3, <1>4, <1>5, <1>6, <1>7, <1>8 DEF Next

LEMMA InvHolds == Spec => []Inv
BY InitInv, NextInv, PTL DEF Spec

-----------------------------------------------------------------------------
(* read_library()'s variables keep their types, and the memory is as large *)
(* as the bounds checks take it to be, for any file.                       *)
THEOREM LibraryTypeCorrect == Spec => []TypeOK
<1>1. Inv => TypeOK
  BY DEF Inv
<1>. QED
  BY <1>1, InvHolds, PTL

(* Moving sections, from the last, within one memory keeps the data of all *)
(* of them, however many there are and however closely they follow.        *)
THEOREM SectionsRelocated == Spec => []Relocated
<1>1. Inv => Relocated
  BY DEF Inv
<1>. QED
  BY <1>1, InvHolds, PTL

(* A well laid out library with resources is never refused.                *)
THEOREM LinkedLibrariesLoad == Spec => []WellFormedIsLoaded
<1>1. Inv => WellFormedIsLoaded
  BY DEF Inv
<1>. QED
  BY <1>1, InvHolds, PTL

(***************************************************************************)
(* wrestool/extract.c.                                                     *)
(***************************************************************************)
Images == [k \in DOMAIN icondir |-> ImageOf(icondir[k])]

Empties == {k \in DOMAIN icondir : HasEntry(Images[k]) /\ Images[k].size = 0}

HotspotRoom == IF is_icon THEN 0 ELSE SizeofHotspot

Rooms ==
  [k \in DOMAIN icondir |->
     IF ~HasEntry(Images[k]) \/ Images[k].size = 0 THEN 0
     ELSE Larger(Images[k].size, icondir[k].bytes_in_res) - HotspotRoom]

(* How many of the first k images are in a set of them.                    *)
UpTo(S, k) == Cardinality({b \in 1..k : b \in S})

(* The sums, up to each of the first m images, of the room they take, of   *)
(* those that are empty, and of what the cursors without a hot spot may    *)
(* take of it besides.                                                     *)
Sums(r, e, s, m, rooms, empties, stunted) ==
  /\ r \in [0..m -> Int] /\ r[0] = 0
  /\ e \in [0..m -> Nat] /\ e[0] = 0
  /\ s \in [0..m -> Nat] /\ s[0] = 0
  /\ \A k \in 0..m : e[k] = UpTo(empties, k) /\ s[k] = SizeofHotspot * UpTo(stunted, k)
  /\ \A k \in 1..m : /\ r[k] = r[k - 1] + rooms[k]
                     /\ e[k] = e[k - 1] + (IF k \in empties THEN 1 ELSE 0)
                     /\ s[k] = s[k - 1] + (IF k \in stunted THEN SizeofHotspot ELSE 0)
  /\ \A j, k \in 0..m :
       j <= k => /\ r[j] + s[j] <= r[k] + s[k]
                 /\ j - e[j] <= k - e[k]

Measuring ==
  \E r, e, s : /\ Sums(r, e, s, image - 1, Rooms, Empties, Stunted)
               /\ outsize = wr.size + r[image - 1]
               /\ skipped = e[image - 1]

Base(empties) == SizeofIconDir + (count - empties) * SizeofFileDirEntry

Copying ==
  /\ offset \in Int /\ reach \in Int
  /\ \E r, e, s :
       /\ Sums(r, e, s, count, Rooms, Empties, Stunted)
       /\ skipped = e[image - 1]
       /\ DOMAIN fileicondir = 1..(count - e[count])
       /\ outsize = wr.size + r[count] + Base(e[count])
       /\ offset <= Base(e[count]) + r[image - 1] + s[image - 1]
       /\ reach <= Base(e[count]) + r[image - 1] + s[image - 1]

NonemptyTo(m) == \A k \in 1..m : Images[k].size > 0

(* The offset moves forward as long as no image is empty.                  *)
Forward ==
  /\ NonemptyTo(image - 1) => skipped = 0
  /\ is_icon \/ NonemptyTo(image - 1) => offset >= 0

(* An image that has been copied.                                          *)
Kept(k) ==
  LET from == fileicondir[k].dib_offset
      n == Images[k].size - HotspotRoom
  IN  /\ HasEntry(Images[k])
      /\ from \in Nat /\ from + n <= offset /\ (n > 0 => from + n <= reach)
      /\ \A p \in 0..(n - 1) : out[from + p] = memory[Images[k].at + HotspotRoom + p]
      /\ k + skipped < image

KeptWhole ==
  \A k \in 1..(image - 1) :
    /\ Images[k].size > 0 /\ Agrees(icondir[k], Images[k])
    /\ NonemptyTo(IF is_icon THEN k - 1 ELSE image - 1)
    => Kept(k)

AsTheFile == library.headers # "PE" => AsRead

Dirs == Seq([res_id : Nat, bytes_in_res : Nat])

ExtractTypeOK ==
  /\ job \in {"none", "raw", "bitmap", "group", "measure", "copy",
              "written", "failed", "killed"}
  /\ job # "none" => pc = "loaded" /\ wr \in Nodes(library.contents.table)
  /\ icondir \in Dirs
  /\ image \in 1..(count + 1)
  /\ skipped \in Nat

Stage ==
  /\ job \in {"none", "raw", "bitmap", "group"} => image = 1 /\ skipped = 0
  /\ job \in {"raw", "bitmap", "group"} => kind = job
  /\ job \in {"measure", "copy"} => kind = "group"
  /\ job = "written" => kind \in {"raw", "bitmap", "group"} /\ HasEntry(wr)
  /\ job \in {"measure", "copy"} => HasEntry(wr)

AlreadyCopied == job = "copy" \/ (job = "written" /\ kind = "group")

Headed(from, at, n) ==
  [p \in 0..(n - 1) |->
     IF p < SizeofBitmapFileHeader THEN Junk ELSE from[at + p - SizeofBitmapFileHeader]]

GroupInv ==
  /\ Inv /\ AsTheFile
  /\ ExtractTypeOK /\ Stage
  /\ job = "measure" => Measuring
  /\ AlreadyCopied =>
       /\ Copying
       /\ DOMAIN out = 0..(outsize - 1)
       /\ Forward
       /\ SpareSuffices => KeptWhole
  /\ job = "written" /\ kind = "group" => image = count + 1
  /\ job = "written" /\ kind = "raw" => out = Bytes(wr.at, wr.size)
  /\ job = "written" /\ kind = "bitmap" =>
       out = Headed(memory, wr.at, SizeofBitmapFileHeader + wr.size)

-----------------------------------------------------------------------------
(* Finding resources.                                                      *)

LEMMA LeastOf ==
  ASSUME NEW S \in SUBSET Nat, S # {}
  PROVE  \E m \in S : \A k \in S : m <= k
<1>1. IsWellFoundedOn(OpToRel(<, Nat), Nat)
  BY NatLessThanWellFounded
<1>2. \E m \in S : \A k \in S : ~(<<k, m>> \in OpToRel(<, Nat))
  BY <1>1, WFMin
<1>3. \A k, m \in Nat : k < m => <<k, m>> \in OpToRel(<, Nat)
  BY DEF OpToRel
<1>4. \E m \in S : \A k \in S : ~(k < m)
  BY <1>2, <1>3, Zenon
<1>. QED
  BY <1>4

LEMMA FoundIsOne ==
  ASSUME NEW s, s \in Seq(ToSet(s)), NEW id
  PROVE  find_with_resource_array(s, id) \in ToSet(s) \cup {NoNode}
<1>. DEFINE nodes == list_resources(s)
            found == {k \in DOMAIN nodes : nodes[k].id = id}
            m == CHOOSE k \in found : \A j \in found : k <= j
<1>1. ToSet(nodes) \subseteq ToSet(s) /\ DOMAIN nodes \subseteq Nat
  BY DEF list_resources, ToSet
<1>2. found # {} => nodes[m] \in ToSet(s)
  <2>. SUFFICES ASSUME found # {} PROVE nodes[m] \in ToSet(s)
    OBVIOUS
  <2>1. \E k \in found : \A j \in found : k <= j
    <3>1. found \in SUBSET Nat
      BY <1>1
    <3>. HIDE DEF found
    <3>. QED
      BY <3>1, LeastOf
  <2>2. m \in found
    <3>. HIDE DEF found
    <3>. QED
      BY <2>1
  <2>. HIDE DEF m, nodes
  <2>. QED
    BY <1>1, <2>2 DEF ToSet
<1>. QED
  BY <1>2 DEF find_with_resource_array

LEMMA NodesBelow ==
  ASSUME NEW table, NEW n \in ToSet(table)
  PROVE  /\ n \in Nodes(table)
         /\ \A m \in ToSet(n.children) :
              m \in Nodes(table) /\ ToSet(m.children) \subseteq Nodes(table)
BY DEF Nodes

LEMMA ResourceIsNode ==
  ASSUME TypeOK, NEW t, NEW n, NEW l
  PROVE  find_resource(t, n, l) \in Nodes(library.contents.table) \cup {NoNode}
<1>. DEFINE table == library.contents.table
            deeper(node, id) ==
              IF node.directory THEN find_with_resource_array(node.children, id)
              ELSE node
<1>1. /\ table \in Seq(ToSet(table))
      /\ \A x \in Nodes(table) : x.children \in Seq(ToSet(x.children))
  BY NodesAssumption, LibrariesAssumption DEF TypeOK, Library
<1>2. NoNode.directory = FALSE
  BY DEF NoNode
<1>3. PICK x : x = find_with_resource_array(table, t)
  OBVIOUS
<1>4. x \in ToSet(table) \cup {NoNode}
  BY <1>1, <1>3, FoundIsOne
<1>5. PICK y : y = deeper(x, n)
  OBVIOUS
<1>6. y \in ToSet(table) \cup {NoNode} \cup ToSet(x.children)
  <2>1. x \in ToSet(table) => find_with_resource_array(x.children, n) \in ToSet(x.children) \cup {NoNode}
    BY <1>1, NodesBelow, FoundIsOne
  <2>. QED
    BY <1>2, <1>4, <1>5, <2>1
<1>7. find_resource(t, n, l) = deeper(y, l)
  BY <1>3, <1>5 DEF find_resource
<1>8. CASE x = NoNode
  <2>1. y = NoNode
    BY <1>2, <1>5, <1>8
  <2>. QED
    BY <1>2, <1>7, <2>1
<1>9. CASE x \in ToSet(table)
  <2>1. y = NoNode => deeper(y, l) = NoNode
    BY <1>2
  <2>2. y \in ToSet(table) \cup ToSet(x.children) =>
          /\ y \in Nodes(table)
          /\ find_with_resource_array(y.children, l) \in ToSet(y.children) \cup {NoNode}
          /\ ToSet(y.children) \subseteq Nodes(table)
    <3>1. y \in ToSet(table) \cup ToSet(x.children) =>
            y \in Nodes(table) /\ ToSet(y.children) \subseteq Nodes(table)
      BY <1>9, NodesBelow
    <3>. QED
      BY <1>1, <3>1, FoundIsOne
  <2>. QED
    BY <1>6, <1>7, <2>1, <2>2
<1>. QED
  BY <1>4, <1>8, <1>9

LEMMA NodeType ==
  ASSUME TypeOK, NEW n \in Nodes(library.contents.table) \cup {NoNode}
  PROVE  n.size \in Nat /\ n.at \in Nat \cup {NoEntry}
<1>1. CASE n = NoNode
  BY <1>1 DEF NoNode, NoEntry
<1>2. CASE n \in Nodes(library.contents.table)
  BY <1>2, NodesAssumption, LibrariesAssumption DEF TypeOK, Library
<1>. QED
  BY <1>1, <1>2

LEMMA CalledForNodes ==
  ASSUME NEW r \in Callbacks
  PROVE  r[3] \in Nodes(library.contents.table)
<1>. DEFINE table == library.contents.table
<1>1. \A s : ToSet(list_resources(s)) \subseteq ToSet(s)
  BY DEF list_resources, ToSet
<1>2. \A node : ToSet(Below(node)) \subseteq ToSet(node.children) \cup {node}
  BY <1>1 DEF Below, ToSet
<1>3. PICK t \in ToSet(list_resources(table)) :
        \E n \in ToSet(Below(t)) : \E l \in ToSet(Below(n)) :
          r = <<t.id, IF n.directory THEN l.id ELSE NoLanguage, l>>
  BY DEF Callbacks
<1>4. PICK n \in ToSet(Below(t)) : \E l \in ToSet(Below(n)) :
          r = <<t.id, IF n.directory THEN l.id ELSE NoLanguage, l>>
  BY <1>3
<1>5. PICK l \in ToSet(Below(n)) :
          r = <<t.id, IF n.directory THEN l.id ELSE NoLanguage, l>>
  BY <1>4
<1>6. r[3] = l
  BY <1>5
<1>7. t \in ToSet(table)
  BY <1>1
<1>8. /\ n \in ToSet(t.children) \cup {t}
      /\ l \in ToSet(n.children) \cup {n}
  BY <1>2
<1>. QED
  BY <1>6, <1>7, <1>8, NodesBelow

LEMMA ImagesType ==
  ASSUME TypeOK, ExtractTypeOK
  PROVE  /\ DOMAIN icondir = 1..count /\ count \in Nat
         /\ DOMAIN Images = DOMAIN icondir /\ DOMAIN Rooms = DOMAIN icondir
         /\ Empties \subseteq DOMAIN icondir
         /\ \A k \in DOMAIN icondir :
              /\ Images[k].size \in Nat /\ Images[k].at \in Nat \cup {NoEntry}
              /\ Images[k] \in Nodes(library.contents.table) \cup {NoNode}
              /\ icondir[k].bytes_in_res \in Nat
              /\ Rooms[k] \in Int
              /\ Rooms[k] + (IF k \in Stunted THEN SizeofHotspot ELSE 0) >= 0
         /\ Stunted \subseteq DOMAIN icondir
         /\ HotspotRoom \in {0, 4}
<1>1. DOMAIN icondir = 1..count /\ count \in Nat
  BY DEF ExtractTypeOK, Dirs, count
<1>2. ASSUME NEW k \in DOMAIN icondir PROVE icondir[k].bytes_in_res \in Nat
  <2>1. icondir[k] \in [res_id : Nat, bytes_in_res : Nat]
    <3>1. icondir \in Seq([res_id : Nat, bytes_in_res : Nat]) /\ k \in 1..Len(icondir)
      BY <1>1, <1>2 DEF ExtractTypeOK, Dirs, count
    <3>2. \A R, s : s \in Seq(R) /\ k \in 1..Len(s) => s[k] \in R
      OBVIOUS
    <3>. QED
      BY <3>1, <3>2
  <2>. QED
    BY <2>1
<1>3. HotspotRoom \in {0, 4}
  BY DEF HotspotRoom, SizeofHotspot
<1>4. ASSUME NEW k \in DOMAIN icondir
      PROVE  /\ Images[k].size \in Nat /\ Images[k].at \in Nat \cup {NoEntry}
             /\ Images[k] \in Nodes(library.contents.table) \cup {NoNode}
  <2>1. Images[k] \in Nodes(library.contents.table) \cup {NoNode}
    BY ResourceIsNode DEF Images, ImageOf
  <2>. QED
    BY <2>1, NodeType
<1>5. ASSUME NEW k \in DOMAIN icondir
      PROVE  /\ Rooms[k] \in Int
             /\ Rooms[k] + (IF k \in Stunted THEN SizeofHotspot ELSE 0) >= 0
  <2>1. /\ Images[k] = ImageOf(icondir[k])
        /\ icondir[k].bytes_in_res \in Nat /\ Images[k].size \in Nat
    BY <1>2, <1>4 DEF Images
  <2>2. CASE ~HasEntry(Images[k]) \/ Images[k].size = 0
    BY <2>2 DEF Rooms, SizeofHotspot
  <2>3. CASE HasEntry(Images[k]) /\ Images[k].size > 0
    <3>1. Rooms[k] = Larger(Images[k].size, icondir[k].bytes_in_res) - HotspotRoom
      BY <2>3 DEF Rooms
    <3>2. ~is_icon /\ Images[k].size < 4 => k \in Stunted
      BY <2>1, <2>3 DEF Stunted, SizeofHotspot
    <3>3. is_icon => HotspotRoom = 0
      BY DEF HotspotRoom
    <3>. QED
      BY <1>3, <2>1, <3>1, <3>2, <3>3 DEF Larger, SizeofHotspot
  <2>. QED
    BY <2>1, <2>2, <2>3
<1>. QED
  BY <1>1, <1>2, <1>3, <1>4, <1>5 DEF Images, Rooms, Empties, Stunted

-----------------------------------------------------------------------------
(* Sums.                                                                   *)

LEMMA NoneUpTo == ASSUME NEW S PROVE UpTo(S, 0) = 0
<1>1. {b \in 1..0 : b \in S} = {}
  OBVIOUS
<1>. QED
  BY <1>1, FS_EmptySet DEF UpTo

LEMMA OneMoreUpTo ==
  ASSUME NEW S, NEW k \in Nat
  PROVE  /\ UpTo(S, k) \in Nat
         /\ UpTo(S, k + 1) = UpTo(S, k) + (IF k + 1 \in S THEN 1 ELSE 0)
<1>. DEFINE T == {b \in 1..k : b \in S}
            U == {b \in 1..(k + 1) : b \in S}
<1>1. IsFiniteSet(T)
  <2>1. IsFiniteSet(1..k) /\ T \subseteq 1..k
    BY FS_Interval
  <2>. QED
    BY <2>1, FS_Subset
<1>2. k + 1 \notin T /\ U = IF k + 1 \in S THEN T \cup {k + 1} ELSE T
  OBVIOUS
<1>. HIDE DEF T, U
<1>3. Cardinality(T) \in Nat
  BY <1>1, FS_CardinalityType
<1>4. Cardinality(T \cup {k + 1}) = Cardinality(T) + 1
  BY <1>1, <1>2, FS_AddElement
<1>5. Cardinality(U) = Cardinality(T) + (IF k + 1 \in S THEN 1 ELSE 0)
  BY <1>2, <1>3, <1>4
<1>. QED
  BY <1>3, <1>5 DEF T, U, UpTo

LEMMA NoSums ==
  ASSUME NEW rooms, NEW empties, NEW stunted
  PROVE  Sums([k \in 0..0 |-> 0], [k \in 0..0 |-> 0], [k \in 0..0 |-> 0], 0,
              rooms, empties, stunted)
<1>1. UpTo(empties, 0) = 0 /\ UpTo(stunted, 0) = 0
  BY NoneUpTo
<1>2. \A k \in 0..0 : k = 0
  OBVIOUS
<1>. QED
  BY <1>1, <1>2 DEF Sums, SizeofHotspot

(* The sums with one more.                                                 *)
Longer(r, m, x) == [k \in 0..(m + 1) |-> IF k = m + 1 THEN r[m] + x ELSE r[k]]

LEMMA LongerIs ==
  ASSUME NEW r, NEW m \in Nat, NEW x
  PROVE  /\ DOMAIN Longer(r, m, x) = 0..(m + 1)
         /\ \A k \in 0..m : Longer(r, m, x)[k] = r[k]
         /\ Longer(r, m, x)[m + 1] = r[m] + x
<1>1. /\ \A k \in 0..m : k \in 0..(m + 1) /\ k # m + 1
      /\ m + 1 \in 0..(m + 1)
  OBVIOUS
<1>. QED
  BY <1>1 DEF Longer

LEMMA SumsMore ==
  ASSUME NEW r, NEW e, NEW s, NEW m \in Nat, NEW rooms, NEW empties, NEW stunted,
         Sums(r, e, s, m, rooms, empties, stunted),
         rooms[m + 1] \in Int,
         rooms[m + 1] + (IF m + 1 \in stunted THEN SizeofHotspot ELSE 0) >= 0
  PROVE  \E r1, e1, s1 :
           /\ Sums(r1, e1, s1, m + 1, rooms, empties, stunted)
           /\ r1[m + 1] = r[m] + rooms[m + 1]
           /\ e1[m + 1] = e[m] + (IF m + 1 \in empties THEN 1 ELSE 0)
<1>. DEFINE one == IF m + 1 \in empties THEN 1 ELSE 0
            four == IF m + 1 \in stunted THEN SizeofHotspot ELSE 0
            r1 == Longer(r, m, rooms[m + 1])
            e1 == Longer(e, m, one)
            s1 == Longer(s, m, four)
<1>1. one \in {0, 1} /\ four \in {0, 4} /\ rooms[m + 1] + four >= 0
  BY DEF SizeofHotspot
<1>2. /\ DOMAIN r1 = 0..(m + 1) /\ DOMAIN e1 = 0..(m + 1) /\ DOMAIN s1 = 0..(m + 1)
      /\ \A k \in 0..m : r1[k] = r[k] /\ e1[k] = e[k] /\ s1[k] = s[k]
      /\ r1[m + 1] = r[m] + rooms[m + 1]
      /\ e1[m + 1] = e[m] + one
      /\ s1[m + 1] = s[m] + four
  <2>. HIDE DEF one, four
  <2>1. /\ DOMAIN r1 = 0..(m + 1) /\ (\A k \in 0..m : r1[k] = r[k])
        /\ r1[m + 1] = r[m] + rooms[m + 1]
    BY LongerIs DEF Longer
  <2>2. /\ DOMAIN e1 = 0..(m + 1) /\ (\A k \in 0..m : e1[k] = e[k])
        /\ e1[m + 1] = e[m] + one
    BY LongerIs DEF Longer
  <2>3. /\ DOMAIN s1 = 0..(m + 1) /\ (\A k \in 0..m : s1[k] = s[k])
        /\ s1[m + 1] = s[m] + four
    BY LongerIs DEF Longer
  <2>. HIDE DEF r1, e1, s1
  <2>. QED
    BY <2>1, <2>2, <2>3
<1>3. /\ \A k \in 0..m : r[k] \in Int /\ e[k] \in Nat /\ s[k] \in Nat
      /\ \A k \in 0..m : e[k] = UpTo(empties, k) /\ s[k] = SizeofHotspot * UpTo(stunted, k)
      /\ \A j, k \in 0..m :
           j <= k => r[j] + s[j] <= r[k] + s[k] /\ j - e[j] <= k - e[k]
      /\ r[0] = 0 /\ e[0] = 0 /\ s[0] = 0
      /\ m \in 0..m
  <2>1. m \in 0..m
    OBVIOUS
  <2>2. r \in [0..m -> Int] /\ e \in [0..m -> Nat] /\ s \in [0..m -> Nat]
    BY DEF Sums
  <2>3. \A k \in 0..m : r[k] \in Int /\ e[k] \in Nat /\ s[k] \in Nat
    BY <2>2
  <2>4. /\ \A k \in 0..m : e[k] = UpTo(empties, k) /\ s[k] = SizeofHotspot * UpTo(stunted, k)
        /\ \A j, k \in 0..m :
             j <= k => r[j] + s[j] <= r[k] + s[k] /\ j - e[j] <= k - e[k]
        /\ r[0] = 0 /\ e[0] = 0 /\ s[0] = 0
    BY Zenon DEF Sums
  <2>. QED
    BY <2>1, <2>3, <2>4
<1>4. UpTo(empties, m + 1) = UpTo(empties, m) + one
      /\ SizeofHotspot * UpTo(stunted, m + 1) = SizeofHotspot * UpTo(stunted, m) + four
  <2>1. UpTo(empties, m + 1) = UpTo(empties, m) + one
    BY OneMoreUpTo
  <2>2. /\ UpTo(stunted, m) \in Nat
        /\ UpTo(stunted, m + 1) = UpTo(stunted, m) + (IF m + 1 \in stunted THEN 1 ELSE 0)
    BY OneMoreUpTo
  <2>. QED
    BY <2>1, <2>2 DEF SizeofHotspot
<1>. HIDE DEF r1, e1, s1
<1>5. r1 \in [0..(m + 1) -> Int] /\ e1 \in [0..(m + 1) -> Nat] /\ s1 \in [0..(m + 1) -> Nat]
  <2>1. r1[m + 1] \in Int /\ e1[m + 1] \in Nat /\ s1[m + 1] \in Nat
    <3>. HIDE DEF one, four
    <3>. QED
      BY <1>1, <1>2, <1>3
  <2>2. \A k \in 0..(m + 1) : k = m + 1 \/ k \in 0..m
    OBVIOUS
  <2>3. \A k \in 0..(m + 1) : r1[k] \in Int /\ e1[k] \in Nat /\ s1[k] \in Nat
    BY <1>2, <1>3, <2>1, <2>2
  <2>4. /\ r1 = [k \in 0..(m + 1) |-> r1[k]] /\ e1 = [k \in 0..(m + 1) |-> e1[k]]
        /\ s1 = [k \in 0..(m + 1) |-> s1[k]]
    BY LongerIs DEF r1, e1, s1, Longer
  <2>. QED
    BY <2>3, <2>4
<1>6. \A k \in 0..(m + 1) :
        e1[k] = UpTo(empties, k) /\ s1[k] = SizeofHotspot * UpTo(stunted, k)
  <2>1. \A k \in 0..(m + 1) : k = m + 1 \/ k \in 0..m
    OBVIOUS
  <2>2. /\ e1[m + 1] = UpTo(empties, m + 1)
        /\ s1[m + 1] = SizeofHotspot * UpTo(stunted, m + 1)
    BY <1>2, <1>3, <1>4
  <2>. QED
    BY <1>2, <1>3, <2>1, <2>2
<1>7. ASSUME NEW k \in 1..(m + 1)
      PROVE  /\ r1[k] = r1[k - 1] + rooms[k]
             /\ e1[k] = e1[k - 1] + (IF k \in empties THEN 1 ELSE 0)
             /\ s1[k] = s1[k - 1] + (IF k \in stunted THEN SizeofHotspot ELSE 0)
  <2>1. CASE k = m + 1
    <3>1. k - 1 = m /\ m \in 0..m
      BY <2>1
    <3>. QED
      BY <1>2, <2>1, <3>1
  <2>2. CASE k # m + 1
    <3>1. k \in 1..m /\ k - 1 \in 0..m /\ k \in 0..m
      BY <1>7, <2>2
    <3>. QED
      BY <1>2, <3>1 DEF Sums
  <2>. QED
    BY <2>1, <2>2
<1>8. ASSUME NEW j \in 0..(m + 1), NEW k \in 0..(m + 1), j <= k
      PROVE  r1[j] + s1[j] <= r1[k] + s1[k] /\ j - e1[j] <= k - e1[k]
  <2>. HIDE DEF one, four
  <2>1. CASE k \in 0..m
    <3>1. j \in 0..m
      BY <1>8, <2>1
    <3>. QED
      BY <1>2, <1>3, <1>8, <2>1, <3>1
  <2>2. CASE k = m + 1 /\ j = m + 1
    <3>1. r1[m + 1] \in Int /\ e1[m + 1] \in Nat /\ s1[m + 1] \in Nat
      BY <1>5
    <3>. QED
      BY <2>2, <3>1
  <2>3. CASE k = m + 1 /\ j \in 0..m
    <3>1. r[j] + s[j] <= r[m] + s[m] /\ j - e[j] <= m - e[m]
      <4>1. m \in 0..m /\ j <= m
        BY <2>3
      <4>. QED
        BY <1>3, <2>3, <4>1
    <3>2. /\ r[j] \in Int /\ r[m] \in Int /\ e[j] \in Nat /\ e[m] \in Nat
          /\ s[j] \in Nat /\ s[m] \in Nat
      BY <1>3, <2>3
    <3>3. /\ r1[j] = r[j] /\ e1[j] = e[j] /\ s1[j] = s[j]
          /\ r1[k] = r[m] + rooms[m + 1] /\ e1[k] = e[m] + one /\ s1[k] = s[m] + four
      BY <1>2, <2>3
    <3>. QED
      BY <1>1, <2>3, <3>1, <3>2, <3>3
  <2>. QED
    BY <1>8, <2>1, <2>2, <2>3
<1>9. r1[0] = 0 /\ e1[0] = 0 /\ s1[0] = 0
  <2>1. 0 \in 0..m
    OBVIOUS
  <2>. QED
    BY <1>2, <1>3, <2>1
<1>10. Sums(r1, e1, s1, m + 1, rooms, empties, stunted)
  BY <1>5, <1>6, <1>7, <1>8, <1>9 DEF Sums
<1>. QED
  BY <1>2, <1>10

LEMMA SumsBound ==
  ASSUME NEW r, NEW e, NEW s, NEW m \in Nat, NEW rooms, NEW empties, NEW stunted,
         Sums(r, e, s, m, rooms, empties, stunted), NEW k \in 0..m
  PROVE  /\ r[k] \in Int /\ e[k] \in Nat /\ s[k] \in Nat /\ e[k] <= k
         /\ r[k] + s[k] <= r[m] + s[m]
         /\ k - e[k] <= m - e[m] /\ r[m] \in Int /\ e[m] \in Nat /\ s[m] \in Nat
<1>1. m \in 0..m /\ 0 \in 0..m /\ k <= m /\ 0 <= k
  OBVIOUS
<1>2. r[0] = 0 /\ e[0] = 0
  BY DEF Sums
<1>3. /\ r[k] \in Int /\ e[k] \in Nat /\ r[m] \in Int /\ e[m] \in Nat
      /\ s[k] \in Nat /\ s[m] \in Nat
  BY <1>1 DEF Sums
<1>4. 0 - e[0] <= k - e[k] /\ r[k] + s[k] <= r[m] + s[m] /\ k - e[k] <= m - e[m]
  BY <1>1 DEF Sums
<1>. QED
  BY <1>2, <1>3, <1>4

LEMMA RoomForAll ==
  ASSUME NEW base \in Int, NEW x \in Int, NEW all \in Int, NEW u \in Int, NEW n \in Nat,
         x + u <= all + n, NEW room \in Nat, room >= n,
         NEW at \in Int, at <= base + x + u
  PROVE  at <= room + all + base
OBVIOUS

(* What lies within the sums lies within what is allocated, if the size of *)
(* the group is enough for the cursors without a hot spot.                 *)
LEMMA WithinAllocated ==
  ASSUME TypeOK, ExtractTypeOK, SpareSuffices, wr.size \in Nat, NEW r, NEW e, NEW s,
         Sums(r, e, s, count, Rooms, Empties, Stunted), NEW k \in 0..count,
         NEW base \in Int, NEW at \in Int, at <= base + r[k] + s[k]
  PROVE  at <= wr.size + r[count] + base
<1>1. count \in Nat /\ DOMAIN icondir = 1..count /\ Stunted \subseteq DOMAIN icondir
  BY ImagesType
<1>2. /\ r[k] \in Int /\ s[k] \in Int /\ r[count] \in Int /\ s[count] \in Nat
      /\ r[k] + s[k] <= r[count] + s[count]
  <2>1. /\ r[k] \in Int /\ s[k] \in Nat /\ r[count] \in Int /\ s[count] \in Nat
        /\ r[k] + s[k] <= r[count] + s[count]
    BY <1>1, SumsBound, Zenon
  <2>. QED
    BY <2>1
<1>3. s[count] = SizeofHotspot * Cardinality(Stunted)
  <2>1. count \in 0..count
    BY <1>1
  <2>2. {b \in 1..count : b \in Stunted} = Stunted
    BY <1>1
  <2>3. s[count] = SizeofHotspot * UpTo(Stunted, count)
    BY <2>1 DEF Sums
  <2>. QED
    BY <2>2, <2>3 DEF UpTo
<1>4. wr.size >= s[count]
  BY <1>3 DEF SpareSuffices
<1>5. PICK n \in Nat : n = s[count] /\ wr.size >= n
  BY <1>2, <1>4
<1>. QED
  BY <1>2, <1>5, RoomForAll

LEMMA EmptyToIs ==
  ASSUME TypeOK, ExtractTypeOK, NEW k \in 0..count
  PROVE  EmptyTo(k) = UpTo(Empties, k)
<1>1. \A b \in 1..k : b \in DOMAIN icondir
  BY ImagesType
<1>2. \A b \in 1..k :
        b \in Empties <=> LET node == ImageOf(icondir[b])
                         IN  HasEntry(node) /\ node.size = 0
  BY <1>1 DEF Empties, Images
<1>. QED
  BY <1>2 DEF EmptyTo, UpTo

-----------------------------------------------------------------------------
(* Step by step.                                                           *)

(* What depends on the library and the group only.                         *)
LEMMA SameGroup ==
  ASSUME UNCHANGED <<vars, request, icondir>>
  PROVE  /\ Images' = Images /\ Rooms' = Rooms /\ Empties' = Empties
         /\ Stunted' = Stunted
         /\ is_icon' = is_icon /\ count' = count /\ HotspotRoom' = HotspotRoom
         /\ HasEntry(wr)' = HasEntry(wr) /\ SpareSuffices' = SpareSuffices
         /\ AsTheFile' = AsTheFile
<1>. USE DEF vars, request, HasEntry, check_offset, is_icon
<1>1. is_icon' = is_icon /\ count' = count /\ HasEntry(wr)' = HasEntry(wr)
      /\ HotspotRoom' = HotspotRoom /\ AsTheFile' = AsTheFile
  BY DEF count, HotspotRoom, AsTheFile, AsRead
<1>2. Images' = Images /\ Stunted' = Stunted
  <2>1. library' = library /\ lang' = lang /\ icondir' = icondir
    OBVIOUS
  <2>2. \A t, n, l : find_resource(t, n, l)' = find_resource(t, n, l)
    BY <2>1 DEF find_resource
  <2>3. \A x : ImageOf(x)' = ImageOf(x)
    BY <1>1, <2>1, <2>2 DEF ImageOf
  <2>4. Images' = Images
    BY <2>1, <2>3 DEF Images
  <2>5. \A k : ImageOf(icondir[k])' = ImageOf(icondir[k])
    BY <2>1, <2>3
  <2>6. \A k : EmptyTo(k)' = EmptyTo(k)
    BY <2>5 DEF EmptyTo
  <2>7. Stunted' = Stunted
    BY <1>1, <2>1, <2>5, <2>6 DEF Stunted
  <2>. QED
    BY <2>4, <2>7
<1>3. Rooms' = Rooms /\ Empties' = Empties
  BY <1>1, <1>2 DEF Rooms, Empties
<1>4. SpareSuffices' = SpareSuffices
  BY <1>2 DEF SpareSuffices
<1>. QED
  BY <1>1, <1>2, <1>3, <1>4

LEMMA GroupInitInv == GroupInit => GroupInv
<1>. SUFFICES ASSUME GroupInit PROVE GroupInv
  OBVIOUS
<1>1. Inv /\ AsTheFile
  BY InitInv DEF GroupInit, Init, AsTheFile, AsRead
<1>2. ExtractTypeOK
  <2>1. icondir = <<>> /\ icondir \in Dirs /\ count = 0
    BY DEF GroupInit, Dirs, count
  <2>. QED
    BY <2>1 DEF GroupInit, ExtractTypeOK
<1>. QED
  BY <1>1, <1>2 DEF GroupInit, GroupInv, Stage, AlreadyCopied

LEMMA LibraryStepInv ==
  ASSUME GroupInv, Next, UNCHANGED extractVars
  PROVE  GroupInv'
<1>1. Inv'
  BY NextInv DEF GroupInv
<1>2. pc # "loaded" /\ UNCHANGED library /\ (library.headers = "PE" \/ UNCHANGED <<memory, total_size>>)
  BY DEF Next, RefuseHeaders, AcceptNE, AcceptPE, Measure, Extend, SkipUninitialized,
         MoveSection, RefuseSection, FindResources, GroupInv, Inv
<1>3. job = "none" /\ job' = "none"
  BY <1>2 DEF GroupInv, ExtractTypeOK, extractVars
<1>4. AsTheFile'
  BY <1>2 DEF GroupInv, AsTheFile, AsRead
<1>5. ExtractTypeOK' /\ Stage'
  BY <1>3 DEF GroupInv, ExtractTypeOK, Stage, extractVars, output, count
<1>. QED
  BY <1>1, <1>3, <1>4, <1>5 DEF GroupInv, AlreadyCopied

LEMMA StartInv == ASSUME GroupInv, Start PROVE GroupInv'
<1>1. /\ pc = "loaded" /\ job = "none" /\ UNCHANGED <<vars, icondir, image, skipped, output>>
      /\ wr' \in Nodes(library.contents.table)
      /\ kind' \in {"raw", "bitmap", "group", "unknown"}
      /\ job' = IF kind' = "unknown" THEN "failed" ELSE kind'
  BY CalledForNodes DEF Start, Kind
<1>2. Inv' /\ AsTheFile'
  BY <1>1, NextInv DEF GroupInv, vars, AsTheFile, AsRead
<1>3. ExtractTypeOK' /\ Stage'
  BY <1>1 DEF GroupInv, ExtractTypeOK, Stage, output, count, vars
<1>. QED
  BY <1>1, <1>2, <1>3 DEF GroupInv, AlreadyCopied

(* Whatever ends the extraction.                                           *)
LEMMA EndInv ==
  ASSUME GroupInv, ExtractRaw \/ NoResource \/ ExtractBitmap \/ BitmapKills
                   \/ NoCount \/ ImageFails
  PROVE  GroupInv'
<1>1. /\ UNCHANGED <<vars, request, icondir, image, skipped>>
      /\ job # "none" /\ job' \in {"written", "failed", "killed"}
      /\ job' = "written" => HasEntry(wr) /\ kind \in {"raw", "bitmap"}
  BY DEF ExtractRaw, NoResource, ExtractBitmap, BitmapKills, NoCount, ImageFails,
         Finish, Fail, GroupInv, Stage
<1>2. Inv' /\ AsTheFile' /\ HasEntry(wr)' = HasEntry(wr) /\ kind' = kind
  BY <1>1, NextInv, SameGroup DEF GroupInv, request
<1>4. ExtractTypeOK'
  BY <1>1 DEF GroupInv, ExtractTypeOK, vars, request, count
<1>5. Stage'
  BY <1>1, <1>2 DEF Stage
<1>6. job' = "written" /\ kind' = "raw" => (out = Bytes(wr.at, wr.size))'
  <2>1. job' = "written" /\ kind' = "raw" => ExtractRaw
    BY <1>2 DEF NoResource, ExtractBitmap, BitmapKills, NoCount, ImageFails,
                Finish, Fail, GroupInv, Stage
  <2>. QED
    BY <1>1, <2>1 DEF ExtractRaw, Bytes, vars, request
<1>7. job' = "written" /\ kind' = "bitmap" => out' = Headed(memory', wr'.at, SizeofBitmapFileHeader + wr'.size)
  <2>1. job' = "written" /\ kind' = "bitmap" => ExtractBitmap
    BY <1>2 DEF NoResource, ExtractRaw, BitmapKills, NoCount, ImageFails,
                Finish, Fail, GroupInv, Stage
  <2>2. ExtractBitmap => out' = Headed(memory, wr.at, SizeofBitmapFileHeader + wr.size)
    <3>. SUFFICES ASSUME ExtractBitmap 
                  PROVE  out' = Headed(memory, wr.at, SizeofBitmapFileHeader + wr.size)
      OBVIOUS
    <3>1. outsize' = SizeofBitmapFileHeader + wr.size
      BY DEF ExtractBitmap
    <3>2. out' = Headed(memory, wr.at, outsize')
      BY DEF ExtractBitmap, Headed
    <3>. QED
      BY <3>1, <3>2
  <2>. QED
    BY <1>1, <2>1, <2>2 DEF vars, request
<1>. QED
  BY <1>1, <1>2, <1>4, <1>5, <1>6, <1>7 DEF GroupInv, AlreadyCopied

LEMMA OpenGroupInv == ASSUME GroupInv, OpenGroup PROVE GroupInv'
<1>1. /\ job = "group" /\ HasEntry(wr) /\ job' = "measure" /\ outsize' = wr.size
      /\ icondir' \in Said(library.contents.icondirs, wr.at, IcondirBytes)
      /\ UNCHANGED <<vars, request, image, skipped, offset, out, fileicondir, reach>>
  BY DEF OpenGroup
<1>2. kind = "group" /\ image = 1 /\ skipped = 0
  BY <1>1 DEF GroupInv, Stage
<1>3. Inv' /\ AsTheFile' /\ HasEntry(wr)'
  BY <1>1, NextInv DEF GroupInv, vars, request, AsTheFile, AsRead, HasEntry, check_offset
<1>4. icondir' \in Dirs
  <2>1. icondir' \in {library.contents.icondirs[q] : q \in DOMAIN library.contents.icondirs}
    BY <1>1 DEF Said
  <2>2. library.contents \in Contents
    BY LibrariesAssumption DEF GroupInv, Inv, TypeOK, Library
  <2>. QED
    BY <2>1, <2>2, IcondirsAssumption DEF Dirs
<1>5. ExtractTypeOK' /\ Stage'
  <2>1. Len(icondir') \in Nat /\ 1 \in 1..(Len(icondir') + 1)
    BY <1>4 DEF Dirs
  <2>. QED
    BY <1>1, <1>2, <1>3, <1>4, <2>1 DEF GroupInv, ExtractTypeOK, Stage, vars, request, count
<1>6. Measuring'
  <2>1. image' - 1 = 0 /\ outsize' = wr'.size + 0 /\ skipped' = 0
    <3>1. wr.size \in Nat
      BY <1>1, NodeType DEF GroupInv, Inv, ExtractTypeOK
    <3>. QED
      BY <1>1, <1>2, <3>1 DEF request
  <2>. DEFINE z == [k \in 0..0 |-> 0]
  <2>2. Sums(z, z, z, 0, Rooms', Empties', Stunted') /\ z[0] = 0
    BY NoSums
  <2>. HIDE DEF z
  <2>3. \E r, e, s : /\ Sums(r, e, s, image' - 1, Rooms', Empties', Stunted')
                     /\ outsize' = wr'.size + r[image' - 1]
                     /\ skipped' = e[image' - 1]
    BY <2>1, <2>2
  <2>. QED
    BY <2>3 DEF Measuring
<1>. QED
  BY <1>1, <1>2, <1>3, <1>5, <1>6 DEF GroupInv, AlreadyCopied, request

LEMMA MeasureImageInv == ASSUME GroupInv, MeasureImage PROVE GroupInv'
<1>1. /\ job = "measure" /\ image <= count
      /\ outsize' = outsize + Room
      /\ skipped' = skipped + (IF HasEntry(fwr) /\ fwr.size = 0 THEN 1 ELSE 0)
      /\ image' = image + 1
      /\ UNCHANGED <<vars, job, request, icondir, offset, out, fileicondir, reach>>
  BY DEF MeasureImage
<1>2. /\ Images' = Images /\ Rooms' = Rooms /\ Empties' = Empties /\ Stunted' = Stunted
      /\ count' = count /\ HasEntry(wr)' = HasEntry(wr) /\ AsTheFile'
  BY <1>1, SameGroup DEF GroupInv
<1>3. Inv'
  BY <1>1, NextInv DEF GroupInv
<1>4. /\ TypeOK /\ ExtractTypeOK /\ image \in 1..count /\ image \in DOMAIN icondir
      /\ count \in Nat /\ image \in Nat /\ skipped \in Nat /\ kind = "group"
  BY <1>1, ImagesType DEF GroupInv, Inv, ExtractTypeOK, Stage
<1>5. /\ Images[image] = fwr /\ Rooms[image] = Room
      /\ image \in Empties <=> HasEntry(fwr) /\ fwr.size = 0
  <2>1. Images[image] = fwr
    BY <1>4 DEF Images, fwr, entry, ImageOf
  <2>. QED
    BY <1>4, <2>1 DEF Rooms, Room, Empties, HotspotRoom, entry
<1>6. /\ Rooms[image] \in Int
      /\ Rooms[image] + (IF image \in Stunted THEN SizeofHotspot ELSE 0) >= 0
  BY <1>4, ImagesType
<1>7. PICK r, e, s : /\ Sums(r, e, s, image - 1, Rooms, Empties, Stunted)
                     /\ outsize = wr.size + r[image - 1]
                     /\ skipped = e[image - 1]
  BY <1>1 DEF GroupInv, Measuring
<1>8. PICK m \in Nat : m = image - 1 /\ m + 1 = image
  BY <1>4
<1>9. PICK r1, e1, s1 :
        /\ Sums(r1, e1, s1, image, Rooms, Empties, Stunted)
        /\ r1[image] = r[m] + Rooms[image]
        /\ e1[image] = e[m] + (IF image \in Empties THEN 1 ELSE 0)
  <2>1. /\ Sums(r, e, s, m, Rooms, Empties, Stunted) /\ Rooms[m + 1] \in Int
        /\ Rooms[m + 1] + (IF m + 1 \in Stunted THEN SizeofHotspot ELSE 0) >= 0
    BY <1>6, <1>7, <1>8
  <2>2. \E r1, e1, s1 :
          /\ Sums(r1, e1, s1, m + 1, Rooms, Empties, Stunted)
          /\ r1[m + 1] = r[m] + Rooms[m + 1]
          /\ e1[m + 1] = e[m] + (IF m + 1 \in Empties THEN 1 ELSE 0)
    BY <1>8, <2>1, SumsMore
  <2>. QED
    BY <1>8, <2>2
<1>10. Measuring'
  <2>1. r[m] \in Int /\ wr.size \in Nat
    <3>1. m \in 0..m
      BY <1>8
    <3>2. wr.size \in Nat
      BY <1>1, <1>4, NodeType DEF ExtractTypeOK
    <3>. QED
      BY <1>7, <1>8, <3>1, <3>2 DEF Sums
  <2>2. image' - 1 = image /\ image - 1 = m
    BY <1>1, <1>4, <1>8
  <2>3. outsize' = wr'.size + r1[image' - 1]
    BY <1>1, <1>5, <1>6, <1>7, <1>9, <2>1, <2>2 DEF request
  <2>4. skipped' = e1[image' - 1]
    BY <1>1, <1>5, <1>7, <1>9, <2>2
  <2>5. Sums(r1, e1, s1, image' - 1, Rooms', Empties', Stunted')
    BY <1>2, <1>9, <2>2
  <2>. QED
    BY <2>3, <2>4, <2>5 DEF Measuring
<1>11. ExtractTypeOK' /\ Stage'
  BY <1>1, <1>2, <1>4 DEF GroupInv, ExtractTypeOK, Stage, vars, request
<1>. QED
  BY <1>1, <1>2, <1>3, <1>4, <1>10, <1>11 DEF GroupInv, AlreadyCopied, request

LEMMA AllocateInv == ASSUME GroupInv, Allocate PROVE GroupInv'
<1>1. /\ job = "measure" /\ image > count /\ job' = "copy" /\ image' = 1 /\ skipped' = 0
      /\ offset' = SizeofIconDir + (count - skipped) * SizeofFileDirEntry
      /\ outsize' = outsize + offset'
      /\ DOMAIN out' = 0..(outsize' - 1)
      /\ DOMAIN fileicondir' = 1..(count - skipped)
      /\ reach' = offset'
      /\ UNCHANGED <<vars, request, icondir>>
  BY DEF Allocate
<1>2. /\ Images' = Images /\ Rooms' = Rooms /\ Empties' = Empties /\ Stunted' = Stunted
      /\ count' = count /\ HasEntry(wr)' = HasEntry(wr) /\ AsTheFile'
      /\ is_icon' = is_icon
  BY <1>1, SameGroup DEF GroupInv
<1>3. Inv'
  BY <1>1, NextInv DEF GroupInv
<1>4. /\ TypeOK /\ ExtractTypeOK /\ image - 1 = count
      /\ count \in Nat /\ skipped \in Nat /\ kind = "group"
  <2>1. TypeOK /\ ExtractTypeOK /\ kind = "group"
    BY <1>1 DEF GroupInv, Inv, Stage
  <2>2. count \in Nat
    BY <2>1, ImagesType
  <2>. QED
    BY <1>1, <2>1, <2>2 DEF ExtractTypeOK
<1>5. PICK r, e, s : /\ Sums(r, e, s, count, Rooms, Empties, Stunted)
                     /\ outsize = wr.size + r[count]
                     /\ skipped = e[count]
  BY <1>1, <1>4 DEF GroupInv, Measuring
<1>6. /\ r[count] \in Int /\ e[count] \in Nat /\ e[count] <= count
      /\ r[0] = 0 /\ e[0] = 0 /\ s[0] = 0
  <2>1. count \in 0..count
    BY <1>4
  <2>2. r[0] = 0 /\ e[0] = 0 /\ s[0] = 0
    BY <1>5 DEF Sums
  <2>. QED
    BY <1>4, <1>5, <2>1, <2>2, SumsBound
<1>7. wr.size \in Nat
  BY <1>1, <1>4, NodeType DEF ExtractTypeOK
<1>8. offset' = Base(e[count]) /\ offset' \in Nat
  <2>1. offset' = Base(e[count])
    BY <1>1, <1>5 DEF Base
  <2>2. PICK q \in Nat : q = count - e[count]
    BY <1>4, <1>6
  <2>3. SizeofIconDir + q * SizeofFileDirEntry \in Nat
    BY DEF SizeofIconDir, SizeofFileDirEntry
  <2>. QED
    BY <2>1, <2>2, <2>3 DEF Base
<1>9. Copying'
  <2>1. image' - 1 = 0 /\ Base(e[count])' = Base(e[count])
    BY <1>1, <1>2 DEF Base
  <2>2. skipped' = e[image' - 1] /\ DOMAIN fileicondir' = 1..(count' - e[count'])
    BY <1>1, <1>2, <1>5, <1>6, <2>1
  <2>3. outsize' = wr'.size + r[count'] + offset'
    BY <1>1, <1>2, <1>5, <1>6, <1>7, <1>8 DEF request
  <2>4. offset' <= offset' + r[image' - 1] + s[image' - 1]
    BY <1>6, <1>8, <2>1
  <2>5. Sums(r, e, s, count', Rooms', Empties', Stunted')
    BY <1>2, <1>5
  <2>6. offset' = SizeofIconDir + (count' - e[count']) * SizeofFileDirEntry
    BY <1>1, <1>2, <1>5
  <2>7. reach' = offset' /\ offset' \in Int
    BY <1>1, <1>8
  <2>8. /\ outsize' = wr'.size + r[count'] + Base(e[count])'
        /\ offset' <= Base(e[count])' + r[image' - 1] + s[image' - 1]
        /\ reach' <= Base(e[count])' + r[image' - 1] + s[image' - 1]
    BY <1>8, <2>1, <2>3, <2>4, <2>7
  <2>. QED
    BY <2>2, <2>5, <2>6, <2>7, <2>8 DEF Copying, Base
<1>10. Forward' /\ KeptWhole'
  BY <1>1, <1>8 DEF Forward, KeptWhole
<1>11. ExtractTypeOK' /\ Stage'
  BY <1>1, <1>2, <1>4 DEF GroupInv, ExtractTypeOK, Stage, vars, request
<1>. QED
  BY <1>1, <1>2, <1>3, <1>9, <1>10, <1>11 DEF GroupInv, AlreadyCopied

(* The image reached, in the sums.                                         *)
Spared == IF image \in Stunted THEN SizeofHotspot ELSE 0

LEMMA Reached ==
  ASSUME GroupInv, job = "copy", image <= count, fwr # NoNode, HasEntry(fwr)
  PROVE  /\ image \in 1..count /\ image \in DOMAIN icondir
         /\ image \in Nat /\ count \in Nat /\ skipped \in Nat
         /\ kind = "group" /\ HasEntry(wr) /\ wr.size \in Nat
         /\ Images[image] = fwr /\ fwr.size \in Nat /\ fwr.at \in Int
         /\ entry = icondir[image] /\ entry.bytes_in_res \in Nat
         /\ Rooms[image] = Room /\ Rooms[image] \in Int /\ Rooms[image] + Spared >= 0
         /\ image \in Empties <=> fwr.size = 0
         /\ \E r, e, s :
              /\ Sums(r, e, s, count, Rooms, Empties, Stunted)
              /\ skipped = e[image - 1]
              /\ DOMAIN fileicondir = 1..(count - e[count])
              /\ outsize = wr.size + r[count] + Base(e[count])
              /\ offset <= Base(e[count]) + r[image - 1] + s[image - 1]
              /\ reach <= Base(e[count]) + r[image - 1] + s[image - 1]
              /\ Base(e[count]) \in Int
              /\ r[count] \in Int /\ r[image - 1] \in Int /\ s[image - 1] \in Nat
              /\ r[image] = r[image - 1] + Room
              /\ s[image] = s[image - 1] + Spared
              /\ e[image - 1] = UpTo(Empties, image - 1)
              /\ e[image] = skipped + (IF fwr.size = 0 THEN 1 ELSE 0)
              /\ e[count] \in Nat /\ skipped <= image - 1
              /\ image - e[image] <= count - e[count]
<1>1. /\ TypeOK /\ ExtractTypeOK /\ image \in 1..count /\ image \in DOMAIN icondir
      /\ count \in Nat /\ image \in Nat /\ skipped \in Nat /\ kind = "group" /\ HasEntry(wr)
  BY ImagesType DEF GroupInv, Inv, ExtractTypeOK, Stage
<1>2. Images[image] = fwr
  BY <1>1 DEF Images, fwr, entry, ImageOf
<1>3. /\ Rooms[image] = Room
      /\ image \in Empties <=> fwr.size = 0
  BY <1>1, <1>2 DEF Rooms, Room, Empties, HotspotRoom, entry
<1>4. /\ Rooms[image] \in Int /\ Rooms[image] + Spared >= 0
      /\ fwr.size \in Nat /\ fwr.at \in Int
      /\ icondir[image].bytes_in_res \in Nat
  BY <1>1, <1>2, ImagesType DEF NoEntry, Spared
<1>5. wr.size \in Nat
  BY <1>1, NodeType DEF ExtractTypeOK
<1>6. PICK r, e, s :
              /\ Sums(r, e, s, count, Rooms, Empties, Stunted)
              /\ skipped = e[image - 1]
              /\ DOMAIN fileicondir = 1..(count - e[count])
              /\ outsize = wr.size + r[count] + Base(e[count])
              /\ offset <= Base(e[count]) + r[image - 1] + s[image - 1]
              /\ reach <= Base(e[count]) + r[image - 1] + s[image - 1]
  BY DEF GroupInv, AlreadyCopied, Copying
<1>7. image - 1 \in 0..count /\ image \in 0..count
  BY <1>1
<1>8. /\ r[image - 1] \in Int /\ e[image - 1] <= image - 1 /\ s[image - 1] \in Nat
      /\ r[count] \in Int /\ e[count] \in Nat
      /\ image - e[image] <= count - e[count]
  BY <1>1, <1>6, <1>7, SumsBound
<1>9. /\ r[image] = r[image - 1] + Room
      /\ s[image] = s[image - 1] + Spared
      /\ e[image - 1] = UpTo(Empties, image - 1)
      /\ e[image] = skipped + (IF fwr.size = 0 THEN 1 ELSE 0)
  BY <1>1, <1>3, <1>6, <1>7 DEF Sums, Spared
<1>10. Base(e[count]) \in Int
  BY <1>1, <1>8 DEF Base, SizeofIconDir, SizeofFileDirEntry
<1>. QED
  BY <1>1, <1>2, <1>3, <1>4, <1>5, <1>6, <1>8, <1>9, <1>10 DEF entry

LEMMA CopyImageInv == ASSUME GroupInv, CopyImage PROVE GroupInv'
<1>1. /\ job = "copy" /\ image <= count
      /\ fwr # NoNode /\ HasEntry(fwr) /\ fwr.size > 0
      /\ fileicondir' = [fileicondir EXCEPT ![slot] =
           [bytes_in_res |-> entry.bytes_in_res, dib_offset |-> offset,
            hotspot |-> IF Hotspot > 0 THEN memory[fwr.at] ELSE Junk]]
      /\ out' = [p \in DOMAIN out |->
                   IF p \in offset..(offset + Transferred - 1)
                   THEN memory[Source + (p - offset)]
                   ELSE out[p]]
      /\ reach' = IF Transferred = 0 THEN reach ELSE Larger(reach, offset + Transferred)
      /\ offset' = offset + entry.bytes_in_res - Hotspot
      /\ image' = image + 1
      /\ UNCHANGED <<vars, job, request, icondir, skipped, outsize>>
  BY DEF CopyImage
<1>2. /\ Images' = Images /\ Rooms' = Rooms /\ Empties' = Empties /\ Stunted' = Stunted
      /\ count' = count /\ HasEntry(wr)' = HasEntry(wr) /\ AsTheFile'
      /\ is_icon' = is_icon /\ HotspotRoom' = HotspotRoom /\ SpareSuffices' = SpareSuffices
  BY <1>1, SameGroup DEF GroupInv
<1>3. Inv'
  BY <1>1, NextInv DEF GroupInv
<1>4. /\ image \in 1..count /\ image \in DOMAIN icondir
      /\ image \in Nat /\ count \in Nat /\ skipped \in Nat
      /\ kind = "group" /\ HasEntry(wr) /\ wr.size \in Nat
      /\ Images[image] = fwr /\ fwr.size \in Nat /\ fwr.at \in Int
      /\ entry = icondir[image] /\ entry.bytes_in_res \in Nat
      /\ ExtractTypeOK
  BY <1>1, Reached DEF GroupInv
<1>5. PICK r, e, s :
        /\ Sums(r, e, s, count, Rooms, Empties, Stunted)
        /\ skipped = e[image - 1]
        /\ DOMAIN fileicondir = 1..(count - e[count])
        /\ outsize = wr.size + r[count] + Base(e[count])
        /\ offset <= Base(e[count]) + r[image - 1] + s[image - 1]
        /\ reach <= Base(e[count]) + r[image - 1] + s[image - 1]
        /\ Base(e[count]) \in Int
        /\ r[count] \in Int /\ r[image - 1] \in Int /\ s[image - 1] \in Nat
        /\ r[image] = r[image - 1] + Room /\ s[image] = s[image - 1] + Spared
        /\ e[image - 1] = UpTo(Empties, image - 1)
        /\ e[image] = skipped + (IF fwr.size = 0 THEN 1 ELSE 0)
        /\ e[count] \in Nat /\ skipped <= image - 1
        /\ image - e[image] <= count - e[count]
  BY <1>1, Reached
<1>20. e[image] = skipped
  BY <1>1, <1>4, <1>5
<1>6. /\ offset \in Int /\ reach \in Int /\ Forward /\ (SpareSuffices => KeptWhole)
      /\ DOMAIN out = 0..(outsize - 1)
  BY <1>1 DEF GroupInv, AlreadyCopied, Copying
<1>7. /\ slot \in 1..(count - e[count]) /\ slot \in Nat /\ slot = image - skipped
      /\ icondir[slot].bytes_in_res \in Nat
  <2>1. slot \in 1..(count - e[count]) /\ slot = image - skipped
    <3>1. PICK left \in Int : left = count - e[count]
      BY <1>4, <1>5
    <3>2. image - skipped <= left /\ skipped <= image - 1
      BY <1>5, <1>20, <3>1
    <3>3. image - skipped \in 1..left
      BY <1>4, <3>2
    <3>. QED
      BY <3>1, <3>3 DEF slot
  <2>2. slot \in DOMAIN icondir /\ TypeOK
    BY <1>4, <1>5, <2>1, ImagesType DEF GroupInv, Inv
  <2>. QED
    BY <1>4, <2>1, <2>2, ImagesType
<1>8. /\ Copied \in Nat /\ Copied <= fwr.size /\ Copied <= icondir[slot].bytes_in_res
      /\ Copied = fwr.size \/ Copied = icondir[slot].bytes_in_res
  BY <1>4, <1>7 DEF Copied
<1>9. /\ Hotspot \in {0, 4} /\ (is_icon => Hotspot = 0) /\ HotspotRoom \in {0, 4}
      /\ Hotspot <= Copied
      /\ Transferred \in Nat /\ Transferred <= Copied
      /\ Room = Larger(fwr.size, entry.bytes_in_res) - HotspotRoom
      /\ Copied >= HotspotRoom => Hotspot = HotspotRoom /\ Transferred = Copied - HotspotRoom
  BY <1>1, <1>8 DEF Hotspot, Transferred, HotspotRoom, SizeofHotspot, Room
<1>21. image \notin Stunted => Copied >= HotspotRoom
  <2>1. CASE is_icon
    BY <1>8, <2>1 DEF HotspotRoom
  <2>2. CASE ~is_icon
    <3>1. EmptyTo(image - 1) = skipped
      <4>1. image - 1 \in 0..count /\ TypeOK
        BY <1>4 DEF GroupInv, Inv
      <4>. QED
        BY <1>4, <1>5, <4>1, EmptyToIs
    <3>2. /\ ImageOf(icondir[image]) = fwr
          /\ icondir[image - EmptyTo(image - 1)] = icondir[slot]
      BY <1>4, <1>7, <3>1 DEF Images
    <3>3. image \in Stunted <=>
            fwr.size < SizeofHotspot \/ icondir[slot].bytes_in_res < SizeofHotspot
      BY <1>1, <1>4, <2>2, <3>2 DEF Stunted
    <3>. QED
      BY <1>4, <1>7, <1>8, <2>2, <3>3 DEF HotspotRoom, SizeofHotspot
  <2>. QED
    BY <2>1, <2>2
<1>10. /\ Room \in Int /\ Spared \in {0, 4} /\ 0 <= Room + Spared
       /\ Transferred > 0 => Transferred <= Room + Spared
       /\ entry.bytes_in_res - Hotspot <= Room + Spared
  <2>1. Room \in Int /\ 0 <= Room + Spared
    BY <1>1, Reached
  <2>2. /\ Spared \in {0, 4}
        /\ Spared = 0 => Hotspot = HotspotRoom
        /\ Spared = 4 \/ Hotspot = HotspotRoom
    BY <1>9, <1>21 DEF Spared, SizeofHotspot
  <2>3. fwr.size - HotspotRoom <= Room /\ entry.bytes_in_res - HotspotRoom <= Room
    BY <1>4, <1>9 DEF Larger
  <2>4. Transferred > 0 => Transferred <= fwr.size - HotspotRoom
    <3>1. Transferred > 0 => Copied >= HotspotRoom
      BY <1>8, <1>9 DEF Transferred, Hotspot, HotspotRoom
    <3>. QED
      BY <1>4, <1>8, <1>9, <3>1
  <2>. QED
    BY <1>4, <1>8, <1>9, <2>1, <2>2, <2>3, <2>4
<1>11. /\ offset' \in Int /\ reach' \in Int
       /\ reach <= reach' /\ (Transferred > 0 => offset + Transferred <= reach')
       /\ offset' <= Base(e[count]) + r[image] + s[image]
       /\ reach' <= Base(e[count]) + r[image] + s[image]
  <2>1. PICK to \in Int : to = offset + Transferred
    BY <1>6, <1>9
  <2>2. reach' = IF Transferred = 0 THEN reach ELSE Larger(reach, to)
    BY <1>1, <2>1
  <2>3. /\ reach' \in Int /\ reach <= reach' /\ (Transferred > 0 => to <= reach')
        /\ reach' = reach \/ (Transferred > 0 /\ reach' = to)
    BY <1>6, <1>9, <2>1, <2>2 DEF Larger
  <2>4. offset' \in Int
    BY <1>1, <1>4, <1>6, <1>9
  <2>6. PICK base \in Int : base = Base(e[count])
    BY <1>5
  <2>7. /\ offset <= base + r[image - 1] + s[image - 1]
        /\ reach <= base + r[image - 1] + s[image - 1]
        /\ r[image - 1] \in Int /\ r[image] = r[image - 1] + Room
        /\ s[image - 1] \in Int /\ s[image] = s[image - 1] + Spared
    BY <1>5, <2>6
  <2>8. PICK step \in Int :
          offset' = offset + step /\ step = entry.bytes_in_res - Hotspot
    BY <1>1, <1>4, <1>6, <1>9
  <2>9. offset' <= base + r[image] + s[image]
    <3>1. step <= Room + Spared /\ Room \in Int /\ Spared \in Int
      BY <1>10, <2>8
    <3>2. offset' = offset + step /\ offset \in Int
      BY <1>6, <2>8
    <3>3. offset + step <= base + r[image] + s[image]
      BY <2>7, <3>1, <3>2
    <3>. QED
      BY <3>2, <3>3
  <2>10. Transferred > 0 => to <= base + r[image] + s[image]
    <3>1. Transferred \in Int
      BY <1>9
    <3>2. Transferred > 0 => offset + Transferred <= base + r[image] + s[image]
      BY <1>6, <1>10, <2>7, <3>1
    <3>. QED
      BY <2>1, <3>2
  <2>11. reach <= base + r[image] + s[image]
    BY <1>6, <1>10, <2>7
  <2>. QED
    BY <2>1, <2>3, <2>4, <2>6, <2>9, <2>10, <2>11
<1>12. Copying' /\ DOMAIN out' = 0..(outsize' - 1)
  <2>1. image' - 1 = image /\ Base(e[count])' = Base(e[count])
    BY <1>1, <1>2, <1>4 DEF Base
  <2>2. Sums(r, e, s, count', Rooms', Empties', Stunted') /\ skipped' = e[image' - 1]
    BY <1>1, <1>2, <1>5, <1>20, <2>1
  <2>3. DOMAIN fileicondir' = 1..(count' - e[count']) /\ DOMAIN out' = 0..(outsize' - 1)
    BY <1>1, <1>2, <1>5, <1>6
  <2>4. outsize' = wr'.size + r[count'] + Base(e[count])'
    BY <1>1, <1>2, <1>5, <2>1 DEF request
  <2>5. Base(e[count])' = SizeofIconDir + (count' - e[count']) * SizeofFileDirEntry
    BY <1>2, <2>1 DEF Base
  <2>6. /\ offset' <= Base(e[count])' + r[image' - 1] + s[image' - 1]
        /\ reach' <= Base(e[count])' + r[image' - 1] + s[image' - 1]
    BY <1>11, <2>1
  <2>. QED
    BY <1>11, <2>2, <2>3, <2>4, <2>5, <2>6 DEF Copying, Base
<1>13. NonemptyTo(image - 1) => slot = image
  BY <1>4, <1>6, <1>7 DEF Forward
<1>14. is_icon \/ NonemptyTo(image - 1) => offset <= offset' /\ offset >= 0
  <2>1. is_icon => Hotspot <= entry.bytes_in_res
    BY <1>4, <1>9
  <2>2. slot = image => Hotspot <= entry.bytes_in_res
    BY <1>4, <1>8, <1>9
  <2>. QED
    BY <1>1, <1>4, <1>6, <1>9, <1>13, <2>1, <2>2 DEF Forward
<1>15. NonemptyTo(image) => NonemptyTo(image - 1)
  BY <1>4 DEF NonemptyTo
<1>16. NonemptyTo(image - 1)' <=> NonemptyTo(image)
  BY <1>1, <1>2, <1>4 DEF NonemptyTo
<1>17. Forward'
  BY <1>1, <1>2, <1>6, <1>11, <1>14, <1>15, <1>16 DEF Forward
<1>18. SpareSuffices => KeptWhole'
  <2>. SUFFICES ASSUME SpareSuffices, NEW k \in 1..image,
                       Images[k].size > 0, Agrees(icondir[k], Images[k]),
                       NonemptyTo(IF is_icon THEN k - 1 ELSE image)
                PROVE  Kept(k)'
    <3>1. image' - 1 = image
      BY <1>1, <1>4
    <3>2. \A k : /\ Agrees(icondir[k], Images[k])' <=> Agrees(icondir[k], Images[k])
                 /\ NonemptyTo(k)' <=> NonemptyTo(k)
      BY <1>1, <1>2 DEF Agrees, NonemptyTo
    <3>. QED
      BY <1>1, <1>2, <3>1, <3>2 DEF KeptWhole
  <2>. DEFINE n == Images[k].size - HotspotRoom
              from == fileicondir'[k].dib_offset
  <2>1. is_icon \/ NonemptyTo(image - 1)
    BY <1>15
  <2>2. reach <= outsize /\ reach' <= outsize
    <3>1. image - 1 \in 0..count /\ image \in 0..count
      BY <1>4
    <3>2. PICK base \in Int : base = Base(e[count])
      BY <1>5
    <3>3. /\ outsize = wr.size + r[count] + base
          /\ reach <= base + r[image - 1] + s[image - 1]
          /\ reach' <= base + r[image] + s[image]
      BY <1>5, <1>11, <3>2
    <3>4. /\ Sums(r, e, s, count, Rooms, Empties, Stunted)
          /\ TypeOK /\ ExtractTypeOK /\ wr.size \in Nat
          /\ reach \in Int /\ reach' \in Int
      BY <1>4, <1>5, <1>6, <1>11 DEF GroupInv, Inv
    <3>5. reach <= wr.size + r[count] + base /\ reach' <= wr.size + r[count] + base
      BY <3>1, <3>3, <3>4, WithinAllocated
    <3>. QED
      BY <3>3, <3>5
  <2>3. n \in Int /\ Images[k].at \in Int
    <3>1. k \in DOMAIN icondir /\ TypeOK
      BY <1>4, ImagesType DEF GroupInv, Inv
    <3>. QED
      BY <1>4, <1>9, <3>1, ImagesType DEF NoEntry
  <2>4. outsize \in Int
    BY <1>4, <1>5
  <2>5. SUFFICES /\ HasEntry(Images[k])
                 /\ from \in Nat /\ from + n <= offset' /\ (n > 0 => from + n <= reach')
                 /\ \A p \in 0..(n - 1) :
                      out'[from + p] = memory[Images[k].at + HotspotRoom + p]
                 /\ k + skipped < image'
    BY <1>1, <1>2 DEF Kept, vars, HasEntry, check_offset
  <2>6. CASE k < image
    <3>1. k \in 1..(image - 1)
      BY <1>4, <2>6
    <3>2. NonemptyTo(IF is_icon THEN k - 1 ELSE image - 1)
      BY <1>15
    <3>3. Kept(k)
      BY <1>6, <3>1, <3>2 DEF KeptWhole
    <3>4. k + skipped < image /\ k # slot /\ k \in DOMAIN fileicondir
      BY <1>4, <1>5, <1>7, <3>1, <3>3 DEF Kept
    <3>5. from = fileicondir[k].dib_offset
      BY <1>1, <3>4
    <3>6. /\ HasEntry(Images[k])
          /\ from \in Nat /\ from + n <= offset /\ (n > 0 => from + n <= reach)
          /\ \A p \in 0..(n - 1) : out[from + p] = memory[Images[k].at + HotspotRoom + p]
      BY <3>3, <3>5 DEF Kept
    <3>7. ASSUME NEW p \in 0..(n - 1)
          PROVE  out'[from + p] = out[from + p]
      <4>1. from + p \in DOMAIN out /\ from + p < offset
        BY <1>6, <2>2, <2>3, <2>4, <3>6
      <4>. QED
        BY <1>1, <1>6, <4>1
    <3>8. from + n <= offset' /\ (n > 0 => from + n <= reach')
      BY <1>6, <1>11, <1>14, <2>1, <2>3, <3>6
    <3>. QED
      BY <1>1, <1>4, <3>4, <3>6, <3>7, <3>8
  <2>7. CASE k = image
    <3>1. NonemptyTo(image - 1)
      BY <1>15, <2>7
    <3>2. slot = image /\ skipped = 0 /\ offset >= 0
      BY <1>6, <1>13, <1>14, <3>1 DEF Forward
    <3>3. fwr.size = entry.bytes_in_res /\ (is_icon \/ fwr.size >= 4)
      BY <1>4, <2>7 DEF Agrees, SizeofHotspot
    <3>4. Copied = fwr.size /\ Copied >= HotspotRoom
      <4>1. HotspotRoom = IF is_icon THEN 0 ELSE 4
        BY DEF HotspotRoom, SizeofHotspot
      <4>. QED
        BY <1>4, <1>8, <3>2, <3>3, <4>1
    <3>5. Hotspot = HotspotRoom /\ Transferred = n /\ n \in Nat
      BY <1>4, <1>9, <2>7, <3>4
    <3>6. from = offset /\ from \in Nat
      BY <1>1, <1>5, <1>6, <1>7, <2>7, <3>2
    <3>7. from + n <= offset' /\ (n > 0 => from + n <= reach')
      BY <1>1, <1>4, <1>9, <1>11, <2>7, <3>3, <3>4, <3>5, <3>6
    <3>8. ASSUME NEW p \in 0..(n - 1)
          PROVE  out'[from + p] = memory[Images[k].at + HotspotRoom + p]
      <4>. HIDE DEF n, from
      <4>1. /\ from + p \in DOMAIN out
            /\ from + p \in offset..(offset + Transferred - 1)
        BY <1>6, <1>11, <2>2, <2>4, <3>5, <3>6, <3>7
      <4>2. out'[from + p] = memory[Source + ((from + p) - offset)]
        BY <1>1, <4>1
      <4>3. Source + ((from + p) - offset) = Images[k].at + HotspotRoom + p
        BY <1>4, <1>6, <1>9, <2>7, <3>5, <3>6 DEF Source
      <4>. QED
        BY <4>2, <4>3
    <3>9. k + skipped < image'
      BY <1>1, <1>4, <2>7, <3>2
    <3>10. HasEntry(Images[k])
      BY <1>1, <1>4, <2>7
    <3>. QED
      BY <3>6, <3>7, <3>8, <3>9, <3>10
  <2>. QED
    BY <1>4, <2>6, <2>7
<1>19. ExtractTypeOK' /\ Stage'
  BY <1>1, <1>2, <1>4 DEF GroupInv, ExtractTypeOK, Stage, vars, request
<1>. QED
  BY <1>1, <1>2, <1>3, <1>4, <1>12, <1>17, <1>18, <1>19 DEF GroupInv, AlreadyCopied, request

LEMMA SkipEmptyInv == ASSUME GroupInv, SkipEmpty PROVE GroupInv'
<1>1. /\ job = "copy" /\ image <= count
      /\ fwr # NoNode /\ HasEntry(fwr) /\ fwr.size = 0
      /\ skipped' = skipped + 1
      /\ image' = image + 1
      /\ UNCHANGED <<vars, job, request, icondir, output>>
  BY DEF SkipEmpty
<1>2. /\ Images' = Images /\ Rooms' = Rooms /\ Empties' = Empties /\ Stunted' = Stunted
      /\ count' = count /\ HasEntry(wr)' = HasEntry(wr) /\ AsTheFile'
      /\ is_icon' = is_icon /\ HotspotRoom' = HotspotRoom /\ SpareSuffices' = SpareSuffices
  BY <1>1, SameGroup DEF GroupInv
<1>3. Inv'
  BY <1>1, NextInv DEF GroupInv
<1>4. /\ image \in 1..count /\ image \in Nat /\ count \in Nat /\ skipped \in Nat
      /\ kind = "group" /\ HasEntry(wr) /\ wr.size \in Nat
      /\ Images[image] = fwr
      /\ ExtractTypeOK
  BY <1>1, Reached DEF GroupInv
<1>5. PICK r, e, s :
        /\ Sums(r, e, s, count, Rooms, Empties, Stunted)
        /\ skipped = e[image - 1]
        /\ DOMAIN fileicondir = 1..(count - e[count])
        /\ outsize = wr.size + r[count] + Base(e[count])
        /\ offset <= Base(e[count]) + r[image - 1] + s[image - 1]
        /\ reach <= Base(e[count]) + r[image - 1] + s[image - 1]
        /\ Base(e[count]) \in Int
        /\ r[count] \in Int /\ r[image - 1] \in Int /\ s[image - 1] \in Nat
        /\ r[image] = r[image - 1] + Room /\ s[image] = s[image - 1] + Spared
        /\ e[image - 1] = UpTo(Empties, image - 1)
        /\ e[image] = skipped + (IF fwr.size = 0 THEN 1 ELSE 0)
        /\ e[count] \in Nat /\ skipped <= image - 1
        /\ image - e[image] <= count - e[count]
  BY <1>1, Reached
<1>6. Room = 0 /\ e[image] = skipped + 1
  BY <1>1, <1>5 DEF Room
<1>7. /\ offset \in Int /\ reach \in Int /\ Forward /\ (SpareSuffices => KeptWhole)
      /\ DOMAIN out = 0..(outsize - 1)
  BY <1>1 DEF GroupInv, AlreadyCopied, Copying
<1>8. image' - 1 = image /\ image' \in Nat /\ skipped' \in Nat
  BY <1>1, <1>4
<1>9. Copying'
  <2>1. PICK base \in Int : base = Base(e[count])
    BY <1>5
  <2>2. /\ offset <= base + r[image] + s[image]
        /\ reach <= base + r[image] + s[image]
    <3>1. /\ offset <= base + r[image - 1] + s[image - 1]
          /\ reach <= base + r[image - 1] + s[image - 1]
          /\ r[image - 1] \in Int /\ r[image] = r[image - 1] + Room
      BY <1>5, <2>1
    <3>2. /\ Room = 0 /\ Spared \in Nat
          /\ s[image - 1] \in Nat /\ s[image] = s[image - 1] + Spared
      BY <1>5, <1>6 DEF Spared, SizeofHotspot
    <3>. QED
      BY <1>7, <3>1, <3>2
  <2>3. Base(e[count])' = base /\ base = SizeofIconDir + (count' - e[count']) * SizeofFileDirEntry
    BY <1>2, <2>1 DEF Base
  <2>4. Sums(r, e, s, count', Rooms', Empties', Stunted') /\ skipped' = e[image' - 1]
    BY <1>1, <1>2, <1>5, <1>6, <1>8
  <2>5. /\ DOMAIN fileicondir' = 1..(count' - e[count'])
        /\ outsize' = wr'.size + r[count'] + base
    BY <1>1, <1>2, <1>5, <2>1 DEF request, output
  <2>6. /\ offset' \in Int /\ reach' \in Int
        /\ offset' <= base + r[image' - 1] + s[image' - 1]
        /\ reach' <= base + r[image' - 1] + s[image' - 1]
    BY <1>1, <1>7, <1>8, <2>2 DEF output
  <2>. QED
    BY <2>3, <2>4, <2>5, <2>6 DEF Copying, Base
<1>10. ~NonemptyTo(image)
  BY <1>1, <1>4 DEF NonemptyTo
<1>11. NonemptyTo(image - 1)' <=> NonemptyTo(image)
  BY <1>1, <1>2, <1>4 DEF NonemptyTo
<1>12. Forward'
  BY <1>1, <1>2, <1>7, <1>10, <1>11 DEF Forward, output
<1>13. SpareSuffices => KeptWhole'
  <2>. SUFFICES ASSUME SpareSuffices, NEW k \in 1..image,
                       Images[k].size > 0, Agrees(icondir[k], Images[k]),
                       NonemptyTo(IF is_icon THEN k - 1 ELSE image)
                PROVE  Kept(k)'
    <3>1. \A k : /\ Agrees(icondir[k], Images[k])' <=> Agrees(icondir[k], Images[k])
                 /\ NonemptyTo(k)' <=> NonemptyTo(k)
      BY <1>1, <1>2 DEF Agrees, NonemptyTo
    <3>. QED
      BY <1>1, <1>2, <1>8, <3>1 DEF KeptWhole
  <2>1. is_icon /\ k # image
    BY <1>1, <1>4, <1>10
  <2>2. k \in 1..(image - 1)
    BY <1>4, <2>1
  <2>3. Kept(k)
    BY <1>7, <2>1, <2>2 DEF KeptWhole
  <2>4. k + skipped' < image'
    <3>1. k + skipped < image
      BY <2>3 DEF Kept
    <3>. QED
      BY <1>1, <1>4, <2>2, <3>1
  <2>. QED
    BY <1>1, <1>2, <2>3, <2>4 DEF Kept, vars, output, HasEntry, check_offset
<1>14. ExtractTypeOK' /\ Stage'
  BY <1>1, <1>2, <1>4 DEF GroupInv, ExtractTypeOK, Stage, vars, request
<1>. QED
  BY <1>1, <1>2, <1>3, <1>4, <1>7, <1>9, <1>12, <1>13, <1>14
  DEF GroupInv, AlreadyCopied, request, output

LEMMA GroupDoneInv == ASSUME GroupInv, GroupDone PROVE GroupInv'
<1>1. /\ job = "copy" /\ job' = "written" /\ image > count
      /\ UNCHANGED <<vars, request, icondir, image, skipped, output>>
  BY DEF GroupDone, Finish
<1>2. /\ Images' = Images /\ Rooms' = Rooms /\ Empties' = Empties /\ Stunted' = Stunted
      /\ count' = count /\ HasEntry(wr)' = HasEntry(wr) /\ AsTheFile'
      /\ is_icon' = is_icon /\ HotspotRoom' = HotspotRoom /\ SpareSuffices' = SpareSuffices
  BY <1>1, SameGroup DEF GroupInv
<1>3. Inv'
  BY <1>1, NextInv DEF GroupInv
<1>4. kind = "group" /\ image = count + 1 /\ ExtractTypeOK /\ HasEntry(wr)
  <2>1. image \in 1..(count + 1) /\ count \in Nat
    BY ImagesType DEF GroupInv, Inv, ExtractTypeOK
  <2>. QED
    BY <1>1, <2>1 DEF GroupInv, Stage
<1>5. Copying'
  <2>1. Copying
    BY <1>1 DEF GroupInv, AlreadyCopied
  <2>2. \A x : Base(x)' = Base(x)
    BY <1>2 DEF Base
  <2>. QED
    BY <1>1, <1>2, <2>1, <2>2 DEF Copying, output, request
<1>6. Forward'
  BY <1>1, <1>2 DEF GroupInv, AlreadyCopied, Forward, NonemptyTo, output
<1>7. SpareSuffices' => KeptWhole'
  <2>1. \A k : /\ Kept(k)' <=> Kept(k)
               /\ Agrees(icondir[k], Images[k])' <=> Agrees(icondir[k], Images[k])
               /\ NonemptyTo(k)' <=> NonemptyTo(k)
    BY <1>1, <1>2 DEF Kept, Agrees, NonemptyTo, vars, output, HasEntry, check_offset
  <2>2. SpareSuffices => KeptWhole
    BY <1>1 DEF GroupInv, AlreadyCopied
  <2>. QED
    BY <1>1, <1>2, <2>1, <2>2 DEF KeptWhole
<1>8. ExtractTypeOK' /\ Stage'
  BY <1>1, <1>2, <1>4 DEF GroupInv, ExtractTypeOK, Stage, vars, request
<1>9. DOMAIN out' = 0..(outsize' - 1)
  BY <1>1 DEF GroupInv, AlreadyCopied, output
<1>. QED
  BY <1>1, <1>2, <1>3, <1>4, <1>5, <1>6, <1>7, <1>8, <1>9
  DEF GroupInv, AlreadyCopied, request

LEMMA GroupNextInv == GroupInv /\ [GroupNext]_allVars => GroupInv'
<1>. SUFFICES ASSUME GroupInv, [GroupNext]_allVars PROVE GroupInv'
  OBVIOUS
<1>1. CASE Next /\ UNCHANGED extractVars
  BY <1>1, LibraryStepInv
<1>2. CASE Start
  BY <1>2, StartInv
<1>3. CASE ExtractRaw \/ NoResource \/ ExtractBitmap \/ BitmapKills \/ NoCount \/ ImageFails
  BY <1>3, EndInv
<1>4. CASE OpenGroup
  BY <1>4, OpenGroupInv
<1>5. CASE MeasureImage
  BY <1>5, MeasureImageInv
<1>6. CASE Allocate
  BY <1>6, AllocateInv
<1>7. CASE CopyImage
  BY <1>7, CopyImageInv
<1>8. CASE SkipEmpty
  BY <1>8, SkipEmptyInv
<1>9. CASE GroupDone
  BY <1>9, GroupDoneInv
<1>10. CASE UNCHANGED allVars
  <2>1. UNCHANGED <<vars, request, icondir>> /\ UNCHANGED <<job, image, skipped, output>>
    BY <1>10 DEF allVars, extractVars
  <2>2. /\ Images' = Images /\ Rooms' = Rooms /\ Empties' = Empties /\ Stunted' = Stunted
        /\ count' = count /\ HasEntry(wr)' = HasEntry(wr) /\ AsTheFile'
        /\ is_icon' = is_icon /\ HotspotRoom' = HotspotRoom /\ SpareSuffices' = SpareSuffices
    BY <2>1, SameGroup DEF GroupInv
  <2>3. \A k : /\ Kept(k)' <=> Kept(k)
               /\ Agrees(icondir[k], Images[k])' <=> Agrees(icondir[k], Images[k])
               /\ NonemptyTo(k)' <=> NonemptyTo(k)
    BY <2>1, <2>2 DEF Kept, Agrees, NonemptyTo, vars, output, HasEntry, check_offset
  <2>12. \A x : Base(x)' = Base(x)
    BY <2>2 DEF Base
  <2>13. /\ offset' = offset /\ reach' = reach /\ outsize' = outsize /\ wr' = wr
         /\ image' = image /\ skipped' = skipped /\ fileicondir' = fileicondir
    BY <2>1 DEF output, request
  <2>4. Copying' <=> Copying
    BY <2>2, <2>12, <2>13 DEF Copying
  <2>5. Measuring' <=> Measuring
    BY <2>1, <2>2 DEF Measuring, output, request
  <2>6. Forward' <=> Forward
    BY <2>1, <2>2, <2>3 DEF Forward, output
  <2>7. KeptWhole' <=> KeptWhole
    <3>1. image' = image /\ is_icon' = is_icon /\ Images' = Images
      BY <2>1, <2>2
    <3>. QED
      BY <2>3, <3>1 DEF KeptWhole
  <2>8. Inv'
    BY <2>1, NextInv DEF GroupInv
  <2>9. ExtractTypeOK' /\ Stage'
    BY <2>1, <2>2 DEF GroupInv, ExtractTypeOK, Stage, vars, request
  <2>10. /\ (AlreadyCopied' <=> AlreadyCopied) /\ job' = job /\ kind' = kind
         /\ out' = out /\ outsize' = outsize /\ memory' = memory /\ wr' = wr /\ image' = image
    BY <2>1 DEF AlreadyCopied, request, output, vars
  <2>11. Bytes(wr.at, wr.size)' = Bytes(wr.at, wr.size)
    BY <2>10 DEF Bytes
  <2>. QED
    BY <2>2, <2>4, <2>5, <2>6, <2>7, <2>8, <2>9, <2>10, <2>11 DEF GroupInv
<1>. QED
  BY <1>1, <1>2, <1>3, <1>4, <1>5, <1>6, <1>7, <1>8, <1>9, <1>10
  DEF GroupNext, Extraction

LEMMA GroupAlways == GroupSpec => []GroupInv
BY GroupInitInv, GroupNextInv, PTL DEF GroupSpec

-----------------------------------------------------------------------------
(* The theorems.                                                           *)

(* extract_group_icon_cursor_resource() writes nothing behind the memory   *)
(* it has allocated, for a group of any number of images of any size: of   *)
(* icons, and of cursors if the size of the group itself, which is         *)
(* allocated and not used, is four bytes or more for each cursor too small *)
(* to have a hot spot taken off.                                           *)
THEOREM GroupsAreWithinBounds == GroupSpec => []InBounds
<1>1. GroupInv => InBounds
  <2>. SUFFICES ASSUME GroupInv, job \in {"copy", "written"}, kind = "group", SpareSuffices
                PROVE  reach <= outsize
    BY DEF InBounds
  <2>1. Copying /\ TypeOK /\ ExtractTypeOK /\ job # "none"
    BY DEF GroupInv, AlreadyCopied, Inv
  <2>2. PICK r, e, s : /\ Sums(r, e, s, count, Rooms, Empties, Stunted)
                       /\ outsize = wr.size + r[count] + Base(e[count])
                       /\ reach <= Base(e[count]) + r[image - 1] + s[image - 1]
    BY <2>1 DEF Copying
  <2>3. count \in Nat /\ image - 1 \in 0..count /\ reach \in Int /\ wr.size \in Nat
    <3>1. count \in Nat
      BY <2>1, ImagesType
    <3>2. image - 1 \in 0..count
      BY <2>1, <3>1 DEF ExtractTypeOK
    <3>. QED
      BY <2>1, <3>1, <3>2, NodeType DEF ExtractTypeOK, Copying
  <2>4. e[count] \in Nat
    BY <2>2, <2>3, SumsBound
  <2>5. PICK base \in Int : base = Base(e[count])
    BY <2>3, <2>4 DEF Base, SizeofIconDir, SizeofFileDirEntry
  <2>6. reach <= base + r[image - 1] + s[image - 1]
    BY <2>2, <2>5
  <2>7. reach <= wr.size + r[count] + base
    BY <2>1, <2>2, <2>3, <2>6, WithinAllocated
  <2>. QED
    BY <2>2, <2>5, <2>7
<1>. QED
  BY <1>1, GroupAlways, PTL

(* How much memory a loaded library has.                                   *)
MemoryInv ==
  /\ IF c = 0 THEN size = 0 ELSE \E i \in 1..c : size = End(sections[i])
  /\ pc \in {"relocate", "loaded"} /\ library.headers = "PE" =>
       /\ c = Len(sections)
       /\ total_size = IF sections = <<>> THEN library.size ELSE size
  /\ pc = "loaded" => library.headers \in {"NE", "PE"}

LEMMA MemoryInitInv == Init => MemoryInv
BY DEF Init, MemoryInv

LEMMA MemoryNextInv ==
  ASSUME Inv, MemoryInv, [Next]_vars
  PROVE  MemoryInv'
<1>1. TypeOK /\ c \in Nat /\ Len(sections) \in Nat /\ size \in Nat
  BY LibraryType DEF Inv, TypeOK
<1>2. CASE Measure
  <2>1. /\ c' = c + 1 /\ size' = Larger(size, End(sections[c + 1])) /\ c + 1 \in DOMAIN sections
        /\ UNCHANGED <<library, total_size, pc>> /\ pc = "measure"
    BY <1>1, <1>2, LibraryType DEF Measure
  <2>2. End(sections[c + 1]) \in Nat
    BY <1>1, <2>1, EndType
  <2>3. sections' = sections
    BY <2>1 DEF sections
  <2>4. \E i \in 1..(c + 1) : size' = End(sections[i])
    <3>1. CASE size' = End(sections[c + 1])
      BY <1>1, <3>1
    <3>2. CASE size' = size /\ size > End(sections[c + 1])
      <4>1. c # 0 /\ \A i \in 1..c : i \in 1..(c + 1)
        BY <1>1, <2>2, <3>2 DEF MemoryInv
      <4>. QED
        BY <3>2, <4>1 DEF MemoryInv
    <3>. QED
      BY <2>1, <3>1, <3>2 DEF Larger
  <2>. QED
    BY <1>1, <2>1, <2>3, <2>4 DEF MemoryInv
<1>3. CASE Extend
  <2>1. /\ c = Len(sections) /\ total_size' = VmaSize /\ pc = "measure"
        /\ pc' \in {"refused", "relocate"} /\ UNCHANGED <<library, c, size>>
    BY <1>3 DEF Extend
  <2>2. total_size = library.size
    BY <2>1 DEF Inv, AsRead
  <2>. QED
    BY <2>1, <2>2 DEF MemoryInv, VmaSize, sections
<1>4. CASE RefuseHeaders \/ AcceptNE \/ AcceptPE
  BY <1>4 DEF RefuseHeaders, AcceptNE, AcceptPE, MemoryInv, sections
<1>5. CASE SkipUninitialized \/ MoveSection
  BY <1>5 DEF SkipUninitialized, MoveSection, MemoryInv, sections
<1>6. CASE RefuseSection \/ FindResources
  <2>1. library.headers = "PE"
    BY <1>6 DEF RefuseSection, FindResources, Inv
  <2>. QED
    BY <1>6, <2>1 DEF RefuseSection, FindResources, MemoryInv, sections
<1>7. CASE UNCHANGED vars
  BY <1>7 DEF vars, MemoryInv, sections
<1>. QED
  BY <1>2, <1>3, <1>4, <1>5, <1>6, <1>7 DEF Next

LEMMA MemoryAlways == GroupSpec => [](GroupInv /\ MemoryInv)
<1>1. GroupInit => GroupInv /\ MemoryInv
  BY GroupInitInv, MemoryInitInv DEF GroupInit
<1>2. GroupInv /\ MemoryInv /\ [GroupNext]_allVars => (GroupInv /\ MemoryInv)'
  <2>. SUFFICES ASSUME GroupInv, MemoryInv, [GroupNext]_allVars
                PROVE  MemoryInv'
    BY GroupNextInv
  <2>1. [Next]_vars
    BY DEF GroupNext, Extraction, allVars, Start, ExtractRaw, NoResource, ExtractBitmap,
           BitmapKills, OpenGroup, NoCount, ImageFails, MeasureImage, Allocate,
           CopyImage, SkipEmpty, GroupDone, Finish, Fail
  <2>. QED
    BY <2>1, MemoryNextInv DEF GroupInv
<1>. QED
  BY <1>1, <1>2, PTL DEF GroupSpec

(* What is in memory of a resource is what the file has of it.             *)
LEMMA FromTheFile ==
  ASSUME ResourcesInSections, GroupInv, MemoryInv,
         pc = "loaded", library.headers = "PE" => InOrder,
         NEW node \in Nodes(library.contents.table), HasEntry(node),
         NEW h \in 0..4, NEW p \in 0..(node.size - h - 1)
  PROVE  memory[node.at + h + p] = Origin(node.at + h) + p
<1>1. /\ node.size \in Nat /\ node.at \in Nat /\ node.size > 0
      /\ node.at + node.size <= total_size
      /\ TypeOK /\ total_size \in Nat
  <2>1. TypeOK /\ total_size \in Nat
    BY DEF GroupInv, Inv, TypeOK
  <2>2. node.size \in Nat /\ node.at \in Nat
    BY <2>1, NodeType DEF HasEntry
  <2>. QED
    BY <2>1, <2>2 DEF HasEntry, check_offset
<1>2. CASE library.headers # "PE"
  <2>1. AsRead /\ library.headers = "NE"
    BY <1>2 DEF GroupInv, AsTheFile, MemoryInv
  <2>2. node.at + h + p \in 0..(library.size - 1)
    BY <1>1, <2>1 DEF AsRead
  <2>3. memory[node.at + h + p] = node.at + h + p
    BY <2>1, <2>2 DEF AsRead
  <2>. QED
    BY <1>1, <2>1, <2>3 DEF Origin
<1>3. CASE library.headers = "PE"
  <2>1. InOneSection(library, node)
    <3>1. library \in Libraries /\ node.at # NoEntry
      BY <1>1 DEF TypeOK, HasEntry
    <3>2. SUFFICES ASSUME OutOfMemory(library, node) PROVE FALSE
      BY <1>1, <1>3, <3>1 DEF ResourcesInSections
    <3>3. CASE sections = <<>>
      <4>1. total_size = library.size
        BY <1>3, <3>3 DEF MemoryInv
      <4>2. library.size < node.at + node.size
        BY <3>2, <3>3 DEF OutOfMemory, sections
      <4>. QED
        BY <1>1, <4>1, <4>2
    <3>4. CASE sections # <<>>
      <4>1. total_size = size /\ c = Len(sections) /\ c # 0
        BY <1>1, <1>3, <3>4, LibraryType DEF MemoryInv
      <4>2. PICK i \in 1..c : total_size = End(sections[i])
        BY <4>1 DEF MemoryInv
      <4>3. i \in DOMAIN sections
        BY <1>1, <4>1, <4>2, LibraryType
      <4>4. End(sections[i]) < node.at + node.size
        BY <3>2, <4>3 DEF OutOfMemory, sections
      <4>. QED
        BY <1>1, <4>2, <4>4
    <3>. QED
      BY <3>3, <3>4
  <2>2. PICK i \in DOMAIN sections :
          /\ ~sections[i].uninitialized
          /\ sections[i].virtual_address <= node.at
          /\ node.at + node.size <= sections[i].virtual_address + sections[i].size_of_raw_data
    BY <2>1 DEF InOneSection, sections
  <2>. DEFINE va == sections[i].virtual_address
              raw == sections[i].pointer_to_raw_data
              n == sections[i].size_of_raw_data
              at == node.at + h
  <2>3. va \in Nat /\ raw \in Nat /\ n \in Nat
    BY <1>1, <2>2, SectionType
  <2>4. i \in WithData /\ at \in Nat /\ va <= at /\ at < va + n
    BY <1>1, <2>2, <2>3 DEF WithData
  <2>5. InPlace(sections[i]) /\ InOrder
    BY <1>3, <2>4 DEF GroupInv, Inv, Relocated
  <2>6. ASSUME NEW s \in WithData,
               sections[s].virtual_address <= at,
               at < sections[s].virtual_address + sections[s].size_of_raw_data
        PROVE  s = i
    <3>1. /\ s \in DOMAIN sections /\ s \in Int /\ i \in Int
          /\ sections[s].virtual_address \in Nat /\ sections[s].size_of_raw_data \in Nat
      <4>1. s \in DOMAIN sections
        BY <2>6 DEF WithData
      <4>2. s \in Int /\ i \in Int
        BY <1>1, <2>2, <4>1, LibraryType
      <4>. QED
        BY <1>1, <4>1, <4>2, SectionType
    <3>2. s < i => sections[s].virtual_address + sections[s].size_of_raw_data <= va
      BY <2>4, <2>5, <2>6 DEF InOrder
    <3>3. i < s => va + n <= sections[s].virtual_address
      BY <2>4, <2>5, <2>6 DEF InOrder
    <3>. QED
      BY <2>3, <2>4, <2>6, <3>1, <3>2, <3>3
  <2>7. Origin(at) = at - va + raw
    <3>. DEFINE s == CHOOSE k \in WithData :
                       /\ sections[k].virtual_address <= at
                       /\ at < sections[k].virtual_address + sections[k].size_of_raw_data
    <3>1. s = i
      BY <2>4, <2>6
    <3>2. Origin(at) = at - sections[s].virtual_address + sections[s].pointer_to_raw_data
      BY <1>3 DEF Origin
    <3>. HIDE DEF s
    <3>. QED
      BY <3>1, <3>2
  <2>8. PICK q \in 0..(n - 1) : q = at + p - va
    BY <1>1, <2>2, <2>3, <2>4
  <2>9. memory[va + q] = raw + q
    BY <2>5, <2>8 DEF InPlace
  <2>10. va + q = node.at + h + p /\ raw + q = Origin(at) + p
    <3>1. va + q = node.at + h + p
      BY <1>1, <2>3, <2>8
    <3>2. at \in Int
      BY <2>4
    <3>. HIDE DEF at, va, raw
    <3>3. raw + q = Origin(at) + p
      BY <2>3, <2>7, <2>8, <3>2
    <3>. QED
      BY <3>1, <3>3
  <2>. QED
    BY <2>9, <2>10
<1>. QED
  BY <1>2, <1>3

(* What wrestool extracts is what the file has, of resources, bitmaps and  *)
(* groups of any number of images, if no resource lies across the ends of  *)
(* sections: of a group, each image that the group tells the size of       *)
(* right, whatever it tells of the others, unless one of them is empty.    *)
THEOREM ExtractedAsInTheFile ==
  ASSUME ResourcesInSections
  PROVE  GroupSpec => []ExtractsWhole
<1>1. GroupInv /\ MemoryInv => ExtractsWhole
  <2>. SUFFICES ASSUME GroupInv, MemoryInv, job = "written",
                       library.headers = "PE" => InOrder
                PROVE  CASE kind = "raw" -> Holds(0, wr.at, wr.size)
                         [] kind = "bitmap" -> Holds(SizeofBitmapFileHeader, wr.at, wr.size)
                         [] kind = "group" /\ SpareSuffices ->
                              \A c1 \in DOMAIN icondir :
                                /\ Agrees(icondir[c1], ImageOf(icondir[c1]))
                                /\ \A b \in 1..(IF is_icon THEN c1 - 1 ELSE count) :
                                     ImageOf(icondir[b]).size > 0
                                => LET h == IF is_icon THEN 0 ELSE SizeofHotspot
                                       node == ImageOf(icondir[c1])
                                   IN  Holds(fileicondir[c1].dib_offset, node.at + h, node.size - h)
                         [] OTHER -> TRUE
    BY DEF ExtractsWhole
  <2>1. /\ pc = "loaded" /\ HasEntry(wr) /\ wr \in Nodes(library.contents.table)
        /\ TypeOK /\ ExtractTypeOK
    BY DEF GroupInv, ExtractTypeOK, Stage, Inv
  <2>2. wr.size \in Nat /\ wr.at \in Nat
    BY <2>1, NodeType DEF HasEntry
  <2>3. ASSUME NEW p \in 0..(wr.size - 1)
        PROVE  memory[wr.at + p] = Origin(wr.at) + p
    <3>1. p \in 0..(wr.size - 0 - 1) /\ 0 \in 0..4 /\ wr.at + 0 = wr.at
      BY <2>2
    <3>. QED
      BY <2>1, <3>1, FromTheFile
  <2>4. CASE kind = "raw"
    <3>1. out = Bytes(wr.at, wr.size)
      BY <2>4 DEF GroupInv
    <3>2. Holds(0, wr.at, wr.size)
      BY <2>3, <3>1 DEF Holds, Bytes
    <3>. QED
      BY <2>4, <3>2
  <2>5. CASE kind = "bitmap"
    <3>1. out = Headed(memory, wr.at, SizeofBitmapFileHeader + wr.size)
      BY <2>5 DEF GroupInv
    <3>2. ASSUME NEW p \in 0..(wr.size - 1)
          PROVE  out[SizeofBitmapFileHeader + p] = memory[wr.at + p]
      <4>1. PICK q \in 0..(SizeofBitmapFileHeader + wr.size - 1) :
              q = SizeofBitmapFileHeader + p /\ ~(q < SizeofBitmapFileHeader)
        BY <2>2 DEF SizeofBitmapFileHeader
      <4>2. wr.at + q - SizeofBitmapFileHeader = wr.at + p
        BY <2>2, <4>1 DEF SizeofBitmapFileHeader
      <4>3. out[q] = memory[wr.at + q - SizeofBitmapFileHeader]
        BY <2>2, <3>1, <4>1 DEF Headed, SizeofBitmapFileHeader
      <4>. QED
        BY <4>1, <4>2, <4>3
    <3>3. Holds(SizeofBitmapFileHeader, wr.at, wr.size)
      BY <2>3, <3>2 DEF Holds
    <3>. QED
      BY <2>5, <3>3
  <2>6. CASE kind = "group" /\ SpareSuffices
    <3>. SUFFICES ASSUME NEW k \in DOMAIN icondir,
                         Agrees(icondir[k], Images[k]),
                         NonemptyTo(IF is_icon THEN k - 1 ELSE count)
                  PROVE  Holds(fileicondir[k].dib_offset, Images[k].at + HotspotRoom,
                               Images[k].size - HotspotRoom)
      <4>1. DOMAIN icondir = 1..count /\ count \in Nat
        BY <2>1, ImagesType
      <4>2. \A k \in DOMAIN icondir : Images[k] = ImageOf(icondir[k])
        BY DEF Images
      <4>3. ASSUME NEW k \in DOMAIN icondir,
                   \A b \in 1..(IF is_icon THEN k - 1 ELSE count) : ImageOf(icondir[b]).size > 0
            PROVE  NonemptyTo(IF is_icon THEN k - 1 ELSE count)
        <5>1. \A b \in 1..(IF is_icon THEN k - 1 ELSE count) : b \in DOMAIN icondir
          BY <4>1
        <5>. QED
          BY <4>2, <4>3, <5>1 DEF NonemptyTo
      <4>. QED
        BY <2>6, <4>2, <4>3 DEF HotspotRoom
    <3>1. /\ k \in 1..count /\ image = count + 1 /\ count \in Nat
          /\ Images[k].size \in Nat /\ Images[k].at \in Int /\ HotspotRoom \in 0..4
          /\ Images[k] \in Nodes(library.contents.table) \cup {NoNode}
      <4>1. image = count + 1
        BY <2>6 DEF GroupInv
      <4>. QED
        BY <2>1, <4>1, ImagesType DEF NoEntry
    <3>2. CASE Images[k].size = 0
      <4>1. HotspotRoom = 0
        BY <3>2 DEF Agrees, SizeofHotspot, HotspotRoom
      <4>. QED
        BY <3>2, <4>1 DEF Holds
    <3>3. CASE Images[k].size > 0
      <4>1. KeptWhole /\ k \in 1..(image - 1) /\ image - 1 = count
        BY <2>6, <3>1 DEF GroupInv, AlreadyCopied
      <4>2. Kept(k)
        BY <3>3, <4>1 DEF KeptWhole
      <4>3. HasEntry(Images[k]) /\ Images[k] \in Nodes(library.contents.table)
        BY <3>1, <4>2 DEF Kept, HasEntry, NoNode
      <4>4. ASSUME NEW p \in 0..(Images[k].size - HotspotRoom - 1)
            PROVE  out[fileicondir[k].dib_offset + p] = Origin(Images[k].at + HotspotRoom) + p
        <5>1. out[fileicondir[k].dib_offset + p] = memory[Images[k].at + HotspotRoom + p]
          BY <4>2 DEF Kept
        <5>2. memory[Images[k].at + HotspotRoom + p] = Origin(Images[k].at + HotspotRoom) + p
          BY <2>1, <3>1, <4>3, FromTheFile
        <5>. QED
          BY <5>1, <5>2
      <4>. QED
        BY <4>4 DEF Holds
    <3>. QED
      BY <3>1, <3>2, <3>3
  <2>. QED
    BY <2>4, <2>5, <2>6
<1>. QED
  BY <1>1, MemoryAlways, PTL

=============================================================================

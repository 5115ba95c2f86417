------------------------------ MODULE WinLibrary ------------------------------
(***************************************************************************)
(* wrestool/restable.c, read_library(): a file in memory is identified as  *)
(* a 16-bit (NE) or 32-bit (PE) library.  Of a PE library the sections are *)
(* then moved, within the same memory made larger, from where they are in  *)
(* the file to the addresses where Windows would load them.                *)
(*                                                                         *)
(* A byte of memory is the offset in the file that it comes from.          *)
(***************************************************************************)
EXTENDS Integers, Sequences

CONSTANTS
  Libraries,
  Contents,       \* what a library may hold, for those who look into it
  HeaderSize      \* up to the end of the section table

Junk == -1        \* what xrealloc() leaves in new memory

(* cut: the file ends within the headers; stub: the MZ header is too short *)
(* to lead to another; other: neither signature is found.                  *)
Section ==
  [virtual_address : Nat, virtual_size : Nat,
   pointer_to_raw_data : Nat, size_of_raw_data : Nat, uninitialized : BOOLEAN]

Library ==
  [headers : {"other", "stub", "cut", "NE", "PE"},
   tables : BOOLEAN,          \* NE: there is a resource table
   resources : BOOLEAN,       \* PE: there is a resource directory
   size : Nat \ {0},          \* main() passes no empty file on
   sections : Seq(Section),
   contents : Contents]

(* Of no file is a section loaded over the headers.                        *)
ASSUME LibrariesAssumption == Libraries \subseteq Library
ASSUME SectionsAssumption ==
  \A l \in Libraries : \A i \in DOMAIN l.sections :
    l.sections[i].virtual_address >= HeaderSize
ASSUME HeaderSizeAssumption == HeaderSize \in Nat \ {0}

VARIABLES
  library,        \* the file
  memory, total_size,
  c, size,        \* of calc_vma_size()'s loop
  d,              \* sections before and at this one are yet to be moved
  pc

vars == <<library, memory, total_size, c, size, d, pc>>

Init ==
  /\ library \in Libraries
  /\ memory = [p \in 0..(library.size - 1) |-> p]
  /\ total_size = library.size
  /\ c = 0 /\ size = 0
  /\ d = 0
  /\ pc = "read"

-----------------------------------------------------------------------------
sections == library.sections

check_offset(block, n) == block < total_size /\ block + n <= total_size

RefuseHeaders ==
  /\ pc = "read"
  /\ \/ library.headers \in {"other", "stub", "cut"}
     \/ library.headers = "NE" /\ ~library.tables
  /\ pc' = "refused"
  /\ UNCHANGED <<library, memory, total_size, c, size, d>>

AcceptNE ==
  /\ pc = "read"
  /\ library.headers = "NE" /\ library.tables
  /\ pc' = "loaded"
  /\ UNCHANGED <<library, memory, total_size, c, size, d>>

AcceptPE ==
  /\ pc = "read"
  /\ library.headers = "PE"
  /\ pc' = "measure"
  /\ UNCHANGED <<library, memory, total_size, c, size, d>>

(* calc_vma_size().                                                        *)
Larger(m, n) == IF m > n THEN m ELSE n

(* Mutant: only the size in memory counts.                                 *)
VirtualEnd(s) == s.virtual_address + s.virtual_size
End(s) ==
  s.virtual_address + Larger(s.size_of_raw_data, s.virtual_size)

Measure ==
  /\ pc = "measure" /\ c < Len(sections)
  /\ size' = Larger(size, End(sections[c + 1]))
  /\ c' = c + 1
  /\ UNCHANGED <<library, memory, total_size, d, pc>>

VmaSize == IF sections = <<>> THEN total_size ELSE size

(* Mutant: the memory stays as it was.                                     *)
ExtendOnPaper ==
  /\ pc = "measure" /\ c = Len(sections)
  /\ total_size' = VmaSize
  /\ d' = Len(sections)
  /\ pc' = IF VmaSize < HeaderSize THEN "refused" ELSE "relocate"
  /\ UNCHANGED <<library, memory, c, size>>

Extend ==
  /\ pc = "measure" /\ c = Len(sections)
  /\ total_size' = VmaSize
  /\ memory' = [p \in 0..(VmaSize - 1) |->
                  IF p < total_size THEN memory[p] ELSE Junk]
  /\ d' = Len(sections)
  /\ pc' = IF VmaSize < HeaderSize THEN "refused" ELSE "relocate"
  /\ UNCHANGED <<library, c, size>>

-----------------------------------------------------------------------------
(* The sections, from the last.                                            *)

(* Mutant: from the first.                                                 *)
CurrentFromFirst == sections[Len(sections) + 1 - d]
Current == sections[d]

SkipUninitialized ==
  /\ pc = "relocate" /\ d > 0
  /\ Current.uninitialized
  /\ d' = d - 1
  /\ UNCHANGED <<library, memory, total_size, c, size, pc>>

Fits(s) ==
  /\ check_offset(s.virtual_address, s.size_of_raw_data)
  /\ check_offset(s.pointer_to_raw_data, s.size_of_raw_data)

Moved(s) ==
  [p \in DOMAIN memory |->
     IF p \in s.virtual_address..(s.virtual_address + s.size_of_raw_data - 1)
     THEN memory[p - s.virtual_address + s.pointer_to_raw_data]
     ELSE memory[p]]

MoveSection ==
  /\ pc = "relocate" /\ d > 0
  /\ ~Current.uninitialized
  /\ Fits(Current)
  /\ memory' = Moved(Current)
  /\ d' = d - 1
  /\ UNCHANGED <<library, total_size, c, size, pc>>

RefuseSection ==
  /\ pc = "relocate" /\ d > 0
  /\ ~Current.uninitialized
  /\ ~Fits(Current)
  /\ pc' = "refused"
  /\ UNCHANGED <<library, memory, total_size, c, size, d>>

FindResources ==
  /\ pc = "relocate" /\ d = 0
  /\ pc' = IF library.resources THEN "loaded" ELSE "refused"
  /\ UNCHANGED <<library, memory, total_size, c, size, d>>

Next ==
  \/ RefuseHeaders \/ AcceptNE \/ AcceptPE \/ Measure \/ Extend
  \/ SkipUninitialized \/ MoveSection \/ RefuseSection \/ FindResources

Spec == Init /\ [][Next]_vars

-----------------------------------------------------------------------------
(* Properties.                                                             *)

(* The memory is as large as every bounds check takes it to be.            *)
TypeOK ==
  /\ library \in Libraries
  /\ total_size \in Nat
  /\ memory \in [0..(total_size - 1) -> Nat \cup {Junk}]
  /\ c \in 0..Len(sections) /\ size \in Nat
  /\ d \in 0..Len(sections)
  /\ pc \in {"read", "measure", "relocate", "loaded", "refused"}

(* The sections with data of their own, which linkers lay out in the order *)
(* of their addresses, and in memory no more closely than in the file.     *)
WithData ==
  {i \in DOMAIN sections :
     ~sections[i].uninitialized /\ sections[i].size_of_raw_data > 0}

InOrder ==
  \A i \in WithData :
    /\ sections[i].pointer_to_raw_data <= sections[i].virtual_address
    /\ sections[i].pointer_to_raw_data + sections[i].size_of_raw_data
         <= library.size
    /\ \A j \in WithData :
         i < j =>
           /\ sections[i].pointer_to_raw_data + sections[i].size_of_raw_data
                <= sections[j].pointer_to_raw_data
           /\ sections[i].virtual_address + sections[i].size_of_raw_data
                <= sections[j].virtual_address

InPlace(s) ==
  \A p \in 0..(s.size_of_raw_data - 1) :
    memory[s.virtual_address + p] = s.pointer_to_raw_data + p

(* Moving a section overwrites neither what is yet to be moved nor what    *)
(* has been: in a loaded PE library every section holds its own data.      *)
Relocated ==
  pc = "loaded" /\ library.headers = "PE" /\ InOrder =>
    \A i \in WithData : InPlace(sections[i])

(* No library that a linker makes is refused: the memory that              *)
(* calc_vma_size() asks for has room for every section, before and after   *)
(* it is moved.                                                            *)
WellFormedIsLoaded ==
  pc = "refused" =>
    \/ library.headers \in {"other", "stub", "cut"}
    \/ library.headers = "NE" /\ ~library.tables
    \/ library.headers = "PE" /\
         \/ ~library.resources
         \/ ~InOrder
         \/ library.size < HeaderSize
         \/ \E i \in DOMAIN sections :
              \/ sections[i].pointer_to_raw_data > sections[i].virtual_address
              \/ sections[i].size_of_raw_data = 0 /\ sections[i].virtual_size = 0
=============================================================================

------------------------------ MODULE GroupIcon ------------------------------
(***************************************************************************)
(* wrestool/extract.c: a resource of a loaded library is extracted, as it  *)
(* is, as a bitmap file, or, if it is a group of icons or cursors, as the  *)
(* icon or cursor file made of the images the group names, which are       *)
(* resources of their own.                                                 *)
(*                                                                         *)
(* A resource table is a tree of listings.  A node of it is                *)
(*   id          <<"n", number>>, <<"s", name>>, or Undecodable            *)
(*   directory   whether children are a listing, else there are none       *)
(*   at, size    of a resource: its place in memory, and its size; NoEntry *)
(*               for "at" if the entry that holds them is out of bounds    *)
(* The languages are numbers.  The contents of a library are its table,    *)
(* and the entries of its groups and the headers of its bitmaps, by their  *)
(* places in the file.                                                     *)
(***************************************************************************)
EXTENDS WinLibrary, SequencesExt

NoEntry == -1
Undecodable == <<"?", 0>>
RT_CURSOR == <<"n", 1>>
RT_BITMAP == <<"n", 2>>
RT_ICON == <<"n", 3>>
RT_GROUP_CURSOR == <<"n", 12>>
RT_GROUP_ICON == <<"n", 14>>

SizeofIconDir == 6
SizeofIconDirEntry == 14
SizeofFileDirEntry == 16
SizeofHotspot == 4
SizeofBitmapFileHeader == 14
SizeofBitmapInfoHeader == 40

(* The nodes of a table down to its languages.                             *)
Nodes(table) ==
  LET top == ToSet(table)
      below(S) == UNION {ToSet(n.children) : n \in S}
  IN  top \cup below(top) \cup below(below(top))

(* Places, sizes and numbers are of 16 or 32 bits, without a sign.         *)
ASSUME NodesAssumption ==
  \A k \in Contents :
    /\ k.table \in Seq(ToSet(k.table))
    /\ \A n \in Nodes(k.table) : /\ n.children \in Seq(ToSet(n.children))
                                 /\ n.size \in Nat
                                 /\ n.at \in Nat \cup {NoEntry}
ASSUME IcondirsAssumption ==
  \A k \in Contents : \A at \in DOMAIN k.icondirs :
    k.icondirs[at] \in Seq([res_id : Nat, bytes_in_res : Nat])

VARIABLES
  job,               \* what is being done
  kind,              \* the way the resource is extracted
  type, lang, wr,    \* the resource
  icondir,           \* the group's entries
  image,             \* the entry of the group reached
  skipped, offset,
  outsize, out,      \* the file made, a byte being where it comes from
  fileicondir,       \* its directory
  reach              \* history: where what is written of it ends

request == <<kind, type, lang, wr>>
output == <<offset, outsize, out, fileicondir, reach>>
extractVars == <<job, request, icondir, image, skipped, output>>
allVars == <<vars, extractVars>>

NoNode == [id |-> Undecodable, directory |-> FALSE, children |-> <<>>,
           at |-> NoEntry, size |-> 0]

GroupInit ==
  /\ Init
  /\ job = "none"
  /\ kind = "none" /\ type = RT_ICON /\ lang = RT_ICON /\ wr = NoNode
  /\ icondir = <<>>
  /\ image = 1
  /\ skipped = 0 /\ offset = 0
  /\ outsize = 0 /\ out = <<>> /\ fileicondir = <<>>
  /\ reach = 0

-----------------------------------------------------------------------------
(* restable.c: finding a resource.                                         *)

(* One id that cannot be decoded hides the whole listing.                  *)
list_resources(listing) ==
  IF \E k \in DOMAIN listing : listing[k].id = Undecodable THEN <<>> ELSE listing

(* The first that matches.                                                 *)
find_with_resource_array(listing, id) ==
  LET nodes == list_resources(listing)
      found == {k \in DOMAIN nodes : nodes[k].id = id}
  IN  IF found = {} THEN NoNode ELSE nodes[CHOOSE k \in found : \A j \in found : k <= j]

(* By type, name and language, or as far as there are directories.         *)
find_resource(t, n, l) ==
  LET deeper(node, id) ==
        IF node.directory THEN find_with_resource_array(node.children, id) ELSE node
  IN  deeper(deeper(find_with_resource_array(library.contents.table, t), n), l)

(* get_resource_entry() does not return NULL.                              *)
HasEntry(node) == node.at # NoEntry /\ check_offset(node.at, node.size)

(* What do_resources() is to pass to its callback, by type and language.   *)
NoLanguage == <<"s", "">>
Below(node) ==
  IF node.directory THEN list_resources(node.children) ELSE <<node>>
Callbacks ==
  UNION {UNION {{<<t.id, IF n.directory THEN l.id ELSE NoLanguage, l>> :
                  l \in ToSet(Below(n))} :
           n \in ToSet(Below(t))} :
    t \in ToSet(list_resources(library.contents.table))}

-----------------------------------------------------------------------------
(* extract_resources_callback() and extract_resource().                    *)

Finish(how) ==
  /\ job' = how
  /\ UNCHANGED <<vars, request, icondir, image, skipped>>

Fail == Finish("failed") /\ UNCHANGED output

Kind(t, raw) ==
  CASE raw -> "raw"
    [] t = RT_BITMAP -> "bitmap"
    [] t \in {RT_GROUP_ICON, RT_GROUP_CURSOR} -> "group"
    [] OTHER -> "unknown"

Start ==
  /\ pc = "loaded"
  /\ job = "none"
  /\ \E r \in Callbacks, raw \in BOOLEAN :
       /\ type' = r[1] /\ lang' = r[2] /\ wr' = r[3]
       /\ kind' = Kind(r[1], raw)
       /\ job' = IF kind' = "unknown" THEN "failed" ELSE kind'
  /\ UNCHANGED <<vars, icondir, image, skipped, output>>

(* n bytes of memory, from at on.                                          *)
Bytes(at, n) == [p \in 0..(n - 1) |-> memory[at + p]]

(* What a structure of n bytes says: what the table of such structures has *)
(* if its bytes are those of the file at one place, else what any may.     *)
Said(table, at, n(_)) ==
  LET p == memory[at] IN
  IF /\ p \in DOMAIN table
     /\ at + n(table[p]) <= total_size
     /\ \A i \in 0..(n(table[p]) - 1) : memory[at + i] = p + i
  THEN {table[p]} ELSE {table[q] : q \in DOMAIN table}

ExtractRaw ==
  /\ job = "raw"
  /\ HasEntry(wr)
  /\ outsize' = wr.size
  /\ out' = Bytes(wr.at, wr.size)
  /\ reach' = wr.size
  /\ Finish("written")
  /\ UNCHANGED <<offset, fileicondir>>

NoResource ==
  /\ job \in {"raw", "group"}
  /\ ~HasEntry(wr)
  /\ Fail

-----------------------------------------------------------------------------
(* extract_bitmap_resource().                                              *)

ColormapBytes(b) ==
  IF b.bit_count = 24 THEN 0
  ELSE IF b.clr_used # 0 THEN 4 * b.clr_used
  ELSE CASE b.bit_count = 1 -> 8
         [] b.bit_count = 4 -> 64
         [] b.bit_count = 8 -> 1024
         [] OTHER -> 0

(* offset is offbits, and out begins with the 14 bytes that tell it.       *)
ExtractBitmap ==
  /\ job = "bitmap"
  /\ HasEntry(wr)
  /\ \E b \in Said(library.contents.bitmaps, wr.at, LAMBDA h : SizeofBitmapInfoHeader) :
       offset' = SizeofBitmapFileHeader + b.size + ColormapBytes(b)
  /\ outsize' = SizeofBitmapFileHeader + wr.size
  /\ out' = [p \in 0..(outsize' - 1) |->
               IF p < SizeofBitmapFileHeader THEN Junk
               ELSE memory[wr.at + p - SizeofBitmapFileHeader]]
  /\ reach' = outsize'
  /\ Finish("written")
  /\ UNCHANGED fileicondir

(* NULL is not looked for: the copy from it ends the process.              *)
BitmapKills ==
  /\ job = "bitmap"
  /\ ~HasEntry(wr)
  /\ Finish("killed")
  /\ UNCHANGED output

-----------------------------------------------------------------------------
(* extract_group_icon_cursor_resource().                                   *)
is_icon == type = RT_GROUP_ICON
count == Len(icondir)
entry == icondir[image]

IcondirBytes(dir) == SizeofIconDir + Len(dir) * SizeofIconDirEntry

OpenGroup ==
  /\ job = "group"
  /\ HasEntry(wr)
  /\ check_offset(wr.at, SizeofIconDir)
  /\ icondir' \in Said(library.contents.icondirs, wr.at, IcondirBytes)
  /\ outsize' = wr.size
  /\ job' = "measure"
  /\ UNCHANGED <<vars, request, image, skipped, offset, out, fileicondir, reach>>

NoCount ==
  /\ job = "group"
  /\ HasEntry(wr)
  /\ ~check_offset(wr.at, SizeofIconDir)
  /\ Fail

fwr ==
  find_resource(IF is_icon THEN RT_ICON ELSE RT_CURSOR, <<"n", entry.res_id>>, lang)

EntryInMemory ==
  check_offset(wr.at + SizeofIconDir + (image - 1) * SizeofIconDirEntry,
               SizeofIconDirEntry)

ImageFails ==
  /\ job \in {"measure", "copy"} /\ image <= count
  /\ \/ job = "measure" /\ ~EntryInMemory
     \/ fwr = NoNode
     \/ job = "copy" /\ ~HasEntry(fwr)
  /\ Fail

(* Mutant: the size of the resource counts, not what the entry says.       *)
RoomOfResource ==
  IF ~HasEntry(fwr) \/ fwr.size = 0 THEN 0
  ELSE fwr.size - (IF is_icon THEN 0 ELSE SizeofHotspot)

(* An image that is empty, or whose entry cannot be read, takes no room.   *)
Room ==
  IF ~HasEntry(fwr) \/ fwr.size = 0 THEN 0
  ELSE Larger(fwr.size, entry.bytes_in_res) - (IF is_icon THEN 0 ELSE SizeofHotspot)

MeasureImage ==
  /\ job = "measure" /\ image <= count
  /\ EntryInMemory
  /\ fwr # NoNode
  /\ outsize' = outsize + Room
  /\ skipped' = skipped + (IF HasEntry(fwr) /\ fwr.size = 0 THEN 1 ELSE 0)
  /\ image' = image + 1
  /\ UNCHANGED <<vars, job, request, icondir, offset, out, fileicondir, reach>>

Unset == [bytes_in_res |-> 0, dib_offset |-> 0, hotspot |-> Junk]

Allocate ==
  /\ job = "measure" /\ image > count
  /\ offset' = SizeofIconDir + (count - skipped) * SizeofFileDirEntry
  /\ outsize' = outsize + offset'
  /\ out' = [p \in 0..(outsize' - 1) |-> Junk]
  /\ fileicondir' = [e \in 1..(count - skipped) |-> Unset]
  /\ reach' = offset'
  /\ skipped' = 0
  /\ image' = 1
  /\ job' = "copy"
  /\ UNCHANGED <<vars, request, icondir>>

(* The next free entry is that of the image less those skipped, and so is  *)
(* the entry of the group that limits how much is copied.                  *)
slot == image - skipped
Copied == LET limit == icondir[slot].bytes_in_res
          IN  IF fwr.size > limit THEN limit ELSE fwr.size

Hotspot == IF ~is_icon /\ Copied >= SizeofHotspot THEN SizeofHotspot ELSE 0

(* A cursor of less than four bytes is not copied at all.                  *)
Transferred == IF is_icon \/ Hotspot > 0 THEN Copied - Hotspot ELSE 0

(* Mutant: the hotspot is copied as if it were of the image.               *)
SourceWithHotspot == fwr.at

Source == fwr.at + Hotspot

CopyImage ==
  /\ job = "copy" /\ image <= count
  /\ fwr # NoNode /\ HasEntry(fwr) /\ fwr.size > 0
  /\ fileicondir' = [fileicondir EXCEPT ![slot] =
       [bytes_in_res |-> entry.bytes_in_res, dib_offset |-> offset,
        hotspot |-> IF Hotspot > 0 THEN memory[fwr.at] ELSE Junk]]
  /\ out' = [p \in DOMAIN out |->
               IF p \in offset..(offset + Transferred - 1)
               THEN memory[Source + (p - offset)]
               ELSE out[p]]
  /\ reach' = IF Transferred = 0 THEN reach ELSE Larger(reach, offset + Transferred)
  /\ offset' = offset + entry.bytes_in_res - Hotspot
  /\ image' = image + 1
  /\ UNCHANGED <<vars, job, request, icondir, skipped, outsize>>

SkipEmpty ==
  /\ job = "copy" /\ image <= count
  /\ fwr # NoNode /\ HasEntry(fwr) /\ fwr.size = 0
  /\ skipped' = skipped + 1
  /\ image' = image + 1
  /\ UNCHANGED <<vars, job, request, icondir, output>>

GroupDone ==
  /\ job = "copy" /\ image > count
  /\ Finish("written")
  /\ UNCHANGED output

Extraction ==
  \/ Start \/ ExtractRaw \/ NoResource \/ ExtractBitmap \/ BitmapKills
  \/ OpenGroup \/ NoCount \/ ImageFails \/ MeasureImage \/ Allocate
  \/ CopyImage \/ SkipEmpty \/ GroupDone

GroupNext == (Next /\ UNCHANGED extractVars) \/ Extraction

GroupSpec == GroupInit /\ [][GroupNext]_allVars

-----------------------------------------------------------------------------
(* Properties, besides those of WinLibrary.                                *)

ImageOf(e) == find_resource(IF is_icon THEN RT_ICON ELSE RT_CURSOR, <<"n", e.res_id>>, lang)

EmptyTo(k) ==
  Cardinality({b \in 1..k : LET node == ImageOf(icondir[b])
                            IN  HasEntry(node) /\ node.size = 0})

(* The cursors that are too small for a hot spot, as resources or by what  *)
(* limits their copy.  The first pass takes four bytes off for one that    *)
(* the second does not take off.                                           *)
Stunted ==
  {k \in DOMAIN icondir :
     LET length == ImageOf(icondir[k]).size
     IN  /\ ~is_icon /\ length > 0
         /\ \/ length < SizeofHotspot
            \/ icondir[k - EmptyTo(k - 1)].bytes_in_res < SizeofHotspot}

(* The size of the group itself is allocated, too, and is not used.        *)
SpareSuffices == wr.size >= SizeofHotspot * Cardinality(Stunted)

(* What the first pass allocates the second does not exceed, whatever the  *)
(* sizes of the images are, in the resources and in the group: of icons,   *)
(* and of cursors if the size of the group itself makes up for the hot     *)
(* spots that are taken off although there are none.                       *)
InBounds ==
  job \in {"copy", "written"} /\ kind = "group" /\ SpareSuffices =>
    reach <= outsize

(* "calculate total size of output file", "allocate that much memory"      *)
(* (wrestool/extract.c:141, 188): of every group.                          *)
EnoughAllocated ==
  job \in {"copy", "written"} /\ kind = "group" => reach <= outsize

(* Where in the file a byte of the loaded library is to come from.         *)
Origin(at) ==
  IF library.headers = "NE" THEN at
  ELSE LET s == CHOOSE i \in WithData :
                  /\ sections[i].virtual_address <= at
                  /\ at < sections[i].virtual_address + sections[i].size_of_raw_data
       IN  at - sections[s].virtual_address + sections[s].pointer_to_raw_data

(* A linker lays a resource out within one section that has data.  Of one  *)
(* that is not, nothing can be said but that it is not in memory.          *)
InOneSection(l, n) ==
  \E i \in DOMAIN l.sections :
    /\ ~l.sections[i].uninitialized
    /\ l.sections[i].virtual_address <= n.at
    /\ n.at + n.size <= l.sections[i].virtual_address + l.sections[i].size_of_raw_data

OutOfMemory(l, n) ==
  /\ l.sections = <<>> => l.size < n.at + n.size
  /\ \A i \in DOMAIN l.sections : End(l.sections[i]) < n.at + n.size

ResourcesInSections ==
  \A l \in Libraries : l.headers = "PE" =>
    \A n \in Nodes(l.contents.table) :
      n.size > 0 /\ n.at # NoEntry => InOneSection(l, n) \/ OutOfMemory(l, n)

(* The bytes of the file that follow from one on.                          *)
Holds(from, at, n) == \A p \in 0..(n - 1) : out[from + p] = Origin(at) + p

Agrees(e, node) == node.size = e.bytes_in_res /\ (is_icon \/ node.size >= SizeofHotspot)

(* What is written of a resource is that resource as the file has it: of a *)
(* raw one all; of a bitmap all behind its new header; and of a group each *)
(* image whose size the group tells right, where the new directory says,   *)
(* in the order of the group, however the sizes of the others are wrong.   *)
(* An empty image before one may cut it short, and of cursors one behind   *)
(* it, too: the hot spot is then taken from an offset it was not added to. *)
(* What is written behind the memory allocated is not in the file.         *)
ExtractsWhole ==
  job = "written" /\ (library.headers = "PE" => InOrder) =>
    CASE kind = "raw" -> Holds(0, wr.at, wr.size)
      [] kind = "bitmap" -> Holds(SizeofBitmapFileHeader, wr.at, wr.size)
      [] kind = "group" /\ SpareSuffices ->
           \A c1 \in DOMAIN icondir :
             /\ Agrees(icondir[c1], ImageOf(icondir[c1]))
             /\ \A b \in 1..(IF is_icon THEN c1 - 1 ELSE count) :
                  ImageOf(icondir[b]).size > 0
             => LET h == IF is_icon THEN 0 ELSE SizeofHotspot
                    node == ImageOf(icondir[c1])
                IN  Holds(fileicondir[c1].dib_offset, node.at + h, node.size - h)
      [] OTHER -> TRUE
=============================================================================

---------------------------- MODULE MCGroupIcon -----------------------------
(***************************************************************************)
(* A header of one unit; every library of up to two sections within five,  *)
(* and every well laid out one of three.                                   *)
(***************************************************************************)
EXTENDS GroupIcon

MCHeaderSize == 1

NoContent == [table |-> <<>>, icondirs |-> <<>>, bitmaps |-> <<>>]

MCSection ==
  {s \in [virtual_address : 1..4, virtual_size : {0, 2},
          pointer_to_raw_data : 0..3, size_of_raw_data : 0..2,
          uninitialized : BOOLEAN] :
     s.uninitialized => s.pointer_to_raw_data = 0 /\ s.virtual_size = 2}

MCPE(ss) ==
  [headers : {"PE"}, tables : {FALSE}, resources : BOOLEAN, size : 1..5,
   sections : ss, contents : {NoContent}]

MCThree ==
  {<<[virtual_address |-> x, virtual_size |-> 0, pointer_to_raw_data |-> 1,
      size_of_raw_data |-> m, uninitialized |-> FALSE],
     [virtual_address |-> x + y, virtual_size |-> 1,
      pointer_to_raw_data |-> 1 + m, size_of_raw_data |-> n,
      uninitialized |-> u],
     [virtual_address |-> x + y + z, virtual_size |-> 3,
      pointer_to_raw_data |-> 1 + m + n, size_of_raw_data |-> 2,
      uninitialized |-> FALSE]>> :
   x, m, n \in 1..2, y, z \in 1..3, u \in BOOLEAN}

MCLibraries ==
  MCPE({<<>>}) \cup MCPE({<<s>> : s \in MCSection})
  \cup [headers : {"PE"}, tables : {FALSE}, resources : {TRUE},
        size : {3, 5}, sections : MCSection \X MCSection,
        contents : {NoContent}]
  \cup [headers : {"PE"}, tables : {FALSE}, resources : {TRUE},
        size : 4..8, sections : MCThree, contents : {NoContent}]
  \cup [headers : {"other", "stub", "cut", "NE"}, tables : BOOLEAN,
        resources : {FALSE}, size : {2}, sections : {<<>>},
        contents : {NoContent}]

-----------------------------------------------------------------------------
(* Libraries with groups.  The group's images follow each other behind the *)
(* group itself and a bitmap; the file has them next to its header, and    *)
(* they are loaded five bytes further on, the groups from a section of     *)
(* their own; or there are no sections, in an NE library.                  *)
(* An image: its size, and what the group says of it.                      *)
Pictures ==
  {[size |-> n, bytes_in_res |-> m] : n \in {0, 2, 8}, m \in {8, 60}}
  \cup {[size |-> 12, bytes_in_res |-> 8]}

(* Too small for a hot spot, and a long entry for it.                      *)
Tiny == [size |-> 2, bytes_in_res |-> 40]

Lists ==
  {<<p>> : p \in Pictures} \cup {<<p, q>> : p, q \in Pictures}
  \cup {<<p, q, [size |-> 8, bytes_in_res |-> 8]>> : p, q \in Pictures}
  \cup {<<Tiny, Tiny, [size |-> 8, bytes_in_res |-> 8]>>}
  \cup {[k \in 1..5 |-> [size |-> IF k \in {2, 3} THEN 0 ELSE 8,
                          bytes_in_res |-> IF k \in {4, 5} THEN 0 ELSE 8]]}

English == <<"n", 1033>>
Swedish == <<"n", 1053>>

Leaf(id, at, n) ==
  [id |-> id, directory |-> FALSE, children |-> <<>>, at |-> at, size |-> n]
Listing(id, nodes) ==
  [id |-> id, directory |-> TRUE, children |-> nodes, at |-> NoEntry, size |-> 0]
Entry(k, list) == [res_id |-> 10 * k, bytes_in_res |-> list[k].bytes_in_res]

(* The bitmap is the first of the file, 50 bytes; then the images, a dozen *)
(* bytes for each; then the group.                                         *)
BitmapSize == 50
ImageAt(k) == 1 + BitmapSize + 12 * (k - 1)
GroupAt == ImageAt(6)
GroupSize(n) == 6 + 14 * n

GroupSections(n) ==
  <<[virtual_address |-> 6, virtual_size |-> 1, pointer_to_raw_data |-> 1,
     size_of_raw_data |-> GroupAt - 1, uninitialized |-> FALSE],
    [virtual_address |-> GroupAt + 10, virtual_size |-> 4,
     pointer_to_raw_data |-> GroupAt,
     size_of_raw_data |-> GroupSize(n), uninitialized |-> FALSE]>>

(* The resource table: of an NE library there are no languages.  Images of *)
(* two bytes for sixty are not in memory, a listing with an undecodable id *)
(* hides a single empty cursor, and a group in Swedish has its only icon   *)
(* in English.  Two more groups are cut off by the end of the memory, and  *)
(* one is where the first is, but has less than the size of its entries.   *)
TableOf(headers, list) ==
  LET pe == headers = "PE"
      low == IF pe THEN 5 ELSE 0
      high == IF pe THEN 10 ELSE 0
      res(id, at, n, l) ==
        IF pe THEN Listing(id, <<Leaf(l, at, n)>>) ELSE Leaf(id, at, n)
      images == [k \in DOMAIN list |->
                  LET at == IF list[k].size = 2 /\ list[k].bytes_in_res = 60
                            THEN 1000 ELSE low + ImageAt(k)
                  IN  res(<<"n", 10 * k>>, at, list[k].size, English)]
      end == high + GroupAt + GroupSize(Len(list))
      group(t, l) ==
        Listing(t, <<res(<<"s", "main">>, high + GroupAt, GroupSize(Len(list)), l),
                     res(<<"s", "short">>, high + GroupAt, 6, l),
                     res(<<"s", "cut">>, end - 6, 6, l),
                     res(<<"s", "stub">>, end - 2, 2, l)>>)
      hidden == IF list[1].size = 0 /\ Len(list) = 1
                THEN <<Leaf(Undecodable, low + 1, 1)>> ELSE <<>>
      swedish == list[1].size = 12 /\ Len(list) = 1
  IN  <<Listing(RT_CURSOR, images \o hidden), Listing(RT_BITMAP,
          <<res(<<"n", 1>>, low + 1, BitmapSize, English),
            res(<<"n", 2>>, 2000, BitmapSize, English)>>),
        Listing(RT_ICON, images),
        group(RT_GROUP_CURSOR, English),
        group(RT_GROUP_ICON, IF swedish THEN Swedish ELSE English),
        Listing(<<"s", "strings">>, <<res(<<"n", 7>>, low + 1, 3, English)>>)>>

Content(headers, list) ==
  [table |-> TableOf(headers, list),
   icondirs |-> [at \in {GroupAt} |-> [k \in DOMAIN list |-> Entry(k, list)]],
   bitmaps |-> [at \in {1} |-> [size |-> 40, bit_count |-> 24, clr_used |-> 0]]]

GroupLibraries ==
  {[headers |-> headers, tables |-> TRUE, resources |-> TRUE,
    size |-> GroupAt + GroupSize(Len(list)),
    sections |-> IF headers = "PE" THEN GroupSections(Len(list)) ELSE <<>>,
    contents |-> Content(headers, list)] :
   headers \in {"NE", "PE"}, list \in Lists}

AllLibraries == MCLibraries \cup GroupLibraries
AllContents == {l.contents : l \in AllLibraries}
(* The condition of the theorem on extraction holds of these.              *)
ASSUME ResourcesAssumption == ResourcesInSections
=============================================================================

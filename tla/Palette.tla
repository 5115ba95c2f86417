-------------------------------- MODULE Palette --------------------------------
(***************************************************************************)
(* icotool/palette.c, a set of colours kept in a hash map, and the use     *)
(* create_icon() makes of it: the colours of an image are counted, written *)
(* as its colour table, and looked up again for every pixel.               *)
(***************************************************************************)
EXTENDS HMap

CONSTANTS
  Images,      \* the images, each with the bit depth that is asked for
  MaxColors    \* 256 in the code: more need 24 bits a pixel

(* A PaletteColor is both key and value of its entry.                      *)
ASSUME ColorsAssumption == Values = Keys

(* The colours of the pixels of an image in their order, black where they  *)
(* are fully transparent, the alpha values that occur, none if the image   *)
(* has no alpha channel, and the value of --bit-depth, or Unset.           *)
Unset == -1
Image == [pixels : Seq(Keys), transparency : SUBSET (0..255), bit_count : Int]
ASSUME ImagesAssumption == Images \subseteq Image
ASSUME MaxColorsAssumption == MaxColors \in Nat \ {0}

VARIABLES
  pixels,      \* the image
  transparency,\* the alpha values that occur in it
  bit_count,   \* what --bit-depth asks for
  phase,       \* how far create_icon() is with it
  n,           \* the next pixel
  color_index, \* the index field of each colour
  next_index,  \* "c" of palette_assign_indices()
  it_init,     \* palette_next() is half-way through
  table,       \* the colour table written
  data         \* the pixels written, as indices into it

imageVars == <<pixels, transparency, bit_count>>
createVars == <<imageVars, phase, n, color_index, next_index, it_init, table, data>>
allVars == <<vars, createVars>>

palette_count == size
palette_lookup(k) == IF Contains(k) THEN color_index[hmap_get(k)] ELSE NULL

PaletteInit ==
  /\ Init
  /\ \E image \in Images :
       /\ pixels = image.pixels
       /\ transparency = image.transparency
       /\ bit_count = image.bit_count
  /\ phase = "count"
  /\ n = 1
  /\ color_index = [k \in Keys |-> 0]
  /\ next_index = 0
  /\ it_init = FALSE
  /\ table = <<>>
  /\ data = <<>>

Color == pixels[n]

-----------------------------------------------------------------------------
(* palette_add(): a colour that is there already is not added again.       *)
Count(room) ==
  /\ Idle
  /\ phase = "count" /\ n <= Len(pixels)
  /\ IF room /\ ~Contains(Color)
     THEN PutNew(Color, Color) \/ PutGrowing(Color, Color)
     ELSE UNCHANGED vars
  /\ n' = n + 1
  /\ UNCHANGED <<imageVars, phase, color_index, next_index, it_init, table, data>>

(* Mutant: the colour that is one too many is not added either.            *)
CountColorTooFew == Count(palette_count < MaxColors)

(* One colour more than the limit may be added: enough to know of it.      *)
CountColor == Count(palette_count <= MaxColors)

FinishAdding == Rehash /\ UNCHANGED createVars

(* Transparency would be lost if there is more than on and off of it.      *)
need_transparency ==
  \/ Cardinality(transparency) > 2
  \/ Cardinality(transparency) = 2 /\ transparency # {0, 255}

(* The depths with a colour table are those up to 16.  An image has 8 bits *)
(* a pixel or fewer if its colours fit and that is all there is to it, and *)
(* 24 or 32 if not; --bit-depth makes them more, never fewer.              *)
HasTable ==
  /\ ~need_transparency
  /\ palette_count <= MaxColors
  /\ bit_count <= 16

Counted ==
  /\ Idle
  /\ phase = "count" /\ n > Len(pixels)
  /\ phase' = IF HasTable THEN "assign" ELSE "truecolor"
  /\ next_index' = 0
  /\ IF phase' = "assign" THEN Iterate ELSE UNCHANGED vars
  /\ UNCHANGED <<imageVars, n, color_index, it_init, table, data>>

(* palette_assign_indices()                                                *)
Assign(following) ==
  /\ phase = "assign"
  /\ IteratorNext
  /\ color_index' = [color_index EXCEPT ![ret'] = next_index]
  /\ next_index' = following
  /\ UNCHANGED <<imageVars, phase, n, it_init, table, data>>

(* Mutant: c++ is forgotten.                                               *)
AssignSame == Assign(next_index)
AssignIndex == Assign(next_index + 1)

Assigned ==
  /\ phase = "assign"
  /\ AtEnd
  /\ phase' = "table"
  /\ UNCHANGED <<vars, imageVars, n, color_index, next_index, it_init, table, data>>

(* palette_next()                                                          *)
NextInit ==
  /\ phase = "table"
  /\ ~it_init
  /\ Iterate
  /\ it_init' = TRUE
  /\ UNCHANGED <<imageVars, phase, n, color_index, next_index, table, data>>

NextColor ==
  /\ phase = "table"
  /\ it_init
  /\ IteratorNext
  /\ table' = Append(table, ret')
  /\ UNCHANGED <<imageVars, phase, n, color_index, next_index, it_init, data>>

NoNextColor ==
  /\ phase = "table"
  /\ it_init
  /\ AtEnd
  /\ it_init' = FALSE
  /\ n' = 1
  /\ phase' = "pixels"
  /\ UNCHANGED <<vars, imageVars, color_index, next_index, table, data>>

WritePixel ==
  /\ phase = "pixels"
  /\ n <= Len(pixels)
  /\ data' = Append(data, palette_lookup(Color))
  /\ n' = n + 1
  /\ UNCHANGED <<vars, imageVars, phase, color_index, next_index, it_init, table>>

Written == phase = "pixels" /\ n > Len(pixels)

PaletteDone == (Written \/ phase = "truecolor") /\ UNCHANGED allVars

PaletteNext ==
  \/ CountColor \/ FinishAdding \/ Counted
  \/ AssignIndex \/ Assigned \/ NextInit \/ NextColor \/ NoNextColor
  \/ WritePixel \/ PaletteDone

PaletteSpec == PaletteInit /\ [][PaletteNext]_allVars

-----------------------------------------------------------------------------
ColorsUsed == {pixels[p] : p \in DOMAIN pixels}

(* Each pixel gets its own colour back from the table, which holds every   *)
(* colour of the image and none twice: the order in which a hash map that  *)
(* has grown any number of times is iterated is the same both times.       *)
PixelsKeepColor ==
  Written =>
    /\ Len(data) = Len(pixels)
    /\ \A p \in DOMAIN pixels : table[data[p] + 1] = pixels[p]
    /\ Len(table) = Cardinality(ColorsUsed)

(* An image gets a table exactly if all its colours fit in one, its alpha  *)
(* values are at most on and off, and no depth above 16 is asked for:      *)
(* although its colours are not counted beyond the first too many.         *)
TableSuffices ==
  /\ Cardinality(ColorsUsed) <= MaxColors
  /\ ~need_transparency
  /\ bit_count <= 16

TableIfItSuffices ==
  /\ phase \in {"assign", "table", "pixels"} => TableSuffices
  /\ phase = "truecolor" => ~TableSuffices
=============================================================================

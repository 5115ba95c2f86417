------------------------------- MODULE IcoFormat -------------------------------
(***************************************************************************)
(* What icotool/win32.h, the arithmetic of extract.c and create.c, and     *)
(* filter() of main.c say of an icon or cursor file: the sizes of its      *)
(* parts, and the images the options select.                               *)
(*                                                                         *)
(* A file is its directory, its length and, for each position at which an  *)
(* image starts, the header found there.  Bytes are not modelled.  A       *)
(* header is                                                               *)
(*   magic       "png" for ICO_PNG_MAGIC, "dib" for anything else          *)
(*   size, width, height, bits, clr_used, compressed                       *)
(*               the fields of Win32BitmapInfoHeader; for a PNG, width,    *)
(*               height and bits are what read_png() returns               *)
(*   clean       "dib": every pixel is below palette_count;                *)
(*               "png": read_png() accepts the image                       *)
(***************************************************************************)
EXTENDS Integers, Sequences, FiniteSets

CONSTANTS
  MaxOffset,  \* UINT32_MAX
  IntMax      \* INT32_MAX

ASSUME LimitsAssumption == MaxOffset \in Nat /\ IntMax \in Nat

SizeofFileDir == 6
SizeofFileDirEntry == 16
SizeofBitmapInfoHeader == 40
SizeofRGBQuad == 4

Least(a, b) == IF a <= b THEN a ELSE b
Greatest(a, b) == IF a >= b THEN a ELSE b
Abs(n) == IF n < 0 THEN -n ELSE n

IsPng(h) == h.magic = "png"

ROW_BYTES(bits) == ((bits + 31) \div 32) * 4

(* The sizes of image and mask are uint32_t in the code and whole numbers  *)
(* here.  A negative width makes them wrap to more than the file has left, *)
(* or to nothing: sizes below one are refused.                             *)
height(h) == IF IsPng(h) THEN h.height ELSE Abs(h.height) \div 2
image_size(h) == height(h) * ROW_BYTES(h.width * h.bits)
mask_size(h) == height(h) * ROW_BYTES(h.width)

(* A DIB whose sizes pass UINT32_MAX is left out: the code would go on     *)
(* with what 32 bits keep of them.                                         *)
Header ==
  {h \in [magic: {"png", "dib"}, size: 0..MaxOffset, width: Int, height: Int,
          bits: Nat, clr_used: Nat, compressed: BOOLEAN, clean: BOOLEAN] :
     IsPng(h) \/ (image_size(h) <= MaxOffset /\ mask_size(h) <= MaxOffset)}

DirEntry == [dib_offset: 0..MaxOffset, dib_size: 0..MaxOffset,
             hotspot_x: Nat, hotspot_y: Nat]

(* "unknown": reserved is not zero, or type is neither 1 nor 2.            *)
IsFile(f) ==
  /\ f.type \in {"icon", "cursor", "unknown"}
  /\ f.dir \in Seq(DirEntry)
  /\ f.len \in 0..MaxOffset
  /\ DOMAIN f.image \subseteq Nat
  /\ \A p \in DOMAIN f.image : f.image[p] \in Header

(* The options of icotool that reach a call of extract_icons(), whether    *)
(* the input is a file or a pipe, and what may fail meanwhile: "open",     *)
(* creating an output; "write", a write to it that is noticed, by fwrite() *)
(* or by libpng; "flush", the writing of the rest by fclose().             *)
IsOptions(o) ==
  /\ o.list \in BOOLEAN
  /\ o.output \in {"names", "file", "-"}
  /\ o.only \in {"any", "icon", "cursor"}
  /\ o.seekable \in BOOLEAN
  /\ o.faults \subseteq {"open", "write", "flush"}

-----------------------------------------------------------------------------
palette_count(h) ==
  IF h.clr_used # 0 THEN h.clr_used
  ELSE IF h.bits < 24 THEN 2 ^ h.bits ELSE 0

(* What a DIB occupies after its header, and all of it.                    *)
PaletteBytes(h) == SizeofRGBQuad * palette_count(h)
PixelBytes(h) == image_size(h) + mask_size(h)
DibBytes(h) == h.size + PaletteBytes(h) + PixelBytes(h)

(* The checks that a DIB's header must pass.                               *)
WidthSupported(h) == Abs(h.width) <= IntMax \div Greatest(4, h.bits)

DibSupported(h) ==
  /\ h.size >= SizeofBitmapInfoHeader
  /\ ~h.compressed
  /\ palette_count(h) \in 0..256
  /\ WidthSupported(h)
  /\ image_size(h) > 0      \* fread() of no bytes counts as a failure
  /\ mask_size(h) > 0

(* The rows of a DIB can be decoded: "color out of range" never happens.   *)
Decodable(h) == IsPng(h) \/ h.bits > 16 \/ h.clean

(* filter() of main.c, as extract_icons() calls it.  A PNG is given the    *)
(* bit_count of the structure its first 40 bytes were read into, the "DR"  *)
(* of "IHDR", and a palette of none.                                       *)
Unset == -1
PngBitCount == 21060

Accepts(option, value) == option \in {Unset, value}

filter(o, type, i, h, e) ==
  /\ Accepts(o.index, i)
  /\ Accepts(o.width, h.width)
  /\ Accepts(o.height, height(h))
  /\ Accepts(o.bitdepth, IF IsPng(h) THEN PngBitCount ELSE h.bits)
  /\ Accepts(o.palettesize, IF IsPng(h) THEN 0 ELSE palette_count(h))
  /\ o.only \in {"any", type}
  /\ Accepts(o.hotspot_x, IF type = "icon" THEN 0 ELSE e.hotspot_x)
  /\ Accepts(o.hotspot_y, IF type = "icon" THEN 0 ELSE e.hotspot_y)

-----------------------------------------------------------------------------
(* A well-formed file: its directory is complete, its images lie behind    *)
(* it, apart from each other, and each is complete and of a supported      *)
(* kind.  Their order in the directory, and what lies between, is free.    *)
Images(f) == 1 .. Len(f.dir)
HeaderOf(f, e) == f.image[f.dir[e].dib_offset]
Extent(f, e) ==
  IF IsPng(HeaderOf(f, e)) THEN f.dir[e].dib_size ELSE DibBytes(HeaderOf(f, e))

WellFormed(f) ==
  /\ f.type # "unknown"
  /\ f.len >= SizeofFileDir + Len(f.dir) * SizeofFileDirEntry
  /\ \A e \in Images(f) : f.dir[e].dib_offset \in DOMAIN f.image
  /\ \A e \in Images(f) :
       LET first == f.dir[e].dib_offset
           last == first + Extent(f, e)
           h == HeaderOf(f, e)
       IN  /\ first >= SizeofFileDir + Len(f.dir) * SizeofFileDirEntry
           /\ last <= f.len
           /\ Extent(f, e) >= SizeofBitmapInfoHeader
           /\ IF IsPng(h) THEN h.clean ELSE DibSupported(h) /\ Decodable(h)
           /\ \A d \in Images(f) \ {e} :
                \/ f.dir[d].dib_offset >= last
                \/ f.dir[d].dib_offset + Extent(f, d) <= first

(* The number of an image: its place in the file, whatever the directory.  *)
Index(f, e) ==
  Cardinality({d \in Images(f) : f.dir[d].dib_offset <= f.dir[e].dib_offset})

(* The images the options ask for.                                         *)
Wanted(o, f) ==
  {e \in Images(f) :
     filter(o, f.type, Index(f, e), HeaderOf(f, e), f.dir[e])}

(* The calls of which extraction promises everything.  Not among them: one *)
(* on a pipe, one whose options select all but a PNG, one that puts more   *)
(* than one image on standard out or that cannot create or write its       *)
(* outputs.                                                                *)
Promised(o, f) ==
  /\ WellFormed(f)
  /\ o.seekable
  /\ \A e \in Images(f) : IsPng(HeaderOf(f, e)) => e \in Wanted(o, f)
  /\ o.list \/ (o.output # "-" /\ o.faults = {})
=============================================================================

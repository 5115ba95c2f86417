------------------------------ MODULE PixelCodec ------------------------------
(***************************************************************************)
(* Where the pixels of a picture are in a file: where create_icon() puts   *)
(* each bit of them, and where extract_icons() looks for it.  A picture is *)
(* [width, height, bits]; its pixel <<x, y>> is the x'th from the left of  *)
(* the y'th row from the top, from 0.  A place is <<byte, bit>> from the   *)
(* start of the image data, or of the mask, bit 0 being the lowest.        *)
(***************************************************************************)
EXTENDS IcoFormat

RowBytes(s) == ROW_BYTES(s.width * s.bits)
MaskRowBytes(s) == ROW_BYTES(s.width)

(* Bit b of the n'th of the values of so many bits, packed from the highest *)
(* bits of the first byte if they are shorter than one.                    *)
Packed(n, size, b) ==
  IF size < 8
  THEN <<(n * size) \div 8, ((8 - size) - ((n * size) % 8)) + b>>
  ELSE <<n * (size \div 8) + b \div 8, b % 8>>

simple_setvec(n, size, b) == Packed(n, size, b)

simple_vec(n, size, b) == Packed(n, size, b)

-----------------------------------------------------------------------------
(* create_icon().  Rows are stored from the bottom.                        *)
Stored(s, y) == s.height - y - 1

(* Mutant: the row after next is overlapped if the width is odd.           *)
irow_unpadded(s, y) == Stored(s, y) * s.width * (s.bits \div 8)
irow(s, y) == Stored(s, y) * RowBytes(s)

PixelWritten(s, x, y, b) ==
  IF s.bits < 24
  THEN simple_setvec(x + (Stored(s, y) * RowBytes(s) * 8) \div s.bits, s.bits, b)
  ELSE <<(s.bits \div 8) * x + b \div 8 + irow(s, y), b % 8>>

(* Eight pixels are written at a time, also behind the last of a row,      *)
(* where the alpha of the next row's pixels, or of none, is taken; fpad()  *)
(* fills up the row.                                                       *)
Octets(s) == (s.width + 7) \div 8

mask_row(s) == Octets(s) + (MaskRowBytes(s) - Octets(s))

MaskWritten(s, x, y) == <<Stored(s, y) * mask_row(s) + x \div 8, 7 - (x % 8)>>

-----------------------------------------------------------------------------
(* extract_icons(), of a bitmap whose height is not negative.              *)

(* Rows are counted in pixels, also those of 24 bits.                      *)
imod(s, y) == (Stored(s, y) * RowBytes(s) * 8) \div s.bits
PixelRead(s, x, y, b) == simple_vec(x + imod(s, y), s.bits, b)

mmod(s, y) == Stored(s, y) * MaskRowBytes(s) * 8
MaskRead(s, x, y) == simple_vec(x + mmod(s, y), 1, 0)

-----------------------------------------------------------------------------
Columns(s) == 0..(s.width - 1)
Rows(s) == 0..(s.height - 1)

(* What is read of each pixel is what was written of it, nothing of        *)
(* another is written to the same place, and all is within the data.       *)
PixelsSurvive(s) ==
  LET bits == 0..(s.bits - 1)
      places == {PixelWritten(s, x, y, b) :
                   x \in Columns(s), y \in Rows(s), b \in bits}
  IN  /\ \A x \in Columns(s), y \in Rows(s), b \in bits :
           PixelRead(s, x, y, b) = PixelWritten(s, x, y, b)
      /\ Cardinality(places) = s.width * s.height * s.bits
      /\ \A p \in places : p[1] < s.height * RowBytes(s)

(* The same of the mask; the bits written behind the width, whose alpha    *)
(* belongs to other pixels or to none, are never read.                     *)
MaskSurvives(s) ==
  LET read == {MaskRead(s, x, y) : x \in Columns(s), y \in Rows(s)}
  IN  /\ \A x \in Columns(s), y \in Rows(s) :
           MaskRead(s, x, y) = MaskWritten(s, x, y)
      /\ \A x \in s.width..(8 * Octets(s) - 1), y \in Rows(s) :
           MaskWritten(s, x, y) \notin read
      /\ \A p \in read : p[1] < s.height * MaskRowBytes(s)
=============================================================================

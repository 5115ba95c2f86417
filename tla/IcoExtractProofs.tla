--------------------------- MODULE IcoExtractProofs ---------------------------
(***************************************************************************)
(* What every step of extract_icons() preserves, for every file, option    *)
(* and limit; IcotoolProofs makes theorems of it.                          *)
(*                                                                         *)
(* The invariant says where the stream stands relative to the offset at    *)
(* each point of the function, so it knows that no sum wraps; with that    *)
(* the offset only grows, and no image is taken twice.  Of a call of which *)
(* everything is promised, it says which images have been taken: those     *)
(* that lie before the offset.  So none is passed over, nothing is         *)
(* refused, and each is numbered by its place in the file.                 *)
(***************************************************************************)
EXTENDS IcoExtract, SequenceTheorems, FiniteSetTheorems, TLAPS

(* Points of the function between reading a header and leaving the image.  *)
Reading == pc \in {"png", "dib"}
Midway == pc \in {"palette", "pixels"}
Read == pc \in {"filter", "print", "open", "write"}

(* What the offset has moved by within a DIB.                              *)
Passed ==
  IF pc = "palette" THEN bitmap.size ELSE bitmap.size + PaletteBytes(bitmap)

(* The stream is never behind the offset, but for the end of the file.     *)
(* There it may stand while the offset, having wrapped, is anywhere; then  *)
(* nothing more can be read of the image.                                  *)
Ahead ==
  /\ pos <= file.len
  /\ pc = "dir" => pos = 0 /\ offset = 0
  /\ pc = "entries" => pos = SizeofFileDir /\ offset = 0
  /\ pc \in {"pass", "scan"} => pos >= Least(offset, file.len)
  /\ pc \in {"dib", "palette", "pixels"} => ~IsPng(bitmap)
  /\ Reading => /\ offset = entry.dib_offset
                /\ pos >= offset + SizeofBitmapInfoHeader
  /\ Midway => /\ HeaderSupported
               /\ pc = "pixels" => palette_count(bitmap) \in 0..256
               /\ \/ pos = file.len
                  \/ offset = entry.dib_offset + Passed /\ pos >= offset
  /\ Read => IF IsPng(bitmap)
             THEN offset = entry.dib_offset /\ pos >= offset + entry.dib_size
             ELSE offset > entry.dib_offset /\ pos >= offset

(* An image that is yet to be matched is not counted as matched.           *)
Unmatched == pc = "filter" => matched < completed

Inv == TypeOK /\ Ahead /\ Unmatched

-----------------------------------------------------------------------------
LEMMA RemainderOfSmall ==
  \A n \in 0..MaxOffset : n % (MaxOffset + 1) = n
BY LimitsAssumption

LEMMA RemainderInRange ==
  \A n \in Nat : n % (MaxOffset + 1) \in 0..MaxOffset
BY LimitsAssumption

LEMMA EntryType ==
  ASSUME IsFile(file), c \in 1..count
  PROVE  /\ entry \in DirEntry
         /\ entry.dib_offset \in 0..MaxOffset
         /\ entry.dib_size \in 0..MaxOffset
<1>1. file.dir \in Seq(DirEntry) /\ c \in 1..Len(file.dir)
  BY DEF IsFile, count
<1>2. entry \in DirEntry
  BY <1>1 DEF entry
<1>. QED
  BY <1>2 DEF DirEntry

LEMMA GarbageIsHeader == (CHOOSE h \in Garbage : TRUE) \in Header
BY GarbageAssumption

LEMMA HeadersAtAreHeaders ==
  ASSUME IsFile(file), NEW p
  PROVE  HeadersAt(p) \subseteq Header
BY GarbageAssumption DEF IsFile, HeadersAt

LEMMA SizesAreNumbers ==
  ASSUME NEW h \in Header
  PROVE  image_size(h) \in Int /\ mask_size(h) \in Int
<1>1. height(h) \in Int
  BY DEF height, Abs, Header
<1>2. h.width \in Int /\ h.bits \in Nat
  BY DEF Header
<1>3. \A n \in Int : ROW_BYTES(n) \in Int
  BY DEF ROW_BYTES
<1>4. h.width * h.bits \in Int
  BY <1>2
<1>. QED
  BY <1>1, <1>2, <1>3, <1>4 DEF image_size, mask_size

LEMMA HeaderBytes ==
  ASSUME NEW h \in Header, DibSupported(h)
  PROVE  /\ palette_count(h) \in Nat
         /\ PaletteBytes(h) \in Nat
         /\ PixelBytes(h) \in Nat \ {0}
         /\ h.size \in Nat /\ h.size >= SizeofBitmapInfoHeader
         /\ DibBytes(h) = h.size + PaletteBytes(h) + PixelBytes(h)
<1>3. image_size(h) \in Int /\ mask_size(h) \in Int
  BY SizesAreNumbers
<1>4. image_size(h) > 0 /\ mask_size(h) > 0 /\ palette_count(h) \in 0..256
  BY DEF DibSupported
<1>5. h.size \in Nat /\ h.size >= SizeofBitmapInfoHeader
  BY LimitsAssumption DEF DibSupported, Header
<1>. QED
  BY <1>3, <1>4, <1>5 DEF PaletteBytes, PixelBytes, SizeofRGBQuad, DibBytes

(* What is read of a DIB moves stream and offset alike, unless the stream  *)
(* comes to its end first; so a sum that wraps is followed by no read.     *)
LEMMA HeaderMoves ==
  ASSUME Inv, pc = "dib", SkipHeader
  PROVE  /\ pos' \in 0..MaxOffset /\ pos' <= file.len
         /\ offset' \in 0..MaxOffset
         /\ \/ pos' = file.len
            \/ /\ offset' = offset + bitmap.size /\ pos' >= offset'
               /\ pos' = pos + (bitmap.size - SizeofBitmapInfoHeader)
<1>1. /\ bitmap.size \in 0..MaxOffset /\ file.len \in 0..MaxOffset
      /\ pos \in 0..MaxOffset /\ offset \in 0..MaxOffset
      /\ pos >= offset + 40 /\ pos <= file.len
  BY DEF Inv, TypeOK, Header, Ahead, Reading, IsFile, SizeofBitmapInfoHeader
<1>2. /\ bitmap.size >= 40
      /\ pos' = Least(pos + (bitmap.size - 40), file.len)
      /\ offset' = (offset + bitmap.size) % (MaxOffset + 1)
  BY DEF SkipHeader, PassHeader, HeaderSupported, AfterHeader, Plus,
         SizeofBitmapInfoHeader
<1>3. offset + bitmap.size \in Nat
  BY <1>1, LimitsAssumption
<1>4. offset' \in 0..MaxOffset
  BY <1>2, <1>3, RemainderInRange
<1>5. /\ pos' \in 0..MaxOffset /\ pos' <= file.len
  BY <1>1, <1>2, LimitsAssumption DEF Least
<1>6. CASE pos' # file.len
  <2>1. pos' = pos + (bitmap.size - 40) /\ pos' >= offset + bitmap.size
    BY <1>1, <1>2, <1>6, LimitsAssumption DEF Least
  <2>2. offset + bitmap.size \in 0..MaxOffset
    BY <1>1, <1>5, <2>1, LimitsAssumption
  <2>. QED
    BY <1>2, <1>4, <1>5, <2>1, <2>2, RemainderOfSmall DEF SizeofBitmapInfoHeader
<1>. QED
  BY <1>4, <1>5, <1>6

LEMMA PaletteMoves ==
  ASSUME Inv, pc = "palette", ReadPalette
  PROVE  /\ pos' \in 0..MaxOffset /\ pos' <= file.len
         /\ offset' \in 0..MaxOffset
         /\ palette_count(bitmap) \in 0..256
         /\ PaletteBytes(bitmap) \in Nat
         /\ pos' = pos + PaletteBytes(bitmap)
         /\ \/ pos' = file.len
            \/ /\ offset = entry.dib_offset + bitmap.size /\ offset <= pos
               /\ offset' = offset + PaletteBytes(bitmap) /\ pos' >= offset'
<1>1. /\ file.len \in 0..MaxOffset /\ pos \in 0..MaxOffset
      /\ offset \in 0..MaxOffset /\ pos <= file.len
      /\ pos = file.len
         \/ (offset = entry.dib_offset + bitmap.size /\ pos >= offset)
  BY DEF Inv, TypeOK, Ahead, Midway, Passed, IsFile
<1>2. /\ palette_count(bitmap) \in 0..256
      /\ PaletteBytes(bitmap) = 4 * palette_count(bitmap)
      /\ palette_count(bitmap) # 0 => pos + PaletteBytes(bitmap) <= file.len
      /\ pos' = pos + PaletteBytes(bitmap)
      /\ offset' = (offset + PaletteBytes(bitmap)) % (MaxOffset + 1)
  BY DEF ReadPalette, PaletteReadable, CanRead, PaletteBytes, SizeofRGBQuad, Plus
<1>3. PaletteBytes(bitmap) \in Nat
  BY <1>2
<1>4. pos' \in 0..MaxOffset /\ pos' <= file.len
  BY <1>1, <1>2, <1>3, LimitsAssumption
<1>5. offset + PaletteBytes(bitmap) \in Nat
  BY <1>1, <1>3, LimitsAssumption
<1>6. offset' \in 0..MaxOffset
  BY <1>2, <1>5, RemainderInRange
<1>7. CASE pos' # file.len
  <2>1. pos # file.len
    BY <1>1, <1>2, <1>7, LimitsAssumption
  <2>2. pos' >= offset + PaletteBytes(bitmap)
    BY <1>1, <1>2, <1>3, <2>1, LimitsAssumption
  <2>3. offset + PaletteBytes(bitmap) \in 0..MaxOffset
    BY <1>1, <1>3, <1>4, <2>2, LimitsAssumption
  <2>. QED
    BY <1>1, <1>2, <1>3, <1>4, <1>6, <2>1, <2>2, <2>3, RemainderOfSmall
<1>. QED
  BY <1>2, <1>3, <1>4, <1>6, <1>7

LEMMA PixelsMove ==
  ASSUME Inv, pc = "pixels", ReadPixels
  PROVE  /\ pos' \in 0..MaxOffset /\ pos' <= file.len
         /\ offset' \in 0..MaxOffset
         /\ DibSupported(bitmap)
         /\ PixelBytes(bitmap) \in Nat \ {0}
         /\ pos' = pos + PixelBytes(bitmap)
         /\ pos # file.len
         /\ offset <= pos
         /\ offset = entry.dib_offset + bitmap.size + PaletteBytes(bitmap)
         /\ offset' = offset + PixelBytes(bitmap) /\ pos' >= offset'
<1>1. /\ file.len \in 0..MaxOffset /\ pos \in 0..MaxOffset
      /\ offset \in 0..MaxOffset /\ pos <= file.len
      /\ bitmap \in Header /\ HeaderSupported
      /\ palette_count(bitmap) \in 0..256
      /\ pos = file.len
         \/ (offset = entry.dib_offset + (bitmap.size + PaletteBytes(bitmap))
               /\ pos >= offset)
  BY DEF Inv, TypeOK, Ahead, Midway, Passed, IsFile
<1>2. /\ WidthSupported(bitmap)
      /\ image_size(bitmap) > 0 /\ mask_size(bitmap) > 0
      /\ pos + image_size(bitmap) <= file.len
      /\ pos + image_size(bitmap) + mask_size(bitmap) <= file.len
      /\ pos' = pos + PixelBytes(bitmap)
      /\ offset' = (offset + PixelBytes(bitmap)) % (MaxOffset + 1)
  BY DEF ReadPixels, PixelsRead, PixelsReadable, CanRead, Plus
<1>3. image_size(bitmap) \in Int /\ mask_size(bitmap) \in Int
  BY <1>1, SizesAreNumbers
<1>4. /\ PixelBytes(bitmap) \in Nat \ {0}
      /\ pos + PixelBytes(bitmap) <= file.len
  BY <1>1, <1>2, <1>3, LimitsAssumption DEF PixelBytes
<1>5. DibSupported(bitmap)
  BY <1>1, <1>2 DEF DibSupported, HeaderSupported
<1>6. pos # file.len /\ pos >= offset
      /\ offset = entry.dib_offset + (bitmap.size + PaletteBytes(bitmap))
  BY <1>1, <1>4, LimitsAssumption
<1>7. offset + PixelBytes(bitmap) \in 0..MaxOffset
      /\ pos' \in 0..MaxOffset /\ pos' <= file.len
      /\ pos' >= offset + PixelBytes(bitmap)
  BY <1>1, <1>2, <1>4, <1>6, LimitsAssumption
<1>8. offset' = offset + PixelBytes(bitmap)
  BY <1>2, <1>7, RemainderOfSmall
<1>9. offset = entry.dib_offset + bitmap.size + PaletteBytes(bitmap)
  <2>1. c \in 1..count /\ IsFile(file)
    BY DEF Inv, TypeOK, InImage
  <2>2. entry.dib_offset \in 0..MaxOffset
    BY <2>1, EntryType
  <2>. QED
    BY <1>1, <1>5, <1>6, <2>2, HeaderBytes, LimitsAssumption
<1>. QED
  BY <1>2, <1>4, <1>5, <1>6, <1>7, <1>8, <1>9

(* A PNG is read from the offset, or from further on if the stream cannot  *)
(* go back; either way the offset can move past it without wrapping.       *)
LEMMA PngMoves ==
  ASSUME Inv, pc = "png", PngReadable
  PROVE  LET to == PngStart + entry.dib_size
         IN  /\ PngStart \in 0..MaxOffset
             /\ to \in 0..MaxOffset /\ to <= file.len
             /\ offset + entry.dib_size <= to
             /\ entry.dib_size > 0
<1>1. /\ file.len \in 0..MaxOffset /\ pos \in 0..MaxOffset /\ offset \in 0..MaxOffset
      /\ pos >= offset + 40
  BY DEF Inv, TypeOK, Ahead, Reading, IsFile, SizeofBitmapInfoHeader
<1>2. entry.dib_size \in 0..MaxOffset
  BY EntryType DEF Inv, TypeOK, InImage
<1>. QED
  BY <1>1, <1>2, LimitsAssumption DEF PngReadable, CanRead, PngStart

LEMMA AfterImageMoves ==
  ASSUME Inv, Read, AfterImage
  PROVE  /\ offset' \in 0..MaxOffset
         /\ offset' = IF IsPng(bitmap) THEN offset + entry.dib_size ELSE offset
         /\ offset' <= pos
<1>1. /\ file.len \in 0..MaxOffset /\ pos \in 0..MaxOffset /\ offset \in 0..MaxOffset
      /\ pos >= IF IsPng(bitmap) THEN offset + entry.dib_size ELSE offset
  BY DEF Inv, TypeOK, Ahead, IsFile
<1>2. entry.dib_size \in 0..MaxOffset
  BY EntryType DEF Inv, TypeOK, InImage, Read
<1>3. CASE IsPng(bitmap)
  <2>1. offset + entry.dib_size \in 0..MaxOffset
    BY <1>1, <1>2, <1>3, LimitsAssumption
  <2>. QED
    BY <1>1, <1>3, <2>1, RemainderOfSmall DEF AfterImage
<1>4. CASE ~IsPng(bitmap)
  BY <1>1, <1>4 DEF AfterImage
<1>. QED
  BY <1>3, <1>4
LEMMA TakeLogs ==
  ASSUME Inv, Read, NEW shown \in BOOLEAN, Take(shown), file' = file
  PROVE  /\ log' \in Seq([entry: Images(file'), index: Nat, start: 0..MaxOffset,
                          png: BOOLEAN, shown: BOOLEAN])
         /\ Len(log') = Len(log) + 1
         /\ \A k \in 1..Len(log) : log'[k] = log[k]
         /\ log'[Len(log')] = [entry |-> c, index |-> completed, start |-> start,
                               png |-> IsPng(bitmap), shown |-> shown]
<1>. DEFINE new == [entry |-> c, index |-> completed, start |-> start,
                    png |-> IsPng(bitmap), shown |-> shown]
            Image == [entry: Images(file), index: Nat, start: 0..MaxOffset,
                      png: BOOLEAN, shown: BOOLEAN]
<1>1. c \in Images(file) /\ completed \in Nat /\ start \in 0..MaxOffset
  BY DEF Inv, TypeOK, InImage, Read, Images, count
<1>2. IsPng(bitmap) \in BOOLEAN
  BY DEF IsPng
<1>3. new \in Image
  BY <1>1, <1>2
<1>4. log \in Seq(Image)
  BY DEF Inv, TypeOK
<1>5. log' = Append(log, new)
  BY DEF Take
<1>6. Images(file') = Images(file)
  OBVIOUS
<1>. HIDE DEF new, Image
<1>7. log' \in Seq(Image) /\ Len(log') = Len(log) + 1
      /\ (\A k \in 1..Len(log) : log'[k] = log[k]) /\ log'[Len(log')] = new
  BY <1>3, <1>4, <1>5
<1>. QED
  BY <1>6, <1>7 DEF new, Image

-----------------------------------------------------------------------------
LEMMA NextInv == Inv /\ [Next]_vars => Inv'
<1>. SUFFICES ASSUME Inv, [Next]_vars PROVE Inv'
  OBVIOUS
<1>. USE LimitsAssumption
<1>. USE DEF ioVars, inputVars, streamVars, scanVars, tallyVars, imageVars,
             callVars, Midway, InImage
<1>A. /\ IsFile(file) /\ file.dir \in Seq(DirEntry) /\ file.len \in 0..MaxOffset
      /\ count \in Nat
  BY DEF Inv, TypeOK, IsFile, count
<1>B. c \in 1..count => /\ entry.dib_offset \in 0..MaxOffset
                        /\ entry.dib_size \in 0..MaxOffset
  BY <1>A, EntryType
<1>1. CASE ReadDir
  BY <1>A, <1>1
     DEF ReadDir, CanRead, DirReadable, SizeofFileDir, Inv, TypeOK, Ahead,
         Unmatched, Reading, Read, count
<1>2. CASE GotoCleanup
  BY <1>A, <1>2
     DEF GotoCleanup, cleanup, Inv, TypeOK, Ahead, Unmatched, Reading, Read,
         count
<1>3. CASE ReadEntries
  BY <1>A, <1>3
     DEF ReadEntries, EntriesReadable, CanRead, SizeofFileDir,
         SizeofFileDirEntry, Least, Inv, TypeOK, Ahead, Unmatched, Reading,
         Read, count
<1>4. CASE StartPass
  BY <1>A, <1>4 DEF StartPass, Inv, TypeOK, Ahead, Unmatched, Reading, Read, count
<1>5. CASE Finish
  BY <1>A, <1>5 DEF Finish, Inv, TypeOK, Ahead, Unmatched, Reading, Read, count
<1>6. CASE PassOver
  BY <1>A, <1>B, <1>6
     DEF PassOver, Overlook, Least, Inv, TypeOK, Ahead, Unmatched, Reading,
         Read, count
<1>7. CASE EndPass
  BY <1>A, <1>7 DEF EndPass, Inv, TypeOK, Ahead, Unmatched, Reading, Read, count
<1>8. CASE SkipGarbage
  BY <1>A, <1>8
     DEF SkipGarbage, Skip, AfterGarbage, Least, Inv, TypeOK, Ahead, Unmatched,
         Reading, Read, count
<1>9. CASE ReadHeader
  <2>1. /\ pc = "scan" /\ c \in 1..count /\ entry.dib_offset = offset
        /\ pos + 40 <= file.len
        /\ pos' = pos + 40 /\ start' = pos
        /\ pc' = IF IsPng(bitmap') THEN "png" ELSE "dib"
        /\ UNCHANGED <<ioVars, callVars, scanVars, tallyVars, offset>>
        /\ entry' = entry /\ count' = count
    BY <1>A, <1>9 DEF ReadHeader, CanRead, SizeofBitmapInfoHeader, Inv, TypeOK,
                      entry, count
  <2>2. bitmap' \in Header
    BY <1>A, <1>9, HeadersAtAreHeaders DEF ReadHeader
  <2>3. TypeOK'
    BY <1>A, <2>1, <2>2 DEF Inv, TypeOK, Ahead, count
  <2>4. Ahead' /\ Unmatched'
    BY <1>A, <2>1
       DEF Inv, TypeOK, Ahead, Least, SizeofBitmapInfoHeader, Unmatched,
           Reading, Read
  <2>. QED
    BY <2>3, <2>4 DEF Inv
<1>10. CASE ReadPng
  BY <1>A, <1>B, <1>10, PngMoves
     DEF ReadPng, PngReadable, IsFile, Inv, TypeOK, Ahead, Unmatched, Reading,
         Read, count, entry
<1>11. CASE SkipHeader \/ ReadPalette \/ ReadPixels
  <2>1. /\ pc \in {"dib", "palette", "pixels"} /\ c \in 1..count /\ entry' = entry
        /\ UNCHANGED <<ioVars, callVars, scanVars, imageVars, matched>>
        /\ pc' = IF pc = "dib" THEN "palette"
                 ELSE IF pc = "palette" THEN "pixels" ELSE "filter"
        /\ completed' = IF pc = "pixels" THEN completed + 1 ELSE completed
        /\ ~IsPng(bitmap)
    BY <1>11 DEF SkipHeader, PassHeader, ReadPalette, ReadPixels, PixelsRead,
                 entry, Inv, TypeOK, Ahead
  <2>2. /\ entry.dib_offset \in 0..MaxOffset /\ bitmap \in Header
        /\ bitmap.size \in Nat /\ completed \in Nat
        /\ offset \in 0..MaxOffset /\ pos \in 0..MaxOffset
    BY <1>B, <2>1 DEF Inv, TypeOK, Header
  <2>3. CASE SkipHeader
    <3>1. /\ pc = "dib" /\ HeaderSupported /\ offset = entry.dib_offset
      BY <2>3 DEF SkipHeader, PassHeader, Inv, Ahead, Reading
    <3>2. /\ pos' \in 0..MaxOffset /\ pos' <= file.len /\ offset' \in 0..MaxOffset
          /\ pos' = file.len
             \/ (offset' = entry.dib_offset + bitmap.size /\ pos' >= offset')
      BY <2>3, <3>1, HeaderMoves
    <3>3. TypeOK' /\ Unmatched'
      BY <1>A, <2>1, <2>2, <3>1, <3>2 DEF Inv, TypeOK, Unmatched, count
    <3>4. Ahead'
      BY <1>A, <2>1, <2>2, <3>1, <3>2
         DEF Ahead, Reading, Read, Passed, HeaderSupported
    <3>. QED
      BY <3>3, <3>4 DEF Inv
  <2>4. CASE ReadPalette
    <3>1. pc = "palette" /\ HeaderSupported
      BY <2>4 DEF ReadPalette, Inv, Ahead
    <3>2. /\ pos' \in 0..MaxOffset /\ pos' <= file.len /\ offset' \in 0..MaxOffset
          /\ palette_count(bitmap) \in 0..256 /\ PaletteBytes(bitmap) \in Nat
          /\ pos' = file.len
             \/ (offset' = entry.dib_offset + (bitmap.size + PaletteBytes(bitmap))
                   /\ pos' >= offset')
      BY <2>2, <2>4, <3>1, PaletteMoves
    <3>3. TypeOK' /\ Unmatched'
      BY <1>A, <2>1, <2>2, <3>1, <3>2 DEF Inv, TypeOK, Unmatched, count
    <3>4. Ahead'
      BY <1>A, <2>1, <2>2, <3>1, <3>2
         DEF Ahead, Reading, Read, Passed, HeaderSupported
    <3>. QED
      BY <3>3, <3>4 DEF Inv
  <2>5. CASE ReadPixels
    <3>1. pc = "pixels"
      BY <2>5 DEF ReadPixels, PixelsRead
    <3>2. /\ pos' \in 0..MaxOffset /\ pos' <= file.len /\ offset' \in 0..MaxOffset
          /\ offset' > entry.dib_offset /\ pos' >= offset'
      BY <2>2, <2>5, <3>1, PixelsMove, HeaderBytes
    <3>3. TypeOK' /\ Unmatched'
      BY <1>A, <2>1, <2>2, <3>1, <3>2 DEF Inv, TypeOK, Unmatched, count
    <3>4. Ahead'
      BY <1>A, <2>1, <2>2, <3>1, <3>2 DEF Ahead, Reading, Read
    <3>. QED
      BY <3>3, <3>4 DEF Inv
  <2>. QED
    BY <1>11, <2>3, <2>4, <2>5
<1>12. CASE FilterOut
  <2>1. /\ Read /\ Take(FALSE) /\ file' = file /\ pc' = "scan" /\ c' = c + 1
        /\ UNCHANGED <<ioVars, streamVars, tallyVars, imageVars, min_offset,
                       previous, headers, result>>
    BY <1>12 DEF FilterOut, DoNext, Read
  <2>2. log' \in Seq([entry: Images(file'), index: Nat, start: 0..MaxOffset,
                      png: BOOLEAN, shown: BOOLEAN])
    BY <2>1, TakeLogs
  <2>3. TypeOK'
    BY <1>A, <2>1, <2>2 DEF Inv, TypeOK, Read, count
  <2>4. Ahead' /\ Unmatched'
    BY <1>A, <1>B, <2>1 DEF Least, Inv, TypeOK, Ahead, Unmatched, Reading, Read
  <2>. QED
    BY <2>3, <2>4 DEF Inv
<1>13. CASE Match
  BY <1>A, <1>B, <1>13
     DEF Match, Inv, TypeOK, Ahead, Unmatched, Reading, Read, count, entry
<1>14. CASE PrintImage
  <2>1. /\ Read /\ Take(TRUE) /\ file' = file /\ pc' = "scan" /\ c' = c + 1
        /\ UNCHANGED <<ioVars, pos, tallyVars, imageVars, min_offset,
                       previous, headers, result>>
        /\ AfterImage
    BY <1>14 DEF PrintImage, DoNext, Read
  <2>2. log' \in Seq([entry: Images(file'), index: Nat, start: 0..MaxOffset,
                      png: BOOLEAN, shown: BOOLEAN])
    BY <2>1, TakeLogs
  <2>3. offset' \in 0..MaxOffset /\ offset' <= pos
    BY <2>1, AfterImageMoves
  <2>. QED
    BY <1>A, <1>B, <2>1, <2>2, <2>3
       DEF Least, Inv, TypeOK, Ahead, Unmatched, Reading, Read, count, entry
<1>15. CASE OpenOut
  BY <1>A, <1>B, <1>15
     DEF OpenOut, Open, Inv, TypeOK, Ahead, Unmatched, Reading, Read, count,
         entry
<1>16. CASE OpenFails
  BY <1>A, <1>B, <1>16
     DEF OpenFails, Inv, TypeOK, Ahead, Unmatched, Reading, Read, count, entry
<1>17. CASE WriteImage
  <2>1. /\ Read /\ Take(TRUE) /\ file' = file /\ pc' = "scan" /\ c' = c + 1
        /\ UNCHANGED <<inputVars, pos, tallyVars, imageVars, min_offset,
                       previous, headers, result>>
        /\ stdout' \in {"open", "closed"}
        /\ AfterImage
    BY <1>17 DEF WriteImage, CloseOut, DoNext, Read, Inv, TypeOK
  <2>2. log' \in Seq([entry: Images(file'), index: Nat, start: 0..MaxOffset,
                      png: BOOLEAN, shown: BOOLEAN])
    BY <2>1, TakeLogs
  <2>3. offset' \in 0..MaxOffset /\ offset' <= pos
    BY <2>1, AfterImageMoves
  <2>. QED
    BY <1>A, <1>B, <2>1, <2>2, <2>3
       DEF Least, Inv, TypeOK, Ahead, Unmatched, Reading, Read, count, entry
<1>18. CASE RejectPixels
  BY <1>A, <1>B, <1>18
     DEF RejectPixels, CloseOut, cleanup, Inv, TypeOK, Ahead, Unmatched,
         Reading, Read, count, entry
<1>19. CASE WriteFails
  BY <1>A, <1>B, <1>19
     DEF WriteFails, cleanup, Inv, TypeOK, Ahead, Unmatched, Reading, Read,
         count, entry
<1>20. CASE LibpngAborts
  BY <1>A, <1>B, <1>20
     DEF LibpngAborts, Inv, TypeOK, Ahead, Unmatched, Reading, Read, count,
         entry
<1>21. CASE UNCHANGED vars
  BY <1>A, <1>B, <1>21
     DEF vars, Inv, TypeOK, Ahead, Unmatched, Reading, Read, Passed,
         HeaderSupported, count, entry
<1>. QED
  BY <1>1, <1>2, <1>3, <1>4, <1>5, <1>6, <1>7, <1>8, <1>9, <1>10, <1>11,
     <1>12, <1>13, <1>14, <1>15, <1>16, <1>17, <1>18, <1>19, <1>20, <1>21
     DEF Next, RejectDir, RejectEntries, Unrecoverable, RejectHeader,
         RejectPng, RejectDib, RejectPalette, RejectImage,
         RejectPrint
-----------------------------------------------------------------------------

LEMMA NextGrows ==
  Inv /\ [Next]_vars /\ ~Returned /\ ~Returned' => Compared' >= Compared
<1>. SUFFICES ASSUME Inv, [Next]_vars, ~Returned, ~Returned'
              PROVE  Compared' >= Compared
  OBVIOUS
<1>. USE DEF ioVars, inputVars, streamVars, scanVars, InImage
<1>1. /\ offset \in Nat /\ min_offset \in Nat /\ count \in Nat
      /\ InImage => entry.dib_offset \in Nat /\ entry.dib_size \in Nat
  BY EntryType, LimitsAssumption DEF Inv, TypeOK, InImage, IsFile, count
<1>2. CASE ReadEntries
  BY <1>1, <1>2
     DEF ReadEntries, Inv, Ahead, SizeofFileDir, SizeofFileDirEntry, Compared
<1>3. CASE SkipGarbage
  BY <1>1, <1>3 DEF SkipGarbage, Skip, Compared
<1>4. CASE ReadHeader
  <2>1. Compared' = entry.dib_offset /\ Compared = offset /\ entry.dib_offset = offset
    BY <1>4 DEF ReadHeader, Compared, entry
  <2>. QED
    BY <1>1, <2>1
<1>5. CASE InImage /\ InImage' /\ UNCHANGED <<file, c>>
  BY <1>1, <1>5 DEF Compared, entry
<1>6. CASE PrintImage \/ WriteImage
  <2>1. /\ Read /\ AfterImage /\ InImage /\ ~InImage'
    BY <1>6 DEF PrintImage, WriteImage, DoNext, Read
  <2>2. offset' >= entry.dib_offset
    BY <1>1, <2>1, AfterImageMoves DEF Inv, Ahead
  <2>. QED
    BY <2>1, <2>2 DEF Compared
<1>7. CASE FilterOut
  <2>1. Read /\ InImage /\ ~InImage' /\ offset' = offset
    BY <1>7 DEF FilterOut, DoNext, Read
  <2>. QED
    BY <1>1, <2>1 DEF Inv, Ahead, Compared
<1>8. CASE ~InImage /\ ~InImage' /\ offset' = offset
  BY <1>1, <1>8 DEF Compared
<1>9. CASE UNCHANGED vars
  BY <1>1, <1>9 DEF vars, Compared, entry
<1>. QED
  BY <1>2, <1>3, <1>4, <1>5, <1>6, <1>7, <1>8, <1>9
     DEF Next, ReadDir, RejectDir, RejectEntries, StartPass, Finish,
         PassOver, Overlook, EndPass, Unrecoverable, RejectHeader,
         ReadPng, RejectPng, SkipHeader, PassHeader, RejectDib, ReadPalette,
         RejectPalette, ReadPixels, PixelsRead, RejectImage, Match,
         RejectPrint, OpenOut, Open, OpenFails, RejectPixels, WriteFails,
         LibpngAborts, GotoCleanup, cleanup, Returned
-----------------------------------------------------------------------------
(* Where the stream stands exactly, if it can go back for a PNG and no PNG *)
(* was filtered out.                                                       *)
Regular == opt.seekable /\ ~PassedOverPng

InSync ==
  Regular =>
    /\ pc \in {"pass", "scan"} => pos = Least(offset, file.len)
    /\ Reading => pos = offset + SizeofBitmapInfoHeader
    /\ Midway => pos \in {offset, file.len}
    /\ Read => pos = IF IsPng(bitmap) THEN offset + entry.dib_size ELSE offset

LEMMA TakeStaysRegular ==
  ASSUME Inv, Read, NEW shown \in BOOLEAN, Take(shown), file' = file, opt' = opt,
         Regular'
  PROVE  Regular /\ (shown \/ ~IsPng(bitmap))
<1>1. log \in Seq([entry: Images(file), index: Nat, start: 0..MaxOffset,
                   png: BOOLEAN, shown: BOOLEAN])
  BY DEF Inv, TypeOK
<1>2. Len(log) \in Nat
  BY <1>1
<1>3. /\ Len(log') = Len(log) + 1
      /\ \A k \in 1..Len(log) : log'[k] = log[k]
      /\ log'[Len(log')] = [entry |-> c, index |-> completed, start |-> start,
                            png |-> IsPng(bitmap), shown |-> shown]
  BY TakeLogs
<1>4. opt.seekable
  BY DEF Regular
<1>5. \A k \in 1..Len(log') : ~(log'[k].png /\ ~log'[k].shown)
  BY DEF Regular, PassedOverPng
<1>6. ~PassedOverPng
  BY <1>2, <1>3, <1>5 DEF PassedOverPng
<1>7. ~(IsPng(bitmap) /\ ~shown)
  BY <1>2, <1>3, <1>5
<1>. QED
  BY <1>4, <1>6, <1>7 DEF Regular

LEMMA OtherStaysRegular ==
  ASSUME log' = log, opt' = opt
  PROVE  Regular' = Regular
BY DEF Regular, PassedOverPng

LEMMA NextInSync == Inv /\ InSync /\ [Next]_vars => InSync'
<1>. SUFFICES ASSUME Inv, InSync, [Next]_vars PROVE InSync'
  OBVIOUS
<1>. USE LimitsAssumption
<1>. USE DEF ioVars, inputVars, streamVars, scanVars, tallyVars, imageVars,
             callVars, Midway
<1>1. /\ file.len \in 0..MaxOffset /\ count \in Nat
      /\ pos \in 0..MaxOffset /\ offset \in 0..MaxOffset
      /\ pos <= file.len /\ min_offset \in 0..MaxOffset
  BY DEF Inv, TypeOK, Ahead, IsFile, count
<1>2. CASE ReadEntries
  <2>1. /\ pc' = "pass" /\ pos' = offset' /\ pos' <= file.len /\ file' = file
        /\ offset' \in Nat
    BY <1>1, <1>2 DEF ReadEntries, EntriesReadable, CanRead, Inv, Ahead,
       SizeofFileDir, SizeofFileDirEntry
  <2>. QED
    BY <1>1, <2>1 DEF InSync, Reading, Read, Least
<1>3. CASE StartPass \/ PassOver \/ EndPass
  BY <1>3, OtherStaysRegular
     DEF StartPass, PassOver, Overlook, EndPass, InSync, Reading, Read
<1>4. CASE SkipGarbage
  <2>1. /\ pc = "scan" /\ pc' = "pass" /\ file' = file /\ Regular' = Regular
        /\ min_offset > offset /\ offset' = min_offset
        /\ pos' = Least(pos + (min_offset - offset), file.len)
    BY <1>4, OtherStaysRegular DEF SkipGarbage, Skip, AfterGarbage
  <2>2. pos = Least(offset, file.len) => pos' = Least(offset', file.len)
    BY <1>1, <2>1 DEF Least
  <2>. QED
    BY <2>1, <2>2 DEF InSync, Reading, Read
<1>5. CASE ReadHeader
  <2>1. /\ pc = "scan" /\ pc' \in {"png", "dib"} /\ Regular' = Regular
        /\ offset' = offset /\ pos' = pos + 40 /\ pos + 40 <= file.len
    BY <1>5, OtherStaysRegular DEF ReadHeader, CanRead, SizeofBitmapInfoHeader
  <2>2. pos = Least(offset, file.len) => pos' = offset' + 40
    BY <1>1, <2>1 DEF Least
  <2>. QED
    BY <2>1, <2>2 DEF InSync, Reading, Read, SizeofBitmapInfoHeader
<1>6. CASE ReadPng
  <2>1. /\ pc' = "filter" /\ IsPng(bitmap') /\ offset' = offset /\ entry' = entry
        /\ pos' = PngStart + entry.dib_size /\ log' = log /\ opt' = opt
    BY <1>6 DEF ReadPng, PngReadable, entry
  <2>2. Regular' => PngStart = offset
    BY <2>1, OtherStaysRegular DEF PngStart, Regular
  <2>. QED
    BY <2>1, <2>2 DEF InSync, Reading, Read
<1>7. CASE SkipHeader \/ ReadPalette \/ ReadPixels
  <2>1. /\ log' = log /\ opt' = opt /\ file' = file /\ bitmap' = bitmap
        /\ ~IsPng(bitmap) /\ pc \in {"dib", "palette", "pixels"}
        /\ pc' = IF pc = "dib" THEN "palette"
                 ELSE IF pc = "palette" THEN "pixels" ELSE "filter"
    BY <1>7 DEF SkipHeader, PassHeader, ReadPalette, ReadPixels, PixelsRead,
                Inv, Ahead
  <2>2. Regular' = Regular
    BY <2>1, OtherStaysRegular
  <2>3. CASE SkipHeader
    <3>1. pc = "dib" /\ bitmap.size \in Int
      BY <2>3, LimitsAssumption DEF SkipHeader, PassHeader, Inv, TypeOK, Header
    <3>2. pos = offset + 40 => pos' \in {offset', file.len}
      BY <1>1, <2>3, <3>1, HeaderMoves DEF SizeofBitmapInfoHeader
    <3>. QED
      BY <2>1, <2>2, <3>1, <3>2 DEF InSync, Reading, Read, SizeofBitmapInfoHeader
  <2>4. CASE ReadPalette
    <3>1. pc = "palette"
      BY <2>4 DEF ReadPalette
    <3>2. pos \in {offset, file.len} => pos' \in {offset', file.len}
      BY <1>1, <2>4, <3>1, PaletteMoves
    <3>. QED
      BY <2>1, <2>2, <3>1, <3>2 DEF InSync, Reading, Read
  <2>5. CASE ReadPixels
    <3>1. pc = "pixels"
      BY <2>5 DEF ReadPixels, PixelsRead
    <3>2. pos \in {offset, file.len} => pos' = offset'
      BY <1>1, <2>5, <3>1, PixelsMove
    <3>. QED
      BY <2>1, <2>2, <3>1, <3>2 DEF InSync, Reading, Read
  <2>. QED
    BY <1>7, <2>3, <2>4, <2>5
<1>8. CASE Match \/ OpenOut
  BY <1>8, OtherStaysRegular DEF Match, OpenOut, Open, InSync, Reading, Read, entry
<1>9. CASE FilterOut
  <2>1. /\ Read /\ Take(FALSE) /\ file' = file /\ opt' = opt /\ pc' = "scan"
        /\ pos' = pos /\ offset' = offset
    BY <1>9 DEF FilterOut, DoNext, Read
  <2>2. Regular' => Regular /\ ~IsPng(bitmap)
    BY <2>1, TakeStaysRegular
  <2>. QED
    BY <1>1, <2>1, <2>2 DEF InSync, Reading, Read, Least
<1>10. CASE PrintImage \/ WriteImage
  <2>1. /\ Read /\ Take(TRUE) /\ file' = file /\ opt' = opt /\ pc' = "scan"
        /\ pos' = pos /\ AfterImage
    BY <1>10 DEF PrintImage, WriteImage, DoNext, Read
  <2>2. Regular' => Regular
    BY <2>1, TakeStaysRegular
  <2>3. /\ offset' = IF IsPng(bitmap) THEN offset + entry.dib_size ELSE offset
        /\ offset' \in 0..MaxOffset
    BY <2>1, AfterImageMoves
  <2>. QED
    BY <1>1, <2>1, <2>2, <2>3 DEF InSync, Reading, Read, Least
<1>11. CASE pc' \in {"entries", "return", "abort"}
  BY <1>11 DEF InSync, Reading, Read
<1>12. CASE UNCHANGED vars
  BY <1>12, OtherStaysRegular DEF vars, InSync, Reading, Read, entry
<1>. QED
  BY <1>2, <1>3, <1>4, <1>5, <1>6, <1>7, <1>8, <1>9, <1>10, <1>11, <1>12
     DEF Next, ReadDir, RejectDir, RejectEntries, Finish, Unrecoverable,
         RejectHeader, RejectPng, RejectDib, RejectPalette, RejectImage,
         RejectPrint, OpenFails,
         RejectPixels, WriteFails, LibpngAborts, GotoCleanup, cleanup
-----------------------------------------------------------------------------
(* The offset, and the image in hand, lie above every image of the log.    *)
OffsetPastLog == \A k \in 1..Len(log) : StartOf(log[k].entry) < offset
EntryPastLog ==
  \A k \in 1..Len(log) : StartOf(log[k].entry) < entry.dib_offset

Indexed == \A k \in 1..Len(log) : log[k].index = k

Sorted ==
  /\ \A k \in 1..Len(log) : log[k].start = StartOf(log[k].entry)
  /\ \A j, k \in 1..Len(log) : j < k =>
       StartOf(log[j].entry) < StartOf(log[k].entry)

(* Between reading an image and leaving it one more is completed than is   *)
(* in the log.                                                             *)
Counted ==
  /\ pc \in {"dir", "entries"} => log = <<>>
  /\ ~Read /\ pc \notin {"return", "abort"} => completed = Len(log)
  /\ Read => completed = Len(log) + 1

(* The image in hand lies where its entry says, above all those taken.     *)
InHand ==
  /\ pc \in {"pass", "scan"} => OffsetPastLog
  /\ Reading => start = offset /\ entry.dib_offset = offset /\ OffsetPastLog
  /\ Midway => start = entry.dib_offset /\ EntryPastLog
  /\ Read => /\ start = entry.dib_offset
             /\ EntryPastLog
             /\ IF IsPng(bitmap)
                THEN entry.dib_offset = offset /\ entry.dib_size > 0
                ELSE entry.dib_offset < offset

Ordered == Indexed /\ Counted /\ (Regular => Sorted /\ InHand)

LEMMA LogStarts ==
  ASSUME Inv
  PROVE  \A k \in 1..Len(log) : StartOf(log[k].entry) \in Nat
<1>1. ASSUME NEW S, log \in Seq(S), NEW k \in 1..Len(log)
      PROVE  log[k] \in S
  BY <1>1
<1>2. ASSUME NEW k \in 1..Len(log) PROVE log[k].entry \in 1..Len(file.dir)
  <2>1. log[k] \in [entry: Images(file), index: Nat, start: 0..MaxOffset,
                    png: BOOLEAN, shown: BOOLEAN]
    BY <1>1, <1>2 DEF Inv, TypeOK
  <2>. QED
    BY <2>1 DEF Images
<1>3. \A e \in 1..Len(file.dir) : file.dir[e] \in DirEntry
  BY DEF Inv, TypeOK, IsFile
<1>. QED
  BY <1>2, <1>3, LimitsAssumption DEF DirEntry, StartOf

LEMMA TakeStaysOrdered ==
  ASSUME Inv, Ordered, Read, NEW shown \in BOOLEAN, Take(shown),
         UNCHANGED <<inputVars, tallyVars>>, pc' = "scan",
         AfterImage \/ (UNCHANGED offset /\ ~shown)
  PROVE  Ordered'
<1>1. log \in Seq([entry: Images(file), index: Nat, start: 0..MaxOffset,
                   png: BOOLEAN, shown: BOOLEAN])
  BY DEF Inv, TypeOK
<1>2. Len(log) \in Nat
  BY <1>1
<1>3. /\ Len(log') = Len(log) + 1
      /\ \A k \in 1..Len(log) : log'[k] = log[k]
      /\ log'[Len(log) + 1] = [entry |-> c, index |-> completed, start |-> start,
                               png |-> IsPng(bitmap), shown |-> shown]
  BY TakeLogs DEF inputVars
<1>4. Indexed'
  BY <1>2, <1>3 DEF Ordered, Indexed, Counted, Read
<1>5. Counted'
  BY <1>3 DEF Ordered, Counted, Read, tallyVars
<1>6. ASSUME Regular' PROVE Sorted' /\ InHand'
  <2>1. Regular /\ (shown \/ ~IsPng(bitmap))
    BY <1>6, TakeStaysRegular DEF inputVars
  <2>2. /\ Sorted /\ start = entry.dib_offset /\ EntryPastLog
        /\ IF IsPng(bitmap) THEN entry.dib_offset = offset /\ entry.dib_size > 0
                            ELSE entry.dib_offset < offset
    BY <2>1 DEF Ordered, InHand, Read, Reading
  <2>3. /\ \A e : StartOf(e)' = StartOf(e)
        /\ StartOf(c) = entry.dib_offset
    BY DEF StartOf, entry, inputVars
  <2>4. Sorted'
    BY <1>2, <1>3, <2>2, <2>3
       DEF Sorted, OffsetPastLog, EntryPastLog, StartOf, inputVars
  <2>5. entry.dib_offset < offset'
    <3>1. offset \in 0..MaxOffset /\ entry.dib_size \in 0..MaxOffset
      BY EntryType DEF Inv, TypeOK, InImage, Read
    <3>2. CASE AfterImage
      BY <2>2, <3>1, <3>2, AfterImageMoves, LimitsAssumption
    <3>3. CASE UNCHANGED offset /\ ~shown
      BY <2>1, <2>2, <3>3
    <3>. QED
      BY <3>2, <3>3
  <2>6. \A k \in 1..Len(log) : StartOf(log[k].entry) \in Nat
    BY LogStarts
  <2>7. entry.dib_offset \in Nat /\ offset' \in Int
    <3>1. entry.dib_offset \in 0..MaxOffset
      BY EntryType DEF Inv, TypeOK, InImage, Read, StartOf, entry
    <3>2. offset' \in 0..MaxOffset
      BY AfterImageMoves DEF Inv, TypeOK
    <3>. QED
      BY <3>1, <3>2, LimitsAssumption
  <2>8. \A k \in 1..Len(log) : StartOf(log[k].entry) < offset'
    BY <2>2, <2>5, <2>6, <2>7 DEF EntryPastLog
  <2>9. OffsetPastLog'
    BY <1>2, <1>3, <2>3, <2>5, <2>8 DEF OffsetPastLog, StartOf, inputVars
  <2>. QED
    BY <2>4, <2>9 DEF InHand, Reading, Midway, Read
<1>. QED
  BY <1>4, <1>5, <1>6 DEF Ordered

LEMMA OtherStaysSorted ==
  ASSUME log' = log, file' = file, opt' = opt
  PROVE  /\ Indexed' <=> Indexed
         /\ Sorted' <=> Sorted
         /\ Regular' <=> Regular
         /\ offset' = offset => (OffsetPastLog' <=> OffsetPastLog)
         /\ c' = c => entry' = entry /\ (EntryPastLog' <=> EntryPastLog)
BY DEF Indexed, Sorted, Regular, PassedOverPng, OffsetPastLog, EntryPastLog,
       StartOf, entry

LEMMA NextOrdered ==
  Inv /\ Inv' /\ InSync /\ Ordered /\ [Next]_vars => Ordered'
<1>. SUFFICES ASSUME Inv, Inv', InSync, Ordered, [Next]_vars PROVE Ordered'
  OBVIOUS
<1>. USE LimitsAssumption
<1>. USE DEF ioVars, inputVars, streamVars, scanVars, tallyVars, imageVars,
             callVars, Midway
<1>1. /\ offset \in 0..MaxOffset /\ pos \in 0..MaxOffset
      /\ file.len \in 0..MaxOffset /\ completed \in Nat
  BY DEF Inv, TypeOK, IsFile
<1>2. \A k \in 1..Len(log) : StartOf(log[k].entry) \in Nat
  BY LogStarts
<1>3. CASE ReadDir \/ StartPass \/ PassOver \/ EndPass
  <2>1. /\ log' = log /\ file' = file /\ opt' = opt /\ offset' = offset
        /\ completed' = completed
        /\ \/ pc = "dir" /\ pc' = "entries"
           \/ pc \in {"pass", "scan"} /\ pc' \in {"pass", "scan"}
    BY <1>3 DEF ReadDir, StartPass, PassOver, Overlook, EndPass
  <2>. QED
    BY <2>1, OtherStaysSorted DEF Ordered, Counted, InHand, Reading, Read
<1>4. CASE ReadEntries
  <2>1. /\ log' = log /\ file' = file /\ opt' = opt /\ completed' = completed
        /\ pc = "entries" /\ pc' = "pass"
    BY <1>4 DEF ReadEntries
  <2>2. log = <<>> /\ log' = <<>>
    BY <2>1 DEF Ordered, Counted
  <2>3. OffsetPastLog'
    BY <2>2 DEF OffsetPastLog
  <2>. QED
    BY <2>1, <2>3, OtherStaysSorted DEF Ordered, Counted, InHand, Reading, Read
<1>5. CASE SkipGarbage
  <2>1. /\ log' = log /\ file' = file /\ opt' = opt /\ completed' = completed
        /\ pc = "scan" /\ pc' = "pass"
        /\ offset' = min_offset /\ min_offset > offset
    BY <1>5 DEF SkipGarbage, Skip
  <2>2. min_offset \in 0..MaxOffset
    BY DEF Inv, TypeOK
  <2>3. OffsetPastLog => OffsetPastLog'
    BY <1>1, <1>2, <2>1, <2>2 DEF OffsetPastLog, StartOf
  <2>. QED
    BY <2>1, <2>3, OtherStaysSorted DEF Ordered, Counted, InHand, Reading, Read
<1>6. CASE ReadHeader
  <2>1. /\ log' = log /\ file' = file /\ opt' = opt /\ completed' = completed
        /\ pc = "scan" /\ pc' \in {"png", "dib"} /\ c' = c /\ offset' = offset
        /\ entry.dib_offset = offset /\ start' = pos /\ pos + 40 <= file.len
    BY <1>6 DEF ReadHeader, CanRead, SizeofBitmapInfoHeader, StartOf, entry
  <2>2. Regular => start' = offset
    BY <1>1, <2>1 DEF InSync, Least
  <2>. QED
    BY <2>1, <2>2, OtherStaysSorted
       DEF Ordered, Counted, InHand, Reading, Read
<1>7. CASE ReadPng
  <2>1. /\ log' = log /\ file' = file /\ opt' = opt /\ completed' = completed + 1
        /\ pc = "png" /\ pc' = "filter" /\ c' = c /\ offset' = offset
        /\ start' = PngStart /\ entry.dib_size > 0 /\ IsPng(bitmap')
    BY <1>7 DEF ReadPng, PngReadable, CanRead
  <2>2. Regular => start' = offset
    BY <2>1 DEF Regular, PngStart
  <2>3. Regular' => /\ start' = (entry.dib_offset)' /\ EntryPastLog'
                    /\ (entry.dib_offset)' = offset' /\ (entry.dib_size > 0)'
    BY <2>1, <2>2, OtherStaysSorted
       DEF Ordered, InHand, Reading, OffsetPastLog, EntryPastLog
  <2>. QED
    BY <2>1, <2>3, OtherStaysSorted
       DEF Ordered, Counted, InHand, Reading, Read
<1>8. CASE SkipHeader \/ ReadPalette \/ ReadPixels
  <2>1. /\ log' = log /\ file' = file /\ opt' = opt
        /\ c' = c /\ start' = start /\ bitmap' = bitmap /\ ~IsPng(bitmap)
        /\ pc \in {"dib", "palette", "pixels"}
        /\ pc' = IF pc = "dib" THEN "palette"
                 ELSE IF pc = "palette" THEN "pixels" ELSE "filter"
        /\ completed' = IF pc = "pixels" THEN completed + 1 ELSE completed
    BY <1>8 DEF SkipHeader, PassHeader, ReadPalette, ReadPixels, PixelsRead,
                Inv, Ahead
  <2>2. Regular => start = entry.dib_offset /\ EntryPastLog
    BY <2>1 DEF Ordered, InHand, Reading, OffsetPastLog, EntryPastLog
  <2>3. pc' = "filter" => (entry.dib_offset)' < offset'
    BY <2>1 DEF Inv, Ahead, Read
  <2>. QED
    BY <1>1, <2>1, <2>2, <2>3, OtherStaysSorted
       DEF Ordered, Counted, InHand, Reading, Read
<1>9. CASE Match \/ OpenOut
  <2>1. /\ log' = log /\ file' = file /\ opt' = opt /\ completed' = completed
        /\ Read /\ Read' /\ c' = c /\ offset' = offset /\ start' = start
        /\ bitmap' = bitmap
    BY <1>9 DEF Match, OpenOut, Open, Read
  <2>. QED
    BY <2>1, OtherStaysSorted DEF Ordered, Counted, InHand, Reading, Read
<1>10. CASE FilterOut
  BY <1>10, TakeStaysOrdered DEF FilterOut, DoNext, Read
<1>11. CASE PrintImage \/ WriteImage
  BY <1>11, TakeStaysOrdered DEF PrintImage, WriteImage, DoNext, Read
<1>12. CASE pc' \in {"return", "abort"} /\ UNCHANGED <<log, file, opt>>
  BY <1>12, OtherStaysSorted DEF Ordered, Counted, InHand, Reading, Read
<1>13. CASE UNCHANGED vars
  <2>. QED
    BY <1>13, OtherStaysSorted
       DEF vars, Ordered, Counted, InHand, Reading, Read, OffsetPastLog, EntryPastLog
<1>. QED
  BY <1>3, <1>4, <1>5, <1>6, <1>7, <1>8, <1>9, <1>10, <1>11, <1>12, <1>13
     DEF Next, RejectDir, RejectEntries, Finish, Unrecoverable,
         RejectHeader, RejectPng, RejectDib, RejectPalette, RejectImage,
         RejectPrint, OpenFails,
         RejectPixels, WriteFails, LibpngAborts, GotoCleanup, cleanup
-----------------------------------------------------------------------------
LEMMA HeaderStack ==
  ASSUME NEW name, NEW other
  PROVE  /\ restore_message_header(<<name>>) = <<>>
         /\ Replaced(<<name>>, other) = <<other>>
<1>1. restore_message_header(<<name>>) = <<>>
  BY SubSeqEmpty DEF restore_message_header
<1>. QED
  BY <1>1 DEF set_message_header, Replaced

LEMMA NextHeaders == HeadersBalanced /\ [Next]_vars => HeadersBalanced'
<1>. SUFFICES ASSUME HeadersBalanced, [Next]_vars PROVE HeadersBalanced'
  OBVIOUS
<1>1. CASE OpenOut \/ OpenFails
  BY <1>1, HeaderStack DEF OpenOut, Open, OpenFails, HeadersBalanced
<1>2. CASE pc # "return" /\ pc' = "return"
           /\ headers' = restore_message_header(headers)
  BY <1>2, HeaderStack DEF HeadersBalanced
<1>3. CASE pc # "return" /\ pc' # "return" /\ headers' = headers
  BY <1>3 DEF HeadersBalanced
<1>4. CASE UNCHANGED vars
  BY <1>4 DEF vars, HeadersBalanced
<1>. QED
  BY <1>1, <1>2, <1>3, <1>4
     DEF Next, ReadDir, RejectDir, ReadEntries, RejectEntries, StartPass,
         Finish, PassOver, Overlook, EndPass, SkipGarbage, Skip,
         Unrecoverable, ReadHeader, RejectHeader, ReadPng, RejectPng,
         SkipHeader, PassHeader,
         RejectDib, ReadPalette, RejectPalette, ReadPixels, PixelsRead, RejectImage, FilterOut, Match, PrintImage,
         RejectPrint, WriteImage, RejectPixels, WriteFails, LibpngAborts,
         DoNext, GotoCleanup, cleanup, callVars

(* Only --extract opens and writes.                                        *)
Writing == pc \in {"open", "write"} => ~opt.list

(* A call that fails so, or ends the program, is the last one.             *)
LastCall == ~opt.list /\ (pc = "abort" \/ (pc = "return" /\ result = -1))

(* Only while an image is written is its output open.                      *)
Closed == out = NoOut \/ (out = Stdout /\ stdout = "closed")

ClosedInv ==
  /\ Writing
  /\ pc = "write" \/ Closed \/ ("write" \in opt.faults /\ LastCall)

LEMMA NextWriting == Writing /\ [Next]_vars => Writing'
<1>. SUFFICES ASSUME Writing, [Next]_vars PROVE Writing'
  OBVIOUS
<1>. USE DEF ioVars, inputVars
<1>1. CASE Match \/ OpenOut
  BY <1>1 DEF Match, OpenOut, Open, Writing
<1>2. CASE pc' \notin {"open", "write"}
  BY <1>2 DEF Writing
<1>3. CASE UNCHANGED vars
  BY <1>3 DEF vars, Writing
<1>. QED
  BY <1>1, <1>2, <1>3
     DEF Next, ReadDir, RejectDir, ReadEntries, RejectEntries, StartPass,
         Finish, PassOver, Overlook, EndPass, SkipGarbage, Skip,
         Unrecoverable, ReadHeader, RejectHeader, ReadPng, RejectPng,
         SkipHeader, PassHeader,
         RejectDib, ReadPalette, RejectPalette, ReadPixels, PixelsRead, RejectImage, FilterOut, PrintImage, RejectPrint,
         OpenFails, WriteImage, RejectPixels, WriteFails, LibpngAborts,
         DoNext, GotoCleanup, cleanup

LEMMA NextClosed == ClosedInv /\ [Next]_vars => ClosedInv'
<1>. SUFFICES ASSUME ClosedInv, [Next]_vars PROVE ClosedInv'
  OBVIOUS
<1>. USE DEF ioVars, inputVars
<1>0. Writing'
  BY NextWriting DEF ClosedInv
<1>1. CASE OpenOut
  BY <1>0, <1>1 DEF OpenOut, Open, ClosedInv
<1>2. CASE WriteImage \/ RejectPixels
  BY <1>0, <1>2 DEF WriteImage, RejectPixels, CloseOut, ClosedInv, Closed
<1>3. CASE WriteFails \/ LibpngAborts
  BY <1>0, <1>3
     DEF WriteFails, LibpngAborts, cleanup, OutClosed, ClosedInv, Closed,
         LastCall, Writing
<1>4. CASE pc \notin {"write", "return", "abort"} /\ UNCHANGED <<out, stdout>>
  BY <1>0, <1>4 DEF ClosedInv, Closed, LastCall
<1>5. CASE UNCHANGED vars
  BY <1>0, <1>5 DEF vars, ClosedInv, Closed, LastCall
<1>. QED
  BY <1>1, <1>2, <1>3, <1>4, <1>5
     DEF Next, ReadDir, RejectDir, ReadEntries, RejectEntries, StartPass,
         Finish, PassOver, Overlook, EndPass, SkipGarbage, Skip,
         Unrecoverable, ReadHeader, RejectHeader, ReadPng, RejectPng,
         SkipHeader, PassHeader,
         RejectDib, ReadPalette, RejectPalette, ReadPixels, PixelsRead, RejectImage, FilterOut, Match, PrintImage,
         RejectPrint, OpenFails, DoNext, GotoCleanup, cleanup

(* The outputs hold images, each of them whole unless the call that was    *)
(* writing it has failed.                                                  *)
Image == [start: 0..MaxOffset, index: Nat, whole: BOOLEAN]

DiskOK ==
  /\ Stdout \in DOMAIN disk
  /\ disk = [n \in DOMAIN disk |-> disk[n]]
  /\ \A n \in DOMAIN disk : disk[n] \in Seq(Image)
  /\ pc = "write" => out \in DOMAIN disk

AllWhole == \A n \in DOMAIN disk : \A k \in 1..Len(disk[n]) : disk[n][k].whole

WholeInv ==
  /\ Writing
  /\ DiskOK
  /\ "flush" \notin opt.faults => AllWhole \/ LastCall

LEMMA WrittenIsDisk ==
  ASSUME Inv, DiskOK, pc = "write", NEW whole \in BOOLEAN, disk' = Written(whole)
  PROVE  /\ DOMAIN disk' = DOMAIN disk
         /\ disk' = [n \in DOMAIN disk' |-> disk'[n]]
         /\ \A n \in DOMAIN disk : disk'[n] \in Seq(Image)
         /\ whole /\ AllWhole => AllWhole'
<1>. DEFINE new == [start |-> start, index |-> completed, whole |-> whole]
<1>1. new \in Image
  BY DEF Inv, TypeOK, Image
<1>2. /\ DOMAIN disk' = DOMAIN disk /\ out \in DOMAIN disk
      /\ disk'[out] = Append(disk[out], new)
      /\ \A n \in DOMAIN disk \ {out} : disk'[n] = disk[n]
      /\ disk' = [n \in DOMAIN disk' |-> disk'[n]]
  BY DEF Written, DiskOK
<1>. HIDE DEF new
<1>3. disk[out] \in Seq(Image)
  BY <1>2 DEF DiskOK
<1>. HIDE DEF Image
<1>4. /\ disk'[out] \in Seq(Image)
      /\ Len(disk'[out]) = Len(disk[out]) + 1
      /\ \A k \in 1..Len(disk[out]) : disk'[out][k] = disk[out][k]
      /\ disk'[out][Len(disk[out]) + 1] = new
      /\ Len(disk[out]) \in Nat
  BY <1>1, <1>2, <1>3
<1>5. \A n \in DOMAIN disk : disk'[n] \in Seq(Image)
  BY <1>2, <1>4 DEF DiskOK
<1>6. ASSUME whole, AllWhole, NEW n \in DOMAIN disk, NEW k \in 1..Len(disk'[n])
      PROVE  disk'[n][k].whole
  <2>1. CASE n # out
    BY <1>2, <1>6, <2>1 DEF AllWhole
  <2>2. CASE n = out /\ k \in 1..Len(disk[out])
    BY <1>2, <1>4, <1>6, <2>2 DEF AllWhole
  <2>3. CASE n = out /\ k = Len(disk[out]) + 1
    <3>1. new.whole = whole
      BY DEF new
    <3>. QED
      BY <1>4, <1>6, <2>3, <3>1
  <2>4. ASSUME n = out PROVE k \in 1..Len(disk[out]) \/ k = Len(disk[out]) + 1
    <3>1. k \in 1..(Len(disk[out]) + 1)
      BY <1>4, <1>6, <2>4
    <3>. QED
      BY <1>4, <3>1
  <2>. QED
    BY <2>1, <2>2, <2>3, <2>4
<1>. QED
  BY <1>2, <1>5, <1>6 DEF AllWhole

LEMMA NextWhole == Inv /\ WholeInv /\ [Next]_vars => WholeInv'
<1>. SUFFICES ASSUME Inv, WholeInv, [Next]_vars PROVE WholeInv'
  OBVIOUS
<1>. USE DEF ioVars, inputVars
<1>0. Writing'
  BY NextWriting DEF WholeInv
<1>1. CASE OpenOut
  <2>1. disk' = IF out' = Stdout THEN disk ELSE Create(out')
    BY <1>1 DEF OpenOut, Open
  <2>2. /\ pc = "open" /\ pc' = "write" /\ opt' = opt
    BY <1>1 DEF OpenOut, Open
  <2>3. DiskOK' /\ (AllWhole => AllWhole')
    <3>1. CASE out' = Stdout
      BY <2>1, <2>2, <3>1 DEF WholeInv, DiskOK, AllWhole
    <3>2. CASE out' # Stdout
      <4>1. /\ DOMAIN disk' = DOMAIN disk \cup {out'}
            /\ disk'[out'] = <<>>
            /\ \A n \in DOMAIN disk : n # out' => disk'[n] = disk[n]
            /\ disk' = [n \in DOMAIN disk' |-> disk'[n]]
        BY <2>1, <3>2 DEF Create
      <4>2. <<>> \in Seq(Image) /\ Len(<<>>) = 0
        OBVIOUS
      <4>3. DiskOK'
        BY <2>2, <4>1, <4>2 DEF WholeInv, DiskOK, Open, OpenOut
      <4>4. ASSUME AllWhole, NEW n \in DOMAIN disk', NEW k \in 1..Len(disk'[n])
            PROVE  disk'[n][k].whole
        <5>1. n # out'
          BY <4>1, <4>2, <4>4
        <5>. QED
          BY <4>1, <4>4, <5>1 DEF AllWhole
      <4>. QED
        BY <4>3, <4>4 DEF AllWhole
    <3>. QED
      BY <3>1, <3>2
  <2>. QED
    BY <1>0, <2>2, <2>3 DEF WholeInv, LastCall
<1>2. CASE WriteImage
  <2>1. /\ pc = "write" /\ pc' = "scan" /\ opt' = opt
        /\ \/ disk' = disk
           \/ \E whole \in {TRUE, "flush" \notin opt.faults} : disk' = Written(whole)
    BY <1>2 DEF WriteImage, DoNext
  <2>2. DiskOK' /\ ("flush" \notin opt.faults /\ AllWhole => AllWhole')
    <3>1. CASE disk' = disk
      BY <2>1, <3>1 DEF WholeInv, DiskOK, AllWhole
    <3>2. ASSUME NEW whole \in {TRUE, "flush" \notin opt.faults}, disk' = Written(whole)
          PROVE  DiskOK' /\ ("flush" \notin opt.faults /\ AllWhole => AllWhole')
      <4>1. whole \in BOOLEAN /\ ("flush" \notin opt.faults => whole)
        BY <3>2
      <4>. QED
        BY <2>1, <3>2, <4>1, WrittenIsDisk DEF WholeInv, DiskOK
    <3>. QED
      BY <2>1, <3>1, <3>2
  <2>. QED
    BY <1>0, <2>1, <2>2 DEF WholeInv, LastCall
<1>3. CASE RejectPixels
  <2>1. /\ pc = "write" /\ pc' = "return" /\ result' = -1 /\ opt' = opt
        /\ disk' = disk \/ disk' = Written(FALSE)
    BY <1>3 DEF RejectPixels, cleanup
  <2>2. DiskOK'
    BY <2>1, WrittenIsDisk DEF WholeInv, DiskOK
  <2>. QED
    BY <1>0, <2>1, <2>2 DEF WholeInv, LastCall, Writing
<1>4. CASE WriteFails \/ LibpngAborts
  <2>1. /\ pc = "write" /\ opt' = opt
        /\ (pc' = "return" /\ result' = -1) \/ pc' = "abort"
        /\ disk' = disk \/ disk' = Written(FALSE)
    BY <1>4 DEF WriteFails, LibpngAborts, cleanup
  <2>2. DiskOK'
    BY <2>1, WrittenIsDisk DEF WholeInv, DiskOK
  <2>. QED
    BY <1>0, <2>1, <2>2 DEF WholeInv, LastCall, Writing
<1>5. CASE /\ pc \notin {"write", "return", "abort"} /\ pc' # "write"
           /\ UNCHANGED <<disk, opt>>
  BY <1>0, <1>5 DEF WholeInv, LastCall, DiskOK, AllWhole
<1>6. CASE UNCHANGED vars
  BY <1>0, <1>6 DEF vars, WholeInv, LastCall, DiskOK, AllWhole
<1>. QED
  BY <1>1, <1>2, <1>3, <1>4, <1>5, <1>6
     DEF Next, ReadDir, RejectDir, ReadEntries, RejectEntries, StartPass,
         Finish, PassOver, Overlook, EndPass, SkipGarbage, Skip,
         Unrecoverable, ReadHeader, RejectHeader, ReadPng, RejectPng,
         SkipHeader, PassHeader,
         RejectDib, ReadPalette, RejectPalette, ReadPixels, PixelsRead, RejectImage, FilterOut, Match, PrintImage,
         RejectPrint, OpenFails, DoNext, GotoCleanup, cleanup
-----------------------------------------------------------------------------
(* A call of which everything is promised.                                 *)

(* Where an image ends, and what its output is called.                     *)
End(e) == StartOf(e) + Extent(file, e)
NameOf(e) == OutName(Index(file, e), HeaderOf(file, e))

TakenImages == {log[k].entry : k \in 1..Len(log)}
Before(x) == {e \in Images(file) : StartOf(e) < x}
Chosen(S) == S \cap Wanted(opt, file)

(* What the log says of an image is what the file says.                    *)
Told ==
  \A k \in 1..Len(log) :
    /\ log[k].png <=> IsPng(HeaderOf(file, log[k].entry))
    /\ log[k].shown <=> log[k].entry \in Wanted(opt, file)

(* No image lies across x, and those before it have been taken.            *)
Aside(x) == \A e \in Images(file) : End(e) <= x \/ StartOf(e) >= x
Reached(x) == Aside(x) /\ TakenImages = Before(x)

(* A pass that has taken none yet knows the nearest image it passed over.  *)
Nearest ==
  /\ \A e \in 1..(c - 1) :
       StartOf(e) # offset /\ (StartOf(e) > offset => min_offset <= StartOf(e))
  /\ \/ min_offset = MaxOffset
     \/ \E e \in 1..(c - 1) : min_offset = StartOf(e) /\ StartOf(e) > offset

(* The outputs of this file are those of the images in S.                  *)
Naming == ~opt.list /\ opt.output = "names"
Outputs == {n \in DOMAIN disk : IsNameOf(file, n)}
Named(S) == Outputs = {NameOf(e) : e \in S}
Complete(S) == \A e \in S : disk[NameOf(e)] = WholeImage(file, e)
Extracted(S) == Named(S) /\ Complete(S)

Scanning ==
  pc \in {"pass", "scan", "png", "dib"} =>
    /\ Reached(offset)
    /\ completed = Cardinality(TakenImages)
    /\ matched = Cardinality(Chosen(TakenImages))
    /\ pc # "pass" => previous < count /\ previous <= completed
    /\ pc = "scan" /\ previous = completed => Nearest
    /\ Reading => bitmap = HeaderOf(file, c)
    /\ pc = "png" => IsPng(bitmap)

(* Of the DIB in hand the stream has passed as much as the offset.         *)
Entering ==
  Midway =>
    /\ Reached(StartOf(c))
    /\ bitmap = HeaderOf(file, c)
    /\ completed = Cardinality(TakenImages)
    /\ matched = Cardinality(Chosen(TakenImages))
    /\ previous < count /\ previous <= completed
    /\ offset = StartOf(c) + Passed
    /\ pos = offset

Holding ==
  Read =>
    /\ Reached(StartOf(c))
    /\ bitmap = HeaderOf(file, c)
    /\ completed = Cardinality(TakenImages) + 1
    /\ previous < count /\ previous < completed
    /\ offset = IF IsPng(bitmap) THEN StartOf(c) ELSE End(c)
    /\ IF pc = "filter"
       THEN matched = Cardinality(Chosen(TakenImages))
       ELSE /\ c \in Wanted(opt, file)
            /\ matched = Cardinality(Chosen(TakenImages)) + 1
            /\ opt.list <=> pc = "print"
    /\ pc = "write" => out # Stdout

Leaving ==
  /\ pc # "abort"
  /\ pc = "return" => /\ result = Cardinality(Wanted(opt, file))
                      /\ TakenImages = Images(file)

(* While an image is written, its output is there and still empty.         *)
Filed ==
  Naming =>
    /\ pc \in {"dir", "entries"} => Extracted({})
    /\ pc \in {"pass", "scan", "png", "dib", "palette", "pixels", "filter",
               "print", "open"} =>
         Extracted(Chosen(TakenImages))
    /\ pc = "write" => /\ Named(Chosen(TakenImages) \cup {c})
                       /\ Complete(Chosen(TakenImages))
                       /\ out = NameOf(c)
                       /\ disk[out] = <<>>
    /\ pc = "return" => Extracted(Wanted(opt, file))

Exact == Told /\ Scanning /\ Entering /\ Holding /\ Leaving

(* What holds at every point of a call of which everything is promised;    *)
(* Filed does too, if the outputs of the file are its own.                 *)
Kept == Promised(opt, file) /\ Inv /\ InSync /\ Ordered /\ Exact

-----------------------------------------------------------------------------
(* Images that lie apart.                                                  *)

LEMMA ImagesAreFinite ==
  ASSUME IsFile(file)
  PROVE  /\ Images(file) = 1..count /\ count \in Nat
         /\ IsFiniteSet(Images(file)) /\ Cardinality(Images(file)) = count
         /\ \A S \in SUBSET Images(file) :
              /\ IsFiniteSet(S) /\ Cardinality(S) \in Nat
              /\ Cardinality(S) >= count => S = Images(file)
<1>1. Images(file) = 1..count /\ count \in Nat
  BY DEF IsFile, Images, count
<1>2. IsFiniteSet(1..count) /\ Cardinality(1..count) = count
  BY <1>1, FS_Interval
<1>3. ASSUME NEW S \in SUBSET Images(file)
      PROVE  /\ IsFiniteSet(S) /\ Cardinality(S) \in Nat
             /\ Cardinality(S) >= count => S = Images(file)
  <2>1. IsFiniteSet(S) /\ Cardinality(S) <= count
        /\ (Cardinality(S) = count => S = Images(file))
    BY <1>1, <1>2, FS_Subset
  <2>2. Cardinality(S) \in Nat
    BY <2>1, FS_CardinalityType
  <2>. QED
    BY <1>1, <2>1, <2>2
<1>. QED
  BY <1>1, <1>2, <1>3

LEMMA StartIsOffset ==
  ASSUME IsFile(file), NEW e \in Images(file)
  PROVE  /\ StartOf(e) \in 0..MaxOffset
         /\ file.dir[e].dib_offset = StartOf(e)
         /\ file.dir[e].dib_size \in 0..MaxOffset
<1>1. file.dir[e] \in DirEntry
  BY DEF IsFile, Images
<1>. QED
  BY <1>1 DEF StartOf, DirEntry

(* Each image of a well-formed file can be read, and lies apart from the   *)
(* others.                                                                 *)
LEMMA Laid ==
  ASSUME IsFile(file), WellFormed(file), NEW e \in Images(file)
  PROVE  /\ StartOf(e) \in 0..MaxOffset /\ Extent(file, e) \in Nat /\ End(e) \in Nat
         /\ End(e) = StartOf(e) + Extent(file, e)
         /\ StartOf(e) >= 6 + count * 16
         /\ End(e) >= StartOf(e) + 40 /\ End(e) <= file.len
         /\ StartOf(e) \in DOMAIN file.image
         /\ HeaderOf(file, e) = file.image[StartOf(e)]
         /\ HeaderOf(file, e) \in Header
         /\ IF IsPng(HeaderOf(file, e))
            THEN /\ HeaderOf(file, e).clean
                 /\ Extent(file, e) = file.dir[e].dib_size
            ELSE /\ DibSupported(HeaderOf(file, e))
                 /\ Decodable(HeaderOf(file, e))
                 /\ Extent(file, e) = DibBytes(HeaderOf(file, e))
<1>1. /\ StartOf(e) \in 0..MaxOffset /\ file.dir[e].dib_offset = StartOf(e)
      /\ file.dir[e].dib_size \in 0..MaxOffset
  BY StartIsOffset
<1>2. /\ StartOf(e) \in DOMAIN file.image
      /\ HeaderOf(file, e) = file.image[StartOf(e)]
  BY <1>1 DEF WellFormed, HeaderOf
<1>3. HeaderOf(file, e) \in Header
  BY <1>2 DEF IsFile
<1>4. /\ StartOf(e) >= SizeofFileDir + count * SizeofFileDirEntry
      /\ StartOf(e) + Extent(file, e) <= file.len
      /\ Extent(file, e) >= SizeofBitmapInfoHeader
      /\ IF IsPng(HeaderOf(file, e)) THEN HeaderOf(file, e).clean
         ELSE DibSupported(HeaderOf(file, e)) /\ Decodable(HeaderOf(file, e))
  BY <1>1 DEF WellFormed, count
<1>5. Extent(file, e) \in Nat
  <2>1. CASE IsPng(HeaderOf(file, e))
    BY <1>1, <2>1, LimitsAssumption DEF Extent
  <2>2. CASE ~IsPng(HeaderOf(file, e))
    BY <1>3, <1>4, <2>2, HeaderBytes DEF Extent
  <2>. QED
    BY <2>1, <2>2
<1>6. IF IsPng(HeaderOf(file, e)) THEN Extent(file, e) = file.dir[e].dib_size
                                  ELSE Extent(file, e) = DibBytes(HeaderOf(file, e))
  BY DEF Extent
<1>7. /\ End(e) = StartOf(e) + Extent(file, e) /\ End(e) \in Nat
      /\ End(e) >= StartOf(e) + 40 /\ End(e) <= file.len
      /\ StartOf(e) >= 6 + count * 16
  BY <1>1, <1>4, <1>5, LimitsAssumption
     DEF End, SizeofFileDir, SizeofFileDirEntry, SizeofBitmapInfoHeader
<1>. QED
  BY <1>1, <1>2, <1>3, <1>4, <1>5, <1>6, <1>7

LEMMA Apart ==
  ASSUME IsFile(file), WellFormed(file), NEW e \in Images(file),
         NEW d \in Images(file), d # e
  PROVE  StartOf(d) >= End(e) \/ End(d) <= StartOf(e)
<1>1. /\ file.dir[e].dib_offset = StartOf(e) /\ file.dir[d].dib_offset = StartOf(d)
  BY StartIsOffset
<1>. QED
  BY <1>1 DEF WellFormed, End

(* Before an image, and behind it.                                         *)
LEMMA BeforeAndBehind ==
  ASSUME IsFile(file), WellFormed(file), NEW e \in Images(file)
  PROVE  /\ Aside(StartOf(e)) /\ Aside(End(e))
         /\ e \notin Before(StartOf(e))
         /\ Before(End(e)) = Before(StartOf(e)) \cup {e}
         /\ Index(file, e) = Cardinality(Before(StartOf(e))) + 1
<1>1. /\ StartOf(e) \in Nat /\ End(e) \in Nat /\ End(e) >= StartOf(e) + 40
  BY Laid, LimitsAssumption
<1>2. \A d \in Images(file) :
        /\ StartOf(d) \in Nat /\ End(d) \in Nat /\ End(d) >= StartOf(d) + 40
        /\ file.dir[d].dib_offset = StartOf(d)
  BY Laid, StartIsOffset, LimitsAssumption
<1>3. \A d \in Images(file) :
        d # e => StartOf(d) >= End(e) \/ End(d) <= StartOf(e)
  BY Apart
<1>4. Aside(StartOf(e)) /\ Aside(End(e))
  BY <1>1, <1>2, <1>3 DEF Aside
<1>5. e \notin Before(StartOf(e))
  BY <1>1 DEF Before
<1>6. \A d \in Images(file) :
        /\ StartOf(d) < End(e) <=> StartOf(d) < StartOf(e) \/ d = e
        /\ StartOf(d) <= StartOf(e) <=> StartOf(d) < StartOf(e) \/ d = e
  BY <1>1, <1>2, <1>3
<1>7. Before(End(e)) = Before(StartOf(e)) \cup {e}
  BY <1>6 DEF Before
<1>8. {d \in Images(file) : file.dir[d].dib_offset <= file.dir[e].dib_offset}
        = Before(StartOf(e)) \cup {e}
  BY <1>2, <1>6 DEF Before
<1>9. IsFiniteSet(Before(StartOf(e))) /\ Cardinality(Before(StartOf(e))) \in Nat
  BY ImagesAreFinite DEF Before
<1>. QED
  BY <1>4, <1>5, <1>7, <1>8, <1>9, FS_AddElement DEF Index

(* No two images have the same number, nor the same name.                  *)
LEMMA NamesDiffer ==
  ASSUME IsFile(file), WellFormed(file), opt.output = "names",
         NEW d \in Images(file), NEW e \in Images(file), NameOf(d) = NameOf(e)
  PROVE  d = e
<1>1. Index(file, d) = Index(file, e)
  BY DEF NameOf, OutName
<1>2. ASSUME NEW a \in Images(file), NEW b \in Images(file), StartOf(a) < StartOf(b)
      PROVE  Index(file, a) # Index(file, b)
  <2>1. \A x \in Images(file) : StartOf(x) \in Nat
    BY Laid, LimitsAssumption
  <2>2. Before(StartOf(a)) \subseteq Before(StartOf(b)) /\ a \in Before(StartOf(b))
    BY <1>2, <2>1 DEF Before
  <2>3. a \notin Before(StartOf(a)) /\ Before(StartOf(b)) \subseteq Images(file)
    BY BeforeAndBehind DEF Before
  <2>4. IsFiniteSet(Before(StartOf(b)))
    BY <2>3, ImagesAreFinite
  <2>5. Cardinality(Before(StartOf(a))) # Cardinality(Before(StartOf(b)))
    BY <2>2, <2>3, <2>4, FS_Subset
  <2>6. Before(StartOf(a)) \subseteq Images(file)
    BY DEF Before
  <2>7. /\ Cardinality(Before(StartOf(a))) \in Nat
        /\ Cardinality(Before(StartOf(b))) \in Nat
    BY <2>3, <2>6, ImagesAreFinite
  <2>8. /\ Index(file, a) = Cardinality(Before(StartOf(a))) + 1
        /\ Index(file, b) = Cardinality(Before(StartOf(b))) + 1
    BY BeforeAndBehind
  <2>. QED
    BY <2>5, <2>7, <2>8
<1>3. /\ StartOf(d) \in Nat /\ End(d) \in Nat /\ End(d) >= StartOf(d) + 40
      /\ StartOf(e) \in Nat /\ End(e) \in Nat /\ End(e) >= StartOf(e) + 40
  BY Laid, LimitsAssumption
<1>4. d # e => StartOf(d) < StartOf(e) \/ StartOf(e) < StartOf(d)
  BY <1>3, Apart
<1>. QED
  BY <1>1, <1>2, <1>4

LEMMA KeptFacts ==
  ASSUME Kept
  PROVE  /\ IsFile(file) /\ WellFormed(file) /\ opt.seekable /\ Regular
         /\ \A e \in Images(file) :
              IsPng(HeaderOf(file, e)) => e \in Wanted(opt, file)
         /\ opt.list \/ (opt.output # "-" /\ opt.faults = {})
         /\ count \in Nat /\ file.len \in 0..MaxOffset
         /\ pos \in 0..MaxOffset /\ offset \in 0..MaxOffset
         /\ min_offset \in 0..MaxOffset /\ c \in 1..(count + 1)
         /\ previous \in Nat /\ completed \in Nat /\ matched \in 0..completed
         /\ Reading \/ Midway \/ Read =>
              c \in Images(file) /\ entry.dib_offset = StartOf(c)
<1>1. /\ IsFile(file) /\ count \in Nat /\ file.len \in 0..MaxOffset
      /\ pos \in 0..MaxOffset /\ offset \in 0..MaxOffset
      /\ min_offset \in 0..MaxOffset /\ c \in 1..(count + 1)
      /\ previous \in Nat /\ completed \in Nat /\ matched \in 0..completed
      /\ Reading \/ Midway \/ Read => c \in 1..count
  BY DEF Kept, Inv, TypeOK, IsFile, count, InImage, Reading, Midway, Read
<1>2. /\ WellFormed(file) /\ opt.seekable
      /\ \A e \in Images(file) :
           IsPng(HeaderOf(file, e)) => e \in Wanted(opt, file)
      /\ opt.list \/ (opt.output # "-" /\ opt.faults = {})
  BY DEF Kept, Promised
<1>3. \A k \in 1..Len(log) : log[k].entry \in Images(file)
  <2>1. ASSUME NEW S, log \in Seq(S), NEW k \in 1..Len(log)
        PROVE  log[k] \in S
    BY <2>1
  <2>2. \A k \in 1..Len(log) :
          log[k] \in [entry: Images(file), index: Nat, start: 0..MaxOffset,
                      png: BOOLEAN, shown: BOOLEAN]
    BY <2>1 DEF Kept, Inv, TypeOK
  <2>. QED
    BY <2>2
<1>4. ~PassedOverPng
  BY <1>2, <1>3 DEF Kept, Exact, Told, PassedOverPng
<1>. QED
  BY <1>1, <1>2, <1>4 DEF Regular, Images, count, entry, StartOf

LEMMA FileStays == Next => file' = file /\ opt' = opt
BY DEF Next, ReadDir, RejectDir, ReadEntries, RejectEntries, StartPass, Finish,
       PassOver, Overlook, EndPass, SkipGarbage, Skip, Unrecoverable,
       ReadHeader, RejectHeader, ReadPng, RejectPng, SkipHeader, PassHeader,
         RejectDib, ReadPalette, RejectPalette, ReadPixels, PixelsRead, RejectImage, FilterOut, Match, PrintImage, RejectPrint, OpenOut, Open,
       OpenFails, WriteImage, RejectPixels, WriteFails, LibpngAborts,
       GotoCleanup, ioVars, inputVars

(* Nothing but the file and the options decides what lies where.           *)
LEMMA SameInputs ==
  ASSUME file' = file, opt' = opt
  PROVE  /\ Promised(opt, file)' <=> Promised(opt, file)
         /\ Images(file)' = Images(file) /\ count' = count
         /\ Wanted(opt, file)' = Wanted(opt, file)
         /\ Naming' <=> Naming
         /\ \A e : /\ StartOf(e)' = StartOf(e) /\ End(e)' = End(e)
                   /\ NameOf(e)' = NameOf(e)
                   /\ HeaderOf(file, e)' = HeaderOf(file, e)
                   /\ WholeImage(file, e)' = WholeImage(file, e)
         /\ \A S : Chosen(S)' = Chosen(S)
         /\ \A x : Before(x)' = Before(x) /\ (Aside(x)' <=> Aside(x))
BY DEF StartOf, End, NameOf, OutName, Naming, Chosen, Before, Aside, count

LEMMA SameOutputs ==
  ASSUME file' = file, opt' = opt, disk' = disk
  PROVE  /\ Outputs' = Outputs
         /\ \A S : /\ Named(S)' <=> Named(S)
                   /\ Complete(S)' <=> Complete(S)
<1>1. Outputs' = Outputs
  BY DEF Outputs
<1>. QED
  BY <1>1, SameInputs DEF Named, Complete

LEMMA SameLog ==
  ASSUME file' = file, opt' = opt, log' = log
  PROVE  /\ Told' <=> Told
         /\ TakenImages' = TakenImages
BY DEF Told, TakenImages

(* One image more is taken.                                                *)
LEMMA OneMore ==
  ASSUME Kept, Read, Take(c \in Wanted(opt, file)), file' = file, opt' = opt
  PROVE  /\ Told'
         /\ TakenImages' = Before(End(c))
         /\ c \in Images(file) /\ c \notin TakenImages
         /\ TakenImages' = TakenImages \cup {c}
         /\ Cardinality(TakenImages') = Cardinality(TakenImages) + 1
         /\ Chosen(TakenImages') = IF c \in Wanted(opt, file)
                                   THEN Chosen(TakenImages) \cup {c}
                                   ELSE Chosen(TakenImages)
         /\ Cardinality(Chosen(TakenImages')) =
              IF c \in Wanted(opt, file)
              THEN Cardinality(Chosen(TakenImages)) + 1
              ELSE Cardinality(Chosen(TakenImages))
<1>1. /\ IsFile(file) /\ WellFormed(file) /\ c \in Images(file)
  BY KeptFacts
<1>2. TakenImages = Before(StartOf(c)) /\ bitmap = HeaderOf(file, c) /\ Told
  BY DEF Kept, Exact, Holding, Reached
<1>3. /\ c \notin TakenImages
      /\ Before(End(c)) = TakenImages \cup {c}
  BY <1>1, <1>2, BeforeAndBehind
<1>4. /\ Len(log) \in Nat /\ Len(log') = Len(log) + 1
      /\ \A k \in 1..Len(log) : log'[k] = log[k]
      /\ log'[Len(log')] = [entry |-> c, index |-> completed, start |-> start,
                            png |-> IsPng(bitmap), shown |-> c \in Wanted(opt, file)]
  <2>1. (c \in Wanted(opt, file)) \in BOOLEAN
    OBVIOUS
  <2>2. Len(log) \in Nat
    BY DEF Kept, Inv, TypeOK
  <2>. QED
    BY <2>1, <2>2, TakeLogs DEF Kept
<1>5. 1..Len(log') = 1..Len(log) \cup {Len(log')}
  BY <1>4
<1>6. TakenImages' = TakenImages \cup {c}
  <2>1. TakenImages' = {log'[k].entry : k \in 1..Len(log')}
    BY DEF TakenImages
  <2>2. {log'[k].entry : k \in 1..Len(log')}
          = {log[k].entry : k \in 1..Len(log)} \cup {c}
    BY <1>4, <1>5
  <2>. QED
    BY <2>1, <2>2 DEF TakenImages
<1>7. Told'
  <2>1. \A k \in 1..Len(log') :
          /\ log'[k].png <=> IsPng(HeaderOf(file, log'[k].entry))
          /\ log'[k].shown <=> log'[k].entry \in Wanted(opt, file)
    <3>1. ASSUME NEW k \in 1..Len(log)
          PROVE  /\ log'[k].png <=> IsPng(HeaderOf(file, log'[k].entry))
                 /\ log'[k].shown <=> log'[k].entry \in Wanted(opt, file)
      BY <1>2, <1>4, <3>1 DEF Told
    <3>2. /\ log'[Len(log')].entry = c
          /\ log'[Len(log')].png = IsPng(bitmap)
          /\ log'[Len(log')].shown = (c \in Wanted(opt, file))
      BY <1>4
    <3>. QED
      BY <1>2, <1>5, <3>1, <3>2
  <2>. QED
    BY <2>1 DEF Told
<1>8. IsFiniteSet(TakenImages)
  BY <1>1, <1>2, ImagesAreFinite DEF Before
<1>9. IsFiniteSet(Chosen(TakenImages)) /\ c \notin Chosen(TakenImages)
  BY <1>3, <1>8, FS_Intersection DEF Chosen
<1>10. Chosen(TakenImages') = IF c \in Wanted(opt, file)
                              THEN Chosen(TakenImages) \cup {c}
                              ELSE Chosen(TakenImages)
  <2>1. Chosen(TakenImages \cup {c}) = IF c \in Wanted(opt, file)
                                       THEN Chosen(TakenImages) \cup {c}
                                       ELSE Chosen(TakenImages)
    BY DEF Chosen
  <2>2. Chosen(TakenImages') = (TakenImages \cup {c}) \cap Wanted(opt, file)
    BY <1>6 DEF Chosen
  <2>. QED
    BY <2>1, <2>2 DEF Chosen
<1>11. /\ Cardinality(TakenImages \cup {c}) = Cardinality(TakenImages) + 1
       /\ Cardinality(Chosen(TakenImages) \cup {c})
            = Cardinality(Chosen(TakenImages)) + 1
  BY <1>3, <1>8, <1>9, FS_AddElement
<1>. QED
  BY <1>1, <1>3, <1>6, <1>7, <1>10, <1>11

(* When a pass ends without progress, an image lies ahead, and it is the   *)
(* nearest that the code skips to.                                         *)
LEMMA NearestIsNext ==
  ASSUME Kept, pc = "scan", c > count, previous = completed
  PROVE  /\ min_offset > offset
         /\ Aside(min_offset) /\ Before(min_offset) = Before(offset)
<1>1. /\ IsFile(file) /\ WellFormed(file) /\ count \in Nat /\ c \in 1..(count + 1)
      /\ offset \in Nat /\ min_offset \in Nat /\ file.len \in Nat
      /\ file.len <= MaxOffset /\ MaxOffset \in Nat
  BY KeptFacts, LimitsAssumption
<1>2. 1..(c - 1) = Images(file)
  BY <1>1, ImagesAreFinite
<1>3. /\ \A e \in Images(file) : StartOf(e) \in Nat
      /\ \A e \in Images(file) : StartOf(e) < MaxOffset
  BY <1>1, Laid
<1>4. /\ \A e \in Images(file) :
           StartOf(e) # offset /\ (StartOf(e) > offset => min_offset <= StartOf(e))
      /\ \/ min_offset = MaxOffset
         \/ \E e \in Images(file) : min_offset = StartOf(e) /\ StartOf(e) > offset
      /\ previous < count /\ completed = Cardinality(TakenImages)
      /\ TakenImages = Before(offset)
  BY <1>2 DEF Kept, Exact, Scanning, Nearest, Reached
<1>5. TakenImages # Images(file)
  BY <1>1, <1>4, ImagesAreFinite
<1>6. PICK e \in Images(file) : StartOf(e) > offset
  BY <1>1, <1>3, <1>4, <1>5 DEF Before
<1>7. PICK d \in Images(file) : min_offset = StartOf(d) /\ StartOf(d) > offset
  BY <1>1, <1>3, <1>4, <1>6
<1>8. Before(min_offset) = Before(offset)
  <2>1. \A x \in Images(file) : StartOf(x) < min_offset <=> StartOf(x) < offset
    BY <1>1, <1>3, <1>4, <1>7
  <2>. QED
    BY <2>1 DEF Before
<1>9. Aside(StartOf(d))
  BY <1>1, <1>7, BeforeAndBehind
<1>. QED
  BY <1>1, <1>7, <1>8, <1>9
-----------------------------------------------------------------------------
(* Nothing of such a file is refused.                                      *)

LEMMA HeaderIsRead ==
  ASSUME Kept, pc = "scan", c <= count, entry.dib_offset = offset
  PROVE  /\ c \in Images(file) /\ StartOf(c) = offset
         /\ pos = offset /\ CanRead(pos, SizeofBitmapInfoHeader)
         /\ HeadersAt(pos) = {HeaderOf(file, c)}
<1>1. /\ IsFile(file) /\ WellFormed(file) /\ count \in Nat /\ c \in 1..(count + 1)
      /\ offset \in Nat /\ file.len \in Nat /\ Regular
  BY KeptFacts, LimitsAssumption
<1>2. c \in Images(file) /\ StartOf(c) = offset
  BY <1>1 DEF Images, count, StartOf, entry
<1>3. /\ StartOf(c) + 40 <= file.len /\ StartOf(c) \in DOMAIN file.image
      /\ HeaderOf(file, c) = file.image[StartOf(c)]
  <2>1. /\ End(c) >= StartOf(c) + 40 /\ End(c) <= file.len /\ End(c) \in Nat
        /\ StartOf(c) \in DOMAIN file.image
        /\ HeaderOf(file, c) = file.image[StartOf(c)]
    BY <1>1, <1>2, Laid
  <2>. QED
    BY <1>1, <1>2, <2>1
<1>4. pos = Least(offset, file.len)
  BY <1>1 DEF Kept, InSync
<1>. QED
  BY <1>1, <1>2, <1>3, <1>4 DEF Least, CanRead, SizeofBitmapInfoHeader, HeadersAt

LEMMA PngIsRead ==
  ASSUME Kept, pc = "png"
  PROVE  /\ c \in Images(file) /\ StartOf(c) = offset
         /\ PngReadable /\ PngStart = offset
         /\ file.image[PngStart] = HeaderOf(file, c)
         /\ IsPng(HeaderOf(file, c))
<1>1. /\ IsFile(file) /\ WellFormed(file) /\ offset \in Nat /\ file.len \in Nat
      /\ Regular /\ opt.seekable /\ c \in Images(file)
      /\ entry.dib_offset = StartOf(c)
  BY KeptFacts, LimitsAssumption DEF Reading
<1>2. entry.dib_offset = offset /\ IsPng(bitmap) /\ bitmap = HeaderOf(file, c)
  BY <1>1 DEF Kept, Ordered, InHand, Exact, Scanning, Reading
<1>3. entry = file.dir[c]
  BY DEF entry
<1>4. /\ StartOf(c) \in DOMAIN file.image /\ HeaderOf(file, c) = file.image[StartOf(c)]
      /\ HeaderOf(file, c).clean
      /\ End(c) = StartOf(c) + file.dir[c].dib_size
      /\ End(c) >= StartOf(c) + 40 /\ End(c) <= file.len
      /\ file.dir[c].dib_size \in 0..MaxOffset
  BY <1>1, <1>2, Laid, StartIsOffset
<1>5. PngStart = offset /\ StartOf(c) = offset
  BY <1>1, <1>2 DEF PngStart
<1>6. CanRead(offset, entry.dib_size)
  BY <1>1, <1>3, <1>4, <1>5, LimitsAssumption DEF CanRead
<1>. QED
  BY <1>1, <1>2, <1>4, <1>5, <1>6 DEF PngReadable

LEMMA DibIsSupported ==
  ASSUME Kept, pc \in {"dib", "palette", "pixels"}
  PROVE  /\ c \in Images(file) /\ StartOf(c) \in Nat /\ file.len \in 0..MaxOffset
         /\ bitmap = HeaderOf(file, c) /\ ~IsPng(bitmap)
         /\ bitmap \in Header /\ DibSupported(bitmap)
         /\ PaletteBytes(bitmap) \in Nat /\ PixelBytes(bitmap) \in Nat \ {0}
         /\ bitmap.size \in Nat /\ bitmap.size >= 40
         /\ End(c) = StartOf(c) + bitmap.size + PaletteBytes(bitmap)
                       + PixelBytes(bitmap)
         /\ End(c) <= file.len
         /\ pc = "dib" => pos = StartOf(c) + 40 /\ offset = StartOf(c)
         /\ pc # "dib" => pos = offset /\ offset = StartOf(c) + Passed
<1>1. /\ IsFile(file) /\ WellFormed(file) /\ file.len \in 0..MaxOffset
      /\ Regular /\ c \in Images(file) /\ entry.dib_offset = StartOf(c)
  BY KeptFacts DEF Reading, Midway
<1>2. /\ bitmap = HeaderOf(file, c) /\ ~IsPng(bitmap)
      /\ pc = "dib" => pos = StartOf(c) + 40 /\ offset = StartOf(c)
      /\ pc # "dib" => pos = offset /\ offset = StartOf(c) + Passed
  BY <1>1 DEF Kept, Exact, Scanning, Entering, Midway, Reading, Inv, Ahead,
              InSync, SizeofBitmapInfoHeader
<1>3. /\ bitmap \in Header /\ DibSupported(bitmap) /\ StartOf(c) \in Nat
      /\ End(c) = StartOf(c) + DibBytes(bitmap) /\ End(c) <= file.len
  BY <1>1, <1>2, Laid, LimitsAssumption
<1>4. /\ PaletteBytes(bitmap) \in Nat /\ PixelBytes(bitmap) \in Nat \ {0}
      /\ bitmap.size \in Nat /\ bitmap.size >= 40
      /\ DibBytes(bitmap) = bitmap.size + PaletteBytes(bitmap) + PixelBytes(bitmap)
  BY <1>3, HeaderBytes DEF SizeofBitmapInfoHeader
<1>5. End(c) = StartOf(c) + bitmap.size + PaletteBytes(bitmap) + PixelBytes(bitmap)
  BY <1>3, <1>4
<1>. QED
  BY <1>1, <1>2, <1>3, <1>4, <1>5

LEMMA DibIsRead ==
  ASSUME Kept
  PROVE  /\ pc = "dib" =>
              /\ HeaderSupported
              /\ AfterHeader = offset + bitmap.size
              /\ (offset + bitmap.size) % (MaxOffset + 1) = offset + bitmap.size
         /\ pc = "palette" =>
              /\ PaletteReadable
              /\ (offset + PaletteBytes(bitmap)) % (MaxOffset + 1)
                   = offset + PaletteBytes(bitmap)
         /\ pc = "pixels" =>
              /\ PixelsReadable
              /\ (offset + PixelBytes(bitmap)) % (MaxOffset + 1) = End(c)
<1>1. CASE pc = "dib"
  <2>1. /\ bitmap.size \in Nat /\ bitmap.size >= 40 /\ offset \in Nat
        /\ file.len \in 0..MaxOffset /\ pos = offset + 40
        /\ offset + bitmap.size <= file.len
        /\ DibSupported(bitmap)
    BY <1>1, DibIsSupported
  <2>2. AfterHeader = offset + bitmap.size
    BY <2>1, LimitsAssumption DEF AfterHeader, Least, SizeofBitmapInfoHeader
  <2>3. offset + bitmap.size \in 0..MaxOffset
    BY <2>1, LimitsAssumption
  <2>. QED
    BY <1>1, <2>1, <2>2, <2>3, RemainderOfSmall DEF HeaderSupported, DibSupported
<1>2. CASE pc = "palette"
  <2>1. /\ PaletteBytes(bitmap) \in Nat /\ offset \in Nat
        /\ file.len \in 0..MaxOffset /\ pos = offset
        /\ offset + PaletteBytes(bitmap) <= file.len
        /\ DibSupported(bitmap)
    BY <1>2, DibIsSupported DEF Passed
  <2>2. /\ palette_count(bitmap) \in 0..256
        /\ PaletteBytes(bitmap) = 4 * palette_count(bitmap)
    BY <2>1 DEF DibSupported, PaletteBytes, SizeofRGBQuad
  <2>3. PaletteReadable
    BY <2>1, <2>2, LimitsAssumption DEF PaletteReadable, CanRead
  <2>4. offset + PaletteBytes(bitmap) \in 0..MaxOffset
    BY <2>1, LimitsAssumption
  <2>. QED
    BY <1>2, <2>3, <2>4, RemainderOfSmall
<1>3. CASE pc = "pixels"
  <2>1. /\ PixelBytes(bitmap) \in Nat /\ offset \in Nat
        /\ file.len \in 0..MaxOffset /\ pos = offset
        /\ offset + PixelBytes(bitmap) = End(c) /\ End(c) <= file.len
        /\ DibSupported(bitmap) /\ bitmap \in Header
    BY <1>3, DibIsSupported DEF Passed
  <2>2. image_size(bitmap) \in Nat /\ mask_size(bitmap) \in Nat
        /\ image_size(bitmap) > 0 /\ mask_size(bitmap) > 0
    BY <2>1, SizesAreNumbers DEF DibSupported
  <2>3. PixelsReadable
    BY <2>1, <2>2, LimitsAssumption
       DEF PixelsReadable, CanRead, PixelBytes, DibSupported
  <2>4. offset + PixelBytes(bitmap) \in 0..MaxOffset
    BY <2>1, LimitsAssumption
  <2>. QED
    BY <1>3, <2>1, <2>3, <2>4, RemainderOfSmall
<1>. QED
  BY <1>1, <1>2, <1>3

LEMMA ImageIsDecoded ==
  ASSUME Kept, Read
  PROVE  Decodable(bitmap)
<1>1. IsFile(file) /\ WellFormed(file) /\ c \in Images(file)
  BY KeptFacts
<1>2. bitmap = HeaderOf(file, c)
  BY DEF Kept, Exact, Holding
<1>. QED
  BY <1>1, <1>2, Laid DEF Decodable

LEMMA SelectedIsWanted ==
  ASSUME Kept, pc = "filter"
  PROVE  /\ Selected <=> c \in Wanted(opt, file)
         /\ ~Selected => ~IsPng(bitmap)
<1>1. /\ IsFile(file) /\ WellFormed(file) /\ c \in Images(file)
      /\ IsPng(HeaderOf(file, c)) => c \in Wanted(opt, file)
  BY KeptFacts DEF Read
<1>2. /\ bitmap = HeaderOf(file, c) /\ completed = Cardinality(TakenImages) + 1
      /\ TakenImages = Before(StartOf(c))
  BY DEF Kept, Exact, Holding, Reached, Read
<1>3. completed = Index(file, c)
  BY <1>1, <1>2, BeforeAndBehind
<1>. QED
  BY <1>1, <1>2, <1>3 DEF Selected, Wanted, entry

LEMMA NothingRefused ==
  ASSUME Kept
  PROVE  ~(\/ RejectDir \/ RejectEntries \/ Unrecoverable \/ RejectHeader
           \/ RejectPng \/ RejectDib \/ RejectPalette \/ RejectImage
           \/ RejectPrint \/ OpenFails
           \/ RejectPixels \/ WriteFails \/ LibpngAborts)
<1>1. /\ IsFile(file) /\ WellFormed(file) /\ count \in Nat /\ file.len \in Nat
      /\ opt.list \/ (opt.output # "-" /\ opt.faults = {})
      /\ offset \in Nat /\ min_offset \in Nat
  BY KeptFacts, LimitsAssumption
<1>2. ~RejectDir /\ ~RejectEntries
  <2>1. file.len >= 6 + count * 16 /\ file.type # "unknown"
    BY <1>1 DEF WellFormed, count, SizeofFileDir, SizeofFileDirEntry
  <2>2. /\ pc = "dir" => pos = 0
        /\ pc = "entries" => pos = 6
    BY DEF Kept, Inv, Ahead, SizeofFileDir
  <2>. QED
    BY <1>1, <2>1, <2>2
       DEF RejectDir, DirReadable, RejectEntries, EntriesReadable, CanRead,
           SizeofFileDir, SizeofFileDirEntry
<1>3. ~Unrecoverable
  BY <1>1, NearestIsNext DEF Unrecoverable
<1>4. ~RejectHeader
  BY HeaderIsRead DEF RejectHeader
<1>5. ~RejectPng /\ ~RejectDib /\ ~RejectPalette /\ ~RejectImage
  BY PngIsRead, DibIsRead DEF RejectPng, RejectDib, RejectPalette, RejectImage
<1>6. ~RejectPrint /\ ~RejectPixels
  BY ImageIsDecoded DEF RejectPrint, RejectPixels, Read
<1>7. pc \in {"open", "write"} => ~opt.list /\ opt.faults = {}
  BY <1>1 DEF Kept, Exact, Holding, Read
<1>8. pc = "write" => ~OutClosed
  BY DEF Kept, Exact, Holding, Read, OutClosed
<1>9. ~OpenFails /\ ~WriteFails /\ ~LibpngAborts
  BY <1>7, <1>8 DEF OpenFails, WriteFails, LibpngAborts
<1>. QED
  BY <1>2, <1>3, <1>4, <1>5, <1>6, <1>9
-----------------------------------------------------------------------------
(* Step by step.                                                           *)

LEMMA DirectoryKeeps ==
  Kept /\ (ReadDir \/ ReadEntries \/ StartPass \/ EndPass) => Exact'
<1>. SUFFICES ASSUME Kept, ReadDir \/ ReadEntries \/ StartPass \/ EndPass
              PROVE  Exact'
  OBVIOUS
<1>. USE DEF ioVars, inputVars, streamVars, scanVars, tallyVars, imageVars, callVars
<1>1. /\ IsFile(file) /\ WellFormed(file) /\ count \in Nat
      /\ completed \in Nat /\ matched \in 0..completed
  BY KeptFacts
<1>2. /\ file' = file /\ opt' = opt /\ log' = log
      /\ completed' = completed /\ matched' = matched
  BY DEF ReadDir, ReadEntries, StartPass, EndPass
<1>3. /\ Told' /\ TakenImages' = TakenImages /\ count' = count
      /\ \A S : Chosen(S)' = Chosen(S)
      /\ \A x : Before(x)' = Before(x) /\ (Aside(x)' <=> Aside(x))
  BY <1>2, SameInputs, SameLog DEF Kept, Exact
<1>4. CASE ReadDir
  <2>1. pc = "dir" /\ pc' = "entries"
    BY <1>4 DEF ReadDir
  <2>. QED
    BY <1>3, <2>1 DEF Kept, Exact, Scanning, Entering, Midway, Holding, Leaving, Reading, Read
<1>5. CASE ReadEntries
  <2>1. /\ pc = "entries" /\ pc' = "pass" /\ offset' = 6 + count * 16
    BY <1>5 DEF ReadEntries, SizeofFileDir, SizeofFileDirEntry
  <2>2. log = <<>> /\ completed = 0 /\ matched = 0
    BY <1>1, <2>1 DEF Kept, Ordered, Counted, Read
  <2>3. TakenImages = {} /\ Chosen({}) = {} /\ Cardinality({}) = 0
    BY <2>2, FS_EmptySet DEF TakenImages, Chosen
  <2>4. \A e \in Images(file) : StartOf(e) \in Nat /\ StartOf(e) >= offset'
    BY <1>1, <2>1, Laid, LimitsAssumption
  <2>5. Before(offset') = {} /\ Aside(offset')
    <3>1. offset' \in Nat
      BY <1>1, <2>1
    <3>. QED
      BY <2>4, <3>1 DEF Before, Aside
  <2>6. Reached(offset)' 
        /\ completed' = Cardinality(TakenImages')
        /\ matched' = Cardinality(Chosen(TakenImages)')
    BY <1>2, <1>3, <2>2, <2>3, <2>5 DEF Reached
  <2>. QED
    BY <1>3, <2>1, <2>6 DEF Exact, Scanning, Entering, Midway, Holding, Leaving, Reading, Read
<1>6. CASE StartPass \/ EndPass
  <2>1. /\ pc \in {"pass", "scan"} /\ offset' = offset
        /\ \/ pc' = "pass"
           \/ /\ pc' = "scan" /\ previous' = completed /\ completed < count
              /\ c' = 1 /\ min_offset' = MaxOffset
    BY <1>6 DEF StartPass, EndPass
  <2>2. /\ Reached(offset)
        /\ completed = Cardinality(TakenImages)
        /\ matched = Cardinality(Chosen(TakenImages))
      BY <2>1 DEF Kept, Exact, Scanning
  <2>3. Reached(offset)' 
        /\ completed' = Cardinality(TakenImages')
        /\ matched' = Cardinality(Chosen(TakenImages)')
    BY <1>2, <1>3, <2>1, <2>2 DEF Reached
  <2>4. pc' = "scan" => /\ previous' < count' /\ previous' <= completed'
                        /\ Nearest'
    BY <1>1, <1>2, <1>3, <2>1 DEF Nearest
  <2>. QED
    BY <1>3, <2>1, <2>3, <2>4
       DEF Exact, Scanning, Entering, Midway, Holding, Leaving, Reading, Read
<1>. QED
  BY <1>4, <1>5, <1>6

LEMMA ScanKeeps ==
  Kept /\ (PassOver \/ SkipGarbage \/ ReadHeader) => Exact'
<1>. SUFFICES ASSUME Kept, PassOver \/ SkipGarbage \/ ReadHeader PROVE Exact'
  OBVIOUS
<1>. USE DEF ioVars, inputVars, streamVars, scanVars, tallyVars, imageVars, callVars
<1>1. /\ IsFile(file) /\ WellFormed(file) /\ count \in Nat
      /\ completed \in Nat /\ matched \in 0..completed /\ c \in 1..(count + 1)
      /\ offset \in 0..MaxOffset /\ min_offset \in 0..MaxOffset
      /\ previous \in Nat
  BY KeptFacts
<1>2. /\ file' = file /\ opt' = opt /\ log' = log
      /\ completed' = completed /\ matched' = matched /\ previous' = previous
      /\ pc = "scan"
  BY DEF PassOver, Overlook, SkipGarbage, Skip, ReadHeader
<1>3. /\ Told' /\ TakenImages' = TakenImages /\ count' = count
      /\ \A S : Chosen(S)' = Chosen(S)
      /\ \A x : Before(x)' = Before(x) /\ (Aside(x)' <=> Aside(x))
      /\ \A e : StartOf(e)' = StartOf(e) /\ HeaderOf(file, e)' = HeaderOf(file, e)
  BY <1>2, SameInputs, SameLog DEF Kept, Exact
<1>4. /\ Aside(offset) /\ TakenImages = Before(offset)
      /\ completed = Cardinality(TakenImages)
      /\ matched = Cardinality(Chosen(TakenImages))
      /\ previous < count /\ previous <= completed
      /\ previous = completed => Nearest
  BY <1>2 DEF Kept, Exact, Scanning, Reached
<1>5. /\ completed' = Cardinality(TakenImages')
      /\ matched' = Cardinality(Chosen(TakenImages)')
      /\ previous' < count' /\ previous' <= completed'
  BY <1>2, <1>3, <1>4
<1>6. CASE PassOver
  <2>1. /\ pc' = "scan" /\ offset' = offset /\ c' = c + 1 /\ c <= count
        /\ entry.dib_offset # offset
        /\ min_offset' = IF entry.dib_offset > offset
                         THEN Least(min_offset, entry.dib_offset) ELSE min_offset
    BY <1>2, <1>6 DEF PassOver, Overlook
  <2>2. Reached(offset)'
    BY <1>3, <1>4, <2>1 DEF Reached
  <2>3. c \in Images(file) /\ entry.dib_offset = StartOf(c)
    BY <1>1, <2>1 DEF Images, count, entry, StartOf
  <2>4. \A e \in 1..c : StartOf(e) \in 0..MaxOffset
    <3>1. 1..c \subseteq Images(file)
      BY <1>1, <2>1 DEF Images, count
    <3>. QED
      BY <1>1, <3>1, StartIsOffset
  <2>5. ASSUME previous = completed PROVE Nearest'
    <3>1. Nearest
      BY <1>4, <2>5
    <3>2. 1..(c' - 1) = 1..(c - 1) \cup {c} /\ 1..(c' - 1) = 1..c
      BY <1>1, <2>1
    <3>3. min_offset' <= min_offset
          /\ (StartOf(c) > offset => min_offset' <= StartOf(c))
          /\ min_offset' \in 0..MaxOffset
      BY <1>1, <2>1, <2>3, <2>4, LimitsAssumption DEF Least
    <3>4. ASSUME NEW e \in 1..(c' - 1)
          PROVE  StartOf(e) # offset /\ (StartOf(e) > offset => min_offset' <= StartOf(e))
      <4>1. CASE e = c
        BY <2>1, <2>3, <3>3, <4>1
      <4>2. CASE e \in 1..(c - 1)
        <5>1. StartOf(e) # offset /\ (StartOf(e) > offset => min_offset <= StartOf(e))
          BY <3>1, <4>2 DEF Nearest
        <5>2. StartOf(e) \in 0..MaxOffset
          BY <2>4, <3>2, <3>4
        <5>. QED
          BY <1>1, <3>3, <5>1, <5>2, LimitsAssumption
      <4>. QED
        BY <3>2, <3>4, <4>1, <4>2
    <3>5. \/ min_offset' = MaxOffset
          \/ \E e \in 1..(c' - 1) : min_offset' = StartOf(e) /\ StartOf(e) > offset
      <4>1. CASE min_offset' = StartOf(c) /\ StartOf(c) > offset
        BY <3>2, <4>1
      <4>2. CASE min_offset' = min_offset
        BY <3>1, <3>2, <4>2 DEF Nearest
      <4>. QED
        BY <2>1, <2>3, <4>1, <4>2 DEF Least
    <3>. QED
      BY <1>3, <2>1, <3>4, <3>5 DEF Nearest
  <2>. QED
    BY <1>2, <1>3, <1>5, <2>1, <2>2, <2>5
       DEF Exact, Scanning, Entering, Midway, Holding, Leaving, Reading, Read
<1>7. CASE SkipGarbage
  <2>1. /\ pc' = "pass" /\ offset' = min_offset /\ c > count /\ previous = completed
    BY <1>7 DEF SkipGarbage, Skip
  <2>2. Aside(min_offset) /\ Before(min_offset) = Before(offset)
    BY <1>2, <2>1, NearestIsNext
  <2>3. Reached(offset)'
    BY <1>3, <1>4, <2>1, <2>2 DEF Reached
  <2>. QED
    BY <1>3, <1>5, <2>1, <2>3
       DEF Exact, Scanning, Entering, Midway, Holding, Leaving, Reading, Read
<1>8. CASE ReadHeader
  <2>1. /\ c <= count /\ entry.dib_offset = offset /\ bitmap' \in HeadersAt(pos)
        /\ pc' = IF IsPng(bitmap') THEN "png" ELSE "dib"
        /\ offset' = offset /\ c' = c
    BY <1>8 DEF ReadHeader
  <2>2. bitmap' = HeaderOf(file, c)
    BY <1>2, <2>1, HeaderIsRead
  <2>3. Reached(offset)' /\ bitmap' = HeaderOf(file, c)'
    BY <1>3, <1>4, <2>1, <2>2 DEF Reached
  <2>. QED
    BY <1>2, <1>3, <1>5, <2>1, <2>3
       DEF Exact, Scanning, Entering, Midway, Holding, Leaving, Reading, Read
<1>. QED
  BY <1>6, <1>7, <1>8

LEMMA EnterKeeps == Kept /\ (SkipHeader \/ ReadPalette) => Exact'
<1>. SUFFICES ASSUME Kept, SkipHeader \/ ReadPalette PROVE Exact'
  OBVIOUS
<1>. USE DEF ioVars, inputVars, streamVars, scanVars, tallyVars, imageVars, callVars
<1>1. /\ file' = file /\ opt' = opt /\ log' = log
      /\ completed' = completed /\ matched' = matched
      /\ previous' = previous /\ c' = c /\ bitmap' = bitmap
      /\ \/ pc = "dib" /\ pc' = "palette"
         \/ pc = "palette" /\ pc' = "pixels"
  BY DEF SkipHeader, PassHeader, ReadPalette
<1>2. /\ Told' /\ TakenImages' = TakenImages /\ count' = count
      /\ \A S : Chosen(S)' = Chosen(S)
      /\ \A x : Before(x)' = Before(x) /\ (Aside(x)' <=> Aside(x))
      /\ \A e : /\ StartOf(e)' = StartOf(e)
                /\ HeaderOf(file, e)' = HeaderOf(file, e)
  BY <1>1, SameInputs, SameLog DEF Kept, Exact
<1>3. /\ bitmap = HeaderOf(file, c) /\ bitmap.size \in Nat /\ StartOf(c) \in Nat
      /\ PaletteBytes(bitmap) \in Nat
      /\ pc = "dib" => offset = StartOf(c)
      /\ pc = "palette" => pos = offset /\ offset = StartOf(c) + bitmap.size
  BY <1>1, DibIsSupported DEF Passed
<1>4. /\ Aside(StartOf(c)) /\ TakenImages = Before(StartOf(c))
      /\ completed = Cardinality(TakenImages)
      /\ matched = Cardinality(Chosen(TakenImages))
      /\ previous < count /\ previous <= completed
  BY <1>1, <1>3 DEF Kept, Exact, Scanning, Entering, Midway, Reached
<1>5. offset' = StartOf(c) + Passed' /\ pos' = offset'
  <2>1. CASE pc = "dib"
    <3>1. pos' = AfterHeader /\ offset' = (offset + bitmap.size) % (MaxOffset + 1)
      BY <1>1, <2>1 DEF SkipHeader, PassHeader, ReadPalette, Plus
    <3>. QED
      BY <1>1, <1>3, <2>1, <3>1, DibIsRead DEF Passed
  <2>2. CASE pc = "palette"
    <3>1. /\ pos' = pos + PaletteBytes(bitmap)
          /\ offset' = (offset + PaletteBytes(bitmap)) % (MaxOffset + 1)
      BY <1>1, <2>2 DEF SkipHeader, PassHeader, ReadPalette, Plus
    <3>2. PaletteBytes(bitmap') = PaletteBytes(bitmap)
      BY <1>1
    <3>. QED
      BY <1>1, <1>3, <2>2, <3>1, <3>2, DibIsRead DEF Passed
  <2>. QED
    BY <1>1, <2>1, <2>2
<1>6. Reached(StartOf(c))' /\ bitmap' = HeaderOf(file, c)'
  BY <1>1, <1>2, <1>3, <1>4 DEF Reached
<1>7. /\ completed' = Cardinality(TakenImages')
      /\ matched' = Cardinality(Chosen(TakenImages)')
      /\ previous' < count' /\ previous' <= completed'
      /\ offset' = StartOf(c)' + Passed'
  BY <1>1, <1>2, <1>4, <1>5
<1>. QED
  BY <1>1, <1>2, <1>5, <1>6, <1>7
     DEF Exact, Scanning, Entering, Midway, Holding, Leaving, Reading, Read

LEMMA ReadKeeps == Kept /\ (ReadPng \/ ReadPixels) => Exact'
<1>. SUFFICES ASSUME Kept, ReadPng \/ ReadPixels PROVE Exact'
  OBVIOUS
<1>. USE DEF ioVars, inputVars, streamVars, scanVars, tallyVars, imageVars, callVars
<1>1. /\ IsFile(file) /\ WellFormed(file) /\ count \in Nat
      /\ completed \in Nat /\ previous \in Nat
  BY KeptFacts
<1>2. /\ file' = file /\ opt' = opt /\ log' = log
      /\ completed' = completed + 1 /\ matched' = matched
      /\ previous' = previous /\ c' = c
      /\ pc \in {"png", "pixels"} /\ pc' = "filter"
  BY DEF ReadPng, ReadPixels, PixelsRead
<1>3. /\ Told' /\ TakenImages' = TakenImages /\ count' = count
      /\ \A S : Chosen(S)' = Chosen(S)
      /\ \A x : Before(x)' = Before(x) /\ (Aside(x)' <=> Aside(x))
      /\ \A e : /\ StartOf(e)' = StartOf(e) /\ End(e)' = End(e)
                /\ HeaderOf(file, e)' = HeaderOf(file, e)
  BY <1>2, SameInputs, SameLog DEF Kept, Exact
<1>4. /\ Aside(StartOf(c)) /\ TakenImages = Before(StartOf(c))
      /\ completed = Cardinality(TakenImages)
      /\ matched = Cardinality(Chosen(TakenImages))
      /\ previous < count /\ previous <= completed
  <2>1. pc = "png" => StartOf(c) = offset
    BY PngIsRead
  <2>. QED
    BY <1>2, <2>1 DEF Kept, Exact, Scanning, Entering, Midway, Reached
<1>5. /\ bitmap' = HeaderOf(file, c)
      /\ offset' = IF IsPng(bitmap') THEN StartOf(c) ELSE End(c)
  <2>1. CASE ReadPng
    <3>1. pc = "png" /\ bitmap' = file.image[PngStart] /\ offset' = offset
      BY <2>1 DEF ReadPng
    <3>. QED
      BY <3>1, PngIsRead
  <2>2. CASE ReadPixels
    <3>1. /\ pc = "pixels" /\ bitmap' = bitmap
          /\ offset' = (offset + PixelBytes(bitmap)) % (MaxOffset + 1)
      BY <2>2 DEF ReadPixels, PixelsRead, Plus
    <3>. QED
      BY <3>1, DibIsSupported, DibIsRead
  <2>. QED
    BY <2>1, <2>2
<1>6. /\ Reached(StartOf(c))'
      /\ bitmap' = HeaderOf(file, c)'
      /\ offset' = IF IsPng(bitmap') THEN StartOf(c)' ELSE End(c)'
  BY <1>2, <1>3, <1>4, <1>5 DEF Reached
<1>7. /\ completed' = Cardinality(TakenImages') + 1
      /\ matched' = Cardinality(Chosen(TakenImages)')
      /\ previous' < count' /\ previous' < completed'
  BY <1>1, <1>2, <1>3, <1>4
<1>. QED
  BY <1>2, <1>3, <1>6, <1>7
     DEF Exact, Scanning, Entering, Midway, Holding, Leaving, Reading, Read

LEMMA MatchKeeps == Kept /\ Match => Exact'
<1>. SUFFICES ASSUME Kept, Match PROVE Exact'
  OBVIOUS
<1>. USE DEF ioVars, inputVars, streamVars, scanVars, tallyVars, imageVars, callVars
<1>1. /\ file' = file /\ opt' = opt /\ log' = log
      /\ completed' = completed /\ matched' = matched + 1
      /\ previous' = previous /\ c' = c /\ bitmap' = bitmap /\ offset' = offset
      /\ pc = "filter" /\ pc' = IF opt.list THEN "print" ELSE "open"
      /\ c \in Wanted(opt, file)
  BY SelectedIsWanted DEF Match
<1>2. /\ Told' /\ TakenImages' = TakenImages /\ count' = count
      /\ \A S : Chosen(S)' = Chosen(S)
      /\ \A x : Before(x)' = Before(x) /\ (Aside(x)' <=> Aside(x))
      /\ \A e : /\ StartOf(e)' = StartOf(e) /\ End(e)' = End(e)
                /\ HeaderOf(file, e)' = HeaderOf(file, e)
      /\ Wanted(opt, file)' = Wanted(opt, file)
  BY <1>1, SameInputs, SameLog DEF Kept, Exact
<1>3. /\ Aside(StartOf(c)) /\ TakenImages = Before(StartOf(c))
      /\ bitmap = HeaderOf(file, c)
      /\ completed = Cardinality(TakenImages) + 1
      /\ previous < count /\ previous < completed
      /\ offset = IF IsPng(bitmap) THEN StartOf(c) ELSE End(c)
      /\ matched = Cardinality(Chosen(TakenImages))
  BY <1>1 DEF Kept, Exact, Holding, Read, Reached
<1>4. /\ Reached(StartOf(c))'
      /\ matched' = Cardinality(Chosen(TakenImages)') + 1
      /\ offset' = IF IsPng(bitmap') THEN StartOf(c)' ELSE End(c)'
      /\ previous' < count' /\ previous' < completed'
  BY <1>1, <1>2, <1>3 DEF Reached
<1>. QED
  BY <1>1, <1>2, <1>3, <1>4
     DEF Exact, Scanning, Entering, Midway, Holding, Leaving, Reading, Read

(* What is common to the ways an image is left.                            *)
LEMMA LeavingAnImage ==
  ASSUME Kept, Read, Take(c \in Wanted(opt, file)), UNCHANGED <<inputVars, tallyVars>>,
         previous' = previous, pc' = "scan", offset' = End(c),
         matched = Cardinality(Chosen(TakenImages'))
  PROVE  Exact'
<1>. USE DEF ioVars, inputVars, streamVars, scanVars, tallyVars, imageVars, callVars
<1>1. /\ IsFile(file) /\ WellFormed(file) /\ c \in Images(file)
      /\ completed \in Nat /\ previous \in Nat
  BY KeptFacts
<1>2. /\ Told' /\ TakenImages' = Before(End(c))
      /\ Cardinality(TakenImages') = Cardinality(TakenImages) + 1
  BY OneMore
<1>3. /\ completed = Cardinality(TakenImages) + 1
      /\ previous < count /\ previous < completed
  BY DEF Kept, Exact, Holding
<1>4. /\ count' = count
      /\ \A S : Chosen(S)' = Chosen(S)
      /\ \A x : Before(x)' = Before(x) /\ (Aside(x)' <=> Aside(x))
  BY SameInputs
<1>5. Aside(End(c))
  BY <1>1, BeforeAndBehind
<1>6. Reached(offset)'
  BY <1>2, <1>4, <1>5 DEF Reached
<1>7. Chosen(TakenImages)' = Chosen(TakenImages')
  BY DEF Chosen
<1>8. /\ completed' = Cardinality(TakenImages')
      /\ matched' = Cardinality(Chosen(TakenImages)')
      /\ previous' < count' /\ previous' <= completed' /\ previous' # completed'
  BY <1>1, <1>2, <1>3, <1>4, <1>7
<1>. QED
  BY <1>2, <1>6, <1>8
     DEF Exact, Scanning, Entering, Midway, Holding, Leaving, Reading, Read

LEMMA FilterKeeps == Kept /\ FilterOut => Exact'
<1>. SUFFICES ASSUME Kept, FilterOut PROVE Exact'
  OBVIOUS
<1>. USE DEF ioVars, inputVars, streamVars, scanVars, tallyVars, imageVars, callVars
<1>1. /\ pc = "filter" /\ Read /\ ~Selected /\ Take(FALSE)
      /\ UNCHANGED <<inputVars, tallyVars, disk>>
      /\ previous' = previous /\ pc' = "scan" /\ offset' = offset
  BY DEF FilterOut, DoNext, Read
<1>2. c \notin Wanted(opt, file) /\ ~IsPng(bitmap)
  BY <1>1, SelectedIsWanted
<1>3. (c \in Wanted(opt, file)) = FALSE
  BY <1>2
<1>4. Take(c \in Wanted(opt, file))
  BY <1>1, <1>3
<1>5. /\ offset' = End(c) /\ matched = Cardinality(Chosen(TakenImages))
  BY <1>1, <1>2 DEF Kept, Exact, Holding
<1>6. Chosen(TakenImages') = Chosen(TakenImages)
  BY <1>1, <1>2, <1>4, OneMore
<1>. QED
  BY <1>1, <1>4, <1>5, <1>6, LeavingAnImage

(* The offset moves past the image that is shown, whichever kind it is.    *)
LEMMA PastTheImage ==
  ASSUME Kept, Read, pc # "filter", AfterImage, Take(TRUE),
         UNCHANGED <<inputVars, tallyVars>>
  PROVE  /\ Take(c \in Wanted(opt, file))
         /\ c \in Wanted(opt, file)
         /\ offset' = End(c)
         /\ Chosen(TakenImages') = Chosen(TakenImages) \cup {c}
         /\ matched = Cardinality(Chosen(TakenImages'))
<1>1. /\ IsFile(file) /\ WellFormed(file) /\ c \in Images(file)
  BY KeptFacts
<1>2. /\ c \in Wanted(opt, file) /\ bitmap = HeaderOf(file, c)
      /\ matched = Cardinality(Chosen(TakenImages)) + 1
      /\ offset = IF IsPng(bitmap) THEN StartOf(c) ELSE End(c)
  BY DEF Kept, Exact, Holding
<1>3. (c \in Wanted(opt, file)) = TRUE
  BY <1>2
<1>4. Take(c \in Wanted(opt, file))
  BY <1>3
<1>5. offset' = IF IsPng(bitmap) THEN offset + entry.dib_size ELSE offset
  BY AfterImageMoves DEF Kept
<1>6. IsPng(bitmap) => End(c) = StartOf(c) + entry.dib_size
  BY <1>1, <1>2, Laid DEF entry
<1>7. /\ Chosen(TakenImages') = Chosen(TakenImages) \cup {c}
      /\ Cardinality(Chosen(TakenImages')) = Cardinality(Chosen(TakenImages)) + 1
  BY <1>2, <1>4, OneMore DEF inputVars
<1>. QED
  BY <1>2, <1>4, <1>5, <1>6, <1>7

LEMMA PrintKeeps == Kept /\ PrintImage => Exact'
<1>. SUFFICES ASSUME Kept, PrintImage PROVE Exact'
  OBVIOUS
<1>. USE DEF ioVars, inputVars, streamVars, scanVars, tallyVars, imageVars, callVars
<1>1. /\ pc = "print" /\ Read /\ AfterImage /\ Take(TRUE)
      /\ UNCHANGED <<inputVars, tallyVars>>
      /\ previous' = previous /\ pc' = "scan"
  BY DEF PrintImage, DoNext, Read
<1>. QED
  BY <1>1, PastTheImage, LeavingAnImage

LEMMA OpenKeeps == Kept /\ OpenOut => Exact'
<1>. SUFFICES ASSUME Kept, OpenOut PROVE Exact'
  OBVIOUS
<1>. USE DEF ioVars, inputVars, streamVars, scanVars, tallyVars, imageVars, callVars
<1>1. /\ file' = file /\ opt' = opt /\ log' = log
      /\ completed' = completed /\ matched' = matched
      /\ previous' = previous /\ c' = c /\ bitmap' = bitmap /\ offset' = offset
      /\ pc = "open" /\ pc' = "write"
      /\ out' = OutName(completed, bitmap)
      /\ disk' = IF out' = Stdout THEN disk ELSE Create(out')
  BY DEF OpenOut, Open
<1>2. /\ Told' /\ TakenImages' = TakenImages /\ count' = count
      /\ \A S : Chosen(S)' = Chosen(S)
      /\ \A x : Before(x)' = Before(x) /\ (Aside(x)' <=> Aside(x))
      /\ \A e : /\ StartOf(e)' = StartOf(e) /\ End(e)' = End(e)
                /\ HeaderOf(file, e)' = HeaderOf(file, e)
      /\ Wanted(opt, file)' = Wanted(opt, file)
  BY <1>1, SameInputs, SameLog DEF Kept, Exact
<1>3. /\ Aside(StartOf(c)) /\ TakenImages = Before(StartOf(c))
      /\ bitmap = HeaderOf(file, c)
      /\ completed = Cardinality(TakenImages) + 1
      /\ previous < count /\ previous < completed
      /\ offset = IF IsPng(bitmap) THEN StartOf(c) ELSE End(c)
      /\ c \in Wanted(opt, file) /\ ~opt.list
      /\ matched = Cardinality(Chosen(TakenImages)) + 1
  BY <1>1 DEF Kept, Exact, Holding, Read, Reached
<1>4. /\ IsFile(file) /\ WellFormed(file) /\ c \in Images(file)
      /\ opt.output # "-" /\ IsOptions(opt)
  BY <1>1, <1>3, KeptFacts DEF Read, Kept, Inv, TypeOK
<1>5. completed = Index(file, c) /\ c \notin TakenImages
  BY <1>3, <1>4, BeforeAndBehind
<1>6. out' = NameOf(c)
  BY <1>1, <1>3, <1>5 DEF NameOf
<1>7. out' # Stdout
  BY <1>4, <1>6 DEF IsOptions, NameOf, OutName, Stdout
<1>8. /\ Reached(StartOf(c))'
      /\ matched' = Cardinality(Chosen(TakenImages)') + 1
      /\ offset' = IF IsPng(bitmap') THEN StartOf(c)' ELSE End(c)'
      /\ previous' < count' /\ previous' < completed'
  BY <1>1, <1>2, <1>3 DEF Reached
<1>. QED
  BY <1>1, <1>2, <1>3, <1>7, <1>8
     DEF Exact, Scanning, Entering, Midway, Holding, Leaving, Reading, Read

LEMMA WriteKeeps == Kept /\ WriteImage => Exact'
<1>. SUFFICES ASSUME Kept, WriteImage PROVE Exact'
  OBVIOUS
<1>. USE DEF ioVars, inputVars, streamVars, scanVars, tallyVars, imageVars, callVars
<1>1. /\ pc = "write" /\ Read /\ AfterImage /\ Take(TRUE)
      /\ UNCHANGED <<inputVars, tallyVars>>
      /\ previous' = previous /\ pc' = "scan"
  BY DEF WriteImage, DoNext, Read
<1>. QED
  BY <1>1, PastTheImage, LeavingAnImage

LEMMA FinishKeeps == Kept /\ Finish => Exact'
<1>. SUFFICES ASSUME Kept, Finish PROVE Exact'
  OBVIOUS
<1>. USE DEF ioVars, inputVars, streamVars, scanVars, tallyVars, imageVars, callVars
<1>1. /\ pc = "pass" /\ pc' = "return" /\ completed >= count
      /\ file' = file /\ opt' = opt /\ log' = log
      /\ result' = matched
  BY DEF Finish
<1>2. /\ IsFile(file) /\ count \in Nat
  BY KeptFacts
<1>3. /\ TakenImages = Before(offset)
      /\ completed = Cardinality(TakenImages)
      /\ matched = Cardinality(Chosen(TakenImages))
  BY <1>1 DEF Kept, Exact, Scanning, Reached
<1>4. TakenImages = Images(file)
  <2>1. TakenImages \subseteq Images(file)
    BY <1>3 DEF Before
  <2>. QED
    BY <1>1, <1>2, <1>3, <2>1, ImagesAreFinite
<1>5. Chosen(TakenImages) = Wanted(opt, file)
  BY <1>4 DEF Chosen, Wanted
<1>6. /\ Told' /\ TakenImages' = TakenImages
      /\ Images(file)' = Images(file) /\ Wanted(opt, file)' = Wanted(opt, file)
  BY <1>1, SameInputs, SameLog DEF Kept, Exact
<1>7. /\ result' = Cardinality(Wanted(opt, file)')
      /\ TakenImages' = Images(file)'
  BY <1>1, <1>3, <1>4, <1>5, <1>6
<1>. QED
  BY <1>1, <1>6, <1>7
     DEF Exact, Scanning, Entering, Midway, Holding, Leaving, Reading, Read

LEMMA NextKept == Kept /\ [Next]_vars => Kept'
<1>. SUFFICES ASSUME Kept, [Next]_vars PROVE Kept'
  OBVIOUS
<1>1. Inv' /\ InSync' /\ Ordered'
  BY NextInv, NextInSync, NextOrdered DEF Kept
<1>2. Exact'
  <2>1. CASE Next
    BY <2>1, NothingRefused, DirectoryKeeps, ScanKeeps, EnterKeeps, ReadKeeps, MatchKeeps,
       FilterKeeps, PrintKeeps, OpenKeeps, WriteKeeps, FinishKeeps DEF Next
  <2>2. CASE UNCHANGED vars
    <3>1. /\ file' = file /\ opt' = opt /\ log' = log /\ Exact
      BY <2>2 DEF vars, Kept
    <3>2. /\ (Told' <=> Told) /\ TakenImages' = TakenImages /\ count' = count
          /\ \A S : Chosen(S)' = Chosen(S)
          /\ \A x : Before(x)' = Before(x) /\ (Aside(x)' <=> Aside(x))
          /\ \A e : /\ StartOf(e)' = StartOf(e) /\ End(e)' = End(e)
                    /\ HeaderOf(file, e)' = HeaderOf(file, e)
          /\ Images(file)' = Images(file)
          /\ Wanted(opt, file)' = Wanted(opt, file)
      BY <3>1, SameInputs, SameLog
    <3>. QED
      BY <2>2, <3>1, <3>2
         DEF vars, Exact, Scanning, Entering, Midway, Passed, Holding, Leaving,
             Reading, Read, Reached, Nearest
  <2>. QED
    BY <2>1, <2>2
<1>3. Promised(opt, file)' <=> Promised(opt, file)
  <2>1. file' = file /\ opt' = opt
    BY FileStays DEF vars
  <2>. QED
    BY <2>1, SameInputs
<1>. QED
  BY <1>1, <1>2, <1>3 DEF Kept
-----------------------------------------------------------------------------
(* The outputs of a call whose file shares no name with an earlier one.    *)

LEMMA CreatedIsNamed ==
  ASSUME Kept, Filed, OpenOut, Naming
  PROVE  /\ Outputs' = {NameOf(e) : e \in Chosen(TakenImages) \cup {c}}
         /\ \A e \in Chosen(TakenImages) : disk'[NameOf(e)] = WholeImage(file, e)
         /\ out' = NameOf(c) /\ disk'[out'] = <<>>
<1>1. /\ file' = file /\ opt' = opt /\ pc = "open"
      /\ out' = OutName(completed, bitmap)
      /\ disk' = IF out' = Stdout THEN disk ELSE Create(out')
  BY DEF OpenOut, Open, inputVars
<1>2. /\ TakenImages = Before(StartOf(c)) /\ bitmap = HeaderOf(file, c)
      /\ completed = Cardinality(TakenImages) + 1
      /\ Named(Chosen(TakenImages)) /\ Complete(Chosen(TakenImages))
  BY <1>1 DEF Kept, Exact, Holding, Read, Reached, Filed, Extracted
<1>3. IsFile(file) /\ WellFormed(file) /\ c \in Images(file)
  BY <1>1, KeptFacts DEF Read
<1>4. completed = Index(file, c) /\ c \notin TakenImages
  BY <1>2, <1>3, BeforeAndBehind
<1>5. /\ out' = NameOf(c) /\ IsNameOf(file, out') /\ out' # Stdout
  BY <1>1, <1>2, <1>4 DEF Naming, NameOf, OutName, IsNameOf, Stdout
<1>6. /\ DOMAIN disk' = DOMAIN disk \cup {NameOf(c)}
      /\ disk'[NameOf(c)] = <<>>
      /\ \A n \in DOMAIN disk : n # NameOf(c) => disk'[n] = disk[n]
  BY <1>1, <1>5 DEF Create
<1>7. /\ {n \in DOMAIN disk : IsNameOf(file, n)}
           = {NameOf(e) : e \in Chosen(TakenImages)}
      /\ \A e \in Chosen(TakenImages) : disk[NameOf(e)] = WholeImage(file, e)
  BY <1>2 DEF Named, Complete, Outputs
<1>8. Outputs' = {NameOf(e) : e \in Chosen(TakenImages)} \cup {NameOf(c)}
  BY <1>1, <1>5, <1>6, <1>7 DEF Outputs
<1>9. ASSUME NEW e \in Chosen(TakenImages)
      PROVE  disk'[NameOf(e)] = WholeImage(file, e)
  <2>1. e \in Images(file) /\ e # c
    BY <1>2, <1>4, <1>9 DEF Chosen, Before
  <2>2. NameOf(e) # NameOf(c)
    BY <1>3, <2>1, NamesDiffer DEF Naming
  <2>3. NameOf(e) \in DOMAIN disk
    BY <1>7, <1>9
  <2>. QED
    BY <1>6, <1>7, <1>9, <2>2, <2>3
<1>. QED
  BY <1>5, <1>6, <1>8, <1>9

LEMMA WrittenIsWhole ==
  ASSUME Kept, Filed, WriteImage, Naming
  PROVE  /\ Outputs' = {NameOf(e) : e \in Chosen(TakenImages) \cup {c}}
         /\ \A e \in Chosen(TakenImages) \cup {c} :
              disk'[NameOf(e)] = WholeImage(file, e)
<1>1. /\ pc = "write" /\ file' = file /\ opt' = opt
  BY DEF WriteImage, inputVars
<1>2. /\ IsFile(file) /\ WellFormed(file) /\ c \in Images(file)
      /\ ~opt.list /\ opt.faults = {} /\ out # Stdout /\ Regular
  BY <1>1, KeptFacts DEF Kept, Exact, Holding, Read, Naming
<1>3. disk' = Written(TRUE)
  BY <1>2 DEF WriteImage, OutClosed
<1>4. /\ Outputs = {NameOf(e) : e \in Chosen(TakenImages) \cup {c}}
      /\ \A e \in Chosen(TakenImages) : disk[NameOf(e)] = WholeImage(file, e)
      /\ out = NameOf(c) /\ disk[out] = <<>>
      /\ TakenImages = Before(StartOf(c))
      /\ completed = Cardinality(TakenImages) + 1
  BY <1>1 DEF Kept, Exact, Holding, Read, Reached, Filed, Named, Complete
<1>5. start = StartOf(c) /\ completed = Index(file, c)
  <2>1. start = entry.dib_offset
    BY <1>1, <1>2 DEF Kept, Ordered, InHand, Read
  <2>. QED
    BY <1>2, <1>4, <2>1, BeforeAndBehind DEF entry, StartOf
<1>6. NameOf(c) \in DOMAIN disk
  BY <1>4 DEF Outputs
<1>. DEFINE new == [start |-> start, index |-> completed, whole |-> TRUE]
<1>7. /\ DOMAIN disk' = DOMAIN disk
      /\ disk'[NameOf(c)] = Append(<<>>, new)
      /\ \A n \in DOMAIN disk : n # NameOf(c) => disk'[n] = disk[n]
  BY <1>3, <1>4, <1>6 DEF Written
<1>8. disk'[NameOf(c)] = WholeImage(file, c)
  <2>1. Append(<<>>, new) = <<new>>
    OBVIOUS
  <2>2. new = [start |-> file.dir[c].dib_offset, index |-> Index(file, c),
               whole |-> TRUE]
    BY <1>5 DEF StartOf
  <2>. QED
    BY <1>7, <2>1, <2>2 DEF WholeImage
<1>9. ASSUME NEW e \in Chosen(TakenImages)
      PROVE  disk'[NameOf(e)] = WholeImage(file, e)
  <2>1. e \in Images(file) /\ e # c
    <3>1. e \in Before(StartOf(c)) /\ c \notin Before(StartOf(c))
      BY <1>2, <1>4, <1>9, BeforeAndBehind DEF Chosen
    <3>. QED
      BY <3>1 DEF Before
  <2>2. NameOf(e) # NameOf(c)
    BY <1>2, <2>1, NamesDiffer DEF Naming
  <2>3. NameOf(e) \in DOMAIN disk
    BY <1>4, <1>9 DEF Outputs
  <2>. QED
    BY <1>4, <1>7, <1>9, <2>2, <2>3
<1>10. Outputs' = Outputs
  BY <1>1, <1>7 DEF Outputs
<1>. QED
  BY <1>4, <1>8, <1>9, <1>10

LEMMA NextFiled == Kept /\ Filed /\ [Next]_vars => Filed'
<1>. SUFFICES ASSUME Kept, Filed, [Next]_vars, Naming' PROVE Filed'
  BY DEF Filed
<1>. USE DEF ioVars, inputVars, streamVars, scanVars, tallyVars, imageVars, callVars
<1>1. file' = file /\ opt' = opt /\ Kept'
  BY FileStays, NextKept DEF vars
<1>2. /\ Naming
      /\ Wanted(opt, file)' = Wanted(opt, file)
      /\ \A S : Chosen(S)' = Chosen(S)
      /\ \A e : NameOf(e)' = NameOf(e) /\ WholeImage(file, e)' = WholeImage(file, e)
  BY <1>1, SameInputs
<1>3. CASE OpenOut
  <2>1. pc' = "write" /\ c' = c /\ TakenImages' = TakenImages
    BY <1>1, <1>3, SameLog DEF OpenOut, Open
  <2>. QED
    BY <1>2, <1>3, <2>1, CreatedIsNamed DEF Filed, Named, Complete
<1>4. CASE WriteImage
  <2>1. pc = "write" /\ pc' = "scan" /\ Read /\ AfterImage /\ Take(TRUE)
        /\ UNCHANGED <<inputVars, tallyVars>>
    BY <1>4 DEF WriteImage, DoNext, Read
  <2>2. Chosen(TakenImages') = Chosen(TakenImages) \cup {c}
    BY <2>1, PastTheImage
  <2>3. Chosen(TakenImages)' = Chosen(TakenImages) \cup {c}
    BY <1>1, <2>2 DEF Chosen
  <2>. QED
    BY <1>2, <1>4, <2>1, <2>3, WrittenIsWhole
       DEF Filed, Extracted, Named, Complete
<1>5. CASE FilterOut
  <2>1. /\ pc = "filter" /\ pc' = "scan" /\ disk' = disk /\ Read
        /\ ~Selected /\ Take(FALSE)
    BY <1>5 DEF FilterOut, DoNext, Read
  <2>2. (c \in Wanted(opt, file)) = FALSE
    BY <2>1, SelectedIsWanted
  <2>3. Take(c \in Wanted(opt, file))
    BY <2>1, <2>2
  <2>4. Chosen(TakenImages') = Chosen(TakenImages)
    BY <1>1, <2>1, <2>2, <2>3, OneMore
  <2>5. Chosen(TakenImages)' = Chosen(TakenImages)
    BY <1>1, <2>4 DEF Chosen
  <2>. QED
    BY <1>1, <1>2, <2>1, <2>5, SameOutputs DEF Filed, Extracted
<1>6. ~PrintImage
  BY <1>2 DEF PrintImage, Kept, Exact, Holding, Read, Naming
<1>7. CASE ReadEntries
  <2>1. pc = "entries" /\ pc' = "pass" /\ disk' = disk /\ log' = log
    BY <1>7 DEF ReadEntries
  <2>2. log = <<>>
    BY <2>1 DEF Kept, Ordered, Counted
  <2>3. Chosen(TakenImages)' = {}
    BY <2>1, <2>2 DEF Chosen, TakenImages
  <2>. QED
    BY <1>1, <1>2, <2>1, <2>3, SameOutputs DEF Filed, Extracted
<1>8. CASE Finish
  <2>1. pc = "pass" /\ pc' = "return" /\ disk' = disk /\ log' = log
    BY <1>8 DEF Finish
  <2>2. TakenImages' = Images(file)' /\ TakenImages' = TakenImages
    BY <1>1, <2>1, SameLog DEF Kept, Exact, Leaving
  <2>3. Chosen(TakenImages) = Wanted(opt, file)
    BY <1>1, <2>2, SameInputs DEF Chosen, Wanted
  <2>. QED
    BY <1>1, <1>2, <2>1, <2>3, SameOutputs DEF Filed, Extracted
<1>9. CASE /\ UNCHANGED <<disk, log>>
           /\ \/ pc = "dir" /\ pc' = "entries"
              \/ /\ pc \in {"pass", "scan", "png", "dib", "palette", "pixels",
                            "filter"}
                 /\ pc' \in {"pass", "scan", "png", "dib", "palette", "pixels",
                             "filter", "print", "open"}
  <2>1. TakenImages' = TakenImages
    BY <1>1, <1>9, SameLog
  <2>. QED
    BY <1>1, <1>2, <1>9, <2>1, SameOutputs DEF Filed, Extracted
<1>10. CASE UNCHANGED vars
  <2>1. /\ UNCHANGED <<disk, log, out, c, pc>>
    BY <1>10 DEF vars
  <2>2. TakenImages' = TakenImages
    BY <1>1, <2>1, SameLog
  <2>. QED
    BY <1>1, <1>2, <2>1, <2>2, SameOutputs DEF Filed, Extracted
<1>. QED
  BY <1>3, <1>4, <1>5, <1>6, <1>7, <1>8, <1>9, <1>10, NothingRefused
     DEF Next, ReadDir, StartPass, EndPass, PassOver, Overlook, SkipGarbage,
         Skip, ReadHeader, ReadPng, SkipHeader, PassHeader,
         ReadPalette, ReadPixels, PixelsRead, Match

LEMMA ReturnedIsExact == Kept /\ Filed => ExtractsExactly
<1>. SUFFICES ASSUME Kept, Filed, Returned PROVE ExtractsExactly
  BY DEF ExtractsExactly
<1>. DEFINE W == Wanted(opt, file)
<1>1. /\ IsFile(file) /\ WellFormed(file) /\ Regular
  BY KeptFacts
<1>2. /\ result = Cardinality(W) /\ TakenImages = Images(file)
      /\ Naming => Extracted(W)
      /\ Told
  BY DEF Returned, Kept, Exact, Leaving, Filed
<1>3. W \subseteq Images(file) /\ IsFiniteSet(W)
  <2>1. W \subseteq Images(file)
    BY DEF Wanted
  <2>. QED
    BY <1>1, <2>1, ImagesAreFinite
<1>4. Shown = {StartOf(e) : e \in W}
  <2>1. \A k \in 1..Len(log) : log[k].start = StartOf(log[k].entry)
    BY <1>1 DEF Kept, Ordered, Sorted
  <2>2. \A k \in 1..Len(log) : log[k].shown <=> log[k].entry \in W
    BY <1>2 DEF Told
  <2>3. ASSUME NEW e \in W
        PROVE  \E k \in 1..Len(log) : log[k].entry = e
    BY <1>2, <1>3, <2>3 DEF TakenImages
  <2>4. ASSUME NEW s \in Shown PROVE s \in {StartOf(e) : e \in W}
    BY <2>1, <2>2, <2>4 DEF Shown
  <2>5. ASSUME NEW e \in W PROVE StartOf(e) \in Shown
    <3>1. PICK k \in 1..Len(log) : log[k].entry = e
      BY <2>3, <2>5
    <3>2. log[k].shown /\ log[k].start = StartOf(e)
      BY <2>1, <2>2, <2>5, <3>1
    <3>. QED
      BY <3>1, <3>2 DEF Shown
  <2>. QED
    BY <2>4, <2>5
<1>5. ASSUME ~opt.list, opt.output = "names"
      PROVE  /\ Cardinality({n \in DOMAIN disk : IsNameOf(file, n)}) = result
             /\ \A e \in W : disk[OutName(Index(file, e), HeaderOf(file, e))]
                               = WholeImage(file, e)
  <2>1. Outputs = {NameOf(e) : e \in W} /\ Complete(W)
    BY <1>2, <1>5 DEF Extracted, Naming, Named
  <2>. DEFINE f == [e \in W |-> NameOf(e)]
  <2>2. f \in Bijection(W, Outputs)
    <3>1. f \in [W -> Outputs]
      BY <2>1
    <3>2. \A d, e \in W : f[d] = f[e] => d = e
      BY <1>1, <1>3, <1>5, NamesDiffer
    <3>3. \A n \in Outputs : \E e \in W : f[e] = n
      BY <2>1
    <3>. QED
      BY <3>1, <3>2, <3>3 DEF Bijection, Injection, Surjection, IsInjective
  <2>. HIDE DEF f, W
  <2>3. Cardinality(Outputs) = Cardinality(W)
    BY <1>3, <2>2, FS_Bijection DEF ExistsBijection
  <2>. QED
    BY <1>2, <2>1, <2>3 DEF Outputs, Complete, NameOf
<1>. QED
  BY <1>2, <1>4, <1>5 DEF ExtractsExactly
-----------------------------------------------------------------------------
(* The images of a call come as those of ImageStream do.                   *)

(* The rules of the format are the same for both.                          *)
LEMMA SameFormat ==
  /\ \A f : Stream!Images(f) = Images(f)
  /\ \A f, e : Stream!Index(f, e) = Index(f, e)
  /\ \A o, f : Stream!Wanted(o, f) = Wanted(o, f)
  /\ \A o, f : Stream!Promised(o, f) <=> Promised(o, f)
<1>1. /\ \A h : Stream!IsPng(h) <=> IsPng(h)
      /\ \A h : Stream!palette_count(h) = palette_count(h)
  BY DEF IsPng, Stream!IsPng, palette_count, Stream!palette_count
<1>2. /\ \A h : Stream!height(h) = height(h)
      /\ \A n : Stream!ROW_BYTES(n) = ROW_BYTES(n)
  <2>1. \A n : Stream!Abs(n) = Abs(n)
    BY DEF Abs, Stream!Abs
  <2>. QED
    BY <1>1, <2>1 DEF height, Stream!height, ROW_BYTES, Stream!ROW_BYTES
<1>3. /\ \A h : Stream!image_size(h) = image_size(h)
      /\ \A h : Stream!mask_size(h) = mask_size(h)
  BY <1>2 DEF image_size, Stream!image_size, mask_size, Stream!mask_size
<1>4. \A h : Stream!DibBytes(h) = DibBytes(h)
  <2>1. /\ \A h : Stream!PaletteBytes(h) = PaletteBytes(h)
        /\ \A h : Stream!PixelBytes(h) = PixelBytes(h)
    BY <1>1, <1>3 DEF PaletteBytes, Stream!PaletteBytes, PixelBytes,
       Stream!PixelBytes, SizeofRGBQuad, Stream!SizeofRGBQuad
  <2>. QED
    BY <2>1 DEF DibBytes, Stream!DibBytes
<1>5. \A h : Stream!DibSupported(h) <=> DibSupported(h)
  <2>1. \A a, b : Stream!Greatest(a, b) = Greatest(a, b)
    BY DEF Greatest, Stream!Greatest
  <2>2. \A h : Stream!WidthSupported(h) <=> WidthSupported(h)
    <3>1. \A n : Stream!Abs(n) = Abs(n)
      BY DEF Abs, Stream!Abs
    <3>. QED
      BY <2>1, <3>1 DEF WidthSupported, Stream!WidthSupported
  <2>. QED
    BY <1>1, <1>3, <2>1, <2>2 DEF DibSupported, Stream!DibSupported,
       SizeofBitmapInfoHeader, Stream!SizeofBitmapInfoHeader
<1>6. \A h : Stream!Decodable(h) <=> Decodable(h)
  BY <1>1 DEF Decodable, Stream!Decodable
<1>7. \A o, type, i, h, e : Stream!filter(o, type, i, h, e) <=> filter(o, type, i, h, e)
  <2>1. \A a, b : Stream!Accepts(a, b) <=> Accepts(a, b)
    BY DEF Accepts, Stream!Accepts, Unset, Stream!Unset
  <2>. QED
    BY <1>1, <1>2, <2>1 DEF filter, Stream!filter, PngBitCount, Stream!PngBitCount
<1>8. /\ \A f : Stream!Images(f) = Images(f)
      /\ \A f, e : Stream!HeaderOf(f, e) = HeaderOf(f, e)
      /\ \A f, e : Stream!Extent(f, e) = Extent(f, e)
      /\ \A f, e : Stream!Index(f, e) = Index(f, e)
  <2>1. /\ \A f : Stream!Images(f) = Images(f)
        /\ \A f, e : Stream!HeaderOf(f, e) = HeaderOf(f, e)
    BY DEF Images, Stream!Images, HeaderOf, Stream!HeaderOf
  <2>2. \A f, e : Stream!Extent(f, e) = Extent(f, e)
    BY <1>1, <1>4, <2>1 DEF Extent, Stream!Extent
  <2>3. ASSUME NEW f, NEW e PROVE Stream!Index(f, e) = Index(f, e)
    BY DEF Index, Stream!Index, Images, Stream!Images, Cardinality,
           Stream!Cardinality
  <2>. QED
    BY <2>1, <2>2, <2>3
<1>9. \A o, f : Stream!Wanted(o, f) = Wanted(o, f)
  BY <1>7, <1>8 DEF Wanted, Stream!Wanted
<1>10. \A f : Stream!WellFormed(f) <=> WellFormed(f)
  BY <1>1, <1>5, <1>6, <1>8
     DEF WellFormed, Stream!WellFormed, SizeofFileDir, Stream!SizeofFileDir,
         SizeofFileDirEntry, Stream!SizeofFileDirEntry,
         SizeofBitmapInfoHeader, Stream!SizeofBitmapInfoHeader
<1>11. \A o, f : Stream!Promised(o, f) <=> Promised(o, f)
  BY <1>1, <1>8, <1>9, <1>10 DEF Promised, Stream!Promised
<1>. QED
  BY <1>8, <1>9, <1>11

LEMMA ImageComes ==
  ASSUME Kept, Read, Take(c \in Wanted(opt, file)), file' = file, opt' = opt, ~Returned'
  PROVE  Stream!Take(c)
<1>1. /\ IsFile(file) /\ WellFormed(file) /\ c \in Images(file)
      /\ Promised(opt, file)
  BY KeptFacts DEF Kept
<1>2. /\ Index(file, c) = completed /\ completed = Len(log) + 1
  <2>1. /\ TakenImages = Before(StartOf(c)) /\ completed = Len(log) + 1
        /\ completed = Cardinality(TakenImages) + 1
    BY DEF Kept, Ordered, Counted, Exact, Holding, Reached
  <2>. QED
    BY <1>1, <2>1, BeforeAndBehind
<1>3. /\ Len(log) \in Nat /\ Len(log') = Len(log) + 1
      /\ \A k \in 1..Len(log) : log'[k] = log[k]
      /\ log'[Len(log')].entry = c
      /\ log'[Len(log')].shown = (c \in Wanted(opt, file))
  <2>1. (c \in Wanted(opt, file)) \in BOOLEAN /\ Len(log) \in Nat
    BY DEF Kept, Inv, TypeOK
  <2>2. /\ Len(log') = Len(log) + 1
        /\ \A k \in 1..Len(log) : log'[k] = log[k]
        /\ log'[Len(log')] = [entry |-> c, index |-> completed, start |-> start,
                              png |-> IsPng(bitmap), shown |-> c \in Wanted(opt, file)]
    BY <2>1, TakeLogs DEF Kept
  <2>. QED
    BY <2>1, <2>2
<1>4. Entries(log)' = Append(Entries(log), c)
  <2>1. Entries(log) \in Seq({log[k].entry : k \in 1..Len(log)})
        /\ Len(Entries(log)) = Len(log)
    BY <1>3 DEF Entries
  <2>2. Append(Entries(log), c)
          = [k \in 1..(Len(log) + 1) |-> IF k = Len(log) + 1 THEN c ELSE log[k].entry]
    BY <1>3, <2>1, AppendProperties DEF Entries
  <2>3. Entries(log') = [k \in 1..(Len(log) + 1) |-> log'[k].entry]
    BY <1>3 DEF Entries
  <2>4. \A k \in 1..(Len(log) + 1) :
          log'[k].entry = IF k = Len(log) + 1 THEN c ELSE log[k].entry
    BY <1>3
  <2>5. Entries(log)' = Entries(log')
    BY DEF Entries
  <2>. QED
    BY <2>2, <2>3, <2>4, <2>5
<1>5. ShownEntries' = IF c \in Wanted(opt, file) THEN ShownEntries \cup {c}
                                                 ELSE ShownEntries
  <2>1. 1..Len(log') = 1..Len(log) \cup {Len(log')}
    BY <1>3
  <2>2. {j \in 1..Len(log') : log'[j].shown}
          = {j \in 1..Len(log) : log[j].shown}
              \cup (IF c \in Wanted(opt, file) THEN {Len(log')} ELSE {})
    BY <1>3, <2>1
  <2>3. {log'[k].entry : k \in {j \in 1..Len(log) : log[j].shown}} = ShownEntries
    BY <1>3 DEF ShownEntries
  <2>4. ShownEntries' = {log'[k].entry : k \in {j \in 1..Len(log') : log'[j].shown}}
    BY DEF ShownEntries
  <2>. QED
    BY <1>3, <2>2, <2>3, <2>4
<1>6. Len(Entries(log)) = Len(log)
  BY <1>3 DEF Entries
<1>7. ~Returned /\ ~Returned'
  BY DEF Returned, Read
<1>. QED
  BY <1>1, <1>2, <1>4, <1>5, <1>6, <1>7, SameFormat DEF Stream!Take

LEMMA StreamEnds ==
  ASSUME Kept, Kept', Finish
  PROVE  Stream!Finish
<1>1. /\ pc = "pass" /\ pc' = "return" /\ file' = file /\ opt' = opt /\ log' = log
  BY DEF Finish, ioVars, inputVars
<1>2. TakenImages = Images(file)
  BY <1>1, SameInputs, SameLog DEF Kept, Exact, Leaving
<1>3. /\ completed = Cardinality(TakenImages) /\ completed = Len(log) /\ Len(log) \in Nat
  BY <1>1 DEF Kept, Exact, Scanning, Ordered, Counted, Read, Inv, TypeOK
<1>4. Len(log) = Len(file.dir)
  BY <1>2, <1>3, KeptFacts, ImagesAreFinite DEF count
<1>5. Len(Entries(log)) = Len(log) /\ Entries(log)' = Entries(log)
      /\ ShownEntries' = ShownEntries
  BY <1>1, <1>3 DEF Entries, ShownEntries
<1>. QED
  BY <1>1, <1>4, <1>5, SameFormat DEF Stream!Finish, Returned, Kept

LEMMA NextStreams ==
  (Promised(opt, file) => Kept) /\ [Next]_vars => [Stream!Next]_(Stream!vars)
<1>. SUFFICES ASSUME Promised(opt, file) => Kept, [Next]_vars
              PROVE  [Stream!Next]_(Stream!vars)
  OBVIOUS
<1>. USE DEF ioVars, inputVars, streamVars, scanVars, tallyVars, imageVars, callVars
<1>1. file' = file /\ opt' = opt
  BY FileStays DEF vars
<1>2. CASE /\ log' = log
           /\ Returned' <=> Returned
  <2>1. Entries(log)' = Entries(log) /\ ShownEntries' = ShownEntries
    BY <1>2 DEF Entries, ShownEntries
  <2>. QED
    BY <1>1, <1>2, <2>1 DEF Stream!vars
<1>3. CASE Next /\ ~Promised(opt, file)
  <2>1. ~Returned
    BY <1>3 DEF Next, ReadDir, RejectDir, ReadEntries, RejectEntries, StartPass,
         Finish, PassOver, Overlook, EndPass, SkipGarbage, Skip, Unrecoverable,
         ReadHeader, RejectHeader, ReadPng, RejectPng, SkipHeader, PassHeader,
         RejectDib, ReadPalette, RejectPalette, ReadPixels, PixelsRead, RejectImage,
         FilterOut, Match, PrintImage, RejectPrint, OpenOut, Open, OpenFails,
         WriteImage, RejectPixels, WriteFails, LibpngAborts, Returned
  <2>. QED
    BY <1>1, <1>3, <2>1, SameFormat DEF Stream!Next, Stream!Unpromised
<1>4. CASE Next /\ Kept
  <2>1. CASE FilterOut
    <3>1. Read /\ ~Returned' /\ ~Selected /\ Take(FALSE) /\ pc = "filter"
      BY <2>1 DEF FilterOut, DoNext, Read, Returned
    <3>2. (c \in Wanted(opt, file)) = FALSE
      BY <1>4, <3>1, SelectedIsWanted
    <3>3. Take(c \in Wanted(opt, file))
      BY <3>1, <3>2
    <3>. QED
      BY <1>1, <1>4, <3>1, <3>3, ImageComes, KeptFacts, SameFormat
         DEF Stream!Next, Stream!Extract
  <2>2. CASE PrintImage \/ WriteImage
    <3>1. Read /\ ~Returned' /\ Take(TRUE) /\ pc # "filter" /\ AfterImage
          /\ UNCHANGED <<inputVars, tallyVars>>
      BY <2>2 DEF PrintImage, WriteImage, DoNext, Read, Returned
    <3>2. Take(c \in Wanted(opt, file))
      BY <1>4, <3>1, PastTheImage
    <3>. QED
      BY <1>1, <1>4, <3>1, <3>2, ImageComes, KeptFacts, SameFormat
         DEF Stream!Next, Stream!Extract
  <2>3. CASE Finish
    BY <1>4, <2>3, NextKept, StreamEnds DEF Stream!Next, Stream!Extract
  <2>. QED
    BY <1>2, <1>4, <2>1, <2>2, <2>3, NothingRefused
       DEF Next, ReadDir, ReadEntries, StartPass, EndPass, PassOver, Overlook,
           SkipGarbage, Skip, ReadHeader, ReadPng, SkipHeader, PassHeader,
         ReadPalette, ReadPixels, PixelsRead, Match,
           OpenOut, Open, Returned
<1>5. CASE UNCHANGED vars
  BY <1>2, <1>5 DEF vars, Returned
<1>. QED
  BY <1>3, <1>4, <1>5
-----------------------------------------------------------------------------
(* The names of the outputs.                                               *)

(* Each output of the file that was opened has the number of an image that *)
(* came before the one in hand; only the open one is yet empty.            *)
Numbered ==
  opt.output = "names" =>
    /\ \A n \in Outputs :
         n[3] \in Int
           /\ IF pc \in {"filter", "print", "open"} THEN n[3] < completed
                                                    ELSE n[3] <= completed
    /\ pc = "write" => out \in Outputs /\ disk[out] = <<>>

OutputsStay ==
  opt.output = "names" =>
    \A n \in DOMAIN disk : disk[n] # <<>> => disk'[n] = disk[n]

(* What a step does to other outputs than those of its own file.           *)
OthersStay ==
  opt.output = "names" =>
    /\ DOMAIN disk \subseteq DOMAIN disk'
    /\ \A n \in DOMAIN disk' :
         \/ n \in DOMAIN disk /\ disk'[n] = disk[n]
         \/ IsNameOf(file, n)

LEMMA NextNumbered ==
  Inv /\ DiskOK /\ Numbered /\ [Next]_vars => Numbered' /\ OutputsStay /\ OthersStay
<1>. SUFFICES ASSUME Inv, DiskOK, Numbered, [Next]_vars
              PROVE  Numbered' /\ OutputsStay /\ OthersStay
  OBVIOUS
<1>. USE DEF ioVars, inputVars, tallyVars
<1>1. completed \in Nat
  BY DEF Inv, TypeOK
<1>2. CASE OpenOut
  <2>. SUFFICES ASSUME opt.output = "names"
                PROVE  Numbered' /\ OutputsStay /\ OthersStay
    BY <1>2 DEF OpenOut, Open, Numbered, OutputsStay, OthersStay
  <2>1. /\ file' = file /\ opt' = opt /\ completed' = completed
        /\ pc = "open" /\ pc' = "write"
        /\ out' = OutName(completed, bitmap)
        /\ disk' = IF out' = Stdout THEN disk ELSE Create(out')
    BY <1>2 DEF OpenOut, Open
  <2>2. /\ IsNameOf(file, out') /\ out'[3] = completed /\ out' # Stdout
    BY <2>1 DEF OutName, IsNameOf, Stdout
  <2>3. /\ DOMAIN disk' = DOMAIN disk \cup {out'}
        /\ disk'[out'] = <<>>
        /\ \A n \in DOMAIN disk : n # out' => disk'[n] = disk[n]
    BY <2>1, <2>2 DEF Create
  <2>4. \A n \in Outputs : n[3] \in Int /\ n[3] < completed
    BY <2>1 DEF Numbered
  <2>5. out' \notin DOMAIN disk
    BY <1>1, <2>2, <2>4 DEF Outputs
  <2>6. Outputs' = Outputs \cup {out'}
    BY <2>1, <2>2, <2>3 DEF Outputs
  <2>7. Numbered'
    BY <1>1, <2>1, <2>2, <2>3, <2>4, <2>6 DEF Numbered
  <2>8. OutputsStay /\ OthersStay
    BY <2>2, <2>3, <2>5 DEF OutputsStay, OthersStay
  <2>. QED
    BY <2>7, <2>8
<1>3. CASE WriteImage \/ RejectPixels \/ WriteFails \/ LibpngAborts
  <2>. SUFFICES ASSUME opt.output = "names"
                PROVE  Numbered' /\ OutputsStay /\ OthersStay
    BY <1>3 DEF WriteImage, RejectPixels, WriteFails, LibpngAborts,
                Numbered, OutputsStay, OthersStay
  <2>1. /\ file' = file /\ opt' = opt /\ completed' = completed
        /\ pc = "write" /\ pc' \in {"scan", "return", "abort"}
        /\ disk' = disk \/ \E whole : disk' = Written(whole)
    BY <1>3 DEF WriteImage, RejectPixels, WriteFails, LibpngAborts, DoNext, cleanup
  <2>2. out \in Outputs /\ disk[out] = <<>>
    BY <2>1 DEF Numbered
  <2>3. /\ DOMAIN disk' = DOMAIN disk
        /\ \A n \in DOMAIN disk : n # out => disk'[n] = disk[n]
    BY <2>1 DEF Written
  <2>4. Outputs' = Outputs
    BY <2>1, <2>3 DEF Outputs
  <2>5. Numbered'
    BY <2>1, <2>4 DEF Numbered
  <2>6. OutputsStay /\ OthersStay
    BY <2>2, <2>3 DEF OutputsStay, OthersStay, Outputs
  <2>. QED
    BY <2>5, <2>6
<1>4. ASSUME disk' = disk, file' = file, opt' = opt
      PROVE  OutputsStay /\ OthersStay /\ Outputs' = Outputs
  BY <1>4 DEF OutputsStay, OthersStay, Outputs
<1>5. CASE ReadPng \/ ReadPixels
  <2>1. /\ file' = file /\ opt' = opt /\ disk' = disk /\ completed' = completed + 1
        /\ pc \in {"png", "pixels"} /\ pc' = "filter"
    BY <1>5 DEF ReadPng, ReadPixels, PixelsRead
  <2>. QED
    BY <1>1, <1>4, <2>1 DEF Numbered
<1>6. CASE /\ UNCHANGED <<disk, file, opt, completed, out>>
           /\ \/ pc' \notin {"filter", "print", "open", "write"}
              \/ pc = "filter" /\ pc' \in {"print", "open"}
              \/ pc' = pc
  <2>1. opt.output = "names" =>
          \A n \in Outputs : n[3] \in Int /\ (n[3] < completed => n[3] <= completed)
    BY <1>1, <1>6 DEF Numbered
  <2>. QED
    BY <1>1, <1>4, <1>6 DEF Numbered
<1>. QED
  BY <1>2, <1>3, <1>5, <1>6
     DEF Next, ReadDir, RejectDir, ReadEntries, RejectEntries, StartPass,
         Finish, PassOver, Overlook, EndPass, SkipGarbage, Skip,
         Unrecoverable, ReadHeader, RejectHeader, RejectPng, SkipHeader, PassHeader,
         ReadPalette, RejectDib,
         RejectPalette, RejectImage,
         FilterOut, Match, PrintImage, RejectPrint, OpenFails, DoNext,
         GotoCleanup, cleanup, vars
=============================================================================

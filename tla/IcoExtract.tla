------------------------------ MODULE IcoExtract ------------------------------
(***************************************************************************)
(* extract_icons() of icotool/extract.c: one pass after another over the   *)
(* directory of an icon or cursor file, taking the image whose dib_offset  *)
(* is the offset reached in the stream, until every entry has been taken.  *)
(* A header read where no image starts is any member of Garbage.           *)
(***************************************************************************)
EXTENDS IcoFormat

CONSTANTS
  Files,      \* the files given to extract_icons()
  Options,    \* the command-line options of main.c that reach it
  Garbage     \* the headers that bytes other than an image's may spell

Stdout == <<"-">>      \* "(standard out)"
NoOut == <<"NULL">>

ASSUME FilesAssumption == \A f \in Files : IsFile(f)
ASSUME OptionsAssumption == \A o \in Options : IsOptions(o)
ASSUME GarbageAssumption == Garbage \subseteq Header /\ Garbage # {}

VARIABLES
  file,        \* the input, opened by main()
  opt,         \* the options; neither changes during the call
  pc,
  pos,         \* where the stream stands
  offset,      \* where the code believes it stands
  c, min_offset, previous,     \* the pass over the directory
  completed, matched,
  bitmap,      \* the header last read
  start,       \* history: where the image being read begins
  out,         \* the FILE that is open for writing
  disk,        \* what each output holds: a sequence of images
  stdout,      \* "open" or, after fclose(), "closed"
  headers,     \* the stack of message headers, innermost last
  log,         \* history: the images taken, in the order they were
  result       \* what the call returns

inputVars == <<file, opt>>
ioVars == <<file, opt, out, disk, stdout>>
streamVars == <<pos, offset>>
scanVars == <<c, min_offset, previous>>
tallyVars == <<completed, matched>>
imageVars == <<bitmap, start>>
callVars == <<headers, log, result>>
vars == <<file, opt, pc, pos, offset, c, min_offset, previous, completed,
          matched, bitmap, start, out, disk, stdout, headers, log, result>>

count == Len(file.dir)
entry == file.dir[c]

-----------------------------------------------------------------------------
(* The stream, and the names of the outputs.                               *)

(* xfread() of n bytes at p succeeds; fread() of no bytes returns 0, which *)
(* is a failure too.                                                       *)
CanRead(p, n) == n > 0 /\ p + n <= file.len

HeadersAt(p) == IF p \in DOMAIN file.image THEN {file.image[p]} ELSE Garbage

(* Mutant: the index is not part of the name.                              *)
OutNameWithoutIndex(i, h) ==
  CASE opt.output = "names" ->
         <<"names", file.name, h.width, height(h), h.bits>>
    [] opt.output = "-" -> Stdout
    [] opt.output = "file" -> <<"file">>

(* extract_outfile_gen(): the base name of the input, and what tells its   *)
(* images apart.                                                           *)
OutName(i, h) ==
  CASE opt.output = "names" ->
         <<"names", file.name, i, h.width, height(h), h.bits>>
    [] opt.output = "-" -> Stdout
    [] opt.output = "file" -> <<"file">>

(* fopen(name, "wb")                                                       *)
Create(name) ==
  [n \in DOMAIN disk \cup {name} |-> IF n = name THEN <<>> ELSE disk[n]]

-----------------------------------------------------------------------------
(* The ways a step of the function leaves it.                              *)

set_message_header(s, h) == Append(s, h)
restore_message_header(s) == SubSeq(s, 1, Len(s) - 1)
Replaced(s, h) == set_message_header(restore_message_header(s), h)

cleanup ==
  /\ pc' = "return"
  /\ result' = -1
  /\ headers' = restore_message_header(headers)

GotoCleanup ==
  /\ cleanup
  /\ UNCHANGED <<ioVars, scanVars, streamVars, tallyVars, imageVars, log>>

(* Mutant: the output is left to the end of the process.                   *)
CloseOutForgotten == UNCHANGED <<out, stdout>>

(* The label "done": what was opened for the image is closed, stdout too.  *)
CloseOut ==
  /\ out' = NoOut
  /\ stdout' = IF out = Stdout THEN "closed" ELSE stdout

(* do_next = TRUE: on to the next directory entry.                         *)
DoNext ==
  /\ pc' = "scan"
  /\ c' = c + 1
  /\ UNCHANGED <<min_offset, previous, headers, result>>

Take(shown) ==
  log' = Append(log, [entry |-> c, index |-> completed, start |-> start,
                      png |-> IsPng(bitmap), shown |-> shown])

-----------------------------------------------------------------------------
(* The directory.                                                          *)

DirReadable == CanRead(pos, SizeofFileDir) /\ file.type # "unknown"

ReadDir ==
  /\ pc = "dir"
  /\ DirReadable
  /\ pos' = pos + SizeofFileDir
  /\ pc' = "entries"
  /\ UNCHANGED <<ioVars, callVars, scanVars, tallyVars, imageVars, offset>>

RejectDir ==
  /\ pc = "dir"
  /\ ~DirReadable
  /\ GotoCleanup

(* All entries are read before any is looked at, so the loop is one step.  *)
EntriesReadable ==
  count = 0 \/ CanRead(pos, count * SizeofFileDirEntry)

ReadEntries ==
  /\ pc = "entries"
  /\ EntriesReadable
  /\ pos' = pos + count * SizeofFileDirEntry
  /\ offset' = SizeofFileDir + count * SizeofFileDirEntry
  /\ pc' = "pass"
  /\ UNCHANGED <<ioVars, callVars, scanVars, tallyVars, imageVars>>

RejectEntries ==
  /\ pc = "entries"
  /\ ~EntriesReadable
  /\ GotoCleanup

-----------------------------------------------------------------------------
(* The passes.                                                             *)

StartPass ==
  /\ pc = "pass"
  /\ completed < count
  /\ min_offset' = MaxOffset
  /\ previous' = completed
  /\ c' = 1
  /\ pc' = "scan"
  /\ UNCHANGED <<ioVars, callVars, streamVars, tallyVars, imageVars>>

Finish ==
  /\ pc = "pass"
  /\ completed >= count
  /\ headers' = restore_message_header(headers)
  /\ result' = matched
  /\ pc' = "return"
  /\ UNCHANGED <<ioVars, scanVars, streamVars, tallyVars, imageVars, log>>

Overlook(nearest) ==
  /\ pc = "scan"
  /\ c <= count
  /\ entry.dib_offset # offset
  /\ min_offset' = IF entry.dib_offset > offset THEN nearest ELSE min_offset
  /\ c' = c + 1
  /\ UNCHANGED <<ioVars, callVars, streamVars, tallyVars, imageVars, pc,
                 previous>>

(* Mutant: MIN() forgotten, the last entry further on is skipped to.       *)
PassOverToLast == Overlook(entry.dib_offset)

PassOver == Overlook(Least(min_offset, entry.dib_offset))

EndPass ==
  /\ pc = "scan"
  /\ c > count
  /\ previous # completed
  /\ pc' = "pass"
  /\ UNCHANGED <<ioVars, callVars, scanVars, streamVars, tallyVars, imageVars>>

(* Nothing starts here: skip to the nearest image further on.  fskip()     *)
(* stops at the end of the file, and its result is not looked at.          *)
Skip(to) ==
  /\ pc = "scan"
  /\ c > count
  /\ previous = completed
  /\ pos' = to
  /\ offset' = min_offset
  /\ pc' = "pass"
  /\ UNCHANGED <<ioVars, callVars, scanVars, tallyVars, imageVars>>

AfterGarbage == Least(pos + (min_offset - offset), file.len)

(* Mutants: the test for "unrecoverable" is forgotten, as before 0.29; the *)
(* offset moves and the stream does not.                                   *)
SkipGarbageAlways == Skip(AfterGarbage)
SkipGarbageUnread == min_offset > offset /\ Skip(pos)

SkipGarbage == min_offset > offset /\ Skip(AfterGarbage)

Unrecoverable ==
  /\ pc = "scan"
  /\ c > count
  /\ previous = completed
  /\ min_offset <= offset
  /\ GotoCleanup

-----------------------------------------------------------------------------
(* One image.                                                              *)

ReadHeader ==
  /\ pc = "scan"
  /\ c <= count
  /\ entry.dib_offset = offset
  /\ CanRead(pos, SizeofBitmapInfoHeader)
  /\ bitmap' \in HeadersAt(pos)
  /\ start' = pos
  /\ pos' = pos + SizeofBitmapInfoHeader
  /\ pc' = IF IsPng(bitmap') THEN "png" ELSE "dib"
  /\ UNCHANGED <<ioVars, callVars, scanVars, tallyVars, offset>>

RejectHeader ==
  /\ pc = "scan"
  /\ c <= count
  /\ entry.dib_offset = offset
  /\ ~CanRead(pos, SizeofBitmapInfoHeader)
  /\ GotoCleanup

(* fseek(in, offset, SEEK_SET), which fails unnoticed on a pipe, and then  *)
(* the whole image from where the stream stands.                           *)
PngStart == IF opt.seekable THEN offset ELSE pos

PngReadable ==
  /\ CanRead(PngStart, entry.dib_size)
  /\ PngStart \in DOMAIN file.image
  /\ IsPng(file.image[PngStart])
  /\ file.image[PngStart].clean

ReadPng ==
  /\ pc = "png"
  /\ PngReadable
  /\ pos' = PngStart + entry.dib_size
  /\ bitmap' = file.image[PngStart]
  /\ start' = PngStart
  /\ completed' = completed + 1
  /\ pc' = "filter"
  /\ UNCHANGED <<ioVars, callVars, scanVars, offset, matched>>

RejectPng ==
  /\ pc = "png"
  /\ ~PngReadable
  /\ GotoCleanup

(* A DIB moves the offset in three steps, each after what it reads.        *)
Plus(n) == offset' = (offset + n) % (MaxOffset + 1)

(* An extended header is skipped by fskip(), which stops at the end of the *)
(* file unnoticed; so this sum may wrap.                                   *)
AfterHeader == Least(pos + (bitmap.size - SizeofBitmapInfoHeader), file.len)

HeaderSupported ==
  bitmap.size >= SizeofBitmapInfoHeader /\ ~bitmap.compressed

PassHeader(moved) ==
  /\ pc = "dib"
  /\ HeaderSupported
  /\ pos' = AfterHeader
  /\ moved
  /\ pc' = "palette"
  /\ UNCHANGED <<ioVars, callVars, scanVars, imageVars, tallyVars>>

(* Mutant: = for +=.                                                       *)
SkipHeaderAssigned == PassHeader(offset' = bitmap.size)

SkipHeader == PassHeader(Plus(bitmap.size))

RejectDib ==
  /\ pc = "dib"
  /\ ~HeaderSupported
  /\ GotoCleanup

PaletteReadable ==
  \/ palette_count(bitmap) = 0
  \/ palette_count(bitmap) \in 1..256 /\ CanRead(pos, PaletteBytes(bitmap))

ReadPalette ==
  /\ pc = "palette"
  /\ PaletteReadable
  /\ pos' = pos + PaletteBytes(bitmap)
  /\ Plus(PaletteBytes(bitmap))
  /\ pc' = "pixels"
  /\ UNCHANGED <<ioVars, callVars, scanVars, imageVars, tallyVars>>

RejectPalette ==
  /\ pc = "palette"
  /\ ~PaletteReadable
  /\ GotoCleanup

(* The image, then the mask.                                               *)
PixelsReadable ==
  /\ WidthSupported(bitmap)
  /\ CanRead(pos, image_size(bitmap))
  /\ CanRead(pos + image_size(bitmap), mask_size(bitmap))

PixelsRead(done) ==
  /\ pc = "pixels"
  /\ PixelsReadable
  /\ pos' = pos + PixelBytes(bitmap)
  /\ Plus(PixelBytes(bitmap))
  /\ completed' = done
  /\ pc' = "filter"
  /\ UNCHANGED <<ioVars, callVars, scanVars, imageVars, matched>>

(* Mutant: completed++ is forgotten.                                       *)
ReadPixelsUncounted == PixelsRead(completed)

ReadPixels == PixelsRead(completed + 1)

RejectImage ==
  /\ pc = "pixels"
  /\ ~PixelsReadable
  /\ GotoCleanup

Selected == filter(opt, file.type, completed, bitmap, entry)

FilterOut ==
  /\ pc = "filter"
  /\ ~Selected
  /\ Take(FALSE)
  /\ DoNext
  /\ UNCHANGED <<ioVars, streamVars, tallyVars, imageVars>>

Match ==
  /\ pc = "filter"
  /\ Selected
  /\ matched' = matched + 1
  /\ pc' = IF opt.list THEN "print" ELSE "open"
  /\ UNCHANGED <<ioVars, callVars, scanVars, streamVars, imageVars, completed>>

(* Mutant: the offset does not move past a PNG at all.                     *)
AfterImageUnmoved == UNCHANGED offset

(* The offset moves past a PNG only here; past a DIB it moved when it was  *)
(* read.                                                                   *)
AfterImage ==
  offset' = IF IsPng(bitmap)
            THEN (offset + entry.dib_size) % (MaxOffset + 1)
            ELSE offset

(* The rows of a DIB are decoded in list mode too, and "color out of       *)
(* range" ends the call in both.                                           *)
PrintImage ==
  /\ pc = "print"
  /\ Decodable(bitmap)
  /\ Take(TRUE)
  /\ AfterImage
  /\ DoNext
  /\ UNCHANGED <<ioVars, tallyVars, imageVars, pos>>

RejectPrint ==
  /\ pc = "print"
  /\ ~Decodable(bitmap)
  /\ GotoCleanup

-----------------------------------------------------------------------------
(* Writing it out.                                                         *)

Open(stack) ==
  /\ pc = "open"
  /\ out' = OutName(completed, bitmap)
  /\ disk' = IF out' = Stdout THEN disk ELSE Create(out')
  /\ headers' = stack
  /\ pc' = "write"
  /\ UNCHANGED <<inputVars, scanVars, streamVars, tallyVars, imageVars, stdout,
                 log, result>>

(* Mutant: the second restore_message_header() is forgotten.               *)
OpenOutUnrestored ==
  Open(set_message_header(Replaced(headers, "outname"), "inname"))

OpenOut == Open(Replaced(Replaced(headers, "outname"), "inname"))

(* The name of the file that cannot be created heads the message about it. *)
OpenFails ==
  /\ pc = "open"
  /\ "open" \in opt.faults
  /\ opt.output # "-"
  /\ pc' = "return"
  /\ result' = -1
  /\ headers' = restore_message_header(Replaced(headers, "outname"))
  /\ UNCHANGED <<ioVars, scanVars, streamVars, tallyVars, imageVars, log>>

OutClosed == out = Stdout /\ stdout = "closed"

Written(whole) ==
  [disk EXCEPT ![out] = Append(@, [start |-> start, index |-> completed,
                                   whole |-> whole])]

(* What fclose() could not flush is lost unnoticed, and so is what is      *)
(* written to a closed stdout.                                             *)
WriteImage ==
  /\ pc = "write"
  /\ Decodable(bitmap)
  /\ IF OutClosed
     THEN UNCHANGED disk
     ELSE \E whole \in {TRUE, "flush" \notin opt.faults} :
            disk' = Written(whole)
  /\ Take(TRUE)
  /\ AfterImage
  /\ CloseOut
  /\ DoNext
  /\ UNCHANGED <<inputVars, tallyVars, imageVars, pos>>

(* Mutant: a colour out of range ends the row loop, not the call.          *)
RejectPixelsUnreported ==
  /\ pc = "write"
  /\ ~Decodable(bitmap)
  /\ disk' = IF OutClosed THEN disk ELSE Written(FALSE)
  /\ CloseOut
  /\ Take(TRUE)
  /\ DoNext
  /\ UNCHANGED <<inputVars, streamVars, tallyVars, imageVars>>

(* A colour out of range leaves the rows before it in the file.            *)
RejectPixels ==
  /\ pc = "write"
  /\ ~Decodable(bitmap)
  /\ disk' = IF OutClosed THEN disk ELSE Written(FALSE)
  /\ CloseOut
  /\ cleanup
  /\ UNCHANGED <<inputVars, scanVars, streamVars, tallyVars, imageVars, log>>

(* fwrite() fails on a PNG: straight to "cleanup", the output stays open.  *)
WriteFails ==
  /\ pc = "write"
  /\ OutClosed \/ "write" \in opt.faults
  /\ IsPng(bitmap)
  /\ disk' = IF OutClosed THEN disk ELSE Written(FALSE)
  /\ cleanup
  /\ UNCHANGED <<inputVars, scanVars, streamVars, tallyVars, imageVars, out,
                 stdout, log>>

(* On a DIB libpng writes; it was given no error function and no setjmp(), *)
(* so its default handler ends the process.                                *)
LibpngAborts ==
  /\ pc = "write"
  /\ OutClosed \/ "write" \in opt.faults
  /\ ~IsPng(bitmap)
  /\ disk' = IF OutClosed THEN disk ELSE Written(FALSE)
  /\ pc' = "abort"
  /\ UNCHANGED <<inputVars, callVars, scanVars, streamVars, tallyVars,
                 imageVars, out, stdout>>

Returned == pc \in {"return", "abort"}

(* An entry of the directory has been found to be that of the offset, and  *)
(* its image is being dealt with.                                          *)
InImage ==
  pc \in {"png", "dib", "palette", "pixels", "filter", "print", "open", "write"}

(* The function is one thread of control that never blocks: it takes steps *)
(* until it has Returned.                                                  *)
Next ==
  \/ ReadDir \/ RejectDir \/ ReadEntries \/ RejectEntries
  \/ StartPass \/ Finish \/ PassOver \/ EndPass \/ SkipGarbage \/ Unrecoverable
  \/ ReadHeader \/ RejectHeader \/ ReadPng \/ RejectPng
  \/ SkipHeader \/ RejectDib \/ ReadPalette \/ RejectPalette
  \/ ReadPixels \/ RejectImage
  \/ FilterOut \/ Match \/ PrintImage \/ RejectPrint
  \/ OpenOut \/ OpenFails \/ WriteImage \/ RejectPixels
  \/ WriteFails \/ LibpngAborts

-----------------------------------------------------------------------------
(* Properties.                                                             *)

TypeOK ==
  /\ IsFile(file)
  /\ IsOptions(opt)
  /\ pc \in {"dir", "entries", "pass", "scan", "png", "dib", "palette",
             "pixels", "filter", "print", "open", "write", "return", "abort"}
  /\ pos \in 0..MaxOffset
  /\ offset \in 0..MaxOffset
  /\ c \in 1..(count + 1)
  /\ min_offset \in 0..MaxOffset
  /\ previous \in Nat
  /\ completed \in Nat
  /\ matched \in 0..completed
  /\ bitmap \in Header
  /\ start \in 0..MaxOffset
  /\ stdout \in {"open", "closed"}
  /\ log \in Seq([entry: Images(file), index: Nat, start: 0..MaxOffset,
                 png: BOOLEAN, shown: BOOLEAN])
  /\ result \in Int
  /\ InImage => c \in 1..count

(* A PNG was read and then filtered out: the offset did not move past it.  *)
PassedOverPng ==
  \E k \in 1..Len(log) : log[k].png /\ ~log[k].shown

(* No step but a read moves the offset away from where the stream stands:  *)
(* whenever extract_icons() looks at a directory entry, the dib_offset it  *)
(* compares is that of the very byte xfread() would return next.           *)
Synced ==
  pc \in {"pass", "scan"} /\ opt.seekable /\ ~PassedOverPng
    => pos = Least(offset, file.len)

StartOf(e) == file.dir[e].dib_offset

(* The offset never falls behind an image already taken, so none is taken  *)
(* twice; each is read from where its entry says; and images come in the   *)
(* order of the file: "index" numbers them by where they lie, not by their *)
(* place in the directory.                                                 *)
TakenInFileOrder ==
  /\ \A k \in 1..Len(log) : log[k].index = k
  /\ ~PassedOverPng /\ opt.seekable =>
       /\ \A k \in 1..Len(log) : log[k].start = StartOf(log[k].entry)
       /\ \A j, k \in 1..Len(log) : j < k =>
            StartOf(log[j].entry) < StartOf(log[k].entry)

(* The directory is never compared with an offset lower than one it was    *)
(* compared with before.  A size field can make the 32-bit offset wrap     *)
(* (extract.c:236), but the image it belongs to then fails to be read, and *)
(* the call ends before another entry is looked at.                        *)
Compared == IF InImage THEN entry.dib_offset ELSE offset

OffsetNeverFallsBack ==
  [][~Returned /\ ~Returned' => Compared' >= Compared]_<<file, pc, c, offset>>

(* What extract_icons() promises of a well-formed file, in whatever order  *)
(* its directory lists the images and whatever lies between them: it       *)
(* returns the number of images the options select, has shown those and no *)
(* others, and each stands alone and complete under its own name.          *)
Shown == {log[k].start : k \in {j \in 1..Len(log) : log[j].shown}}

IsNameOf(f, n) == n[1] = "names" /\ n[2] = f.name

WholeImage(f, e) ==
  <<[start |-> f.dir[e].dib_offset, index |-> Index(f, e), whole |-> TRUE]>>

ExtractsExactly ==
  Returned /\ Promised(opt, file) =>
    /\ result = Cardinality(Wanted(opt, file))
    /\ Shown = {StartOf(e) : e \in Wanted(opt, file)}
    /\ ~opt.list /\ opt.output = "names" =>
         /\ Cardinality({n \in DOMAIN disk : IsNameOf(file, n)}) = result
         /\ \A e \in Wanted(opt, file) :
              disk[OutName(Index(file, e), HeaderOf(file, e))] = WholeImage(file, e)

(* An image cut short, by a colour out of range or by a write that fwrite()*)
(* or libpng sees fail, is the last one touched, and the call does not     *)
(* report success: it returns -1, or libpng ends the process.  Only what   *)
(* fclose() fails to write is lost unnoticed (extract.c:387).              *)
IncompleteIsReported ==
  "flush" \notin opt.faults /\
  (\E n \in DOMAIN disk : \E k \in 1..Len(disk[n]) : ~disk[n][k].whole)
    => (pc = "return" /\ result = -1) \/ pc = "abort"

(* What one image was written to is not touched by a later one, whichever  *)
(* way the call goes on: the names of the outputs are all different.       *)
OutputsKept ==
  [][opt.output = "names" =>
       \A n \in DOMAIN disk : disk[n] # <<>> => disk'[n] = disk[n]]_disk

(* One output at a time: while the directory is scanned none is open, and  *)
(* none is left open by a call that returns, a failed fwrite() excepted.   *)
OutputsClosed ==
  pc \in {"pass", "scan"} \/ (pc = "return" /\ "write" \notin opt.faults)
    => out = NoOut \/ (out = Stdout /\ stdout = "closed")

(* Each warning is headed by the name of the input, and the headers set    *)
(* during the call are all taken off again on every path out of it.        *)
HeadersBalanced ==
  headers = CASE pc = "return" -> <<>>
              [] OTHER -> <<"inname">>

(* The detailed call implements the abstract one: seen from outside, each  *)
(* call takes the images one by one in the order of the file, never goes   *)
(* back on one it has shown, and comes to an end only after the last.      *)
Entries(s) == [k \in 1..Len(s) |-> s[k].entry]
ShownEntries == {log[k].entry : k \in {j \in 1..Len(log) : log[j].shown}}

Stream == INSTANCE ImageStream WITH
            taken <- Entries(log),
            shown <- ShownEntries,
            status <- IF Returned THEN "done" ELSE "running"

ImplementsStream == Stream!Spec
=============================================================================

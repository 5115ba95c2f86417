------------------------------ MODULE IcoCreate ------------------------------
(***************************************************************************)
(* create_icon() of icotool/create.c: every input is read before the       *)
(* output is opened; then the directory, its entries and the images are    *)
(* written in the order of the inputs.  The file written is kept in the    *)
(* form of IcoFormat, so that what extract_icons() asks of a file can be   *)
(* asked of it.                                                            *)
(***************************************************************************)
EXTENDS PixelCodec

CONSTANTS
  Inputs,     \* sequences of the files on the command line, --raw ones last
  Options,    \* the command-line options of main.c that reach create_icon()
  BufferSize  \* what the output's FILE holds before it writes to the disk

(* What create_icon() finds in an input: where treating it fails, if it    *)
(* does, the PNG's dimensions, its distinct colours and, if it has an      *)
(* alpha channel, its alpha levels; for a raw one, its length.             *)
InputFaults == {"none", "missing", "short", "foreign", "reader", "info",
                "header", "reread", "rows", "end"}

Input == [fault: InputFaults, raw: BOOLEAN,
          width: Nat \ {0}, height: Nat \ {0}, colors: Nat \ {0},
          alphas: SUBSET (0..255), length: Nat \ {0}]

ASSUME BufferAssumption == BufferSize \in Nat
ASSUME InputsAssumption == Inputs \subseteq Seq(Input) \ {<<>>}
ASSUME ColorsAssumption ==
  \A s \in Inputs : \A k \in DOMAIN s : s[k].colors <= s[k].width * s[k].height
ASSUME OptionsAssumption ==
  Options \subseteq [type: {"icon", "cursor"}, bit_count: Nat \cup {Unset},
                     hotspot_x: Nat, hotspot_y: Nat,
                     output: {"file", "stdout", "terminal"},
                     disk: {"roomy", "fills"}]

VARIABLES
  inputs, opt,
  pc,
  c,          \* the input, or image, being treated
  img,        \* what is known of each
  ptr,        \* the pointers that are not NULL: <<image, member>> of img,
              \* and <<0, variable>> of create_icon() itself
  live,       \* those whose object is allocated, or open
  out,        \* "none" before outfile_gen()
  file,       \* what has been given to its FILE
  dib_start,
  full,       \* the disk takes nothing more
  saved,      \* how much of the file it had certainly taken by then
  headers     \* the stack of message headers, innermost last

callVars == <<inputs, opt>>
heapVars == <<img, ptr, live>>
outVars == <<out, file, dib_start>>
diskVars == <<full, saved>>
vars == <<inputs, opt, pc, c, img, ptr, live, out, file, dib_start, full, saved,
          headers>>

filec == Len(inputs)
input == inputs[c]

Zeroed == [raw |-> FALSE, width |-> 0, height |-> 0, bit_count |-> 0,
           palette_count |-> 0, image_size |-> 0, mask_size |-> 0]

Of(k, members) == {<<k, m>> : m \in members}

set_message_header(s, h) == Append(s, h)
restore_message_header(s) ==
  IF s = <<>> THEN s ELSE SubSeq(s, 1, Len(s) - 1)

Init ==
  /\ inputs \in Inputs
  /\ opt \in Options
  /\ pc = "open"
  /\ c = 1
  /\ img = [k \in 1..Len(inputs) |-> Zeroed]
  /\ ptr = Of(0, {"img"}) /\ live = ptr
  /\ out = "none"
  /\ file = [type |-> "unknown", dir |-> <<>>, image |-> <<>>, len |-> 0]
  /\ dib_start = 0
  /\ full = FALSE
  /\ saved = 0
  /\ headers = <<>>

-----------------------------------------------------------------------------
(* How many bits a pixel takes.                                            *)

(* Mutant: counting stops at 256 colours.                                  *)
counted_to_256(i) == Least(i.colors, 256)

(* palette_count() after palette_add() of every pixel.                     *)
counted(i) == Least(i.colors, 257)

(* Alpha levels that the one-bit mask cannot tell.                         *)
need_transparency(i) ==
  \/ Cardinality(i.alphas) > 2
  \/ Cardinality(i.alphas) = 2 /\ i.alphas # {0, 255}

(* Four colours, two bits, are not supported.                              *)
palette_depth(n) ==
  CHOOSE d \in {1, 4, 8} :
    n <= 2 ^ d /\ \A b \in {1, 4, 8} : n <= 2 ^ b => d <= b

depth(i, minimum) ==
  IF need_transparency(i) THEN IF minimum = Unset THEN 32 ELSE 24
  ELSE IF counted(i) <= 256 THEN palette_depth(counted(i)) ELSE 24

bit_count(i, minimum) == Greatest(depth(i, minimum), minimum)

size_of(i, bits) == i.height * ROW_BYTES(i.width * bits)

Sized(i, minimum) ==
  LET bits == bit_count(i, minimum)
  IN  [raw |-> FALSE, width |-> i.width, height |-> i.height,
       bit_count |-> bits,
       palette_count |-> IF bits > 16 THEN 0 ELSE 2 ^ bits,
       image_size |-> size_of(i, bits),
       mask_size |-> size_of(i, 1)]

(* Everything was converted to 8 bits a sample and four samples a pixel.   *)
SizedRaw(i) ==
  [Zeroed EXCEPT !.raw = TRUE, !.width = i.width, !.height = i.height,
                 !.bit_count = 32, !.image_size = i.length]

-----------------------------------------------------------------------------
(* Reading the inputs.                                                     *)

(* No pointer outlives the call, and nothing closes the output.            *)
Output == Of(0, {"out"})

(* The label "cleanup", entered with the message headers h.                *)
Fail(h) ==
  /\ pc' = "failed"
  /\ headers' = restore_message_header(h)
  /\ live' = live \ (ptr \ Output)
  /\ ptr' = {}
  /\ UNCHANGED <<callVars, c, img, outVars, diskVars>>

Allocate(members) == ptr' = ptr \cup members /\ live' = live \cup members

OpenInput ==
  /\ pc = "open"
  /\ input.fault # "missing"
  /\ Allocate(Of(c, {"in"}))
  /\ headers' = set_message_header(headers, c)
  /\ pc' = "signature"
  /\ UNCHANGED <<callVars, c, img, outVars, diskVars>>

InputMissing ==
  pc = "open" /\ input.fault = "missing" /\ Fail(set_message_header(headers, c))

(* Or libpng cannot be initialised.                                        *)
BadSignature ==
  pc = "signature" /\ input.fault \in {"short", "foreign", "reader"}

(* Mutant: the loop stays at the input.                                    *)
NextInputStuck == pc' = "open" /\ UNCHANGED c

(* Mutant: it runs once too often.                                         *)
NextInputPastEnd ==
  IF c <= filec THEN c' = c + 1 /\ pc' = "open" ELSE c' = 1 /\ pc' = "outfile"

NextInput ==
  IF c < filec THEN c' = c + 1 /\ pc' = "open" ELSE c' = 1 /\ pc' = "outfile"

(* Mutant: such an input is passed over.                                   *)
PassOverInput ==
  /\ BadSignature
  /\ headers' = restore_message_header(headers)
  /\ NextInput
  /\ UNCHANGED <<callVars, heapVars, outVars, diskVars>>

RejectInput == BadSignature /\ Fail(headers)

CreateReader ==
  /\ pc = "signature"
  /\ input.fault \notin {"short", "foreign", "reader"}
  /\ Allocate(Of(c, {"png_ptr"}))
  /\ pc' = "info"
  /\ UNCHANGED <<callVars, c, img, outVars, diskVars, headers>>

ReadInfo ==
  /\ pc = "info"
  /\ input.fault \notin {"info", "header"}
  /\ pc' = IF input.raw THEN "size" ELSE "rows"
  /\ UNCHANGED <<callVars, c, heapVars, outVars, diskVars, headers>>

RejectInfo == pc = "info" /\ input.fault = "info" /\ Fail(headers)

(* The reader is done with, and the file is read again as it is.           *)
SizeRaw ==
  /\ pc = "size"
  /\ img' = [img EXCEPT ![c] = SizedRaw(input)]
  /\ ptr' = (ptr \ Of(c, {"png_ptr"})) \cup Of(c, {"image_data"})
  /\ live' = (live \ Of(c, {"png_ptr"})) \cup Of(c, {"image_data"})
  /\ pc' = "reread"
  /\ UNCHANGED <<callVars, c, outVars, diskVars, headers>>

Store(header_stack) ==
  /\ pc = "reread"
  /\ input.fault # "reread"
  /\ headers' = header_stack
  /\ NextInput
  /\ UNCHANGED <<callVars, heapVars, outVars, diskVars>>

(* Mutant: restore_message_header() is forgotten.                          *)
StoreRawUnrestored == Store(headers)
StoreRaw == Store(restore_message_header(headers))

RejectRaw == pc = "reread" /\ input.fault = "reread" /\ Fail(headers)

ReadRows ==
  /\ pc = "rows"
  /\ input.fault # "rows"
  /\ img' = [img EXCEPT ![c] = Sized(input, opt.bit_count)]
  /\ Allocate(Of(c, {"row_datas", "palette"}))
  /\ headers' = restore_message_header(headers)
  /\ NextInput
  /\ UNCHANGED <<callVars, outVars, diskVars>>

(* libpng ends the process at an error: no setjmp() catches it.            *)
LibpngAborts ==
  /\ \/ pc = "info" /\ input.fault = "header"
     \/ pc = "rows" /\ input.fault = "rows"
     \/ pc = "release" /\ ~input.raw /\ input.fault = "end"
  /\ pc' = "aborted"
  /\ UNCHANGED <<callVars, c, heapVars, outVars, diskVars, headers>>

-----------------------------------------------------------------------------
(* Writing.  What fwrite() returns is checked for the directory, its       *)
(* entries, the headers and the pixels, not for colour tables and masks;   *)
(* and fwrite() fails only when its FILE has to write to the disk.  The    *)
(* output is neither flushed nor closed: what exit() then fails to write   *)
(* of it is lost unnoticed.                                                *)

(* fwrite() of n bytes may succeed.                                        *)
Checked(n) == full => n <= BufferSize

OutHeader == set_message_header(restore_message_header(headers), "output")

NameOut ==
  /\ pc = "outfile"
  /\ opt.output # "terminal"
  /\ Allocate(Of(0, {"outname"}))
  /\ pc' = "create"
  /\ UNCHANGED <<callVars, c, img, outVars, diskVars, headers>>

OpenOut ==
  /\ pc = "create"
  /\ out' = "open"
  /\ Allocate(Output)
  /\ headers' = OutHeader
  /\ pc' = "dir"
  /\ UNCHANGED <<callVars, c, img, file, dib_start, diskVars>>

OutNotOpened == pc = "create" /\ opt.output = "file" /\ Fail(OutHeader)

(* die(): binary data are not written to a terminal.                       *)
Refuse ==
  /\ pc = "outfile"
  /\ opt.output = "terminal"
  /\ pc' = "died"
  /\ UNCHANGED <<callVars, c, heapVars, outVars, diskVars, headers>>

WriteDir ==
  /\ pc = "dir"
  /\ Checked(SizeofFileDir)
  /\ file' = [file EXCEPT !.type = opt.type, !.len = SizeofFileDir]
  /\ dib_start' = SizeofFileDir + filec * SizeofFileDirEntry
  /\ pc' = "entries"
  /\ UNCHANGED <<callVars, c, heapVars, out, diskVars, headers>>

dib_size(i) ==
  IF i.raw THEN i.image_size
  ELSE i.palette_count * SizeofRGBQuad + SizeofBitmapInfoHeader
         + i.image_size + i.mask_size

Entry(i) ==
  [dib_offset |-> dib_start, dib_size |-> dib_size(i),
   hotspot_x |-> IF opt.type = "icon" THEN 1 ELSE opt.hotspot_x,
   hotspot_y |-> IF opt.type = "icon" THEN i.bit_count ELSE opt.hotspot_y]

WriteEntry ==
  /\ pc = "entries"
  /\ Checked(SizeofFileDirEntry)
  /\ file' = [file EXCEPT !.dir = Append(@, Entry(img[c])),
                          !.len = @ + SizeofFileDirEntry]
  /\ dib_start' = dib_start + dib_size(img[c])
  /\ IF c < filec THEN c' = c + 1 /\ UNCHANGED pc ELSE c' = 1 /\ pc' = "image"
  /\ UNCHANGED <<callVars, heapVars, out, diskVars, headers>>

(* n bytes more.                                                           *)
Put(n) == file' = [file EXCEPT !.len = @ + n]

(* n bytes more, with which the image header h is written.                 *)
PutImage(h, n) ==
  file' = [file EXCEPT
             !.image = [p \in DOMAIN file.image \cup {file.len} |->
                          IF p = file.len THEN h ELSE file.image[p]],
             !.len = @ + n]

(* As read_png() will find it.                                             *)
RawHeader(i) ==
  [magic |-> "png", size |-> input.length, width |-> i.width,
   height |-> i.height, bits |-> i.bit_count, clr_used |-> 0,
   compressed |-> FALSE, clean |-> input.fault = "none"]

WriteRaw ==
  /\ pc = "image"
  /\ img[c].raw
  /\ Checked(img[c].image_size)
  /\ PutImage(RawHeader(img[c]), img[c].image_size)
  /\ pc' = "release"
  /\ UNCHANGED <<callVars, c, heapVars, out, dib_start, diskVars, headers>>

(* Mutant: the mask's rows are not added to the height.                    *)
BitmapHeight(i) == i.height

stored_height(i) == i.height * 2

(* A pixel's value is its colour's index in the palette.                   *)
BitmapHeader(i) ==
  [magic |-> "dib", size |-> SizeofBitmapInfoHeader, width |-> i.width,
   height |-> stored_height(i), bits |-> i.bit_count,
   clr_used |-> i.palette_count, compressed |-> FALSE,
   clean |-> i.bit_count > 16 \/ counted(input) <= i.palette_count]

WriteHeader ==
  /\ pc = "image"
  /\ ~img[c].raw
  /\ Checked(SizeofBitmapInfoHeader)
  /\ PutImage(BitmapHeader(img[c]), SizeofBitmapInfoHeader)
  /\ pc' = IF img[c].bit_count <= 16 THEN "palette" ELSE "pixels"
  /\ UNCHANGED <<callVars, c, heapVars, out, dib_start, diskVars, headers>>

(* Mutant: the table is not filled up.                                     *)
colors_only(i) == counted(input)

(* The colours, then empty ones up to the power of two.                    *)
colors_written(i) == Greatest(counted(input), 2 ^ i.bit_count)

WritePalette ==
  /\ pc = "palette"
  /\ Put(SizeofRGBQuad * colors_written(img[c]))
  /\ pc' = "pixels"
  /\ UNCHANGED <<callVars, c, heapVars, out, dib_start, diskVars, headers>>

PackPixels ==
  /\ pc = "pixels"
  /\ Allocate(Of(c, {"image_data"}))
  /\ pc' = "packed"
  /\ UNCHANGED <<callVars, c, img, outVars, diskVars, headers>>

PixelsWritten ==
  /\ pc = "packed"
  /\ Put(img[c].image_size)
  /\ pc' = "mask"
  /\ UNCHANGED <<callVars, c, heapVars, out, dib_start, diskVars, headers>>

(* Mutant: what fwrite() returns is not looked at.                         *)
WritePixelsUnchecked == PixelsWritten

WritePixels == Checked(img[c].image_size) /\ PixelsWritten

(* For each row fputc() of eight pixels at a time, and fpad().             *)
mask_written(i) ==
  LET octets == (i.width + 7) \div 8
  IN  i.height * (octets + (i.mask_size \div i.height - octets))

WriteMask ==
  /\ pc = "mask"
  /\ Put(mask_written(img[c]))
  /\ pc' = "release"
  /\ UNCHANGED <<callVars, c, heapVars, out, dib_start, diskVars, headers>>

(* How much the buffer still takes is not known.                           *)
WriteFails ==
  full /\ pc \in {"dir", "entries", "image", "packed"} /\ Fail(headers)

ReleaseTo(pointers, record) ==
  /\ pc = "release"
  /\ input.raw \/ input.fault # "end"
  /\ live' = live \ {x \in ptr : x[1] = c}
  /\ ptr' = pointers
  /\ img' = [img EXCEPT ![c] = record]
  /\ IF c < filec THEN c' = c + 1 /\ pc' = "image" ELSE pc' = "return" /\ UNCHANGED c
  /\ UNCHANGED <<callVars, outVars, diskVars, headers>>

(* Mutant: memset() is forgotten.                                          *)
ReleaseUncleared == ReleaseTo(ptr, img[c])

ReleaseImage == ReleaseTo({x \in ptr : x[1] # c}, Zeroed)

Succeed ==
  /\ pc = "return"
  /\ live' = live \ Of(0, {"outname", "img"})
  /\ ptr' = {}
  /\ pc' = "done"
  /\ UNCHANGED <<callVars, c, img, outVars, diskVars, headers>>

(* At any time, even between the return and exit(), when what the buffer   *)
(* still holds is written.                                                 *)
DiskFills ==
  /\ opt.disk = "fills"
  /\ out = "open"
  /\ ~full
  /\ full' = TRUE
  /\ saved' = file.len - Least(BufferSize, file.len)
  /\ UNCHANGED <<callVars, pc, c, heapVars, outVars, headers>>

Ended == pc \in {"done", "failed", "aborted", "died"}
Returned == Ended /\ UNCHANGED vars

Step ==
  \/ OpenInput \/ InputMissing \/ RejectInput \/ CreateReader
  \/ ReadInfo \/ RejectInfo \/ SizeRaw \/ StoreRaw \/ RejectRaw
  \/ ReadRows \/ LibpngAborts
  \/ NameOut \/ OpenOut \/ OutNotOpened \/ Refuse
  \/ WriteDir \/ WriteEntry \/ WriteRaw \/ WriteHeader \/ WritePalette
  \/ PackPixels \/ WritePixels \/ WriteMask \/ WriteFails
  \/ ReleaseImage \/ Succeed

Next == Step \/ DiskFills \/ Returned

(* One thread that never waits; the disk need not fill.                    *)
Spec == Init /\ [][Next]_vars /\ WF_vars(Step)

-----------------------------------------------------------------------------
(* Properties.                                                             *)

Members == {"in", "png_ptr", "image_data", "row_datas", "palette"}
Objects == ((1..filec) \X Members) \cup Of(0, {"img", "outname", "out"})

TypeOK ==
  /\ inputs \in Inputs /\ opt \in Options
  /\ pc \in {"open", "signature", "info", "size", "reread", "rows",
             "outfile", "create", "dir", "entries",
             "image", "palette", "pixels", "packed", "mask", "release",
             "return", "done", "failed", "aborted", "died"}
  /\ c \in 1..filec
  /\ ptr \subseteq Objects
  /\ live \subseteq Objects
  /\ out \in {"none", "open"}
  /\ full \in BOOLEAN

(* Whatever fails, and wherever: until it returns, a pointer of            *)
(* create_icon() that is not NULL points to an object, and every object is *)
(* pointed to.  When it returns, TRUE or FALSE, the only object left is    *)
(* the FILE of the output, if that was opened: nothing closes it           *)
(* (create.c:435-460) before exit() does.                                  *)
NothingLeaksOrDangles ==
  IF pc \in {"done", "failed"}
  THEN ptr = {} /\ live = IF out = "open" THEN Output ELSE {}
  ELSE ptr = live

(* The output is not opened, and truncated, if any of the inputs cannot    *)
(* be read.  What follows the rows of a PNG is read later (create.c:428),  *)
(* with the output half written: "end" is not among the faults meant here. *)
Unreadable(i) ==
  i.fault \in {"missing", "short", "foreign", "reader", "info", "header"}
                \cup (IF i.raw THEN {"reread"} ELSE {"rows"})

UntouchedIfUnreadable ==
  (\E k \in 1..filec : Unreadable(inputs[k])) => out = "none" /\ pc # "done"

(* A call that fails leaves the message headers as it found them.          *)
HeadersBalanced == pc = "failed" => headers = <<>>

(* Each image is written where its directory entry says, and fills it.     *)
LayoutExact ==
  ~full =>
    /\ pc = "image" => file.len = file.dir[c].dib_offset
    /\ pc = "release" => file.len = file.dir[c].dib_offset + file.dir[c].dib_size
    /\ pc = "done" => file.len = dib_start

(* extract_icons() finds in the file created every image, complete, in     *)
(* the order of the inputs and with their dimensions.                      *)
ReadsBack ==
  pc = "done" /\ ~full /\ (\A k \in 1..filec : inputs[k].fault = "none") =>
    /\ WellFormed(file)
    /\ Images(file) = 1..filec
    /\ \A k \in 1..filec :
         LET h == HeaderOf(file, k) IN
         /\ Index(file, k) = k
         /\ IsPng(h) <=> inputs[k].raw
         /\ h.width = inputs[k].width /\ height(h) = inputs[k].height
         /\ Extent(file, k) = file.dir[k].dib_size

(* Whatever the width does to the packing and padding of rows: of each     *)
(* pixel of each image written extract_icons() reads the very bits that    *)
(* were written of it, and of each mask; but not always of 24 bits.        *)
Picture(i) == [width |-> i.width, height |-> i.height, bits |-> i.bit_count]

Pictures ==
  {Picture(Sized(i, o.bit_count)) : i \in UNION {{s[k] : k \in DOMAIN s} : s \in Inputs}, o \in Options}

PictureSurvives == [s \in Pictures |-> PixelsSurvive(s) /\ MaskSurvives(s)]

ThirdsOfRows(s) == s.bits = 24 /\ RowBytes(s) % 3 # 0

PixelsReadBack ==
  pc = "release" /\ ~img[c].raw /\ ~ThirdsOfRows(Picture(img[c]))
    => PictureSurvives[Picture(img[c])]

(* As many bits as the colours, and two levels of alpha, take.             *)
ColorsKept ==
  pc = "done" /\ ~full =>
    \A k \in {j \in 1..filec : ~inputs[j].raw} :
      LET h == HeaderOf(file, k) IN
      \/ h.bits >= 24
      \/ inputs[k].colors <= palette_count(h) /\ ~need_transparency(inputs[k])

(* What success is worth if the disk fills, before or after create_icon()  *)
(* returns it: an image whose pixels are written in one fwrite() too large *)
(* for the buffer is on disk, with all that comes before it, up to as many *)
(* bytes as the buffer holds.  Of smaller ones nothing need be.            *)
Known(i) == IF i.raw THEN SizedRaw(i) ELSE Sized(i, opt.bit_count)

EndOfPixels(k) ==
  LET i == Known(inputs[k])
  IN  file.dir[k].dib_offset + dib_size(i) - i.mask_size

SuccessKeepsLargeImages ==
  pc = "done" /\ full =>
    \A k \in 1..filec :
      Known(inputs[k]).image_size > BufferSize =>
        saved + BufferSize >= EndOfPixels(k)

(* Every call ends.                                                        *)
Termination == <>Ended
=============================================================================

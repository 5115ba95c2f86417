# A specification of icoutils

icoutils is a set of command-line programs for Windows icons, cursors and
resources. `icotool` lists and extracts the images of `.ico`/`.cur` files and
creates such files from PNGs; `wrestool` lists and extracts the resources of
16-bit (NE) and 32-bit (PE) binaries; `extresso` and `genresscript` are Perl
scripts around them. This directory models the two C programs and the data
structures they stand on in TLA+, checks the models with TLC on small
instances, and proves part of what is checked for every instance with TLAPS.

Paths of the source are relative to the repository's root. To run a check:
`tlc -config ExtractKeeps.cfg MCIcotool`; to check the proofs of a module:
`tlapm IcotoolProofs.tla`. `PROJECT.json` lists the runs, for each
definition the lines it stands for, for each property a bug that breaks it, and
for each hazard of the code the properties that watch it.

1. [The system](#1-the-system)
2. [Plan](#2-plan)
3. [Modules and the code](#3-modules-and-the-code)
4. [Runs](#4-runs)
5. [Proofs](#5-proofs)
6. [Disagreements](#6-disagreements)
7. [What is not modelled](#7-what-is-not-modelled)

## 1. The system

Every program is one process with one thread; there are no signals, callbacks
from outside, shared memory or messages. Components interact by calls, and by
the files one leaves for another. What makes the code hard is therefore not
concurrency but **sequence**: long loops over untrusted binary data in which
several variables have to move together, failures at any of many steps with a
`goto cleanup` behind them, files that cannot seek, outputs that cannot be
opened or written, two passes that must come to the same sums, and structures
(hash map, red-black tree, list) that are reorganised while somebody holds an
iterator on them.

| Component | State it keeps | Operations | Used by |
|---|---|---|---|
| `icotool/extract.c` | stream position, `offset`, the pass over the directory, counters, the output | `extract_icons()`, `read_png()`, `simple_vec()` | icotool main |
| `icotool/create.c` | an array `img` of open PNGs, their palettes and rows; the output | `create_icon()`, `simple_setvec()` | icotool main |
| `icotool/palette.c` | a hash map of colours, an iterator, a counter of indices | `palette_new/add/count/assign_indices/next/lookup/free` | create |
| `icotool/main.c` | options, the argument reached, the exit status | option parsing, `filter()`, `*_outfile_gen()`, the loops over the files | - |
| `common/hmap.c` | buckets of chained entries, threshold, iterator | `hmap_put/get/contains_key/remove/clear/iterator*` | palette |
| `common/tmap.c` | a red-black tree with a shared nil, iterator | `tmap_put/get/remove/clear/iterator*` | nobody in this repository |
| `common/llist.c` | entries with two links, first, last, size, iterator | `llist_*`, `lnode_*` | `common/io-utils.c` |
| `common/strbuf.c` | a buffer, its length and capacity | `strbuf_*` | names of outputs in icotool main |
| `common/intutil.c` | none | `parse_int8()` to `parse_uint64()` | options, resource ids |
| `wrestool/restable.c` | the library in memory, moved to its load addresses | `read_library()`, `calc_vma_size()`, `do_resources()`, `find_resource()`, ... | wrestool main, extract |
| `wrestool/extract.c` | a group resource and its images, the file made of them | `extract_resources_callback()`, `extract_resource()`, `extract_group_icon_cursor_resource()`, `extract_bitmap_resource()` | restable, as a callback |
| `wrestool/main.c` | options, the exit status | the loop over the files, names of outputs | - |
| `icotool/win32-endian.c` | none | swaps fields on big-endian hosts | extract, create |
| `wrestool/fileread.c` | none | `check_offset()`, the bounds check | restable, extract |
| `common/string-utils.c`, `io-utils.c`, `error.c` | the message header | helpers | all |
| `extresso/` | a temporary directory | runs wrestool and icotool by a description | - |
| `lib/`, `m4/`, `po/`, build files | - | gnulib, autoconf, translations | - |

What makes each of them correct:

- **extract**: the `offset` the code keeps by hand is where the stream is;
  images are taken in the order of the file whatever the order of the
  directory, each once, each read from where its entry says; exactly the images
  the options select are shown, each alone and whole under its own name; a
  failure keeps what was extracted, closes what is open and restores the
  message header; every call ends.
- **icotool main**: success means that everything was done, for each of the
  files named; one file leaves nothing behind that harms the next.
- **create**: all that is allocated is released, once, on every way out; no
  output is touched unless all inputs could be read; the sizes and offsets
  written in the directory are those of the bytes written later; what is
  written is what `extract_icons()` takes, bit for bit; no colour is lost to a
  depth too small.
- **palette**: each pixel's index leads back to its own colour.
- **hash map, tree, list, buffer**: they do what a partial function (a
  sequence, a text) would, at all times and under their iterators; nothing is
  lost or found twice when they are reorganised, and no memory is used that is
  not theirs.
- **integer parsing**: exactly what fits the type is accepted, as what it spells.
- **libraries**: moving the sections in place overwrites none; no library that
  a linker makes is refused.
- **resource walk**: every resource the options select gets to the callback.
- **resource extraction**: what is written of a resource is what the file has
  of it; the memory made for a group is large enough.

The behaviours that are hard to test are listed in `PROJECT.json` under
"hazards", each at its line. The most characteristic ones: the offset moved by
hand at seven places (`icotool/extract.c`), sizes computed in one loop for
bytes written in another (`icotool/create.c`, and again
`wrestool/extract.c:176`), places of pixels computed in two ways
(`icotool/extract.c:324`), cleanup in the middle of an array (`create.c:432`),
entries relinked while the chains are half moved (`common/hmap.c:134`),
rebalancing in mirrored cases (`common/tmap.c:264`), sections moved over one
another (`wrestool/restable.c:448`).

## 2. Plan

In the order of importance: what the programs are for comes first, then the
structures they rest on. All of it is done.

| # | Module | Contents |
|---|---|---|
| 1 | `IcoFormat` | the `.ico` file as an abstract value, shared by reader and writer; the options |
| 2 | `IcoExtract`, abstract `ImageStream` | `extract_icons()`, a stream of images in file order |
| 3 | `Icotool` (on `IcoExtract`); `IcoExtractProofs`, `IcotoolProofs` | `main()` over any number of files; the invariants of every call |
| 4 | `HMap`, abstract `MapSpec`; `HMapProofs` | the hash map, rehash entry by entry |
| 5 | `Palette` (on `HMap`), `MapUsers` (on both); `PaletteProofs` | the colour table of an image; the map as the palette or anybody else uses it |
| 6 | `PixelCodec` (on `IcoFormat`) | where writer and reader put and find the bits of pixels and masks |
| 7 | `IcoCreate` (on `IcoFormat` and `PixelCodec`); `IcoCreateProofs`, of both | `create_icon()`, what it writes read back by the reader's rules |
| 8 | `WinLibrary` | `read_library()` |
| 9 | `GroupIcon` (on `WinLibrary`); `GroupIconProofs`, of both | extraction of resources from the library loaded |
| 10 | `Wrestool` | the loop over the files and `do_resources()`, as far as it gets |
| 11 | `TMap`, abstract `OrderedMapSpec`; `TMapProofs` | the tree, turn by turn of its loops |
| 12 | `LList`, abstract `SequenceSpec` | the list and its iterator |
| 13 | `StrBuf`, `IntUtil` | the buffer, the parsers |
| 14 | `CommonLibrary` (on 11 to 13); `CommonLibraryProofs` | the structures of `common/` side by side |

All the safety properties of both programs and of `common/` are proved, and
every refinement's; what no theorem states is liveness (section 5).

## 3. Modules and the code

**`IcoFormat`** is the file as the programs see it: its type, a directory of
entries (`dib_offset`, `dib_size`, hot spot), a function from the offsets where
an image starts to its header, and a length. A DIB
keeps whether its indices are within its colour table ("clean"), since
that is where decoding one may fail, and a PNG whether libpng decodes it. Its
width may be negative, as the code's `int32_t` may; DIBs whose sizes pass 32
bits are left out of `Header`.
`DibBytes` computes what lies between the offset of a DIB and its end as
the code does. `WellFormed` says what a file without damage is (its directory
is complete, its images lie behind it and apart), `Wanted`
which images `filter()` lets through, and `Promised` of which calls everything
is expected. `MaxOffset` is the largest value of the
32-bit offset, at which sums wrap; `IntMax` the largest `int` the code compares
with.

**`IcoExtract`** is `extract_icons()`. Its variables are the function's own:
`pos` is the stream, `offset` what the code believes, `c`, `min_offset`,
`previous` the pass over the directory, `bitmap` the header last read, `out`,
`disk` and `stdout` the outputs, `headers` the message headers as a stack;
`start` and `log` are history. One action is one stretch of code between
failures: `ReadDir`, `ReadEntries`, `StartPass`, `PassOver` (an entry that is
not at the offset), `EndPass` / `SkipGarbage` / `Unrecoverable` (what follows a
pass without progress), `ReadHeader`, `ReadPng`, for a DIB `SkipHeader`,
`ReadPalette` and `ReadPixels`, then `FilterOut`,
`PrintImage`, `OpenOut`, `WriteImage`, and for each of them its failure. A DIB
takes three steps since the offset is moved at three places (lines 236, 247 and
274), the first before anything is read of what it is moved over: there the
32-bit sum may wrap (`Plus`), and the palette or the pixels are then refused. A
header read where no image starts is any of `Garbage`, so a misplaced entry may
be taken for anything. An input from a pipe is `seekable = FALSE`; the options'
`faults` say what may fail: "open", the creation of an output, "write", a
write that `fwrite()` or libpng sees fail, and "flush", what `fclose()` has left
to write. `ImageStream` is the
promise: images come in file order, the selected ones are shown (`shown` is
the set of them), and it ends after the last. A stream is opened anew with each
file.

**`Icotool`** is `main()` around it: `CannotOpen` (a warning), `Call`,
`Extracting` (a step of `IcoExtract`), then `CallFailed`, `CallSucceeded` or
`Aborted`, until `AllDone`. `arguments` are files or `Missing`; the outputs on
disk and the state of standard out are the only things that outlive a call.
`ReturnFails` has the two ways in which `--list` and `--extract` test the
result.

**`PixelCodec`** says where a bit of a pixel is, as a byte of the image data
and a bit in it: `PixelWritten` for the three loops of `create_icon()`,
`PixelRead` for `simple_vec()` with the rows of `extract_icons()`, and the same
for the mask, which is written in eights (`MaskWritten`) and read singly
(`MaskRead`).

**`IcoCreate`** is `create_icon()`: for each input `OpenInput`, `CreateReader`,
`ReadInfo`, and `ReadRows`, or `SizeRaw` and `StoreRaw` for one that is stored as
it is; then `NameOut`, `OpenOut`, `WriteDir`, `WriteEntry` for each image, and for
each image `WriteHeader`, `WritePalette`, `PackPixels`, `WritePixels`,
`WriteMask` (or `WriteRaw`) and `ReleaseImage`; and `Succeed`. `ptr` is the set
of pointers that are not NULL, of the members of the `img` records and of the
variables `img`, `outname` and `out`; `live` is the set of objects that exist: a
double free or a leak is a
difference between the two. An input has a fault that says where treating it
fails, the initialisation of libpng and the second reading of a raw file
included. `file` is what was given to the output's `FILE`, which writes to the
disk when its buffer of `BufferSize` bytes is full, or at any time before. The
disk may fill (`DiskFills`) at any time after the output is opened, even after
the call has returned, since nothing flushes or closes the output before
`exit()`; `saved` is how much had certainly been written by then. A write the
code checks (`Checked`) may still succeed on a full disk if it fits in the buffer, and the
writes it does not check go on regardless. The output is a
file of `IcoFormat`, so `ReadsBack` can ask of it what `extract_icons()` does,
and its pixels are placed by `PixelCodec` (`PixelsReadBack`).

**`HMap`** is `common/hmap.c`. The buckets are sequences of entries; a call is
one action, except that a put that outgrows the threshold is followed by
`MoveEntry`, one entry at a time, and `InsertPending`, as `hmap_rehash()` does
it. The iterator is its bucket and the key of the entry it holds. A caller may
remove any entry but that one, which the iterator points to; a put or a clear
ends the iteration. `MapSpec` is the promise.

**`Palette`** extends `HMap`: the calls `create_icon()` makes, in their order,
for one image: `CountColor`, `AssignIndex`, `NextInit` / `NextColor` /
`NoNextColor` for the table, `WritePixel` with `palette_lookup()`. An image is
its pixels, the alpha values that occur in it and the depth that is asked for:
`HasTable` is the outcome of the three branches of `create.c:212-246` and the
test of line 346. **`MapUsers`** is the map in either of two hands: the
palette's, or those of anybody who makes the calls of `HMap` in any order.

**`WinLibrary`** is `read_library()` and `calc_vma_size()`. A byte of memory is
the offset in the file it comes from, or junk left by `xrealloc()`, so that
"overwritten" can be stated. Actions: identification (`RefuseHeaders`,
`AcceptNE`, `AcceptPE`), `Measure` for each section, `Extend`, `MoveSection` /
`SkipUninitialized` from the last section to the first, `RefuseSection`, and
`FindResources`.

**`GroupIcon`** goes on from a library that `WinLibrary` has loaded:
`wrestool/extract.c` with `find_resource()`, `list_resources()` and
`get_resource_entry()`. `Start` takes what the callback would be given for a
resource, and `Kind` the way it is extracted: raw (`ExtractRaw`), as a bitmap
(`ExtractBitmap`, or `BitmapKills`, since NULL is copied from), or as a group:
`OpenGroup`, `MeasureImage` for each entry, `Allocate`, then `CopyImage` or
`SkipEmpty` for each, and the failures `NoResource`, `NoCount`, `ImageFails`.
The output's bytes are those of the memory, which are those of the file, so
that a byte is followed from the file through the moving of sections into the
icon made of it. `reach` is history: how far copies have come. A resource is found as the loop
of `find_resource()` does, the first of the listing with its name. What a
structure in memory says is what the file has there; if its bytes are not those
of one place of the file, it may say anything a group says (`Said`).

**`Wrestool`** is the loop of `wrestool/main.c` with `do_resources()`:
`check_offset()` compares the listing, which `xmalloc()` returned, with the
file's memory. Addresses are abstract; what matters is that the two are
different allocations. Since that check never succeeds, `GroupIcon` cannot be
composed with it and starts at the boundary of the callback.

**`TMap`** is `common/tmap.c`. A node is named by its key: copying another
node's key and value into it (`tmap_remove()`) renames it. One action of
`InsertRecolor`, `InsertRotate`, `InsertSettle`, `RemoveRedSibling`,
`RemoveRecolor`, `RemoveTurn`, `RemoveRotate`, `RemoveSettle` is one turn of a
rebalancing loop; the mirrored halves of the code are one, given the side.
`nil` is the shared leaf, a node of the same function, so that a write to it
would show. `Turned` is a rotation with the inner subtree told of its new parent
already, `Grow` a new leaf that is not linked to yet. `OrderedMapSpec` is the promise, with iterators of all keys and of
a class of them.

**`LList`** is `common/llist.c`: `list` is the record with an entry for each
node that is allocated, `Insert` and `llist_remove_entry` the changes of links
that all operations share, whether at an end or between two. The iterator holds
the next entry, NULL at the end. It is not used after the list is changed by
other means. `SequenceSpec` is the promise: a sequence of elements, a cursor,
and what each operation gives back; `KeepsSequence` reads the list through
`llist_get_entry()`, forwards and backwards from the nearer end, so that both
chains of links are in question.

**`StrBuf`** is `common/strbuf.c`: memory as a function on bytes, with garbage
where nothing was written. `normalize` is the treatment of positions, `Replaced`
the replacement of a part by a string repeated, in the order of the code (the
capacity, what follows is moved, the string is copied), and `overrun` is
history: whether memory behind the buffer was used.

**`IntUtil`** is `common/intutil.c`: one parser, given the range of its type,
character by character. The history variable `exact` is the number spelled so
far, without a limit.

**`CommonLibrary`** puts the four side by side, of which one is used at a time
(they share no state), and states `EditsAsText`: `StrBuf` against
concatenation.

`MC*` modules give the constants values for TLC; `*Claims` modules state what
the manual says and the code does not do.

## 4. Runs

| Run | Module, states | Question | Answer |
|---|---|---|---|
| `ExtractKeeps` | `MCIcotool`, 196351 | Does icotool extract what is asked for, of good files, and what holds of any files and any failure? | `ExtractsExactly`, `ImplementsStream`, `SuccessMeansExtracted`; `Synced`, `TakenInFileOrder`, `OutputsClosed`, `OutputsKept`, `IncompleteIsReported`, `HeadersBalanced`, `OffsetNeverFallsBack`, `Termination`, `TypeOK` |
| `CreateKeeps` | `MCIcoCreate`, 214524 | Is all released, nothing lost, and the result readable? | `NothingLeaksOrDangles`, `UntouchedIfUnreadable`, `HeadersBalanced`, `LayoutExact`, `PixelsReadBack`, `ReadsBack`, `ColorsKept`, `SuccessKeepsLargeImages`, `Termination`, `TypeOK` |
| `MapKeeps` | `MCMapUsers`, 62436 | Is a map that grows and is iterated a partial function, and does each pixel keep its colour in one? | `FoundWhereLookedUp`, `SizeCounts`, `ImplementsMap`, `TypeOK`; `PixelsKeepColor`, `TableIfItSuffices` |
| `CommonKeeps` | `MCCommonLibrary`, 98065 | Are the tree, the list, the buffer and the parsers what they stand for? | `Linked`, `Balanced`, `ImplementsOrderedMap`; `KeepsSequence`; `WithinCapacity`, `EditsAsText`; `ParsesWhatFits` |
| `WrestoolExtracts` | `MCGroupIcon`, 213528 | Do sections survive being moved, and do resources come out whole? | `Relocated`, `WellFormedIsLoaded`, `InBounds`, `ExtractsWhole`, `TypeOK` |
| `ClaimIndex` | `MCIcotool` | `--index=N` is the N'th image | violated, see 6 |
| `ClaimStdout` | `MCIcotool` | `--output=-` prints all output | violated, see 6 |
| `ClaimListsAll` | `MCIcotool` | `--list` lists all the files given | violated, see 6 |
| `ClaimDepth16` | `MCIcoCreate` | every valid `--bit-depth` makes an icon | violated, see 6 |
| `ClaimRows24` | `MCIcoCreate` | 16 million colours are supported | violated, see 6 |
| `ClaimGroupSize` | `MCGroupIcon` | the memory allocated for a group is its total size | violated, see 6 |
| `ClaimLists` | `MCWrestool` | wrestool lists the resources | violated, see 6 |

**Bounds, and why they are enough.**

- Well-formed files have three images (or none): DIBs of either direction of
  rows, with a longer header, and a PNG, in every order of the directory, with
  and without gaps between them. Three are needed for an image to lie between
  two others in the file but not in the directory; all branches of the pass are
  then taken.
- Damaged files are made of a good one by each kind of damage once: every
  header the code refuses in the first and in the second place, a cut at every
  boundary and inside every structure, an entry moved to every kind of wrong
  place (0, inside another image, between, past the end, the largest offset),
  wrong sizes. `MaxOffset` = 500000 and `IntMax` = 2000 are small enough for
  the limits on sizes and offsets to be met by small files; one of the headers
  makes the offset wrap.
- Command lines have each of these files alone, every pair of a whole icon, a
  whole cursor, a file cut short, one with a spoilt image and, in the first
  place, one that cannot be opened, and one line of three; no file of a
  line has the base name of another (`NamesApart`). Between calls only
  the outputs are left, so two calls show what one can do to another. All of
  them are run with every option once, with either mode, from files and pipes,
  and with outputs that cannot be opened, written or closed.
- Creation: one to three inputs on each side of every limit (2, 4, 16, 256
  colours, and widths of 1 to 9, 33 and 256 pixels, for rows that end within a
  byte, at a byte and at four bytes), each
  kind of transparency, every documented depth but 16; or up to three inputs
  with a fault at each stage, with each output and with a disk that may fill
  between any two writes, behind a buffer of 64 bytes: more than each of the
  directory, its entries and the headers, and than the pixels of some images,
  less than those of others. The inputs' loops treat each image
  alike; three show the first, a middle one and the last.
- The hash map of the other users has four keys, each with a value, one of them with a
  second; three share a chain that comes apart
  when the two buckets become 5 and 11; the key NULL is among them. The palette
  has five colours of which four fit (256 in the code), and images of up to four
  pixels or of all five colours in each order; some come with each kind of
  transparency and depths on both sides of 16.
- The tree has seven keys, enough for every case of both loops and for a
  rebalancing of several turns (every disjunct fires); keys fall into classes
  for the partial iterator. The list has up to four entries of three data, so
  that the nearer end is either, and an operation may be at an end, next to one
  or in the middle. Texts have up to four characters; positions lie inside, at
  and beyond both ends, counted from either, and parts are put in up to twice,
  longer and shorter than what they replace. The integers are those of eight
  bits, with and without a sign, and of ranges that end at 8, 9, 10, 99 and 100,
  where the last digit of the limit is the first, the last or the only one.
- Libraries have up to three sections of up to two units in at most eight: all
  libraries of up to two small sections, in any layout, and the well laid out
  ones of three. Those with groups have up to three images (and one list of
  five cursors, section 6), each of a size the
  group tells right, too large or too small, empty, smaller than a hot spot, or
  not in memory, as NE and as PE with two sections that move; with listings
  that cannot be decoded, a group in another language than its images,
  groups cut off by the end of the memory, and groups that have a size of 6
  whatever their entries are, so that nothing makes up for what the sums of the
  two passes differ by.

**Fairness.** `Icotool` and `IcoCreate` are each one thread, which never waits
for anything but the system's answers: whatever it can do
next, it does. Hence weak fairness of the whole step (`WF_allVars(MainNext)`; in
`IcoCreate` of `Step`, which leaves out `DiskFills`: the disk need not fill).
The other modules assume no fairness: nobody has to call a structure, and
they have no liveness property. `CHECK_DEADLOCK FALSE` is only in the configurations of
`CommonKeeps`, `WrestoolExtracts`, `ClaimGroupSize` and `ClaimLists`: a string that is parsed,
a resource that is written and a program that has exited come to an end; the
others end in an action that repeats the final state.

## 5. Proofs

The proof modules extend the component's module. All theorems are for every
value of the constants: any number of files, images, sections, keys and
entries, of any size. The assumptions are the named `ASSUME`s of the modules
(files are records of `IcoFormat`, options are options, a hash is a number,
capacity is not 0, the bound on the size of a list is a number, no caller
stores NULL, inputs have no more colours than pixels, the size of a buffer is a
number, sections do not lie over the headers, listings and groups of a library are finite and their numbers have
no sign, strings are finite; the keys of a tree are finitely many numbers, the
name of `nil` not among them, and those that a partial match takes for equal are
neighbours), which TLC evaluates in the runs.

| Module | Theorem | Property |
|---|---|---|
| `IcotoolProofs` | `MainTypeCorrect` | `TypeOK` |
| | `MainStreamInSync` | `Synced` |
| | `MainFileOrder` | `TakenInFileOrder` |
| | `MainOffsetGrows` | `OffsetNeverFallsBack` |
| | `MainHeadersRestored` | `HeadersBalanced` |
| | `MainNoOutputLeftOpen` | `OutputsClosed` |
| | `MainIncompleteReported` | `IncompleteIsReported` |
| | `MainExtractsExactly` (N) | `ExtractsExactly` |
| | `MainOutputsKept` (N) | `OutputsKept` |
| | `SuccessIsComplete` (N) | `SuccessMeansExtracted` |
| | `MainStepsAreTheStreams` | (the safety part of `ImplementsStream`) |
| `IcoCreateProofs` | `CreateTypeCorrect` | `TypeOK` |
| | `EverythingReleased` | `NothingLeaksOrDangles` |
| | `OutputUntouched` | `UntouchedIfUnreadable` |
| | `CreateHeadersRestored` | `HeadersBalanced` |
| | `ImagesAreWhereEntriesSay` | `LayoutExact` |
| | `LargeImagesAreOnDisk` | `SuccessKeepsLargeImages` |
| | `NoColorIsLost` | `ColorsKept` |
| | `PixelsComeBack` (D) | `PixelsReadBack` |
| | `CreatedFilesReadBack` (R) | `ReadsBack` |
| | `PixelsFoundAgain`, `MaskFoundAgain`, `PictureComesThrough` | (what `PixelsReadBack` asks of one picture) |
| `HMapProofs` | `HMapTypeCorrect` | `TypeOK` |
| | `EntriesFound` | `FoundWhereLookedUp` |
| | `SizeIsTheCount` | `SizeCounts` |
| | `HMapIsAMap` | `ImplementsMap` |
| `PaletteProofs` | `PixelsComeWithTheirColors` | `PixelsKeepColor` |
| | `TableExactlyIfItSuffices` | `TableIfItSuffices` |
| `GroupIconProofs` | `LibraryTypeCorrect` | `TypeOK` |
| | `SectionsRelocated` | `Relocated` |
| | `LinkedLibrariesLoad` | `WellFormedIsLoaded` |
| | `GroupsAreWithinBounds` | `InBounds` |
| | `ExtractedAsInTheFile` (S) | `ExtractsWhole` |
| `TMapProofs` | `TreeIsLinked` | `Linked` |
| | `TreeIsBalanced` | `Balanced` |
| | `TreeIsAnOrderedMap` | `ImplementsOrderedMap` |
| `CommonLibraryProofs` | `TreeAmongOthers` | `Linked`, `Balanced`, `ImplementsOrderedMap`, of the run's specification |
| | `BufferHolds` | `WithinCapacity` |
| | `TextIsEdited` | `EditsAsText` |
| | `ListKeepsSequence` | `KeepsSequence` |
| | `ParsesExactly` | `ParsesWhatFits` |

The theorems of `HMapProofs` and `PaletteProofs` are of `Spec` and `PaletteSpec`;
every behaviour that `MapKeeps` checks is one of these two, by its user.

Four conditions are hypotheses of the theorems marked, since the program runs
without them and most theorems do not need them; the runs' constants meet all
four.

- **N**, `NamesApart`: no two files of a command line have the same base name.
  Otherwise they write to the same outputs (section 6), and the one that comes
  later wins.
- **D**, `KnownDepths`: `--bit-depth` is not given, or is a depth that images
  can have.
- **R**, `DepthsRead` and `InputsFit`: that depth is not 16, which
  `extract_icons()` refuses (`ClaimDepth16`); the bits of a row are an `int`
  (libpng reads no PNG wider than a million pixels), and no PNG is shorter than
  a bitmap header of 40 bytes.
- **S**, `ResourcesInSections`: a resource that is in memory at all lies in one
  section. Elsewhere memory is not what the file has.

The arguments:

- **Extraction.** Types alone are not inductive: that the offset has not wrapped
  where it is used needs to know that the bytes it was moved over were read. `Ahead`
  says where the stream is relative to the offset at each point of the
  function. In the middle of a DIB there are two cases: the stream has passed
  what the offset was moved by, or it is at the end of the file and the offset,
  which may have wrapped, is anywhere; then no further read succeeds, and the call
  ends before the offset is compared with another entry. `Unmatched` says
  that a counted match comes after a completed image;
  `Inv` is the two with `TypeOK`. On it rest the growing offset, and `InSync`, which
  is exact where `Ahead` is a bound, for streams that seek and as long as no PNG
  is filtered out. The order of images needs a second invariant about the
  history: `Ordered` says that what was taken lies before the offset (`Sorted`)
  and that the image in hand is at it (`InHand`). `WholeInv` says that only the
  output of a call that fails may be incomplete, unless `fclose()` fails.
- **Nothing is missed.** Of a well-formed file the images before the offset are
  those taken, and none lies across it (`Reached`). In the middle of a pass
  that has taken none yet, `min_offset` is the nearest of the images passed
  over (`Nearest`): so garbage is skipped up to an image and never into one,
  and the code does not give up while there is one to come. When a pass ends
  without any, none lies behind the offset, and `completed` is the number of
  entries. `Kept` has this (`Exact`), that no damage was met, and the
  invariants above. `Filed` is separate, as it needs `NamesApart`: the outputs
  of this file are those of the chosen images taken so far, and hold them. Two
  images have different names as they have different places in the file.
- **icotool.** Each invariant is one of a step of a call and of a step between
  calls (`MainInv`, with `Between`: when `main()` has control, the call has
  returned), and a `Call` establishes it anew, from whatever the calls before
  have left on disk. For the outputs of several files, `NamesInv` says that
  every output is named after an argument already begun and `Numbered` that an
  image not yet taken has a greater number than those which were: no step
  writes to a name a second time. `SuccessInv` carries what was `Delivered` of each
  argument through the calls after it to the exit.
- **The stream.** `ImageStream` is implemented step by step: the taking of an
  image is the step `Take` of the next in file order, all others change
  nothing of it, and `Call` opens the next stream. With `Kept` at hand the
  image taken is the first that was not; the rest is the definition of the
  mapping. `NamesApart` is not needed.
- **Creation.** `Held`: what is pointed to is what is alive, and once an image
  is written nothing of it or of those before is held; on return nothing is
  pointed to, and the output's `FILE`, if it was opened, alone is alive. `ReadableSoFar`: up to
  where the reading loop has come, no input was unreadable. `Stacked`: the
  message headers at each point.
- **What is created.** `LayoutInv` follows the file as it grows: the sizes of
  each image are those its options give (`Measured`), the entries so far hold
  them, each image beginning where the one before ends (`Laid`), the file ends
  where the image in hand, at each of its parts, begins (`Located`), and the
  headers written are of the images (`Headed`). The lengths are of what was
  given to the output's `FILE`. What the disk has of it when it fills is all but what
  the buffer may hold (`SavedInv`): of an image whose pixels do not fit in the
  buffer, the `fwrite()` of the pixels succeeded only while the disk still took them, so that
  what came before them, and they but for a buffer's worth, was there. Of
  smaller images nothing follows. `ReadsBack` then compares the sizes the
  writer computes with those the reader does, for each depth.
- **Pixels.** The two ways to address a pixel agree since a row is a multiple
  of four bytes (`RowLength`), so that counting values from the start comes to
  the start of a row exactly (`PackedFurther`); that fails only at 24 bits,
  where the row must be a multiple of three bytes as well. That no two bits
  share a place follows from the quotient and remainder by the length of a row
  (`SameRow`) and, within a row, for each depth (`PackedApart`).
- **Hash map.** `FoundWhereLookedUp` is lost half-way through a rehash unless
  the old array is spoken of too. The invariant follows each key: it is in one
  place only, the new array, the old one, or pending (`Once`, `NotYetMoved`,
  `PendingIsNew`), in either array in the bucket its hash asks for (`Placed`);
  between calls the old array is empty (`AtRest`), the iterator stands on an
  entry (`Standing`), and `size` is the cardinality of all three together
  (`Sized`). One lemma for each action, over lemmas about chains (prepending,
  replacing, taking out, taking the head). The map they stand for is the union
  of the three places, so that a rehash changes nothing of it; that the
  iterator has yet to give exactly the keys behind it is what remains to show
  of the refinement.
- **Palette.** `PaletteInv` is the map's invariant with the position of each
  loop: the colours counted are those of the pixels so far (`CountedSoFar`),
  those the iterator has passed are numbered without gaps (`NumberedSoFar`),
  and the second iteration gives them in the same order, so that the table
  agrees with the numbers (`TableSoFar`). The map does not change between the
  two iterations.
- **Libraries.** `Halfway` is the argument for moving in place: of the sections
  in order, what is yet to be moved is still where the file has it (`Unmoved`),
  and what has been is where it belongs (`Settled`); a move from the last one
  down writes over neither, as addresses are at least as far apart as offsets
  in the file. `Measured` says that the maximum of `calc_vma_size()` is one, so
  that every section fits.
- **Groups.** The two passes are compared through sums over the entries:
  `Measuring` has the sum of the room so far, `Copying` the whole sum and how
  far offset and copies may have come by this image. An entry skipped shifts
  the limit on all that follow, and a hot spot may bring the offset four bytes
  nearer than the room for its image. A cursor smaller than a hot spot (`Stunted`)
  is counted four bytes short by the first pass, which the second does not take
  back: what makes up for these is the group's own size, which is in the sum and
  never used, and nothing in the code sees to it that it is large enough. Hence
  the hypothesis `SpareSuffices` of `InBounds`, which icons always meet, and
  groups of cursors whose size is at least that of their entries. `KeptWhole` is for the contents: while no image was empty the offset
  only moves forward, so that what was copied is not written over.
- **Tree.** `Linked` and `Balanced` say of each step what is visible of an
  invariant that neither is: that there is a function `sub` from the nodes to the
  keys below them, those of the left before the node and those of the right
  behind it, to which links up and down agree (`Shape`), and a black height `h`
  of every node, the same by way of either child (`Even`). `Phase` is what each
  loop keeps. Between calls the tree is `Settled`. In the loop of `tmap_put()`
  it is `Grown`: even, with at most one red node below a red one, at the node
  the loop is at. In the loop of `tmap_remove()` it is `Removing`: even but for
  one link, above the node the loop is at, on which one black node is owed
  (`Debt`). Heights are what makes the code's dereferences safe to reason about:
  a node that is owed one has a sibling that is not nil, and a red nephew has
  black children (`AroundIs`, `KinIs`). Every turn is painting and rotations;
  `RotateShape` says that the subtrees after a rotation are those of `RotatedSub`,
  and `TurnHeights` and `PaintHeights` that only the heights of the nodes turned
  and painted are in question, so that each action's lemma
  (`OuterGrown`, `StraightenedGrown`, `RecolouredGrown`; `RedSiblingRemoving`,
  `RecolourRemoving`, `TurnedRemoving`, `RotatedRemoving`) computes the heights
  of three nodes at most. A removal splices out a node with a nil child
  (`UnlinkedSpared`), and the other node then takes its key, which lies between
  the same neighbours (`MovedTree`). The order gives what the loops that walk
  the tree find, since a subtree is smaller than the one it is in and there are
  as many turns as keys: `DescentFinds`, `OutermostIs`, `SuccessorIs`,
  `MatchingIs`, `BoundaryIs`. `HeightsAddUp` turns heights, which are counted
  from below, into the black nodes above that `Balanced` counts. With the size
  and an iterator that stands on a node (`IteratorWithin`), `Phase` is `TreeInv`;
  of the refinement then remains that the loops change neither keys nor values
  (`SameNodes`), and what each call does to them.
- **String buffer.** That the null is where the length says is what makes the
  capacity enough: `ReplaceKeeps` follows it through the growth of the buffer,
  the move and the copies, for a part of any length put in any number of times
  (`AddedLength`), in place of one of any length (`EndsInOrder`). For the text,
  the position nearest to the one asked for is the one normalized (`PlaceIs`),
  the repetitions that `memcpy()` makes are those that concatenation does
  (`CopiesAre`), and each byte of the result comes from one of three places
  (`ReplacedText`).
- **Linked list.** A list is what it should be if there is a sequence of its
  entries along which both chains of links lead (`Chained`), which an iterator
  stands on or behind (`Represents`). `Inserted` and `Removed` are the one way
  in which every operation changes the links, at an end or between two entries.
  Which way `llist_get()` goes makes no difference (`EntryAt`); the loop of
  `llist_reverse()` has exchanged the outer pairs (`Moved`) and ends after half
  of the entries, for sizes even and odd (`ReversedBy`); the copy has entries of
  its own (`CopiedBy`). Each operation is then one step of the sequence.
- **Integers.** `ReadsExactly` relates the value so far to what is spelled;
  `OverflowsBeyond` is the point of it: comparing with a tenth of the limit,
  and only at equality with its last digit, is the same as comparing the next
  value with the limit, for limits of either sign.

**Only model-checked**: liveness under fairness (`Termination`, and that the
stream of `ImplementsStream` ends), and the properties of the runs that expect
a violation. Liveness and `ENABLED` are out of the prover's reach; so are the
library's induction theorems, which take an operator, and with them induction
over data. What would need one is proved in another way: a sum or a count over
all images with an explicit function of partial sums, or by the least number
that would contradict it; a walk through a tree by the turns it has made so far
(`Climb`), and what holds of all its nodes by the smallest subtree of which it
does not; a recursive function by one known to satisfy its equation. The
functions `sub` and `h` of the tree's invariant are bound by a quantifier over
everything, which TLC cannot enumerate: on the run, `Linked` and `Balanced`
stand for it. No module uses a `RECURSIVE` operator: recursion is by recursive
functions.

## 6. Disagreements

Each of these runs has one property, which states a sentence of the
documentation; TLC finds a behaviour of the code that violates it.

- **`ClaimIndex`** (`icotool/icotool.1:76-78`). A PNG that is filtered out
  leaves the offset where it was (`icotool/extract.c:183`; line 211 alone moves
  it), so its entry is taken again with the bytes that follow. Listing a file
  of a PNG and two DIBs with `--index=3` does not show the third image.
- **`ClaimStdout`** (`icotool.1:151`). `extract.c:386` closes stdout after the
  first image.
- **`ClaimListsAll`** (`icotool.1:61-62`). `main.c:321` takes the number of
  images for a truth value: `--list` ends, with a failure, at the first file
  none of whose images match the options, and goes on after a damaged one, for
  which `extract_icons()` returns -1.
- **`ClaimDepth16`** (`icotool.1:92-96`). With `--bit-depth=16` the image is
  written with a palette of 65536 colours (`create.c:242`), which
  `extract.c:240` refuses.
- **`ClaimRows24`** (`NEWS:165`). `extract.c:324` counts the pixels before a
  row by dividing its bits by 24. With padding that is inexact for widths that
  leave 1 or 2 when divided by four: in rows that do not start at a multiple of
  three bytes, each pixel is put together of the bytes of two. `PixelsFoundAgain`
  shows that all other sizes and depths are read as they are written.
- **`ClaimGroupSize`** (`wrestool/extract.c:141`, `188`: "calculate total size of
  output file", "allocate that much memory"). The size of a hot spot is taken off
  for every cursor (line 181), but the offset moves back by it only for cursors
  large enough to have one (line 245). With a group of size 6 and cursors of 2, 2
  and 8 bytes the sum comes to less than what is copied. `InBounds` says when
  it does not.
- **`ClaimLists`** (`wrestool/wrestool.1:31-32`). `restable.c:90` applies the
  bounds check of the library's memory to an array allocated with `xmalloc()`:
  it always fails with "premature end", before the first resource.

Seen while modelling, without a run:

- icotool: `--bit-depth` never matches a PNG since
  its header is not a bitmap's (`extract.c:178`, `icotool.1:91-92`); `--hotspot-x`
  hides icon images (`main.c:109`, `icotool.1:116`); with `--output=FILE` the last
  image stays, not the first (`main.c:159`, `icotool.1:144-145`), and files of
  the same name in two directories write to the same outputs; a PNG in a file
  read from a pipe is lost, as the code seeks (`extract.c:160`, `NEWS:29`); a
  minimum depth of 24 lowers an image with alpha from 32 (`create.c:218`,
  `icotool.1:95-96`); an image that is half-transparent throughout loses its
  transparency (`create.c:206`, `NEWS:104-106`); an icon smaller than the buffer
  of its output is lost as a whole on a full disk although success is reported,
  since the output is neither flushed nor closed (`create.c:435-437`), and is open
  when `create_icon()` returns.
- wrestool: after an empty image of a group is skipped, the size of the entry
  before limits how much of the next is copied (`wrestool/extract.c:241`); and
  of a cursor the hot spot is then taken off an offset it was not added to, so
  that a later image may be copied over the end of one already there. The attempt to prove
  `ExtractsWhole` showed the second, on a group of five cursors, of which
  the run now has one: hence its conditions, that no image before is empty and,
  of cursors, none of the group. The size in a cursor's entry
  still counts the hot spot that was taken off; the size of the group itself is
  never taken from the sum, so that the output ends in bytes that are not set;
  a bitmap resource out of bounds is copied from NULL (`extract.c:277-291`);
  `free_it = false` after the call (`extract.c:46`) keeps what was allocated;
  images are looked for in the group's own language only.
- common: `llist_set()` stores the old value back (`llist.c:302`; it is in no
  header); `llist_clone()` of an empty list sets `list->first` for
  `copy->first` (`llist.c:407`); `llist_add_all()` of a list to itself does not
  end; removing twice in a row with the list's iterator removes an element that
  is still to come or went before (`llist.c:489` has a FIXME);
  `strbuf_repeat_substring()` moves before it has room for what it writes, and
  `strbuf_reverse_substring()` swaps in the null (`strbuf.c:276`, `294-302`);
  `strbuf_free_to_substring()` does not put its positions in order; the parsers
  without a sign take the empty string for 0 (`intutil.c:209`). Of these
  only the last is within reach of a program: a type given as the empty string is
  resource type 0 at `wrestool/main.c:120`, which has no extension.

## 7. What is not modelled

- Colour values: a pixel is where its bits are. Sums of sizes in
  `icotool/extract.c:267` and `wrestool/restable.c:511` are numbers
  without wrap-around, but for the offset of the stream.
- The names of wrestool's outputs, and opening and writing them: three calls
  without a loop, whose failures end nothing.
- `hmap_foreach()`, `hmap_free()`, `tmap_foreach_*()`, `tmap_free()`,
  `llist_free()`, the setters of compare functions: loops over the modelled
  iterator, or calls made before anything is in the structure. Of `strbuf.c`
  the two operations named above, which nothing calls, and buffers of capacity
  0, which nothing makes; of `llist.c` the queries that only read; what is under
  `#if 0`.
- The helpers of `string-utils.c`, the rest of `io-utils.c`, the printing of
  `error.c` and `intutil.c`, `win32-endian.c` (the headers of
  the model hold the values after it), option parsing and help texts: straight
  code without a state of its own.
- libpng and stdio are modelled as the code uses them: a PNG decodes or
  does not, a read gives all it is asked for or fails, and a write fails, or may
  fail, when the disk is full.
- Running out of memory: `xmalloc()` and its like end the process, at any
  allocation, with a message.
- The Perl scripts run the two programs once for each line of a description and
  have no state of their own; the build files and the translations are
  generated or data. `lib/` is gnulib, vendored and unchanged: three quarters of
  the C code of the tree, of which nothing is modelled.

----------------------------- MODULE MCIcotool -------------------------------
(* Instances of Icotool for TLC: small files made of a few images.         *)
EXTENDS IcotoolClaims, TLC

-----------------------------------------------------------------------------
(* Images.  A PNG's size field holds its length.                           *)
Dib4 == [magic |-> "dib", size |-> 40, width |-> 2, height |-> 4, bits |-> 4,
         clr_used |-> 0, compressed |-> FALSE, clean |-> TRUE]
Dib24 == [Dib4 EXCEPT !.bits = 24, !.height = -2]
DibExtended == [Dib4 EXCEPT !.size = 44, !.bits = 32, !.width = 1]
Png == [Dib4 EXCEPT !.magic = "png", !.size = 70, !.bits = 32]

Bytes(h) == IF IsPng(h) THEN h.size ELSE DibBytes(h)

(* The file that holds the images hs in this order, gap[k] bytes before    *)
(* the k-th; the e-th directory entry is that of image perm[e].            *)
FileOf(type, hs, gap, perm) ==
  LET n == Len(hs)
      at[k \in 1..n] ==
        gap[k] + (IF k = 1 THEN SizeofFileDir + n * SizeofFileDirEntry
                  ELSE at[k - 1] + Bytes(hs[k - 1]))
  IN  [type |-> type,
       name |-> "a",
       dir |-> [e \in 1..n |->
                 [dib_offset |-> at[perm[e]],
                  dib_size |-> Bytes(hs[perm[e]]),
                  hotspot_x |-> e, hotspot_y |-> 0]],
       image |-> [p \in {at[k] : k \in 1..n} |->
                   hs[CHOOSE k \in 1..n : at[k] = p]],
       len |-> at[n] + Bytes(hs[n])]

Orders(n) == Permutations(1..n)

ShowAll == [list |-> FALSE, output |-> "names", seekable |-> TRUE,
            only |-> "any", index |-> Unset, width |-> Unset,
            height |-> Unset, bitdepth |-> Unset, palettesize |-> Unset,
            hotspot_x |-> Unset, hotspot_y |-> Unset, faults |-> {}]

-----------------------------------------------------------------------------
(* Well-formed files: every order of the directory, with and without gaps. *)
Gaps(n) == [1..n -> {0, 3}]

WellFormedFiles ==
  {FileOf("icon", <<Dib4, Png, DibExtended>>, g, p) : g \in Gaps(3), p \in Orders(3)}
  \cup {FileOf("cursor", <<Dib24, Dib4, Dib24>>, g, p) : g \in Gaps(3), p \in Orders(3)}
  \cup {[type |-> "icon", name |-> "a", dir |-> <<>>, image |-> <<>>, len |-> 6]}

PlainOptions ==
  {ShowAll, [ShowAll EXCEPT !.list = TRUE], [ShowAll EXCEPT !.output = "file"],
   [ShowAll EXCEPT !.index = 2], [ShowAll EXCEPT !.only = "cursor"],
   [ShowAll EXCEPT !.only = "cursor", !.hotspot_x = 2],
   [ShowAll EXCEPT !.palettesize = 0], [ShowAll EXCEPT !.list = TRUE, !.width = 2]}

AnyHeader == {Dib4, Png, [Dib4 EXCEPT !.compressed = TRUE]}

-----------------------------------------------------------------------------
(* Damaged files: shared, overlapping and misplaced images, a directory or *)
(* an image cut short, headers that must be refused.                       *)
Two(a, b) == FileOf("icon", <<a, b>>, <<0, 5>>, <<2, 1>>)

Moved(f, e, p) == [f EXCEPT !.dir[e].dib_offset = p]

Refused == {[Dib4 EXCEPT !.size = 12], [Dib4 EXCEPT !.compressed = TRUE],
            [Dib4 EXCEPT !.bits = 16], [Dib4 EXCEPT !.clr_used = 300],
            [Dib4 EXCEPT !.width = 600], [Dib4 EXCEPT !.width = -2],
            [Dib4 EXCEPT !.height = 0],
            [Dib4 EXCEPT !.clean = FALSE], [Png EXCEPT !.clean = FALSE],
            [Dib4 EXCEPT !.size = 3000]}

(* The size field of a DIB carries the offset past UINT32_MAX.             *)
Overgrown(f) ==
  [f EXCEPT !.image =
     [p \in DOMAIN f.image |-> IF IsPng(f.image[p]) THEN f.image[p]
                         ELSE [f.image[p] EXCEPT !.size = MaxOffset - 10]]]

DamagedFiles ==
  LET whole == Two(Dib4, Png) IN
  {Two(Dib4, h) : h \in Refused} \cup {Two(h, Dib24) : h \in Refused}
  \cup {[whole EXCEPT !.len = n] : n \in {0, 5, 6, 30, 38, 60, 100, 158, 180, 200}}
  \cup {Moved(whole, e, p) : e \in {1, 2}, p \in {0, 38, 39, 100, 163, 3000, MaxOffset}}
  \cup {[whole EXCEPT !.dir[1].dib_size = n] : n \in {0, 41, 3000}}
  \cup {[whole EXCEPT !.type = "unknown"]}
  \cup {Overgrown(Two(h, Png)) : h \in {Dib4, Dib24}}
  \cup {Overgrown(Two(Png, h)) : h \in {Dib4, Dib24}}
  \cup {Moved(FileOf("cursor", <<Dib4, Dib24, Dib4>>, <<2, 0, 0>>, p), 2, q) :
          p \in Orders(3), q \in {56, 176}}

RoughOptions ==
  LET uses == {ShowAll, [ShowAll EXCEPT !.list = TRUE], [ShowAll EXCEPT !.index = 2],
               [ShowAll EXCEPT !.seekable = FALSE], [ShowAll EXCEPT !.output = "-"],
               [ShowAll EXCEPT !.output = "file"],
               [ShowAll EXCEPT !.seekable = FALSE, !.list = TRUE, !.index = 1]}
  IN  {[o EXCEPT !.faults = s] : o \in uses, s \in {{}, {"open", "write"}, {"open", "write", "flush"}}}

-----------------------------------------------------------------------------
(* Command lines: each file alone, and whole and damaged files, of one     *)
(* kind or the other, one after another.                                   *)
Named(f, n) == [f EXCEPT !.name = n]

WholeIcon == Two(Dib4, Png)
WholeCursor == FileOf("cursor", <<Dib24, Dib4>>, <<0, 2>>, <<2, 1>>)
CutShort == [WholeIcon EXCEPT !.len = 180]
Spoilt == Two(Dib4, [Dib4 EXCEPT !.clean = FALSE])

Alone == {<<f>> : f \in DamagedFiles \cup WellFormedFiles}

InARow ==
  LET firsts == {WholeIcon, WholeCursor, CutShort, Spoilt, Missing}
      seconds == {Named(f, "b") : f \in firsts \ {Missing}}
  IN  {<<f, g>> : f \in firsts, g \in seconds}
      \cup {<<WholeCursor, Missing, Named(WholeIcon, "b")>>}

CommandLines == Alone \cup InARow

FilesOf(lines) == UNION {{l[k] : k \in DOMAIN l} : l \in lines} \ {Missing}
AllFiles == FilesOf(CommandLines)
AllOptions == RoughOptions \cup PlainOptions

(* What some theorems of IcotoolProofs assume of the arguments.            *)
ASSUME NamesAssumption == NamesApart

-----------------------------------------------------------------------------
(* One option each for the claims of the manual.                           *)
ListAll == [ShowAll EXCEPT !.list = TRUE]
ClaimLines == {<<FileOf("icon", hs, <<0, 0, 0>>, <<1, 2, 3>>)>> :
                 hs \in {<<Dib4, DibExtended, Dib24>>, <<Png, Dib4, DibExtended>>}}
              \cup {<<WholeIcon, Named(WholeCursor, "b")>>}
ClaimFiles == FilesOf(ClaimLines)
IndexOptions == {[ListAll EXCEPT !.index = i] : i \in 1..3}
StdoutOptions == {[ShowAll EXCEPT !.output = "-"]}
CursorOptions == {[ListAll EXCEPT !.only = "cursor"]}
=============================================================================

--------------------------- MODULE IcoCreateClaims ---------------------------
(***************************************************************************)
(* What the manual says of icotool --create that create_icon() does not    *)
(* keep.                                                                   *)
(***************************************************************************)
EXTENDS IcoCreate

(* icotool.1: --bit-depth lets one "specify a minimum bit depth", of which *)
(* 16 is a valid value: what it makes is an icon that icotool can read.    *)
EveryDepthReadsBack == ReadsBack

(* NEWS: "Implemented support for 16 million color icons in icotool": what *)
(* is extracted of an image of 24 bits is what was put in.                 *)
SixteenMillionColorsReadBack ==
  pc = "release" /\ ~img[c].raw => PictureSurvives[Picture(img[c])]
=============================================================================

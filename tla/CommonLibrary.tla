---------------------------- MODULE CommonLibrary ----------------------------
(***************************************************************************)
(* common/: the tree map, the linked list, the string buffer and the       *)
(* parsers of integers.  They share nothing, so that what holds of each on *)
(* its own holds of them all: one is used at a time.                       *)
(***************************************************************************)
EXTENDS TMap, LList, StrBuf, IntUtil
Seqs == INSTANCE SequencesExt
Sets == INSTANCE FiniteSetsExt

VARIABLE part       \* the one in use

libraryVars == <<vars, listVars, bufVars, parseVars, part>>

LibraryInit ==
  /\ part \in {"tmap", "llist", "strbuf", "intutil"}
  /\ Init /\ ListInit /\ BufInit /\ ParseInit
  /\ part = "intutil" \/ (signed /\ \A g \in Greatest : greatest <= g)

LibraryNext ==
  /\ UNCHANGED part
  /\ \/ part = "tmap" /\ Next /\ UNCHANGED <<listVars, bufVars, parseVars>>
     \/ part = "llist" /\ ListNext /\ UNCHANGED <<vars, bufVars, parseVars>>
     \/ part = "strbuf" /\ BufNext /\ UNCHANGED <<vars, listVars, parseVars>>
     \/ part = "intutil" /\ ParseNext /\ UNCHANGED <<vars, listVars, bufVars>>

LibrarySpec == LibraryInit /\ [][LibraryNext]_libraryVars

-----------------------------------------------------------------------------
(* The string buffer as a text.  Positions lie between the characters; the *)
(* negative ones count from the end, and those outside stand for the ends. *)

Place(s, p) ==
  CHOOSE k \in 0..Len(s) :
    LET q == IF p < 0 THEN Len(s) + 1 + p ELSE p
    IN  \A l \in 0..Len(s) : (k - q) * (k - q) <= (l - q) * (l - q)

Ends(s, p, q) == {Place(s, p), Place(s, q)}
Before(s, p, q) == SubSeq(s, 1, Sets!Min(Ends(s, p, q)))
Between(s, p, q) == SubSeq(s, Sets!Min(Ends(s, p, q)) + 1, Sets!Max(Ends(s, p, q)))
Behind(s, p, q) == SubSeq(s, Sets!Max(Ends(s, p, q)) + 1, Len(s))

Repeated(s, times) == Seqs!FlattenSeq([i \in 1..times |-> s])

Text == StringOf(buf, 0, len)

(* Whatever was done to a buffer, replacing a part of it in place gives    *)
(* the text that concatenation gives, for positions in either order, from  *)
(* either end or outside of the text, and parts longer or shorter; and the *)
(* two ways to take a part out of it agree.                                *)
EditsAsText ==
  Exists => \A sp, ep \in Positions :
    /\ Substring(sp, ep) = Between(Text, sp, ep)
    /\ Ordered(sp, ep) => FreedTo(sp, ep) = Between(Text, sp, ep)
    /\ \A s \in Parts, times \in Repetitions :
         LET r == Replaced(sp, ep, times, s)
         IN  StringOf(r.buf, 0, r.len) =
               Before(Text, sp, ep) \o Repeated(s, times) \o Behind(Text, sp, ep)
=============================================================================

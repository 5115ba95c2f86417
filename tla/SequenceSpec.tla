----------------------------- MODULE SequenceSpec -----------------------------
(***************************************************************************)
(* What llist.h promises: a sequence, and a cursor that goes through it,   *)
(* behind which elements can be removed.                                   *)
(***************************************************************************)
EXTENDS Naturals, Sequences
Seqs == INSTANCE SequencesExt

CONSTANTS Data, NoData, MaxListSize

VARIABLES seq, iterating, cursor, given

Init == seq = <<>> /\ ~iterating /\ cursor = 0 /\ given = NoData

Ended == ~iterating' /\ cursor' = 0

Add(k, d) == seq' = Seqs!InsertAt(seq, k, d) /\ given' = NoData /\ Ended

(* An element is given as it is removed, unless it was asked for itself.   *)
RemoveElement(k) ==
  /\ seq' = Seqs!RemoveAt(seq, k)
  /\ given' \in {NoData, seq[k]}
  /\ Ended

AddAll(s) == seq' = seq \o s /\ given' = NoData /\ Ended

Become(s) == seq' = s /\ given' = NoData /\ Ended

Begin == iterating' /\ cursor' = 0 /\ given' = NoData /\ UNCHANGED seq

Give ==
  /\ iterating /\ cursor < Len(seq)
  /\ given' = seq[cursor + 1]
  /\ cursor' = cursor + 1
  /\ UNCHANGED <<seq, iterating>>

RemoveGiven ==
  /\ iterating /\ cursor > 0
  /\ seq' = Seqs!RemoveAt(seq, cursor)
  /\ cursor' = cursor - 1
  /\ given' = NoData
  /\ UNCHANGED iterating

Next ==
  \/ \E d \in Data, k \in 1..(MaxListSize + 1) : k <= Len(seq) + 1 /\ Add(k, d)
  \/ \E d, e \in Data : AddAll(<<d, e>>)
  \/ \E k \in DOMAIN seq : RemoveElement(k)
  \/ \E s \in {<<>>, seq, Seqs!Reverse(seq)} : Become(s)
  \/ Begin \/ Give \/ RemoveGiven

Spec == Init /\ [][Next]_<<seq, iterating, cursor, given>>
=============================================================================

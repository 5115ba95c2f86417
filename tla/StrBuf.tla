-------------------------------- MODULE StrBuf --------------------------------
(***************************************************************************)
(* common/strbuf.c: a buffer that holds a string, and grows.  The names of *)
(* the files icotool extracts to are put together in one.                  *)
(***************************************************************************)
EXTENDS Integers, Sequences

CONSTANTS
  Strings,         \* what is put into buffers, sequences of characters
  Repetitions,
  Positions,       \* in buffers and strings, from the end if negative
  Lengths          \* asked for, and at most so long are the buffers

ASSUME StrBufAssumption ==
  /\ \A s \in Strings : s \in Seq({s[k] : k \in DOMAIN s})
  /\ Repetitions \subseteq Nat
  /\ Positions \subseteq Int
  /\ Lengths \subseteq Nat

VARIABLES
  buf, len, capacity,     \* capacity is 0 when there is no buffer
  overrun                 \* history: whether memory behind a buffer was used

bufVars == <<buf, len, capacity, overrun>>

NUL == "NUL"
Garbage == "garbage"

BufInit ==
  /\ buf = <<>> /\ len = 0 /\ capacity = 0
  /\ overrun = FALSE

Exists == capacity > 0

MaxOf(a, b) == IF a > b THEN a ELSE b
MinOf(a, b) == IF a < b THEN a ELSE b

-----------------------------------------------------------------------------
(* Memory.                                                                 *)

Uninitialized(n) == [p \in 0..(n - 1) |-> Garbage]

(* What follows the terminating null is never looked at: it is as if it    *)
(* were not initialized.                                                   *)
Terminated(b, n) == [p \in DOMAIN b |-> IF p > n THEN Garbage ELSE b[p]]

memmove(b, to, from, n) ==
  [p \in DOMAIN b |-> IF p \in to..(to + n - 1) THEN b[from + (p - to)] ELSE b[p]]

(* The string s, as often as is said, one after the other.                 *)
memcpy(b, to, times, s) ==
  [p \in DOMAIN b |-> IF p \in to..(to + times * Len(s) - 1)
                      THEN s[1 + ((p - to) % Len(s))] ELSE b[p]]

realloc(b, n) == [p \in 0..(n - 1) |-> IF p \in DOMAIN b THEN b[p] ELSE Garbage]

(* Memory up to the n-th byte is used, of a buffer of so many.             *)
Uses(n, bytes) == overrun' = (overrun \/ n > bytes)

-----------------------------------------------------------------------------
(* Positions.                                                              *)

(* Mutant: -1 is the last character, as in other languages.                *)
PositionBeforeEnd(n, pos) ==
  IF pos >= n THEN n ELSE IF pos >= 0 THEN pos ELSE MaxOf(0, pos + n)

(* normalize_strbuf_pos() and normalize_str_pos(): -1 is the end.          *)
normalize(n, pos) ==
  IF pos >= n THEN n ELSE IF pos >= 0 THEN pos ELSE MaxOf(0, pos + 1 + n)

From(n, sp, ep) == MinOf(normalize(n, sp), normalize(n, ep))
To(n, sp, ep) == MaxOf(normalize(n, sp), normalize(n, ep))

Part(s, sp, ep) == SubSeq(s, From(Len(s), sp, ep) + 1, To(Len(s), sp, ep))

-----------------------------------------------------------------------------
(* Operations.                                                             *)

strbuf_new_with_capacity(n) ==
  /\ ~Exists
  /\ n > 0
  /\ capacity' = n
  /\ len' = 0
  /\ buf' = [Uninitialized(n) EXCEPT ![0] = NUL]
  /\ UNCHANGED overrun

strbuf_new_from_data_n(times, s) ==
  /\ ~Exists
  /\ capacity' = Len(s) * times + 1
  /\ len' = Len(s) * times
  /\ buf' = [memcpy(Uninitialized(capacity'), 0, times, s) EXCEPT ![len'] = NUL]
  /\ UNCHANGED overrun

(* Mutant: the terminating null is not counted.                            *)
EnsuredUnterminated(min) ==
  IF min > capacity + 1 THEN MaxOf(min - 1, len * 2 + 2) ELSE capacity

(* strbuf_ensure_capacity(): the capacity after it.                        *)
Ensured(min) ==
  IF min > capacity THEN MaxOf(min, len * 2 + 2) ELSE capacity

strbuf_ensure_capacity(min) ==
  /\ Exists
  /\ capacity' = Ensured(min)
  /\ buf' = realloc(buf, capacity')
  /\ UNCHANGED <<len, overrun>>

(* What is left of the buffer is moved to make room, or to close the gap.  *)
Replaced(sp, ep, times, s) ==
  LET from == From(len, sp, ep)
      to == To(len, sp, ep)
      addlen == Len(s) * times
      length == len + addlen - (to - from)
      bytes == IF length = len THEN capacity ELSE Ensured(length + 1)
      moved == IF length = len THEN buf
               ELSE memmove(realloc(buf, bytes), from + addlen, to, len + 1 - to)
  IN  [buf |-> Terminated(memcpy(moved, from, times, s), length),
       len |-> length, capacity |-> bytes]

strbuf_replace_data_n(sp, ep, times, s) ==
  LET r == Replaced(sp, ep, times, s)
  IN  /\ Exists
      /\ buf' = r.buf /\ len' = r.len /\ capacity' = r.capacity
      /\ Uses(MaxOf(len, len') + 1, capacity')

strbuf_set_length(n) ==
  /\ Exists
  /\ capacity' = Ensured(n + 1)
  /\ len' = n
  /\ buf' = Terminated([realloc(buf, capacity') EXCEPT ![n] = NUL], n)
  /\ Uses(n + 1, capacity')

(* A string of n bytes of memory.                                          *)
StringOf(b, at, n) == [k \in 1..n |-> b[at + k - 1]]

Substring(sp, ep) ==
  LET from == From(len, sp, ep) IN StringOf(buf, from, To(len, sp, ep) - from)

(* The copy takes the character behind the part along, too.                *)
strbuf_substring(sp, ep) ==
  /\ Exists
  /\ Uses(To(len, sp, ep) + 1, capacity)
  /\ UNCHANGED <<buf, len, capacity>>

(* The positions are not put in order.                                     *)
Ordered(sp, ep) == normalize(len, sp) <= normalize(len, ep)

FreedTo(sp, ep) ==
  LET n == normalize(len, ep) - normalize(len, sp)
  IN  StringOf(memmove(buf, 0, normalize(len, sp), n), 0, n)

strbuf_free_to_substring(sp, ep) ==
  /\ Exists
  /\ Ordered(sp, ep)
  /\ Uses(MaxOf(normalize(len, ep), normalize(len, ep) - normalize(len, sp) + 1), capacity)
  /\ buf' = <<>> /\ len' = 0 /\ capacity' = 0

(* What replacing with a substring, a character or a formatted string      *)
(* passes on is a part of a string.                                        *)
Parts == {Part(s, sp, ep) : s \in Strings, sp, ep \in Positions}

BufNext ==
  \/ \E n \in Lengths :
       \/ strbuf_new_with_capacity(n) \/ strbuf_ensure_capacity(n)
       \/ strbuf_set_length(n)
  \/ \E sp, ep \in Positions :
       strbuf_substring(sp, ep) \/ strbuf_free_to_substring(sp, ep)
  \/ \E s \in Parts, times \in Repetitions :
       \/ strbuf_new_from_data_n(times, s)
       \/ \E sp, ep \in Positions :
            strbuf_replace_data_n(sp, ep, times, s) /\ len' \in Lengths

BufSpec == BufInit /\ [][BufNext]_bufVars

-----------------------------------------------------------------------------
(* Properties.                                                             *)

(* Whatever is replaced, by how much, how often and at which positions, no *)
(* memory behind the buffer is used, and the string ends in it, with the   *)
(* null where the length says: the null moves with what follows the part.  *)
WithinCapacity ==
  /\ ~overrun
  /\ Exists => len < capacity /\ DOMAIN buf = 0..(capacity - 1) /\ buf[len] = NUL
=============================================================================

------------------------------- MODULE IntUtil -------------------------------
(***************************************************************************)
(* common/intutil.c: the parsers of integers, parse_int8() to              *)
(* parse_uint64(), which options and resource ids go through.  They differ *)
(* in the range of the integer, and in whether it has a sign.  A character *)
(* is its code as a signed char.                                           *)
(***************************************************************************)
EXTENDS Integers

CONSTANT Greatest        \* the greatest integers of the types

ASSUME GreatestAssumption == Greatest \subseteq Nat

VARIABLES
  lowest, greatest,      \* the range of the type
  instr,                 \* how far the string is read, or what came of it
  negative, value,
  spelled, exact         \* history: what the characters spell

parseVars == <<lowest, greatest, instr, negative, value, spelled, exact>>

ParseInit ==
  /\ greatest \in Greatest
  /\ lowest \in {-greatest - 1, 0}
  /\ instr = "first"
  /\ negative = FALSE /\ value = 0
  /\ spelled = "nothing" /\ exact = 0

signed == lowest < 0

Character == -128..127
Minus == 45
Zero == 48

(* Division truncates towards zero.                                        *)
Tenth(n) == IF n >= 0 THEN n \div 10 ELSE -((-n) \div 10)
Unit(n) == n - 10 * Tenth(n)

(* The difference to '0', as int8_t or as uint8_t.                         *)
Digit(ch) ==
  LET u == (ch - Zero) % 256 IN IF signed /\ u > 127 THEN u - 256 ELSE u

IsDigit(ch) == 0 <= Digit(ch) /\ Digit(ch) <= 9

(* Mutant: the last digit of the limit is not looked at.                   *)
OverflowsTenth(c) ==
  IF negative THEN value < Tenth(lowest) ELSE value > Tenth(greatest)

Overflows(c) ==
  IF negative
  THEN \/ value < Tenth(lowest)
       \/ value = Tenth(lowest) /\ c > -Unit(lowest)
  ELSE \/ value > Tenth(greatest)
       \/ value = Tenth(greatest) /\ c > Unit(greatest)

Reading == instr \in {"first", "sign", "digits"}

(* What the characters spell with one more: a number is digits, behind a   *)
(* sign if the type has one.                                               *)
SpelledWith(ch) ==
  IF spelled = "nothing" /\ signed /\ ch = Minus THEN "sign"
  ELSE IF spelled # "else" /\ ch \in Zero..(Zero + 9) THEN "number"
  ELSE "else"

Spell(ch) ==
  /\ spelled' = SpelledWith(ch)
  /\ exact' = IF spelled' # "number" THEN exact
              ELSE 10 * exact + (IF negative THEN Zero - ch ELSE ch - Zero)

ReadMinus ==
  /\ instr = "first"
  /\ signed
  /\ instr' = "sign"
  /\ negative' = TRUE
  /\ Spell(Minus)
  /\ UNCHANGED <<lowest, greatest, value>>

(* A sign is a character like another where it is not looked for.          *)
IsSign(ch) == instr = "first" /\ signed /\ ch = Minus

ReadDigit(ch) ==
  /\ Reading
  /\ ~IsSign(ch)
  /\ IsDigit(ch)
  /\ ~Overflows(Digit(ch))
  /\ instr' = "digits"
  /\ value' = value * 10 + (IF negative THEN -Digit(ch) ELSE Digit(ch))
  /\ Spell(ch)
  /\ UNCHANGED <<lowest, greatest, negative>>

RejectOverflow(ch) ==
  /\ Reading
  /\ ~IsSign(ch)
  /\ IsDigit(ch)
  /\ Overflows(Digit(ch))
  /\ instr' = "overflow"
  /\ Spell(ch)
  /\ UNCHANGED <<lowest, greatest, negative, value>>

RejectCharacter(ch) ==
  /\ Reading
  /\ ~IsSign(ch)
  /\ ~IsDigit(ch)
  /\ instr' = "malformed"
  /\ Spell(ch)
  /\ UNCHANGED <<lowest, greatest, negative, value>>

(* At the terminating null character: the types without a sign do not look *)
(* whether there was a digit.                                              *)
Accept ==
  /\ instr = "digits" \/ (instr = "first" /\ ~signed)
  /\ instr' = "accepted"
  /\ UNCHANGED <<lowest, greatest, negative, value, spelled, exact>>

RejectEmpty ==
  /\ instr = "sign" \/ (instr = "first" /\ signed)
  /\ instr' = "malformed"
  /\ UNCHANGED <<lowest, greatest, negative, value, spelled, exact>>

ParseNext ==
  \/ \E ch \in Character \ {0} :
       ReadDigit(ch) \/ RejectOverflow(ch) \/ RejectCharacter(ch)
  \/ ReadMinus \/ Accept \/ RejectEmpty

ParseSpec == ParseInit /\ [][ParseNext]_parseVars

-----------------------------------------------------------------------------
(* A string is accepted if it spells an integer of the type, and given as  *)
(* that integer; it is taken for too large only if it is out of the range, *)
(* and for malformed only if it is no number.  The value never leaves the  *)
(* range on the way.  The empty string is zero to the types without sign.  *)
ParsesWhatFits ==
  /\ value \in lowest..greatest
  /\ instr = "accepted" =>
       /\ value = exact
       /\ spelled = "number" \/ (spelled = "nothing" /\ ~signed)
  /\ instr = "overflow" => exact \notin lowest..greatest
  /\ instr = "malformed" => spelled # "number"
=============================================================================

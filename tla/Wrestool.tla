------------------------------- MODULE Wrestool -------------------------------
(***************************************************************************)
(* wrestool: main() takes its files in order, and lets do_resources() pass *)
(* the resources of each that the options select to a callback, which      *)
(* lists or extracts them.                                                 *)
(***************************************************************************)
EXTENDS Naturals, Sequences

CONSTANTS
  Arguments,      \* sequences of File
  Filters         \* of Filter: what --type, --name and --language ask for

Levels == {"type", "name", "language"}

(* An id is a number or a string.  Resources of 16-bit libraries have no   *)
(* language.                                                               *)
Id == [numeric : BOOLEAN, value : Nat]
Resource == [Levels -> Id] \cup [Levels \ {"language"} -> Id]

(* A file that cannot be examined, is empty, cannot be read, is refused by *)
(* read_library(), or is a library.                                        *)
File ==
  [kind : {"missing", "empty", "unreadable", "refused"}, resources : {{}}]
  \cup [kind : {"library"}, resources : SUBSET Resource]

(* Given for any of the levels, and by a sign it may say which of number   *)
(* and string the id must be.                                              *)
Option == [sign : {"", "+", "-"}, value : Nat]
Filter == UNION {[L -> Option] : L \in SUBSET Levels}

VARIABLES
  arguments, filter,
  c,              \* the argument main() is at
  passed,         \* what the callback was called for
  status

vars == <<arguments, filter, c, passed, status>>

Init ==
  /\ arguments \in Arguments
  /\ filter \in Filters
  /\ c = 1
  /\ passed = {}
  /\ status = "running"

-----------------------------------------------------------------------------
compare_resource_id(id, option) ==
  /\ id.value = option.value
  /\ option.sign # (IF id.numeric THEN "+" ELSE "-")

(* A level that the resource does not have matches.                        *)
Matches(r) ==
  \A l \in DOMAIN filter \cap DOMAIN r : compare_resource_id(r[l], filter[l])

(* Whether a block lies in the memory that holds the library.              *)
check_offset(block) == block = "library"

(* list_resources() allocates the array of what it lists; what it is given *)
(* is in the library.                                                      *)
Listing == "allocated"

do_resources(f) ==
  IF check_offset(Listing) THEN {r \in f.resources : Matches(r)} ELSE {}

-----------------------------------------------------------------------------
Running == status = "running" /\ c <= Len(arguments)

Die ==
  /\ Running
  /\ arguments[c].kind \in {"missing", "unreadable"}
  /\ status' = "failed"
  /\ UNCHANGED <<arguments, filter, c, passed>>

Skip ==
  /\ Running
  /\ arguments[c].kind \in {"empty", "refused"}
  /\ c' = c + 1
  /\ UNCHANGED <<arguments, filter, passed, status>>

Process ==
  /\ Running
  /\ arguments[c].kind = "library"
  /\ passed' = passed \cup {<<c, r>> : r \in do_resources(arguments[c])}
  /\ c' = c + 1
  /\ UNCHANGED <<arguments, filter, status>>

Exit ==
  /\ status = "running" /\ c > Len(arguments)
  /\ status' = "succeeded"
  /\ UNCHANGED <<arguments, filter, c, passed>>

Next == Die \/ Skip \/ Process \/ Exit

Spec == Init /\ [][Next]_vars

-----------------------------------------------------------------------------
(* wrestool.1: "Wrestool reads 16- or 32-bit Microsoft Windows(R) binaries *)
(* and lists or extracts the resources they contain": those of the options *)
(* in every library it has come past.                                      *)
ListsTheResources ==
  \A k \in 1..Len(arguments) :
    k < c /\ arguments[k].kind = "library" =>
      \A r \in arguments[k].resources : Matches(r) => <<k, r>> \in passed
=============================================================================

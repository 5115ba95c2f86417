------------------------------ MODULE MCWrestool ------------------------------
(***************************************************************************)
(* Up to two files, one of them a library of three resources.              *)
(***************************************************************************)
EXTENDS Wrestool

Number(n) == [numeric |-> TRUE, value |-> n]
Name(n) == [numeric |-> FALSE, value |-> n]

Resources ==
  {[type |-> Number(3), name |-> Number(1), language |-> Number(1033)],
   [type |-> Number(14), name |-> Name(1), language |-> Number(1033)],
   [type |-> Number(14), name |-> Number(2)]}

MCFiles ==
  {[kind |-> "library", resources |-> Resources]}
  \cup [kind : {"missing", "empty", "unreadable", "refused"}, resources : {{}}]

MCArguments == {<<f>> : f \in MCFiles} \cup MCFiles \X MCFiles

MCFilters ==
  {<<>>} \cup [{"type"} -> [sign : {"", "-"}, value : {14}]]
  \cup [{"type", "name"} -> [sign : {"", "+", "-"}, value : {1, 14}]]
=============================================================================

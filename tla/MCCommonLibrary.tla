--------------------------- MODULE MCCommonLibrary ---------------------------
(***************************************************************************)
(* Seven keys in three classes, one of them with a second value; lists of  *)
(* up to four of three data; texts of up to four characters; integers of   *)
(* eight bits, and of ranges whose ends are about a power of ten.          *)
(***************************************************************************)
EXTENDS CommonLibrary

MCKeys == 1..7
MCClass == [k \in MCKeys |-> (k + 1) \div 3]
MCValues == [k \in MCKeys |-> {k} \cup (IF k = 3 THEN {8} ELSE {})]

MCData == {"a", "b", "c"}

MCStrings == {<<"a", "b">>}
MCRepetitions == 0..2
MCPositions == {-3, -2, -1, 0, 1, 3}
MCLengths == 0..4

MCGreatest == {8, 9, 10, 99, 100, 127, 255}
=============================================================================

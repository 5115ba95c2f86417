------------------------------ MODULE ImageStream ------------------------------
(***************************************************************************)
(* What extracting a file means, whatever its directory looks like: the    *)
(* images come one after another in the order in which they lie in the     *)
(* file, and those the options select are shown.  One file is extracted    *)
(* after another; of a file of which nothing is promised anything may come.*)
(***************************************************************************)
EXTENDS IcoFormat

VARIABLES file, opt,   \* the input and the options, fixed during a call
          taken,       \* the images that have come
          shown,       \* those of them that were printed or written
          status

vars == <<file, opt, taken, shown, status>>

Init == status = "done"

Open ==
  /\ status = "done"
  /\ status' = "running"
  /\ taken' = <<>>
  /\ shown' = {}
  /\ UNCHANGED opt

Take(e) ==
  /\ status = "running"
  /\ Index(file, e) = Len(taken) + 1
  /\ taken' = Append(taken, e)
  /\ Promised(opt, file)
  /\ shown' = IF e \in Wanted(opt, file) THEN shown \cup {e} ELSE shown
  /\ UNCHANGED <<file, opt, status>>

Finish ==
  /\ status = "running"
  /\ Len(taken) = Len(file.dir)
  /\ status' = "done"
  /\ UNCHANGED <<file, opt, taken, shown>>
  /\ Promised(opt, file)

Unpromised ==
  /\ status = "running"
  /\ UNCHANGED <<file, opt>>
  /\ ~Promised(opt, file)

Extract == (\E e \in Images(file) : Take(e)) \/ Finish

Next == Open \/ Extract \/ Unpromised

Spec == Init /\ [][Next]_vars /\ WF_vars(Extract)
=============================================================================

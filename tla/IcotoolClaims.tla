----------------------------- MODULE IcotoolClaims -----------------------------
(***************************************************************************)
(* What icotool/icotool.1 says of --list and --extract and the code does   *)
(* not do.  Each is stated of a well-formed file only.                     *)
(***************************************************************************)
EXTENDS Icotool

OnWellFormed == Returned /\ WellFormed(file)

(* icotool.1, --index: "list or extract only the N'th image in each file.  *)
(* The first image has index 1."                                           *)
NthImageOnly ==
  OnWellFormed /\ opt.list /\ opt.index # Unset =>
    Shown = {StartOf(e) : e \in {d \in Images(file) : Index(file, d) = opt.index}}

(* icotool.1, --output: "If PATH is `-', then all output will be printed   *)
(* to standard out."                                                       *)
AllToStdout ==
  OnWellFormed /\ ~opt.list /\ opt.output = "-" =>
    Len(disk[Stdout]) = Cardinality(Wanted(opt, file))

(* icotool.1, --list: "This options tells icotool that images in all given *)
(* icon/cursor files are to be listed."  Those named after the argument at *)
(* which main() gives up were not even opened.                             *)
ListsEveryFile ==
  main = "exit" /\ opt.list =>
    \A k \in (arg + 1)..Len(arguments) :
      arguments[k] # Missing /\ WellFormed(arguments[k])
        => Wanted(opt, arguments[k]) = {}
=============================================================================

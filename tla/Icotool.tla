------------------------------- MODULE Icotool -------------------------------
(***************************************************************************)
(* icotool --list and --extract: main() of icotool/main.c calls            *)
(* extract_icons() on one argument after another.  What a call leaves on   *)
(* disk, and whether standard out is closed, outlives it; all else of it   *)
(* starts anew.                                                            *)
(***************************************************************************)
EXTENDS IcoExtract

CONSTANT Arguments   \* the command lines: sequences of files or Missing

Missing == [type |-> "missing"]   \* an argument that cannot be opened

ASSUME ArgumentsAssumption ==
  Arguments \subseteq Seq(Files \cup {Missing}) /\ Missing \notin Files

VARIABLES
  arguments, arg,   \* argv, and the argument reached
  main,             \* "next", "call" or "exit"
  exit              \* "success", "failure", or "abort" if libpng ends it

mainVars == <<arguments, arg, main, exit>>
allVars == <<mainVars, vars>>

Nofile == [type |-> "unknown", name |-> 0, dir |-> <<>>, image |-> <<>>, len |-> 0]

(* The variables of a call before and between calls.                       *)
Idle ==
  /\ file = Nofile
  /\ pc = "return"
  /\ pos = 0 /\ offset = 0
  /\ c = 1 /\ min_offset = MaxOffset /\ previous = 0
  /\ completed = 0 /\ matched = 0
  /\ bitmap = CHOOSE h \in Garbage : TRUE
  /\ start = 0
  /\ log = <<>>
  /\ result = 0

MainInit ==
  /\ arguments \in Arguments
  /\ opt \in Options
  /\ arg = 1
  /\ main = "next"
  /\ exit = "running"
  /\ Idle
  /\ out = NoOut
  /\ disk = [n \in {Stdout} |-> <<>>]
  /\ stdout = "open"
  /\ headers = <<>>

(* A warning, and on to the next argument.                                 *)
CannotOpen ==
  /\ main = "next"
  /\ arg <= Len(arguments)
  /\ arguments[arg] = Missing
  /\ arg' = arg + 1
  /\ UNCHANGED <<arguments, main, exit, vars>>

Call ==
  /\ main = "next"
  /\ arg <= Len(arguments)
  /\ arguments[arg] # Missing
  /\ main' = "call"
  /\ file' = arguments[arg]
  /\ pc' = "dir"
  /\ pos' = 0 /\ offset' = 0
  /\ c' = 1 /\ min_offset' = MaxOffset /\ previous' = 0
  /\ completed' = 0 /\ matched' = 0
  /\ headers' = set_message_header(headers, "inname")
  /\ log' = <<>>
  /\ result' = 0
  /\ UNCHANGED <<arguments, arg, exit, opt, bitmap, start, out, disk, stdout>>

Extracting ==
  /\ main = "call"
  /\ Next
  /\ UNCHANGED mainVars

Exit(code) ==
  /\ main' = "exit"
  /\ exit' = code
  /\ UNCHANGED <<arguments, arg, vars>>

NextArgument ==
  /\ main' = "next"
  /\ arg' = arg + 1
  /\ UNCHANGED <<arguments, exit, vars>>

(* Mutant: --extract tests the result as --list does.                      *)
ReturnFailsAsInList == result = 0

(* "if (!extract_icons(...)) exit(1)" of --list takes the number of images *)
(* for a truth value; --extract compares it with -1.                       *)
ReturnFails == IF opt.list THEN result = 0 ELSE result = -1

CallFailed ==
  /\ main = "call"
  /\ pc = "return"
  /\ ReturnFails
  /\ Exit("failure")

CallSucceeded ==
  /\ main = "call"
  /\ pc = "return"
  /\ ~ReturnFails
  /\ NextArgument

Aborted ==
  /\ main = "call"
  /\ pc = "abort"
  /\ Exit("abort")

AllDone ==
  /\ main = "next"
  /\ arg > Len(arguments)
  /\ Exit("success")

Exited == main = "exit" /\ UNCHANGED allVars

MainNext ==
  \/ CannotOpen \/ Call \/ Extracting \/ CallFailed \/ CallSucceeded
  \/ Aborted \/ AllDone
  \/ Exited

(* One thread of control that never blocks.                                *)
MainSpec == MainInit /\ [][MainNext]_allVars /\ WF_allVars(MainNext)

-----------------------------------------------------------------------------
(* Properties, besides those of IcoExtract.                                *)

(* NEWS 0.29: "Fix occasional infinite loop when presented a corrupted     *)
(* icon file."  Each pass completes an image or moves the offset forward,  *)
(* so the program ends whatever its arguments hold.                        *)
Termination == <>(main = "exit")

OutNameOf(f, e) ==
  <<"names", f.name, Index(f, e), HeaderOf(f, e).width,
    height(HeaderOf(f, e)), HeaderOf(f, e).bits>>

(* No two of the files named on a command line have the same base name, so *)
(* that their outputs do not either (main.c:141 leaves the directory out). *)
NamesApart ==
  \A a \in Arguments : \A j, k \in 1..Len(a) :
    a[j] # Missing /\ a[k] # Missing /\ a[j].name = a[k].name => j = k

(* If icotool --extract exits with success, what the options select of     *)
(* each whole file is complete under its own name, whatever other files    *)
(* were named with it and whether those could be opened; nothing is left   *)
(* half done of a damaged one; and no argument was left out.               *)
SuccessMeansExtracted ==
  main = "exit" /\ exit = "success" /\ ~opt.list /\ opt.output = "names" =>
    /\ \A k \in 1..Len(arguments) :
         arguments[k] # Missing /\ Promised(opt, arguments[k]) =>
           \A e \in Wanted(opt, arguments[k]) :
             /\ OutNameOf(arguments[k], e) \in DOMAIN disk
             /\ disk[OutNameOf(arguments[k], e)] = WholeImage(arguments[k], e)
    /\ "flush" \notin opt.faults =>
         \A n \in DOMAIN disk : \A k \in 1..Len(disk[n]) : disk[n][k].whole
=============================================================================

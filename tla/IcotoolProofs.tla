---------------------------- MODULE IcotoolProofs ----------------------------
(***************************************************************************)
(* What is proved of one call of extract_icons() holds of all the calls    *)
(* main() makes, one argument after another: a call starts where the       *)
(* invariants of IcoExtractProofs hold, whatever the calls before it left. *)
(***************************************************************************)
EXTENDS Icotool, IcoExtractProofs

Between == main \in {"next", "exit"} => pc \in {"return", "abort"}

MainInv ==
  /\ Inv
  /\ arguments \in Seq(Files \cup {Missing})
  /\ arg \in Nat \ {0}
  /\ Between
  /\ main = "next" => pc = "return"

LEMMA NofileIsFile == IsFile(Nofile)
<1>1. <<>> \in Seq(DirEntry) /\ DOMAIN <<>> = {}
  OBVIOUS
<1>. QED
  BY <1>1, LimitsAssumption DEF Nofile, IsFile

LEMMA ArgumentIsFile ==
  ASSUME MainInv, Call
  PROVE  arguments[arg] \in Files /\ IsFile(arguments[arg])
<1>1. arg \in 1..Len(arguments)
  BY DEF MainInv, Call
<1>2. arguments[arg] \in Files \cup {Missing}
  BY <1>1 DEF MainInv
<1>. QED
  BY <1>2, FilesAssumption DEF Call

LEMMA MainInitInv == MainInit => MainInv
<1>. SUFFICES ASSUME MainInit PROVE MainInv
  OBVIOUS
<1>1. file = Nofile /\ IsFile(file) /\ IsOptions(opt)
  BY NofileIsFile, OptionsAssumption DEF MainInit, Idle
<1>2. count = 0
  BY <1>1 DEF count, Nofile
<1>3. TypeOK
  BY <1>1, <1>2, GarbageIsHeader, LimitsAssumption DEF MainInit, Idle, TypeOK, InImage
<1>4. Ahead /\ Unmatched
  <2>1. pos = 0 /\ pc = "return" /\ file.len \in 0..MaxOffset
    BY <1>1 DEF MainInit, Idle, IsFile
  <2>. QED
    BY <2>1, LimitsAssumption DEF Ahead, Unmatched, Reading, Midway, Read
<1>. QED
  BY <1>3, <1>4, ArgumentsAssumption DEF MainInit, Idle, MainInv, Inv, Between

LEMMA MainNextInv == MainInv /\ [MainNext]_allVars => MainInv'
<1>. SUFFICES ASSUME MainInv, [MainNext]_allVars PROVE MainInv'
  OBVIOUS
<1>1. CASE Call
  <2>1. IsFile(file') /\ file' = arguments[arg]
    BY <1>1, ArgumentIsFile DEF Call
  <2>2. count' \in Nat
    BY <2>1 DEF count, IsFile
  <2>3. TypeOK'
    <3>1. /\ pos' = 0 /\ offset' = 0 /\ c' = 1 /\ min_offset' = MaxOffset
          /\ previous' = 0 /\ completed' = 0 /\ matched' = 0 /\ result' = 0
          /\ log' = <<>> /\ pc' = "dir"
          /\ UNCHANGED <<opt, bitmap, start, stdout>>
      BY <1>1 DEF Call
    <3>2. TypeOK
      BY DEF MainInv, Inv
    <3>3. (c \in 1..(count + 1))'
      BY <2>2, <3>1 DEF count
    <3>4. (log \in Seq([entry: Images(file), index: Nat, start: 0..MaxOffset,
                       png: BOOLEAN, shown: BOOLEAN]))'
      BY <3>1
    <3>5. (pos \in 0..MaxOffset /\ offset \in 0..MaxOffset /\ min_offset \in 0..MaxOffset
           /\ matched \in 0..completed)'
      BY <3>1, LimitsAssumption
    <3>6. (bitmap \in Header /\ start \in 0..MaxOffset /\ IsOptions(opt)
           /\ stdout \in {"open", "closed"})'
      BY <3>1, <3>2 DEF TypeOK
    <3>. QED
      BY <2>1, <3>1, <3>3, <3>4, <3>5, <3>6 DEF TypeOK, InImage
  <2>4. (file.len)' \in 0..MaxOffset
    BY <2>1 DEF IsFile
  <2>5. Ahead' /\ Unmatched'
    BY <1>1, <2>4, LimitsAssumption DEF Call, Ahead, Unmatched, Reading, Midway, Read
  <2>. QED
    BY <1>1, <2>3, <2>5 DEF Call, MainInv, Inv, Between
<1>2. CASE Extracting
  <2>1. Inv'
    BY <1>2, NextInv DEF Extracting, MainInv
  <2>. QED
    BY <1>2, <2>1 DEF Extracting, mainVars, MainInv, Between
<1>3. CASE UNCHANGED vars /\ (CannotOpen \/ CallFailed \/ CallSucceeded
                              \/ Aborted \/ AllDone \/ UNCHANGED allVars)
  <2>1. Inv'
    BY <1>3, NextInv DEF MainInv
  <2>2. pc' = pc
    BY <1>3 DEF vars
  <2>. QED
    BY <1>3, <2>1, <2>2
       DEF MainInv, CannotOpen, CallFailed, CallSucceeded, Aborted, AllDone,
           Exit, NextArgument, allVars, mainVars, Between
<1>. QED
  BY <1>1, <1>2, <1>3
     DEF MainNext, CannotOpen, CallFailed, CallSucceeded, Aborted, AllDone,
         Exit, NextArgument, Exited, allVars

(* Every variable has its type throughout icotool, whatever files it is    *)
(* given: in particular no offset leaves the range of a uint32_t.          *)
THEOREM MainTypeCorrect == MainSpec => []TypeOK
<1>1. MainInv => TypeOK
  BY DEF MainInv, Inv
<1>. QED
  BY MainInitInv, MainNextInv, <1>1, PTL DEF MainSpec
-----------------------------------------------------------------------------
(* A step of main() starts a call, is one of the call, or leaves the call. *)
LEMMA MainSteps ==
  [MainNext]_allVars => \/ Call
                        \/ main = "call" /\ Next /\ UNCHANGED mainVars
                        \/ UNCHANGED vars
BY DEF MainNext, Extracting, CannotOpen, CallFailed, CallSucceeded, Aborted,
       AllDone, Exit, NextArgument, Exited, allVars

(* Whenever a directory entry is compared with the offset, in whichever    *)
(* file, the stream stands at that offset, unless a PNG was filtered out.  *)
THEOREM MainStreamInSync == MainSpec => []Synced
<1>1. MainInit => InSync
  BY DEF MainInit, Idle, InSync, Reading, Midway, Read
<1>2. MainInv /\ InSync /\ [MainNext]_allVars => InSync'
  <2>. SUFFICES ASSUME MainInv, InSync, [MainNext]_allVars PROVE InSync'
    OBVIOUS
  <2>1. CASE Call
    BY <2>1 DEF Call, InSync, Reading, Midway, Read
  <2>2. CASE [Next]_vars
    BY <2>2, NextInSync DEF MainInv
  <2>. QED
    BY <2>1, <2>2, MainSteps
<1>3. InSync => Synced
  BY DEF InSync, Regular, Synced
<1>. QED
  BY MainInitInv, MainNextInv, <1>1, <1>2, <1>3, PTL DEF MainSpec

(* In every file, images are numbered and taken in the order they lie in   *)
(* it, each once and each from where its entry says, whatever the          *)
(* directory, unless a PNG was filtered out or the stream cannot go back.  *)
THEOREM MainFileOrder == MainSpec => []TakenInFileOrder
<1>1. MainInit => InSync /\ Ordered
  BY DEF MainInit, Idle, InSync, Ordered, Indexed, Counted, Sorted, InHand,
         Reading, Midway, Read
<1>2. MainInv /\ MainInv' /\ InSync /\ Ordered /\ [MainNext]_allVars
        => InSync' /\ Ordered'
  <2>. SUFFICES ASSUME MainInv, MainInv', InSync, Ordered, [MainNext]_allVars
                PROVE  InSync' /\ Ordered'
    OBVIOUS
  <2>1. CASE Call
    BY <2>1 DEF Call, InSync, Ordered, Indexed, Counted, Sorted, InHand,
                Reading, Midway, Read
  <2>2. CASE [Next]_vars
    BY <2>2, NextInSync, NextOrdered DEF MainInv
  <2>. QED
    BY <2>1, <2>2, MainSteps
<1>3. Ordered => TakenInFileOrder
  BY DEF Ordered, Indexed, Regular, Sorted, TakenInFileOrder
<1>. QED
  BY MainInitInv, MainNextInv, <1>1, <1>2, <1>3, PTL DEF MainSpec

(* The directory is never compared with an offset lower than before: on a  *)
(* damaged file too, extract_icons() does not turn back, which bounds its  *)
(* passes.  What wraps the offset ends the call.                           *)
THEOREM MainOffsetGrows == MainSpec => OffsetNeverFallsBack
<1>1. MainInv /\ [MainNext]_allVars
        => [~Returned /\ ~Returned' => Compared' >= Compared]_<<file, pc, c, offset>>
  <2>. SUFFICES ASSUME MainInv, [MainNext]_allVars
                PROVE  ~Returned /\ ~Returned' => Compared' >= Compared
    OBVIOUS
  <2>1. CASE Call
    BY <2>1 DEF Call, MainInv, Returned
  <2>2. CASE [Next]_vars
    BY <2>2, NextGrows DEF MainInv
  <2>. QED
    BY <2>1, <2>2, MainSteps
<1>. QED
  BY MainInitInv, MainNextInv, <1>1, PTL DEF MainSpec, OffsetNeverFallsBack

(* Whichever way a call goes, the message headers it sets are taken off    *)
(* when it returns, so that the next call's messages name its own file.    *)
THEOREM MainHeadersRestored == MainSpec => []HeadersBalanced
<1>1. MainInit => HeadersBalanced
  BY DEF MainInit, Idle, HeadersBalanced
<1>2. MainInv /\ HeadersBalanced /\ [MainNext]_allVars => HeadersBalanced'
  <2>. SUFFICES ASSUME MainInv, HeadersBalanced, [MainNext]_allVars
                PROVE  HeadersBalanced'
    OBVIOUS
  <2>1. CASE Call
    <3>1. headers = <<>>
      BY <2>1 DEF Call, MainInv, HeadersBalanced
    <3>2. Append(<<>>, "inname") = <<"inname">>
      OBVIOUS
    <3>3. headers' = Append(headers, "inname") /\ pc' = "dir"
      BY <2>1 DEF Call, set_message_header
    <3>. QED
      BY <3>1, <3>2, <3>3 DEF HeadersBalanced
  <2>2. CASE [Next]_vars
    BY <2>2, NextHeaders
  <2>. QED
    BY <2>1, <2>2, MainSteps
<1>. QED
  BY MainInitInv, MainNextInv, <1>1, <1>2, PTL DEF MainSpec
-----------------------------------------------------------------------------
(* One output at a time: none is open while a directory is scanned, and    *)
(* none is left open by a call that returns, unless fwrite() failed.       *)
THEOREM MainNoOutputLeftOpen == MainSpec => []OutputsClosed
<1>. DEFINE MainClosed == ClosedInv /\ (main = "next" => Closed)
<1>1. MainInit => MainClosed
  BY DEF MainInit, Idle, ClosedInv, Writing, Closed
<1>2. MainInv /\ MainClosed /\ [MainNext]_allVars => MainClosed'
  <2>. SUFFICES ASSUME MainInv, MainClosed, [MainNext]_allVars PROVE MainClosed'
    OBVIOUS
  <2>1. CASE Call
    BY <2>1 DEF Call, ClosedInv, Writing, Closed
  <2>2. CASE main = "call" /\ Next /\ UNCHANGED mainVars
    BY <2>2, NextClosed DEF mainVars
  <2>3. CASE UNCHANGED vars
    <3>1. ClosedInv' /\ (Closed' <=> Closed)
      BY <2>3, NextClosed DEF vars, Closed
    <3>2. CASE CallSucceeded
      <4>1. Closed
        BY <3>2 DEF CallSucceeded, ReturnFails, ClosedInv, LastCall
      <4>. QED
        BY <3>1, <4>1
    <3>3. CASE ~CallSucceeded /\ ~Call
      <4>1. main' = "next" => main = "next"
        BY <3>3 DEF MainNext, CannotOpen, Extracting, CallFailed, Aborted,
                    AllDone, Exit, Exited, allVars, mainVars
      <4>. QED
        BY <3>1, <4>1
    <3>. QED
      BY <2>1, <3>2, <3>3
  <2>. QED
    BY <2>1, <2>2, <2>3, MainSteps
<1>3. MainClosed => OutputsClosed
  BY DEF ClosedInv, Closed, LastCall, OutputsClosed
<1>. QED
  BY MainInitInv, MainNextInv, <1>1, <1>2, <1>3, PTL DEF MainSpec

(* No call is left with an output that is not whole.                       *)
MainWhole ==
  WholeInv /\ ("flush" \notin opt.faults /\ main = "next" => AllWhole)

LEMMA MainWholeInv ==
  /\ MainInit => MainWhole
  /\ MainInv /\ MainWhole /\ [MainNext]_allVars => MainWhole'
<1>. USE DEF MainWhole
<1>1. MainInit => MainWhole
  <2>. SUFFICES ASSUME MainInit PROVE MainWhole
    OBVIOUS
  <2>1. disk = [n \in {Stdout} |-> <<>>] /\ pc = "return" /\ <<>> \in Seq(Image)
    BY DEF MainInit, Idle
  <2>2. DOMAIN disk = {Stdout} /\ disk[Stdout] = <<>> /\ Len(<<>>) = 0
    BY <2>1
  <2>. QED
    BY <2>1, <2>2 DEF WholeInv, Writing, DiskOK, AllWhole
<1>2. MainInv /\ MainWhole /\ [MainNext]_allVars => MainWhole'
  <2>. SUFFICES ASSUME MainInv, MainWhole, [MainNext]_allVars PROVE MainWhole'
    OBVIOUS
  <2>1. CASE Call
    BY <2>1 DEF Call, WholeInv, Writing, DiskOK, AllWhole
  <2>2. CASE main = "call" /\ Next /\ UNCHANGED mainVars
    BY <2>2, NextWhole DEF MainInv, mainVars
  <2>3. CASE UNCHANGED vars
    <3>1. WholeInv' /\ (AllWhole' <=> AllWhole) /\ opt' = opt
      BY <2>3, NextWhole DEF vars, AllWhole, MainInv
    <3>2. CASE CallSucceeded
      <4>1. "flush" \notin opt.faults => AllWhole
        BY <3>2 DEF CallSucceeded, ReturnFails, WholeInv, LastCall
      <4>. QED
        BY <3>1, <4>1
    <3>3. CASE ~CallSucceeded /\ ~Call
      <4>1. main' = "next" => main = "next"
        BY <3>3 DEF MainNext, CannotOpen, Extracting, CallFailed, Aborted,
                    AllDone, Exit, Exited, allVars, mainVars
      <4>. QED
        BY <3>1, <4>1
    <3>. QED
      BY <2>1, <3>2, <3>3
  <2>. QED
    BY <2>1, <2>2, <2>3, MainSteps
<1>. QED
  BY <1>1, <1>2

(* An image cut short, by a colour out of range or by a write that fails,  *)
(* is the last one touched, and icotool does not report success: no later  *)
(* file hides it.  Only a failure of fclose() goes unnoticed.              *)
THEOREM MainIncompleteReported == MainSpec => []IncompleteIsReported
<1>1. MainWhole => IncompleteIsReported
  BY DEF MainWhole, WholeInv, AllWhole, LastCall, IncompleteIsReported
<1>. QED
  BY MainInitInv, MainNextInv, MainWholeInv, <1>1, PTL DEF MainSpec
-----------------------------------------------------------------------------
(* The outputs of one file and those of another.                           *)

(* The file at hand is the argument reached.                               *)
Asked ==
  /\ arguments \in Arguments
  /\ main = "call" => arg \in 1..Len(arguments) /\ file = arguments[arg]
                      /\ file # Missing

(* An output is named after an argument of which the call has begun.       *)
Begun(k) == k < arg \/ (k = arg /\ main # "next")
Given(n) ==
  \E k \in 1..Len(arguments) :
    Begun(k) /\ arguments[k] # Missing /\ IsNameOf(arguments[k], n)

NamesInv ==
  /\ Asked
  /\ opt.output = "names" => \A n \in DOMAIN disk : n = Stdout \/ Given(n)
  /\ main = "call" => Numbered

LEMMA NoNamesYet ==
  ASSUME NamesApart, MainInv, NamesInv, Call, opt.output = "names"
  PROVE  Outputs' = {}
<1>1. /\ arg \in 1..Len(arguments) /\ arguments \in Arguments
      /\ arguments[arg] # Missing /\ main = "next"
      /\ file' = arguments[arg] /\ disk' = disk
  BY DEF MainInv, NamesInv, Asked, Call
<1>2. SUFFICES ASSUME NEW n \in DOMAIN disk, IsNameOf(arguments[arg], n)
               PROVE  FALSE
  BY <1>1 DEF Outputs
<1>3. n # Stdout
  BY <1>2 DEF IsNameOf, Stdout
<1>4. PICK k \in 1..Len(arguments) :
        Begun(k) /\ arguments[k] # Missing /\ IsNameOf(arguments[k], n)
  BY <1>2, <1>3 DEF NamesInv, Given
<1>5. arguments[k].name = arguments[arg].name
  BY <1>2, <1>4 DEF IsNameOf
<1>6. k = arg
  BY <1>1, <1>4, <1>5 DEF NamesApart
<1>. QED
  BY <1>1, <1>4, <1>6 DEF Begun, MainInv

LEMMA MainNamesInv ==
  ASSUME NamesApart
  PROVE  /\ MainInit => NamesInv
         /\ MainInv /\ MainWhole /\ NamesInv /\ [MainNext]_allVars => NamesInv'
<1>1. MainInit => NamesInv
  BY DEF MainInit, NamesInv, Asked
<1>2. MainInv /\ MainWhole /\ NamesInv /\ [MainNext]_allVars => NamesInv'
  <2>. SUFFICES ASSUME MainInv, MainWhole, NamesInv, [MainNext]_allVars
                PROVE  NamesInv'
    OBVIOUS
  <2>0. arg \in Nat \ {0} /\ Len(arguments) \in Nat /\ arguments' = arguments
        /\ opt' = opt
    <3>1. opt' = opt
      BY MainSteps, FileStays DEF Call, vars
    <3>. QED
      BY <3>1 DEF MainInv, MainNext, CannotOpen, Call, Extracting, CallFailed,
         CallSucceeded, Aborted, AllDone, Exit, NextArgument, Exited, allVars, mainVars
  <2>1. CASE Call
    <3>1. /\ arg' = arg /\ main' = "call" /\ main = "next" /\ disk' = disk
          /\ pc' = "dir" /\ file' = arguments[arg] /\ arguments[arg] # Missing
          /\ arg \in 1..Len(arguments)
      BY <2>0, <2>1 DEF Call
    <3>2. Asked'
      BY <2>0, <3>1 DEF NamesInv, Asked
    <3>3. \A n : Given(n) => Given(n)'
      BY <2>0, <3>1 DEF Given, Begun
    <3>4. Numbered'
      BY <2>0, <2>1, <3>1, NoNamesYet DEF Numbered
    <3>. QED
      BY <2>0, <3>1, <3>2, <3>3, <3>4 DEF NamesInv
  <2>2. CASE main = "call" /\ Next /\ UNCHANGED mainVars
    <3>1. arg' = arg /\ main' = main /\ file' = file /\ main = "call"
      BY <2>2, FileStays DEF mainVars
    <3>2. Asked'
      BY <2>0, <3>1 DEF NamesInv, Asked
    <3>3. Numbered' /\ OthersStay
      BY <2>2, <3>1, NextNumbered DEF MainInv, MainWhole, WholeInv, NamesInv
    <3>4. \A n : Given(n)' <=> Given(n)
      BY <2>0, <3>1 DEF Given, Begun
    <3>5. \A n : IsNameOf(file, n) => Given(n)
      BY <3>1 DEF NamesInv, Asked, Given, Begun
    <3>. QED
      BY <2>0, <3>2, <3>3, <3>4, <3>5 DEF NamesInv, OthersStay
  <2>3. CASE UNCHANGED vars /\ ~Call
    <3>1. /\ file' = file /\ disk' = disk /\ (Numbered' <=> Numbered)
      BY <2>3 DEF vars, Numbered, Outputs
    <3>2. /\ main' = "call" => main = "call" /\ arg' = arg
          /\ \/ arg' = arg /\ (main # "next" => main' # "next")
             \/ arg' = arg + 1
      BY <2>0, <2>3
         DEF MainNext, CannotOpen, Extracting, CallFailed, CallSucceeded,
             Aborted, AllDone, Exit, NextArgument, Exited, allVars, mainVars
    <3>3. \A k \in 1..Len(arguments) : Begun(k) => Begun(k)'
      BY <2>0, <3>2 DEF Begun
    <3>4. \A n : Given(n) => Given(n)'
      BY <2>0, <3>3 DEF Given
    <3>. QED
      BY <2>0, <3>1, <3>2, <3>4 DEF NamesInv, Asked
  <2>. QED
    BY <2>1, <2>2, <2>3, MainSteps
<1>. QED
  BY <1>1, <1>2

(* What an image was written to is not written to again, by this call or a *)
(* later one, if no two files have the same base name.                     *)
THEOREM MainOutputsKept ==
  ASSUME NamesApart
  PROVE  MainSpec => OutputsKept
<1>1. MainInv /\ MainWhole /\ NamesInv /\ [MainNext]_allVars
        => [opt.output = "names" =>
              \A n \in DOMAIN disk : disk[n] # <<>> => disk'[n] = disk[n]]_disk
  <2>. SUFFICES ASSUME MainInv, MainWhole, NamesInv, [MainNext]_allVars, disk' # disk
                PROVE  OutputsStay
    BY DEF OutputsStay
  <2>1. main = "call" /\ Next
    BY MainSteps DEF Call, vars
  <2>. QED
    BY <2>1, NextNumbered DEF MainInv, MainWhole, WholeInv, NamesInv
<1>. QED
  BY MainInitInv, MainNextInv, MainWholeInv, MainNamesInv, <1>1, PTL
     DEF MainSpec, OutputsKept
-----------------------------------------------------------------------------
(* A call of which everything is promised does everything, and what it     *)
(* writes to outputs that only it names stays.                             *)
ExactInv == Promised(opt, file) => Kept
FiledInv == Promised(opt, file) => Filed

LEMMA MainExactInv ==
  /\ MainInit => ExactInv
  /\ MainInv /\ MainInv' /\ ExactInv /\ [MainNext]_allVars => ExactInv'
<1>1. MainInit => ExactInv
  BY DEF MainInit, Idle, Nofile, ExactInv, Promised, WellFormed
<1>2. MainInv /\ MainInv' /\ ExactInv /\ [MainNext]_allVars => ExactInv'
  <2>. SUFFICES ASSUME MainInv, MainInv', ExactInv, [MainNext]_allVars
                PROVE  ExactInv'
    OBVIOUS
  <2>1. CASE Call
    <3>1. pc' = "dir" /\ log' = <<>> /\ completed' = 0
      BY <2>1 DEF Call
    <3>2. Inv' /\ InSync' /\ Ordered'
      BY <3>1 DEF MainInv, InSync, Ordered, Indexed, Counted, Sorted, InHand,
                  Reading, Midway, Read
    <3>3. Exact'
      BY <3>1 DEF Exact, Told, Scanning, Entering, Holding, Leaving, Reading, Midway, Read
    <3>. QED
      BY <3>2, <3>3 DEF ExactInv, Kept
  <2>2. CASE [Next]_vars
    <3>1. Promised(opt, file)' => Promised(opt, file)
      BY <2>2, FileStays, SameInputs DEF vars
    <3>. QED
      BY <2>2, <3>1, NextKept DEF ExactInv
  <2>. QED
    BY <2>1, <2>2, MainSteps
<1>. QED
  BY <1>1, <1>2

LEMMA MainFiledInv ==
  ASSUME NamesApart
  PROVE  /\ MainInit => FiledInv
         /\ MainInv /\ NamesInv /\ ExactInv /\ FiledInv /\ [MainNext]_allVars
              => FiledInv'
<1>1. MainInit => FiledInv
  BY DEF MainInit, Idle, Nofile, FiledInv, Promised, WellFormed
<1>2. MainInv /\ NamesInv /\ ExactInv /\ FiledInv /\ [MainNext]_allVars => FiledInv'
  <2>. SUFFICES ASSUME MainInv, NamesInv, ExactInv, FiledInv, [MainNext]_allVars
                PROVE  FiledInv'
    OBVIOUS
  <2>1. CASE Call
    <3>1. pc' = "dir" /\ opt' = opt
      BY <2>1 DEF Call
    <3>2. Naming' => Extracted({})'
      BY <2>1, <3>1, NoNamesYet DEF Extracted, Naming, Named, Complete
    <3>. QED
      BY <3>1, <3>2 DEF FiledInv, Filed
  <2>2. CASE [Next]_vars
    <3>1. Promised(opt, file)' => Promised(opt, file)
      BY <2>2, FileStays, SameInputs DEF vars
    <3>. QED
      BY <2>2, <3>1, NextFiled DEF ExactInv, FiledInv
  <2>. QED
    BY <2>1, <2>2, MainSteps
<1>. QED
  BY <1>1, <1>2

(* Seen as a stream, each call takes the images one by one in the order of *)
(* the file, shows those it should, and ends only after the last: every    *)
(* step of icotool is one of ImageStream, or leaves the stream as it is.   *)
(* That each call does end is left to the run.                             *)
THEOREM MainStepsAreTheStreams ==
  MainSpec => Stream!Init /\ [][Stream!Next]_(Stream!vars)
<1>1. MainInit => Stream!Init
  BY DEF MainInit, Idle, Stream!Init, Returned
<1>2. MainInv /\ ExactInv /\ [MainNext]_allVars => [Stream!Next]_(Stream!vars)
  <2>. SUFFICES ASSUME MainInv, ExactInv, [MainNext]_allVars
                PROVE  [Stream!Next]_(Stream!vars)
    OBVIOUS
  <2>1. CASE Call
    <3>1. /\ pc = "return" /\ pc' = "dir" /\ log' = <<>> /\ opt' = opt
      BY <2>1 DEF Call, MainInv
    <3>2. Entries(log)' = <<>> /\ ShownEntries' = {}
      BY <3>1 DEF Entries, ShownEntries
    <3>. QED
      BY <3>1, <3>2 DEF Stream!Next, Stream!Open, Returned
  <2>2. CASE [Next]_vars
    BY <2>2, NextStreams DEF ExactInv
  <2>. QED
    BY <2>1, <2>2, MainSteps
<1>. QED
  BY MainInitInv, MainNextInv, MainExactInv, <1>1, <1>2, PTL DEF MainSpec

(* Of a well-formed file, extract_icons() shows the images that the        *)
(* options select and no others, each whole and alone under its own name,  *)
(* and returns their number, whatever was extracted before it.             *)
THEOREM MainExtractsExactly ==
  ASSUME NamesApart
  PROVE  MainSpec => []ExtractsExactly
<1>1. ExactInv /\ FiledInv => ExtractsExactly
  BY ReturnedIsExact DEF ExactInv, FiledInv, ExtractsExactly
<1>. QED
  BY MainInitInv, MainNextInv, MainWholeInv, MainNamesInv, MainExactInv,
     MainFiledInv, <1>1, PTL DEF MainSpec
-----------------------------------------------------------------------------
(* What was extracted of each argument before this one is still there.     *)
Delivered(k) ==
  arguments[k] # Missing /\ Promised(opt, arguments[k]) =>
    \A e \in Wanted(opt, arguments[k]) :
      /\ OutNameOf(arguments[k], e) \in DOMAIN disk
      /\ disk[OutNameOf(arguments[k], e)] = WholeImage(arguments[k], e)

SuccessInv ==
  /\ Naming => \A k \in 1..Len(arguments) : k < arg => Delivered(k)
  /\ exit = "success" =>
       /\ main = "exit"
       /\ arg > Len(arguments)
       /\ "flush" \notin opt.faults => AllWhole

LEMMA MainSuccessInv ==
  ASSUME NamesApart
  PROVE  /\ MainInit => SuccessInv
         /\ MainInv /\ MainWhole /\ NamesInv /\ FiledInv /\ SuccessInv
              /\ [MainNext]_allVars => SuccessInv'
<1>1. MainInit => SuccessInv
  <2>. SUFFICES ASSUME MainInit PROVE SuccessInv
    OBVIOUS
  <2>1. arg = 1 /\ exit = "running"
    BY DEF MainInit
  <2>. QED
    BY <2>1 DEF SuccessInv
<1>2. MainInv /\ MainWhole /\ NamesInv /\ FiledInv /\ SuccessInv
        /\ [MainNext]_allVars => SuccessInv'
  <2>. SUFFICES ASSUME MainInv, MainWhole, NamesInv, FiledInv, SuccessInv,
                       [MainNext]_allVars
                PROVE  SuccessInv'
    OBVIOUS
  <2>0. arg \in Nat \ {0} /\ Len(arguments) \in Nat /\ arguments' = arguments
        /\ opt' = opt /\ (Naming' <=> Naming)
    <3>1. opt' = opt
      BY MainSteps, FileStays DEF Call, vars
    <3>. QED
      BY <3>1 DEF Naming, MainInv, MainNext, CannotOpen, Call, Extracting, CallFailed,
         CallSucceeded, Aborted, AllDone, Exit, NextArgument, Exited, allVars, mainVars
  <2>1. ASSUME disk' = disk PROVE \A k : Delivered(k) => Delivered(k)'
    BY <2>0, <2>1 DEF Delivered
  <2>2. CASE main = "call" /\ Next /\ UNCHANGED mainVars
    <3>1. /\ arg' = arg /\ exit' = exit /\ exit # "success" /\ file' = file
          /\ arg \in 1..Len(arguments) /\ file = arguments[arg]
          /\ arguments \in Arguments /\ file # Missing
      BY <2>2, FileStays DEF mainVars, SuccessInv, NamesInv, Asked
    <3>2. OthersStay
      BY <2>2, NextNumbered DEF MainInv, MainWhole, WholeInv, NamesInv
    <3>3. ASSUME Naming, NEW k \in 1..Len(arguments), k < arg, Delivered(k),
                 arguments[k] # Missing, Promised(opt, arguments[k]),
                 NEW e \in Wanted(opt, arguments[k])
          PROVE  /\ OutNameOf(arguments[k], e) \in DOMAIN disk'
                 /\ disk'[OutNameOf(arguments[k], e)] = WholeImage(arguments[k], e)
      <4>1. /\ OutNameOf(arguments[k], e) \in DOMAIN disk
            /\ disk[OutNameOf(arguments[k], e)] = WholeImage(arguments[k], e)
        BY <3>3 DEF Delivered
      <4>2. arguments[k].name # file.name
        BY <2>0, <3>1, <3>3 DEF NamesApart
      <4>3. ~IsNameOf(file, OutNameOf(arguments[k], e))
        BY <4>2 DEF IsNameOf, OutNameOf
      <4>. QED
        BY <3>2, <3>3, <4>1, <4>3 DEF OthersStay, Naming
    <3>4. ASSUME Naming, NEW k \in 1..Len(arguments), k < arg, Delivered(k)
          PROVE  Delivered(k)'
      BY <2>0, <3>3, <3>4 DEF Delivered
    <3>. QED
      BY <2>0, <3>1, <3>4 DEF SuccessInv
  <2>3. CASE CallSucceeded
    <3>1. /\ arg' = arg + 1 /\ disk' = disk /\ exit' = exit /\ exit # "success"
          /\ arg \in 1..Len(arguments) /\ file = arguments[arg] /\ pc = "return"
      BY <2>3 DEF CallSucceeded, NextArgument, SuccessInv, NamesInv, Asked, vars
    <3>2. ASSUME Naming PROVE Delivered(arg)
      <4>. SUFFICES ASSUME Promised(opt, file), NEW e \in Wanted(opt, file)
                    PROVE  /\ OutNameOf(file, e) \in DOMAIN disk
                           /\ disk[OutNameOf(file, e)] = WholeImage(file, e)
        BY <3>1 DEF Delivered
      <4>1. Outputs = {NameOf(d) : d \in Wanted(opt, file)} /\ Complete(Wanted(opt, file))
        BY <3>1, <3>2 DEF FiledInv, Filed, Extracted, Named
      <4>2. NameOf(e) = OutNameOf(file, e)
        BY <3>2 DEF NameOf, OutName, OutNameOf, Naming
      <4>. QED
        BY <4>1, <4>2 DEF Complete, Outputs
    <3>3. \A k \in 1..Len(arguments) : k < arg' => k < arg \/ k = arg
      BY <2>0, <3>1
    <3>. QED
      BY <2>0, <2>1, <3>1, <3>2, <3>3 DEF SuccessInv
  <2>4. CASE CannotOpen
    <3>1. /\ arg' = arg + 1 /\ disk' = disk /\ exit' = exit /\ exit # "success"
          /\ arguments[arg] = Missing
      BY <2>4 DEF CannotOpen, SuccessInv, vars
    <3>2. Delivered(arg)
      BY <3>1 DEF Delivered
    <3>3. \A k \in 1..Len(arguments) : k < arg' => k < arg \/ k = arg
      BY <2>0, <3>1
    <3>. QED
      BY <2>0, <2>1, <3>1, <3>2, <3>3 DEF SuccessInv
  <2>5. CASE AllDone
    <3>1. /\ arg' = arg /\ arg > Len(arguments) /\ main' = "exit" /\ disk' = disk
          /\ "flush" \notin opt.faults => AllWhole
      BY <2>5 DEF AllDone, Exit, vars, MainWhole
    <3>. QED
      BY <2>0, <2>1, <3>1 DEF SuccessInv, AllWhole
  <2>6. CASE Call \/ CallFailed \/ Aborted \/ UNCHANGED allVars
    <3>1. /\ arg' = arg /\ disk' = disk
          /\ exit' # "success" \/ (exit' = exit /\ main' = main)
      BY <2>6
         DEF Call, CallFailed, Aborted, Exit, allVars, mainVars, vars,
             SuccessInv
    <3>. QED
      BY <2>0, <2>1, <3>1 DEF SuccessInv, AllWhole
  <2>. QED
    BY <2>2, <2>3, <2>4, <2>5, <2>6 DEF MainNext, Extracting, Exited
<1>. QED
  BY <1>1, <1>2

(* If icotool --extract exits with success, the images that the options    *)
(* select of each well-formed file named are on disk, each whole; and, as  *)
(* long as fclose() does not fail, nothing else is there half done.        *)
THEOREM SuccessIsComplete ==
  ASSUME NamesApart
  PROVE  MainSpec => []SuccessMeansExtracted
<1>1. MainInv /\ SuccessInv => SuccessMeansExtracted
  <2>. SUFFICES ASSUME MainInv, SuccessInv, exit = "success", Naming
                PROVE  /\ \A k \in 1..Len(arguments) : Delivered(k)
                       /\ "flush" \notin opt.faults => AllWhole
    BY DEF Naming, Delivered, AllWhole, SuccessMeansExtracted
  <2>1. arg > Len(arguments) /\ arg \in Nat /\ Len(arguments) \in Nat
    BY DEF MainInv, SuccessInv
  <2>2. \A k \in 1..Len(arguments) : k < arg
    BY <2>1
  <2>. QED
    BY <2>2 DEF SuccessInv
<1>. QED
  BY MainInitInv, MainNextInv, MainWholeInv, MainNamesInv, MainExactInv,
     MainFiledInv, MainSuccessInv, <1>1, PTL DEF MainSpec
=============================================================================

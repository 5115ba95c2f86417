------------------------------ MODULE MCIcoCreate ------------------------------
(* Instances of IcoCreate for TLC.                                         *)
EXTENDS IcoCreateClaims, TLC

Plain == [fault |-> "none", raw |-> FALSE, width |-> 3, height |-> 5,
          colors |-> 2, alphas |-> {}, length |-> 90]
Large == [Plain EXCEPT !.width = 33, !.height = 11]
Raw == [Plain EXCEPT !.raw = TRUE]

(* Around every number of colours and kind of transparency that decides.   *)
Samples ==
  {[Large EXCEPT !.colors = n] : n \in {1, 2, 3, 4, 5, 16, 17, 256, 257, 363}}
  \cup {[Plain EXCEPT !.alphas = a] :
          a \in {{0}, {255}, {128}, {0, 255}, {0, 128}, {128, 255}, {0, 128, 255}}}
  \cup {[Plain EXCEPT !.width = 256, !.height = 1], Raw}

Defaults == [type |-> "icon", bit_count |-> Unset, hotspot_x |-> 0,
             hotspot_y |-> 0, output |-> "file", disk |-> "roomy"]

Depths == {Unset, 1, 2, 4, 8, 24, 32}
EveryDepth == {[Defaults EXCEPT !.bit_count = b] : b \in Depths}
                \cup {[Defaults EXCEPT !.type = "cursor"]}

(* Rows that end within a byte, or short of four.                          *)
Narrow == {[Plain EXCEPT !.width = w, !.height = 2] : w \in {1, 2, 4, 7, 8, 9}}

Singles == {<<i>> : i \in Samples \cup Narrow}
Pairs == {<<i, j>> : i \in Samples \ {Raw}, j \in Samples}
Sound == Singles \cup Pairs \cup {<<Plain, Raw, Raw>>, <<Plain, Large, Raw>>}

(* An input that cannot be read, anywhere among others; a full disk.       *)
Faulty == {[i EXCEPT !.fault = f] : i \in {Plain, Raw}, f \in InputFaults}
Mixed == {<<i>> : i \in Faulty}
         \cup {<<i, j>> : i \in {x \in Faulty : ~x.raw}, j \in Faulty}
         \cup {<<Large, i, j>> : i \in {x \in Faulty : ~x.raw}, j \in Faulty}
         \cup {<<i, j>> : i, j \in {x \in Faulty : x.raw}}
Outputs == {[Defaults EXCEPT !.output = o, !.disk = d] :
              o \in {"file", "stdout", "terminal"}, d \in {"roomy", "fills"}}

SoundOrMixed == Sound \cup Mixed
EveryDepthAndOutput == EveryDepth \cup Outputs

(* For the claims.                                                         *)
Depth16 == {[Defaults EXCEPT !.bit_count = 16]}
Depth24 == {[Defaults EXCEPT !.bit_count = 24]}
=============================================================================

------------------------------- MODULE MCSecond -------------------------------
(***************************************************************************)
(* The two secondary compressors, side by side: a run is about one or the  *)
(* other.  FGK has four symbols, DJW seven, tables with codes of four bits *)
(* at most, so that codes overflow, and sectors of 2, 4, 6 or 8 symbols.   *)
(***************************************************************************)
EXTENDS XD3Fgk, XD3Djw

\* Weights like the Fibonacci numbers make the deepest tree; letter 6 is absent.
Skewed == <<0, 1, 2, 2, 3, 3, 3, 4, 4, 4, 4, 4, 5, 5, 5, 5, 5, 5, 5, 5>>
Uneven == <<0, 3, 0, 3, 3, 0, 6, 6, 6, 5, 6, 5, 6, 6, 6, 6, 2, 2, 2, 2, 2, 2, 2, 2>>
Long   == {Skewed, Uneven, Skewed \o Skewed, Skewed \o Uneven, Uneven \o Uneven \o Uneven}
Short  == UNION {[1 .. n -> {0, 1, 6}] : n \in 3 .. 4}

MCJobs ==
  [input : Short, data_type : {"data"}, ngroups : {0, 1, 3}, sector_size : {0, 2},
   inefficient : BOOLEAN]
  \cup [input : Long, data_type : {"data", "inst"}, ngroups : 0 .. 5,
        sector_size : {0, 2, 3, 4}, inefficient : BOOLEAN]
SkewedJobs ==
  [input : {Skewed}, data_type : {"data"}, ngroups : 0 .. 4, sector_size : {0, 2},
   inefficient : BOOLEAN]

MCSuggested == [data |-> <<<<4, 1, 0>>, <<30, 2, 2>>, <<0, 4, 8>>>>,
                inst |-> <<<<30, 1, 0>>, <<0, 2, 4>>>>]
MCSectorDefault == [data |-> 4, inst |-> 6]
MCBasic == <<2>>
MCExtra == <<3, 1, 4>>

MCInit == (FgkInit /\ DjwIdle) \/ (DjwInit /\ FgkIdle)
MCNext ==
  \/ \E n \in Sym : EncodeByte(n) /\ UNCHANGED djwVars
  \/ \E i \in BOOLEAN : Encoded(i) /\ UNCHANGED djwVars
  \/ DecodeBit /\ UNCHANGED djwVars
  \/ Decoded /\ UNCHANGED djwVars
  \/ \E b \in {0, 1} : GarbageBit(b) /\ UNCHANGED djwVars
  \/ HowMany /\ UNCHANGED fgkVars
  \/ SingleGroup /\ UNCHANGED fgkVars
  \/ DivideGroups /\ UNCHANGED fgkVars
  \/ Iterate /\ UNCHANGED fgkVars
  \/ EmitGroups /\ UNCHANGED fgkVars
  \/ Decode /\ UNCHANGED fgkVars
MCSpec == MCInit /\ [][MCNext]_<<fgkVars, djwVars>>
=============================================================================

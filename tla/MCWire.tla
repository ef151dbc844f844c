-------------------------------- MODULE MCWire --------------------------------
(***************************************************************************)
(* An instance of XD3Wire.  Its two parts share no state, so that it is    *)
(* enough to let either go while the other rests.  The code table has its  *)
(* real size, with every copy mode and the sizes on both sides of each of  *)
(* its limits; the caches are small.                                       *)
(***************************************************************************)
EXTENDS XD3Wire

MCArrivals ==
  LET C == INSTANCE XD3CodeTable IN
  [type : {C!ADD}, size : {1, 2, 4, 5, 17, 18}] \cup [type : {C!RUN}, size : {8}]
    \cup [type : {C!CPY + m : m \in 0 .. C!CopyModes - 1}, size : {3, 4, 6, 7, 18, 19}]

codesVars == <<table, iout, inst_sect, given, done>>

WireInit == Init /\ Codes!Init
WireNext ==
  \/ given = <<>> /\ ~ done /\ Next /\ UNCHANGED codesVars
  \/ here = 0 /\ Codes!Next /\ UNCHANGED vars
WireSpec == WireInit /\ [][WireNext]_<<vars, codesVars>>
===============================================================================

--------------------------------- MODULE MCMain -------------------------------
(***************************************************************************)
(* Instances of XD3Main for TLC: every command, with inputs that end       *)
(* before, at and after the ends of the first block and of a window,       *)
(* sources and inputs compressed or not, and outputs that are recompressed *)
(* or not made.  Files and pipes are small, so that all of them block.     *)
(***************************************************************************)
EXTENDS XD3Main

Sizes(a, b) == [f \in {"src", "inp"} |-> IF f = "inp" THEN a ELSE b]
MCJobs ==
  {j \in [cmd : {"encode", "decode", "printhdr"}, size : {Sizes(a, b) : a \in {0, 1, 3, 4, 5}, b \in {0, 3}},
          packed : [{"src", "inp"} -> BOOLEAN], source : BOOLEAN, says : BOOLEAN,
          recomp : BOOLEAN, noout : BOOLEAN] :
     /\ j.cmd # "decode" => ~ j.recomp /\ ~ j.says
     /\ j.source <=> j.size["src"] # 0
     /\ ~ j.source => ~ j.says /\ ~ j.packed["src"]
     /\ j.noout => ~ j.recomp /\ ~ j.packed["inp"]
     /\ j.size["inp"] \in {0, 4} => ~ j.packed["inp"]
     \* No more children than ext_subprocs has room for.
     /\ ~ (j.packed["src"] /\ j.packed["inp"] /\ j.recomp)
     /\ ~ (j.says /\ j.packed["inp"] /\ j.recomp)}
=============================================================================

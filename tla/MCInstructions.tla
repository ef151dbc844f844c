---------------------------- MODULE MCInstructions ----------------------------
(***************************************************************************)
(* Two things that are made of instructions: bytes, by the encoder         *)
(* (MCWire), and other instructions, by the merge command (MCMerge).  They *)
(* share no state; a behaviour is about one of them.                       *)
(***************************************************************************)
EXTENDS MCWire, MCMerge

MergeRests ==
  /\ job = [source |-> <<>>, deltas |-> <<>>] /\ pc = "rests" /\ k = 0 /\ w = 0
  /\ stream = Empty /\ merge_input = Empty /\ tmp_stream = Empty
  /\ input_i = 0 /\ inst_pos = 0 /\ output_pos = 0 /\ window_num = 0 /\ main_bdata = <<>>
  /\ win = NoWindow /\ written = <<>> /\ result = "none"

InstructionsInit ==
  \/ WireInit /\ MergeRests
  \/ MergeInit /\ WireInit /\ here = 0
InstructionsNext ==
  \/ pc = "rests" /\ WireNext /\ UNCHANGED mergeVars
  \/ MergeNext /\ UNCHANGED <<vars, codesVars>>
InstructionsSpec ==
  InstructionsInit /\ [][InstructionsNext]_<<vars, codesVars, mergeVars>>
===============================================================================

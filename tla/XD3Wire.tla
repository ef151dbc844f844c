-------------------------------- MODULE XD3Wire --------------------------------
(***************************************************************************)
(* The two things that xd3_iopt_finish_encoding writes of an instruction   *)
(* besides its data: an address (XD3Addresses) and an opcode               *)
(* (XD3InstCode).  They share no state.                                    *)
(***************************************************************************)
EXTENDS XD3Addresses

CONSTANTS Arrivals, MaxGiven
VARIABLES table, iout, inst_sect, given, done

\* An ADD, a RUN or a copy of any of the nine modes, never empty: what
\* xd3_iopt_add and xd3_iopt_add_encoding hand to xd3_iopt_finish_encoding.
Kinds == [type : 1 .. 11, size : Nat \ {0}]

ASSUME WireAssumption == Arrivals \subseteq Kinds

Codes == INSTANCE XD3InstCode

\* What a decoder reads with the code table is what the encoder meant, in
\* order and each instruction once (XD3InstCode).
DecodesAsMeant == Codes!DecodesAsMeant

\* No size is written where the table has an opcode with it, and no two
\* instructions take two opcodes where it has one for both (XD3InstCode).
NoMissedOpcode == Codes!NoMissedOpcode
================================================================================

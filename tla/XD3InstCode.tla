----------------------------- MODULE XD3InstCode -----------------------------
(***************************************************************************)
(* How the encoder writes the instructions of a window: the second half of *)
(* xd3_iopt_finish_encoding, with xd3_emit_single and xd3_emit_double.     *)
(* An instruction is not written when it arrives but kept in iout, because *)
(* the next one may fit the same opcode.                                   *)
(***************************************************************************)
EXTENDS XD3CodeTable

CONSTANTS
  Arrivals,    \* the instructions considered: records [type, size]
  MaxGiven     \* bound: how many arrive

VARIABLES
  table,       \* stream->code_table, computed once
  iout,        \* the instruction kept back, or NoInst
  inst_sect,   \* what is in the INST section: opcodes, with a size or without
  given,       \* the instructions that have arrived
  done         \* xd3_iopt_add_finalize has ended the window

vars == <<table, iout, inst_sect, given, done>>

Init ==
  /\ table = CodeTableSeq
  /\ iout = NoInst /\ inst_sect = <<>> /\ given = <<>> /\ done = FALSE

\* A size follows the opcode when the table has none; -1 stands for no size.
EmitSingle(i) == <<[code |-> i.code1,
                    size |-> IF table[i.code1 + 1].size1 = 0 THEN i.size ELSE -1]>>
EmitDouble(code) == <<[code |-> code, size |-> -1]>>

\* xd3_iopt_finish_encoding for inst, whose mode is known: choose, write iout
\* alone or together with inst, or keep inst back.
FinishEncoding(a) ==
  /\ ~ done /\ Len(given) < MaxGiven
  /\ given' = Append(given, a)
  /\ LET inst == [type |-> a.type, size |-> a.size,
                  code1 |-> SingleCode(a), code2 |-> NoCode]
         pair == PairCode(iout, inst)
     IN  IF iout = NoInst
         THEN iout' = inst /\ UNCHANGED inst_sect
         ELSE IF pair # NoCode
         THEN iout' = NoInst /\ inst_sect' = inst_sect \o EmitDouble(pair)
         ELSE iout' = inst /\ inst_sect' = inst_sect \o EmitSingle(iout)
  /\ UNCHANGED <<table, done>>

\* xd3_iopt_add_finalize, after its own ADD: nothing stays behind.
AddFinalize ==
  /\ ~ done
  /\ done' = TRUE
  /\ iout' = NoInst
  /\ inst_sect' = IF iout = NoInst THEN inst_sect ELSE inst_sect \o EmitSingle(iout)
  /\ UNCHANGED <<table, given>>

Next == (\E a \in Arrivals : FinishEncoding(a)) \/ AddFinalize

Spec == Init /\ [][Next]_vars

-----------------------------------------------------------------------------
\* The half-instructions that a decoder reads in the section, by the table.
Halves(e) ==
  LET c == table[e.code + 1]
      first == <<[type |-> c.type1, size |-> IF c.size1 = 0 THEN e.size ELSE c.size1]>>
  IN  IF c.type2 = NOOP THEN first
      ELSE first \o <<[type |-> c.type2, size |-> c.size2]>>
Pending == IF iout = NoInst THEN <<>> ELSE <<[type |-> iout.type, size |-> iout.size]>>

\* The table has 256 entries, and what a decoder reads with it is what the
\* encoder meant, in order, each instruction once: the arithmetic of
\* xd3_choose_instruction and the loops of xd3_build_code_table agree on every
\* opcode, and no instruction is lost or written twice around iout.
DecodesAsMeant ==
  /\ Len(table) = 256
  /\ FlattenSeq([k \in 1 .. Len(inst_sect) |-> Halves(inst_sect[k])]) \o Pending
       = given

\* A size is written only for an instruction that has no opcode of its own
\* size, and two instructions of which the table has the pair are never
\* written by two opcodes, unless the first already went out with the one
\* before it.
Opcodes == {table[k] : k \in 1 .. 256}
NoMissedOpcode ==
  \A k \in 1 .. Len(inst_sect) :
    LET h == Halves(inst_sect[k])
        next == Halves(inst_sect[k + 1])
    IN  /\ inst_sect[k].size # -1 => Single(h[1].type, h[1].size) \notin Opcodes
        /\ (k < Len(inst_sect) /\ Len(h) = 1) =>
             Double(h[1].type, h[1].size, next[1].type, next[1].size) \notin Opcodes
=============================================================================

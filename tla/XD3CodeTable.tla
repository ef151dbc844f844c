---------------------------- MODULE XD3CodeTable ----------------------------
(***************************************************************************)
(* The RFC 3284 code table, as xd3_build_code_table computes it from its   *)
(* description, and xd3_choose_instruction, which finds the opcode of an   *)
(* instruction with arithmetic of its own and never looks at the table.    *)
(* The numbers are those of the code: nothing is scaled down.              *)
(***************************************************************************)
EXTENDS Integers, SequencesExt

NOOP == 0
ADD  == 1
RUN  == 2
CPY  == 3        \* a copy of mode m is CPY + m
MIN_MATCH == 4
NoCode    == 0   \* code2 before a pair is found

\* __rfc3284_code_table_desc
Desc == [add_sizes |-> 17, near_modes |-> 4, same_modes |-> 3, cpy_sizes |-> 15,
         addcopy_add_max |-> 4, addcopy_near_cpy_max |-> 6,
         addcopy_same_cpy_max |-> 4,
         copyadd_add_max |-> 1, copyadd_near_cpy_max |-> 4,
         copyadd_same_cpy_max |-> 4]

CopyModes == 2 + Desc.near_modes + Desc.same_modes
Single(t, s) == [type1 |-> t, size1 |-> s, type2 |-> NOOP, size2 |-> 0]
Double(t, s, u, v) == [type1 |-> t, size1 |-> s, type2 |-> u, size2 |-> v]

\* The entries that Entries(m) gives for the modes 0, 1, ... in their order.
ForModes(Entries(_)) == FlattenSeq([m \in 1 .. CopyModes |-> Entries(m - 1)])
CopyMax(mode, near, same) == IF mode < 2 + Desc.near_modes THEN near ELSE same

CopyEntries(mode) ==
  [k \in 1 .. 1 + Desc.cpy_sizes |->
     Single(CPY + mode, IF k = 1 THEN 0 ELSE MIN_MATCH + k - 2)]
AddCopyEntries(mode) ==
  LET max == CopyMax(mode, Desc.addcopy_near_cpy_max, Desc.addcopy_same_cpy_max)
  IN  FlattenSeq([add \in 1 .. Desc.addcopy_add_max |->
        [k \in 1 .. max - MIN_MATCH + 1 |->
           Double(ADD, add, CPY + mode, MIN_MATCH + k - 1)]])
CopyAddEntries(mode) ==
  LET max == CopyMax(mode, Desc.copyadd_near_cpy_max, Desc.copyadd_same_cpy_max)
  IN  FlattenSeq([k \in 1 .. max - MIN_MATCH + 1 |->
        [add \in 1 .. Desc.copyadd_add_max |->
           Double(CPY + mode, MIN_MATCH + k - 1, ADD, add)]])

\* xd3_build_code_table
CodeTableSeq ==
  <<Single(RUN, 0), Single(ADD, 0)>>
    \o [s \in 1 .. Desc.add_sizes |-> Single(ADD, s)]
    \o ForModes(CopyEntries) \o ForModes(AddCopyEntries) \o ForModes(CopyAddEntries)

-----------------------------------------------------------------------------
(* xd3_choose_instruction(prev, inst): the opcode of inst alone, and the   *)
(* opcode of the pair, which it stores in prev.  An instruction is a       *)
(* [type, size, code1, code2]; prev may be the null pointer, NoInst.       *)

NoInst == [type |-> NOOP, size |-> 0, code1 |-> 0, code2 |-> NoCode]

SingleCodeShort(i) ==
  CASE i.type = RUN -> 0
    [] i.type = ADD -> IF i.size <= 17 THEN 1 + i.size ELSE 1
    [] OTHER -> 19 + 16 * (i.type - CPY)
                   + (IF i.size \in 4 .. 17 THEN i.size - 3 ELSE 0)
SingleCode(i) ==
  CASE i.type = RUN -> 0
    [] i.type = ADD -> IF i.size <= 17 THEN 1 + i.size ELSE 1
    [] OTHER -> 19 + 16 * (i.type - CPY)
                   + (IF i.size \in 4 .. 18 THEN i.size - 3 ELSE 0)

\* The pairs: COPY 4 with ADD 1; ADD up to 4 with COPY 4 to 6, for the modes up
\* to NEAR; ADD up to 4 with COPY 4, for the SAME modes.
PairCodeSame(p, i) ==
  LET mode == i.type - CPY
  IN  IF i.type = ADD
      THEN IF i.size = 1 /\ p.size = 4 /\ p.type >= CPY
           THEN 247 + p.type - CPY ELSE p.code2
      ELSE IF i.type = RUN \/ p.type # ADD \/ p.size > 4 THEN p.code2
      ELSE IF i.size \in 4 .. 6 THEN 163 + mode * 12 + 3 * (p.size - 1) + i.size - 4
      ELSE p.code2
PairCode(p, i) ==
  LET mode == i.type - CPY
  IN  IF i.type = ADD
      THEN IF i.size = 1 /\ p.size = 4 /\ p.type >= CPY
           THEN 247 + p.type - CPY ELSE p.code2
      ELSE IF i.type = RUN \/ p.type # ADD \/ p.size > 4 THEN p.code2
      ELSE IF i.size \in 4 .. 6 /\ mode <= 5
      THEN 163 + mode * 12 + 3 * (p.size - 1) + i.size - 4
      ELSE IF i.size = 4 /\ mode >= 6 THEN 235 + (mode - 6) * 4 + p.size - 1
      ELSE p.code2
=============================================================================

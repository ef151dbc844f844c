-------------------------- MODULE XD3DecodeProofs --------------------------
(***************************************************************************)
(* Theorems about XD3Decode, for every delta file, every way of cutting it *)
(* into buffers, every source and every size of the integers.              *)
(*                                                                         *)
(* TypeOK, InputConserved, SectionsLive, OutputBounded and CopyInside are  *)
(* not inductive.  The strengthening is IInv: it says what each case of    *)
(* the switch may rely on, which the code leaves implicit.                 *)
(***************************************************************************)
EXTENDS XD3Decode, XD3DataProofs

-----------------------------------------------------------------------------
(* The inductive invariant.                                                *)

Live == ret \notin Errors

\* Which cases of the switch a call can have returned from.
Returned ==
  /\ ret \in {"emit", "XD3_GETSRCBLK"} => dec_state = "DEC_EMIT"
  /\ ret = "XD3_OUTPUT" => dec_state = "DEC_FINISH"
  /\ dec_state = "DEC_EMIT" => ret \in {"run", "emit", "XD3_GETSRCBLK"} \cup Errors
  /\ dec_state = "DEC_FINISH" => ret \in {"run", "XD3_OUTPUT"}
  /\ dec_state = "DEC_ABORTED" => ret \in {"aborted", "closed"}
  /\ ret = "aborted" => dec_state = "DEC_ABORTED"
  /\ dec_state = "DEC_EMIT" => ~ Skipping
  /\ ret = "new" => avail_in = 0 /\ dec_state = "DEC_VCHEAD"

\* The section being read, and those that are complete.
Current == IF dec_state = "DEC_DATA" THEN "data"
           ELSE IF dec_state = "DEC_INST" THEN "inst" ELSE "addr"
Done(s) == \/ dec_state = "DEC_EMIT"
           \/ dec_state = "DEC_INST" /\ s = "data"
           \/ dec_state = "DEC_ADDR" /\ s # "addr"

\* dec_winbytes counts what has been taken of the three sections: the complete
\* ones and pos of the current one.
SizeBefore == (IF Done("data") THEN sect["data"].size ELSE 0)
            + (IF Done("inst") THEN sect["inst"].size ELSE 0)
Position ==
  /\ dec_state \in SectStates =>
       /\ \A s \in SectNames : s # Current => sect[s].pos = 0
       /\ sect[Current].pos <= sect[Current].size
       /\ dec_winbytes = SizeBefore + sect[Current].pos
       /\ ret = "XD3_INPUT" => sect[Current].pos < sect[Current].size
  /\ dec_state \notin SectStates => \A s \in SectNames : sect[s].pos = 0
Progress ==
  Live =>
    /\ dec_state \in SectStates => dec_winbytes <= Need
    /\ dec_state \notin SectStates \cup {"DEC_EMIT"} => dec_winbytes = 0
    /\ ~ Skipping => Position

\* What a complete section points to is there; a section that is not complete
\* is being copied.
Held(s) ==
  /\ Done(s) =>
       /\ sect[s].buf <= sect[s].size
       /\ (sect[s].zerocopy /\ sect[s].size > 0) =>
            fed - buflen <= sect[s].at /\ sect[s].at + sect[s].size <= next_in
       /\ ~ sect[s].zerocopy => sect[s].size <= Len(sect[s].copied1)
  /\ (~ Done(s) /\ sect[s].pos > 0) =>
       ~ sect[s].zerocopy /\ sect[s].pos <= Len(sect[s].copied1)

\* Where one section was left in the buffer, the rest of the sections is in
\* the buffer too: no more input will be asked for before they are used.
Ahead(s) ==
  (Done(s) /\ dec_state # "DEC_EMIT" /\ sect[s].zerocopy /\ sect[s].size > 0) =>
    avail_in >= Need - dec_winbytes

SectInv == (Live /\ ~ Skipping) => \A s \in SectNames : Held(s) /\ Ahead(s)

\* Between two windows there is no output and no instruction, and HERE is
\* where the copy window ends.
Quiet ==
  /\ dec_state \notin {"DEC_EMIT", "DEC_FINISH", "DEC_ABORTED"} => out = <<>>
  /\ (dec_state = "DEC_FINISH" /\ ret = "run") => out = <<>>
  /\ dec_state # "DEC_EMIT" => cur[1].type = XD3_NOOP /\ cur[2].type = XD3_NOOP
  /\ dec_state \in {"DEC_CPYOFF", "DEC_ENCLEN", "DEC_TGTLEN", "DEC_DELIND",
                    "DEC_DATALEN", "DEC_INSTLEN", "DEC_ADDRLEN", "DEC_CKSUM"}
                     \cup SectStates => dec_position = win.cpylen

\* What the two halves of the current opcode have still to write.
Size(k) == IF cur[k].type = XD3_NOOP THEN 0 ELSE cur[k].size

\* A copy starts below what will have been written when its turn comes.
EmitInv ==
  (dec_state = "DEC_EMIT" /\ Live) =>
    /\ dec_position <= win.cpylen + Len(out) + Size(1) + Size(2)
    /\ cur[1].type >= XD3_CPY => cur[1].addr < win.cpylen + Len(out)
    /\ cur[2].type >= XD3_CPY => cur[2].addr < win.cpylen + Len(out) + Size(1)
    /\ \A k \in 1 .. 2 :
         (cur[k].type >= XD3_CPY /\ cur[k].addr < win.cpylen) =>
            UAdd(cur[k].addr, cur[k].size) <= win.cpylen

OutInv ==
  /\ OutputBounded
  /\ space_out <= HardMaxWin + AllocSize
  /\ Live => win.tgtlen <= HardMaxWin

SrcInv == src.onblk = BlockLen(src.curblkno)

IInv == /\ TypeOK /\ InputConserved /\ Returned /\ Progress /\ SectInv
        /\ Quiet /\ EmitInv /\ OutInv /\ SrcInv

-----------------------------------------------------------------------------
(* Input.                                                                  *)

\* What is left in the buffer is the next part of the file.
LEMMA InputFacts ==
  ASSUME IInv
  PROVE  /\ next_in = total_in /\ total_in \in Nat /\ avail_in \in Nat
         /\ next_in + avail_in <= Len(file)
         /\ Len(file) \in Nat /\ file \in Seq(Byte)
         /\ avail_in > 0 => NextByte \in Byte
         /\ \A n \in 0 .. avail_in : NextBytes(n) \in Seq(Byte)
<1>1. /\ total_in \in Nat /\ avail_in \in Nat /\ fed \in 0 .. Len(file)
      /\ total_in + avail_in = fed /\ file \in Deltas
  BY DEF IInv, TypeOK, InputConserved
<1>2. file \in Seq(Byte)
  <2>1. Deltas \subseteq Seq(Byte)
    BY DecodeAssumption
  <2>. QED BY <1>1, <2>1
<1>3. next_in = total_in /\ Len(file) \in Nat
  BY <1>1, <1>2 DEF next_in
<1>4. avail_in > 0 => NextByte \in Byte
  BY <1>1, <1>2, <1>3 DEF NextByte
<1>5. ASSUME NEW n \in 0 .. avail_in
      PROVE  NextBytes(n) \in Seq(Byte)
  BY <1>1, <1>2, <1>3, <1>5 DEF NextBytes
<1>. QED BY <1>1, <1>2, <1>3, <1>4, <1>5

\* Taking n bytes that the buffer has.
LEMMA Consume ==
  ASSUME IInv, NEW n \in 0 .. avail_in, DECODE_INPUT(n),
         UNCHANGED <<file, fed, buflen>>,
         ret' = "XD3_INPUT" => n = avail_in
  PROVE  InputConserved' /\ avail_in' \in Nat /\ total_in' \in Nat
<1>1. /\ total_in \in Nat /\ avail_in \in Nat /\ buflen \in Nat
      /\ total_in + avail_in = fed /\ avail_in <= buflen
  BY DEF IInv, TypeOK, InputConserved
<1>2. avail_in' = avail_in - n /\ total_in' = total_in + n
  BY DEF DECODE_INPUT
<1>. QED BY <1>1, <1>2 DEF InputConserved

LEMMA ConsumeNone ==
  ASSUME IInv, UNCHANGED <<file, fed, buflen, avail_in, total_in>>,
         ret' = "XD3_INPUT" => avail_in = 0
  PROVE  InputConserved' /\ avail_in' \in Nat /\ total_in' \in Nat
BY DEF IInv, TypeOK, InputConserved

\* The accumulators never hold more than a number of their width.
LEMMA IntByteFacts ==
  ASSUME IInv, IntByte, ~ PartFull(part[Part], PartMod)
  PROVE  /\ avail_in >= 1 /\ IntValue \in 0 .. PartMod - 1 /\ IntValue \in Usize
         /\ [part EXCEPT ![Part] = IntValue] \in [IntParts -> Usize]
         /\ [part EXCEPT ![Part] = 0] \in [IntParts -> Usize]
<1>1. avail_in >= 1 /\ NextByte \in Byte
  BY InputFacts DEF IntByte
<1>2. Part \in IntParts /\ part \in [IntParts -> Usize]
  BY DEF Part, IntParts, IInv, TypeOK
<1>3. PartMod \in Nat /\ PartMod % Radix = 0 /\ PartMod <= UsizeMod
  BY IntAssumption DEF PartMod
<1>4. part[Part] \in Nat
  BY <1>2, IntAssumption DEF Usize
<1>5. IntValue \in 0 .. PartMod - 1
  BY <1>1, <1>3, <1>4, ShiftType DEF IntValue
<1>6. IntValue \in Usize /\ 0 \in Usize
  BY <1>3, <1>5, IntAssumption DEF Usize
<1>. QED BY <1>1, <1>2, <1>5, <1>6

LEMMA IntEndFacts ==
  ASSUME IInv, IntEnd
  PROVE  /\ IntValue \in 0 .. PartMod - 1 /\ IntValue \in Usize
         /\ part' \in [IntParts -> Usize]
         /\ 1 \in 0 .. avail_in /\ DECODE_INPUT(1)
<1>1. IntByte /\ ~ PartFull(part[Part], PartMod)
  BY DEF IntEnd
<1>2. avail_in \in Nat
  BY InputFacts
<1>. QED BY <1>1, <1>2, IntByteFacts DEF IntEnd

-----------------------------------------------------------------------------
(* The cases that read the headers.                                        *)

Early == {"DEC_VCHEAD", "DEC_HDRIND", "DEC_SECONDID", "DEC_TABLEN", "DEC_NEAR",
          "DEC_SAME", "DEC_TABDAT", "DEC_APPLEN", "DEC_APPDAT", "DEC_WININD",
          "DEC_CPYLEN", "DEC_CPYOFF", "DEC_ENCLEN", "DEC_TGTLEN", "DEC_DELIND",
          "DEC_DATALEN", "DEC_INSTLEN", "DEC_ADDRLEN", "DEC_CKSUM"}

AtHere == {"DEC_CPYOFF", "DEC_ENCLEN", "DEC_TGTLEN", "DEC_DELIND",
           "DEC_DATALEN", "DEC_INSTLEN", "DEC_ADDRLEN", "DEC_CKSUM", "DEC_DATA"}

\* Before the first section no step of the headers touches what the sections
\* and the instructions rely on.
LEMMA EarlyStep ==
  ASSUME IInv, TypeOK', InputConserved',
         ret = "run", dec_state \in Early,
         dec_state' \in Early \cup {"DEC_DATA"},
         ret' \in {"run", "XD3_INPUT", "XD3_GOTHEADER", "XD3_WINSTART"} \cup Errors,
         dec_state' = "DEC_DATA" => ret' # "XD3_INPUT",
         UNCHANGED <<fixedVars, cur, out, space_out, src, dec_winbytes>>,
         \A s \in SectNames : sect'[s].pos = sect[s].pos,
         dec_state' \in AtHere => dec_position' = win'.cpylen,
         win'.tgtlen <= HardMaxWin \/ ret' \in Errors
  PROVE  IInv'
<1>. USE DEF Early, AtHere, fixedVars
<1>1. Returned'
  BY DEF Returned, Errors
<1>2. Progress'
  <2>. SUFFICES ASSUME Live' PROVE Progress'
    BY DEF Progress
  <2>1. dec_winbytes' = 0 /\ (~ Skipping' => \A s \in SectNames : sect'[s].pos = 0)
    BY DEF IInv, Progress, Position, Live, Skipping, Errors, SectStates
  <2>2. \A s \in SectNames : sect'[s].size \in Nat
    <3>1. sect' \in [SectNames -> SectType]
      BY DEF TypeOK
    <3>. QED BY <3>1, IntAssumption DEF SectType, Usize
  <2>3. Need' \in Nat /\ sect'["data"].size \in Nat
    BY <2>2 DEF Need, SectNames
  <2>4. CASE dec_state' = "DEC_DATA"
    <3>1. Current' = "data" /\ SizeBefore' = 0
      BY <2>4 DEF Current, SizeBefore, Done
    <3>2. ~ Skipping' => sect'["data"].pos = 0
      BY <2>1 DEF SectNames
    <3>3. ~ Skipping' => Position'
      BY <2>1, <2>3, <2>4, <3>1, <3>2 DEF Position, SectStates
    <3>. QED BY <2>1, <2>3, <2>4, <3>3 DEF Progress, SectStates
  <2>5. CASE dec_state' # "DEC_DATA"
    BY <2>1, <2>5 DEF Progress, Position, SectStates
  <2>. QED BY <2>4, <2>5
<1>3. SectInv'
  <2>1. \A s \in SectNames : ~ Done(s)' 
    BY DEF Done
  <2>2. (Live /\ ~ Skipping)' => \A s \in SectNames : sect'[s].pos = 0
    BY DEF IInv, Progress, Position, Skipping, Live, Errors, SectStates
  <2>. QED BY <2>1, <2>2 DEF SectInv, Held, Ahead
<1>4. Quiet'
  BY DEF IInv, Quiet, SectStates
<1>5. EmitInv'
  BY DEF EmitInv
<1>6. OutInv'
  BY DEF IInv, OutInv, OutputBounded, Emit, Skipping, Live, Errors
<1>7. SrcInv'
  BY DEF IInv, SrcInv
<1>. QED BY <1>1, <1>2, <1>3, <1>4, <1>5, <1>6, <1>7 DEF IInv
LEMMA NeedInputStep == IInv /\ NeedInput => IInv'
<1>. SUFFICES ASSUME IInv, NeedInput PROVE IInv'
  OBVIOUS
<1>. USE DEF NeedInput, clientVars, fixedVars, inputVars, winVars, sectVars,
             emitVars
<1>1. TypeOK'
  BY DEF IInv, TypeOK, Returns
<1>2. InputConserved'
  BY ConsumeNone
<1>3. dec_state \in Early
  BY DEF WantsInt, WantsByte, WantsBytes, Early
<1>4. dec_state' \in AtHere => dec_position' = win'.cpylen
  BY <1>3 DEF IInv, Quiet, AtHere, SectStates
<1>5. win'.tgtlen <= HardMaxWin
  BY DEF IInv, OutInv, Live, Errors
<1>. QED BY <1>1, <1>2, <1>3, <1>4, <1>5, EarlyStep DEF Early
LEMMA IntOverflowStep == IInv /\ IntOverflow => IInv'
<1>. SUFFICES ASSUME IInv, IntOverflow PROVE IInv'
  OBVIOUS
<1>. USE DEF IntOverflow, IntByte, clientVars, fixedVars, winVars, sectVars,
             emitVars
<1>1. 1 \in 0 .. avail_in
  BY InputFacts
<1>2. InputConserved' /\ avail_in' \in Nat /\ total_in' \in Nat
  BY <1>1, Consume
<1>3. TypeOK'
  BY <1>2 DEF IInv, TypeOK, Returns, Errors
<1>4. dec_state \in Early
  BY DEF WantsInt, Early
<1>5. dec_state' \in AtHere => dec_position' = win'.cpylen
  BY <1>4 DEF IInv, Quiet, AtHere, SectStates
<1>. QED BY <1>2, <1>3, <1>4, <1>5, EarlyStep DEF Early, Errors

LEMMA IntMoreStep == IInv /\ IntMore => IInv'
<1>. SUFFICES ASSUME IInv, IntMore PROVE IInv'
  OBVIOUS
<1>. USE DEF IntMore, clientVars, fixedVars, winVars, sectVars, emitVars
<1>1. 1 \in 0 .. avail_in /\ part' \in [IntParts -> Usize]
  BY InputFacts, IntByteFacts DEF IntValue
<1>2. InputConserved' /\ avail_in' \in Nat /\ total_in' \in Nat
  BY <1>1, Consume DEF IntByte
<1>3. TypeOK'
  BY <1>1, <1>2 DEF IInv, TypeOK
<1>4. dec_state \in Early /\ ret = "run"
  BY DEF WantsInt, Early, IntByte
<1>5. dec_state' \in AtHere => dec_position' = win'.cpylen
  BY <1>4 DEF IInv, Quiet, AtHere, SectStates
<1>6. win'.tgtlen <= HardMaxWin
  BY <1>4 DEF IInv, OutInv, Live, Errors
<1>. QED BY <1>2, <1>3, <1>4, <1>5, <1>6, EarlyStep DEF Early, Errors

-----------------------------------------------------------------------------
(* The file header.                                                        *)

\* A step of the file header: the window is left alone.
LEMMA HeaderFrame ==
  ASSUME IInv, UNCHANGED hdrFrame, ret = "run",
         {dec_state, dec_state'} \subseteq
           {"DEC_VCHEAD", "DEC_HDRIND", "DEC_SECONDID", "DEC_TABLEN", "DEC_NEAR",
            "DEC_SAME", "DEC_TABDAT", "DEC_APPLEN", "DEC_APPDAT", "DEC_WININD"},
         ret' \in {"run", "XD3_INPUT"} \cup Errors,
         InputConserved', avail_in' \in Nat, total_in' \in Nat,
         part' \in [IntParts -> Usize],
         hdr' \in [magic : Seq(Byte), ind : Byte, appheadsz : Usize,
                   appheader : Seq(Byte), hdrsize : Nat]
  PROVE  IInv'
<1>. USE DEF hdrFrame, clientVars, fixedVars, winVars, sectVars, emitVars
<1>1. TypeOK'
  BY DEF IInv, TypeOK, Returns, DecStates
<1>2. win'.tgtlen <= HardMaxWin
  BY DEF IInv, OutInv, Live, Errors
<1>3. dec_state \in Early /\ dec_state' \in Early /\ dec_state' \notin AtHere
  BY DEF Early, AtHere
<1>. QED BY <1>1, <1>2, <1>3, EarlyStep DEF Early

LEMMA HeaderStep == IInv /\ Header => IInv'
<1>. SUFFICES ASSUME IInv, Header PROVE IInv'
  OBVIOUS
<1>. USE DEF At, Check, Errors
<1>1. /\ part \in [IntParts -> Usize]
      /\ hdr \in [magic : Seq(Byte), ind : Byte, appheadsz : Usize,
                  appheader : Seq(Byte), hdrsize : Nat]
  BY DEF IInv, TypeOK
<1>2. /\ total_in \in Nat /\ avail_in \in Nat
      /\ avail_in > 0 => NextByte \in Byte
      /\ \A n \in 0 .. avail_in : NextBytes(n) \in Seq(Byte)
  BY InputFacts
<1>4. UNCHANGED hdrFrame => UNCHANGED <<file, fed, buflen>>
  BY DEF hdrFrame, clientVars
<1>5. CASE VcHeadBytes
  <2>. DEFINE take == Lesser(4 - Len(hdr.magic), avail_in)
  <2>0. Len(hdr.magic) \in Nat /\ Len(hdr.magic) < 4
    BY <1>1, <1>5 DEF VcHeadBytes, WantsBytes
  <2>1. take \in 0 .. avail_in
    BY <1>2, <2>0 DEF Lesser
  <2>2. hdr.magic \o NextBytes(take) \in Seq(Byte)
    BY <1>1, <1>2, <2>1
  <2>. HIDE DEF take
  <2>3. hdr' = [hdr EXCEPT !.magic = hdr.magic \o NextBytes(take)] /\ DECODE_INPUT(take)
    BY <1>5 DEF VcHeadBytes, take
  <2>4. InputConserved' /\ avail_in' \in Nat /\ total_in' \in Nat
    BY <1>4, <1>5, <2>1, <2>3, Consume DEF VcHeadBytes, take
  <2>. QED BY <1>1, <1>5, <2>2, <2>3, <2>4, HeaderFrame DEF VcHeadBytes
<1>6. CASE VcHead
  <2>1. InputConserved' /\ avail_in' \in Nat /\ total_in' \in Nat
    BY <1>4, <1>6, ConsumeNone DEF VcHead, inputVars
  <2>. QED BY <1>1, <1>6, <2>1, HeaderFrame DEF VcHead
<1>7. CASE HdrInd
  <2>0. 1 \in 0 .. avail_in /\ DECODE_INPUT(1)
    BY <1>2, <1>7 DEF HdrInd
  <2>1. InputConserved' /\ avail_in' \in Nat /\ total_in' \in Nat
    BY <1>4, <1>7, <2>0, Consume DEF HdrInd
  <2>. QED BY <1>1, <1>2, <1>7, <2>1, HeaderFrame DEF HdrInd
<1>8. CASE SecondId
  <2>0. 1 \in 0 .. avail_in /\ DECODE_INPUT(1)
    BY <1>2, <1>8 DEF SecondId
  <2>1. InputConserved' /\ avail_in' \in Nat /\ total_in' \in Nat
    BY <1>4, <1>8, <2>0, Consume DEF SecondId
  <2>. QED BY <1>1, <1>8, <2>1, HeaderFrame DEF SecondId
<1>9. CASE NoSecondId \/ DefaultTable \/ TabDat \/ AppDat
  <2>1. InputConserved' /\ avail_in' \in Nat /\ total_in' \in Nat
    BY <1>4, <1>9, ConsumeNone DEF NoSecondId, DefaultTable, TabDat, AppDat, inputVars
  <2>. QED BY <1>1, <1>2, <1>9, <2>1, HeaderFrame
           DEF NoSecondId, DefaultTable, TabDat, AppDat
<1>10. CASE TabLen
  <2>1. 1 \in 0 .. avail_in /\ DECODE_INPUT(1) /\ part' \in [IntParts -> Usize]
    BY <1>10, IntEndFacts DEF TabLen
  <2>2. InputConserved' /\ avail_in' \in Nat /\ total_in' \in Nat
    BY <1>4, <1>10, <2>1, Consume DEF TabLen
  <2>. QED BY <1>1, <1>10, <2>1, <2>2, HeaderFrame DEF TabLen
<1>11. CASE NearSame
  <2>0. 1 \in 0 .. avail_in /\ DECODE_INPUT(1)
    BY <1>2, <1>11 DEF NearSame
  <2>1. InputConserved' /\ avail_in' \in Nat /\ total_in' \in Nat
    BY <1>4, <1>11, <2>0, Consume DEF NearSame
  <2>. QED BY <1>1, <1>11, <2>1, HeaderFrame DEF NearSame
<1>12. CASE AppLen /\ IntEnd
  <2>1. /\ 1 \in 0 .. avail_in /\ DECODE_INPUT(1) /\ IntValue \in Usize
        /\ part' \in [IntParts -> Usize] /\ WantsInt
    BY <1>12, IntEndFacts DEF IntEnd, IntByte
  <2>2. InputConserved' /\ avail_in' \in Nat /\ total_in' \in Nat
    BY <1>4, <1>12, <2>1, Consume DEF AppLen, NoInt
  <2>. QED BY <1>1, <1>12, <2>1, <2>2, HeaderFrame DEF AppLen, NoInt
<1>13. CASE AppLen /\ ~ IntEnd
  <2>1. InputConserved' /\ avail_in' \in Nat /\ total_in' \in Nat
    BY <1>4, <1>13, ConsumeNone DEF AppLen, NoInt, inputVars
  <2>. QED BY <1>1, <1>13, <2>1, HeaderFrame DEF AppLen, NoInt
<1>14. CASE AppDatBytes
  <2>. DEFINE take == Lesser(hdr.appheadsz - Len(hdr.appheader), avail_in)
  <2>0. /\ Len(hdr.appheader) \in Nat /\ hdr.appheadsz \in Nat
        /\ Len(hdr.appheader) < hdr.appheadsz
    BY <1>1, <1>14, IntAssumption DEF AppDatBytes, WantsBytes, Usize
  <2>1. take \in 0 .. avail_in
    BY <1>2, <2>0 DEF Lesser
  <2>2. hdr.appheader \o NextBytes(take) \in Seq(Byte)
    BY <1>1, <1>2, <2>1
  <2>. HIDE DEF take
  <2>3. /\ hdr' = [hdr EXCEPT !.appheader = hdr.appheader \o NextBytes(take)]
        /\ DECODE_INPUT(take)
    BY <1>14 DEF AppDatBytes, take
  <2>4. InputConserved' /\ avail_in' \in Nat /\ total_in' \in Nat
    BY <1>4, <1>14, <2>1, <2>3, Consume DEF AppDatBytes, take
  <2>. QED BY <1>1, <1>14, <2>2, <2>3, <2>4, HeaderFrame DEF AppDatBytes
<1>. QED BY <1>5, <1>6, <1>7, <1>8, <1>9, <1>10, <1>11, <1>12, <1>13, <1>14 DEF Header
-----------------------------------------------------------------------------
(* The window header.                                                      *)

\* A step of the window header after the indicator.
LEMMA WindowFrame ==
  ASSUME IInv, UNCHANGED winFrame, ret = "run",
         dec_state \in AtHere \cup {"DEC_CPYLEN"}, dec_state # "DEC_DATA",
         dec_state' \in AtHere,
         ret' \in {"run", "XD3_GOTHEADER", "XD3_WINSTART"} \cup Errors,
         InputConserved', avail_in' \in Nat, total_in' \in Nat,
         part' \in [IntParts -> Usize],
         win' \in [ind : Byte, cpylen : Usize, cpyoff : Xoff, enclen : Usize,
                   tgtlen : Usize, maxpos : Usize, cksum : Seq(Byte)],
         dec_position' = win'.cpylen,
         win'.tgtlen = win.tgtlen \/ win'.tgtlen <= HardMaxWin \/ ret' \in Errors
  PROVE  IInv'
<1>. USE DEF winFrame, clientVars, fixedVars, winVars, sectVars
<1>1. win.tgtlen <= HardMaxWin
  BY DEF IInv, OutInv, Live, Errors
<1>2. dec_position' \in Usize
  OBVIOUS
<1>3. dec_state' \in DecStates /\ ret' \in Returns
  BY DEF DecStates, Returns, AtHere
<1>4. TypeOK'
  BY <1>2, <1>3 DEF IInv, TypeOK
<1>5. dec_state \in Early /\ dec_state' \in Early \cup {"DEC_DATA"}
  BY DEF Early, AtHere
<1>. QED BY <1>1, <1>4, <1>5, EarlyStep DEF Errors

LEMMA WindowStep ==
  IInv /\ (CpyLen \/ CpyOff \/ EncLen \/ TgtLen \/ DelInd \/ CksumBytes \/ Cksum)
    => IInv'
<1>. SUFFICES ASSUME IInv, CpyLen \/ CpyOff \/ EncLen \/ TgtLen \/ DelInd
                             \/ CksumBytes \/ Cksum
              PROVE  IInv'
  OBVIOUS
<1>. USE DEF At, Check, Errors, AtHere
<1>1. /\ part \in [IntParts -> Usize]
      /\ win \in [ind : Byte, cpylen : Usize, cpyoff : Xoff, enclen : Usize,
                  tgtlen : Usize, maxpos : Usize, cksum : Seq(Byte)]
  BY DEF IInv, TypeOK
<1>2. /\ total_in \in Nat /\ avail_in \in Nat
      /\ \A n \in 0 .. avail_in : NextBytes(n) \in Seq(Byte)
  BY InputFacts
<1>3. UNCHANGED winFrame => UNCHANGED <<file, fed, buflen>>
  BY DEF winFrame, clientVars
<1>4. dec_state \in AtHere \ {"DEC_DATA"} => dec_position = win.cpylen
  BY DEF IInv, Quiet
<1>5. ASSUME IntEnd, UNCHANGED winFrame, ret' # "XD3_INPUT"
      PROVE  /\ InputConserved' /\ avail_in' \in Nat /\ total_in' \in Nat
             /\ part' \in [IntParts -> Usize] /\ IntValue \in Usize
             /\ dec_state = "DEC_CPYOFF" => IntValue \in Xoff
  <2>1. /\ IntValue \in 0 .. PartMod - 1 /\ IntValue \in Usize
        /\ part' \in [IntParts -> Usize] /\ 1 \in 0 .. avail_in /\ DECODE_INPUT(1)
    BY <1>5, IntEndFacts
  <2>2. InputConserved' /\ avail_in' \in Nat /\ total_in' \in Nat
    BY <1>3, <1>5, <2>1, Consume
  <2>. QED BY <2>1, <2>2 DEF PartMod, Xoff
<1>6. ASSUME NoInt, UNCHANGED winFrame, ret' # "XD3_INPUT"
      PROVE  /\ InputConserved' /\ avail_in' \in Nat /\ total_in' \in Nat
             /\ part' \in [IntParts -> Usize]
  BY <1>1, <1>3, <1>6, ConsumeNone DEF NoInt, inputVars
<1>7. CASE CpyLen
  <2>1. /\ InputConserved' /\ avail_in' \in Nat /\ total_in' \in Nat
        /\ part' \in [IntParts -> Usize]
        /\ win' = win \/ (IntValue \in Usize /\ win' = [win EXCEPT !.cpylen = IntValue])
    BY <1>5, <1>6, <1>7 DEF CpyLen
  <2>. QED BY <1>1, <1>7, <2>1, WindowFrame DEF CpyLen
<1>8. CASE CpyOff
  <2>1. /\ InputConserved' /\ avail_in' \in Nat /\ total_in' \in Nat
        /\ part' \in [IntParts -> Usize]
        /\ win' = win \/ (IntValue \in Xoff /\ win' = [win EXCEPT !.cpyoff = IntValue])
    BY <1>5, <1>6, <1>8 DEF CpyOff
  <2>. QED BY <1>1, <1>4, <1>8, <2>1, WindowFrame DEF CpyOff
<1>9. CASE EncLen
  <2>1. /\ InputConserved' /\ avail_in' \in Nat /\ total_in' \in Nat
        /\ part' \in [IntParts -> Usize] /\ IntValue \in Usize
    BY <1>5, <1>9 DEF EncLen
  <2>. QED BY <1>1, <1>4, <1>9, <2>1, WindowFrame DEF EncLen
<1>10. CASE TgtLen
  <2>1. /\ InputConserved' /\ avail_in' \in Nat /\ total_in' \in Nat
        /\ part' \in [IntParts -> Usize] /\ IntValue \in Usize
    BY <1>5, <1>10 DEF TgtLen
  <2>2. ~ UsizeOverflow(win.cpylen, IntValue) => win.cpylen + IntValue \in Usize
    BY <1>1, <2>1, IntAssumption DEF UsizeOverflow, Usize
  <2>. QED BY <1>1, <1>4, <1>10, <2>1, <2>2, WindowFrame DEF TgtLen
<1>11. CASE DelInd
  <2>1. 1 \in 0 .. avail_in /\ DECODE_INPUT(1)
    BY <1>2, <1>11 DEF DelInd
  <2>2. InputConserved' /\ avail_in' \in Nat /\ total_in' \in Nat
    BY <1>3, <1>11, <2>1, Consume DEF DelInd
  <2>. QED BY <1>1, <1>4, <1>11, <2>2, WindowFrame DEF DelInd
<1>12. CASE CksumBytes
  <2>. DEFINE take == Lesser(4 - Len(win.cksum), avail_in)
  <2>1. Len(win.cksum) \in Nat /\ Len(win.cksum) < 4
    BY <1>1, <1>12 DEF CksumBytes, WantsBytes
  <2>2. take \in 0 .. avail_in
    BY <1>2, <2>1 DEF Lesser
  <2>3. win.cksum \o NextBytes(take) \in Seq(Byte)
    BY <1>1, <1>2, <2>2
  <2>. HIDE DEF take
  <2>4. /\ win' = [win EXCEPT !.cksum = win.cksum \o NextBytes(take)]
        /\ DECODE_INPUT(take)
    BY <1>12 DEF CksumBytes, take
  <2>5. InputConserved' /\ avail_in' \in Nat /\ total_in' \in Nat
    BY <1>3, <1>12, <2>2, <2>4, Consume DEF CksumBytes, take
  <2>. QED BY <1>1, <1>4, <1>12, <2>3, <2>4, <2>5, WindowFrame DEF CksumBytes
<1>13. CASE Cksum
  <2>1. InputConserved' /\ avail_in' \in Nat /\ total_in' \in Nat
    BY <1>3, <1>13, ConsumeNone DEF Cksum, inputVars
  <2>. QED BY <1>1, <1>4, <1>13, <2>1, WindowFrame DEF Cksum
<1>. QED BY <1>7, <1>8, <1>9, <1>10, <1>11, <1>12, <1>13
LEMMA WinIndStep == IInv /\ WinInd => IInv'
<1>. SUFFICES ASSUME IInv, WinInd PROVE IInv'
  OBVIOUS
<1>. USE DEF At, clientVars, fixedVars, sectVars, emitVars
<1>1. /\ 1 \in 0 .. avail_in /\ DECODE_INPUT(1) /\ NextByte \in Byte
      /\ ret' # "XD3_INPUT"
  BY InputFacts DEF WinInd
<1>2. InputConserved' /\ avail_in' \in Nat /\ total_in' \in Nat
  BY <1>1, Consume DEF WinInd
<1>3. /\ win \in [ind : Byte, cpylen : Usize, cpyoff : Xoff, enclen : Usize,
                  tgtlen : Usize, maxpos : Usize, cksum : Seq(Byte)]
      /\ win.tgtlen <= HardMaxWin /\ dec_winstart \in Xoff
      /\ acache \in Cache /\ dec_window_count \in Nat
  BY DEF IInv, TypeOK, OutInv, Live, Errors, WinInd
<1>4. /\ win' \in [ind : Byte, cpylen : Usize, cpyoff : Xoff, enclen : Usize,
                   tgtlen : Usize, maxpos : Usize, cksum : Seq(Byte)]
      /\ win'.tgtlen = win.tgtlen
  <2>1. 0 \in Usize /\ 0 \in Xoff /\ <<>> \in Seq(Byte)
    BY IntAssumption DEF Usize, Xoff
  <2>2. \/ win' = [win EXCEPT !.ind = NextByte, !.cpylen = 0, !.cpyoff = 0,
                             !.cksum = <<>>]
        \/ win' = [win EXCEPT !.ind = NextByte]
    BY DEF WinInd
  <2>. QED BY <1>1, <1>3, <2>1, <2>2
<1>5. ~ XoffOverflow(dec_winstart, win.tgtlen) => dec_winstart + win.tgtlen \in Xoff
  <2>1. /\ XoffMod \in Nat /\ dec_winstart \in 0 .. XoffMod - 1
        /\ win.tgtlen \in 0 .. XoffMod - 1
    BY <1>3, IntAssumption, DecodeAssumption DEF Xoff, Usize
  <2>2. dec_winstart % XoffMod = dec_winstart /\ win.tgtlen % XoffMod = win.tgtlen
    BY <2>1, ModSmall
  <2>. QED BY <2>1, <2>2 DEF XoffOverflow, Xoff
<1>6. /\ dec_winstart' \in Xoff /\ current_window' \in Nat /\ acache' \in Cache
      /\ dec_state' \in {"DEC_WININD", "DEC_CPYLEN"}
      /\ ret' \in {"run"} \cup Errors
  BY <1>3, <1>5, InitCacheType DEF WinInd, NextWinStart, Errors
<1>7. TypeOK'
  BY <1>2, <1>4, <1>6 DEF IInv, TypeOK, DecStates, Returns, WinInd
<1>. QED BY <1>2, <1>3, <1>4, <1>6, <1>7, EarlyStep DEF WinInd, Early, AtHere

LEMMA SectLenStep == IInv /\ (DataLen \/ InstLen \/ AddrLen) => IInv'
<1>. SUFFICES ASSUME IInv, NEW s \in SectNames, NEW nstate, NEW st,
                     SectLen(s, st, nstate),
                     <<st, nstate>> \in {<<"DEC_DATALEN", "DEC_INSTLEN">>,
                                        <<"DEC_INSTLEN", "DEC_ADDRLEN">>,
                                        <<"DEC_ADDRLEN", "DEC_CKSUM">>}
              PROVE  IInv'
  BY DEF DataLen, InstLen, AddrLen, SectNames
<1>. USE DEF At, SectLen, clientVars, fixedVars, winVars, emitVars
<1>1. /\ IntValue \in Usize /\ part' \in [IntParts -> Usize]
      /\ 1 \in 0 .. avail_in /\ DECODE_INPUT(1) /\ ret' # "XD3_INPUT"
  BY IntEndFacts
<1>2. InputConserved' /\ avail_in' \in Nat /\ total_in' \in Nat
  BY <1>1, Consume
<1>3. sect \in [SectNames -> SectType]
  BY DEF IInv, TypeOK
<1>4. /\ sect' \in [SectNames -> SectType]
      /\ \A n \in SectNames : sect'[n].pos = sect[n].pos
  BY <1>1, <1>3 DEF SectType
<1>5. dec_state \in Early /\ dec_state' \in Early
  BY DEF Early
<1>6. dec_state' \in DecStates
  BY <1>5 DEF Early, DecStates
<1>7. TypeOK'
  BY <1>1, <1>2, <1>4, <1>6 DEF IInv, TypeOK
<1>8. dec_position' = win'.cpylen /\ win'.tgtlen <= HardMaxWin
  BY DEF IInv, Quiet, OutInv, Live, Errors
<1>. QED BY <1>2, <1>4, <1>5, <1>7, <1>8, EarlyStep
-----------------------------------------------------------------------------
(* The client.                                                             *)

\* A step that leaves the sections and the buffer alone.
LEMMA SectFrame ==
  ASSUME IInv, UNCHANGED <<fixedVars, dec_state, sect, dec_winbytes, file, fed,
                           buflen, avail_in>>,
         ret \notin Errors, ret' # "XD3_INPUT"
  PROVE  Progress' /\ SectInv'
<1>. USE DEF fixedVars
<1>1. Progress'
  <2>1. /\ Current' = Current /\ SizeBefore' = SizeBefore
        /\ Need' = Need /\ (Skipping' <=> Skipping)
    BY DEF Current, SizeBefore, Done, Need, Skipping
  <2>. QED BY <2>1 DEF IInv, Progress, Position, Live
<1>2. SectInv'
  <2>1. \A s \in SectNames : (Held(s)' <=> Held(s)) /\ (Ahead(s)' <=> Ahead(s))
    BY DEF Held, Ahead, Done, Need, next_in
  <2>2. Skipping' <=> Skipping
    BY DEF Skipping
  <2>. QED BY <2>1, <2>2 DEF IInv, SectInv, Live
<1>. QED BY <1>1, <1>2

\* When the stream asks for input inside the sections, no section that it
\* still needs lies in the buffer.
LEMMA NothingInBuffer ==
  ASSUME IInv, ret = "XD3_INPUT", ~ Skipping, NEW s \in SectNames, Done(s)
  PROVE  ~ (sect[s].zerocopy /\ sect[s].size > 0)
<1>1. dec_state \in SectStates /\ Live /\ avail_in = 0
  BY DEF IInv, Returned, Done, SectStates, Live, Errors, InputConserved
<1>2. \A n \in SectNames : sect[n].size \in Nat /\ sect[n].pos \in Nat
  <2>1. sect \in [SectNames -> SectType]
    BY DEF IInv, TypeOK
  <2>. QED BY <2>1, IntAssumption DEF SectType, Usize
<1>3. /\ sect[Current].pos < sect[Current].size
      /\ dec_winbytes = SizeBefore + sect[Current].pos
  BY <1>1 DEF IInv, Progress, Position
<1>4. Need > dec_winbytes
  BY <1>1, <1>2, <1>3
     DEF Need, SizeBefore, Done, Current, SectStates, SectNames
<1>5. Ahead(s)
  BY <1>1 DEF IInv, SectInv
<1>6. Need \in Nat /\ dec_winbytes \in Nat
  <2>1. Need \in Nat
    BY <1>2 DEF Need, SectNames
  <2>. QED BY <2>1 DEF IInv, TypeOK
<1>. QED BY <1>1, <1>4, <1>5, <1>6 DEF Ahead, SectStates

LEMMA AvailInputStep == ASSUME NEW size \in FeedSizes PROVE IInv /\ AvailInput(size) => IInv'
<1>. SUFFICES ASSUME IInv, AvailInput(size) PROVE IInv'
  OBVIOUS
<1>. DEFINE n == Lesser(size, Len(file) - fed)
<1>. USE DEF AvailInput, streamFrame, fixedVars, winVars, sectVars
<1>1. /\ total_in \in Nat /\ total_in = fed /\ Len(file) \in Nat
      /\ fed \in 0 .. Len(file)
      /\ avail_in = 0 /\ dec_state \notin {"DEC_EMIT", "DEC_FINISH", "DEC_ABORTED"}
  <2>1. avail_in = 0 /\ dec_state \notin {"DEC_EMIT", "DEC_FINISH", "DEC_ABORTED"}
    BY DEF IInv, InputConserved, Returned, Errors
  <2>2. total_in + avail_in = fed
    BY DEF IInv, InputConserved
  <2>3. fed \in 0 .. Len(file)
    BY DEF IInv, TypeOK
  <2>. QED BY <2>1, <2>2, <2>3, InputFacts
<1>2. n \in Nat /\ fed + n <= Len(file)
  BY <1>1, DecodeAssumption DEF Lesser
<1>3. fed' = fed + n /\ buflen' = n /\ avail_in' = n
  OBVIOUS
<1>. HIDE DEF n
<1>4. TypeOK'
  <2>1. fed' \in 0 .. Len(file) /\ buflen' \in Nat /\ avail_in' \in Nat
    BY <1>1, <1>2, <1>3
  <2>. QED BY <2>1 DEF IInv, TypeOK, Returns
<1>5. InputConserved'
  BY <1>1, <1>2, <1>3 DEF InputConserved
<1>6. Returned'
  BY <1>1 DEF Returned
<1>7. Progress'
  <2>1. /\ Current' = Current /\ SizeBefore' = SizeBefore
        /\ Need' = Need /\ (Skipping' <=> Skipping)
    BY DEF Current, SizeBefore, Done, Need, Skipping
  <2>. QED BY <2>1 DEF IInv, Progress, Position, Live, Errors
<1>8. SectInv'
  <2>. SUFFICES ASSUME ~ Skipping, NEW s \in SectNames
                PROVE  Held(s)' /\ Ahead(s)'
    BY DEF SectInv, Skipping
  <2>1. Held(s) /\ (Done(s)' <=> Done(s))
    BY DEF IInv, SectInv, Live, Errors, Done
  <2>2. ret = "new" => ~ Done(s)
    BY DEF IInv, Returned, Done
  <2>3. Done(s) => ~ (sect[s].zerocopy /\ sect[s].size > 0)
    BY <2>2, NothingInBuffer
  <2>4. Held(s)'
    BY <2>1, <2>3 DEF Held
  <2>5. Ahead(s)'
    BY <2>1, <2>3 DEF Ahead
  <2>. QED BY <2>4, <2>5
<1>9. Quiet' /\ EmitInv' /\ OutInv' /\ SrcInv'
  <2>1. Quiet'
    BY <1>1 DEF IInv, Quiet
  <2>2. EmitInv'
    BY <1>1 DEF EmitInv
  <2>3. OutInv' /\ SrcInv'
    BY DEF IInv, OutInv, OutputBounded, SrcInv, Live, Errors
  <2>. QED BY <2>1, <2>2, <2>3
<1>. QED BY <1>4, <1>5, <1>6, <1>7, <1>8, <1>9 DEF IInv
LEMMA ConsumeOutputStep == IInv /\ ConsumeOutput => IInv'
<1>. SUFFICES ASSUME IInv, ConsumeOutput PROVE IInv'
  OBVIOUS
<1>. USE DEF ConsumeOutput, streamFrame, fixedVars, winVars, sectVars
<1>1. dec_state = "DEC_FINISH" /\ out' = <<>> /\ ret' = "run"
  BY DEF IInv, Returned
<1>2. TypeOK'
  <2>1. delivered \in Seq(Byte) /\ out \in Seq(Byte)
    BY DEF IInv, TypeOK
  <2>2. delivered' \in Seq(Byte) /\ out' \in Seq(Byte)
    BY <2>1
  <2>. QED BY <2>2 DEF IInv, TypeOK, Returns
<1>3. InputConserved'
  BY ConsumeNone
<1>4. Progress' /\ SectInv'
  BY SectFrame DEF Errors
<1>5. Returned' /\ Quiet' /\ EmitInv' /\ SrcInv'
  BY <1>1 DEF IInv, Returned, Quiet, EmitInv, SrcInv, SectStates
<1>6. OutInv'
  <2>1. space_out \in Nat /\ Len(out') = 0
    <3>1. space_out \in Usize
      BY DEF IInv, TypeOK
    <3>. QED BY <1>1, <3>1, IntAssumption DEF Usize
  <2>. QED BY <1>1, <2>1 DEF IInv, OutInv, OutputBounded, Live, Errors
<1>. QED BY <1>2, <1>3, <1>4, <1>5, <1>6 DEF IInv

\* A step of the client that only changes ret, or the block in memory.
LEMMA ClientFrame ==
  ASSUME IInv, UNCHANGED <<streamFrame, file, fed, buflen, delivered, dec_state,
                           avail_in, out>>,
         TypeOK', ret \notin Errors, ret' # "XD3_INPUT", ret' # "XD3_OUTPUT",
         Returned', SrcInv', ~ (ret' = "run" /\ dec_state = "DEC_FINISH" /\ out # <<>>)
  PROVE  IInv'
<1>. USE DEF streamFrame, fixedVars, winVars, sectVars
<1>1. InputConserved'
  BY ConsumeNone
<1>2. Progress' /\ SectInv'
  BY SectFrame
<1>3. Quiet' /\ EmitInv'
  BY DEF IInv, Quiet, EmitInv, Live, Size
<1>4. OutInv'
  BY DEF IInv, OutInv, OutputBounded, Live
<1>. QED BY <1>1, <1>2, <1>3, <1>4 DEF IInv

LEMMA AbortStep == IInv /\ Abort => IInv'
<1>. SUFFICES ASSUME IInv, Abort PROVE IInv'
  OBVIOUS
<1>. USE DEF Abort, streamFrame, fixedVars, winVars, sectVars, clientVars
<1>1. TypeOK'
  BY DEF IInv, TypeOK, Returns, DecStates
<1>2. InputConserved'
  BY ConsumeNone
<1>3. Returned' /\ EmitInv' /\ SrcInv'
  BY DEF IInv, Returned, EmitInv, SrcInv, Errors
<1>4. Skipping /\ Skipping'
  BY DEF Skipping
<1>5. Progress' /\ SectInv'
  BY <1>4 DEF IInv, Returned, Progress, SectInv, Live, Errors, SectStates
<1>6. Quiet'
  BY DEF IInv, Returned, Quiet, SectStates
<1>7. OutInv'
  BY DEF IInv, OutInv, OutputBounded, Live, Errors
<1>. QED BY <1>1, <1>2, <1>3, <1>5, <1>6, <1>7 DEF IInv

LEMMA ContinueStep == IInv /\ Continue => IInv'
<1>. SUFFICES ASSUME IInv, Continue PROVE IInv'
  OBVIOUS
<1>. USE DEF Continue, streamFrame, fixedVars, winVars, sectVars, clientVars
<1>1. TypeOK'
  BY DEF IInv, TypeOK, Returns
<1>2. dec_state \notin {"DEC_EMIT", "DEC_FINISH", "DEC_ABORTED"}
  BY DEF IInv, Returned, Errors
<1>3. Returned' /\ SrcInv'
  BY <1>2 DEF IInv, Returned, SrcInv
<1>. QED BY <1>1, <1>2, <1>3, ClientFrame DEF Errors

LEMMA ProvideBlockStep == IInv /\ ProvideBlock => IInv'
<1>. SUFFICES ASSUME IInv, ProvideBlock PROVE IInv'
  OBVIOUS
<1>. USE DEF ProvideBlock, streamFrame, fixedVars, winVars, sectVars, clientVars
<1>1. src \in SourceState
  BY DEF IInv, TypeOK
<1>2. /\ src' = [src EXCEPT !.curblkno = src.getblkno, !.onblk = BlockLen(src.getblkno)]
      /\ src.getblkno \in Xoff /\ BlockLen(src.getblkno) \in 0 .. BlkSize
  BY <1>1, BlockLenType DEF Provide, SourceState
<1>3. src' \in SourceState /\ src'.onblk = BlockLen(src'.curblkno)
  BY <1>1, <1>2 DEF SourceState
<1>4. TypeOK'
  BY <1>3 DEF IInv, TypeOK, Returns
<1>5. dec_state = "DEC_EMIT"
  BY DEF IInv, Returned
<1>6. Returned' /\ SrcInv'
  BY <1>3, <1>5 DEF IInv, Returned, SrcInv, Skipping
<1>. QED BY <1>4, <1>5, <1>6, ClientFrame DEF Errors

LEMMA CloseStep == IInv /\ Close => IInv'
<1>. SUFFICES ASSUME IInv, Close PROVE IInv'
  OBVIOUS
<1>. USE DEF Close, streamFrame, fixedVars, winVars, sectVars
<1>1. TypeOK'
  BY DEF IInv, TypeOK, Returns
<1>2. Returned' /\ SrcInv'
  BY DEF IInv, Returned, SrcInv, Errors
<1>. QED BY <1>1, <1>2, ClientFrame DEF Errors

LEMMA ClientStep == IInv /\ Client => IInv'
BY AvailInputStep, ConsumeOutputStep, AbortStep, ContinueStep, ProvideBlockStep,
   CloseStep DEF Client

LEMMA StutterStep == IInv /\ UNCHANGED vars => IInv'
<1>. SUFFICES ASSUME IInv, UNCHANGED vars PROVE IInv'
  OBVIOUS
<1>. USE DEF vars, clientVars, fixedVars, inputVars, winVars, sectVars, emitVars
<1>1. TypeOK' /\ InputConserved' /\ Returned'
  BY DEF IInv, TypeOK, InputConserved, Returned, Skipping
<1>2. Progress'
  <2>1. Current' = Current /\ SizeBefore' = SizeBefore /\ Need' = Need
    BY DEF Current, SizeBefore, Done, Need
  <2>. QED BY <2>1 DEF IInv, Progress, Position, Live, Skipping
<1>3. SectInv'
  BY DEF IInv, SectInv, Held, Ahead, Done, Need, next_in, Live, Skipping
<1>4. Quiet' /\ EmitInv' /\ OutInv' /\ SrcInv'
  BY DEF IInv, Quiet, EmitInv, OutInv, OutputBounded, SrcInv, Live, Size, Emit, Skipping
<1>. QED BY <1>1, <1>2, <1>3, <1>4 DEF IInv

-----------------------------------------------------------------------------
(* The beginning.                                                          *)

LEMMA InitStep == Init => IInv
<1>. SUFFICES ASSUME Init PROVE IInv
  OBVIOUS
<1>. USE DEF Init
<1>1. 0 \in Usize /\ 0 \in Xoff /\ 0 \in Byte /\ <<>> \in Seq(Byte)
  BY IntAssumption DEF Usize, Xoff, Byte
<1>2. file \in Seq(Byte) /\ Len(file) \in Nat
  BY DecodeAssumption
<1>3. src \in SourceState /\ src.onblk = BlockLen(src.curblkno)
  <2>1. BlockLen(0) \in 0 .. BlkSize /\ BlkSize \in Nat \ {0}
    BY <1>1, BlockLenType, SourceAssumption
  <2>2. SetSource \in SourceState /\ SetSource.onblk = BlockLen(SetSource.curblkno)
    BY <1>1, <2>1 DEF SetSource, SourceState
  <2>3. /\ Len(Source) \div BlkSize \in Xoff
        /\ Len(Source) % BlkSize \in 0 .. BlkSize
    <3>1. Len(Source) \in Nat /\ Len(Source) < XoffMod /\ XoffMod \in Nat
      BY SourceAssumption, IntAssumption
    <3>2. /\ Len(Source) \div BlkSize \in 0 .. Len(Source)
          /\ Len(Source) % BlkSize \in 0 .. BlkSize - 1
      BY <2>1, <3>1, DivBound
    <3>. QED BY <2>1, <3>1, <3>2 DEF Xoff
  <2>4. /\ SetSourceAndSize \in SourceState
        /\ SetSourceAndSize.onblk = BlockLen(SetSourceAndSize.curblkno)
    BY <2>2, <2>3 DEF SetSourceAndSize, SourceState
  <2>. QED BY <2>2, <2>4
<1>4. XD3_NOOP \in InstTypes /\ acache \in Cache
  BY CacheAssumption, InitCacheType DEF InstTypes, XD3_NOOP, XD3_CPY, SameStart
<1>5. TypeOK
  BY <1>1, <1>2, <1>3, <1>4
     DEF TypeOK, Returns, DecStates, NoSect, NoInst, NoWin, NoHdr, SectType
<1>6. InputConserved /\ Returned /\ EmitInv
  BY DEF InputConserved, Returned, EmitInv, Errors
<1>7. Progress
  BY DEF Progress, Position, SectStates, NoSect
<1>8. SectInv
  BY DEF SectInv, Held, Ahead, Done, NoSect
<1>9. Quiet
  BY DEF Quiet, SectStates, NoInst
<1>10. OutInv
  BY <1>1, IntAssumption, DecodeAssumption DEF OutInv, OutputBounded, NoWin, Usize
<1>. QED BY <1>3, <1>5, <1>6, <1>7, <1>8, <1>9, <1>10 DEF IInv, SrcInv
-----------------------------------------------------------------------------
(* The sections.                                                           *)

LEMMA SectFacts ==
  ASSUME IInv
  PROVE  /\ sect \in [SectNames -> SectType]
         /\ \A s \in SectNames : sect[s].size \in Nat /\ sect[s].pos \in Nat
                                /\ sect[s].copied1 \in Seq(Byte)
         /\ Need \in Nat /\ dec_winbytes \in Nat /\ UsizeMod \in Nat
<1>1. sect \in [SectNames -> SectType] /\ dec_winbytes \in Nat
  BY DEF IInv, TypeOK
<1>2. \A s \in SectNames : sect[s].size \in Nat /\ sect[s].pos \in Nat
                           /\ sect[s].copied1 \in Seq(Byte)
  BY <1>1, IntAssumption DEF SectType, Usize
<1>. QED BY <1>1, <1>2, IntAssumption DEF Need, SectNames

\* A call that fails keeps what the client can still see in order.
LEMMA Fails ==
  ASSUME IInv, TypeOK', InputConserved', ret' \in Errors,
         dec_state' \notin {"DEC_FINISH", "DEC_ABORTED"},
         dec_state' = "DEC_EMIT" => ~ Skipping', Quiet', SrcInv',
         Len(out') <= space_out', space_out' <= HardMaxWin + AllocSize
  PROVE  IInv'
<1>1. ~ Live'
  BY DEF Live
<1>2. Returned'
  BY DEF Returned, Errors
<1>3. Progress' /\ SectInv' /\ EmitInv'
  BY <1>1 DEF Progress, SectInv, EmitInv
<1>4. OutInv'
  BY <1>1 DEF OutInv, OutputBounded, Errors
<1>. QED BY <1>2, <1>3, <1>4 DEF IInv

\* The window is finished: FinishWindow, for sections s.
LEMMA FinishFrame ==
  ASSUME IInv, NEW s \in [SectNames -> SectType], FinishWindow(s),
         UNCHANGED <<file, flags, cur, src>>, ret = "emit" \/ InSections,
         TypeOK', InputConserved', cur[1].type = XD3_NOOP, cur[2].type = XD3_NOOP,
         UNCHANGED <<space_out, out, win>>,
         (Emit /\ ~ Skipping) => Len(out) = win.tgtlen
  PROVE  IInv'
<1>. USE DEF FinishWindow
<1>1. Returned' /\ Quiet'
  BY DEF Returned, Quiet, Errors, SectStates
<1>2. \A n \in SectNames : sect'[n].pos = 0
  BY DEF SectType
<1>3. Progress'
  BY <1>2 DEF Progress, Position, SectStates
<1>4. SectInv'
  BY <1>2 DEF SectInv, Held, Ahead, Done
<1>5. EmitInv' /\ SrcInv'
  BY DEF IInv, EmitInv, SrcInv
<1>6. OutInv'
  BY DEF IInv, OutInv, OutputBounded, Live, Errors, Emit, Skipping, InSections
<1>. QED BY <1>1, <1>3, <1>4, <1>5, <1>6 DEF IInv

LEMMA FinishType ==
  ASSUME NEW s \in [SectNames -> SectType], FinishWindow(s)
  PROVE  /\ sect' \in [SectNames -> SectType] /\ dec_winbytes' \in Nat
         /\ dec_state' \in DecStates /\ ret' \in Returns
BY DEF FinishWindow, SectType, DecStates, Returns

LEMMA FinishStep == IInv /\ Finish => IInv'
<1>. SUFFICES ASSUME IInv, Finish PROVE IInv'
  OBVIOUS
<1>. USE DEF Finish, At, clientVars, fixedVars, inputVars, sectVars, emitVars
<1>1. TypeOK'
  <2>1. dec_window_count' \in Nat
    <3>1. dec_window_count \in Nat
      BY DEF IInv, TypeOK
    <3>. QED BY <3>1
  <2>2. dec_state' \in DecStates /\ ret' \in Returns
    BY DEF Returns, DecStates
  <2>. QED BY <2>1, <2>2 DEF IInv, TypeOK
<1>2. InputConserved'
  BY ConsumeNone
<1>3. Returned' /\ EmitInv' /\ SrcInv'
  BY DEF IInv, Returned, EmitInv, SrcInv, Errors
<1>4. Progress' /\ SectInv'
  BY DEF IInv, Progress, Position, SectInv, Held, Ahead, Done, SectStates, Live,
         Errors, Skipping
<1>5. Quiet' /\ OutInv'
  BY DEF IInv, Quiet, OutInv, OutputBounded, SectStates, Live, Errors
<1>. QED BY <1>1, <1>2, <1>3, <1>4, <1>5 DEF IInv

LEMMA JustHdrStep == IInv /\ JustHdr => IInv'
<1>. SUFFICES ASSUME IInv, JustHdr PROVE IInv'
  OBVIOUS
<1>. USE DEF JustHdr, sectFrame, clientVars, fixedVars, inputVars, winVars, emitVars
<1>1. sect \in [SectNames -> SectType]
  BY SectFacts
<1>2. TypeOK'
  BY <1>1, FinishType DEF IInv, TypeOK
<1>3. InputConserved'
  BY ConsumeNone DEF FinishWindow
<1>4. Skipping /\ cur[1].type = XD3_NOOP /\ cur[2].type = XD3_NOOP
  BY DEF Skipping, IInv, Quiet, InSections, SectStates
<1>. QED BY <1>1, <1>2, <1>3, <1>4, FinishFrame

LEMMA SectionsOverflowStep == IInv /\ SectionsOverflow => IInv'
<1>. SUFFICES ASSUME IInv, SectionsOverflow PROVE IInv'
  OBVIOUS
<1>. USE DEF SectionsOverflow, sectFrame, clientVars, fixedVars, inputVars,
             winVars, sectVars, emitVars, InSections
<1>1. TypeOK'
  BY DEF IInv, TypeOK, Returns, Errors
<1>2. InputConserved'
  BY ConsumeNone
<1>3. Quiet' /\ SrcInv' /\ Len(out') <= space_out' /\ space_out' <= HardMaxWin + AllocSize
  BY DEF IInv, Quiet, SrcInv, OutInv, OutputBounded, SectStates
<1>. QED BY <1>1, <1>2, <1>3, Fails DEF Errors, SectStates

LEMMA SkipWindowStep == IInv /\ SkipWindow => IInv'
<1>. SUFFICES ASSUME IInv, SkipWindow PROVE IInv'
  OBVIOUS
<1>. DEFINE take == Lesser(SectMore, avail_in)
<1>. USE DEF SkipWindow, sectFrame, clientVars, fixedVars, winVars, emitVars
<1>1. /\ sect \in [SectNames -> SectType] /\ Need \in Nat /\ dec_winbytes \in Nat
      /\ dec_winbytes <= Need /\ dec_state \in SectStates /\ ret = "run"
  BY SectFacts DEF IInv, Progress, InSections, Live, Errors
<1>2. SectMore = Need - dec_winbytes /\ SectMore \in Nat /\ avail_in \in Nat
  BY <1>1, InputFacts DEF SectMore, USub
<1>3. take \in 0 .. avail_in /\ take <= SectMore /\ (SectCopy => take = avail_in)
  BY <1>2 DEF Lesser, SectCopy
<1>4. DECODE_INPUT(take)
  OBVIOUS
<1>. HIDE DEF take
<1>5. InputConserved' /\ avail_in' \in Nat /\ total_in' \in Nat
  BY <1>3, <1>4, Consume DEF FinishWindow
<1>6. Skipping /\ cur[1].type = XD3_NOOP /\ cur[2].type = XD3_NOOP
  BY <1>1 DEF Skipping, IInv, Quiet, SectStates
<1>7. CASE SectCopy
  <2>1. /\ dec_winbytes' = dec_winbytes + take /\ ret' = "XD3_INPUT"
        /\ UNCHANGED <<dec_state, sect>>
    BY <1>7 DEF take
  <2>2. dec_winbytes' \in Nat /\ dec_winbytes' <= Need
    BY <1>1, <1>2, <1>3, <2>1
  <2>3. TypeOK'
    BY <1>5, <2>1, <2>2 DEF IInv, TypeOK, Returns
  <2>4. Returned' /\ Quiet' /\ EmitInv' /\ SrcInv'
    BY <1>1, <2>1 DEF IInv, Returned, Quiet, EmitInv, SrcInv, SectStates, Errors
  <2>5. Progress' /\ SectInv'
    <3>1. Need' = Need /\ Skipping'
      BY <1>6, <2>1 DEF Need, Skipping
    <3>. QED BY <1>1, <2>1, <2>2, <3>1 DEF Progress, SectInv, SectStates
  <2>6. OutInv'
    BY <1>1, <2>1 DEF IInv, OutInv, OutputBounded, Live, Errors
  <2>. QED BY <1>5, <2>3, <2>4, <2>5, <2>6 DEF IInv
<1>8. CASE ~ SectCopy
  <2>1. FinishWindow(sect)
    BY <1>8
  <2>2. TypeOK'
    BY <1>1, <1>5, <2>1, FinishType DEF IInv, TypeOK
  <2>. QED BY <1>1, <1>5, <1>6, <2>1, <2>2, FinishFrame
<1>. QED BY <1>7, <1>8

LEMMA SectionInputStep == IInv /\ SectionInput => IInv'
<1>. SUFFICES ASSUME IInv, SectionInput PROVE IInv'
  OBVIOUS
<1>. USE DEF SectionInput, sectFrame, clientVars, fixedVars, inputVars, winVars,
             sectVars, emitVars, InSections
<1>1. TypeOK'
  BY DEF IInv, TypeOK, Returns
<1>2. InputConserved'
  BY ConsumeNone
<1>3. Returned' /\ Quiet' /\ EmitInv' /\ SrcInv'
  BY DEF IInv, Returned, Quiet, EmitInv, SrcInv, SectStates, Errors
<1>4. Progress'
  <2>1. /\ Current' = Current /\ SizeBefore' = SizeBefore
        /\ Need' = Need /\ (Skipping' <=> Skipping)
    BY DEF Current, SizeBefore, Done, Need, Skipping
  <2>2. sect[Current].pos < sect[Current].size
    BY DEF Current, SectStates
  <2>. QED BY <2>1, <2>2 DEF IInv, Progress, Position, Live, Errors, SectStates
<1>5. SectInv'
  <2>1. \A s \in SectNames : (Held(s)' <=> Held(s)) /\ (Ahead(s)' <=> Ahead(s))
    BY DEF Held, Ahead, Done, Need, next_in
  <2>. QED BY <2>1 DEF IInv, SectInv, Live, Errors, Skipping
<1>6. OutInv'
  BY DEF IInv, OutInv, OutputBounded, Live, Errors
<1>. QED BY <1>1, <1>2, <1>3, <1>4, <1>5, <1>6 DEF IInv
LEMMA RoundUpBound ==
  ASSUME NEW n \in Nat
  PROVE  RoundUp(n) \in n .. n + AllocSize - 1
<1>. DEFINE m == n + AllocSize - 1
            q == m \div AllocSize
<1>1. AllocSize \in Nat /\ AllocSize > 0 /\ m \in Nat
  BY DecodeAssumption
<1>2. m = AllocSize * q + (m % AllocSize) /\ m % AllocSize \in 0 .. AllocSize - 1 /\ q \in Nat
  BY <1>1
<1>. DEFINE r == m % AllocSize
            x == q * AllocSize
<1>3. x \in Nat /\ m = x + r /\ r \in 0 .. AllocSize - 1
  BY <1>1, <1>2
<1>. HIDE DEF r, x, q
<1>4. x \in n .. n + AllocSize - 1
  BY <1>1, <1>3
<1>5. q * AllocSize \in n .. n + AllocSize - 1
  BY <1>4 DEF x
<1>. QED BY <1>5 DEF RoundUp, q

\* What one call of xd3_decode_section leaves in the section it works on.
LEMMA TakenFacts ==
  ASSUME IInv, InSections, ~ Skipping, NEW s \in SectNames, s = Current,
         Need < UsizeMod, sect[s].pos < sect[s].size => avail_in > 0
  PROVE  LET t == Taken(s)
         IN  /\ t.take \in 0 .. avail_in /\ t.sect \in SectType
             /\ t.sect.size = sect[s].size
             /\ t.sect.pos = sect[s].pos + t.take /\ t.sect.pos <= sect[s].size
             /\ t.sect.pos < sect[s].size =>
                  t.take = avail_in /\ ~ t.sect.zerocopy
             /\ (t.sect.zerocopy /\ sect[s].size > 0) =>
                  /\ fed - buflen <= t.sect.at
                  /\ t.sect.at + sect[s].size <= next_in + t.take
                  /\ avail_in >= Need - dec_winbytes
             /\ ~ t.sect.zerocopy => t.sect.pos <= Len(t.sect.copied1)
<1>. DEFINE t == Taken(s)
            size == sect[s].size
            pos == sect[s].pos
<1>1. Live /\ ret = "run" /\ dec_state \in SectStates /\ ~ Done(s)
  BY DEF InSections, Live, Errors, Done, Current, SectStates
<1>2. /\ sect[s] \in SectType /\ size \in Nat /\ pos \in Nat /\ Need \in Nat
      /\ dec_winbytes \in Nat /\ dec_winbytes <= Need /\ pos <= size
      /\ dec_winbytes = SizeBefore + pos /\ sect[s].copied1 \in Seq(Byte)
  BY <1>1, SectFacts DEF IInv, Progress, Position
<1>3. /\ avail_in \in Nat /\ next_in \in Nat
      /\ \A n \in 0 .. avail_in : NextBytes(n) \in Seq(Byte) /\ Len(NextBytes(n)) = n
  <2>1. avail_in \in Nat /\ next_in \in Nat /\ file \in Seq(Byte)
        /\ next_in + avail_in <= Len(file) /\ Len(file) \in Nat
    BY InputFacts
  <2>. QED BY <2>1 DEF NextBytes
<1>4. fed - buflen <= next_in
  <2>1. fed \in Nat /\ buflen \in Nat /\ avail_in <= buflen
    <3>1. fed \in 0 .. Len(file) /\ buflen \in Nat /\ avail_in <= buflen
      BY DEF IInv, TypeOK, InputConserved
    <3>. QED BY <3>1, InputFacts
  <2>. QED BY <1>3, <2>1 DEF next_in
<1>5. SizeBefore + size <= Need /\ SizeBefore \in Nat
  <2>1. \A n \in SectNames : sect[n].size \in Nat
    BY SectFacts
  <2>. QED BY <1>1, <2>1 DEF SizeBefore, Need, SectNames, Done, Current, SectStates
<1>6. SectMore = Need - dec_winbytes
  BY <1>2 DEF SectMore, USub
<1>7. pos > 0 => ~ sect[s].zerocopy /\ pos <= Len(sect[s].copied1)
  BY <1>1 DEF IInv, SectInv, Held
<1>8. CASE Rest(s) = 0
  <2>1. pos = size /\ t = [take |-> 0, sect |-> sect[s]]
    BY <1>2, <1>8 DEF Rest, Taken
  <2>2. ~ sect[s].zerocopy => pos <= Len(sect[s].copied1)
    BY <1>2, <1>7
  <2>. QED BY <1>2, <1>3, <1>7, <2>1, <2>2
<1>9. CASE Rest(s) # 0 /\ Zero(s)
  <2>1. pos = 0 /\ avail_in >= Need - dec_winbytes
    BY <1>2, <1>3, <1>6, <1>9 DEF Zero, SectCopy
  <2>2. size \in 0 .. avail_in
    BY <1>2, <1>3, <1>5, <2>1
  <2>. DEFINE S == [sect[s] EXCEPT !.pos = size, !.zerocopy = TRUE, !.at = next_in,
                                   !.copied1 = sect[s].copied1]
  <2>3. t = [take |-> size, sect |-> S]
    <3>1. pos + size = size /\ Zero(s) = TRUE
      BY <1>2, <1>9, <2>1 DEF Zero
    <3>2. t.take = size
      BY <1>9, <3>1 DEF Taken, Take
    <3>. QED BY <1>9, <3>1, <3>2 DEF Taken, Take
  <2>. HIDE DEF t
  <2>4. t.take = size /\ t.sect.size = size /\ t.sect.pos = size /\ t.sect.zerocopy
        /\ t.sect.at = next_in /\ t.sect \in SectType
    BY <1>2, <1>3, <2>1, <2>3 DEF SectType
  <2>. HIDE DEF S
  <2>. QED BY <1>2, <1>3, <1>4, <2>1, <2>2, <2>4 DEF t
<1>10. CASE Rest(s) # 0 /\ ~ Zero(s)
  <2>. DEFINE n == Lesser(Rest(s), avail_in)
              kept == SubSeq(sect[s].copied1, 1, pos) \o NextBytes(n)
  <2>1. /\ n \in 0 .. avail_in /\ pos + n <= size
        /\ pos + n < size => n = avail_in
    <3>1. Rest(s) = size - pos /\ size - pos \in Nat
      BY <1>2, <1>3 DEF Rest
    <3>2. /\ n \in 0 .. avail_in /\ n <= Rest(s)
          /\ n < Rest(s) => n = avail_in
      BY <1>3, <3>1 DEF Lesser
    <3>. HIDE DEF n
    <3>. QED BY <1>2, <1>3, <3>1, <3>2
  <2>2. pos <= Len(sect[s].copied1)
    BY <1>2, <1>7
  <2>3. kept \in Seq(Byte) /\ Len(kept) = pos + n
    <3>1. /\ SubSeq(sect[s].copied1, 1, pos) \in Seq(Byte)
          /\ Len(SubSeq(sect[s].copied1, 1, pos)) = pos
      BY <1>2, <2>2
    <3>2. NextBytes(n) \in Seq(Byte) /\ Len(NextBytes(n)) = n
      BY <1>3, <2>1
    <3>. HIDE DEF n
    <3>. QED BY <3>1, <3>2
  <2>. DEFINE S == [sect[s] EXCEPT !.pos = pos + n, !.zerocopy = FALSE,
                                   !.at = sect[s].at, !.copied1 = kept]
  <2>4. t = [take |-> n, sect |-> S]
    <3>1. Zero(s) = FALSE
      BY <1>10 DEF Zero
    <3>. QED BY <1>10, <3>1 DEF Taken, Take, Kept
  <2>. HIDE DEF n, kept, t
  <2>5. t.take = n /\ t.sect.size = size /\ t.sect.pos = pos + n /\ ~ t.sect.zerocopy
        /\ t.sect.copied1 = kept /\ t.sect \in SectType
    <3>1. pos + n \in Nat
      BY <1>2, <1>3, <2>1
    <3>. HIDE DEF pos, size
    <3>2. S \in SectType
      BY <1>2, <2>3, <3>1 DEF SectType
    <3>3. S.size = sect[s].size /\ S.pos = pos + n /\ S.zerocopy = FALSE /\ S.copied1 = kept
      BY <1>2 DEF SectType
    <3>. QED BY <2>4, <3>2, <3>3 DEF size
  <2>. HIDE DEF S
  <2>. QED BY <1>2, <2>1, <2>3, <2>5 DEF t
<1>. QED BY <1>8, <1>9, <1>10
\* One call of xd3_decode_section, for each of the three sections.
LEMMA SectionStep ==
  ASSUME NEW s \in SectNames, NEW st \in SectStates, NEW nstate,
         <<s, st, nstate>> \in {<<"data", "DEC_DATA", "DEC_INST">>,
                               <<"inst", "DEC_INST", "DEC_ADDR">>,
                               <<"addr", "DEC_ADDR", "DEC_EMIT">>}
  PROVE  IInv /\ Section(s, st, nstate) => IInv'
<1>. SUFFICES ASSUME IInv, Section(s, st, nstate) PROVE IInv'
  OBVIOUS
<1>. DEFINE t    == Taken(s)
            done == t.sect.pos = t.sect.size
            S    == [sect EXCEPT ![s] = IF done THEN Complete(t.sect) ELSE t.sect]
            last == done /\ nstate = "DEC_EMIT"
<1>1. /\ ret = "run" /\ dec_state = st /\ InSections /\ ~ Skipping /\ s = Current
      /\ Need < UsizeMod /\ (sect[s].pos < sect[s].size => avail_in > 0)
      /\ Live /\ dec_state \in SectStates
  BY DEF Section, At, InSections, Current, SectStates, Live, Errors
<1>2. /\ t.take \in 0 .. avail_in /\ t.sect \in SectType
      /\ t.sect.size = sect[s].size
      /\ t.sect.pos = sect[s].pos + t.take /\ t.sect.pos <= sect[s].size
      /\ t.sect.pos < sect[s].size =>
           t.take = avail_in /\ ~ t.sect.zerocopy
      /\ (t.sect.zerocopy /\ sect[s].size > 0) =>
           /\ fed - buflen <= t.sect.at
           /\ t.sect.at + sect[s].size <= next_in + t.take
           /\ avail_in >= Need - dec_winbytes
      /\ ~ t.sect.zerocopy => t.sect.pos <= Len(t.sect.copied1)
  BY <1>1, TakenFacts
<1>3. /\ DECODE_INPUT(t.take)
      /\ IF last /\ ~ Emit
         THEN FinishWindow(S) /\ UNCHANGED space_out
         ELSE /\ sect' = S
              /\ dec_winbytes' = dec_winbytes + t.take
              /\ dec_state' = IF done THEN nstate ELSE st
              /\ IF last THEN SetupBuffers
                 ELSE /\ ret' = IF done THEN ret ELSE "XD3_INPUT"
                      /\ UNCHANGED space_out
      /\ UNCHANGED sectFrame
  BY DEF Section
<1>4. /\ UNCHANGED <<file, fed, buflen, flags, srckind, delivered, closed>>
      /\ UNCHANGED <<part, hdr, win, dec_winstart, current_window, dec_window_count>>
      /\ UNCHANGED <<acache, cur, dec_position, out, total_out, src>>
  BY <1>3 DEF sectFrame, clientVars, fixedVars, winVars, emitVars
<1>. HIDE DEF t
<1>5. /\ S \in [SectNames -> SectType]
      /\ \A n \in SectNames \ {s} : S[n] = sect[n]
      /\ S[s].size = sect[s].size /\ S[s].zerocopy = t.sect.zerocopy
      /\ S[s].at = t.sect.at /\ S[s].copied1 = t.sect.copied1
      /\ done => S[s].pos = 0 /\ S[s].buf = 0
      /\ ~ done => S[s] = t.sect
  <2>1. sect \in [SectNames -> SectType]
    BY SectFacts
  <2>2. Complete(t.sect) \in SectType
    BY <1>2 DEF SectType, Complete
  <2>3. /\ S[s] = IF done THEN Complete(t.sect) ELSE t.sect
        /\ \A n \in SectNames \ {s} : S[n] = sect[n]
        /\ S \in [SectNames -> SectType]
    BY <1>2, <2>1, <2>2
  <2>. HIDE DEF S
  <2>. QED BY <1>2, <2>2, <2>3 DEF SectType, Complete
<1>. HIDE DEF S
<1>6. /\ \A n \in SectNames : /\ S[n].size = sect[n].size /\ S[n].size \in Nat
                             /\ sect[n].pos \in Nat
      /\ Need \in Nat /\ dec_winbytes \in Nat /\ dec_winbytes <= Need
      /\ sect[s].pos <= sect[s].size /\ dec_winbytes = SizeBefore + sect[s].pos
      /\ \A n \in SectNames \ {s} : sect[n].pos = 0
      /\ avail_in \in Nat /\ t.take \in Nat /\ next_in \in Nat
  <2>1. /\ \A n \in SectNames : sect[n].size \in Nat /\ sect[n].pos \in Nat
        /\ Need \in Nat /\ dec_winbytes \in Nat
    BY SectFacts
  <2>2. /\ dec_winbytes <= Need /\ dec_winbytes = SizeBefore + sect[s].pos
        /\ sect[s].pos <= sect[s].size /\ \A n \in SectNames \ {s} : sect[n].pos = 0
    BY <1>1 DEF IInv, Progress, Position
  <2>3. avail_in \in Nat /\ next_in \in Nat
    BY InputFacts
  <2>4. t.take \in Nat
    BY <1>2, <2>3
  <2>5. \A n \in SectNames : S[n].size = sect[n].size
    BY <1>5
  <2>. QED BY <2>1, <2>2, <2>3, <2>4, <2>5
<1>7. ret' = "XD3_INPUT" => t.take = avail_in
  <2>1. ret' = "XD3_INPUT" => ~ done
    BY <1>1, <1>3 DEF FinishWindow, SetupBuffers
  <2>2. ~ done => t.sect.pos < sect[s].size
    BY <1>2, <1>6
  <2>. QED BY <1>2, <2>1, <2>2
<1>8. InputConserved' /\ avail_in' \in Nat /\ total_in' \in Nat
  BY <1>2, <1>3, <1>4, <1>7, Consume
<1>9. dec_position = win.cpylen /\ out = <<>> /\ cur[1].type = XD3_NOOP
      /\ cur[2].type = XD3_NOOP
  BY <1>1 DEF IInv, Quiet, SectStates
<1>10. space_out' \in Usize /\ space_out' <= HardMaxWin + AllocSize
       /\ space_out' >= space_out
  <2>1. /\ space_out \in Usize /\ win.tgtlen \in Usize
        /\ space_out <= HardMaxWin + AllocSize /\ win.tgtlen <= HardMaxWin
    <3>1. space_out \in Usize /\ win.tgtlen \in Usize
      BY DEF IInv, TypeOK
    <3>. QED BY <1>1, <3>1 DEF IInv, OutInv
  <2>2. RoundUp(win.tgtlen) \in win.tgtlen .. win.tgtlen + AllocSize - 1
    BY <2>1, RoundUpBound, IntAssumption DEF Usize
  <2>3. \/ space_out' = space_out
        \/ space_out < win.tgtlen /\ space_out' = RoundUp(win.tgtlen)
    BY <1>3 DEF SetupBuffers
  <2>. QED BY <2>1, <2>2, <2>3, IntAssumption, DecodeAssumption DEF Usize
<1>11. CASE last /\ ~ Emit
  <2>1. FinishWindow(S) /\ UNCHANGED space_out
    BY <1>3, <1>11
  <2>2. TypeOK'
    BY <1>4, <1>5, <1>8, <2>1, FinishType DEF IInv, TypeOK
  <2>. QED BY <1>1, <1>4, <1>5, <1>8, <1>9, <1>11, <2>1, <2>2, FinishFrame
<1>12. CASE ~ (last /\ ~ Emit)
  <2>1. /\ sect' = S /\ dec_winbytes' = dec_winbytes + t.take
        /\ dec_state' = IF done THEN nstate ELSE st
        /\ IF last THEN SetupBuffers
           ELSE ret' = (IF done THEN "run" ELSE "XD3_INPUT") /\ UNCHANGED space_out
    BY <1>1, <1>3, <1>12
  <2>2. ret' \in {"run", "XD3_INPUT"} \cup Errors /\ (ret' = "XD3_INPUT" => ~ done)
    BY <1>1, <2>1 DEF SetupBuffers, Errors
  <2>3. TypeOK'
    <3>1. dec_winbytes' \in Nat
      BY <1>6, <2>1
    <3>2. dec_state' \in DecStates /\ ret' \in Returns
      BY <2>1, <2>2 DEF DecStates, Returns, SectStates
    <3>. QED BY <1>4, <1>5, <1>8, <1>10, <2>1, <3>1, <3>2 DEF IInv, TypeOK
  <2>4. Returned'
    <3>1. Skipping' <=> Skipping
      BY <1>4 DEF Skipping
    <3>2. dec_state' \in SectStates \cup {"DEC_EMIT"}
      BY <2>1 DEF SectStates
    <3>3. dec_state' = "DEC_EMIT" => ret' # "XD3_INPUT"
      BY <2>1, <2>2 DEF SectStates
    <3>. QED BY <1>1, <2>2, <3>1, <3>2, <3>3 DEF Returned, SectStates, Errors
  <2>5. /\ Need' = Need /\ (Skipping' <=> Skipping)
        /\ \A n \in SectNames : Done(n)' <=> (Done(n) \/ (done /\ n = s))
    <3>1. Need' = Need /\ (Skipping' <=> Skipping)
      BY <1>4, <1>6, <2>1 DEF Need, Skipping, SectNames
    <3>2. \A n \in SectNames : Done(n)' <=> (Done(n) \/ (done /\ n = s))
      BY <1>1, <2>1 DEF Done, SectNames
    <3>. QED BY <3>1, <3>2
  <2>6. Progress'
    <3>1. dec_winbytes' = SizeBefore + t.sect.pos /\ dec_winbytes' <= Need
      <4>1. SizeBefore + sect[s].size <= Need /\ SizeBefore \in Nat
        BY <1>1, <1>5, <1>6 DEF SizeBefore, Need, SectNames, Done, Current, SectStates
      <4>2. t.sect.pos = sect[s].pos + t.take /\ t.sect.pos <= sect[s].size
        BY <1>2
      <4>3. sect[s].pos \in Nat /\ sect[s].size \in Nat /\ t.take \in Nat
        BY <1>6
      <4>. QED BY <1>6, <2>1, <4>1, <4>2, <4>3
    <3>2. CASE ~ done
      <4>1. Current' = s /\ SizeBefore' = SizeBefore /\ dec_state' = st
        BY <1>1, <1>6, <2>1, <2>5, <3>2
           DEF Current, SizeBefore, SectNames
      <4>2. t.sect.pos < t.sect.size /\ sect'[s] = t.sect
        BY <1>2, <1>5, <1>6, <2>1, <3>2
      <4>. QED BY <1>2, <1>5, <1>6, <2>1, <2>5, <3>1, <4>1, <4>2
               DEF Progress, Position, SectStates
    <3>3. CASE done
      <4>1. \A n \in SectNames : sect'[n].pos = 0
        BY <1>5, <1>6, <2>1, <3>3
      <4>2. dec_state' = nstate /\ ret' # "XD3_INPUT" /\ Current' \in SectNames
        BY <2>1, <2>2, <3>3 DEF Current, SectNames
      <4>3. dec_state' \in SectStates => SizeBefore' = SizeBefore + t.sect.pos
        <5>1. t.sect.pos = sect[s].size /\ \A n \in SectNames : sect'[n].size = sect[n].size
          BY <1>2, <1>6, <2>1, <3>3
        <5>2. \A n \in SectNames : sect[n].size \in Nat
          BY <1>6
        <5>3. CASE st = "DEC_DATA"
          BY <1>1, <4>2, <5>1, <5>2, <5>3 DEF SizeBefore, SectNames, Done
        <5>4. CASE st = "DEC_INST"
          BY <1>1, <4>2, <5>1, <5>2, <5>4 DEF SizeBefore, SectNames, Done
        <5>5. CASE st = "DEC_ADDR"
          BY <4>2, <5>5 DEF SectStates
        <5>. QED BY <5>3, <5>4, <5>5 DEF SectStates
      <4>4. \A n \in SectNames : sect'[n].size \in Nat
        BY <1>6, <2>1
      <4>5. SizeBefore' \in Nat
        BY <4>4 DEF SizeBefore, SectNames
      <4>6. dec_state' \in SectStates \cup {"DEC_EMIT"}
        BY <4>2 DEF SectStates
      <4>. QED BY <2>5, <3>1, <4>1, <4>2, <4>3, <4>4, <4>5, <4>6
               DEF Progress, Position
    <3>. QED BY <3>2, <3>3
  <2>7. SectInv'
    <3>. SUFFICES ASSUME NEW n \in SectNames PROVE Held(n)' /\ Ahead(n)'
      BY DEF SectInv
    <3>1. Held(n) /\ Ahead(n)
      BY <1>1 DEF IInv, SectInv
    <3>2. next_in' = next_in + t.take /\ avail_in' = avail_in - t.take
      <4>1. fed \in 0 .. Len(file)
        BY DEF IInv, TypeOK
      <4>2. fed \in Nat
        BY <4>1, InputFacts
      <4>3. avail_in' = avail_in - t.take /\ fed' = fed
        BY <1>3, <1>4 DEF DECODE_INPUT
      <4>. QED BY <1>6, <4>2, <4>3 DEF next_in
    <3>3. fed \in Nat /\ buflen \in Nat
      <4>1. fed \in 0 .. Len(file) /\ buflen \in Nat
        BY DEF IInv, TypeOK
      <4>. QED BY <4>1, InputFacts
    <3>4. CASE n # s
      <4>0. sect[n] \in SectType
        BY SectFacts
      <4>1. sect'[n] = sect[n] /\ (Done(n)' <=> Done(n)) /\ sect[n].pos = 0
        <5>1. S[n] = sect[n]
          BY <1>5, <3>4
        <5>2. sect'[n] = sect[n]
          BY <2>1, <5>1
        <5>3. Done(n)' <=> Done(n)
          BY <2>5, <3>4
        <5>4. sect[n].pos = 0
          BY <1>6, <3>4
        <5>. QED BY <5>2, <5>3, <5>4
      <4>2. Held(n)'
        <5>1. /\ sect[n].at \in Nat /\ sect[n].size \in Nat /\ sect[n].buf \in Nat
              /\ sect[n].zerocopy \in BOOLEAN /\ sect[n].copied1 \in Seq(Byte)
          BY <4>0 DEF SectType, Usize
        <5>2. next_in <= next_in'
          BY <1>6, <3>2
        <5>3. fed' - buflen' = fed - buflen
          BY <1>4
        <5>4. fed - buflen \in Int /\ next_in' \in Nat
          BY <1>6, <3>2, <3>3
        <5>. QED BY <1>6, <3>1, <4>1, <5>1, <5>2, <5>3, <5>4 DEF Held
      <4>3. Ahead(n)'
        BY <1>1, <1>6, <2>1, <2>5, <3>1, <3>2, <4>1 DEF Ahead, SectStates
      <4>. QED BY <4>2, <4>3
    <3>5. CASE n = s
      <4>1. ~ Done(s) /\ sect'[s] = S[s]
        BY <1>1, <2>1 DEF Done, Current, SectStates
      <4>2. CASE done
        <5>1. t.sect.pos = sect[s].size /\ sect'[s].buf = 0 /\ sect'[s].pos = 0
              /\ sect'[s].size = sect[s].size /\ sect'[s].zerocopy = t.sect.zerocopy
              /\ sect'[s].at = t.sect.at /\ sect'[s].copied1 = t.sect.copied1
              /\ sect[s].size \in Nat /\ Done(s)'
          BY <1>2, <1>5, <1>6, <2>5, <4>1, <4>2
        <5>2. Held(s)'
          BY <1>2, <1>4, <3>2, <5>1 DEF Held
        <5>3. Ahead(s)'
          BY <1>2, <1>6, <2>1, <2>5, <3>2, <5>1 DEF Ahead
        <5>. QED BY <3>5, <5>2, <5>3
      <4>3. CASE ~ done
        BY <1>2, <1>5, <1>6, <2>1, <2>5, <3>5, <4>1, <4>3 DEF Held, Ahead
      <4>. QED BY <4>2, <4>3
    <3>. QED BY <3>4, <3>5
  <2>8. Quiet' /\ SrcInv'
    BY <1>4, <1>9, <2>1 DEF IInv, Quiet, SrcInv, SectStates
  <2>9. EmitInv'
    <3>1. win.cpylen \in Nat
      <4>1. win.cpylen \in Usize
        BY DEF IInv, TypeOK
      <4>. QED BY <4>1, IntAssumption DEF Usize
    <3>. QED BY <1>4, <1>9, <3>1 DEF EmitInv, Size, XD3_NOOP, XD3_CPY
  <2>10. OutInv'
    <3>1. Len(out') <= space_out' /\ (Live' => win'.tgtlen <= HardMaxWin)
      <4>1. space_out' \in Nat
        BY <1>10, IntAssumption DEF Usize
      <4>. QED BY <1>1, <1>4, <1>9, <4>1 DEF IInv, OutInv
    <3>. QED BY <1>10, <2>2, <3>1 DEF OutInv, OutputBounded, Errors
  <2>. QED BY <1>8, <2>3, <2>4, <2>6, <2>7, <2>8, <2>9, <2>10 DEF IInv
<1>. QED BY <1>11, <1>12
-----------------------------------------------------------------------------
(* The instructions.                                                       *)

\* Inside xd3_decode_emit every section is there to be read.
LEMMA ContentsType ==
  ASSUME IInv, dec_state = "DEC_EMIT", Live, NEW s \in SectNames
  PROVE  /\ Contents(s) \in Seq(Byte) /\ Len(Contents(s)) = sect[s].size
         /\ sect[s].size \in Nat /\ sect[s].buf \in 0 .. sect[s].size
<1>1. /\ sect[s] \in SectType /\ sect[s].size \in Nat
      /\ sect[s].copied1 \in Seq(Byte)
  BY SectFacts
<1>2. ~ Skipping /\ Done(s)
  BY DEF IInv, Returned, Done
<1>3. Held(s)
  BY <1>2 DEF IInv, SectInv
<1>4. sect[s].buf \in 0 .. sect[s].size
  BY <1>1, <1>2, <1>3 DEF Held, SectType
<1>5. CASE ~ sect[s].zerocopy
  <2>1. sect[s].size <= Len(sect[s].copied1)
    BY <1>2, <1>3, <1>5 DEF Held
  <2>2. Contents(s) = SubSeq(sect[s].copied1, 1, sect[s].size)
    BY <1>5 DEF Contents
  <2>. QED BY <1>1, <1>4, <2>1, <2>2
<1>6. CASE sect[s].zerocopy
  <2>1. sect[s].size > 0 => sect[s].at + sect[s].size <= next_in
    BY <1>2, <1>3, <1>6 DEF Held
  <2>2. file \in Seq(Byte) /\ next_in \in Nat /\ next_in <= Len(file) /\ Len(file) \in Nat
    BY InputFacts
  <2>3. Contents(s) = SubSeq(file, sect[s].at + 1, sect[s].at + sect[s].size)
    BY <1>6 DEF Contents
  <2>4. sect[s].at \in Nat
    BY <1>1 DEF SectType
  <2>5. CASE sect[s].size > 0
    <3>1. sect[s].at + sect[s].size <= Len(file)
      BY <1>1, <2>1, <2>2, <2>4, <2>5
    <3>2. Contents(s) \in Seq(Byte) /\ Len(Contents(s)) = sect[s].size
      <4>. DEFINE i == sect[s].at
                  n == sect[s].size
      <4>1. i \in Nat /\ n \in Nat /\ i + n <= Len(file)
        BY <1>1, <2>4, <3>1
      <4>2. Contents(s) = SubSeq(file, i + 1, i + n)
        BY <2>3
      <4>. HIDE DEF i, n
      <4>3. Contents(s) \in Seq(Byte) /\ Len(Contents(s)) = n
        BY <2>2, <4>1, <4>2, SubSeqType
      <4>. QED BY <4>3 DEF n
    <3>. QED BY <1>1, <1>4, <3>2
  <2>6. CASE sect[s].size = 0
    <3>1. Contents(s) = <<>>
      BY <2>2, <2>3, <2>4, <2>6
    <3>. QED BY <1>1, <1>4, <2>6, <3>1
  <2>. QED BY <1>1, <2>5, <2>6
<1>. QED BY <1>5, <1>6

\* What xd3_decode_parse_halfinst is given and gives back.
HalfInst == [type : InstTypes, size : Usize, addr : Usize]

Context == [ok : BOOLEAN, inst : 0 .. sect["inst"].size,
            addr : 0 .. sect["addr"].size, acache : Cache, position : Usize,
            half : HalfInst]

\* A half-instruction that was accepted for position p, and the position it
\* ends at.
Accepted(h, p, q) ==
  /\ q <= p + (IF h.type = XD3_NOOP THEN 0 ELSE h.size)
  /\ h.type >= XD3_CPY =>
       /\ h.addr < p
       /\ h.addr < win.cpylen => UAdd(h.addr, h.size) <= win.cpylen

LEMMA ParseHalfFacts ==
  ASSUME IInv, dec_state = "DEC_EMIT", Live, NEW c \in Context,
         NEW type \in InstTypes, NEW size \in Usize
  PROVE  LET d == ParseHalf(c, type, size)
         IN  /\ d \in Context /\ d.half.type = type
             /\ d.ok => c.ok /\ Accepted(d.half, c.position, d.position)
<1>. DEFINE d == ParseHalf(c, type, size)
            r == IF size = 0 THEN ReadInt(Contents("inst"), c.inst)
                             ELSE [ok |-> TRUE, val |-> size, next |-> c.inst]
            copy == type >= XD3_CPY
            a == DecodeAddress(c.acache, c.position, type - XD3_CPY,
                               Contents("addr"), c.addr)
            pos == UAdd(c.position, r.val)
<1>1. /\ Contents("inst") \in Seq(Byte) /\ Len(Contents("inst")) = sect["inst"].size
      /\ Contents("addr") \in Seq(Byte) /\ Len(Contents("addr")) = sect["addr"].size
      /\ sect["inst"].size \in Nat /\ sect["addr"].size \in Nat
  BY ContentsType DEF SectNames
<1>2. /\ c.ok \in BOOLEAN /\ c.acache \in Cache /\ c.position \in Usize
      /\ c.inst \in 0 .. sect["inst"].size /\ c.addr \in 0 .. sect["addr"].size
  BY DEF Context
<1>3. UsizeMod \in Nat /\ 0 \in Usize /\ Usize \subseteq Nat
  BY IntAssumption DEF Usize
<1>4. CASE type = XD3_NOOP \/ ~ c.ok
  <2>. DEFINE half == [type |-> type, size |-> size, addr |-> 0]
  <2>1. d = [c EXCEPT !.half = half]
    BY <1>4 DEF ParseHalf
  <2>2. half \in HalfInst
    BY <1>3 DEF HalfInst
  <2>. HIDE DEF d
  <2>3. d \in Context /\ d.half = half /\ d.ok = c.ok /\ d.position = c.position
    BY <2>1, <2>2 DEF Context
  <2>4. d.ok => Accepted(d.half, c.position, d.position)
    <3>1. c.position \in Nat /\ d.half.type = type
      BY <1>2, <1>3, <2>3
    <3>. QED BY <1>4, <2>3, <3>1 DEF Accepted, XD3_NOOP, XD3_CPY
  <2>. QED BY <1>4, <2>3, <2>4 DEF d
<1>5. CASE type # XD3_NOOP /\ c.ok
  <2>. DEFINE half == [type |-> type, size |-> r.val, addr |-> IF copy THEN a.addr ELSE 0]
              ok == r.ok /\ (copy => Known(c, a, r.val)) /\ pos <= win.maxpos
  <2>1. r.ok \in BOOLEAN /\ r.val \in Usize /\ r.next \in 0 .. sect["inst"].size
    <3>1. CASE size = 0
      <4>1. r = ReadInt(Contents("inst"), c.inst)
        BY <3>1
      <4>2. /\ ReadInt(Contents("inst"), c.inst).ok \in BOOLEAN
            /\ ReadInt(Contents("inst"), c.inst).val \in Usize
            /\ ReadInt(Contents("inst"), c.inst).next \in c.inst .. sect["inst"].size
        BY <1>1, <1>2, ReadIntType
      <4>. HIDE DEF r
      <4>3. c.inst \in Nat /\ sect["inst"].size \in Nat
        BY <1>1, <1>2
      <4>. QED BY <4>1, <4>2, <4>3
    <3>2. CASE size # 0
      BY <1>2, <3>2
    <3>. QED BY <3>1, <3>2
  <2>2. copy => /\ a.ok \in BOOLEAN /\ a.addr \in Usize /\ a.cache \in Cache
                /\ a.next \in 0 .. sect["addr"].size
    <3>. SUFFICES ASSUME copy
                  PROVE  /\ a.ok \in BOOLEAN /\ a.addr \in Usize /\ a.cache \in Cache
                         /\ a.next \in 0 .. sect["addr"].size
      OBVIOUS
    <3>1. type - XD3_CPY \in Modes
      BY CacheAssumption DEF InstTypes, Modes, XD3_CPY, XD3_NOOP, SameStart
    <3>2. /\ a.ok \in BOOLEAN /\ a.addr \in Usize
          /\ a.next \in c.addr .. Len(Contents("addr")) /\ a.cache \in Cache
      BY <1>1, <1>2, <3>1, DecodeAddressType
    <3>. HIDE DEF a
    <3>. QED BY <1>1, <1>2, <3>2
  <2>. HIDE DEF r, a
  <2>3. pos \in Usize /\ pos <= c.position + r.val
    BY <1>2, <2>1, UAddType
  <2>. HIDE DEF pos
  <2>4. half \in HalfInst
    BY <1>3, <2>1, <2>2 DEF HalfInst
  <2>5. d = [ok       |-> ok,
             inst     |-> r.next,
             addr     |-> IF copy THEN a.next ELSE c.addr,
             acache   |-> IF copy THEN a.cache ELSE c.acache,
             position |-> pos,
             half     |-> half]
    BY <1>5 DEF ParseHalf, r, a, pos
  <2>6. ok \in BOOLEAN
    OBVIOUS
  <2>7. ASSUME ok PROVE Accepted(half, c.position, pos)
    <3>1. half.type = type /\ half.size = r.val /\ (copy => half.addr = a.addr)
      OBVIOUS
    <3>2. ASSUME copy
          PROVE  a.addr < c.position /\ (a.addr < win.cpylen =>
                                           UAdd(a.addr, r.val) <= win.cpylen)
      <4>1. a.addr < c.position /\ ~ (a.addr < win.cpylen
                                         /\ UAdd(a.addr, r.val) > win.cpylen)
        BY <2>7, <3>2 DEF Known
      <4>2. UAdd(a.addr, r.val) \in Usize /\ win.cpylen \in Usize
        <5>1. win.cpylen \in Usize
          BY DEF IInv, TypeOK
        <5>. QED BY <2>1, <2>2, <3>2, <5>1, UAddType
      <4>3. UAdd(a.addr, r.val) \in Nat /\ win.cpylen \in Nat
        BY <1>3, <4>2
      <4>. QED BY <4>1, <4>3
    <3>. HIDE DEF half, ok
    <3>3. half.type # XD3_NOOP /\ (half.type >= XD3_CPY => type >= XD3_CPY)
      BY <1>5, <3>1
    <3>. QED BY <2>3, <3>1, <3>2, <3>3 DEF Accepted
  <2>. HIDE DEF ok, half, d
  <2>8. d \in Context
    BY <1>2, <2>1, <2>2, <2>3, <2>4, <2>5, <2>6 DEF Context
  <2>9. d.ok = ok /\ d.half = half /\ d.position = pos
    BY <2>5
  <2>. QED BY <1>5, <2>7, <2>8, <2>9 DEF d, half
<1>. QED BY <1>2, <1>4, <1>5
Insts == [1 .. 2 -> HalfInst]

\* A step of xd3_decode_emit that does not end it.
LEMMA EmitFrame ==
  ASSUME IInv, dec_state = "DEC_EMIT", ret \in {"run", "emit"},
         UNCHANGED <<emitFrame, dec_state, dec_winbytes, total_out>>,
         ret' \in {"emit", "XD3_GETSRCBLK"},
         sect' \in [SectNames -> SectType],
         \A s \in SectNames :
           /\ sect'[s].size = sect[s].size /\ sect'[s].pos = sect[s].pos
           /\ sect'[s].zerocopy = sect[s].zerocopy /\ sect'[s].at = sect[s].at
           /\ sect'[s].copied1 = sect[s].copied1 /\ sect'[s].buf <= sect[s].size,
         acache' \in Cache, cur' \in Insts, dec_position' \in Usize,
         out' \in Seq(Byte), Len(out') <= space_out,
         src' \in SourceState, SrcInv', EmitInv'
  PROVE  IInv'
<1>. USE DEF emitFrame, clientVars, fixedVars, inputVars, winVars
<1>1. Live /\ ~ Skipping
  BY DEF Live, Errors, IInv, Returned
<1>2. TypeOK'
  BY DEF IInv, TypeOK, Returns, Insts, HalfInst
<1>3. InputConserved'
  BY ConsumeNone
<1>4. Returned'
  BY <1>1 DEF Returned, Skipping, Errors
<1>5. Progress'
  <2>1. \A s \in SectNames : sect'[s].pos = 0
    BY <1>1 DEF IInv, Progress, Position, SectStates
  <2>. QED BY <2>1 DEF Progress, Position, SectStates
<1>6. SectInv'
  <2>. SUFFICES ASSUME NEW s \in SectNames PROVE Held(s)' /\ Ahead(s)'
    BY DEF SectInv
  <2>1. Held(s) /\ Done(s) /\ Done(s)'
    BY <1>1 DEF IInv, SectInv, Done
  <2>2. next_in' = next_in
    BY DEF next_in
  <2>. QED BY <2>1, <2>2 DEF Held, Ahead
<1>7. Quiet'
  BY DEF Quiet, SectStates
<1>8. OutInv'
  BY <1>1 DEF IInv, OutInv, OutputBounded
<1>. QED BY <1>2, <1>3, <1>4, <1>5, <1>6, <1>7, <1>8 DEF IInv

\* A step of xd3_decode_emit that fails.
LEMMA EmitFails ==
  ASSUME IInv, dec_state = "DEC_EMIT",
         UNCHANGED <<emitFrame, dec_state, sectVars, acache, emitVars>>,
         ret' = "XD3_INVALID_INPUT", src' \in SourceState, SrcInv'
  PROVE  IInv'
<1>. USE DEF emitFrame, clientVars, fixedVars, inputVars, winVars, sectVars, emitVars
<1>1. TypeOK'
  BY DEF IInv, TypeOK, Returns, Errors
<1>2. InputConserved'
  BY ConsumeNone
<1>3. Quiet' /\ ~ Skipping'
  BY DEF IInv, Returned, Quiet, SectStates, Skipping
<1>4. Len(out') <= space_out' /\ space_out' <= HardMaxWin + AllocSize
  BY DEF IInv, OutInv, OutputBounded
<1>. QED BY <1>1, <1>2, <1>3, <1>4, Fails DEF Errors

LEMMA EmitTypes ==
  ASSUME IInv
  PROVE  /\ sect \in [SectNames -> SectType] /\ acache \in Cache /\ cur \in Insts
         /\ dec_position \in Usize /\ out \in Seq(Byte) /\ space_out \in Usize
         /\ src \in SourceState /\ win.cpylen \in Usize /\ win.cpyoff \in Xoff
         /\ Len(out) <= space_out /\ SrcInv
BY DEF IInv, TypeOK, OutInv, OutputBounded, Insts, HalfInst

LEMMA EmitEnterStep == IInv /\ EmitEnter => IInv'
<1>. SUFFICES ASSUME IInv, EmitEnter PROVE IInv'
  OBVIOUS
<1>. USE DEF EmitEnter, At, sectVars, emitVars
<1>1. /\ sect \in [SectNames -> SectType] /\ acache \in Cache /\ cur \in Insts
      /\ dec_position \in Usize /\ out \in Seq(Byte) /\ src \in SourceState
      /\ win.cpyoff \in Xoff /\ Len(out) <= space_out /\ SrcInv
  BY EmitTypes
<1>2. Live
  BY DEF Live, Errors
<1>3. /\ BlkDiv(win.cpyoff).blk \in Xoff /\ BlkDiv(win.cpyoff).off \in 0 .. BlkSize - 1
  <2>1. win.cpyoff \in Nat /\ XoffMod \in Nat /\ win.cpyoff < XoffMod
    BY <1>1, IntAssumption DEF Xoff
  <2>2. /\ win.cpyoff \div BlkSize \in 0 .. win.cpyoff
        /\ win.cpyoff % BlkSize \in 0 .. BlkSize - 1
    BY <2>1, DivBound, SourceAssumption
  <2>. QED BY <2>1, <2>2 DEF BlkDiv, Xoff
<1>4. src' \in SourceState /\ SrcInv'
  <2>1. \/ src' = src
        \/ src' = [src EXCEPT !.cpyoff_blocks = BlkDiv(win.cpyoff).blk,
                             !.cpyoff_blkoff = BlkDiv(win.cpyoff).off]
    OBVIOUS
  <2>. QED BY <1>1, <1>3, <2>1 DEF SourceState, SrcInv
<1>5. CASE ret' = "XD3_INVALID_INPUT"
  BY <1>4, <1>5, EmitFails
<1>6. CASE ret' = "emit"
  <2>1. EmitInv'
    BY <1>2, <1>6 DEF IInv, EmitInv, Live, Errors, Size, emitFrame
  <2>2. \A s \in SectNames : sect[s].buf <= sect[s].size
    BY <1>2, ContentsType
  <2>. QED BY <1>1, <1>4, <1>6, <2>1, <2>2, EmitFrame
<1>. QED BY <1>5, <1>6
LEMMA DecodeInstructionStep == IInv /\ DecodeInstruction => IInv'
<1>. SUFFICES ASSUME IInv, DecodeInstruction PROVE IInv'
  OBVIOUS
<1>. DEFINE code == CodeTable[Contents("inst")[sect["inst"].buf + 1]]
            c0 == [ok |-> TRUE, inst |-> sect["inst"].buf + 1,
                   addr |-> sect["addr"].buf, acache |-> acache,
                   position |-> dec_position, half |-> NoInst]
            c1 == ParseHalf(c0, code.type1, code.size1)
            c2 == ParseHalf(c1, code.type2, code.size2)
<1>1. /\ sect \in [SectNames -> SectType] /\ acache \in Cache /\ cur \in Insts
      /\ dec_position \in Usize /\ out \in Seq(Byte) /\ src \in SourceState
      /\ Len(out) <= space_out /\ SrcInv /\ win.cpylen \in Usize
  BY EmitTypes
<1>2. /\ ret = "emit" /\ dec_state = "DEC_EMIT" /\ Live
      /\ cur[1].type = XD3_NOOP /\ cur[2].type = XD3_NOOP /\ ~ SectEnd("inst")
  BY DEF DecodeInstruction, IInv, Returned, Live, Errors
<1>3. \A s \in SectNames :
        /\ Contents(s) \in Seq(Byte) /\ Len(Contents(s)) = sect[s].size
        /\ sect[s].size \in Nat /\ sect[s].buf \in 0 .. sect[s].size
  BY <1>2, ContentsType
<1>4. IF c2.ok
      THEN /\ cur' = [k \in 1 .. 2 |-> IF k = 1 THEN c1.half ELSE c2.half]
           /\ sect' = [sect EXCEPT !["inst"].buf = c2.inst, !["addr"].buf = c2.addr]
           /\ acache' = c2.acache
           /\ dec_position' = c2.position
           /\ UNCHANGED ret
      ELSE /\ ret' = "XD3_INVALID_INPUT"
           /\ UNCHANGED <<cur, sect, acache, dec_position>>
  BY DEF DecodeInstruction
<1>5. UNCHANGED <<emitFrame, dec_state, dec_winbytes, out, total_out, src>>
  BY DEF DecodeInstruction
<1>6. sect["inst"].buf + 1 \in 1 .. sect["inst"].size /\ sect["addr"].buf \in 0 .. sect["addr"].size
  BY <1>2, <1>3 DEF SectEnd, SectNames
<1>7. code \in [type1 : InstTypes, size1 : Usize, type2 : InstTypes, size2 : Usize]
  <2>1. Contents("inst")[sect["inst"].buf + 1] \in Byte
    BY <1>3, <1>6 DEF SectNames
  <2>2. CodeTable \in [Byte -> [type1 : InstTypes, size1 : Usize,
                               type2 : InstTypes, size2 : Usize]]
    BY DecodeAssumption
  <2>. QED BY <2>1, <2>2
<1>. HIDE DEF code
<1>8. c0 \in Context
  <2>1. NoInst \in HalfInst
    BY IntAssumption, CacheAssumption
       DEF NoInst, HalfInst, Usize, InstTypes, XD3_NOOP, XD3_CPY, SameStart
  <2>2. sect["inst"].buf + 1 \in 0 .. sect["inst"].size
    BY <1>3, <1>6 DEF SectNames
  <2>. QED BY <1>1, <1>6, <2>1, <2>2 DEF Context
<1>9. c0.position = dec_position
  OBVIOUS
<1>. HIDE DEF c0
<1>10. /\ c1 \in Context /\ c1.half.type = code.type1
       /\ c1.ok => c0.ok /\ Accepted(c1.half, c0.position, c1.position)
  BY <1>2, <1>7, <1>8, ParseHalfFacts
<1>. HIDE DEF c1
<1>11. /\ c2 \in Context /\ c2.half.type = code.type2
       /\ c2.ok => c1.ok /\ Accepted(c2.half, c1.position, c2.position)
  BY <1>2, <1>7, <1>10, ParseHalfFacts
<1>. HIDE DEF c2
<1>12. CASE ~ c2.ok
  BY <1>1, <1>2, <1>4, <1>5, <1>12, EmitFails DEF sectVars, emitVars, SrcInv
<1>13. CASE c2.ok
  <2>1. /\ cur' = [k \in 1 .. 2 |-> IF k = 1 THEN c1.half ELSE c2.half]
        /\ sect' = [sect EXCEPT !["inst"].buf = c2.inst, !["addr"].buf = c2.addr]
        /\ acache' = c2.acache /\ dec_position' = c2.position /\ ret' = "emit"
    BY <1>2, <1>4, <1>13
  <2>2. /\ c1.half \in HalfInst /\ c1.position \in Usize
        /\ c2.half \in HalfInst /\ c2.position \in Usize /\ c2.acache \in Cache
        /\ c2.inst \in 0 .. sect["inst"].size /\ c2.addr \in 0 .. sect["addr"].size
    BY <1>10, <1>11 DEF Context
  <2>3. cur' \in Insts /\ cur'[1] = c1.half /\ cur'[2] = c2.half
    BY <2>1, <2>2 DEF Insts
  <2>4. /\ sect' \in [SectNames -> SectType]
        /\ \A s \in SectNames :
             /\ sect'[s].size = sect[s].size /\ sect'[s].pos = sect[s].pos
             /\ sect'[s].zerocopy = sect[s].zerocopy /\ sect'[s].at = sect[s].at
             /\ sect'[s].copied1 = sect[s].copied1 /\ sect'[s].buf <= sect[s].size
    <3>1. c2.inst \in Nat /\ c2.addr \in Nat /\ c2.inst <= sect["inst"].size
          /\ c2.addr <= sect["addr"].size
      BY <1>3, <2>2 DEF SectNames
    <3>2. sect' \in [SectNames -> SectType]
      BY <1>1, <2>1, <3>1 DEF SectType, SectNames
    <3>3. ASSUME NEW s \in SectNames
          PROVE  /\ sect'[s].size = sect[s].size /\ sect'[s].pos = sect[s].pos
                 /\ sect'[s].zerocopy = sect[s].zerocopy /\ sect'[s].at = sect[s].at
                 /\ sect'[s].copied1 = sect[s].copied1 /\ sect'[s].buf <= sect[s].size
      <4>1. sect[s] \in SectType /\ sect[s].buf <= sect[s].size
        BY <1>1, <1>3
      <4>2. \/ sect'[s] = sect[s]
            \/ s = "inst" /\ sect'[s] = [sect[s] EXCEPT !.buf = c2.inst]
            \/ s = "addr" /\ sect'[s] = [sect[s] EXCEPT !.buf = c2.addr]
        BY <1>1, <2>1 DEF SectNames
      <4>. QED BY <3>1, <4>1, <4>2 DEF SectType
    <3>. QED BY <3>2, <3>3
  <2>5. EmitInv'
    <3>1. /\ dec_position <= win.cpylen + Len(out) /\ Len(out) \in Nat
          /\ dec_position \in Nat /\ win.cpylen \in Nat
          /\ c1.position \in Nat /\ c2.position \in Nat
          /\ c1.half.size \in Nat /\ c2.half.size \in Nat
          /\ c1.half.addr \in Nat /\ c2.half.addr \in Nat
      <4>1. Usize \subseteq Nat
        BY IntAssumption DEF Usize
      <4>2. c1.half.size \in Usize /\ c2.half.size \in Usize
            /\ c1.half.addr \in Usize /\ c2.half.addr \in Usize
        BY <2>2 DEF HalfInst
      <4>3. /\ Len(out) \in Nat /\ dec_position \in Nat /\ win.cpylen \in Nat
            /\ c1.position \in Nat /\ c2.position \in Nat
            /\ c1.half.size \in Nat /\ c2.half.size \in Nat
            /\ c1.half.addr \in Nat /\ c2.half.addr \in Nat
        BY <1>1, <2>2, <4>1, <4>2
      <4>4. dec_position <= win.cpylen + Len(out) + Size(1) + Size(2)
            /\ Size(1) = 0 /\ Size(2) = 0
        BY <1>2 DEF IInv, EmitInv, Size
      <4>. QED BY <4>3, <4>4
    <3>2. /\ Accepted(c1.half, dec_position, c1.position)
          /\ Accepted(c2.half, c1.position, c2.position)
      BY <1>9, <1>10, <1>11, <1>13
    <3>3. win' = win /\ out' = out
      BY <1>5 DEF emitFrame
    <3>4. /\ c1.position <= win.cpylen + Len(out) + Size(1)'
          /\ c2.position <= win.cpylen + Len(out) + Size(1)' + Size(2)'
          /\ Size(1)' \in Nat /\ Size(2)' \in Nat
      <4>1. /\ Size(1)' = IF c1.half.type = XD3_NOOP THEN 0 ELSE c1.half.size
            /\ Size(2)' = IF c2.half.type = XD3_NOOP THEN 0 ELSE c2.half.size
        BY <2>3 DEF Size
      <4>2. Size(1)' \in Nat /\ Size(2)' \in Nat
        BY <3>1, <4>1
      <4>3. c1.position <= dec_position + Size(1)' /\ c2.position <= c1.position + Size(2)'
        BY <3>2, <4>1 DEF Accepted
      <4>. DEFINE base == win.cpylen + Len(out)
      <4>4. base \in Nat /\ dec_position <= base
        BY <3>1
      <4>. HIDE DEF base
      <4>5. c1.position <= base + Size(1)'
        BY <3>1, <4>2, <4>3, <4>4
      <4>6. c2.position <= base + Size(1)' + Size(2)'
        BY <3>1, <4>2, <4>3, <4>4, <4>5
      <4>. QED BY <4>2, <4>5, <4>6 DEF base
    <3>5. /\ c1.half.type >= XD3_CPY => c1.half.addr < win.cpylen + Len(out)
          /\ c2.half.type >= XD3_CPY => c2.half.addr < win.cpylen + Len(out) + Size(1)'
      <4>1. c1.half.type >= XD3_CPY => c1.half.addr < dec_position
        BY <3>2 DEF Accepted
      <4>2. c2.half.type >= XD3_CPY => c2.half.addr < c1.position
        BY <3>2 DEF Accepted
      <4>3. c1.half.type >= XD3_CPY => c1.half.addr < win.cpylen + Len(out)
        BY <3>1, <4>1
      <4>4. c2.half.type >= XD3_CPY => c2.half.addr < win.cpylen + Len(out) + Size(1)'
        <5>. DEFINE bound == win.cpylen + Len(out) + Size(1)'
        <5>1. bound \in Nat /\ c1.position <= bound
          BY <3>1, <3>4
        <5>. HIDE DEF bound
        <5>. QED BY <3>1, <4>2, <5>1 DEF bound
      <4>. QED BY <4>3, <4>4
    <3>6. \A k \in 1 .. 2 :
            (cur'[k].type >= XD3_CPY /\ cur'[k].addr < win.cpylen) =>
               UAdd(cur'[k].addr, cur'[k].size) <= win.cpylen
      BY <2>3, <3>2 DEF Accepted
    <3>. QED BY <2>1, <2>3, <3>3, <3>4, <3>5, <3>6 DEF EmitInv
  <2>. QED BY <1>1, <1>2, <1>5, <2>1, <2>2, <2>3, <2>4, <2>5, EmitFrame DEF SrcInv
<1>. QED BY <1>12, <1>13
-----------------------------------------------------------------------------
(* The output.                                                             *)

LEMMA NoopType == XD3_NOOP \in InstTypes
BY CacheAssumption DEF InstTypes, XD3_NOOP, XD3_CPY, SameStart

LEMMA PendingFacts ==
  ASSUME IInv, Pending
  PROVE  /\ ret = "emit" /\ dec_state = "DEC_EMIT" /\ Live /\ Half \in 1 .. 2
         /\ cur \in Insts /\ inst = cur[Half] /\ inst \in HalfInst
         /\ inst.type # XD3_NOOP /\ inst.size \in Nat /\ inst.addr \in Nat
         /\ inst.size \in Usize /\ inst.addr \in Usize
         /\ Half = 2 => cur[1].type = XD3_NOOP
         /\ win.cpylen \in Nat /\ Len(out) \in Nat /\ space_out \in Nat
         /\ dec_position \in Nat /\ UsizeMod \in Nat
<1>1. /\ cur \in Insts /\ dec_position \in Usize /\ out \in Seq(Byte)
      /\ space_out \in Usize /\ win.cpylen \in Usize
  BY EmitTypes
<1>2. Half \in 1 .. 2 /\ inst = cur[Half] /\ (Half = 2 => cur[1].type = XD3_NOOP)
  BY DEF Half, inst
<1>3. inst \in HalfInst
  BY <1>1, <1>2 DEF Insts
<1>4. ret = "emit" /\ inst.type # XD3_NOOP /\ dec_state = "DEC_EMIT" /\ Live
  BY DEF Pending, IInv, Returned, Live, Errors
<1>5. inst.size \in Usize /\ inst.addr \in Usize
  BY <1>3 DEF HalfInst
<1>6. /\ inst.size \in Nat /\ inst.addr \in Nat /\ win.cpylen \in Nat
      /\ space_out \in Nat /\ dec_position \in Nat /\ UsizeMod \in Nat
  BY <1>1, <1>5, IntAssumption DEF Usize
<1>7. Len(out) \in Nat
  BY <1>1
<1>. QED BY <1>1, <1>2, <1>3, <1>4, <1>5, <1>6, <1>7

LEMMA FitsFacts ==
  ASSUME IInv, Pending, Fits
  PROVE  Len(out) + inst.size <= space_out
<1>1. /\ inst.size \in Nat /\ Len(out) \in Nat /\ UsizeMod \in Nat
  BY PendingFacts
<1>2. Len(out) + inst.size <= UsizeMod - 1
  BY <1>1 DEF Fits, UsizeOverflow
<1>. QED BY <1>1, <1>2 DEF Fits, UAdd

\* n bytes of the pending half are written, and h is what is left of it.
LEMMA Written ==
  ASSUME IInv, Pending, NEW n \in 0 .. inst.size, NEW h \in HalfInst,
         Len(out') = Len(out) + n, cur' = [cur EXCEPT ![Half] = h],
         UNCHANGED <<win, dec_state, dec_position>>,
         \/ h.type = XD3_NOOP /\ n = inst.size
         \/ /\ h.type = inst.type /\ h.size = inst.size - n
            /\ h.addr = UAdd(inst.addr, n) /\ FromSource
  PROVE  EmitInv' /\ cur' \in Insts
<1>. DEFINE L == Len(out)
            rest == IF h.type = XD3_NOOP THEN 0 ELSE h.size
<1>1. /\ dec_state = "DEC_EMIT" /\ Live /\ Half \in 1 .. 2
      /\ cur \in Insts /\ inst = cur[Half] /\ inst \in HalfInst
      /\ inst.type # XD3_NOOP /\ inst.size \in Nat /\ inst.addr \in Nat
      /\ inst.size \in Usize /\ inst.addr \in Usize
      /\ Half = 2 => cur[1].type = XD3_NOOP
      /\ win.cpylen \in Nat /\ L \in Nat /\ n \in Nat /\ dec_position \in Nat
  BY PendingFacts
<1>2. /\ dec_position <= win.cpylen + L + Size(1) + Size(2)
      /\ cur[1].type >= XD3_CPY => cur[1].addr < win.cpylen + L
      /\ cur[2].type >= XD3_CPY => cur[2].addr < win.cpylen + L + Size(1)
      /\ \A k \in 1 .. 2 :
           (cur[k].type >= XD3_CPY /\ cur[k].addr < win.cpylen) =>
              UAdd(cur[k].addr, cur[k].size) <= win.cpylen
  BY <1>1 DEF IInv, EmitInv
<1>3. cur' \in Insts /\ cur'[Half] = h /\ \A k \in 1 .. 2 : k # Half => cur'[k] = cur[k]
  BY <1>1 DEF Insts
<1>4. /\ Half = 1 => /\ Size(1) = inst.size /\ Size(1)' = inst.size - n
                     /\ Size(2)' = Size(2)
      /\ Half = 2 => /\ Size(2) = inst.size /\ Size(2)' = inst.size - n
                     /\ Size(1)' = 0 /\ Size(1) = 0
      /\ Size(1) \in Nat /\ Size(2) \in Nat
  <2>1. \A k \in 1 .. 2 : cur[k].size \in Nat
    <3>1. \A k \in 1 .. 2 : cur[k].size \in Usize
      BY <1>1 DEF Insts, HalfInst
    <3>. QED BY <3>1, IntAssumption DEF Usize
  <2>2. rest = inst.size - n
    BY <1>1
  <2>3. Size(1) \in Nat /\ Size(2) \in Nat
    BY <2>1 DEF Size
  <2>4. CASE Half = 1
    <3>1. cur[1] = inst /\ cur'[1] = h /\ cur'[2] = cur[2]
      BY <1>1, <1>3, <2>4
    <3>2. Size(1) = inst.size /\ Size(1)' = rest /\ Size(2)' = Size(2)
      BY <1>1, <3>1 DEF Size
    <3>. QED BY <2>2, <2>3, <2>4, <3>2
  <2>5. CASE Half = 2
    BY <1>1, <1>3, <2>2, <2>3, <2>5 DEF Size
  <2>. QED BY <1>1, <2>3, <2>4, <2>5
<1>5. ASSUME h.type >= XD3_CPY
      PROVE  /\ h.addr < win.cpylen + L + n
             /\ h.addr < win.cpylen => UAdd(h.addr, h.size) <= win.cpylen
  <2>1. /\ h.type = inst.type /\ h.size = inst.size - n
        /\ h.addr = UAdd(inst.addr, n) /\ inst.addr < win.cpylen
    BY <1>5 DEF FromSource, XD3_NOOP, XD3_CPY
  <2>2. n \in Usize
    BY <1>1, IntAssumption DEF Usize
  <2>3. h.addr <= inst.addr + n /\ h.addr \in Nat
    <3>1. inst.addr \in Usize
      BY <1>1
    <3>2. UAdd(inst.addr, n) \in Usize /\ UAdd(inst.addr, n) <= inst.addr + n
      BY <3>1, <2>2, UAddType
    <3>. QED BY <3>2, <2>1, IntAssumption DEF Usize
  <2>4. UAdd(h.addr, h.size) = UAdd(inst.addr, inst.size)
    BY <1>1, <2>1, UAddSplit
  <2>5. UAdd(inst.addr, inst.size) <= win.cpylen
    BY <1>1, <1>2, <1>5, <2>1
  <2>. QED BY <1>1, <2>1, <2>3, <2>4, <2>5
<1>. HIDE DEF L, rest
<1>6. dec_position <= win.cpylen + (L + n) + Size(1)' + Size(2)'
  <2>1. /\ Size(1) \in Nat /\ Size(2) \in Nat /\ inst.size \in Nat
        /\ win.cpylen \in Nat /\ L \in Nat /\ n \in Nat /\ dec_position \in Nat
    BY <1>1, <1>4
  <2>2. dec_position <= win.cpylen + L + Size(1) + Size(2)
    BY <1>2
  <2>3. CASE Half = 1
    <3>1. Size(1) = inst.size /\ Size(1)' = inst.size - n /\ Size(2)' = Size(2)
      BY <1>4, <2>3
    <3>. QED BY <2>1, <2>2, <3>1
  <2>4. CASE Half = 2
    <3>1. /\ Size(2) = inst.size /\ Size(2)' = inst.size - n
          /\ Size(1)' = 0 /\ Size(1) = 0
      BY <1>4, <2>4
    <3>. QED BY <2>1, <2>2, <3>1
  <2>. QED BY <1>1, <2>3, <2>4
<1>7. cur'[1].type >= XD3_CPY => cur'[1].addr < win.cpylen + (L + n)
  <2>1. CASE Half = 1
    BY <1>1, <1>3, <1>5, <2>1
  <2>2. CASE Half = 2
    BY <1>1, <1>3, <2>2 DEF XD3_NOOP, XD3_CPY
  <2>. QED BY <1>1, <2>1, <2>2
<1>8. cur'[2].type >= XD3_CPY => cur'[2].addr < win.cpylen + (L + n) + Size(1)'
  <2>1. CASE Half = 1
    <3>1. cur'[2] = cur[2] /\ Size(1)' = inst.size - n /\ Size(1) = inst.size
      BY <1>3, <1>4, <2>1
    <3>2. cur[2].addr \in Nat
      <4>1. cur[2].addr \in Usize
        BY <1>1 DEF Insts, HalfInst
      <4>. QED BY <4>1, IntAssumption DEF Usize
    <3>3. /\ win.cpylen \in Nat /\ L \in Nat /\ n \in Nat /\ inst.size \in Nat
          /\ cur[2].type >= XD3_CPY => cur[2].addr < win.cpylen + L + Size(1)
      BY <1>1, <1>2
    <3>. QED BY <3>1, <3>2, <3>3
  <2>2. CASE Half = 2
    <3>1. cur'[2] = h /\ Size(1)' = 0
      BY <1>3, <1>4, <2>2
    <3>2. h.addr \in Usize
      BY DEF HalfInst
    <3>3. h.addr \in Nat
      BY <3>2, IntAssumption DEF Usize
    <3>. QED BY <1>1, <1>5, <3>1, <3>3
  <2>. QED BY <1>1, <2>1, <2>2
<1>9. \A k \in 1 .. 2 :
        (cur'[k].type >= XD3_CPY /\ cur'[k].addr < win.cpylen) =>
           UAdd(cur'[k].addr, cur'[k].size) <= win.cpylen
  BY <1>2, <1>3, <1>5
<1>10. win' = win /\ Len(out') = L + n
  BY DEF L
<1>. QED BY <1>3, <1>6, <1>7, <1>8, <1>9, <1>10 DEF EmitInv
\* The frame of a step that writes output.
LEMMA OutputFrame ==
  ASSUME IInv, Pending, Fits, UNCHANGED <<outFrame, sect>>, ret' = "emit",
         NEW n \in 0 .. inst.size, NEW h \in HalfInst,
         out' \in Seq(Byte), Len(out') = Len(out) + n,
         cur' = [cur EXCEPT ![Half] = h],
         \/ h.type = XD3_NOOP /\ n = inst.size
         \/ /\ h.type = inst.type /\ h.size = inst.size - n
            /\ h.addr = UAdd(inst.addr, n) /\ FromSource,
         src' \in SourceState, SrcInv'
  PROVE  IInv'
<1>1. /\ sect \in [SectNames -> SectType] /\ acache \in Cache /\ dec_position \in Usize
  BY EmitTypes
<1>2. /\ ret = "emit" /\ dec_state = "DEC_EMIT" /\ Live
      /\ inst.size \in Nat /\ Len(out) \in Nat /\ space_out \in Nat
  BY PendingFacts
<1>3. UNCHANGED <<emitFrame, dec_state, dec_winbytes, acache, dec_position, total_out, sect, win>>
  BY DEF outFrame, emitFrame
<1>4. EmitInv' /\ cur' \in Insts
  BY <1>3, Written
<1>5. Len(out') <= space_out
  BY <1>2, FitsFacts
<1>6. \A s \in SectNames : sect[s].buf <= sect[s].size
  BY <1>2, ContentsType
<1>. QED BY <1>1, <1>2, <1>3, <1>4, <1>5, <1>6, EmitFrame

LEMMA OutputOverflowStep == IInv /\ OutputOverflow => IInv'
<1>. SUFFICES ASSUME IInv, OutputOverflow PROVE IInv'
  OBVIOUS
<1>1. dec_state = "DEC_EMIT" /\ src \in SourceState /\ SrcInv
  BY PendingFacts, EmitTypes DEF OutputOverflow
<1>2. /\ UNCHANGED <<emitFrame, dec_state, sectVars, acache, emitVars, src>>
      /\ ret' = "XD3_INVALID_INPUT"
  BY DEF OutputOverflow, outFrame, sectVars, emitVars
<1>. QED BY <1>1, <1>2, EmitFails DEF SrcInv

LEMMA OutputDataStep == IInv /\ OutputData => IInv'
<1>. SUFFICES ASSUME IInv, OutputData PROVE IInv'
  OBVIOUS
<1>. DEFINE rd    == sect["data"].buf
            bytes == IF inst.type = XD3_RUN THEN 1 ELSE inst.size
            new   == IF inst.type = XD3_RUN THEN Run(Data[rd + 1], inst.size)
                                            ELSE SubSeq(Data, rd + 1, rd + inst.size)
            h     == [inst EXCEPT !.type = XD3_NOOP]
<1>1. /\ sect \in [SectNames -> SectType] /\ acache \in Cache /\ dec_position \in Usize
      /\ src \in SourceState /\ SrcInv /\ out \in Seq(Byte) /\ cur \in Insts
  BY EmitTypes
<1>2. Pending /\ Fits /\ inst.type \in {XD3_RUN, XD3_ADD}
  BY DEF OutputData
<1>3. /\ ret = "emit" /\ dec_state = "DEC_EMIT" /\ Live /\ inst \in HalfInst
      /\ inst.size \in Nat /\ Len(out) \in Nat /\ space_out \in Nat
      /\ inst = cur[Half] /\ Half \in 1 .. 2
  BY <1>2, PendingFacts
<1>4. /\ Data \in Seq(Byte) /\ Len(Data) = sect["data"].size
      /\ sect["data"].size \in Nat /\ rd \in 0 .. sect["data"].size
      /\ \A s \in SectNames : sect[s].buf <= sect[s].size /\ sect[s].size \in Nat
  BY <1>3, ContentsType DEF Data, SectNames
<1>5. CASE rd + bytes > sect["data"].size
  <2>1. /\ UNCHANGED <<emitFrame, dec_state, sectVars, acache, emitVars, src>>
        /\ ret' = "XD3_INVALID_INPUT"
    BY <1>5 DEF OutputData, outFrame, sectVars, emitVars
  <2>. QED BY <1>1, <1>3, <2>1, EmitFails DEF SrcInv
<1>6. CASE ~ (rd + bytes > sect["data"].size)
  <2>1. /\ out' = out \o new
        /\ sect' = [sect EXCEPT !["data"].buf = rd + bytes]
        /\ cur' = [cur EXCEPT ![Half].type = XD3_NOOP]
        /\ UNCHANGED <<emitFrame, dec_state, dec_winbytes, acache, dec_position,
                      total_out, src, ret>>
    BY <1>6 DEF OutputData, outFrame, DoneHalf
  <2>2. rd \in Nat /\ bytes \in Nat /\ rd + bytes <= sect["data"].size
    BY <1>3, <1>4, <1>6
  <2>3. new \in Seq(Byte) /\ Len(new) = inst.size
    <3>1. CASE inst.type = XD3_RUN
      <4>1. Data[rd + 1] \in Byte
        BY <1>4, <2>2, <3>1
      <4>2. new = [i \in 1 .. inst.size |-> Data[rd + 1]]
        BY <3>1 DEF Run
      <4>. HIDE DEF new, rd
      <4>. QED BY <1>3, <4>1, <4>2
    <3>2. CASE inst.type # XD3_RUN
      <4>1. new = SubSeq(Data, rd + 1, rd + inst.size) /\ rd + inst.size <= Len(Data)
        BY <1>4, <2>2, <3>2
      <4>. HIDE DEF new, rd
      <4>2. rd \in Nat /\ inst.size \in Nat /\ Data \in Seq(Byte)
        BY <1>3, <1>4, <2>2
      <4>3. /\ SubSeq(Data, rd + 1, rd + inst.size) \in Seq(Byte)
            /\ Len(SubSeq(Data, rd + 1, rd + inst.size)) = inst.size
        BY <4>1, <4>2, SubSeqType
      <4>. QED BY <4>1, <4>3
    <3>. QED BY <3>1, <3>2
  <2>. HIDE DEF new
  <2>4. out' \in Seq(Byte) /\ Len(out') = Len(out) + inst.size
    BY <1>1, <2>1, <2>3
  <2>5. h \in HalfInst /\ h.type = XD3_NOOP
    BY <1>3, NoopType DEF HalfInst
  <2>6. cur' = [cur EXCEPT ![Half] = h]
    BY <1>1, <1>3, <2>1
  <2>7. win' = win
    BY <2>1 DEF emitFrame
  <2>8. inst.size \in 0 .. inst.size
    BY <1>3
  <2>. HIDE DEF h
  <2>9. EmitInv' /\ cur' \in Insts
    BY <1>2, <2>1, <2>4, <2>5, <2>6, <2>7, <2>8, Written
  <2>10. Len(out') <= space_out
    BY <1>2, <2>4, FitsFacts
  <2>11. /\ sect' \in [SectNames -> SectType]
         /\ \A s \in SectNames :
              /\ sect'[s].size = sect[s].size /\ sect'[s].pos = sect[s].pos
              /\ sect'[s].zerocopy = sect[s].zerocopy /\ sect'[s].at = sect[s].at
              /\ sect'[s].copied1 = sect[s].copied1 /\ sect'[s].buf <= sect[s].size
    <3>. DEFINE new_rd == rd + bytes
    <3>1. new_rd \in Nat /\ new_rd <= sect["data"].size
      BY <2>2
    <3>2. sect' = [sect EXCEPT !["data"].buf = new_rd]
      BY <2>1
    <3>. HIDE DEF new_rd
    <3>3. sect' \in [SectNames -> SectType]
      BY <1>1, <3>1, <3>2 DEF SectType, SectNames
    <3>4. ASSUME NEW s \in SectNames
          PROVE  /\ sect'[s].size = sect[s].size /\ sect'[s].pos = sect[s].pos
                 /\ sect'[s].zerocopy = sect[s].zerocopy /\ sect'[s].at = sect[s].at
                 /\ sect'[s].copied1 = sect[s].copied1 /\ sect'[s].buf <= sect[s].size
      <4>1. sect[s] \in SectType /\ sect[s].buf <= sect[s].size
        BY <1>1, <1>4
      <4>2. \/ sect'[s] = sect[s]
            \/ s = "data" /\ sect'[s] = [sect[s] EXCEPT !.buf = new_rd]
        BY <1>1, <3>2 DEF SectNames
      <4>. QED BY <3>1, <4>1, <4>2 DEF SectType
    <3>. QED BY <3>3, <3>4
  <2>. QED BY <1>1, <1>3, <2>1, <2>4, <2>9, <2>10, <2>11, EmitFrame DEF SrcInv
<1>. QED BY <1>5, <1>6

LEMMA BlkAddType ==
  ASSUME IInv, Pending
  PROVE  CopyBlock.blk \in Xoff /\ CopyBlock.off \in 0 .. BlkSize - 1
<1>. DEFINE sum == UAdd(src.cpyoff_blkoff, inst.addr)
<1>1. src \in SourceState /\ inst.addr \in Usize
  BY EmitTypes, PendingFacts
<1>2. /\ src.cpyoff_blkoff \in 0 .. BlkSize - 1 /\ src.cpyoff_blocks \in Xoff
  BY <1>1 DEF SourceState
<1>3. BlkSize \in Nat \ {0} /\ BlkSize < UsizeMod /\ UsizeMod \in Nat /\ XoffMod \in Nat \ {0}
  BY SourceAssumption, IntAssumption
<1>4. sum \in Nat
  <2>1. src.cpyoff_blkoff \in Usize
    BY <1>2, <1>3 DEF Usize
  <2>2. sum \in Usize
    BY <1>1, <2>1, UAddType
  <2>. QED BY <1>3, <2>2 DEF Usize
<1>. HIDE DEF sum
<1>5. sum \div BlkSize \in Nat /\ sum % BlkSize \in 0 .. BlkSize - 1
  <2>1. sum \div BlkSize \in 0 .. sum /\ sum % BlkSize \in 0 .. BlkSize - 1
    BY <1>3, <1>4, DivBound
  <2>. QED BY <1>4, <2>1
<1>6. (src.cpyoff_blocks + (sum \div BlkSize)) % XoffMod \in 0 .. XoffMod - 1
  <2>1. src.cpyoff_blocks \in Nat
    BY <1>2, <1>3 DEF Xoff
  <2>2. src.cpyoff_blocks + (sum \div BlkSize) \in Nat
    BY <1>5, <2>1
  <2>. QED BY <1>3, <2>2, DivBound
<1>. QED BY <1>5, <1>6 DEF CopyBlock, BlkAdd, Xoff, sum

LEMMA GetSrcBlkStep == IInv /\ GetSrcBlk => IInv'
<1>. SUFFICES ASSUME IInv, GetSrcBlk PROVE IInv'
  OBVIOUS
<1>1. /\ sect \in [SectNames -> SectType] /\ acache \in Cache /\ dec_position \in Usize
      /\ src \in SourceState /\ SrcInv /\ out \in Seq(Byte) /\ cur \in Insts
      /\ Len(out) <= space_out
  BY EmitTypes
<1>2. /\ ret = "emit" /\ dec_state = "DEC_EMIT" /\ Live
  BY PendingFacts DEF GetSrcBlk
<1>3. src' \in SourceState /\ SrcInv'
  <2>1. CopyBlock.blk \in Xoff /\ src' = [src EXCEPT !.getblkno = CopyBlock.blk]
    BY BlkAddType DEF GetSrcBlk, Request
  <2>. QED BY <1>1, <2>1 DEF SourceState, SrcInv
<1>4. /\ UNCHANGED <<emitFrame, dec_state, dec_winbytes, acache, dec_position, total_out>>
      /\ UNCHANGED <<sect, cur, out, win>> /\ ret' = "XD3_GETSRCBLK"
  BY DEF GetSrcBlk, outFrame, emitFrame
<1>5. EmitInv'
  BY <1>2, <1>4 DEF IInv, EmitInv, Size
<1>6. \A s \in SectNames : sect[s].buf <= sect[s].size
  BY <1>2, ContentsType
<1>. QED BY <1>1, <1>2, <1>3, <1>4, <1>5, <1>6, EmitFrame
LEMMA AccountType ==
  ASSUME NEW c \in SourceState, NEW b \in Xoff
  PROVE  /\ Account(c, b) \in SourceState
         /\ Account(c, b).onblk = c.onblk /\ Account(c, b).curblkno = c.curblkno
<1>. DEFINE top == IF b > c.max_blkno
                   THEN [c EXCEPT !.max_blkno = b,
                                  !.eof_known = c.eof_known \/ c.onblk # BlkSize]
                   ELSE c
<1>1. /\ top \in SourceState /\ top.onblk = c.onblk /\ top.curblkno = c.curblkno
  BY DEF SourceState
<1>2. Account(c, b) = IF b = top.max_blkno THEN [top EXCEPT !.onlastblk = c.onblk]
                                           ELSE top
  BY DEF Account
<1>3. c.onblk \in 0 .. BlkSize
  BY DEF SourceState
<1>. HIDE DEF top
<1>. QED BY <1>1, <1>2, <1>3 DEF SourceState

LEMMA OutputSourceStep == IInv /\ OutputSource => IInv'
<1>. SUFFICES ASSUME IInv, OutputSource PROVE IInv'
  OBVIOUS
<1>. DEFINE off  == CopyBlock.off
            take == Lesser(inst.size, BlkSize - off)
            new  == [i \in 1 .. take |-> CurByte(src, off + i - 1)]
            h    == IF off + inst.size <= BlkSize
                    THEN [inst EXCEPT !.type = XD3_NOOP, !.size = 0]
                    ELSE Left(inst, take)
<1>1. /\ acache \in Cache /\ dec_position \in Usize /\ src \in SourceState /\ SrcInv
      /\ out \in Seq(Byte) /\ cur \in Insts
  BY EmitTypes
<1>2. Pending /\ Fits /\ FromSource
  BY DEF OutputSource
<1>3. /\ ret = "emit" /\ dec_state = "DEC_EMIT" /\ inst \in HalfInst
      /\ inst = cur[Half] /\ Half \in 1 .. 2 /\ inst.size \in Nat
      /\ inst.size \in Usize /\ inst.addr \in Usize
  BY <1>2, PendingFacts
<1>4. /\ CopyBlock.blk \in Xoff /\ off \in 0 .. BlkSize - 1 /\ BlkSize \in Nat \ {0}
  BY <1>2, BlkAddType, SourceAssumption
<1>5. src' \in SourceState /\ SrcInv'
  <2>1. src' = Account(src, CopyBlock.blk)
    BY DEF OutputSource
  <2>. QED BY <1>1, <1>4, <2>1, AccountType DEF SrcInv
<1>6. CASE src.onblk # BlkSize /\ off + inst.size > src.onblk
  <2>1. /\ UNCHANGED <<emitFrame, dec_state, sectVars, acache, emitVars>>
        /\ ret' = "XD3_INVALID_INPUT"
    BY <1>6 DEF OutputSource, outFrame, sectVars, emitVars
  <2>. QED BY <1>3, <1>5, <2>1, EmitFails
<1>7. CASE ~ (src.onblk # BlkSize /\ off + inst.size > src.onblk)
  <2>1. /\ out' = out \o new
        /\ cur' = [cur EXCEPT ![Half] =
                     IF off + inst.size <= BlkSize
                     THEN [cur[Half] EXCEPT !.type = XD3_NOOP, !.size = 0]
                     ELSE Left(cur[Half], take)]
        /\ UNCHANGED <<outFrame, sect, ret>>
    BY <1>7 DEF OutputSource
  <2>2. cur' = [cur EXCEPT ![Half] = h]
    BY <1>3, <2>1
  <2>3. /\ take \in Nat /\ take <= inst.size /\ off + take <= BlkSize
        /\ off \in Nat /\ take \in 0 .. inst.size
    BY <1>3, <1>4 DEF Lesser
  <2>4. take = inst.size \/ ~ (off + inst.size <= BlkSize)
    BY <1>3, <1>4 DEF Lesser
  <2>5. h \in HalfInst
    <3>1. inst.size - take \in Usize
      BY <1>3, <2>3, IntAssumption DEF Usize
    <3>2. UAdd(inst.addr, take) \in Usize
      <4>1. take \in Usize
        BY <1>3, <2>3, IntAssumption DEF Usize
      <4>. QED BY <1>3, <4>1, UAddType
    <3>3. 0 \in Usize
      BY IntAssumption DEF Usize
    <3>. HIDE DEF take, off
    <3>. QED BY <1>3, <3>1, <3>2, <3>3, NoopType DEF HalfInst, Left
  <2>6. \/ h.type = XD3_NOOP /\ take = inst.size
        \/ /\ h.type = inst.type /\ h.size = inst.size - take
           /\ h.addr = UAdd(inst.addr, take) /\ FromSource
    <3>1. CASE off + inst.size <= BlkSize
      <4>. HIDE DEF take
      <4>. QED BY <1>3, <2>4, <3>1 DEF HalfInst
    <3>2. CASE ~ (off + inst.size <= BlkSize)
      <4>. HIDE DEF take
      <4>. QED BY <1>2, <1>3, <3>2 DEF HalfInst, Left
    <3>. QED BY <3>1, <3>2
  <2>7. \A i \in 1 .. take : CurByte(src, off + i - 1) \in Byte
    <3>. DEFINE base == src.curblkno * BlkSize
    <3>1. src.curblkno \in Xoff /\ src.onblk = BlockLen(src.curblkno)
      BY <1>1 DEF SourceState, SrcInv
    <3>2. /\ src.onblk \in 0 .. BlkSize
          /\ src.onblk > 0 => base + src.onblk <= Len(Source)
      BY <3>1, BlockLenType
    <3>3. off + take <= src.onblk
      BY <1>3, <1>4, <1>7, <2>3, <3>2
    <3>4. base \in Nat
      BY <1>4, <3>1, IntAssumption DEF Xoff
    <3>5. Source \in Seq(Byte)
      BY SourceAssumption
    <3>. HIDE DEF base, off, take
    <3>6. ASSUME NEW i \in 1 .. take
          PROVE  base + (off + i - 1) + 1 \in 1 .. Len(Source)
      BY <1>4, <2>3, <3>2, <3>3, <3>4, <3>5
    <3>7. ASSUME NEW i \in 1 .. take
          PROVE  Source[base + (off + i - 1) + 1] \in Byte
      BY <3>5, <3>6
    <3>. QED BY <3>7 DEF CurByte, base
  <2>. HIDE DEF off, take, h
  <2>8. new \in Seq(Byte) /\ Len(new) = take
    BY <2>3, <2>7
  <2>. HIDE DEF new
  <2>9. out' \in Seq(Byte) /\ Len(out') = Len(out) + take
    <3>1. out' = out \o new
      BY <2>1
    <3>2. out \in Seq(Byte)
      BY <1>1
    <3>3. out \o new \in Seq(Byte) /\ Len(out \o new) = Len(out) + Len(new)
      BY <2>8, <3>2
    <3>. QED BY <2>8, <3>1, <3>3
  <2>. QED BY <1>2, <1>3, <1>5, <2>1, <2>2, <2>3, <2>5, <2>6, <2>9, OutputFrame
<1>. QED BY <1>6, <1>7

LEMMA OutputTargetStep == IInv /\ OutputTarget => IInv'
<1>. SUFFICES ASSUME IInv, OutputTarget PROVE IInv'
  OBVIOUS
<1>. DEFINE from   == inst.addr - win.cpylen
            period == Len(out) - from
            new    == [i \in 1 .. inst.size |-> out[from + ((i - 1) % period) + 1]]
            h      == [inst EXCEPT !.type = XD3_NOOP, !.size = 0]
<1>1. src \in SourceState /\ SrcInv /\ out \in Seq(Byte) /\ cur \in Insts
  BY EmitTypes
<1>2. Pending /\ Fits /\ inst.type >= XD3_CPY /\ ~ FromSource
  BY DEF OutputTarget
<1>3. /\ ret = "emit" /\ dec_state = "DEC_EMIT" /\ Live /\ inst \in HalfInst
      /\ inst = cur[Half] /\ Half \in 1 .. 2 /\ inst.size \in Nat /\ inst.addr \in Nat
      /\ win.cpylen \in Nat /\ Len(out) \in Nat
      /\ Half = 2 => cur[1].type = XD3_NOOP
  BY <1>2, PendingFacts
<1>4. from \in Nat /\ inst.addr < win.cpylen + Len(out)
  <2>1. ~ (inst.addr < win.cpylen)
    BY <1>2 DEF FromSource
  <2>2. CASE Half = 1
    BY <1>2, <1>3, <2>1, <2>2 DEF IInv, EmitInv
  <2>3. CASE Half = 2
    <3>1. Size(1) = 0
      BY <1>3, <2>3 DEF Size
    <3>2. inst.addr < win.cpylen + Len(out) + Size(1)
      BY <1>2, <1>3, <2>3 DEF IInv, EmitInv
    <3>. QED BY <1>3, <2>1, <3>1, <3>2
  <2>. QED BY <1>3, <2>2, <2>3, <2>1
<1>5. period \in Nat \ {0} /\ from + period = Len(out)
  <2>1. inst.addr - win.cpylen < Len(out)
    BY <1>3, <1>4
  <2>2. from \in Nat /\ from < Len(out) /\ Len(out) \in Nat
    BY <1>3, <1>4, <2>1
  <2>. HIDE DEF from
  <2>. QED BY <2>2
<1>6. /\ out' = out \o new
      /\ cur' = [cur EXCEPT ![Half].type = XD3_NOOP, ![Half].size = 0]
      /\ UNCHANGED <<outFrame, ret, sect, src>>
  BY DEF OutputTarget
<1>. HIDE DEF from, period
<1>7. \A i \in 1 .. inst.size : out[from + ((i - 1) % period) + 1] \in Byte
  <2>. SUFFICES ASSUME NEW i \in 1 .. inst.size
                PROVE  out[from + ((i - 1) % period) + 1] \in Byte
    OBVIOUS
  <2>1. i - 1 \in Nat
    OBVIOUS
  <2>2. (i - 1) % period \in 0 .. period - 1
    BY <1>5, <2>1, DivBound
  <2>. DEFINE r == (i - 1) % period
  <2>3. r \in Nat /\ r < period
    BY <1>5, <2>2
  <2>. HIDE DEF r
  <2>4. from + r + 1 \in 1 .. Len(out)
    BY <1>3, <1>4, <1>5, <2>3
  <2>. QED BY <1>1, <2>4 DEF r
<1>8. new \in Seq(Byte) /\ Len(new) = inst.size
  BY <1>3, <1>7
<1>. HIDE DEF new
<1>9. out' \in Seq(Byte) /\ Len(out') = Len(out) + inst.size
  BY <1>1, <1>6, <1>8
<1>10. h \in HalfInst /\ h.type = XD3_NOOP
  <2>1. 0 \in Usize
    BY IntAssumption DEF Usize
  <2>. QED BY <1>3, <2>1, NoopType DEF HalfInst
<1>11. cur' = [cur EXCEPT ![Half] = h]
  BY <1>1, <1>3, <1>6
<1>12. inst.size \in 0 .. inst.size
  BY <1>3
<1>. HIDE DEF h
<1>13. src' \in SourceState /\ SrcInv'
  BY <1>1, <1>6 DEF SrcInv
<1>. QED BY <1>2, <1>3, <1>6, <1>9, <1>10, <1>11, <1>12, <1>13, OutputFrame

LEMMA EmitEndStep == IInv /\ EmitEnd => IInv'
<1>. SUFFICES ASSUME IInv, EmitEnd PROVE IInv'
  OBVIOUS
<1>1. sect \in [SectNames -> SectType] /\ src \in SourceState /\ SrcInv
  BY EmitTypes
<1>2. /\ ret = "emit" /\ dec_state = "DEC_EMIT" /\ ~ Skipping
      /\ cur[1].type = XD3_NOOP /\ cur[2].type = XD3_NOOP
  BY DEF EmitEnd, IInv, Returned, inst, Half
<1>3. CASE WindowValid
  <2>1. FinishWindow(sect) /\ total_out' = (total_out + Len(out)) % XoffMod
    BY <1>3 DEF EmitEnd
  <2>2. UNCHANGED <<emitFrame, acache, cur, dec_position, out, src>>
    BY DEF EmitEnd
  <2>3. total_out' \in Xoff
    <3>1. total_out \in Xoff
      BY DEF IInv, TypeOK
    <3>3. Len(out) \in Nat
      BY EmitTypes
    <3>2. total_out + Len(out) \in Nat /\ XoffMod \in Nat \ {0}
      BY <3>1, <3>3, IntAssumption DEF Xoff
    <3>. QED BY <2>1, <3>2, DivBound DEF Xoff
  <2>4. TypeOK'
    BY <1>1, <2>1, <2>2, <2>3, FinishType
       DEF IInv, TypeOK, emitFrame, clientVars, fixedVars, inputVars, winVars
  <2>5. InputConserved'
    BY <2>1, <2>2, ConsumeNone DEF FinishWindow, emitFrame, clientVars, inputVars
  <2>6. Len(out) = win.tgtlen
    BY <1>3 DEF WindowValid
  <2>7. UNCHANGED <<file, flags, cur, src, space_out, out, win>>
    BY <2>2 DEF emitFrame, clientVars, fixedVars
  <2>. QED BY <1>1, <1>2, <2>1, <2>4, <2>5, <2>6, <2>7, FinishFrame
<1>4. CASE ~ WindowValid
  <2>1. /\ UNCHANGED <<emitFrame, dec_state, sectVars, acache, emitVars, src>>
        /\ ret' = "XD3_INVALID_INPUT"
    BY <1>4 DEF EmitEnd, emitVars
  <2>. QED BY <1>1, <1>2, <2>1, EmitFails DEF SrcInv
<1>. QED BY <1>3, <1>4

-----------------------------------------------------------------------------
(* The theorems.                                                           *)

LEMMA StreamStep == IInv /\ Stream => IInv'
<1>1. IInv /\ Window => IInv'
  BY WinIndStep, WindowStep, SectLenStep DEF Window
<1>2. IInv /\ DataSection => IInv'
  BY SectionStep DEF DataSection, SectNames, SectStates
<1>3. IInv /\ InstSection => IInv'
  BY SectionStep DEF InstSection, SectNames, SectStates
<1>4. IInv /\ AddrSection => IInv'
  BY SectionStep DEF AddrSection, SectNames, SectStates
<1>5. IInv /\ Sections => IInv'
  BY <1>2, <1>3, <1>4, JustHdrStep, SectionsOverflowStep, SkipWindowStep,
     SectionInputStep DEF Sections
<1>6. IInv /\ Emitting => IInv'
  BY EmitEnterStep, DecodeInstructionStep, OutputOverflowStep, OutputDataStep,
     GetSrcBlkStep, OutputSourceStep, OutputTargetStep, EmitEndStep, FinishStep
     DEF Emitting
<1>. QED BY <1>1, <1>5, <1>6, NeedInputStep, IntOverflowStep, IntMoreStep, HeaderStep
         DEF Stream

LEMMA NextStep == IInv /\ [Next]_vars => IInv'
<1>1. IInv /\ Stopped => IInv'
  BY StutterStep DEF Stopped
<1>. QED BY <1>1, StreamStep, ClientStep, StutterStep DEF Next

\* The strengthening is an invariant of the decoder and its client.
THEOREM InductiveInvariant == Spec => []IInv
BY InitStep, NextStep, PTL DEF Spec

\* Every variable keeps its type: no read position, counter or size of the
\* code leaves the range of its C type, for every delta file, every way of
\* cutting it into buffers and every source.
THEOREM TypeCorrect == Spec => []TypeOK
<1>1. IInv => TypeOK
  BY DEF IInv
<1>. QED BY <1>1, InductiveInvariant, PTL

\* The client's bytes reach the decoder whole and in order, and it asks for
\* more only when it has consumed the buffer to its end.
THEOREM InputIsConserved == Spec => []InputConserved
<1>1. IInv => InputConserved
  BY DEF IInv
<1>. QED BY <1>1, InductiveInvariant, PTL

\* Instructions are never read from a buffer that the client has replaced.
THEOREM SectionsAreLive == Spec => []SectionsLive
<1>1. IInv => SectionsLive
  <2>. SUFFICES ASSUME IInv, dec_state = "DEC_EMIT", Live, NEW s \in SectNames
                PROVE  /\ (sect[s].zerocopy /\ sect[s].size > 0) =>
                            fed - buflen <= sect[s].at
                              /\ sect[s].at + sect[s].size <= next_in
                       /\ ~ sect[s].zerocopy => Len(sect[s].copied1) >= sect[s].size
                       /\ sect[s].buf <= sect[s].size
    BY DEF SectionsLive, Live
  <2>1. ~ Skipping /\ Done(s)
    BY DEF IInv, Returned, Done
  <2>2. Held(s)
    BY <2>1 DEF IInv, SectInv
  <2>3. sect[s].size \in Nat /\ Len(sect[s].copied1) \in Nat
    BY SectFacts
  <2>. QED BY <2>1, <2>2, <2>3 DEF Held
<1>. QED BY <1>1, InductiveInvariant, PTL

\* No delta file makes the decoder write past the output buffer it allocated,
\* and every window it hands out has the length its header announced.
THEOREM OutputIsBounded == Spec => []OutputBounded
<1>1. IInv => OutputBounded
  BY DEF IInv, OutInv
<1>. QED BY <1>1, InductiveInvariant, PTL

\* A copy reads only bytes that were written, or that the copy window has; an
\* address that wraps past that check is beyond the end of every source.
THEOREM CopiesInside == Spec => []CopyInside
<1>1. IInv => CopyInside
  <2>. SUFFICES ASSUME IInv, Pending, Fits, inst.type >= XD3_CPY
                PROVE  IF inst.addr < win.cpylen
                       THEN inst.addr + inst.size <= win.cpylen
                              \/ inst.addr >= Len(Source)
                       ELSE inst.addr - win.cpylen < Len(out)
    BY DEF CopyInside
  <2>1. /\ dec_state = "DEC_EMIT" /\ Live /\ Half \in 1 .. 2 /\ inst = cur[Half]
        /\ inst.size \in Nat /\ inst.addr \in Nat
        /\ Half = 2 => cur[1].type = XD3_NOOP
        /\ win.cpylen \in Nat /\ Len(out) \in Nat /\ space_out \in Nat /\ UsizeMod \in Nat
    BY PendingFacts
  <2>2. EmitInv /\ space_out <= HardMaxWin + AllocSize
    BY DEF IInv, OutInv
  <2>3. Len(out) + inst.size <= space_out
    BY FitsFacts
  <2>4. CASE inst.addr < win.cpylen
    <3>1. UAdd(inst.addr, inst.size) <= win.cpylen
      BY <2>1, <2>2, <2>4 DEF EmitInv
    <3>2. CASE inst.addr + inst.size < UsizeMod
      <4>1. inst.addr + inst.size \in Nat
        BY <2>1
      <4>2. UAdd(inst.addr, inst.size) = inst.addr + inst.size
        BY <3>2, <4>1, IntAssumption, ModSmall DEF UAdd
      <4>. QED BY <2>4, <3>1, <4>2
    <3>3. CASE inst.addr + inst.size >= UsizeMod
      <4>1. /\ Len(Source) \in Nat /\ HardMaxWin \in Nat /\ AllocSize \in Nat
            /\ Len(Source) + HardMaxWin + AllocSize <= UsizeMod
        BY SizesAssumption, SourceAssumption, DecodeAssumption
      <4>2. inst.addr >= Len(Source)
        BY <2>1, <2>2, <2>3, <3>3, <4>1
      <4>. QED BY <2>4, <4>2
    <3>. QED BY <2>1, <3>2, <3>3
  <2>5. CASE ~ (inst.addr < win.cpylen)
    <3>1. inst.addr < win.cpylen + Len(out)
      <4>1. CASE Half = 1
        BY <2>1, <2>2, <4>1 DEF EmitInv
      <4>2. CASE Half = 2
        <5>1. Size(1) = 0
          BY <2>1, <4>2 DEF Size
        <5>2. inst.addr < win.cpylen + Len(out) + Size(1)
          BY <2>1, <2>2, <4>2 DEF EmitInv
        <5>. QED BY <2>1, <5>1, <5>2
      <4>. QED BY <2>1, <4>1, <4>2
    <3>. QED BY <2>1, <2>5, <3>1
  <2>. QED BY <2>4, <2>5
<1>. QED BY <1>1, InductiveInvariant, PTL

-----------------------------------------------------------------------------
(***************************************************************************)
(* The decoder always knows where it is: in the window, for the addresses, *)
(* and in the output, for the windows that follow.                         *)
(*                                                                         *)
(* PositionExact is stated modulo the widths of the counters; what carries *)
(* it from step to step is Exact, with the number of times dec_position    *)
(* has wrapped, and Counts, with what each case of the switch knows of     *)
(* dec_winstart.                                                           *)
(***************************************************************************)
HeadStates == {"DEC_VCHEAD", "DEC_HDRIND", "DEC_SECONDID", "DEC_TABLEN", "DEC_NEAR",
               "DEC_SAME", "DEC_TABDAT", "DEC_APPLEN", "DEC_APPDAT"}

\* The window that win describes has been delivered.
Ended == dec_state = "DEC_WININD" \/ (dec_state = "DEC_FINISH" /\ ret # "XD3_OUTPUT")

Exact ==
  (dec_state = "DEC_EMIT" /\ Live) =>
    \E k \in Nat :
      dec_position + k * UsizeMod = win.cpylen + Len(out) + Size(1) + Size(2)

Counts ==
  (Emit /\ ~ Skipping /\ Live) =>
    /\ dec_state \in HeadStates => dec_winstart = 0 /\ win.tgtlen = 0
    /\ Len(delivered) = dec_winstart + (IF Ended THEN win.tgtlen ELSE 0)
    /\ total_out = (Len(delivered) + (IF dec_state = "DEC_FINISH" THEN Len(out) ELSE 0))
                   % XoffMod

PInv == IInv /\ Exact /\ Counts

-----------------------------------------------------------------------------
(* Frames.                                                                 *)

\* Away from the instructions, after an error, and when no instruction is touched.
LEMMA ExactKept ==
  ASSUME Exact,
         \/ dec_state' # "DEC_EMIT"
         \/ ~ Live'
         \/ /\ dec_state = "DEC_EMIT" /\ Live
            /\ UNCHANGED <<win, dec_position, cur, out>>
  PROVE  Exact'
<1>1. CASE dec_state' # "DEC_EMIT"
  BY <1>1 DEF Exact
<1>2. CASE ~ Live'
  BY <1>2 DEF Exact
<1>3. CASE /\ dec_state = "DEC_EMIT" /\ Live
           /\ UNCHANGED <<win, dec_position, cur, out>>
  <2>1. Size(1)' = Size(1) /\ Size(2)' = Size(2)
    BY <1>3 DEF Size
  <2>2. PICK k \in Nat :
          dec_position + k * UsizeMod = win.cpylen + Len(out) + Size(1) + Size(2)
    BY <1>3 DEF Exact
  <2>3. dec_position' + k * UsizeMod = win'.cpylen + Len(out') + Size(1)' + Size(2)'
    BY <1>3, <2>1, <2>2
  <2>. QED BY <2>3 DEF Exact
<1>. QED BY <1>1, <1>2, <1>3

\* Steps that neither begin nor end a window.
LEMMA CountsKept ==
  ASSUME Counts, Live, UNCHANGED <<flags, dec_winstart, delivered, total_out>>,
         dec_state # "DEC_FINISH", dec_state' # "DEC_FINISH",
         \/ /\ win'.tgtlen = win.tgtlen /\ dec_state' = dec_state
         \/ /\ win'.tgtlen = win.tgtlen /\ dec_state \in HeadStates
            /\ dec_state' \in HeadStates \cup {"DEC_WININD"}
         \/ {dec_state, dec_state'} \cap (HeadStates \cup {"DEC_WININD"}) = {}
  PROVE  Counts'
<1>. SUFFICES ASSUME Emit', ~ Skipping', Live' PROVE Counts'
  BY DEF Counts
<1>1. Emit /\ ~ Skipping
  BY DEF Emit, Skipping
<1>2. /\ dec_state \in HeadStates => dec_winstart = 0 /\ win.tgtlen = 0
      /\ Len(delivered) = dec_winstart + (IF Ended THEN win.tgtlen ELSE 0)
      /\ total_out = (Len(delivered) + 0) % XoffMod
  BY <1>1 DEF Counts
<1>3. /\ dec_state' \in HeadStates => dec_winstart' = 0 /\ win'.tgtlen = 0
      /\ total_out' = (Len(delivered') + 0) % XoffMod
  BY <1>2
<1>4. Len(delivered') = dec_winstart' + (IF Ended' THEN win'.tgtlen ELSE 0)
  <2>1. CASE win'.tgtlen = win.tgtlen /\ dec_state' = dec_state
    BY <2>1, <1>2 DEF Ended
  <2>2. CASE /\ win'.tgtlen = win.tgtlen /\ dec_state \in HeadStates
             /\ dec_state' \in HeadStates \cup {"DEC_WININD"}
    BY <2>2, <1>2 DEF Ended, HeadStates
  <2>3. CASE {dec_state, dec_state'} \cap (HeadStates \cup {"DEC_WININD"}) = {}
    BY <2>3, <1>2 DEF Ended
  <2>. QED BY <2>1, <2>2, <2>3
<1>. QED BY <1>3, <1>4 DEF Counts

\* A step that is not counted: it fails, or nothing is output at all.
LEMMA NotCounted ==
  ASSUME ~ Live' \/ ~ Emit' \/ Skipping'
  PROVE  Counts'
BY DEF Counts

-----------------------------------------------------------------------------
(* The headers and the sections.                                           *)

LEMMA NeedInputKeeps == PInv /\ NeedInput => Exact' /\ Counts'
<1>. SUFFICES ASSUME PInv, NeedInput PROVE Exact' /\ Counts'
  OBVIOUS
<1>1. /\ dec_state' = dec_state /\ dec_state \notin {"DEC_EMIT", "DEC_FINISH"} /\ Live
      /\ UNCHANGED <<flags, dec_winstart, delivered, total_out, win>>
  BY DEF NeedInput, WantsInt, WantsByte, WantsBytes, clientVars, fixedVars, winVars,
         emitVars, Live, Errors
<1>2. Exact'
  BY <1>1, ExactKept DEF PInv
<1>3. Counts'
  BY <1>1, CountsKept DEF PInv
<1>. QED BY <1>2, <1>3

LEMMA IntKeeps == PInv /\ (IntOverflow \/ IntMore) => Exact' /\ Counts'
<1>1. ASSUME PInv, IntOverflow PROVE Exact' /\ Counts'
  <2>1. ~ Live'
    BY <1>1 DEF IntOverflow, Live, Errors
  <2>. QED BY <1>1, <2>1, ExactKept, NotCounted DEF PInv
<1>2. ASSUME PInv, IntMore PROVE Exact' /\ Counts'
  <2>1. /\ dec_state' = dec_state /\ dec_state \notin {"DEC_EMIT", "DEC_FINISH"} /\ Live
        /\ UNCHANGED <<flags, dec_winstart, delivered, total_out, win>>
    BY <1>2 DEF IntMore, IntByte, WantsInt, clientVars, fixedVars, winVars, emitVars,
                Live, Errors
  <2>2. Exact'
    BY <1>2, <2>1, ExactKept DEF PInv
  <2>3. Counts'
    BY <1>2, <2>1, CountsKept DEF PInv
  <2>. QED BY <2>2, <2>3
<1>. QED BY <1>1, <1>2

LEMMA HeaderKeeps == PInv /\ Header => Exact' /\ Counts'
<1>. SUFFICES ASSUME PInv, Header PROVE Exact' /\ Counts'
  OBVIOUS
<1>1. /\ ret = "run" /\ dec_state \in HeadStates
      /\ dec_state' \in HeadStates \cup {"DEC_WININD"} /\ UNCHANGED hdrFrame
  <2>. USE DEF At, Check, HeadStates
  <2>1. CASE VcHeadBytes \/ VcHead \/ HdrInd
    BY <2>1 DEF VcHeadBytes, VcHead, HdrInd
  <2>2. CASE SecondId \/ NoSecondId \/ TabLen
    BY <2>2 DEF SecondId, NoSecondId, TabLen
  <2>3. CASE NearSame \/ TabDat \/ DefaultTable
    BY <2>3 DEF NearSame, TabDat, DefaultTable
  <2>4. CASE AppLen \/ AppDatBytes \/ AppDat
    BY <2>4 DEF AppLen, AppDatBytes, AppDat
  <2>. QED BY <2>1, <2>2, <2>3, <2>4 DEF Header
<1>2. /\ UNCHANGED <<flags, dec_winstart, delivered, total_out, win>> /\ Live
      /\ {dec_state, dec_state'} \cap {"DEC_EMIT", "DEC_FINISH"} = {}
  BY <1>1 DEF hdrFrame, clientVars, fixedVars, winVars, emitVars, Live, Errors, HeadStates
<1>3. Exact'
  BY <1>2, ExactKept DEF PInv
<1>4. Counts'
  BY <1>1, <1>2, CountsKept DEF PInv
<1>. QED BY <1>3, <1>4

\* A window begins where the one before ended: as long as the offset fits, it is
\* the number of bytes delivered.
LEMMA WinIndKeeps == PInv /\ WinInd => Exact' /\ Counts'
<1>. SUFFICES ASSUME PInv, WinInd PROVE Exact' /\ Counts'
  OBVIOUS
<1>1. dec_state = "DEC_WININD" /\ ret = "run" /\ Live
      /\ dec_state' \in {"DEC_WININD", "DEC_CPYLEN"}
  BY DEF WinInd, At, Live, Errors
<1>2. Exact'
  BY <1>1, ExactKept DEF PInv
<1>3. ASSUME ~ Live' PROVE Counts'
  BY <1>3, NotCounted
<1>4. ASSUME Live' PROVE Counts'
  <2>. SUFFICES ASSUME Emit', ~ Skipping' PROVE Counts'
    BY NotCounted
  <2>1. /\ dec_winstart' = NextWinStart /\ win'.tgtlen = win.tgtlen
        /\ dec_state' = "DEC_CPYLEN"
    <3>1. win \in [ind : Byte, cpylen : Usize, cpyoff : Xoff, enclen : Usize,
                   tgtlen : Usize, maxpos : Usize, cksum : Seq(Byte)]
      BY DEF PInv, IInv, TypeOK
    <3>. QED BY <1>4, <3>1 DEF WinInd, Live, Errors
  <2>2. UNCHANGED <<flags, delivered, total_out>>
    BY DEF WinInd, clientVars, fixedVars, emitVars
  <2>3. Emit /\ ~ Skipping
    BY <2>2 DEF Emit, Skipping
  <2>4. Len(delivered) = dec_winstart + win.tgtlen
        /\ total_out = (Len(delivered) + 0) % XoffMod
    BY <1>1, <2>3 DEF PInv, Counts, Ended
  <2>5. Len(delivered') = dec_winstart' + 0
    <3>1. delivered \in Seq(Byte) /\ dec_winstart \in Nat /\ win.tgtlen \in Nat
      <4>1. dec_winstart \in Xoff /\ win.tgtlen \in Usize /\ delivered \in Seq(Byte)
        BY DEF PInv, IInv, TypeOK
      <4>. QED BY <4>1, IntAssumption DEF Xoff, Usize
    <3>2. Len(delivered) \in Nat
      BY <3>1
    <3>. QED BY <3>1, <3>2, <2>1, <2>2, <2>4 DEF NextWinStart
  <2>. QED BY <2>1, <2>2, <2>4, <2>5 DEF Counts, Ended, HeadStates
<1>. QED BY <1>2, <1>3, <1>4

LEMMA WindowKeeps ==
  PInv /\ (CpyLen \/ CpyOff \/ EncLen \/ TgtLen \/ DelInd \/ CksumBytes \/ Cksum
             \/ DataLen \/ InstLen \/ AddrLen) => Exact' /\ Counts'
<1>. DEFINE States == {"DEC_CPYLEN", "DEC_CPYOFF", "DEC_ENCLEN", "DEC_TGTLEN",
                       "DEC_DELIND", "DEC_DATALEN", "DEC_INSTLEN", "DEC_ADDRLEN",
                       "DEC_CKSUM", "DEC_DATA"}
<1>. SUFFICES ASSUME PInv, \/ CpyLen \/ CpyOff \/ EncLen \/ TgtLen \/ DelInd
                           \/ CksumBytes \/ Cksum \/ DataLen \/ InstLen \/ AddrLen
              PROVE  Exact' /\ Counts'
  OBVIOUS
<1>1. /\ ret = "run" /\ {dec_state, dec_state'} \subseteq States
      /\ UNCHANGED <<clientVars, fixedVars, winVars, total_out>>
  <2>. USE DEF At, Check, winFrame
  <2>1. CASE CpyLen \/ CpyOff \/ EncLen \/ TgtLen
    BY <2>1 DEF CpyLen, CpyOff, EncLen, TgtLen
  <2>2. CASE DelInd \/ CksumBytes \/ Cksum
    BY <2>2 DEF DelInd, CksumBytes, Cksum
  <2>3. CASE DataLen \/ InstLen \/ AddrLen
    BY <2>3 DEF DataLen, InstLen, AddrLen, SectLen, emitVars
  <2>. QED BY <2>1, <2>2, <2>3
<1>2. /\ UNCHANGED <<flags, dec_winstart, delivered, total_out>> /\ Live
      /\ {dec_state, dec_state'} \cap {"DEC_EMIT", "DEC_FINISH"} = {}
      /\ {dec_state, dec_state'} \cap (HeadStates \cup {"DEC_WININD"}) = {}
  BY <1>1 DEF clientVars, fixedVars, winVars, Live, Errors, HeadStates
<1>3. Exact'
  BY <1>2, ExactKept DEF PInv
<1>4. Counts'
  BY <1>2, CountsKept DEF PInv
<1>. QED BY <1>3, <1>4

LEMMA SkippingKeeps ==
  PInv /\ (JustHdr \/ SectionsOverflow \/ SkipWindow \/ SectionInput) => Exact' /\ Counts'
<1>1. ASSUME PInv, JustHdr PROVE Exact' /\ Counts'
  <2>1. dec_state' = "DEC_FINISH" /\ Skipping'
    BY <1>1 DEF JustHdr, FinishWindow, Skipping, sectFrame, fixedVars
  <2>. QED BY <1>1, <2>1, ExactKept, NotCounted DEF PInv
<1>2. ASSUME PInv, SectionsOverflow PROVE Exact' /\ Counts'
  <2>1. ~ Live'
    BY <1>2 DEF SectionsOverflow, Live, Errors
  <2>. QED BY <1>2, <2>1, ExactKept, NotCounted DEF PInv
<1>3. ASSUME PInv, SkipWindow PROVE Exact' /\ Counts'
  <2>1. dec_state' # "DEC_EMIT"
    BY <1>3 DEF SkipWindow, FinishWindow, InSections, SectStates
  <2>2. Skipping'
    BY <1>3 DEF SkipWindow, Skipping, sectFrame, fixedVars
  <2>. QED BY <1>3, <2>1, <2>2, ExactKept, NotCounted DEF PInv
<1>4. ASSUME PInv, SectionInput PROVE Exact' /\ Counts'
  <2>1. /\ dec_state' = dec_state /\ dec_state \notin {"DEC_EMIT", "DEC_FINISH"} /\ Live
        /\ UNCHANGED <<flags, dec_winstart, delivered, total_out, win>>
    BY <1>4 DEF SectionInput, InSections, SectStates, sectFrame, clientVars, fixedVars,
                winVars, emitVars, Live, Errors
  <2>2. Exact'
    BY <1>4, <2>1, ExactKept DEF PInv
  <2>3. Counts'
    BY <1>4, <2>1, CountsKept DEF PInv
  <2>. QED BY <2>2, <2>3
<1>. QED BY <1>1, <1>2, <1>3, <1>4

\* With the last section the instructions begin: HERE is the end of the copy window.
LEMMA SectionKeeps ==
  ASSUME NEW s \in SectNames, NEW st \in SectStates, NEW nstate,
         <<s, st, nstate>> \in {<<"data", "DEC_DATA", "DEC_INST">>,
                               <<"inst", "DEC_INST", "DEC_ADDR">>,
                               <<"addr", "DEC_ADDR", "DEC_EMIT">>},
         PInv, Section(s, st, nstate)
  PROVE  Exact' /\ Counts'
<1>1. /\ ret = "run" /\ Live /\ dec_state = st /\ UNCHANGED sectFrame
      /\ \/ dec_state' = "DEC_FINISH" /\ ~ Emit
         \/ dec_state' \in {st, nstate}
  BY DEF Section, At, FinishWindow, Live, Errors
<1>2. UNCHANGED <<flags, dec_winstart, delivered, total_out, win, dec_position, cur, out>>
  BY <1>1 DEF sectFrame, clientVars, fixedVars, winVars, emitVars
<1>3. nstate \in {"DEC_INST", "DEC_ADDR", "DEC_EMIT"}
  OBVIOUS
<1>4. Exact'
  <2>1. CASE dec_state' # "DEC_EMIT"
    BY <2>1, ExactKept DEF PInv
  <2>2. CASE dec_state' = "DEC_EMIT"
    <3>1. /\ dec_position = win.cpylen /\ out = <<>>
          /\ cur[1].type = XD3_NOOP /\ cur[2].type = XD3_NOOP
      BY <1>1 DEF PInv, IInv, Quiet, SectStates
    <3>2. /\ dec_position' = win'.cpylen /\ Len(out') = 0 /\ Size(1)' = 0 /\ Size(2)' = 0
      BY <1>2, <3>1 DEF Size
    <3>3. win.cpylen \in Nat /\ UsizeMod \in Nat
      <4>1. win.cpylen \in Usize
        BY DEF PInv, IInv, TypeOK
      <4>. QED BY <4>1, IntAssumption DEF Usize
    <3>4. dec_position' + 0 * UsizeMod = win'.cpylen + Len(out') + Size(1)' + Size(2)'
      BY <1>2, <3>2, <3>3
    <3>. QED BY <3>4 DEF Exact
  <2>. QED BY <2>1, <2>2
<1>5. Counts'
  <2>1. CASE dec_state' = "DEC_FINISH" /\ ~ Emit
    <3>1. ~ Emit'
      BY <1>2, <2>1 DEF Emit
    <3>. QED BY <3>1, NotCounted
  <2>2. CASE dec_state' \in {st, nstate}
    <3>1. /\ dec_state # "DEC_FINISH" /\ dec_state' # "DEC_FINISH"
          /\ {dec_state, dec_state'} \cap (HeadStates \cup {"DEC_WININD"}) = {}
      BY <1>1, <1>3, <2>2 DEF SectStates, HeadStates
    <3>. QED BY <1>1, <1>2, <3>1, CountsKept DEF PInv
  <2>. QED BY <1>1, <2>1, <2>2
<1>. QED BY <1>4, <1>5

-----------------------------------------------------------------------------
(* The instructions.                                                       *)

\* A function on 1 .. n is a sequence of n.
LEMMA FunIsSeq ==
  ASSUME NEW n \in Nat, NEW S, NEW q \in [1 .. n -> S]
  PROVE  q \in Seq(S) /\ Len(q) = n
OBVIOUS

LEMMA Appended ==
  ASSUME NEW S, NEW a \in Seq(S), NEW n \in Nat, NEW b, DOMAIN b = 1 .. n,
         b = [i \in 1 .. n |-> b[i]]
  PROVE  Len(a \o b) = Len(a) + n
<1>. DEFINE any == {b[i] : i \in 1 .. n} \cup S
<1>1. b \in [1 .. n -> any]
  OBVIOUS
<1>2. a \in Seq(any)
  <2>1. S \subseteq any
    OBVIOUS
  <2>. HIDE DEF any
  <2>. QED BY <2>1
<1>. HIDE DEF any
<1>3. b \in Seq(any) /\ Len(b) = n
  BY <1>1, FunIsSeq
<1>. QED BY <1>2, <1>3

\* How much a half-instruction is going to write.
Writes(h) == IF h.type = XD3_NOOP THEN 0 ELSE h.size

\* An addition on usize_t wraps at most once.
LEMMA UAddWraps ==
  ASSUME NEW a \in Usize, NEW b \in Usize
  PROVE  \E k \in Nat : UAdd(a, b) + k * UsizeMod = a + b
<1>1. a \in Nat /\ b \in Nat /\ UsizeMod \in Nat
  BY IntAssumption DEF Usize
<1>2. CASE a + b < UsizeMod
  <2>1. UAdd(a, b) + 0 * UsizeMod = a + b
    BY <1>1, <1>2 DEF UAdd
  <2>. QED BY <2>1
<1>3. CASE ~ (a + b < UsizeMod)
  <2>1. UAdd(a, b) + 1 * UsizeMod = a + b
    BY <1>1, <1>3 DEF UAdd
  <2>. QED BY <2>1
<1>. QED BY <1>2, <1>3

\* A half that is accepted moves dec_position by what it is going to write.
LEMMA ParseHalfExact ==
  ASSUME IInv, dec_state = "DEC_EMIT", Live, NEW c \in Context,
         NEW type \in InstTypes, NEW size \in Usize, ParseHalf(c, type, size).ok
  PROVE  LET d == ParseHalf(c, type, size)
         IN  \E k \in Nat : d.position + k * UsizeMod = c.position + Writes(d.half)
<1>. DEFINE d == ParseHalf(c, type, size)
            r == IF size = 0 THEN ReadInt(Contents("inst"), c.inst)
                             ELSE [ok |-> TRUE, val |-> size, next |-> c.inst]
            pos == UAdd(c.position, r.val)
<1>1. d \in Context /\ d.half.type = type /\ c.ok
  BY ParseHalfFacts
<1>2. c.position \in Usize /\ c.position \in Nat /\ UsizeMod \in Nat
  <2>1. c.position \in Usize
    BY DEF Context
  <2>. QED BY <2>1, IntAssumption DEF Usize
<1>3. CASE type = XD3_NOOP
  <2>1. d.position = c.position
    <3>1. d = [c EXCEPT !.half = [type |-> type, size |-> size, addr |-> 0]]
      BY <1>3 DEF ParseHalf
    <3>. HIDE DEF d
    <3>. QED BY <3>1 DEF Context
  <2>2. Writes(d.half) = 0
    BY <1>1, <1>3 DEF Writes
  <2>3. d.position + 0 * UsizeMod = c.position + Writes(d.half)
    <3>. HIDE DEF d
    <3>. QED BY <2>1, <2>2, <1>2
  <2>. QED BY <2>3
<1>4. CASE type # XD3_NOOP
  <2>1. r.val \in Usize
    <3>1. CASE size = 0
      <4>1. /\ Contents("inst") \in Seq(Byte) /\ Len(Contents("inst")) = sect["inst"].size
            /\ sect["inst"].size \in Nat
        BY ContentsType DEF SectNames
      <4>2. c.inst \in 0 .. sect["inst"].size
        BY DEF Context
      <4>3. ReadInt(Contents("inst"), c.inst).val \in Usize
        BY <4>1, <4>2, ReadIntType
      <4>. QED BY <3>1, <4>3
    <3>2. CASE size # 0
      BY <3>2
    <3>. QED BY <3>1, <3>2
  <2>2. d.position = pos /\ d.half.size = r.val
    <3>. HIDE DEF r
    <3>. QED BY <1>1, <1>4 DEF ParseHalf, r
  <2>3. PICK k \in Nat : pos + k * UsizeMod = c.position + r.val
    BY <1>2, <2>1, UAddWraps
  <2>4. Writes(d.half) = r.val
    BY <1>1, <1>4, <2>2 DEF Writes
  <2>5. d.position + k * UsizeMod = c.position + Writes(d.half)
    BY <2>2, <2>3, <2>4
  <2>. QED BY <2>5
<1>. QED BY <1>3, <1>4

LEMMA DecodeInstructionExact ==
  ASSUME PInv, DecodeInstruction
  PROVE  Exact'
<1>. DEFINE code == CodeTable[Contents("inst")[sect["inst"].buf + 1]]
            c0 == [ok |-> TRUE, inst |-> sect["inst"].buf + 1,
                   addr |-> sect["addr"].buf, acache |-> acache,
                   position |-> dec_position, half |-> NoInst]
            c1 == ParseHalf(c0, code.type1, code.size1)
            c2 == ParseHalf(c1, code.type2, code.size2)
<1>1. /\ IInv /\ Exact /\ ret = "emit" /\ dec_state = "DEC_EMIT" /\ Live
      /\ cur[1].type = XD3_NOOP /\ cur[2].type = XD3_NOOP /\ ~ SectEnd("inst")
  BY DEF DecodeInstruction, PInv, IInv, Returned, Live, Errors
<1>2. /\ acache \in Cache /\ dec_position \in Usize
      /\ out \in Seq(Byte) /\ win.cpylen \in Usize
  BY <1>1, EmitTypes
<1>3. \A s \in SectNames :
        /\ Contents(s) \in Seq(Byte) /\ Len(Contents(s)) = sect[s].size
        /\ sect[s].size \in Nat /\ sect[s].buf \in 0 .. sect[s].size
  BY <1>1, ContentsType
<1>4. IF c2.ok
      THEN /\ cur' = [k \in 1 .. 2 |-> IF k = 1 THEN c1.half ELSE c2.half]
           /\ dec_position' = c2.position
      ELSE ret' = "XD3_INVALID_INPUT"
  BY DEF DecodeInstruction
<1>5. UNCHANGED <<win, out, dec_state>>
  BY DEF DecodeInstruction, emitFrame
<1>6. /\ sect["inst"].buf + 1 \in 1 .. sect["inst"].size
      /\ sect["addr"].buf \in 0 .. sect["addr"].size
  BY <1>1, <1>3 DEF SectEnd, SectNames
<1>7. code \in [type1 : InstTypes, size1 : Usize, type2 : InstTypes, size2 : Usize]
  <2>1. Contents("inst")[sect["inst"].buf + 1] \in Byte
    BY <1>3, <1>6 DEF SectNames
  <2>2. CodeTable \in [Byte -> [type1 : InstTypes, size1 : Usize,
                               type2 : InstTypes, size2 : Usize]]
    BY DecodeAssumption
  <2>. QED BY <2>1, <2>2
<1>. HIDE DEF code
<1>8. c0 \in Context /\ c0.position = dec_position
  <2>1. NoInst \in HalfInst
    BY IntAssumption, CacheAssumption
       DEF NoInst, HalfInst, Usize, InstTypes, XD3_NOOP, XD3_CPY, SameStart
  <2>2. sect["inst"].buf + 1 \in 0 .. sect["inst"].size
    BY <1>3, <1>6 DEF SectNames
  <2>. QED BY <1>2, <1>6, <2>1, <2>2 DEF Context
<1>. HIDE DEF c0
<1>9. c1 \in Context
  BY <1>1, <1>7, <1>8, ParseHalfFacts
<1>10. CASE ~ c2.ok
  <2>1. ~ Live'
    BY <1>4, <1>10 DEF Live, Errors
  <2>. QED BY <2>1, ExactKept DEF PInv
<1>11. CASE c2.ok
  <2>1. c2 \in Context /\ c1.ok
    BY <1>1, <1>7, <1>9, <1>11, ParseHalfFacts
  <2>2. PICK i \in Nat : c1.position + i * UsizeMod = c0.position + Writes(c1.half)
    BY <1>1, <1>7, <1>8, <2>1, ParseHalfExact
  <2>3. PICK j \in Nat : c2.position + j * UsizeMod = c1.position + Writes(c2.half)
    BY <1>1, <1>7, <1>9, <1>11, ParseHalfExact
  <2>4. PICK k \in Nat : dec_position + k * UsizeMod = win.cpylen + Len(out)
    <3>1. Size(1) = 0 /\ Size(2) = 0
      BY <1>1 DEF Size
    <3>2. win.cpylen \in Nat /\ Len(out) \in Nat
      BY <1>2, IntAssumption DEF Usize
    <3>. QED BY <1>1, <3>1, <3>2 DEF Exact
  <2>5. /\ c1.position \in Nat /\ c2.position \in Nat /\ dec_position \in Nat
        /\ Writes(c1.half) \in Nat /\ Writes(c2.half) \in Nat /\ UsizeMod \in Nat
        /\ win.cpylen \in Nat /\ Len(out) \in Nat
    <3>1. Usize \subseteq Nat /\ UsizeMod \in Nat
      BY IntAssumption DEF Usize
    <3>2. /\ c1.position \in Usize /\ c2.position \in Usize
          /\ c1.half.size \in Usize /\ c2.half.size \in Usize
      BY <1>9, <2>1 DEF Context, HalfInst
    <3>. HIDE DEF c1, c2
    <3>3. Writes(c1.half) \in Nat /\ Writes(c2.half) \in Nat
      BY <3>1, <3>2 DEF Writes
    <3>4. Len(out) \in Nat
      BY <1>2
    <3>. QED BY <1>2, <3>1, <3>2, <3>3, <3>4
  <2>6. cur'[1] = c1.half /\ cur'[2] = c2.half /\ dec_position' = c2.position
    BY <1>4, <1>11
  <2>7. Size(1)' = Writes(c1.half) /\ Size(2)' = Writes(c2.half)
    BY <2>6 DEF Size, Writes
  <2>. HIDE DEF c1, c2
  <2>8. (i + j + k) * UsizeMod = i * UsizeMod + j * UsizeMod + k * UsizeMod
        /\ i * UsizeMod \in Nat /\ j * UsizeMod \in Nat /\ k * UsizeMod \in Nat
        /\ i + j + k \in Nat
    BY <2>5
  <2>9. c2.position + (i + j + k) * UsizeMod
          = win.cpylen + Len(out) + Writes(c1.half) + Writes(c2.half)
    <3>. DEFINE x == i * UsizeMod
                y == j * UsizeMod
                z == k * UsizeMod
                v == Writes(c1.half)
                u == Writes(c2.half)
    <3>1. /\ c1.position + x = dec_position + v /\ c2.position + y = c1.position + u
          /\ dec_position + z = win.cpylen + Len(out)
          /\ x \in Nat /\ y \in Nat /\ z \in Nat /\ u \in Nat /\ v \in Nat
      BY <1>8, <2>2, <2>3, <2>4, <2>5, <2>8
    <3>2. (i + j + k) * UsizeMod = x + y + z
      BY <2>8
    <3>. HIDE DEF x, y, z, u, v
    <3>3. PICK p0 \in Nat, p1 \in Nat, p2 \in Nat, c \in Nat, l \in Nat :
            /\ p0 = dec_position /\ p1 = c1.position /\ p2 = c2.position
            /\ c = win.cpylen /\ l = Len(out)
      BY <2>5
    <3>4. PICK a \in Nat, b \in Nat, d \in Nat, e \in Nat, f \in Nat :
            a = x /\ b = y /\ d = z /\ e = u /\ f = v
      BY <3>1
    <3>5. p1 + a = p0 + f /\ p2 + b = p1 + e /\ p0 + d = c + l
      BY <3>1, <3>3, <3>4
    <3>6. p2 + (a + b + d) = c + l + f + e
      BY <3>5
    <3>7. c2.position + (x + y + z) = win.cpylen + Len(out) + v + u
      BY <3>3, <3>4, <3>6
    <3>. QED BY <3>2, <3>7 DEF u, v
  <2>10. dec_position' + (i + j + k) * UsizeMod
           = win'.cpylen + Len(out') + Size(1)' + Size(2)'
    BY <1>5, <2>6, <2>7, <2>9
  <2>. QED BY <2>8, <2>10 DEF Exact
<1>. QED BY <1>10, <1>11

\* What is written is what the pending half has no more to write.
LEMMA WrittenExact ==
  ASSUME PInv, Pending, NEW n \in 0 .. inst.size, NEW h \in HalfInst,
         Len(out') = Len(out) + n, cur' = [cur EXCEPT ![Half] = h],
         UNCHANGED <<win, dec_state, dec_position>>,
         Writes(h) = inst.size - n
  PROVE  Exact'
<1>1. /\ dec_state = "DEC_EMIT" /\ Live /\ Half \in 1 .. 2 /\ cur \in Insts
      /\ inst = cur[Half] /\ inst.type # XD3_NOOP /\ inst.size \in Nat /\ n \in Nat
      /\ win.cpylen \in Nat /\ Len(out) \in Nat
      /\ Half = 2 => cur[1].type = XD3_NOOP
  BY PendingFacts DEF PInv
<1>2. cur' \in Insts /\ cur'[Half] = h /\ \A k \in 1 .. 2 : k # Half => cur'[k] = cur[k]
  BY <1>1 DEF Insts
<1>3. Size(1) \in Nat /\ Size(2) \in Nat
  <2>1. \A k \in 1 .. 2 : cur[k].size \in Usize
    BY <1>1 DEF Insts, HalfInst
  <2>. QED BY <2>1, IntAssumption DEF Size, Usize
<1>4. Size(1)' + Size(2)' = Size(1) + Size(2) - n
      /\ Size(1)' \in Nat /\ Size(2)' \in Nat
  <2>1. CASE Half = 1
    <3>1. Size(1) = inst.size /\ Size(1)' = inst.size - n /\ Size(2)' = Size(2)
      BY <2>1, <1>1, <1>2 DEF Size, Writes
    <3>. QED BY <3>1, <1>1, <1>3
  <2>2. CASE Half = 2
    <3>1. Size(2) = inst.size /\ Size(2)' = inst.size - n /\ Size(1)' = Size(1)
      BY <2>2, <1>1, <1>2 DEF Size, Writes
    <3>. QED BY <3>1, <1>1, <1>3
  <2>. QED BY <2>1, <2>2, <1>1
<1>5. PICK k \in Nat :
        dec_position + k * UsizeMod = win.cpylen + Len(out) + Size(1) + Size(2)
  BY <1>1 DEF PInv, Exact
<1>6. win.cpylen + Len(out) + Size(1) + Size(2) = win'.cpylen + Len(out') + Size(1)' + Size(2)'
  <2>1. Len(out') = Len(out) + n /\ win'.cpylen = win.cpylen
    OBVIOUS
  <2>2. PICK c \in Nat, l \in Nat, s1 \in Nat, s2 \in Nat, t1 \in Nat, t2 \in Nat,
             m \in Nat :
          /\ c = win.cpylen /\ l = Len(out) /\ s1 = Size(1) /\ s2 = Size(2)
          /\ t1 = Size(1)' /\ t2 = Size(2)' /\ m = n
    BY <1>1, <1>3, <1>4
  <2>3. c + l + s1 + s2 = c + (l + n) + t1 + t2
    <3>1. t1 + t2 = s1 + s2 - m
      BY <2>2, <1>4
    <3>2. c + l + s1 + s2 = c + (l + m) + t1 + t2
      BY <3>1
    <3>. QED BY <2>2, <3>2
  <2>. QED BY <2>1, <2>2, <2>3
<1>7. dec_position' + k * UsizeMod = win'.cpylen + Len(out') + Size(1)' + Size(2)'
  BY <1>5, <1>6
<1>. QED BY <1>7 DEF Exact

LEMMA EmitEnterKeeps ==
  ASSUME PInv, EmitEnter \/ OutputOverflow \/ GetSrcBlk
  PROVE  Exact'
<1>1. /\ dec_state = "DEC_EMIT" /\ Live /\ UNCHANGED <<win, dec_position, cur, out>>
  <2>1. CASE EmitEnter
    BY <2>1 DEF EmitEnter, At, emitFrame, emitVars, Live, Errors
  <2>2. CASE OutputOverflow \/ GetSrcBlk
    BY <2>2, PendingFacts DEF PInv, OutputOverflow, GetSrcBlk, outFrame, emitFrame
  <2>. QED BY <2>1, <2>2
<1>. QED BY <1>1, ExactKept DEF PInv

LEMMA OutputDataExact ==
  ASSUME PInv, OutputData
  PROVE  Exact'
<1>. DEFINE rd    == sect["data"].buf
            bytes == IF inst.type = XD3_RUN THEN 1 ELSE inst.size
            new   == IF inst.type = XD3_RUN THEN Run(Data[rd + 1], inst.size)
                                            ELSE SubSeq(Data, rd + 1, rd + inst.size)
            h     == [inst EXCEPT !.type = XD3_NOOP]
<1>1. Pending /\ inst.type \in {XD3_RUN, XD3_ADD}
  BY DEF OutputData
<1>2. /\ ret = "emit" /\ dec_state = "DEC_EMIT" /\ Live /\ inst \in HalfInst
      /\ inst.size \in Nat /\ Half \in 1 .. 2 /\ inst = cur[Half] /\ cur \in Insts
      /\ out \in Seq(Byte)
  BY <1>1, PendingFacts, EmitTypes DEF PInv
<1>3. /\ Data \in Seq(Byte) /\ Len(Data) = sect["data"].size
      /\ sect["data"].size \in Nat /\ rd \in Nat
  BY <1>2, ContentsType DEF PInv, Data, SectNames
<1>4. CASE rd + bytes > sect["data"].size
  <2>1. ~ Live'
    BY <1>4 DEF OutputData, Live, Errors
  <2>. QED BY <2>1, ExactKept DEF PInv
<1>5. CASE ~ (rd + bytes > sect["data"].size)
  <2>1. /\ out' = out \o new /\ cur' = [cur EXCEPT ![Half].type = XD3_NOOP]
        /\ UNCHANGED <<win, dec_state, dec_position>>
    BY <1>5 DEF OutputData, outFrame, emitFrame, DoneHalf
  <2>2. bytes \in Nat /\ rd + bytes <= sect["data"].size
    BY <1>2, <1>3, <1>5
  <2>3. new \in Seq(Byte) /\ Len(new) = inst.size
    <3>1. CASE inst.type = XD3_RUN
      <4>1. Data[rd + 1] \in Byte
        BY <1>3, <2>2, <3>1
      <4>2. new = [i \in 1 .. inst.size |-> Data[rd + 1]]
        BY <3>1 DEF Run
      <4>. HIDE DEF new, rd
      <4>. QED BY <1>2, <4>1, <4>2
    <3>2. CASE inst.type # XD3_RUN
      <4>1. new = SubSeq(Data, rd + 1, rd + inst.size) /\ rd + inst.size <= Len(Data)
        BY <1>3, <2>2, <3>2
      <4>. HIDE DEF new, rd
      <4>2. rd \in Nat /\ inst.size \in Nat /\ Data \in Seq(Byte)
        BY <1>2, <1>3
      <4>3. /\ SubSeq(Data, rd + 1, rd + inst.size) \in Seq(Byte)
            /\ Len(SubSeq(Data, rd + 1, rd + inst.size)) = inst.size
        BY <4>1, <4>2, SubSeqType
      <4>. QED BY <4>1, <4>3
    <3>. QED BY <3>1, <3>2
  <2>. HIDE DEF new
  <2>4. Len(out') = Len(out) + inst.size
    BY <1>2, <2>1, <2>3
  <2>5. h \in HalfInst /\ h.type = XD3_NOOP
    BY <1>2, NoopType DEF HalfInst
  <2>6. cur' = [cur EXCEPT ![Half] = h]
    BY <1>2, <2>1
  <2>. HIDE DEF h
  <2>7. inst.size \in 0 .. inst.size /\ Writes(h) = inst.size - inst.size
    BY <1>2, <2>5 DEF Writes
  <2>. QED BY <1>1, <2>1, <2>4, <2>5, <2>6, <2>7, WrittenExact
<1>. QED BY <1>4, <1>5

LEMMA OutputTargetExact ==
  ASSUME PInv, OutputTarget
  PROVE  Exact'
<1>. DEFINE from   == inst.addr - win.cpylen
            period == Len(out) - from
            new    == [i \in 1 .. inst.size |-> out[from + ((i - 1) % period) + 1]]
            h      == [inst EXCEPT !.type = XD3_NOOP, !.size = 0]
<1>1. /\ Pending /\ out' = out \o new
      /\ cur' = [cur EXCEPT ![Half].type = XD3_NOOP, ![Half].size = 0]
      /\ UNCHANGED <<win, dec_state, dec_position>>
  BY DEF OutputTarget, outFrame, emitFrame
<1>2. /\ inst \in HalfInst /\ inst.size \in Nat /\ Half \in 1 .. 2
      /\ inst = cur[Half] /\ cur \in Insts /\ out \in Seq(Byte)
  BY <1>1, PendingFacts, EmitTypes DEF PInv
<1>3. Len(out') = Len(out) + inst.size
  <2>1. DOMAIN new = 1 .. inst.size /\ new = [i \in 1 .. inst.size |-> new[i]]
    OBVIOUS
  <2>2. out' = out \o new
    BY <1>1
  <2>. HIDE DEF new
  <2>. QED BY <1>2, <2>1, <2>2, Appended
<1>. HIDE DEF new
<1>4. h \in HalfInst /\ h.type = XD3_NOOP
  <2>1. 0 \in Usize
    BY IntAssumption DEF Usize
  <2>. QED BY <1>2, <2>1, NoopType DEF HalfInst
<1>5. cur' = [cur EXCEPT ![Half] = h]
  BY <1>1, <1>2
<1>. HIDE DEF h
<1>6. inst.size \in 0 .. inst.size /\ Writes(h) = inst.size - inst.size
  BY <1>2, <1>4 DEF Writes
<1>. QED BY <1>1, <1>3, <1>4, <1>5, <1>6, WrittenExact

LEMMA OutputSourceExact ==
  ASSUME PInv, OutputSource
  PROVE  Exact'
<1>. DEFINE off  == CopyBlock.off
            take == Lesser(inst.size, BlkSize - off)
            new  == [i \in 1 .. take |-> CurByte(src, off + i - 1)]
            h    == IF off + inst.size <= BlkSize
                    THEN [inst EXCEPT !.type = XD3_NOOP, !.size = 0]
                    ELSE Left(inst, take)
<1>1. Pending /\ UNCHANGED <<win, dec_state, dec_position>>
  BY DEF OutputSource, outFrame, emitFrame
<1>2. /\ inst \in HalfInst /\ inst.size \in Nat /\ inst.size \in Usize
      /\ inst.addr \in Usize /\ Half \in 1 .. 2 /\ inst.type # XD3_NOOP
      /\ inst = cur[Half] /\ cur \in Insts /\ out \in Seq(Byte)
  BY <1>1, PendingFacts, EmitTypes DEF PInv
<1>3. CASE src.onblk # BlkSize /\ off + inst.size > src.onblk
  <2>1. ~ Live'
    BY <1>3 DEF OutputSource, Live, Errors
  <2>. QED BY <2>1, ExactKept DEF PInv
<1>4. CASE ~ (src.onblk # BlkSize /\ off + inst.size > src.onblk)
  <2>1. /\ out' = out \o new
        /\ cur' = [cur EXCEPT ![Half] =
                     IF off + inst.size <= BlkSize
                     THEN [cur[Half] EXCEPT !.type = XD3_NOOP, !.size = 0]
                     ELSE Left(cur[Half], take)]
    BY <1>4 DEF OutputSource
  <2>2. cur' = [cur EXCEPT ![Half] = h]
    BY <1>2, <2>1
  <2>3. /\ off \in 0 .. BlkSize - 1 /\ BlkSize \in Nat \ {0}
    BY <1>1, BlkAddType, SourceAssumption DEF PInv, OutputSource
  <2>4. /\ take \in Nat /\ take <= inst.size
        /\ off + inst.size <= BlkSize => take = inst.size
    BY <1>2, <2>3 DEF Lesser
  <2>. HIDE DEF off, take
  <2>5. Len(out') = Len(out) + take
    <3>1. DOMAIN new = 1 .. take /\ new = [i \in 1 .. take |-> new[i]]
      OBVIOUS
    <3>2. out' = out \o new
      BY <2>1
    <3>. HIDE DEF new
    <3>. QED BY <1>2, <2>4, <3>1, <3>2, Appended
  <2>6. h \in HalfInst /\ Writes(h) = inst.size - take
    <3>1. 0 \in Usize /\ inst.size - take \in Usize /\ take \in Usize
      BY <1>2, <2>4, IntAssumption DEF Usize
    <3>2. UAdd(inst.addr, take) \in Usize
      BY <1>2, <3>1, UAddType
    <3>3. CASE off + inst.size <= BlkSize
      <4>1. h = [inst EXCEPT !.type = XD3_NOOP, !.size = 0]
        BY <3>3
      <4>. HIDE DEF h
      <4>2. h \in HalfInst /\ h.type = XD3_NOOP
        BY <4>1, <3>1, <1>2, NoopType DEF HalfInst
      <4>. QED BY <4>2, <3>3, <1>2, <2>4 DEF Writes
    <3>4. CASE ~ (off + inst.size <= BlkSize)
      <4>1. h = Left(inst, take)
        BY <3>4
      <4>. HIDE DEF h
      <4>. QED BY <4>1, <3>1, <3>2, <1>2, <2>4 DEF HalfInst, Writes, Left
    <3>. QED BY <3>3, <3>4
  <2>. HIDE DEF h
  <2>7. take \in 0 .. inst.size
    BY <1>2, <2>4
  <2>. QED BY <1>1, <2>2, <2>5, <2>6, <2>7, WrittenExact
<1>. QED BY <1>3, <1>4

\* No instruction ends a window.
LEMMA EmittingCounts ==
  ASSUME PInv, \/ EmitEnter \/ DecodeInstruction \/ OutputOverflow \/ OutputData
               \/ GetSrcBlk \/ OutputSource \/ OutputTarget
  PROVE  Counts'
<1>1. /\ dec_state = "DEC_EMIT" /\ dec_state' = dec_state /\ Live
      /\ UNCHANGED <<flags, dec_winstart, delivered, total_out, win>>
  <2>1. CASE EmitEnter
    BY <2>1 DEF EmitEnter, At, emitFrame, emitVars, clientVars, fixedVars, winVars, Live,
                Errors
  <2>2. CASE DecodeInstruction
    <3>1. ret = "emit" /\ dec_state = "DEC_EMIT"
      BY <2>2 DEF DecodeInstruction, PInv, IInv, Returned
    <3>. QED BY <2>2, <3>1 DEF DecodeInstruction, emitFrame, clientVars, fixedVars, winVars,
                               Live, Errors
  <2>3. CASE OutputOverflow \/ OutputData \/ GetSrcBlk \/ OutputSource \/ OutputTarget
    <3>1. Pending /\ UNCHANGED outFrame
      BY <2>3 DEF OutputOverflow, OutputData, GetSrcBlk, OutputSource, OutputTarget
    <3>2. dec_state = "DEC_EMIT" /\ Live
      BY <3>1, PendingFacts DEF PInv
    <3>. QED BY <3>1, <3>2 DEF outFrame, emitFrame, clientVars, fixedVars, winVars
  <2>. QED BY <2>1, <2>2, <2>3
<1>. QED BY <1>1, CountsKept DEF PInv, HeadStates

\* A window ends when all of its tgtlen bytes are written; they are counted now
\* and delivered when the call has returned.
LEMMA EmitEndKeeps == PInv /\ EmitEnd => Exact' /\ Counts'
<1>. SUFFICES ASSUME PInv, EmitEnd PROVE Exact' /\ Counts'
  OBVIOUS
<1>1. dec_state = "DEC_EMIT" /\ Live
  BY DEF EmitEnd, PInv, IInv, Returned, Live, Errors
<1>2. CASE ~ WindowValid
  <2>1. ~ Live'
    BY <1>2 DEF EmitEnd, Live, Errors
  <2>. QED BY <2>1, ExactKept, NotCounted DEF PInv
<1>3. CASE WindowValid
  <2>1. /\ dec_state' = "DEC_FINISH" /\ ret' = "XD3_OUTPUT"
        /\ total_out' = (total_out + Len(out)) % XoffMod
        /\ UNCHANGED <<flags, dec_winstart, delivered, win, out>>
    BY <1>3 DEF EmitEnd, FinishWindow, emitFrame, clientVars, fixedVars, winVars
  <2>2. Exact'
    BY <2>1, ExactKept DEF PInv
  <2>3. Counts'
    <3>. SUFFICES ASSUME Emit', ~ Skipping' PROVE Counts'
      BY NotCounted
    <3>1. Emit /\ ~ Skipping
      BY <2>1 DEF Emit, Skipping
    <3>2. Len(delivered) = dec_winstart + 0 /\ total_out = (Len(delivered) + 0) % XoffMod
      BY <1>1, <3>1 DEF PInv, Counts, Ended
    <3>3. total_out = Len(delivered)
      <4>1. dec_winstart \in Xoff
        BY DEF PInv, IInv, TypeOK
      <4>2. dec_winstart \in Nat /\ dec_winstart < XoffMod /\ XoffMod \in Nat \ {0}
        BY <4>1, IntAssumption DEF Xoff
      <4>3. Len(delivered) = dec_winstart
        BY <3>2, <4>2
      <4>4. total_out = dec_winstart % XoffMod
        BY <3>2, <4>2, <4>3
      <4>5. dec_winstart % XoffMod = dec_winstart
        BY <4>2, ModSmall
      <4>. QED BY <4>3, <4>4, <4>5
    <3>. QED BY <2>1, <3>2, <3>3 DEF Counts, Ended, HeadStates
  <2>. QED BY <2>2, <2>3
<1>. QED BY <1>2, <1>3

\* By now the client has taken the window.
LEMMA FinishKeeps == PInv /\ Finish => Exact' /\ Counts'
<1>. SUFFICES ASSUME PInv, Finish PROVE Exact' /\ Counts'
  OBVIOUS
<1>1. /\ dec_state = "DEC_FINISH" /\ ret = "run" /\ Live
      /\ dec_state' = "DEC_WININD" /\ Live'
      /\ UNCHANGED <<flags, dec_winstart, delivered, total_out, win>>
  BY DEF Finish, At, clientVars, fixedVars, emitVars, Live, Errors
<1>2. Exact'
  BY <1>1, ExactKept DEF PInv
<1>3. Counts'
  <2>. SUFFICES ASSUME Emit', ~ Skipping' PROVE Counts'
    BY NotCounted
  <2>1. Emit /\ ~ Skipping
    BY <1>1 DEF Emit, Skipping
  <2>2. Len(out) = 0
    <3>1. out = <<>>
      BY <1>1 DEF PInv, IInv, Quiet
    <3>. QED BY <3>1
  <2>3. /\ Len(delivered) = dec_winstart + win.tgtlen
        /\ total_out = (Len(delivered) + Len(out)) % XoffMod
    BY <1>1, <2>1 DEF PInv, Counts, Ended
  <2>. QED BY <1>1, <2>2, <2>3 DEF Counts, Ended, HeadStates
<1>. QED BY <1>2, <1>3

-----------------------------------------------------------------------------
(* The client.                                                             *)

\* The client takes a whole window.
LEMMA ConsumeOutputKeeps == PInv /\ ConsumeOutput => Exact' /\ Counts'
<1>. SUFFICES ASSUME PInv, ConsumeOutput PROVE Exact' /\ Counts'
  OBVIOUS
<1>1. /\ dec_state = "DEC_FINISH" /\ ret = "XD3_OUTPUT" /\ Live
      /\ dec_state' = "DEC_FINISH" /\ ret' = "run"
      /\ delivered' = delivered \o out /\ out' = <<>>
      /\ UNCHANGED <<flags, dec_winstart, total_out, win>>
  BY DEF ConsumeOutput, PInv, IInv, Returned, streamFrame, fixedVars, winVars, Live, Errors
<1>2. Exact'
  BY <1>1, ExactKept DEF PInv
<1>3. Counts'
  <2>. SUFFICES ASSUME Emit', ~ Skipping' PROVE Counts'
    BY NotCounted
  <2>1. Emit /\ ~ Skipping
    BY <1>1 DEF Emit, Skipping
  <2>2. Len(out) = win.tgtlen
    BY <1>1, <2>1 DEF PInv, IInv, OutInv, OutputBounded
  <2>3. /\ Len(delivered) = dec_winstart
        /\ total_out = (Len(delivered) + Len(out)) % XoffMod
    <3>1. dec_winstart \in Xoff
      BY DEF PInv, IInv, TypeOK
    <3>2. dec_winstart \in Nat
      BY <3>1, IntAssumption DEF Xoff
    <3>. QED BY <1>1, <2>1, <3>2 DEF PInv, Counts, Ended
  <2>4. Len(delivered') = Len(delivered) + Len(out) /\ Len(out') = 0
    <3>1. delivered \in Seq(Byte) /\ out \in Seq(Byte)
      BY DEF PInv, IInv, TypeOK
    <3>. QED BY <1>1, <3>1
  <2>5. Len(delivered') + Len(out') = Len(delivered) + Len(out)
    <3>1. delivered \in Seq(Byte) /\ out \in Seq(Byte)
      BY DEF PInv, IInv, TypeOK
    <3>. QED BY <2>4, <3>1
  <2>6. Len(delivered') = dec_winstart' + win'.tgtlen
    BY <1>1, <2>2, <2>3, <2>4
  <2>7. total_out' = (Len(delivered') + Len(out')) % XoffMod
    BY <1>1, <2>3, <2>5
  <2>. QED BY <1>1, <2>6, <2>7 DEF Counts, Ended, HeadStates
<1>. QED BY <1>2, <1>3

\* What else the client does leaves the window alone.
LEMMA ClientKeeps ==
  PInv /\ ((\E n \in FeedSizes : AvailInput(n)) \/ Abort \/ Continue \/ ProvideBlock
             \/ Close) => Exact' /\ Counts'
<1>1. ASSUME PInv, (\E n \in FeedSizes : AvailInput(n)) \/ Continue \/ ProvideBlock
                     \/ Close
      PROVE  Exact' /\ Counts'
  <2>1. /\ dec_state' = dec_state /\ dec_state # "DEC_FINISH" /\ Live
        /\ UNCHANGED <<flags, dec_winstart, delivered, total_out, win, dec_position, cur>>
        /\ dec_state = "DEC_EMIT" => out' = out
    <3>1. Returned
      BY <1>1 DEF PInv, IInv
    <3>. USE DEF streamFrame, fixedVars, winVars, clientVars, Live, Errors
    <3>2. CASE \E n \in FeedSizes : AvailInput(n)
      BY <3>1, <3>2 DEF AvailInput, Returned
    <3>3. CASE Continue \/ ProvideBlock
      BY <3>1, <3>3 DEF Continue, ProvideBlock, Returned
    <3>4. CASE Close
      BY <3>1, <3>4 DEF Close, Returned
    <3>. QED BY <1>1, <3>2, <3>3, <3>4
  <2>2. Exact'
    BY <1>1, <2>1, ExactKept DEF PInv
  <2>3. Counts'
    BY <1>1, <2>1, CountsKept DEF PInv
  <2>. QED BY <2>2, <2>3
<1>2. ASSUME PInv, Abort PROVE Exact' /\ Counts'
  <2>1. dec_state' = "DEC_ABORTED" /\ Skipping'
    BY <1>2 DEF Abort, streamFrame, fixedVars, Skipping
  <2>. QED BY <1>2, <2>1, ExactKept, NotCounted DEF PInv
<1>. QED BY <1>1, <1>2

LEMMA StutterKeeps == PInv /\ UNCHANGED vars => Exact' /\ Counts'
<1>. SUFFICES ASSUME PInv, UNCHANGED vars PROVE Exact' /\ Counts'
  OBVIOUS
<1>1. UNCHANGED <<ret, dec_state, flags, win, dec_winstart, delivered, total_out,
                  dec_position, cur, out>>
  BY DEF vars, clientVars, fixedVars, winVars, emitVars
<1>2. Exact'
  BY <1>1, ExactKept DEF PInv, Live, Exact
<1>3. Counts'
  BY <1>1 DEF PInv, Counts, Emit, Skipping, Live, Ended
<1>. QED BY <1>2, <1>3

LEMMA PositionInit == Init => Exact /\ Counts
<1>. SUFFICES ASSUME Init PROVE Exact /\ Counts
  OBVIOUS
<1>1. Exact
  BY DEF Init, Exact
<1>2. dec_state = "DEC_VCHEAD" /\ dec_winstart = 0 /\ win.tgtlen = 0
      /\ Len(delivered) = 0 /\ total_out = 0
  BY DEF Init, NoWin
<1>3. 0 % XoffMod = 0
  BY ModSmall, IntAssumption
<1>4. /\ Len(delivered) = dec_winstart + (IF Ended THEN win.tgtlen ELSE 0)
      /\ dec_state \in HeadStates => dec_winstart = 0 /\ win.tgtlen = 0
  BY <1>2
<1>5. total_out = (Len(delivered) + (IF dec_state = "DEC_FINISH" THEN Len(out) ELSE 0))
                  % XoffMod
  <2>1. Len(delivered) + (IF dec_state = "DEC_FINISH" THEN Len(out) ELSE 0) = 0
    BY <1>2
  <2>. QED BY <1>2, <1>3, <2>1
<1>. QED BY <1>1, <1>4, <1>5 DEF Counts

LEMMA PositionStep == PInv /\ [Next]_vars => PInv'
<1>. SUFFICES ASSUME PInv, [Next]_vars PROVE Exact' /\ Counts'
  BY NextStep DEF PInv
<1>1. CASE NeedInput \/ IntOverflow \/ IntMore \/ Header
  BY <1>1, NeedInputKeeps, IntKeeps, HeaderKeeps
<1>2. CASE Window
  BY <1>2, WinIndKeeps, WindowKeeps DEF Window
<1>3. CASE Sections
  <2>. USE DEF SectNames, SectStates
  <2>1. CASE DataSection
    BY <2>1, SectionKeeps DEF DataSection
  <2>2. CASE InstSection
    BY <2>2, SectionKeeps DEF InstSection
  <2>3. CASE AddrSection
    BY <2>3, SectionKeeps DEF AddrSection
  <2>. QED BY <1>3, <2>1, <2>2, <2>3, SkippingKeeps DEF Sections
<1>4. CASE Emitting
  BY <1>4, EmitEnterKeeps, DecodeInstructionExact, OutputDataExact, OutputSourceExact,
     OutputTargetExact, EmittingCounts, EmitEndKeeps, FinishKeeps DEF Emitting
<1>5. CASE Client
  BY <1>5, ConsumeOutputKeeps, ClientKeeps DEF Client
<1>6. CASE Stopped \/ UNCHANGED vars
  BY <1>6, StutterKeeps DEF Stopped
<1>. QED BY <1>1, <1>2, <1>3, <1>4, <1>5, <1>6 DEF Next, Stream

\* A remainder, from the number of times the counter has wrapped.
LEMMA Remainder ==
  ASSUME NEW m \in Nat \ {0}, NEW d \in 0 .. m - 1, NEW k \in Nat, NEW x,
         d + k * m = x
  PROVE  d = x % m
<1>1. k * m \in Nat
  OBVIOUS
<1>. QED BY <1>1

\* HERE, against which every address is decoded, is where the next byte will be
\* written once the decoded instructions have been; and the offset of a window
\* and the count of output bytes are those of what the client holds, although
\* one is updated a window late and the other before the window is taken.
THEOREM PositionIsExact == Spec => []PositionExact
<1>1. PInv => PositionExact
  <2>. SUFFICES ASSUME PInv PROVE PositionExact
    OBVIOUS
  <2>1. (dec_state = "DEC_EMIT" /\ ret \in {"run", "emit", "XD3_GETSRCBLK"}) =>
          dec_position = (win.cpylen + Len(out) + PendingSize) % UsizeMod
    <3>. SUFFICES ASSUME dec_state = "DEC_EMIT", ret \in {"run", "emit", "XD3_GETSRCBLK"}
                  PROVE  dec_position = (win.cpylen + Len(out) + PendingSize) % UsizeMod
      OBVIOUS
    <3>1. PICK k \in Nat :
            dec_position + k * UsizeMod = win.cpylen + Len(out) + Size(1) + Size(2)
      BY DEF PInv, Exact, Live, Errors
    <3>2. dec_position \in Usize /\ win.cpylen \in Usize /\ out \in Seq(Byte)
          /\ \A j \in 1 .. 2 : cur[j].size \in Usize
      BY DEF PInv, IInv, TypeOK
    <3>3. /\ UsizeMod \in Nat \ {0} /\ dec_position \in 0 .. UsizeMod - 1
          /\ win.cpylen \in Nat /\ Len(out) \in Nat /\ Size(1) \in Nat /\ Size(2) \in Nat
      BY <3>2, IntAssumption DEF Usize, Size
    <3>4. win.cpylen + Len(out) + Size(1) + Size(2) = win.cpylen + Len(out) + PendingSize
      <4>1. PendingSize = Size(1) + Size(2)
        BY DEF PendingSize, Size
      <4>. QED BY <3>3, <4>1
    <3>5. dec_position + k * UsizeMod = win.cpylen + Len(out) + PendingSize
      BY <3>1, <3>4
    <3>. QED BY <3>3, <3>5, Remainder
  <2>2. (Emit /\ ~ Skipping /\ Live) =>
          /\ dec_state \notin {"DEC_WININD", "DEC_FINISH", "DEC_VCHEAD", "DEC_ABORTED"}
               => dec_winstart = Len(delivered)
          /\ total_out = (Len(delivered)
                          + (IF dec_state = "DEC_FINISH" THEN Len(out) ELSE 0)) % XoffMod
    <3>1. dec_winstart \in Nat
      <4>1. dec_winstart \in Xoff
        BY DEF PInv, IInv, TypeOK
      <4>. QED BY <4>1, IntAssumption DEF Xoff
    <3>. QED BY <3>1 DEF PInv, Counts, Ended
  <2>. QED BY <2>1, <2>2 DEF PositionExact, Live
<1>2. Init => PInv
  BY InitStep, PositionInit DEF PInv
<1>. QED BY <1>1, <1>2, PositionStep, PTL DEF Spec

=============================================================================

----------------------------- MODULE XD3Decode -----------------------------
(***************************************************************************)
(* The VCDIFF decoder: xd3_decode_input and everything it calls            *)
(* (xdelta3-decode.h), with the client that drives it.                     *)
(*                                                                         *)
(* xd3_decode_input is a state machine that its client calls again and     *)
(* again.  It stops wherever the input runs out, wherever it needs a       *)
(* source block, and at the notifications around a window; all it has      *)
(* learnt must then survive in the stream until the next call.  `ret' is   *)
(* "run" while a call is in progress, and otherwise what it returned.  One *)
(* action is one case of the switch, one byte of an integer, one section,  *)
(* one opcode or one half-instruction of the emit loop; what the client    *)
(* does between two calls are actions too.  The numbers are bytes of a     *)
(* delta file, so where the client cuts the file into buffers is free.     *)
(***************************************************************************)
EXTENDS XD3AddrCache, XD3Source

CONSTANTS
  Deltas,     \* the delta files considered, sequences of bytes
  FeedSizes,  \* the sizes of the buffer the client reads the file with
  Magic,      \* the first four bytes: d6 c3 c4 and the version 0
  CodeTable,  \* xd3_rfc3284_code_table: opcode -> a pair of half-instructions
  Adler32(_), \* the checksum of a window, as the four bytes of the file
  HardMaxWin, \* XD3_HARDMAXWINSIZE: 2^26
  AllocSize,  \* XD3_ALLOCSIZE: the unit the output buffer is rounded up to
  FlagChoices,   \* the flags a stream may be configured with
  SourceChoices  \* how the client sets the source

\* XD3_NOOP, XD3_ADD, XD3_RUN, XD3_CPY: a copy of mode m is XD3_CPY + m.
XD3_NOOP == 0
XD3_ADD  == 1
XD3_RUN  == 2
XD3_CPY  == 3
InstTypes == XD3_NOOP .. XD3_CPY + SameStart + SSame - 1

ASSUME DecodeAssumption ==
  /\ Deltas \subseteq Seq(Byte) /\ \A f \in Deltas : Len(f) < XoffMod
  /\ FeedSizes \subseteq Nat \ {0}
  /\ Magic \in Seq(Byte) /\ Len(Magic) = 4
  /\ CodeTable \in [Byte -> [type1 : InstTypes, size1 : Usize,
                             type2 : InstTypes, size2 : Usize]]
  /\ HardMaxWin \in Nat /\ AllocSize \in Nat \ {0}
  /\ HardMaxWin + AllocSize < UsizeMod /\ HardMaxWin < XoffMod
  /\ FlagChoices \subseteq SUBSET {"JUST_HDR", "SKIP_WINDOW", "SKIP_EMIT",
                                   "ADLER32_NOVER"}
  /\ SourceChoices \subseteq {"none", "set_source", "set_source_and_size"}

\* A source is smaller than the address space by more than a window.
ASSUME SizesAssumption == Len(Source) + HardMaxWin + AllocSize <= UsizeMod

VARIABLES
  \* the client
  file,        \* the delta file it reads
  fed,         \* how many bytes of it have been handed to the stream
  buflen,      \* the length of the buffer last handed over
  delivered,   \* the windows it has taken from XD3_OUTPUT, in order
  closed,      \* what xd3_close_stream returned: "open" before the call
  \* the stream
  flags, srckind,
  ret,         \* "run" inside a call, otherwise the value last returned
  dec_state,
  avail_in, total_in, total_out,
  part,        \* dec_64part (sizes) and dec_32part (offsets)
  hdr,         \* dec_magic, dec_hdr_ind, dec_codetblsz, dec_appheadsz, ...
  win,         \* the window header: dec_win_ind, dec_cpylen, dec_cpyoff, ...
  dec_winstart, current_window, dec_window_count,
  sect,        \* data_sect, inst_sect, addr_sect
  dec_winbytes,
  acache,
  cur,         \* dec_current1 and dec_current2
  dec_position,
  out, space_out,   \* next_out[0 .. avail_out), and its capacity
  src          \* the xd3_source

clientVars == <<file, fed, buflen, delivered, closed>>
inputVars  == <<avail_in, total_in>>
winVars    == <<dec_winstart, current_window, dec_window_count>>
sectVars   == <<sect, dec_winbytes>>
emitVars   == <<cur, dec_position, out, total_out>>
fixedVars  == <<flags, srckind>>
vars == <<clientVars, fixedVars, ret, dec_state, inputVars, part, hdr, win,
          winVars, sectVars, acache, emitVars, space_out, src>>

SectNames == {"data", "inst", "addr"}
IntParts  == {"size", "offset"}

Emit   == "SKIP_EMIT" \notin flags
Errors == {"XD3_INVALID_INPUT", "XD3_INTERNAL", "XD3_UNIMPLEMENTED", "ENOMEM"}
Over   == ret \in Errors \cup {"closed"}

Lesser(a, b) == IF a < b THEN a ELSE b

-----------------------------------------------------------------------------
(* The stream as xd3_config_stream leaves it, all zero, before any input.  *)

NoSect == [size |-> 0, pos |-> 0, buf |-> 0, zerocopy |-> FALSE, at |-> 0,
           copied1 |-> <<>>]
NoInst == [type |-> XD3_NOOP, size |-> 0, addr |-> 0]
NoWin  == [ind |-> 0, cpylen |-> 0, cpyoff |-> 0, enclen |-> 0, tgtlen |-> 0,
           maxpos |-> 0, cksum |-> <<>>]
NoHdr  == [magic |-> <<>>, ind |-> 0, appheadsz |-> 0, appheader |-> <<>>,
           hdrsize |-> 0]

Init ==
  /\ file \in Deltas /\ fed = 0 /\ buflen = 0
  /\ delivered = <<>> /\ closed = "open"
  /\ flags \in FlagChoices /\ srckind \in SourceChoices
  /\ ret = "new" /\ dec_state = "DEC_VCHEAD"
  /\ avail_in = 0 /\ total_in = 0 /\ total_out = 0
  /\ part = [p \in IntParts |-> 0]
  /\ hdr = NoHdr /\ win = NoWin
  /\ dec_winstart = 0 /\ current_window = 0 /\ dec_window_count = 0
  /\ sect = [s \in SectNames |-> NoSect] /\ dec_winbytes = 0
  /\ acache = InitCache
  /\ cur = [k \in 1 .. 2 |-> NoInst] /\ dec_position = 0
  /\ out = <<>> /\ space_out = 0
  /\ src = IF srckind = "set_source_and_size" THEN SetSourceAndSize
                                              ELSE SetSource

-----------------------------------------------------------------------------
(* Input.                                                                  *)

Bit(ind, bit) == (ind \div bit) % 2 = 1
VCD_SECONDARY == 1
VCD_CODETABLE == 2
VCD_APPHEADER == 4
VCD_SOURCE    == 1
VCD_TARGET    == 2
VCD_ADLER32   == 4
VCD_INV       == 8   \* VCD_INVHDR, VCD_INVWIN: any bit from this one up

\* SRCORTGT: one of VCD_SOURCE and VCD_TARGET, and not both.
SrcOrTgt == win.ind % 4 \in {VCD_SOURCE, VCD_TARGET}

At(st) == ret = "run" /\ dec_state = st

next_in     == fed - avail_in
NextByte    == file[next_in + 1]
NextBytes(n) == SubSeq(file, next_in + 1, next_in + n)
DECODE_INPUT(n) == avail_in' = avail_in - n /\ total_in' = total_in + n

\* The cases that read an integer, a byte, or an array of bytes.
WantsInt ==
  \/ dec_state = "DEC_TABLEN" /\ Bit(hdr.ind, VCD_CODETABLE)
  \/ dec_state = "DEC_APPLEN" /\ Bit(hdr.ind, VCD_APPHEADER)
  \/ dec_state \in {"DEC_CPYLEN", "DEC_CPYOFF"} /\ SrcOrTgt
  \/ dec_state \in {"DEC_ENCLEN", "DEC_TGTLEN", "DEC_DATALEN", "DEC_INSTLEN",
                    "DEC_ADDRLEN"}
WantsByte ==
  \/ dec_state \in {"DEC_HDRIND", "DEC_WININD", "DEC_DELIND"}
  \/ dec_state = "DEC_SECONDID" /\ Bit(hdr.ind, VCD_SECONDARY)
  \/ dec_state \in {"DEC_NEAR", "DEC_SAME"}
WantsBytes ==
  \/ dec_state = "DEC_VCHEAD" /\ Len(hdr.magic) < 4
  \/ dec_state = "DEC_APPDAT" /\ Len(hdr.appheader) < hdr.appheadsz
  \/ dec_state = "DEC_CKSUM" /\ Bit(win.ind, VCD_ADLER32) /\ Len(win.cksum) < 4

\* The input ends before what the case wants: the call returns, and the
\* next one resumes at the same case.
NeedInput ==
  /\ ret = "run" /\ (WantsInt \/ WantsByte \/ WantsBytes)
  /\ avail_in = 0
  /\ ret' = "XD3_INPUT"
  /\ UNCHANGED <<clientVars, fixedVars, dec_state, inputVars, part, hdr, win,
                 winVars, sectVars, acache, emitVars, space_out, src>>

\* xd3_decode_size and xd3_decode_offset differ in the accumulator.
Part    == IF dec_state = "DEC_CPYOFF" THEN "offset" ELSE "size"
PartMod == IF dec_state = "DEC_CPYOFF" THEN XoffMod ELSE UsizeMod
IntByte == ret = "run" /\ WantsInt /\ avail_in > 0

IntOverflow ==
  /\ IntByte /\ PartFull(part[Part], PartMod)
  /\ DECODE_INPUT(1)
  /\ ret' = "XD3_INVALID_INPUT"
  /\ UNCHANGED <<clientVars, fixedVars, dec_state, part, hdr, win, winVars,
                 sectVars, acache, emitVars, space_out, src>>

IntMore ==
  /\ IntByte /\ ~ PartFull(part[Part], PartMod) /\ More(NextByte)
  /\ DECODE_INPUT(1)
  /\ part' = [part EXCEPT ![Part] = Shift(@, NextByte)]
  /\ UNCHANGED <<clientVars, fixedVars, ret, dec_state, hdr, win, winVars,
                 sectVars, acache, emitVars, space_out, src>>

\* The last byte of an integer, in a step of the case that wants it; its
\* value is IntValue.
IntValue == Shift(part[Part], NextByte)
IntEnd ==
  /\ IntByte /\ ~ PartFull(part[Part], PartMod) /\ ~ More(NextByte)
  /\ DECODE_INPUT(1)
  /\ part' = [part EXCEPT ![Part] = 0]
NoInt == ~ WantsInt /\ UNCHANGED <<inputVars, part>>

\* A step that ends the call with an error, or goes on to case st.
Check(ok, err, st) ==
  IF ok THEN dec_state' = st /\ UNCHANGED ret
        ELSE ret' = err /\ dec_state' = st

-----------------------------------------------------------------------------
(* The file header: DEC_VCHEAD .. DEC_APPDAT.                              *)

hdrFrame == <<clientVars, fixedVars, win, winVars, sectVars, acache, emitVars,
              space_out, src>>

\* xd3_decode_bytes takes what the buffer has.
VcHeadBytes ==
  /\ At("DEC_VCHEAD") /\ WantsBytes /\ avail_in > 0
  /\ LET take == Lesser(4 - Len(hdr.magic), avail_in)
     IN  /\ hdr' = [hdr EXCEPT !.magic = @ \o NextBytes(take)]
         /\ DECODE_INPUT(take)
  /\ UNCHANGED <<hdrFrame, ret, dec_state, part>>

VcHead ==
  /\ At("DEC_VCHEAD") /\ ~ WantsBytes
  /\ IF hdr.magic = Magic
     THEN dec_state' = "DEC_HDRIND" /\ UNCHANGED ret
     ELSE ret' = "XD3_INVALID_INPUT" /\ UNCHANGED dec_state
  /\ UNCHANGED <<hdrFrame, inputVars, part, hdr>>

HdrInd ==
  /\ At("DEC_HDRIND") /\ avail_in > 0
  /\ hdr' = [hdr EXCEPT !.ind = NextByte]
  /\ DECODE_INPUT(1)
  /\ IF NextByte >= VCD_INV
     THEN ret' = "XD3_INVALID_INPUT" /\ UNCHANGED dec_state
     ELSE dec_state' = "DEC_SECONDID" /\ UNCHANGED ret
  /\ UNCHANGED <<hdrFrame, part>>

\* No secondary compressor is compiled in: DJW_CASE, LZMA_CASE and FGK_CASE
\* return XD3_INTERNAL, any other id is invalid input.
SecondId ==
  /\ At("DEC_SECONDID") /\ Bit(hdr.ind, VCD_SECONDARY) /\ avail_in > 0
  /\ DECODE_INPUT(1)
  /\ dec_state' = "DEC_TABLEN"
  /\ ret' = IF NextByte \in {1, 2, 16} THEN "XD3_INTERNAL"
                                       ELSE "XD3_INVALID_INPUT"
  /\ UNCHANGED <<hdrFrame, part, hdr>>

NoSecondId ==
  /\ At("DEC_SECONDID") /\ ~ Bit(hdr.ind, VCD_SECONDARY)
  /\ dec_state' = "DEC_TABLEN"
  /\ UNCHANGED <<hdrFrame, ret, inputVars, part, hdr>>

\* A code table in the file: its length, the two cache sizes, and then the
\* decoder gives up.
TabLen ==
  /\ At("DEC_TABLEN") /\ IntEnd
  /\ Check(IntValue > 2, "ENOMEM", "DEC_NEAR")
  /\ UNCHANGED <<hdrFrame, hdr>>

NearSame ==
  /\ ret = "run" /\ dec_state \in {"DEC_NEAR", "DEC_SAME"} /\ avail_in > 0
  /\ DECODE_INPUT(1)
  /\ dec_state' = IF dec_state = "DEC_NEAR" THEN "DEC_SAME" ELSE "DEC_TABDAT"
  /\ UNCHANGED <<hdrFrame, ret, part, hdr>>

TabDat ==
  /\ At("DEC_TABDAT")
  /\ ret' = "XD3_UNIMPLEMENTED"
  /\ UNCHANGED <<hdrFrame, dec_state, inputVars, part, hdr>>

\* No code table: DEC_TABLEN falls through to DEC_APPLEN.
DefaultTable ==
  /\ At("DEC_TABLEN") /\ ~ Bit(hdr.ind, VCD_CODETABLE)
  /\ dec_state' = "DEC_APPLEN"
  /\ UNCHANGED <<hdrFrame, ret, inputVars, part, hdr>>

AppLen ==
  /\ At("DEC_APPLEN")
  /\ \/ /\ IntEnd
        /\ hdr' = [hdr EXCEPT !.appheadsz = IntValue]
        /\ Check(~ UsizeOverflow(IntValue, 1), "XD3_INVALID_INPUT", "DEC_APPDAT")
     \/ /\ NoInt
        /\ dec_state' = "DEC_APPDAT"
        /\ UNCHANGED <<ret, hdr>>
  /\ UNCHANGED hdrFrame

AppDatBytes ==
  /\ At("DEC_APPDAT") /\ WantsBytes /\ avail_in > 0
  /\ LET take == Lesser(hdr.appheadsz - Len(hdr.appheader), avail_in)
     IN  /\ hdr' = [hdr EXCEPT !.appheader = @ \o NextBytes(take)]
         /\ DECODE_INPUT(take)
  /\ UNCHANGED <<hdrFrame, ret, dec_state, part>>

AppDat ==
  /\ At("DEC_APPDAT") /\ ~ WantsBytes
  /\ hdr' = [hdr EXCEPT !.hdrsize = total_in]
  /\ dec_state' = "DEC_WININD"
  /\ UNCHANGED <<hdrFrame, ret, inputVars, part>>

-----------------------------------------------------------------------------
(* The window header: DEC_WININD .. DEC_CKSUM.                             *)

NextWinStart == dec_winstart + win.tgtlen

\* A window begins: the target length of the one before is added to
\* dec_winstart only now, and xd3_decode_init_window resets the per-window
\* state and the address cache.
WinInd ==
  /\ At("DEC_WININD") /\ avail_in > 0
  /\ DECODE_INPUT(1)
  /\ current_window' = dec_window_count
  /\ LET fits == ~ XoffOverflow(dec_winstart, win.tgtlen)
         ok   == fits /\ NextByte < VCD_INV
     IN  /\ dec_winstart' = IF fits THEN NextWinStart ELSE dec_winstart
         /\ win' = IF ok THEN [win EXCEPT !.ind = NextByte, !.cpylen = 0,
                                          !.cpyoff = 0, !.cksum = <<>>]
                         ELSE [win EXCEPT !.ind = NextByte]
         /\ acache' = IF ok THEN InitCache ELSE acache
         /\ dec_state' = IF ok THEN "DEC_CPYLEN" ELSE dec_state
         /\ ret' = IF ok THEN ret ELSE "XD3_INVALID_INPUT"
  /\ UNCHANGED <<clientVars, fixedVars, part, hdr, dec_window_count, sectVars,
                 emitVars, space_out, src>>

winFrame == <<clientVars, fixedVars, hdr, winVars, sectVars, acache, cur, out,
              total_out, space_out, src>>

CpyLen ==
  /\ At("DEC_CPYLEN")
  /\ \/ IntEnd /\ win' = [win EXCEPT !.cpylen = IntValue]
     \/ NoInt  /\ UNCHANGED win
  /\ dec_position' = win'.cpylen
  /\ dec_state' = "DEC_CPYOFF"
  /\ UNCHANGED <<winFrame, ret>>

CpyOff ==
  /\ At("DEC_CPYOFF")
  /\ \/ IntEnd /\ win' = [win EXCEPT !.cpyoff = IntValue]
     \/ NoInt  /\ UNCHANGED win
  /\ Check(/\ ~ XoffOverflow(win'.cpyoff, win'.cpylen)
           /\ Bit(win.ind, VCD_TARGET) =>
                UAdd(win'.cpyoff, win'.cpylen) <= dec_winstart,
           "XD3_INVALID_INPUT", "DEC_ENCLEN")
  /\ UNCHANGED <<winFrame, dec_position>>

EncLen ==
  /\ At("DEC_ENCLEN") /\ IntEnd
  /\ win' = [win EXCEPT !.enclen = IntValue]
  /\ dec_state' = "DEC_TGTLEN"
  /\ UNCHANGED <<winFrame, ret, dec_position>>

TgtLen ==
  /\ At("DEC_TGTLEN") /\ IntEnd
  /\ LET ok == /\ ~ UsizeOverflow(win.cpylen, IntValue)
               /\ IntValue <= HardMaxWin
     IN  /\ win' = [win EXCEPT !.tgtlen = IntValue,
                               !.maxpos = IF ok THEN win.cpylen + IntValue
                                                ELSE @]
         /\ Check(ok, "XD3_INVALID_INPUT", "DEC_DELIND")
  /\ UNCHANGED <<winFrame, dec_position>>

\* No sec_type: every delta indicator but 0 is invalid.
DelInd ==
  /\ At("DEC_DELIND") /\ avail_in > 0
  /\ DECODE_INPUT(1)
  /\ Check(NextByte = 0, "XD3_INVALID_INPUT", "DEC_DATALEN")
  /\ UNCHANGED <<winFrame, part, win, dec_position>>

SectLen(s, st, nstate) ==
  /\ At(st) /\ IntEnd
  /\ sect' = [sect EXCEPT ![s].size = IntValue]
  /\ dec_state' = nstate
  /\ UNCHANGED <<clientVars, fixedVars, ret, hdr, win, winVars, dec_winbytes,
                 acache, emitVars, space_out, src>>

DataLen == SectLen("data", "DEC_DATALEN", "DEC_INSTLEN")
InstLen == SectLen("inst", "DEC_INSTLEN", "DEC_ADDRLEN")
AddrLen == SectLen("addr", "DEC_ADDRLEN", "DEC_CKSUM")

CksumBytes ==
  /\ At("DEC_CKSUM") /\ WantsBytes /\ avail_in > 0
  /\ LET take == Lesser(4 - Len(win.cksum), avail_in)
     IN  /\ win' = [win EXCEPT !.cksum = @ \o NextBytes(take)]
         /\ DECODE_INPUT(take)
  /\ UNCHANGED <<winFrame, ret, dec_state, part, dec_position>>

Need == sect["data"].size + sect["inst"].size + sect["addr"].size

EnclenCheck ==
  (1 + SizeofSize(win.tgtlen) + SizeofSize(sect["data"].size)
     + SizeofSize(sect["inst"].size) + SizeofSize(sect["addr"].size)
     + Need + (IF Bit(win.ind, VCD_ADLER32) THEN 4 ELSE 0)) % UsizeMod

Cksum ==
  /\ At("DEC_CKSUM") /\ ~ WantsBytes
  /\ dec_state' = "DEC_DATA"
  /\ ret' = IF win.enclen # EnclenCheck THEN "XD3_INVALID_INPUT"
            ELSE IF current_window = 0 THEN "XD3_GOTHEADER"
            ELSE "XD3_WINSTART"
  /\ UNCHANGED <<winFrame, inputVars, part, win, dec_position>>

-----------------------------------------------------------------------------
(* The sections: xd3_decode_sections and xd3_decode_section.               *)

SectStates == {"DEC_DATA", "DEC_INST", "DEC_ADDR"}
InSections == ret = "run" /\ dec_state \in SectStates
Skipping   == flags \cap {"JUST_HDR", "SKIP_WINDOW"} # {}

\* xd3_decode_finish_window, for a sect' that starts from s.
FinishWindow(s) ==
  /\ dec_winbytes' = 0
  /\ dec_state' = "DEC_FINISH"
  /\ sect' = [n \in SectNames |-> [s[n] EXCEPT !.pos = 0]]
  /\ ret' = "XD3_OUTPUT"

sectFrame == <<clientVars, fixedVars, part, hdr, win, winVars, acache, emitVars,
               src>>

JustHdr ==
  /\ InSections /\ "JUST_HDR" \in flags
  /\ FinishWindow(sect)
  /\ UNCHANGED <<sectFrame, inputVars, space_out>>

SectionsOverflow ==
  /\ InSections /\ "JUST_HDR" \notin flags
  /\ Need >= UsizeMod
  /\ ret' = "XD3_INTERNAL"
  /\ UNCHANGED <<sectFrame, dec_state, inputVars, sectVars, space_out>>

\* How much of the three sections is still to come, and whether they must be
\* copied because the buffer does not hold all of it.
SectMoreAll == Need
SectMore == USub(Need, dec_winbytes)
SectCopy == avail_in < SectMore

SkipWindow ==
  /\ InSections /\ "JUST_HDR" \notin flags /\ "SKIP_WINDOW" \in flags
  /\ Need < UsizeMod
  /\ LET take == Lesser(SectMore, avail_in)
     IN  /\ DECODE_INPUT(take)
         /\ IF SectCopy
            THEN /\ dec_winbytes' = dec_winbytes + take
                 /\ ret' = "XD3_INPUT"
                 /\ UNCHANGED <<dec_state, sect>>
            ELSE FinishWindow(sect)
  /\ UNCHANGED <<sectFrame, space_out>>

\* xd3_decode_section, when the buffer has something for it or it needs
\* nothing.  With all three sections in the buffer the section stays there
\* (zero copy); otherwise what there is of it is appended to copied1.
ZeroAlone(s) == sect[s].pos = 0 /\ avail_in >= sect[s].size
Zero(s) == sect[s].pos = 0 /\ ~ SectCopy

Rest(s)      == sect[s].size - sect[s].pos
TakeWhole(s) == IF avail_in < Rest(s) THEN 0 ELSE Rest(s)
Take(s)      == IF Zero(s) THEN sect[s].size ELSE Lesser(Rest(s), avail_in)

Kept(s) == SubSeq(sect[s].copied1, 1, sect[s].pos) \o NextBytes(Take(s))

Taken(s) ==
  IF Rest(s) = 0 THEN [take |-> 0, sect |-> sect[s]]
  ELSE [take |-> Take(s),
        sect |-> [sect[s] EXCEPT !.pos = @ + Take(s), !.zerocopy = Zero(s),
                                 !.at = IF Zero(s) THEN next_in ELSE @,
                                 !.copied1 = IF Zero(s) THEN @ ELSE Kept(s)]]

Complete(S) == [S EXCEPT !.pos = 0, !.buf = 0]

\* xd3_decode_setup_buffers, once the last section is there: a buffer that is
\* too small is replaced by one of tgtlen rounded up.
RoundUp(n) == ((n + AllocSize - 1) \div AllocSize) * AllocSize
SetupBuffers ==
  IF Bit(win.ind, VCD_TARGET)
  THEN ret' = "XD3_UNIMPLEMENTED" /\ UNCHANGED space_out
  ELSE /\ space_out' = IF space_out < win.tgtlen THEN RoundUp(win.tgtlen)
                                                 ELSE space_out
       /\ UNCHANGED ret

Section(s, st, nstate) ==
  /\ At(st) /\ ~ Skipping /\ Need < UsizeMod
  /\ sect[s].pos < sect[s].size => avail_in > 0
  /\ LET t    == Taken(s)
         done == t.sect.pos = t.sect.size
         S    == [sect EXCEPT ![s] = IF done THEN Complete(t.sect) ELSE t.sect]
         last == done /\ nstate = "DEC_EMIT"
     IN  /\ DECODE_INPUT(t.take)
         /\ IF last /\ ~ Emit
            THEN FinishWindow(S) /\ UNCHANGED space_out
            ELSE /\ sect' = S
                 /\ dec_winbytes' = dec_winbytes + t.take
                 /\ dec_state' = IF done THEN nstate ELSE st
                 /\ IF last THEN SetupBuffers
                    ELSE /\ ret' = IF done THEN ret ELSE "XD3_INPUT"
                         /\ UNCHANGED space_out
  /\ UNCHANGED sectFrame

DataSection == Section("data", "DEC_DATA", "DEC_INST")
InstSection == Section("inst", "DEC_INST", "DEC_ADDR")
AddrSection == Section("addr", "DEC_ADDR", "DEC_EMIT")

\* A section that needs input when there is none.
SectionInput ==
  /\ InSections /\ ~ Skipping /\ Need < UsizeMod
  /\ avail_in = 0
  /\ \E s \in SectNames :
       /\ <<s, dec_state>> \in {<<"data", "DEC_DATA">>, <<"inst", "DEC_INST">>,
                                <<"addr", "DEC_ADDR">>}
       /\ sect[s].pos < sect[s].size
  /\ ret' = "XD3_INPUT"
  /\ UNCHANGED <<sectFrame, dec_state, inputVars, sectVars, space_out>>

\* What the memory a section points to holds.
Contents(s) ==
  LET S == sect[s]
  IN  IF S.zerocopy THEN SubSeq(file, S.at + 1, S.at + S.size)
                    ELSE SubSeq(S.copied1, 1, S.size)
SectEnd(s) == sect[s].buf = sect[s].size

-----------------------------------------------------------------------------
(* The instructions: DEC_EMIT, xd3_decode_emit.  Inside it, ret = "emit".  *)

emitFrame == <<clientVars, fixedVars, inputVars, part, hdr, win, winVars,
               space_out>>

\* Every call that reaches DEC_EMIT computes the block of dec_cpyoff again.
EmitEnter ==
  /\ At("DEC_EMIT")
  /\ IF Bit(win.ind, VCD_SOURCE)
     THEN IF srckind = "none"
          THEN ret' = "XD3_INVALID_INPUT" /\ UNCHANGED src
          ELSE /\ ret' = "emit"
               /\ LET d == BlkDiv(win.cpyoff)
                  IN  src' = [src EXCEPT !.cpyoff_blocks = d.blk,
                                         !.cpyoff_blkoff = d.off]
     ELSE ret' = "emit" /\ UNCHANGED src
  /\ UNCHANGED <<emitFrame, dec_state, sectVars, acache, emitVars>>

\* A copy address is below HERE, and the copy does not cross the end of the
\* copy window.
KnownBelow(c, a, size) == a.ok /\ a.addr < c.position
Known(c, a, size) ==
  /\ a.ok /\ a.addr < c.position
  /\ ~ (a.addr < win.cpylen /\ UAdd(a.addr, size) > win.cpylen)

\* xd3_decode_parse_halfinst, on a context of read positions, cache and
\* dec_position, which one opcode threads through its two halves.
ParseHalf(c, type, size) ==
  LET r     == IF size = 0 THEN ReadInt(Contents("inst"), c.inst)
                           ELSE [ok |-> TRUE, val |-> size, next |-> c.inst]
      copy  == type >= XD3_CPY
      a     == DecodeAddress(c.acache, c.position, type - XD3_CPY,
                             Contents("addr"), c.addr)
      pos   == UAdd(c.position, r.val)
  IN  IF type = XD3_NOOP \/ ~ c.ok
      THEN [c EXCEPT !.half = [type |-> type, size |-> size, addr |-> 0]]
      ELSE [ok       |-> r.ok /\ (copy => Known(c, a, r.val)) /\ pos <= win.maxpos,
            inst     |-> r.next,
            addr     |-> IF copy THEN a.next ELSE c.addr,
            acache   |-> IF copy THEN a.cache ELSE c.acache,
            position |-> pos,
            half     |-> [type |-> type, size |-> r.val,
                          addr |-> IF copy THEN a.addr ELSE 0]]

\* xd3_decode_instruction
DecodeInstruction ==
  /\ ret = "emit"
  /\ cur[1].type = XD3_NOOP /\ cur[2].type = XD3_NOOP
  /\ ~ SectEnd("inst")
  /\ LET code == CodeTable[Contents("inst")[sect["inst"].buf + 1]]
         c0   == [ok |-> TRUE, inst |-> sect["inst"].buf + 1,
                  addr |-> sect["addr"].buf, acache |-> acache,
                  position |-> dec_position, half |-> NoInst]
         c1   == ParseHalf(c0, code.type1, code.size1)
         c2   == ParseHalf(c1, code.type2, code.size2)
     IN  IF c2.ok
         THEN /\ cur' = [k \in 1 .. 2 |-> IF k = 1 THEN c1.half ELSE c2.half]
              /\ sect' = [sect EXCEPT !["inst"].buf = c2.inst,
                                      !["addr"].buf = c2.addr]
              /\ acache' = c2.acache
              /\ dec_position' = c2.position
              /\ UNCHANGED ret
         ELSE /\ ret' = "XD3_INVALID_INPUT"
              /\ UNCHANGED <<cur, sect, acache, dec_position>>
  /\ UNCHANGED <<emitFrame, dec_state, dec_winbytes, out, total_out, src>>

\* xd3_decode_output_halfinst works on the first half that is not done yet.
Half == IF cur[1].type # XD3_NOOP THEN 1 ELSE 2
inst == cur[Half]
Pending == ret = "emit" /\ inst.type # XD3_NOOP

\* The check that every half-instruction passes before it writes.
FitsWrapped == UAdd(Len(out), inst.size) <= space_out
Fits == /\ ~ UsizeOverflow(Len(out), inst.size)
        /\ UAdd(Len(out), inst.size) <= space_out

\* Half done: its type becomes XD3_NOOP.
DoneHalf == cur' = [cur EXCEPT ![Half].type = XD3_NOOP]

outFrame == <<emitFrame, dec_state, dec_winbytes, acache, dec_position,
              total_out>>

OutputOverflow ==
  /\ Pending /\ ~ Fits
  /\ ret' = "XD3_INVALID_INPUT"
  /\ UNCHANGED <<outFrame, sect, cur, out, src>>

Data == Contents("data")
Run(byte, n) == [i \in 1 .. n |-> byte]

\* XD3_RUN takes one byte of the data section, XD3_ADD takes inst.size.
OutputData ==
  /\ Pending /\ Fits /\ inst.type \in {XD3_RUN, XD3_ADD}
  /\ LET rd    == sect["data"].buf
         bytes == IF inst.type = XD3_RUN THEN 1 ELSE inst.size
     IN  IF rd + bytes > sect["data"].size
         THEN /\ ret' = "XD3_INVALID_INPUT"
              /\ UNCHANGED <<sect, cur, out>>
         ELSE /\ out' = out \o (IF inst.type = XD3_RUN
                                THEN Run(Data[rd + 1], inst.size)
                                ELSE SubSeq(Data, rd + 1, rd + inst.size))
              /\ sect' = [sect EXCEPT !["data"].buf = rd + bytes]
              /\ DoneHalf
              /\ UNCHANGED ret
  /\ UNCHANGED <<outFrame, src>>

FromSource == inst.type >= XD3_CPY /\ inst.addr < win.cpylen
CopyBlock  == BlkAdd(src.cpyoff_blocks, src.cpyoff_blkoff, inst.addr)

\* What is left of a copy of which n bytes are done.
LeftSameSize(i, n) == [i EXCEPT !.addr = UAdd(@, n)]
LeftSameAddr(i, n) == [i EXCEPT !.size = @ - n]
Left(i, n)         == [i EXCEPT !.size = @ - n, !.addr = UAdd(@, n)]

\* A copy from the source stops at the end of a block; what is left of it is
\* the instruction that the next call finds.
GetSrcBlk ==
  /\ Pending /\ Fits /\ FromSource
  /\ Missing(src, CopyBlock.blk)
  /\ src' = Request(src, CopyBlock.blk)
  /\ ret' = "XD3_GETSRCBLK"
  /\ UNCHANGED <<outFrame, sect, cur, out>>

OutputSource ==
  /\ Pending /\ Fits /\ FromSource
  /\ ~ Missing(src, CopyBlock.blk)
  /\ src' = Account(src, CopyBlock.blk)
  /\ LET off  == CopyBlock.off
         take == Lesser(inst.size, BlkSize - off)
     IN  IF src.onblk # BlkSize /\ off + inst.size > src.onblk
         THEN /\ ret' = "XD3_INVALID_INPUT"
              /\ UNCHANGED <<cur, out>>
         ELSE /\ out' = out \o [i \in 1 .. take |-> CurByte(src, off + i - 1)]
              /\ cur' = [cur EXCEPT ![Half] =
                           IF off + inst.size <= BlkSize
                           THEN [@ EXCEPT !.type = XD3_NOOP, !.size = 0]
                           ELSE Left(@, take)]
              /\ UNCHANGED ret
  /\ UNCHANGED <<outFrame, sect>>

\* A copy within the window goes byte by byte, so it may read what it has
\* just written: the bytes from addr on repeat.
OutputTarget ==
  /\ Pending /\ Fits
  /\ inst.type >= XD3_CPY /\ ~ FromSource
  /\ LET from   == inst.addr - win.cpylen
         period == Len(out) - from
     IN  out' = out \o [i \in 1 .. inst.size |->
                          out[from + ((i - 1) % period) + 1]]
  /\ cur' = [cur EXCEPT ![Half].type = XD3_NOOP, ![Half].size = 0]
  /\ UNCHANGED <<outFrame, ret, sect, src>>

WindowValidShort ==
  /\ SectEnd("data") /\ SectEnd("addr")
  /\ (Bit(win.ind, VCD_ADLER32) /\ "ADLER32_NOVER" \notin flags)
        => Adler32(out) = win.cksum
WindowValid ==
  /\ Len(out) = win.tgtlen
  /\ SectEnd("data") /\ SectEnd("addr")
  /\ (Bit(win.ind, VCD_ADLER32) /\ "ADLER32_NOVER" \notin flags)
        => Adler32(out) = win.cksum

EmitEnd ==
  /\ ret = "emit" /\ inst.type = XD3_NOOP /\ SectEnd("inst")
  /\ IF WindowValid
     THEN /\ FinishWindow(sect)
          /\ total_out' = (total_out + Len(out)) % XoffMod
     ELSE /\ ret' = "XD3_INVALID_INPUT"
          /\ UNCHANGED <<dec_state, sectVars, total_out>>
  /\ UNCHANGED <<emitFrame, acache, cur, dec_position, out, src>>

\* DEC_FINISH.  (The buffer swap of a VCD_TARGET window is dead: such a
\* window gets here only in a stream that never allocates an output buffer.)
Finish ==
  /\ At("DEC_FINISH")
  /\ dec_window_count' = dec_window_count + 1
  /\ dec_state' = "DEC_WININD"
  /\ ret' = "XD3_WINFINISH"
  /\ UNCHANGED <<clientVars, fixedVars, inputVars, part, hdr, win,
                 dec_winstart, current_window, sectVars, acache, emitVars,
                 space_out, src>>

-----------------------------------------------------------------------------
(* The client: the loop of XDelta.code, of main_input and of               *)
(* xd3_process_stream.                                                     *)

streamFrame == <<fixedVars, total_in, total_out, part, hdr, win, winVars,
                 sectVars, acache, cur, dec_position, space_out>>

\* A buffer of size bytes is filled from the file, less at its end, and given
\* to xd3_avail_input; then a call.  The bytes of the buffer before are gone.
\* The last buffer may be empty: nothing follows it.
AvailInput(size) ==
  /\ ret = "new" \/ (ret = "XD3_INPUT" /\ buflen > 0)
  /\ LET n == Lesser(size, Len(file) - fed)
     IN  fed' = fed + n /\ buflen' = n /\ avail_in' = n
  /\ ret' = "run"
  /\ UNCHANGED <<streamFrame, file, delivered, closed, dec_state, out, src>>

\* The output is written, xd3_consume_output, and a call.
ConsumeOutput ==
  /\ ret = "XD3_OUTPUT" /\ "JUST_HDR" \notin flags
  /\ delivered' = delivered \o out
  /\ out' = <<>>
  /\ ret' = "run"
  /\ UNCHANGED <<streamFrame, file, fed, buflen, closed, dec_state, avail_in,
                 src>>

\* The tool that prints the header stops here, with xd3_abort_stream.
Abort ==
  /\ ret = "XD3_OUTPUT" /\ "JUST_HDR" \in flags
  /\ dec_state' = "DEC_ABORTED"
  /\ ret' = "aborted"
  /\ UNCHANGED <<streamFrame, clientVars, avail_in, out, src>>

\* A notification, and a call.
Continue ==
  /\ ret \in {"XD3_GOTHEADER", "XD3_WINSTART", "XD3_WINFINISH"}
  /\ ret' = "run"
  /\ UNCHANGED <<streamFrame, clientVars, dec_state, avail_in, out, src>>

\* The block the stream asked for is read into the client's only block
\* buffer, and a call.
ProvideBlock ==
  /\ ret = "XD3_GETSRCBLK"
  /\ src' = Provide(src)
  /\ ret' = "run"
  /\ UNCHANGED <<streamFrame, clientVars, dec_state, avail_in, out>>

\* xd3_close_stream, when the file has no more bytes.
Close ==
  /\ \/ ret = "aborted"
     \/ ret = "XD3_INPUT" /\ fed = Len(file)
  /\ closed' = IF dec_state \in {"DEC_VCHEAD", "DEC_WININD", "DEC_ABORTED"}
               THEN "ok" ELSE "eof in decode"
  /\ ret' = "closed"
  /\ UNCHANGED <<streamFrame, file, fed, buflen, delivered, dec_state,
                 avail_in, out, src>>

\* An error, or the end: nothing happens any more.
Stopped == Over /\ UNCHANGED vars

Header == VcHeadBytes \/ VcHead \/ HdrInd \/ SecondId \/ NoSecondId \/ TabLen
            \/ NearSame \/ TabDat \/ DefaultTable \/ AppLen \/ AppDatBytes
            \/ AppDat
Window == WinInd \/ CpyLen \/ CpyOff \/ EncLen \/ TgtLen \/ DelInd \/ DataLen
            \/ InstLen \/ AddrLen \/ CksumBytes \/ Cksum
Sections == JustHdr \/ SectionsOverflow \/ SkipWindow \/ DataSection
              \/ InstSection \/ AddrSection \/ SectionInput
Emitting == EmitEnter \/ DecodeInstruction \/ OutputOverflow \/ OutputData
              \/ GetSrcBlk \/ OutputSource \/ OutputTarget \/ EmitEnd \/ Finish
Stream == NeedInput \/ IntOverflow \/ IntMore \/ Header \/ Window \/ Sections
            \/ Emitting
Client == (\E n \in FeedSizes : AvailInput(n)) \/ ConsumeOutput \/ Abort
            \/ Continue \/ ProvideBlock \/ Close

Next == Stream \/ Client \/ Stopped

Spec == Init /\ [][Next]_vars

\* The stream is single-threaded code that runs to its next return, and every
\* client of the repository calls it again, in a loop, until it is over.
FairSpec == Spec /\ WF_vars(Stream) /\ WF_vars(Client)

-----------------------------------------------------------------------------
(* Properties.                                                             *)

DecStates ==
  {"DEC_VCHEAD", "DEC_HDRIND", "DEC_SECONDID", "DEC_TABLEN", "DEC_NEAR",
   "DEC_SAME", "DEC_TABDAT", "DEC_APPLEN", "DEC_APPDAT", "DEC_WININD",
   "DEC_CPYLEN", "DEC_CPYOFF", "DEC_ENCLEN", "DEC_TGTLEN", "DEC_DELIND",
   "DEC_DATALEN", "DEC_INSTLEN", "DEC_ADDRLEN", "DEC_CKSUM", "DEC_DATA",
   "DEC_INST", "DEC_ADDR", "DEC_EMIT", "DEC_FINISH", "DEC_ABORTED"}

Returns ==
  {"new", "run", "emit", "XD3_INPUT", "XD3_OUTPUT", "XD3_GETSRCBLK",
   "XD3_GOTHEADER", "XD3_WINSTART", "XD3_WINFINISH", "aborted", "closed"}
     \cup Errors

SectType == [size : Usize, pos : Nat, buf : Nat, zerocopy : BOOLEAN, at : Nat,
             copied1 : Seq(Byte)]

\* Every variable of the stream and of its client has its type: in particular
\* no unsigned counter of the code (avail_in, dec_winbytes, the positions)
\* ever goes below zero.
TypeOK ==
  /\ file \in Deltas /\ fed \in 0 .. Len(file) /\ buflen \in Nat
  /\ delivered \in Seq(Byte) /\ closed \in {"open", "ok", "eof in decode"}
  /\ flags \in FlagChoices /\ srckind \in SourceChoices
  /\ ret \in Returns /\ dec_state \in DecStates
  /\ avail_in \in Nat /\ total_in \in Nat /\ total_out \in Xoff
  /\ part \in [IntParts -> Usize]
  /\ hdr \in [magic : Seq(Byte), ind : Byte, appheadsz : Usize,
              appheader : Seq(Byte), hdrsize : Nat]
  /\ win \in [ind : Byte, cpylen : Usize, cpyoff : Xoff, enclen : Usize,
              tgtlen : Usize, maxpos : Usize, cksum : Seq(Byte)]
  /\ dec_winstart \in Xoff
  /\ current_window \in Nat /\ dec_window_count \in Nat
  /\ sect \in [SectNames -> SectType] /\ dec_winbytes \in Nat
  /\ acache \in Cache
  /\ cur \in [1 .. 2 -> [type : InstTypes, size : Usize, addr : Usize]]
  /\ dec_position \in Usize
  /\ out \in Seq(Byte) /\ space_out \in Usize
  /\ src \in SourceState

-----------------------------------------------------------------------------

\* The client's file reaches the stream whole and in order: what the stream
\* has counted as read and what is left in the buffer is what was handed over,
\* the buffer never runs below its start, and the stream asks for input only
\* when it has consumed the buffer to its end (the promise of the comment on
\* xd3_avail_input).
InputConserved ==
  /\ total_in + avail_in = fed
  /\ avail_in <= buflen
  /\ ret = "XD3_INPUT" => avail_in = 0

\* While a window is being emitted, a section that was not copied lies wholly
\* in the buffer the client handed over last, and a section that was copied
\* is all there: instructions are never read from a buffer that was replaced.
SectionsLive ==
  (dec_state = "DEC_EMIT" /\ ret \notin Errors) =>
    \A s \in SectNames :
      LET S == sect[s]
      IN  /\ (S.zerocopy /\ S.size > 0) =>
               fed - buflen <= S.at /\ S.at + S.size <= next_in
          /\ ~ S.zerocopy => Len(S.copied1) >= S.size
          /\ S.buf <= S.size

\* The bytes of the window written so far, and those that the decoded
\* instructions have still to write.
PendingSize == (IF cur[1].type = XD3_NOOP THEN 0 ELSE cur[1].size)
             + (IF cur[2].type = XD3_NOOP THEN 0 ELSE cur[2].size)

\* The output never exceeds the buffer allocated for it, whatever sizes the
\* instructions carry, also when they wrap dec_position past its check, and
\* however a copy is split over source blocks; and what is delivered is a
\* window of the announced length.
OutputBounded ==
  /\ Len(out) <= space_out
  /\ (ret = "XD3_OUTPUT" /\ Emit /\ ~ Skipping) => Len(out) = win.tgtlen

\* dec_position, the HERE of the addresses, is where the output will be when
\* the decoded instructions have been written, through every split of a copy
\* and every return for a source block (sizes that wrap are the exception; they
\* are refused before anything is written).  Without skipping, the offset of the
\* window is the number of bytes output before it, although it is updated one
\* window late, and the client holds exactly the bytes counted as output.
PositionExact ==
  /\ (dec_state = "DEC_EMIT" /\ ret \in {"run", "emit", "XD3_GETSRCBLK"}) =>
       dec_position = (win.cpylen + Len(out) + PendingSize) % UsizeMod
  /\ (Emit /\ ~ Skipping /\ ret \notin Errors) =>
       /\ dec_state \notin {"DEC_WININD", "DEC_FINISH"} \cup
                           {"DEC_VCHEAD", "DEC_ABORTED"} =>
             dec_winstart = Len(delivered)
       /\ total_out = (Len(delivered)
                       + (IF dec_state = "DEC_FINISH" THEN Len(out) ELSE 0))
                      % XoffMod

\* A copy within the window reads only bytes that are already written, and a
\* copy from the source stays inside the copy window, also after a split.  (An
\* address and size that wrap pass the check of the copy window; such an
\* address is beyond the end of any source.)
CopyInside ==
  (Pending /\ Fits /\ inst.type >= XD3_CPY) =>
    IF inst.addr < win.cpylen
    THEN inst.addr + inst.size <= win.cpylen \/ inst.addr >= Len(Source)
    ELSE inst.addr - win.cpylen < Len(out)

\* A decoder that is called again and again comes to an end: the file is
\* finite, every call consumes some of it or writes some output, and no
\* request for a source block is repeated for ever.
Terminates == <>Over
=============================================================================

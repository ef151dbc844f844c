-------------------------------- MODULE XD3Merge ------------------------------
(***************************************************************************)
(* The merge command: xdelta3-merge.h, with main_merge_arguments,          *)
(* main_merge_func and main_merge_output (xdelta3-main.h).  Deltas for     *)
(* successive versions of a file are read one after the other into whole   *)
(* states, lists of instructions with positions in the whole target; each  *)
(* is merged with what came before: its copies from the source become what *)
(* made those bytes; and the result is written as windows of the lengths   *)
(* of the last delta.                                                      *)
(*                                                                         *)
(* A delta is a sequence of windows, a window a record of its copy window, *)
(* half-instructions, and checksum (a set: of its target, which stands for  *)
(* it, or empty): what xd3_decode_input makes of a file, and what               *)
(* xd3_encode_input writes (XD3Decode, XD3Encode).                         *)
(***************************************************************************)
EXTENDS Integers, SequencesExt

CONSTANT Jobs   \* what is merged: records [source, deltas]

VARIABLES job, pc,
          k, w,          \* the delta that is read, and how many of its windows are
          stream,        \* the whole state of the stream it is read by
          merge_input,   \* the whole state of what is before it
          tmp_stream,    \* what xd3_merge_inputs has made so far
          input_i,       \* how many instructions of the input are merged
          inst_pos, output_pos, window_num, main_bdata,
          win,           \* the window that is written
          written, result

mergeVars == <<job, pc, k, w, stream, merge_input, tmp_stream, input_i, inst_pos, output_pos, window_num,
          main_bdata, win, written, result>>

NoCheck == {}
Zero == {<<-1>>}   \* the dec_adler32 of a stream that has read none: of no target
Own == "own"   \* mode 0: what is copied is in the target itself
Lesser(a, b)  == IF a < b THEN a ELSE b
Greater(a, b) == IF a < b THEN b ELSE a

-----------------------------------------------------------------------------
(* Whole states.                                                           *)

Empty == [inst |-> <<>>, adds |-> <<>>, wininfo |-> <<>>, length |-> 0]
Put(whole, inst, data) == [whole EXCEPT !.inst = Append(@, inst), !.adds = @ \o data]

TargetLength(window) == FoldLeft(LAMBDA n, h : n + h.size, 0, window.insts)

\* xd3_whole_append_inst, in a window that begins at dec_winstart.
AppendInst(whole, window, dec_winstart, h) ==
  LET inst == [type |-> h.type, mode |-> Own, size |-> h.size,
               addr |-> Len(whole.adds), position |-> whole.length]
      copied == IF h.addr < window.cpylen
                THEN [inst EXCEPT !.mode = window.ind, !.addr = window.cpyoff + h.addr]
                ELSE [inst EXCEPT !.addr = dec_winstart + h.addr - window.cpylen]
  IN  [Put(whole, IF h.type = "CPY" THEN copied ELSE inst, h.data) EXCEPT !.length = @ + h.size]

\* xd3_whole_append_window; dec_adler32 keeps the last checksum that was read.
AppendWindow(whole, window) ==
  LET dec_adler32 == CASE window.check # NoCheck -> window.check
                       [] window.check = NoCheck /\ whole.wininfo = <<>> -> Zero
                       [] OTHER -> Last(whole.wininfo).adler32
      info == [length |-> TargetLength(window), offset |-> whole.length, adler32 |-> dec_adler32]
  IN  FoldLeft(LAMBDA v, h : AppendInst(v, window, whole.length, h),
               [whole EXCEPT !.wininfo = Append(@, info)], window.insts)

-----------------------------------------------------------------------------
(* xd3_merge_inputs.                                                       *)

\* xd3_merge_find_position: the instruction that makes the byte at an address.
Covers(inst, address) ==
  inst.position <= address /\ address < inst.position + inst.size
FindPosition(source, address) ==
  CHOOSE n \in 1 .. Len(source.inst) : Covers(source.inst[n], address)

\* xd3_merge_source_copy, from instruction n on: piece by piece what made the bytes,
\* and for a copy within the source's own target what made these.
\* (A slip: the piece begins where the instruction does.)
OffsetZero(c, s) == 0
Offset(c, s) == c.addr - s.position
RECURSIVE Copied(_, _, _, _)
SourceCopy(out, source, c) == Copied(out, source, c, FindPosition(source, c.addr))
Copied(out, source, c, n) ==
  LET s     == source.inst[n]
      off   == Offset(c, s)
      take  == Lesser(c.size, s.size - off)
      minst == [type |-> s.type, mode |-> Own, size |-> take, addr |-> Len(out.adds),
                position |-> c.position]
      piece ==
        CASE s.type = "RUN" -> Put(out, minst, <<source.adds[s.addr + 1]>>)
          [] s.type = "ADD" ->
               Put(out, minst, SubSeq(source.adds, s.addr + off + 1, s.addr + off + take))
          [] s.type = "CPY" /\ s.mode # Own ->
               Put(out, [minst EXCEPT !.mode = s.mode, !.addr = s.addr + off], <<>>)
          [] s.type = "CPY" /\ s.mode = Own ->
               SourceCopy(out, source, [c EXCEPT !.addr = s.addr + off, !.size = take])
  IN  IF c.size = 0 THEN out
      ELSE Copied(piece, source, [c EXCEPT !.position = @ + take, !.addr = @ + take,
                                           !.size = @ - take], n + 1)

\* xd3_merge_run, xd3_merge_add and xd3_merge_target_copy keep what the input has.
OwnData(input, inst) ==
  CASE inst.type = "RUN" -> <<input.adds[inst.addr + 1]>>
    [] inst.type = "ADD" -> SubSeq(input.adds, inst.addr + 1, inst.addr + inst.size)
    [] inst.type = "CPY" -> <<>>
OwnInst(out, input, inst) ==
  Put(out, IF inst.type = "CPY" THEN inst ELSE [inst EXCEPT !.addr = Len(out.adds)],
      OwnData(input, inst))

Refused(source, inst) ==
  inst.type = "CPY" /\ (inst.mode = "VCD_TARGET" \/ (inst.mode # Own /\ inst.addr >= source.length))
Merged(out, source, input, inst) ==
  [(IF inst.mode = Own THEN OwnInst(out, input, inst) ELSE SourceCopy(out, source, inst))
   EXCEPT !.length = @ + inst.size]

-----------------------------------------------------------------------------
(* The command.                                                            *)

NoWindow == [pos |-> 0, size |-> 0, srcset |-> FALSE, srcmin |-> 0, srcmax |-> 0, items |-> <<>>]

MergeInit ==
  /\ job \in Jobs /\ pc = "read" /\ k = 1 /\ w = 0
  /\ stream = Empty /\ merge_input = Empty /\ tmp_stream = Empty /\ input_i = 0
  /\ inst_pos = 1 /\ output_pos = 0 /\ window_num = 0 /\ main_bdata = <<>> /\ win = NoWindow
  /\ written = <<>> /\ result = "none"

outVars == <<inst_pos, output_pos, window_num, main_bdata, win, written>>
LastInput == k = Len(job.deltas)

\* main_merge_func.
ReadWindow ==
  /\ pc = "read" /\ w < Len(job.deltas[k])
  /\ stream' = AppendWindow(stream, job.deltas[k][w + 1]) /\ w' = w + 1
  /\ UNCHANGED <<job, pc, k, merge_input, tmp_stream, input_i, outVars, result>>

\* The end of an input in main_merge_arguments: the first is what the next is merged
\* with; so is a later one, but merged itself.  The last goes on to be written.
NextInput(whole) ==
  IF LastInput THEN pc' = "output" /\ stream' = whole /\ UNCHANGED <<k, w, merge_input>>
  ELSE /\ pc' = "read" /\ k' = k + 1 /\ w' = 0
       /\ merge_input' = whole /\ stream' = Empty
EndOfInput ==
  /\ pc = "read" /\ w = Len(job.deltas[k])
  /\ IF k = 1 THEN NextInput(stream) /\ UNCHANGED <<tmp_stream, input_i>>
     ELSE /\ pc' = "merge" /\ input_i' = 0
          /\ tmp_stream' = [Empty EXCEPT !.wininfo = stream.wininfo]
          /\ UNCHANGED <<k, w, stream, merge_input>>
  /\ UNCHANGED <<job, outVars, result>>

MergeInst ==
  /\ pc = "merge" /\ input_i < Len(stream.inst)
  /\ LET inst == stream.inst[input_i + 1]
     IN  IF Refused(merge_input, inst)
         THEN pc' = "end" /\ result' = "invalid" /\ UNCHANGED <<tmp_stream, input_i>>
         ELSE /\ tmp_stream' = Merged(tmp_stream, merge_input, stream, inst)
              /\ input_i' = input_i + 1 /\ UNCHANGED <<pc, result>>
  /\ UNCHANGED <<job, k, w, stream, merge_input, outVars>>
MergeDone ==
  /\ pc = "merge" /\ input_i = Len(stream.inst)
  /\ NextInput(tmp_stream)
  /\ UNCHANGED <<job, tmp_stream, input_i, outVars, result>>

-----------------------------------------------------------------------------
(* main_merge_output.                                                      *)

inFrame == <<job, k, w, merge_input, tmp_stream, input_i>>

\* At least one window, also for an empty target.  Each begins where the one of the
\* input did, or what was merged is not what was read.
OutputDone == inst_pos > Len(stream.inst) /\ window_num > 0
OutputBegin ==
  /\ pc = "output"
  /\ LET info == stream.wininfo[window_num + 1]
     IN  IF OutputDone \/ output_pos # info.offset
         THEN /\ pc' = "end" /\ result' = IF OutputDone THEN "ok" ELSE "invalid"
              /\ UNCHANGED <<window_num, main_bdata, win>>
         ELSE /\ window_num' = window_num + 1 /\ win' = [NoWindow EXCEPT !.size = info.length]
              /\ main_bdata' = IF info.length <= Len(main_bdata) THEN main_bdata
                                ELSE [j \in 1 .. info.length |-> 0]
              /\ pc' = "window" /\ UNCHANGED result
  /\ UNCHANGED <<inFrame, stream, inst_pos, output_pos, written>>

WindowFull == win.pos >= win.size \/ inst_pos > Len(stream.inst)
window_start == output_pos - win.pos

\* One instruction goes to the encoder: a run or a match; an ADD only into the buffer.
\* (The rest of one that does not fit the window is left for the next; the windows of
\* the input hold whole instructions, so there is none.)
OutputInst ==
  /\ pc = "window" /\ ~ WindowFull
  /\ LET inst == stream.inst[inst_pos]
         take == Lesser(inst.size, win.size - win.pos)
         src  == inst.type = "CPY" /\ inst.mode # Own
         item == [type |-> inst.type, pos |-> win.pos, size |-> take, is_source |-> src,
                  addr |-> IF inst.type # "CPY" \/ src THEN inst.addr ELSE inst.addr - window_start,
                  data |-> IF inst.type = "RUN" THEN <<stream.adds[inst.addr + 1]>> ELSE <<>>]
     IN  /\ win' = [win EXCEPT
              !.pos = @ + take, !.srcset = @ \/ src,
              !.srcmin = IF ~ src THEN @
                         ELSE IF win.srcset THEN Lesser(@, inst.addr) ELSE inst.addr,
              !.srcmax = IF ~ src THEN @
                         ELSE IF win.srcset THEN Greater(@, inst.addr + take) ELSE inst.addr + take,
              !.items = IF inst.type = "ADD" THEN @ ELSE Append(@, item)]
         /\ main_bdata' = IF inst.type # "ADD" THEN main_bdata
                          ELSE [j \in DOMAIN main_bdata |->
                                  IF j - win.pos \in 1 .. take
                                  THEN stream.adds[inst.addr + j - win.pos] ELSE main_bdata[j]]
         /\ output_pos' = output_pos + take
         /\ IF take = inst.size THEN inst_pos' = inst_pos + 1 /\ UNCHANGED stream
            ELSE /\ stream' = [stream EXCEPT !.inst[inst_pos].size = @ - take,
                                 !.inst[inst_pos].addr = IF inst.type = "RUN" THEN @ ELSE @ + take]
                 /\ UNCHANGED inst_pos
  /\ UNCHANGED <<inFrame, pc, window_num, written, result>>

\* What the encoder writes: its instructions in order, and what is between them as ADD
\* (XD3Iopt; they do not overlap).  Addresses count from the begin of the copy window.
Gap(a, b) == IF a < b THEN <<[type |-> "ADD", size |-> b - a, addr |-> 0,
                              data |-> SubSeq(main_bdata, a + 1, b)]>> ELSE <<>>
Encoded(it) ==
  [type |-> it.type, size |-> it.size, data |-> it.data,
   addr |-> IF it.type # "CPY" THEN 0
            ELSE IF it.is_source THEN it.addr - win.srcmin ELSE it.addr + win.srcmax - win.srcmin]
Instructions ==
  LET all == FoldLeft(LAMBDA r, it : [at |-> it.pos + it.size,
                                      seq |-> r.seq \o Gap(r.at, it.pos) \o <<Encoded(it)>>],
                      [at |-> 0, seq |-> <<>>], win.items)
  IN  all.seq \o Gap(all.at, win.pos)

\* Whether there are checksums is decided by the last window that was read.
OutputWindow ==
  /\ pc = "window" /\ WindowFull
  /\ written' = Append(written,
       [ind |-> IF win.srcset THEN "VCD_SOURCE" ELSE Own,
        cpylen |-> win.srcmax - win.srcmin, cpyoff |-> win.srcmin, insts |-> Instructions,
        check |-> IF Last(Last(job.deltas)).check = NoCheck THEN NoCheck
                  ELSE stream.wininfo[window_num].adler32])
  /\ pc' = "output"
  /\ UNCHANGED <<inFrame, stream, inst_pos, output_pos, window_num, main_bdata, win, result>>

MergeNext ==
  \/ ReadWindow \/ EndOfInput \/ MergeInst \/ MergeDone
  \/ OutputBegin \/ OutputInst \/ OutputWindow
MergeSpec == MergeInit /\ [][MergeNext]_mergeVars

-----------------------------------------------------------------------------
(* Properties.                                                             *)

\* What a window makes of its copy window: a copy that overlaps what it makes repeats it.
Target(window, dict) ==
  LET Make(u, h) ==
        u \o (CASE h.type = "ADD" -> h.data
                [] h.type = "RUN" -> [j \in 1 .. h.size |-> h.data[1]]
                [] h.type = "CPY" ->
                     [j \in 1 .. h.size |-> u[h.addr + 1 + ((j - 1) % (Len(u) - h.addr))]])
  IN  SubSeq(FoldLeft(Make, dict, window.insts), Len(dict) + 1, Len(dict) + TargetLength(window))
CopyWindow(window, source) ==
  SubSeq(source, window.cpyoff + 1, window.cpyoff + window.cpylen)
Means(delta, source) ==
  FoldLeft(LAMBDA t, window :
             t \o Target(window, CopyWindow(window, source)),
           <<>>, delta)
Applied(deltas, source) == FoldLeft(LAMBDA t, d : Means(d, t), source, deltas)

Fits(delta, source) ==
  \A n \in 1 .. Len(delta) :
    delta[n].ind # "VCD_TARGET" /\ delta[n].cpyoff + delta[n].cpylen <= Len(source)
AllFit(deltas, source) ==
  \A n \in 1 .. Len(deltas) : Fits(deltas[n], Applied(SubSeq(deltas, 1, n - 1), source))

\* The merged delta makes of the first version what the deltas make of it one after
\* the other, whatever they copy from each other and from themselves; it stays inside
\* the source, each of its windows has the checksum of what it makes, and deltas that
\* do not follow on each other are refused.
MergedMeansAll ==
  result # "none" =>
    IF ~ AllFit(job.deltas, job.source) THEN result = "invalid"
    ELSE /\ result = "ok" /\ Fits(written, job.source)
         /\ Means(written, job.source) = Applied(job.deltas, job.source)
         /\ \A n \in 1 .. Len(written) :
              written[n].check \subseteq {Target(written[n], CopyWindow(written[n], job.source))}
===============================================================================

------------------------------ MODULE MCDecode ------------------------------
(***************************************************************************)
(* Instances of XD3Decode for TLC.  A byte has the 16 values 0 .. 15, a    *)
(* digit 3 bits; the code table keeps the shape of the RFC 3284 table      *)
(* (RUN, ADD, copies of every mode with and without a size, ADD-COPY and   *)
(* COPY-ADD pairs) in 16 opcodes.                                          *)
(***************************************************************************)
EXTENDS XD3Decode, SequencesExt

MCMagic  == <<13, 12, 4, 0>>
MCSource == <<1, 2, 3, 4, 5, 6, 7, 8, 9, 10>>

MCAdler32(s) ==
  LET a == FoldLeft(LAMBDA x, y : (x + y) % 256, 1, s)
      b == FoldLeft(LAMBDA x, y : (3 * x + y) % 256, 1, s)
  IN  <<b \div 16, b % 16, a \div 16, a % 16>>

Single(t, s) == [type1 |-> t, size1 |-> s, type2 |-> XD3_NOOP, size2 |-> 0]
Double(t, s, u, v) == [type1 |-> t, size1 |-> s, type2 |-> u, size2 |-> v]
MCCodeTable ==
  LET tbl == << Single(XD3_RUN, 0), Single(XD3_ADD, 0),
                Single(XD3_ADD, 1), Single(XD3_ADD, 2),
                Single(XD3_CPY + 0, 0), Single(XD3_CPY + 0, 2),
                Single(XD3_CPY + 1, 0), Single(XD3_CPY + 1, 2),
                Single(XD3_CPY + 2, 0), Single(XD3_CPY + 2, 2),
                Single(XD3_CPY + 3, 0), Single(XD3_CPY + 3, 2),
                Double(XD3_ADD, 1, XD3_CPY + 0, 2),
                Double(XD3_ADD, 1, XD3_CPY + 1, 2),
                Double(XD3_CPY + 0, 2, XD3_ADD, 1),
                Double(XD3_CPY + 1, 2, XD3_CPY + 2, 2) >>
  IN  [b \in Byte |-> tbl[b + 1]]

-----------------------------------------------------------------------------
(* Delta files.                                                            *)

\* One window: the copy window <<len, off>> or <<>>, the target it is for
\* (for the checksum), and the three sections.
WindowBytes(ind, cpy, target, data, instr, addr) ==
  LET tgt == EmitInt(Len(target))
      lens == <<0>> \o EmitInt(Len(data)) \o EmitInt(Len(instr))
                    \o EmitInt(Len(addr))
      ck  == IF Bit(ind, VCD_ADLER32) THEN MCAdler32(target) ELSE <<>>
      body == tgt \o lens \o ck \o data \o instr \o addr
  IN  <<ind>> \o (IF cpy = <<>> THEN <<>>
                  ELSE EmitInt(cpy[1]) \o EmitInt(cpy[2]))
              \o EmitInt(Len(body)) \o body

FileBytes(app, windows) ==
  MCMagic \o (IF app = <<>> THEN <<0>>
              ELSE <<VCD_APPHEADER>> \o EmitInt(Len(app)) \o app)
          \o FlattenSeq(windows)

\* Source copies that cross block ends, also as the second half of an opcode,
\* near and same addresses, a checksum; then a window without a source, with
\* an overlapping copy and an ADD of two bytes.
SourceWindow ==
  WindowBytes(5, <<8, 1>>, <<7, 3, 4, 2, 3, 4, 5, 6, 5, 6, 3, 4>>,
              <<7>>,
              <<12, 4, 5, 9, 11>>,      \* ADD1 CPY2, CPY 5, NEAR, SAME
              <<1, 0, 3, 1>>)
TargetWindow ==
  WindowBytes(4, <<>>, <<9, 9, 9, 9, 1, 2, 1, 2, 1>>,
              <<9, 1, 2>>,
              <<0, 4, 3, 6, 8, 3>>,    \* RUN 4, ADD 2, HERE, size in 2 bytes
              <<2>>)
EmptyWindow == WindowBytes(0, <<>>, <<>>, <<>>, <<>>, <<>>)

TwoWindows == FileBytes(<<3, 3>>, <<SourceWindow, TargetWindow>>)
ThreeWindows == FileBytes(<<>>, <<TargetWindow, EmptyWindow, SourceWindow>>)

ValidDeltas == {TwoWindows, ThreeWindows}

\* A file with every field of a window, in 36 bytes: with any one byte changed
\* to any other, cut anywhere, or with one byte dropped.
ShortFile ==
  FileBytes(<<>>, <<WindowBytes(5, <<4, 3>>, <<4, 5, 9, 9, 4, 5, 7>>, <<9, 7>>,
                                <<5, 0, 2, 9, 2>>, <<0, 1>>),
                    EmptyWindow>>)
Changed(f)   == {[f EXCEPT ![i] = b] : i \in 1 .. Len(f), b \in Byte}
Truncated(f) == {SubSeq(f, 1, n) : n \in 0 .. Len(f)}
Dropped(f)   == {SubSeq(f, 1, i - 1) \o SubSeq(f, i + 1, Len(f)) :
                   i \in 1 .. Len(f)}

\* What one wrong byte does not reach: sizes that wrap a usize_t (in the sum
\* of the section lengths, in dec_position, in an address), numbers that do
\* not fit, a window that copies from the target, a code table, a secondary
\* compressor, an application header of the greatest size.
Lengths(d, i, a) ==
  Magic \o <<0, 0>>
    \o EmitInt((2 + SizeofSize(d) + SizeofSize(i) + SizeofSize(a) + d + i + a)
               % UsizeMod)
    \o <<0, 0>> \o EmitInt(d) \o EmitInt(i) \o EmitInt(a)
OddFiles ==
  { Lengths(511, 511, 511), Lengths(511, 1, 0),
    FileBytes(<<>>, <<WindowBytes(0, <<>>, <<1, 2, 0, 0>>, <<1, 2, 9>>,
                                  <<3, 0>> \o EmitInt(511), <<>>)>>),
    FileBytes(<<>>, <<WindowBytes(1, <<4, 0>>, <<1, 2, 0, 0>>, <<1, 2>>,
                                  <<3, 4>> \o EmitInt(510), <<0>>)>>),
    FileBytes(<<>>, <<WindowBytes(1, <<4, 0>>, <<1, 2, 2, 3>>, <<1, 2>>,
                                  <<3, 7>>, EmitInt(5) )>>),
    FileBytes(<<>>, <<WindowBytes(1, <<4, 0>>, <<1, 2, 2, 3>>, <<1, 2>>,
                                  <<3, 7>>, EmitInt(509))>>),
    FileBytes(<<>>, <<WindowBytes(1, <<4, 0>>, <<3, 4, 1, 2>>, <<>>,
                                  <<5, 9>>, <<2>> \o EmitInt(510))>>),
    FileBytes(<<>>, <<TargetWindow, WindowBytes(2, <<4, 0>>, <<9, 9>>, <<>>,
                                                <<5>>, <<0>>)>>),
    FileBytes(<<>>, <<TargetWindow, WindowBytes(2, <<4, 7>>, <<9, 9>>, <<>>,
                                                <<5>>, <<0>>)>>),
    FileBytes(<<>>, <<WindowBytes(1, <<511, 1>>, <<1>>, <<1>>, <<2>>, <<>>)>>),
    FileBytes(<<>>, <<WindowBytes(1, <<508, 1>>, <<1, 1, 1, 1>>, <<1>>,
                                  <<0, 4>>, <<>>)>>),
    FileBytes(<<>>, <<WindowBytes(1, <<508, 1>>, <<9, 9, 9>>, <<9>>,
                                  <<0, 3>>, <<>>)>>),
    FileBytes(<<>>, <<TargetWindow, WindowBytes(1, <<505, 1>>, <<1, 1, 1>>, <<1>>,
                                                <<0>> \o EmitInt(10), <<>>)>>),
    FileBytes(<<>>, <<TargetWindow, WindowBytes(1, <<505, 1>>, <<2, 3, 4>>, <<>>,
                                                <<4, 9, 0>>, EmitInt(505))>>),
    FileBytes(<<>>, <<TargetWindow, WindowBytes(1, <<505, 1>>, <<2, 3, 4>>, <<>>,
                                                <<4, 9, 0>>, EmitInt(500))>>),
    Magic \o <<VCD_CODETABLE, 3, 4, 3, 0>>, Magic \o <<VCD_CODETABLE, 2>>,
    Magic \o <<VCD_SECONDARY, 1>>, Magic \o <<VCD_SECONDARY, 5, 0>>,
    Magic \o <<VCD_APPHEADER>> \o EmitInt(511),
    Magic \o <<VCD_APPHEADER, 8, 8, 8, 2, 1, 1>>,
    Magic \o <<VCD_APPHEADER, 9, 8, 8, 2, 1, 1>> }

InvalidDeltas ==
  Changed(ShortFile) \cup Truncated(ShortFile) \cup Dropped(ShortFile)
    \cup OddFiles

AllDeltas == ValidDeltas \cup InvalidDeltas

-----------------------------------------------------------------------------
(* The decoder next to what its file means.                                *)

File == INSTANCE VcdiffFile

VARIABLE expected   \* what the file means, from the start

\* Files damaged somewhere are decoded, with and without a source and checksums;
\* skipping, and a source of unknown size, are for the sound ones.
Combined ==
  IF file \in ValidDeltas
  THEN srckind # "none" /\ flags # {"ADLER32_NOVER"}
  ELSE srckind # "set_source" /\ flags \subseteq {"ADLER32_NOVER"}

MCInit == Init /\ Combined /\ expected = File!Decoded(file, "ADLER32_NOVER" \notin flags,
                                          srckind # "none")
MCNext == Next /\ UNCHANGED expected
MCSpec == MCInit /\ [][MCNext]_<<vars, expected>>

\* The decoder implements the meaning of the file, whatever the buffers: each
\* window is delivered whole, in order and once, an error is reported at the
\* invalid window and only there, and the stream closes well at a window end.
Abstract == INSTANCE VcdiffDecode WITH
  result    <- expected,
  verify    <- "ADLER32_NOVER" \notin flags,
  hasSource <- srckind # "none",
  emits     <- flags \cap {"SKIP_WINDOW", "SKIP_EMIT", "JUST_HDR"} = {},
  verdict   <- IF ret \in Errors THEN "error" ELSE closed
DecodesFile == Abstract!ASpec

\* At the end of each window, also one that is skipped, decoded without output
\* or cut over many buffers, the stream has read exactly up to where the
\* window ends by its own header: the next byte is that of the next window.
EndsAtWindow ==
  (ret = "XD3_WINFINISH" /\ "JUST_HDR" \notin flags) =>
    total_in = expected.ends[dec_window_count]

\* Until the client is through, a step of the stream or of the client is enabled
\* (there is no deadlock), so this is the fairness of FairSpec, without an ENABLED
\* for TLC to evaluate.
MCFairSpec == MCSpec /\ ([]<>Over \/ []<><<Stream \/ Client>>_vars)
=============================================================================

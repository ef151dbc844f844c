------------------------------ MODULE XD3Encode ------------------------------
(***************************************************************************)
(* The encoder's state machine (xd3_encode_input of xdelta3.c) with the    *)
(* buffering of its input, the pages of its output, the headers it writes  *)
(* and the clients that drive it.  As in XD3Decode, `ret' is "run" while a *)
(* call of xd3_encode_input is in progress, else the value it returned.    *)
(* What string matching found in a window is left open (any true matches); *)
(* what becomes of a match is not: it is written with its opcode, its      *)
(* address and its data into the pages of its section.                     *)
(*                                                                         *)
(* The client's input buffer is memory that the next read overwrites, and  *)
(* the stream keeps pointers into it (next_in, buf_leftover); pages are    *)
(* memory that is linked, spliced, and used again for the next window.     *)
(***************************************************************************)
EXTENDS XD3AddrCache, XD3Source, XD3CodeTable

CONSTANTS
  Magic,        \* VCDIFF_MAGIC1 .. VCDIFF_VERSION
  Adler32(_),   \* the checksum of a sequence of bytes, as four bytes
  PageSize,     \* XD3_ALLOCSIZE, the room of an output page
  Configs       \* how a stream may be set up, and by what client it is driven

(* A configuration: the file to encode, winsize, the flags and application *)
(* header, whether there is a source; how many pages xd3_alloc can give;   *)
(* and the client: "feed" hands over pieces of any size in cfg.pieces and  *)
(* sets XD3_FLUSH with the first short one, as the driver and main_input   *)
(* do; "careless" never flushes and may not take the output; "memory" is   *)
(* xd3_process_stream, with room for cfg.room bytes of output.             *)
\* The clients of the repository hand over winsize bytes at most, as xdelta3.h
\* advises; an address of a window and its source is a usize_t; the radix and the
\* cache are those that the code table is for; a checksum is bytes.
ASSUME EncodeAssumption ==
  /\ Radix = 128 /\ SNear = Desc.near_modes /\ SSame = Desc.same_modes
  /\ PageSize \in Nat \ {0} /\ Magic \in Seq(Byte)
  /\ \A c \in Configs :
       /\ c.file \in Seq(Byte) /\ c.app \in Seq(Byte)
       /\ c.winsize \in Nat \ {0} /\ c.winsize + Len(Source) < UsizeMod
       /\ c.pieces \subseteq 1 .. c.winsize
       /\ c.src \in BOOLEAN /\ c.adler32 \in BOOLEAN /\ c.pages \in Nat
       /\ \A i, n \in 0 .. Len(c.file) :
            i + n <= Len(c.file) => Adler32(SubSeq(c.file, i + 1, i + n)) \in Seq(Byte)

VARIABLES
  cfg,
  inbuf,        \* the client's input buffer: what it holds now
  fed,          \* how much of the file has been handed over
  flush,        \* XD3_FLUSH
  next_in, avail_in,
  buf_in, buf_avail,              \* the stream's own input buffer
  buf_leftover, buf_leftavail,    \* input that did not fit into it
  enc_state, ret, current_window, total_in,
  srcwin,       \* srcbase and srclen
  acache, iout, unencoded_offset,  \* how far the window is encoded
  todo,         \* the matches of the window that are not encoded yet
  out,          \* the pages: see below
  enc_current, avail_out,         \* the page being output
  delivered,    \* what the client has taken
  closed        \* "open", then the result of xd3_close_stream or ENOSPC

input  == <<next_in, avail_in, buf_in, buf_avail, buf_leftover, buf_leftavail>>
client == <<inbuf, fed, flush, delivered, closed>>
output == <<out, enc_current, avail_out>>
coding == <<acache, iout, unencoded_offset, todo, srcwin>>
vars   == <<cfg, client, input, enc_state, ret, current_window, total_in, coding,
            output>>

NULL    == 0
Null    == [in |-> "null", off |-> 0]
NoSrcWin == [base |-> 0, len |-> 0]
Least(a, b) == IF a < b THEN a ELSE b

\* The n bytes that p points to.
Memory(p, n) ==
  SubSeq(IF p.in = "client" THEN inbuf ELSE buf_in, p.off + 1, p.off + n)
Window == Memory(next_in, avail_in)

-----------------------------------------------------------------------------
(* Output pages.  A section is a list of pages from heads[s], written at   *)
(* tails[s]; enc_free is the list of pages to use again.  `ok' is FALSE    *)
(* once xd3_alloc has failed.  A page holds base[0 .. next).               *)

HDR == 1
DATA == 2
INST == 3
ADDR == 4
Sections  == 1 .. 4
EmptyPage == [base |-> <<>>, next_page |-> NULL]
NoPages   == [page |-> <<>>, heads |-> [s \in Sections |-> NULL],
              tails |-> [s \in Sections |-> NULL], enc_free |-> NULL, ok |-> TRUE]

\* xd3_alloc_output, and what its callers do with the page: it follows the tail
\* of section s and is the new tail.
Linked(o, s, id) ==
  LET old == o.tails[s]
      linked == [o EXCEPT !.page[id] = EmptyPage, !.tails[s] = id]
  IN  IF old = NULL THEN [linked EXCEPT !.heads[s] = id]
      ELSE [linked EXCEPT !.page[old].next_page = id]
AllocOutput(o, s) ==
  IF ~ o.ok THEN o
  ELSE IF o.enc_free # NULL
  THEN Linked([o EXCEPT !.enc_free = o.page[o.enc_free].next_page], s, o.enc_free)
  ELSE IF Len(o.page) = cfg.pages THEN [o EXCEPT !.ok = FALSE]
  ELSE Linked([o EXCEPT !.page = Append(@, EmptyPage)], s, Len(o.page) + 1)

\* The pages from id on.  (One more than there are, if the list has a cycle.)
Chain(o, id) ==
  LET nth[k \in 0 .. Len(o.page)] ==
        IF k = 0 THEN id
        ELSE LET p == nth[k - 1] IN IF p = NULL THEN NULL ELSE o.page[p].next_page
      len == Cardinality({k \in 0 .. Len(o.page) : nth[k] # NULL})
  IN  [k \in 1 .. len |-> nth[k - 1]]

\* A slip: counts the first page only.
SizeofHead(o, s) == Len(o.page[o.heads[s]].base)

\* xd3_sizeof_output, xd3_freelist_output
SizeofOutput(o, s) ==
  LET list == Chain(o, o.heads[s])
      sum[k \in 0 .. Len(list)] ==
        IF k = 0 THEN 0 ELSE sum[k - 1] + Len(o.page[list[k]].base)
  IN  sum[Len(list)]
Freed(o, p) ==
  [o EXCEPT !.page[p] = [EmptyPage EXCEPT !.next_page = o.enc_free], !.enc_free = p]
FreelistOutput(o, id) ==
  LET list == Chain(o, id)
      after[k \in 0 .. Len(list)] == IF k = 0 THEN o ELSE Freed(after[k - 1], list[k])
  IN  after[Len(list)]

\* xd3_free_stream: the lists of the sections, then the free list.
FreeOutput(o) ==
  Chain(o, o.heads[HDR]) \o Chain(o, o.heads[DATA]) \o Chain(o, o.heads[INST])
    \o Chain(o, o.heads[ADDR]) \o Chain(o, o.enc_free)

\* A slip: makes room one byte too late.
RoomLate(o, s) ==
  IF ~ o.ok \/ Len(o.page[o.tails[s]].base) <= PageSize THEN o ELSE AllocOutput(o, s)

\* xd3_emit_byte and xd3_emit_bytes, which makes room also for no bytes.
Room(o, s) ==
  IF ~ o.ok \/ Len(o.page[o.tails[s]].base) < PageSize THEN o ELSE AllocOutput(o, s)
EmitByte(o, s, byte) ==
  LET r == Room(o, s)
  IN  IF r.ok THEN [r EXCEPT !.page[r.tails[s]].base = Append(@, byte)] ELSE r
EmitBytes(o, s, bytes) ==
  IF bytes = <<>> THEN Room(o, s)
  ELSE LET after[k \in 0 .. Len(bytes)] ==
             IF k = 0 THEN o ELSE EmitByte(after[k - 1], s, bytes[k])
       IN  after[Len(bytes)]
\* A list of calls of these: each names a section and the bytes for it.
EmitAll(o, calls) ==
  LET after[k \in 0 .. Len(calls)] ==
        IF k = 0 THEN o ELSE EmitBytes(after[k - 1], calls[k][1], calls[k][2])
  IN  after[Len(calls)]

-----------------------------------------------------------------------------
(* The instructions of a window.  An instruction is a record of its type,  *)
(* pos, size, addr and xtra (whether a copy is from the source; the byte   *)
(* of a run).                                                              *)

\* xd3_emit_single and xd3_emit_double
EmitSingle(i) ==
  << <<INST, <<i.code1>> >> >>
    \o IF CodeTableSeq[i.code1 + 1].size1 = 0 THEN << <<INST, EmitInt(i.size)>> >> ELSE <<>>
EmitDouble(code) == << <<INST, <<code>> >> >>

\* xd3_encode_address for a copy: from the source window, or after it.
CopyAddress(inst) ==
  EncodeAddress(acache, IF inst.xtra THEN inst.addr - srcwin.base
                                     ELSE srcwin.len + inst.addr,
                inst.pos + srcwin.len)

\* What the case of its type writes for inst.
EmitOperand(inst) ==
  CASE inst.type = ADD -> << <<DATA, SubSeq(Window, inst.pos + 1, inst.pos + inst.size)>> >>
    [] inst.type = RUN -> << <<DATA, <<inst.xtra>> >> >>
    [] OTHER           -> << <<ADDR, CopyAddress(inst).bytes>> >>

\* The copies and runs that are true in the window win, and the lists of them
\* that string matching and the optimiser may leave: in order, not overlapping.
TrueMatches(win) ==
  LET Inside == {x \in (0 .. Len(win) - 1) \X (MIN_MATCH .. Len(win)) :
                   x[1] + x[2] <= Len(win)}
      Match(type, x, addr, xtra) ==
        [type |-> type, pos |-> x[1], size |-> x[2], addr |-> addr, xtra |-> xtra]
      Same(x, from, a) == \A k \in 1 .. x[2] : from[a + k] = win[x[1] + k]
  IN  {Match(RUN, x, 0, win[x[1] + 1]) :
         x \in {y \in Inside : \A k \in 2 .. y[2] : win[y[1] + k] = win[y[1] + 1]}}
      \cup {Match(CPY, y[1], y[2], FALSE) :
              y \in {z \in Inside \X (0 .. Len(win)) :
                      z[2] < z[1][1] /\ Same(z[1], win, z[2])}}
      \cup {Match(CPY, y[1], y[2], TRUE) :
              y \in {z \in Inside \X (0 .. Len(Source)) :
                      /\ cfg.src /\ z[2] + z[1][2] <= Len(Source)
                      /\ Same(z[1], Source, z[2])}}
MatchLists(win) ==
  LET all == TrueMatches(win)
  IN  {<<>>} \cup {<<m>> : m \in all}
        \cup {<<p[1], p[2]>> : p \in {q \in all \X all :
                                     q[1].pos + q[1].size <= q[2].pos}}

\* xd3_srcwin_setup, at the first copy: the source window is the whole source or
\* just what the copies from it need, and may be there when none uses it.
SourceWindows(ms) ==
  LET copies == {k \in 1 .. Len(ms) : ms[k].type = CPY}
      used   == {ms[k] : k \in {j \in copies : ms[j].xtra}}
      whole  == [base |-> 0, len |-> Len(Source)]
      tight  == {[base |-> first.addr, len |-> last.addr + last.size - first.addr] :
                   first \in {m \in used : \A n \in used : m.addr <= n.addr},
                   last \in {m \in used : \A n \in used : n.addr + n.size <= m.addr + m.size}}
  IN  IF used # {} THEN {whole} \cup tight
      ELSE IF copies # {} /\ cfg.src THEN {NoSrcWin, whole}
      ELSE {NoSrcWin}

-----------------------------------------------------------------------------
\* The indicator bits of the two headers.
VCD_APPHEADER == 4
VCD_SOURCE    == 1
VCD_ADLER32   == 4

(* xd3_emit_hdr, on the pages o: the file header with the first window,    *)
(* then the window header, which counts what is in the sections.           *)

FileHeader ==
  <<Magic>> \o (IF cfg.app = <<>> THEN << <<0>> >>
                ELSE << <<VCD_APPHEADER>>, EmitInt(Len(cfg.app)), cfg.app>>)

WindowHeader(o, win) ==
  LET used  == win.len > 0     \* xd3_encoder_used_source
      lens  == [s \in {DATA, INST, ADDR} |-> SizeofOutput(o, s)]
      fixed == <<EmitInt(avail_in), <<0>>, EmitInt(lens[DATA]), EmitInt(lens[INST]),
                 EmitInt(lens[ADDR])>>
      enc_len == 1 + SizeofSize(avail_in) + SizeofSize(lens[DATA])
                   + SizeofSize(lens[INST]) + SizeofSize(lens[ADDR])
                   + lens[DATA] + lens[INST] + lens[ADDR]
                   + (IF cfg.adler32 THEN 4 ELSE 0)
  IN  << <<(IF used THEN VCD_SOURCE ELSE 0) + (IF cfg.adler32 THEN VCD_ADLER32 ELSE 0)>> >>
        \o (IF used THEN <<EmitInt(win.len), EmitInt(win.base)>> ELSE <<>>)
        \o <<EmitInt(enc_len)>> \o fixed
        \o (IF cfg.adler32 THEN <<Adler32(Window)>> ELSE <<>>)

EmitHdr(o, win) ==
  LET fields == (IF current_window = 0 THEN FileHeader ELSE <<>>) \o WindowHeader(o, win)
  IN  EmitAll(o, [k \in DOMAIN fields |-> <<HDR, fields[k]>>])

\* The list of section s follows that of the section before.
Followed(o, s) == [o EXCEPT !.page[o.tails[s - 1]].next_page = o.heads[s]]
Joined(o, s)   == [Followed(o, s) EXCEPT !.heads[s] = NULL]

\* A slip: leaves the sections their heads.
SplicedTwice(o) == Followed(Followed(Followed(o, DATA), INST), ADDR)

\* ENC_FLUSH: the four lists become one.
Spliced(o) == Joined(Joined(Joined(o, DATA), INST), ADDR)

\* xd3_encode_reset: the first four pages of the list are the heads of the next
\* window, the rest is free.
Unspliced(o) ==
  LET list  == Chain(o, o.heads[HDR])
      heads == [s \in Sections |-> list[s]]
      apart == [o EXCEPT !.heads = heads, !.tails = heads,
                         !.page = [p \in DOMAIN @ |->
                                     IF \E s \in Sections : heads[s] = p THEN EmptyPage ELSE @[p]]]
  IN  FreelistOutput(apart, IF Len(list) > 4 THEN list[5] ELSE NULL)

-----------------------------------------------------------------------------
(* xd3_encode_input.                                                       *)

Return(r) == ret' = r
InCall(state) == ret = "run" /\ enc_state = state

Init ==
  /\ cfg \in Configs
  /\ inbuf = <<>> /\ fed = 0 /\ delivered = <<>> /\ closed = "open"
  /\ flush = (cfg.client = "memory")
  /\ next_in = Null /\ avail_in = 0
  /\ buf_in = <<>> /\ buf_avail = 0 /\ buf_leftover = Null /\ buf_leftavail = 0
  /\ enc_state = "ENC_INIT" /\ ret = "idle" /\ current_window = 0 /\ total_in = 0
  /\ srcwin = NoSrcWin /\ todo = <<>>
  /\ acache = InitCache /\ iout = NoInst /\ unencoded_offset = 0
  /\ out = NoPages /\ enc_current = NULL /\ avail_out = 0

\* ENC_INIT: a page for each section (xd3_encode_init).
EncInit ==
  /\ InCall("ENC_INIT")
  /\ LET o == AllocOutput(AllocOutput(AllocOutput(AllocOutput(out, HDR), DATA), INST), ADDR)
     IN  /\ out' = o
         /\ IF o.ok THEN enc_state' = "ENC_INPUT" /\ UNCHANGED ret
            ELSE Return("ENOMEM") /\ UNCHANGED enc_state
  /\ UNCHANGED <<cfg, client, input, current_window, total_in, coding, enc_current,
                 avail_out>>

\* ENC_INPUT before the first xd3_avail_input.
NoInputYet ==
  /\ InCall("ENC_INPUT") /\ next_in = Null
  /\ Return("XD3_INPUT")
  /\ UNCHANGED <<cfg, client, input, enc_state, current_window, total_in, coding, output>>

StartWindow ==
  /\ enc_state' = "ENC_SEARCH" /\ Return("XD3_WINSTART")
  /\ acache' = InitCache /\ unencoded_offset' = 0
  /\ UNCHANGED <<cfg, client, current_window, total_in, iout, todo, srcwin, output>>

\* enc_flush: is the input to be collected in the stream's own buffer?
Buffering == \/ buf_leftover # Null \/ buf_avail # 0
             \/ avail_in < cfg.winsize /\ ~ flush

UseDirectly ==
  /\ InCall("ENC_INPUT") /\ next_in # Null /\ ~ Buffering
  /\ StartWindow
  /\ UNCHANGED input

\* xd3_encode_buffer_leftover: what the buffer starts with, and how much of the
\* input it takes.
Before == IF buf_leftover # Null THEN Memory(buf_leftover, buf_leftavail)
          ELSE SubSeq(buf_in, 1, buf_avail)
Taking == Least(cfg.winsize - Len(Before), avail_in)
BufferedBehind == Memory(next_in, Taking) \o Before
Buffered       == Before \o Memory(next_in, Taking)

TakeInput ==
  /\ InCall("ENC_INPUT") /\ next_in # Null /\ Buffering
  /\ buf_in' = Buffered
  /\ IF Taking < avail_in
     THEN /\ buf_leftover'  = [next_in EXCEPT !.off = @ + Taking]
          /\ buf_leftavail' = avail_in - Taking
     ELSE buf_leftover' = Null /\ UNCHANGED buf_leftavail

\* A slip: waits for more input also after the last.
BufferWaits == Taking = avail_in /\ Len(Buffered) < cfg.winsize

BufferHasSpace == Taking = avail_in /\ Len(Buffered) < cfg.winsize /\ ~ flush

\* There is space in the buffer: more input, please.
BufferInput ==
  /\ TakeInput /\ BufferHasSpace
  /\ buf_avail' = Len(Buffered)
  /\ Return("XD3_INPUT")
  /\ UNCHANGED <<cfg, client, next_in, avail_in, enc_state, current_window, total_in,
                 coding, output>>

\* The buffer is the window.
UseBuffer ==
  /\ TakeInput /\ ~ BufferHasSpace
  /\ next_in' = [in |-> "buf_in", off |-> 0]
  /\ avail_in' = Len(Buffered) /\ buf_avail' = 0
  /\ StartWindow

\* ENC_SEARCH: string matching leaves a list of matches, whatever they are.
Search ==
  /\ InCall("ENC_SEARCH")
  /\ \E ms \in MatchLists(Window) : todo' = ms /\ srcwin' \in SourceWindows(ms)
  /\ enc_state' = "ENC_INSTR"
  /\ UNCHANGED <<cfg, client, input, ret, current_window, total_in, acache, iout,
                 unencoded_offset, output>>

\* The pages after some calls; a failed one ends the call of xd3_encode_input.
Written(o) ==
  /\ out' = o
  /\ IF o.ok THEN UNCHANGED ret ELSE Return("ENOMEM")

\* xd3_iopt_finish_encoding
FinishEncoding(inst) ==
  LET type == IF inst.type = CPY THEN CPY + CopyAddress(inst).mode ELSE inst.type
      coded == [type |-> type, size |-> inst.size, code2 |-> NoCode,
                code1 |-> SingleCode([type |-> type, size |-> inst.size])]
      pair == IF iout = NoInst THEN NoCode ELSE PairCode(iout, coded)
  IN  /\ acache' = IF inst.type = CPY THEN CopyAddress(inst).cache ELSE acache
      /\ unencoded_offset' = unencoded_offset + inst.size
      /\ iout' = IF pair # NoCode THEN NoInst ELSE coded
      /\ Written(EmitAll(out, EmitOperand(inst)
                               \o IF iout = NoInst THEN <<>>
                                  ELSE IF pair # NoCode THEN EmitDouble(pair)
                                  ELSE EmitSingle(iout)))
      /\ UNCHANGED <<cfg, client, input, enc_state, current_window, total_in, srcwin,
                     enc_current, avail_out>>

\* xd3_iopt_add, before a match (xd3_iopt_add_encoding) or for the rest of the
\* window (xd3_iopt_add_finalize).
Gap == (IF todo = <<>> THEN avail_in ELSE Head(todo).pos) - unencoded_offset
EncodeAdd ==
  /\ InCall("ENC_INSTR") /\ Gap > 0
  /\ FinishEncoding([type |-> ADD, pos |-> unencoded_offset, size |-> Gap])
  /\ UNCHANGED todo
EncodeMatch ==
  /\ InCall("ENC_INSTR") /\ Gap = 0 /\ todo # <<>>
  /\ FinishEncoding(Head(todo))
  /\ todo' = Tail(todo)

\* The end of xd3_iopt_add_finalize: nothing is held back.
AddFinalize ==
  /\ InCall("ENC_INSTR") /\ Gap = 0 /\ todo = <<>>
  /\ iout' = NoInst
  /\ Written(IF iout = NoInst THEN out ELSE EmitAll(out, EmitSingle(iout)))
  /\ enc_state' = IF out'.ok THEN "ENC_FLUSH" ELSE enc_state
  /\ UNCHANGED <<cfg, client, input, current_window, total_in, acache, unencoded_offset,
                 todo, srcwin, enc_current, avail_out>>

\* enc_output, for the page id: return it, or go on when it is empty.
OutputPage(o, id) ==
  /\ enc_state' = "ENC_POSTOUT" /\ enc_current' = id
  /\ avail_out' = Len(o.page[id].base)
  /\ IF avail_out' > 0 THEN Return("XD3_OUTPUT") ELSE UNCHANGED ret

\* ENC_FLUSH
Flush ==
  /\ InCall("ENC_FLUSH")
  /\ LET o == EmitHdr(out, srcwin)
     IN  IF o.ok THEN out' = Spliced(o) /\ OutputPage(Spliced(o), o.heads[HDR])
         ELSE /\ out' = o /\ Return("ENOMEM")
              /\ UNCHANGED <<enc_state, enc_current, avail_out>>
  /\ UNCHANGED <<cfg, client, input, current_window, total_in, coding>>

\* ENC_POSTOUT
MissedConsume ==
  /\ InCall("ENC_POSTOUT") /\ avail_out # 0
  /\ Return("XD3_INTERNAL")
  /\ UNCHANGED <<cfg, client, input, enc_state, current_window, total_in, coding, output>>

NextPage ==
  /\ InCall("ENC_POSTOUT") /\ avail_out = 0
  /\ LET id == out.page[enc_current].next_page
     IN  IF id # NULL THEN OutputPage(out, id) /\ UNCHANGED total_in
         ELSE /\ enc_current' = NULL
              /\ total_in' = total_in + avail_in
              /\ enc_state' = "ENC_POSTWIN" /\ Return("XD3_WINFINISH")
              /\ UNCHANGED avail_out
  /\ UNCHANGED <<cfg, client, input, current_window, coding, out>>

\* xd3_encode_reset, and the window is over.
EncodeReset ==
  /\ avail_in' = 0
  /\ srcwin' = NoSrcWin
  /\ out' = Unspliced(out)
  /\ current_window' = current_window + 1
  /\ enc_state' = "ENC_INPUT"

\* ENC_POSTWIN: with leftover input, on to enc_flush.
PostWin ==
  /\ InCall("ENC_POSTWIN")
  /\ EncodeReset
  /\ IF buf_leftover # Null THEN UNCHANGED ret ELSE Return("XD3_INPUT")
  /\ UNCHANGED <<acache, iout, unencoded_offset, todo>>
  /\ UNCHANGED <<cfg, client, next_in, buf_in, buf_avail, buf_leftover, buf_leftavail,
                 total_in, enc_current, avail_out>>

Stream == \/ EncInit \/ NoInputYet \/ UseDirectly \/ BufferInput \/ UseBuffer
          \/ Search \/ EncodeAdd \/ EncodeMatch \/ AddFinalize
          \/ Flush \/ MissedConsume \/ NextPage \/ PostWin

-----------------------------------------------------------------------------
(* The clients.                                                            *)

Errors == {"ENOMEM", "XD3_INTERNAL"}
Asking == ret \in {"idle", "XD3_INPUT"} /\ closed = "open"
Rest   == Len(cfg.file) - fed

\* xd3_avail_input, after n bytes were read over the ones before.
AvailInput(n) ==
  /\ inbuf' = SubSeq(cfg.file, fed + 1, fed + n)
  /\ fed' = fed + n
  /\ next_in' = [in |-> "client", off |-> 0] /\ avail_in' = n
  /\ UNCHANGED <<cfg, delivered, closed, buf_in, buf_avail, buf_leftover,
                 buf_leftavail, enc_state, current_window, total_in, coding, output>>

\* A piece of the size asked for, or what is left of the file: then XD3_FLUSH.
\* A slip: does not take no bytes at all for a short piece.
ShortNotEmpty(size) == size > Rest /\ Rest > 0
ShortPiece(size) == size > Rest
Feed ==
  /\ Asking /\ cfg.client \in {"feed", "careless"} /\ ~ flush
  /\ \E size \in cfg.pieces :
       /\ AvailInput(Least(size, Rest))
       /\ flush' = (ShortPiece(size) /\ cfg.client # "careless")
  /\ Rest > 0 \/ cfg.client = "feed"
  /\ Return("run")

\* The loop of xd3_process_stream.
FeedMemory ==
  /\ Asking /\ cfg.client = "memory" /\ (ret = "idle" \/ Rest > 0)
  /\ AvailInput(Least(cfg.winsize, Rest))
  /\ Return("run") /\ UNCHANGED flush

\* A call before any input.
CallFirst ==
  /\ ret = "idle" /\ cfg.client # "memory"
  /\ Return("run")
  /\ UNCHANGED <<cfg, client, input, enc_state, current_window, total_in, coding, output>>

\* Take the output: out of the page, as it is now; xd3_consume_output.
ConsumeOutput ==
  /\ ret = "XD3_OUTPUT" /\ closed = "open"
  /\ IF cfg.client = "memory" /\ Len(delivered) + avail_out > cfg.room
     THEN closed' = "ENOSPC" /\ UNCHANGED <<delivered, avail_out, ret>>
     ELSE /\ delivered' = delivered \o SubSeq(out.page[enc_current].base, 1, avail_out)
          /\ avail_out' = 0 /\ Return("run") /\ UNCHANGED closed
  /\ UNCHANGED <<cfg, inbuf, fed, flush, input, enc_state, current_window, total_in,
                 coding, out, enc_current>>

Continue ==
  /\ \/ ret \in {"XD3_WINSTART", "XD3_WINFINISH"}
     \/ ret = "XD3_OUTPUT" /\ cfg.client = "careless"
  /\ closed = "open" /\ Return("run")
  /\ UNCHANGED <<cfg, client, input, enc_state, current_window, total_in, coding, output>>

\* The client has no more input, or has been told of an error.
Closing ==
  \/ ret \in Errors
  \/ /\ ret = "XD3_INPUT"
     /\ \/ cfg.client = "feed" /\ flush
        \/ cfg.client # "feed" /\ Rest = 0
  \/ cfg.client = "careless" /\ ret \in {"XD3_WINFINISH", "XD3_OUTPUT"}

\* xd3_close_stream
Close ==
  /\ closed = "open" /\ Closing
  /\ IF enc_state = "ENC_POSTWIN" /\ buf_leftover = Null THEN EncodeReset
     ELSE UNCHANGED <<avail_in, srcwin, out, current_window, enc_state>>
  /\ closed' = IF \/ enc_state = "ENC_INIT"
                  \/ buf_leftover = Null /\ enc_state' = "ENC_INPUT" /\ avail_in' = 0
               THEN "ok" ELSE "incomplete"
  /\ UNCHANGED <<acache, iout, unencoded_offset, todo>>
  /\ UNCHANGED <<cfg, inbuf, fed, flush, delivered, next_in, buf_in, buf_avail,
                 buf_leftover, buf_leftavail, ret, total_in, enc_current, avail_out>>

Done == closed # "open" /\ UNCHANGED vars

Client == Feed \/ FeedMemory \/ CallFirst \/ ConsumeOutput \/ Continue \/ Close
Next == Stream \/ Client \/ Done
Spec == Init /\ [][Next]_vars

\* Weak fairness of the steps of stream and client.  One of them is enabled
\* exactly while the client has not closed (no deadlock is found), so this is
\* WF_vars(Stream \/ Client) without an ENABLED for TLC to evaluate.
Fairness == []<>(closed # "open") \/ []<><<Stream \/ Client>>_vars
FairSpec == Spec /\ Fairness

-----------------------------------------------------------------------------
(* Properties.                                                             *)

PageIds  == 1 .. Len(out.page)
Pointers == [in : {"null", "client", "buf_in"}, off : Nat]
TypeOK ==
  /\ cfg \in Configs /\ inbuf \in Seq(Byte) /\ fed \in 0 .. Len(cfg.file)
  /\ flush \in BOOLEAN /\ delivered \in Seq(Byte)
  /\ next_in \in Pointers /\ avail_in \in Nat
  /\ buf_in \in Seq(Byte) /\ Len(buf_in) <= cfg.winsize
  /\ buf_avail \in Nat /\ buf_leftover \in Pointers /\ buf_leftavail \in Nat
  /\ enc_state \in {"ENC_INIT", "ENC_INPUT", "ENC_SEARCH", "ENC_INSTR", "ENC_FLUSH",
                    "ENC_POSTOUT", "ENC_POSTWIN"}
  /\ ret \in {"idle", "run", "XD3_INPUT", "XD3_WINSTART", "XD3_OUTPUT",
              "XD3_WINFINISH"} \cup Errors
  /\ current_window \in Nat /\ total_in \in Nat
  /\ out.page \in Seq([base : Seq(Byte), next_page : PageIds \cup {NULL}])
  /\ \A p \in PageIds : Len(out.page[p].base) <= PageSize
  /\ out.heads \in [Sections -> PageIds \cup {NULL}]
  /\ closed \in {"open", "ok", "incomplete", "ENOSPC"}

\* The window that is encoded is the input that follows the windows before it,
\* byte for byte, for as long as its bytes are read: whatever mixture of the
\* client's buffer, the stream's buffer and leftovers it was put together from,
\* and although the client reads over its buffer again and again.  Input is
\* neither lost nor taken twice: what was handed over is what went into windows,
\* what is in the stream's buffer and what is left over; and a leftover fits into
\* the buffer (asserted in xd3_encode_buffer_leftover).
InputInOrder ==
  /\ enc_state \in {"ENC_SEARCH", "ENC_INSTR", "ENC_FLUSH", "ENC_POSTOUT"} =>
       Window = SubSeq(cfg.file, total_in + 1, total_in + avail_in)
  /\ ret # "run" =>
       fed = total_in
             + (IF enc_state = "ENC_POSTWIN" \/ ret = "XD3_INPUT" THEN 0 ELSE avail_in)
             + buf_avail + (IF buf_leftover # Null THEN buf_leftavail ELSE 0)
  /\ buf_leftover # Null => buf_avail = 0 /\ buf_leftavail < cfg.winsize

\* xd3_free_stream, which may be called after any call, frees each page once,
\* also after an allocation has failed anywhere: no list has a cycle, no two
\* share a page, and no page is out of reach.
FreesEachPageOnce ==
  ret # "run" =>
    LET all == FreeOutput(out)
    IN  Len(all) = Len(out.page) /\ Range(all) = PageIds

\* Pages are used again: with enough input the encoder comes to an end, and it
\* always does, whatever the pieces it gets.
Terminates == <>(closed # "open")
=============================================================================

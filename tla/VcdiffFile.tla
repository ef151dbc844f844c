----------------------------- MODULE VcdiffFile -----------------------------
(***************************************************************************)
(* What a delta file means, read in one go: the windows it decodes to, and *)
(* how it ends.  There are no buffers, no calls and no source blocks here; *)
(* the source and the window are indexed directly and a copy is defined    *)
(* byte by byte.  This is what xd3_decode_input promises to compute        *)
(* whatever its client does between two calls.                             *)
(***************************************************************************)
EXTENDS XD3AddrCache, XD3Source, SequencesExt

CONSTANTS Magic, CodeTable, Adler32(_), HardMaxWin

NOOP == 0
ADD  == 1
RUN  == 2
CPY  == 3

Flag(ind, bit) == (ind \div bit) % 2 = 1
\* The indicators: secondary compressor, code table and application header in
\* the file header; source, target and checksum in a window header.
Third == 4

-----------------------------------------------------------------------------
(* The fields of the two headers, in their order.                          *)

HeaderFields == <<"magic", "hdr_ind", "secondid", "tablen", "caches", "applen",
                  "appheader">>
WindowFields == <<"win_ind", "cpylen", "cpyoff", "enclen", "tgtlen", "del_ind",
                  "data", "inst", "addr", "cksum", "sections">>

\* The fields that are not always there; h holds those read before.
Present(h, field) ==
  CASE field = "secondid"             -> Flag(h.hdr_ind, 1)
    [] field \in {"tablen", "caches"} -> Flag(h.hdr_ind, 2)
    [] field \in {"applen", "appheader"} -> Flag(h.hdr_ind, Third)
    [] field \in {"cpylen", "cpyoff"} -> h.win_ind % 4 \in {1, 2}
    [] field = "cksum"                -> Flag(h.win_ind, Third)
    [] OTHER                          -> TRUE

ByteFields == {"hdr_ind", "secondid", "win_ind", "del_ind"}
IntFields  == {"tablen", "applen", "cpylen", "cpyoff", "enclen", "tgtlen", "data",
               "inst", "addr"}
SectionBytes(h) == h.data + h.inst + h.addr
Length(h, field) ==
  CASE field \in {"magic", "cksum"} -> 4
    [] field = "caches"    -> 2
    [] field = "appheader" -> h.applen
    [] field = "sections"  -> SectionBytes(h)
    [] OTHER               -> 1

\* enclen counts what follows it, the lengths in their shortest form.
EncLength(h) ==
  (1 + SizeofSize(h.tgtlen) + SizeofSize(h.data) + SizeofSize(h.inst)
     + SizeofSize(h.addr) + SectionBytes(h)
     + (IF Flag(h.win_ind, Third) THEN 4 ELSE 0)) % UsizeMod

\* What must hold before the field is read, and once it has been.
Before(h, field) ==
  CASE field = "sections" -> h.enclen = EncLength(h) /\ SectionBytes(h) < UsizeMod
    [] OTHER -> TRUE
After(h, field) ==
  CASE field = "magic"    -> h.magic = Magic
    [] field = "hdr_ind"  -> h.hdr_ind < 8
    [] field \in {"secondid", "caches"} -> FALSE
    [] field = "tablen"   -> h.tablen > 2
    [] field = "applen"   -> h.applen < UsizeMod - 1
    [] field = "win_ind"  -> h.win_ind < 8 /\ h.done < XoffMod
    [] field = "cpyoff"   -> /\ h.cpyoff + h.cpylen < XoffMod
                             /\ Flag(h.win_ind, 2) => h.cpyoff + h.cpylen <= h.done
    [] field = "tgtlen"   -> h.tgtlen <= HardMaxWin /\ h.cpylen + h.tgtlen < UsizeMod
    [] field = "del_ind"  -> h.del_ind = 0
    [] OTHER              -> TRUE

\* The integer below m after the first i bytes of f: "short" when the file ends
\* inside it, unless what there is of it is too much already.
ReadNumber(f, i, m) ==
  LET ends == {j \in i + 1 .. Len(f) : ~ More(f[j])}
      last == IF ends = {} THEN Len(f) ELSE CHOOSE j \in ends : \A k \in ends : j <= k
      val  == Value(SubSeq(f, i + 1, last))
  IN  [is   |-> IF val >= m THEN "bad" ELSE IF ends = {} THEN "short" ELSE "ok",
       next |-> last, val |-> val]

ReadBytes(f, i, n) ==
  IF i + n <= Len(f)
  THEN [is |-> "ok", next |-> i + n, val |-> SubSeq(f, i + 1, i + n)]
  ELSE [is |-> "short", next |-> i, val |-> <<>>]

ReadByte(f, i) ==
  IF i < Len(f) THEN [is |-> "ok", next |-> i + 1, val |-> f[i + 1]]
                ELSE [is |-> "short", next |-> i, val |-> 0]

\* A reader is at byte i of the file; it "is" ok until it meets the end of the
\* file ("short") or something invalid ("bad"); h holds the fields it has read.
Read(f, p, field) ==
  LET got == IF field \in ByteFields THEN ReadByte(f, p.i)
             ELSE IF field \in IntFields
             THEN ReadNumber(f, p.i, IF field = "cpyoff" THEN XoffMod ELSE UsizeMod)
             ELSE ReadBytes(f, p.i, Length(p.h, field))
      Checked(q) == IF After(q.h, field) THEN q ELSE [q EXCEPT !.is = "bad"]
      Took(r)    == IF r.is # "ok" THEN [p EXCEPT !.is = r.is]
                    ELSE Checked([p EXCEPT !.i = r.next, !.h[field] = r.val])
  IN  IF p.is # "ok" \/ ~ Present(p.h, field) THEN p
      ELSE IF ~ Before(p.h, field) THEN [p EXCEPT !.is = "bad"]
      ELSE Took(got)

ReadFields(f, p, fields) ==
  FoldLeft(LAMBDA q, field : Read(f, q, field), p, fields)

Blank(fields, done) ==
  [field \in Range(fields) \cup {"done"} |-> IF field = "done" THEN done ELSE 0]

-----------------------------------------------------------------------------
(* The instructions of one window.                                         *)

\* A copy of r.val bytes from the address a.
Copy(w, m, r, a) ==
  LET here  == w.cpylen + Len(m.out)
      inSrc == a.addr < w.cpylen
      copied[k \in 0 .. r.val] ==
        IF k = 0 THEN m.out
        ELSE LET o == copied[k - 1]
             IN  Append(o, IF inSrc THEN Source[w.cpyoff + a.addr + k]
                                    ELSE o[a.addr - w.cpylen + k])
  IN  IF \/ ~ a.ok \/ a.addr >= here
         \/ inSrc /\ a.addr + r.val > w.cpylen
         \/ inSrc /\ w.cpyoff + a.addr + r.val > Len(Source)
      THEN [m EXCEPT !.ok = FALSE]
      ELSE [m EXCEPT !.inst = r.next, !.addr = a.next, !.cache = a.cache,
                     !.out = copied[r.val]]

\* n bytes of data; a RUN repeats its byte.
Write(w, m, r, n) ==
  IF m.data + n > Len(w.data) THEN [m EXCEPT !.ok = FALSE]
  ELSE [m EXCEPT !.inst = r.next, !.data = @ + n,
                 !.out = @ \o [k \in 1 .. r.val |->
                                 w.data[m.data + (IF n = 1 THEN 1 ELSE k)]]]

\* A half-instruction on the machine state m: read positions in the sections,
\* cache, window written so far.
Step(w, m, type, size) ==
  LET Sized(r) ==
        IF ~ r.ok \/ Len(m.out) + r.val > w.tgtlen THEN [m EXCEPT !.ok = FALSE]
        ELSE IF type >= CPY
        THEN Copy(w, m, r, DecodeAddress(m.cache, w.cpylen + Len(m.out),
                                         type - CPY, w.addr, m.addr))
        ELSE Write(w, m, r, IF type = RUN THEN 1 ELSE r.val)
  IN  IF type = NOOP \/ ~ m.ok THEN m
      ELSE Sized(IF size = 0 THEN ReadInt(w.inst, m.inst)
                 ELSE [ok |-> TRUE, val |-> size, next |-> m.inst])

\* The machine state after the last instruction of w; it is ok when the window
\* is full and the sections are used up.
Execute(w) ==
  LET start == [ok |-> TRUE, inst |-> 0, data |-> 0, addr |-> 0,
                cache |-> InitCache, out |-> <<>>]
      Opcode(m, c) == Step(w, Step(w, [m EXCEPT !.inst = @ + 1], c.type1, c.size1),
                           c.type2, c.size2)
      Next1(m) == IF m.ok /\ m.inst < Len(w.inst)
                  THEN Opcode(m, CodeTable[w.inst[m.inst + 1]]) ELSE m
      after[k \in 0 .. Len(w.inst)] == IF k = 0 THEN start ELSE Next1(after[k - 1])
      Full(m) == /\ m.ok /\ Len(m.out) = w.tgtlen
                 /\ m.data = Len(w.data) /\ m.addr = Len(w.addr)
      End(m) == [m EXCEPT !.ok = Full(m)]
  IN  End(after[Len(w.inst)])

-----------------------------------------------------------------------------
\* The window whose header is h decodes to the bytes of Body(h).out, if ok.
Body(h) ==
  Execute([cpylen |-> h.cpylen, cpyoff |-> h.cpyoff, tgtlen |-> h.tgtlen,
           data |-> SubSeq(h.sections, 1, h.data),
           inst |-> SubSeq(h.sections, h.data + 1, h.data + h.inst),
           addr |-> SubSeq(h.sections, h.data + h.inst + 1, SectionBytes(h))])

\* What the windows read so far (q) become with the next one; p is its reader.
AddWindow(q, p, verify, hasSource) ==
  LET Checked(x) ==
        IF /\ x.ok /\ ~ Flag(p.h.win_ind, 2)
           /\ Flag(p.h.win_ind, 1) => hasSource
           /\ Flag(p.h.win_ind, Third) /\ verify => Adler32(x.out) = p.h.cksum
        THEN [i |-> p.i, is |-> "ok", outs |-> Append(q.outs, x.out),
              ends |-> Append(q.ends, p.i), done |-> q.done + Len(x.out)]
        ELSE [q EXCEPT !.is = "bad"]
  IN  IF p.is = "ok" THEN Checked(Body(p.h)) ELSE [q EXCEPT !.is = p.is]

\* The windows of the file, where each ends, and how the file ends: "end"
\* after a whole window, "short" inside something, "bad" at something invalid.
Decoded(f, verify, hasSource) ==
  LET header == ReadFields(f, [i |-> 0, is |-> "ok", h |-> Blank(HeaderFields, 0)],
                           HeaderFields)
      Window(q) ==
        IF q.is # "ok" \/ q.i = Len(f) THEN q
        ELSE AddWindow(q, ReadFields(f, [i |-> q.i, is |-> "ok",
                                         h |-> Blank(WindowFields, q.done)],
                                     WindowFields),
                       verify, hasSource)
      Start(p) == [i |-> p.i, is |-> p.is, outs |-> <<>>, ends |-> <<>>, done |-> 0]
      \* a window takes at least seven bytes
      Result(q) == [outs |-> q.outs, ends |-> q.ends,
                    ending |-> IF q.is = "ok" THEN "end" ELSE q.is]
  IN  Result(FoldLeft(LAMBDA q, k : Window(q), Start(header),
                      [k \in 1 .. Len(f) \div 7 + 1 |-> k]))
=============================================================================

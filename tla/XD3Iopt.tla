------------------------------ MODULE XD3Iopt ------------------------------
(***************************************************************************)
(* From matches to instructions (xdelta3.c): the loop of xd3_string_match, *)
(* which reports matches that may overlap, the iopt buffer that holds them *)
(* back and picks a part of each, the source window that has to be chosen  *)
(* before the first copy is encoded (xd3_srcwin_setup), and the            *)
(* instructions that come out, window after window.                        *)
(*                                                                         *)
(* What the hash tables find is left open: at any position any true match  *)
(* may be found, or none; different bytes have different checksums.  The   *)
(* whole source is in memory.  Positions count from 0, so byte p of a      *)
(* string s is s[p + 1].                                                   *)
(***************************************************************************)
EXTENDS XD3CodeTable

CONSTANTS
  Inputs,       \* the inputs considered, see input
  AllocElts,    \* XD3_ALLOCSIZE / sizeof(xd3_rinst)
  MaxMatchSplit,\* MAX_MATCH_SPLIT, 18 in the code
  LargeLook,    \* smatcher.large_look
  Mode(_)       \* the address mode xd3_encode_address takes for a copy

ASSUME IoptAssumption ==
  /\ {AllocElts, MaxMatchSplit} \subseteq Nat \ {0}
  /\ \A i \in Inputs : /\ {i.src, i.tgt} \subseteq Seq(Nat)
                       /\ i.winsize \in Nat \ {0}
                       /\ {i.iopt_size, i.max_lazy} \subseteq Nat
                       /\ {i.eof_known, i.greedy} \subseteq BOOLEAN
  /\ LargeLook \in Nat /\ LargeLook >= MIN_MATCH

SmallLook == 4   \* SLOOK of every matcher of xdelta3-cfgs.h
MIN_RUN   == 8

VARIABLES
  input,          \* the files being encoded, src and tgt (src = <<>>: there is
                  \* no source); src->eof_known; winsize; iopt_size (0: the
                  \* buffer grows when it is full); max_lazy of the matcher;
                  \* and greedy, the flag XD3_BEGREEDY
  enc_state,      \* the case of xd3_encode_input, or "LOOP" within ENC_SEARCH
  total_in, avail_in,     \* the window is avail_in bytes from total_in on
  input_position, min_match,
  run,            \* run_l and run_c of the loop
  match,          \* match_state, match_srcpos if it is MATCH_TARGET, and
                  \* match_last_srcpos
  iopt            \* the buffer, the source window and what is encoded

vars == <<input, enc_state, total_in, avail_in, input_position, min_match, run,
          match, iopt>>

HasSource == input.src # <<>>
Tgt(p)    == input.tgt[total_in + p + 1]
Src(p)    == input.src[p + 1]
Lesser(a, b)  == IF a < b THEN a ELSE b
Greater(a, b) == IF a < b THEN b ELSE a
EndOf(i)  == i.pos + i.size

-----------------------------------------------------------------------------
(* xd3_iopt_flush_instructions, first loop.  list is iopt_used, r1 the     *)
(* instruction at index i; a step drops or trims r1 or r2 or moves on.     *)

ShortenSameAddr(list, i) ==
  LET r1 == list[i]   r2 == list[i + 1]
      overlap == EndOf(r1) - r2.pos
  IN  [list EXCEPT ![i + 1] = [@ EXCEPT !.pos = @ + overlap, !.size = @ - overlap]]

\* Two matches of which neither can be dropped: balance their sizes.  cut1
\* bytes go from the end of r1, the rest of the overlap from the front of r2.
Shorten(list, i) ==
  LET r1 == list[i]   r2 == list[i + 1]
      overlap == EndOf(r1) - r2.pos
      gap     == EndOf(r2) - r1.pos
      newsize == Lesser(MaxMatchSplit, gap - gap \div 2)
      cut1    == IF newsize > r1.size THEN 0
                 ELSE IF newsize > r2.size THEN overlap
                 ELSE Lesser(r1.size - newsize, overlap)
      cut2    == overlap - cut1
  IN  [list EXCEPT ![i] = [r1 EXCEPT !.size = @ - cut1],
         ![i + 1] = [r2 EXCEPT !.pos = @ + cut2, !.size = @ - cut2,
                               !.addr = @ + cut2]]

\* r1 and r2 overlap.  Without force the last pair waits for what follows.
OptimizeOverlap(list, i, force) ==
  LET r1 == list[i]   r2 == list[i + 1]
      hasR3  == i + 2 <= Len(list)
      r2off  == r2.pos - r1.pos
      r2moff == EndOf(r2) - EndOf(r1)
      gap    == EndOf(r2) - r1.pos
  IN  IF hasR3 /\ list[i + 2].pos <= EndOf(r1) + 1
      THEN [list |-> RemoveAt(list, i + 1), i |-> i]
      ELSE IF ~ hasR3 /\ ~ force THEN [list |-> list, i |-> i]
      ELSE IF gap < 2 * MIN_MATCH \/ r2moff <= 2 \/ r2off <= 2
      THEN IF r1.size < r2.size
           THEN [list |-> RemoveAt(list, i), i |-> i]
           ELSE [list |-> RemoveAt(list, i + 1), i |-> i + 1]
      ELSE [list |-> Shorten(list, i), i |-> i + 1]

OptimizeStep(q, force) ==
  IF q.i >= Len(q.list) THEN q
  ELSE IF EndOf(q.list[q.i]) <= q.list[q.i + 1].pos THEN [q EXCEPT !.i = @ + 1]
  ELSE OptimizeOverlap(q.list, q.i, force)

\* Each step removes an instruction or advances: 2 Len(list) steps are enough.
Optimize(list, force) ==
  LET after[k \in 0 .. 2 * Len(list)] ==
        IF k = 0 THEN [list |-> list, i |-> 1] ELSE OptimizeStep(after[k - 1], force)
  IN  after[2 * Len(list)].list

-----------------------------------------------------------------------------
(* Encoding.  e is the state iopt; `last' says enc_state = ENC_INSTR.      *)

SrcwinSetupGuess(w, last) ==
  [w EXCEPT !.decided = TRUE, !.srcbase = w.minaddr,
            !.srclen = Lesser(avail_in + avail_in \div 4, Len(input.src) - w.minaddr)]

\* xd3_srcwin_setup: exact when no more copies can come, a guess before.
SrcwinSetup(w, last) ==
  LET length == w.maxaddr - w.minaddr
      guess  == Greater(length, avail_in + avail_in \div 4)
      srclen == IF last THEN length
                ELSE IF input.eof_known
                THEN Lesser(guess, Len(input.src) - w.minaddr) ELSE guess
  IN  IF last /\ w.maxaddr = 0
      THEN [w EXCEPT !.decided = TRUE]
      ELSE [w EXCEPT !.decided = TRUE, !.srcbase = w.minaddr, !.srclen = srclen]

\* The opcode is chosen as in XD3InstCode: iout and i may share one.
Coded(i) == [type |-> IF i.type = CPY THEN CPY + Mode(i) ELSE i.type,
             size |-> i.size, code2 |-> NoCode]
Slot(i)  == IF i.type = ADD THEN 0 ELSE 1

\* xd3_iopt_finish_encoding.  taroff is srclen.  The two last lines are
\* xd3_iopt_free_nonadd: an ADD lives on the caller's stack, not in a slot.
FinishEncoding(e, i, last) ==
  LET w == IF i.type = CPY /\ HasSource /\ ~ e.srcwin.decided
           THEN SrcwinSetup(e.srcwin, last) ELSE e.srcwin
      addr == IF i.type # CPY THEN 0
              ELSE IF i.xtra = 1 THEN i.addr - w.srcbase ELSE w.srclen + i.addr
      paired == e.iout # NoInst /\ PairCode(Coded(e.iout), Coded(i)) # NoCode
      data == CASE i.type = CPY -> <<>>
                [] i.type = RUN -> <<i.xtra>>
                [] i.type = ADD -> [k \in 1 .. i.size |-> Tgt(i.pos + k - 1)]
  IN  [e EXCEPT !.srcwin = w, !.unencoded_offset = @ + i.size,
         !.out  = Append(@, [type |-> i.type, pos |-> i.pos, size |-> i.size,
                             addr |-> addr, data |-> data]),
         !.iout = IF paired THEN NoInst ELSE i,
         !.free = @ + (IF e.iout = NoInst THEN 0 ELSE Slot(e.iout))
                    + (IF paired THEN Slot(i) ELSE 0)]

\* xd3_iopt_add: the bytes before pos that no match covers.
AddUpTo(e, pos, last) ==
  LET off == e.unencoded_offset
  IN  IF pos > off
      THEN FinishEncoding(e, [type |-> ADD, pos |-> off, size |-> pos - off,
                              addr |-> 0, xtra |-> 0], last)
      ELSE e

AddEncoding(e, i, last) == FinishEncoding(AddUpTo(e, i.pos, last), i, last)

\* xd3_iopt_flush_instructions.  Without force about half of the buffer goes,
\* and the two last, which have not been compared with what follows, stay.
Flush(e, force) ==
  LET list == Optimize(e.used, force)
      half == e.size \div 2 + 1
      n    == IF force THEN Len(list)
              ELSE Lesser(Len(list), Greater(1, Lesser(half, Len(list) - 2)))
      rest == [e EXCEPT !.used = SubSeq(list, n + 1, Len(list)),
                        !.free = @ + Len(e.used) - Len(list)]
      after[k \in 0 .. n] == IF k = 0 THEN rest
                             ELSE AddEncoding(after[k - 1], list[k], force)
  IN  after[n]

\* xd3_iopt_add_finalize
AddFinalize(e) ==
  LET q == AddUpTo(e, avail_in, TRUE)
  IN  IF q.iout = NoInst THEN q
      ELSE [q EXCEPT !.iout = NoInst, !.free = @ + Slot(q.iout)]

-----------------------------------------------------------------------------
(* Entering a match: xd3_emit_run, xd3_found_match, xd3_iopt_get_slot.     *)

GetSlot(e) ==
  IF e.free > 0 THEN e
  ELSE IF input.iopt_size = 0
  THEN [e EXCEPT !.free = @ + AllocElts, !.size = @ + AllocElts]
  ELSE Flush(e, FALSE)

FoundMatch(e, i) ==
  LET q == GetSlot(e) IN [q EXCEPT !.free = @ - 1, !.used = Append(@, i)]

\* How many instructions are left when those at the end that begin at pos or
\* later are gone.
Before(used, pos) == Max({0} \cup {k \in 1 .. Len(used) : used[k].pos < pos})

EraseLeak(e, pos) ==
  [e EXCEPT !.used = SubSeq(@, 1, Before(@, pos))]

\* xd3_iopt_erase
Erase(e, pos) ==
  LET kept == Before(e.used, pos)
  IN  [e EXCEPT !.used = SubSeq(@, 1, kept), !.free = @ + Len(e.used) - kept]

LastMatched(e) == IF e.used = <<>> THEN 0 ELSE EndOf(Last(e.used))

\* How many bytes of the target from p on, and before p, equal those of s at a.
Forward(s, a, p, max) ==
  LET Differ == {k \in 0 .. max - 1 : s[a + k + 1] # Tgt(p + k)}
  IN  IF Differ = {} THEN max ELSE Min(Differ)
Backward(s, a, p, max) ==
  LET Differ == {k \in 0 .. max - 1 : s[a - k] # Tgt(p - k - 1)}
  IN  IF Differ = {} THEN max ELSE Min(Differ)

-----------------------------------------------------------------------------
(* Matching.                                                               *)

NoSrcwin == [decided |-> FALSE, srcbase |-> 0, srclen |-> 0,
             minaddr |-> 0, maxaddr |-> 0]

Searching(last) == [state |-> "MATCH_SEARCHING", srcpos |-> 0, last |-> last]

\* NEXTRUN, and xd3_comprun over SmallLook bytes.
NextRun(r, c) == IF r.c = c THEN [r EXCEPT !.l = @ + 1] ELSE [l |-> 1, c |-> c]
CompRun(p) ==
  LET after[k \in 0 .. SmallLook] == IF k = 0 THEN [l |-> 0, c |-> 0]
                                     ELSE NextRun(after[k - 1], Tgt(p + k - 1))
  IN  after[SmallLook]

\* restartloop, from position p on with buffer e.
Restart(p, e) ==
  /\ input_position' = p
  /\ IF p + SmallLook > avail_in
     THEN enc_state' = "ENC_INSTR" /\ UNCHANGED <<min_match, run>>
     ELSE /\ enc_state' = "LOOP"
          /\ min_match' = Greater(MIN_MATCH, 1 + LastMatched(e) - p)
          /\ run' = CompRun(p)

\* updateone, and back to the top of the loop.
UpdateOne(r, min) ==
  IF input_position + SmallLook = avail_in
  THEN enc_state' = "ENC_INSTR" /\ UNCHANGED <<input_position, min_match, run>>
  ELSE /\ input_position' = input_position + 1
       /\ run' = NextRun(r, Tgt(input_position + SmallLook))
       /\ min_match' = min
       /\ UNCHANGED enc_state

\* HANDLELAZY: look on at the next position, or go on after the match.
HandleLazy(r, mlen, e) ==
  IF mlen < input.max_lazy /\ input_position + mlen <= avail_in - 2
  THEN UpdateOne(r, mlen)
  ELSE Restart(input_position + mlen, e)

\* xd3_source_match_setup: where a match may reach to.
BackLimit == IF input.greedy THEN LastMatched(iopt) ELSE iopt.unencoded_offset
\* The difference is unsigned: from behind the limit it wraps, and is no limit
\* (what lies before the window is taken to differ).
BackRoom == IF input_position < BackLimit THEN input_position
            ELSE input_position - BackLimit
SrcFrom == IF iopt.srcwin.decided THEN iopt.srcwin.srcbase ELSE 0
SrcTo   == IF iopt.srcwin.decided
           THEN Lesser(Len(input.src), iopt.srcwin.srcbase + iopt.srcwin.srclen)
           ELSE Len(input.src)

\* The source positions the large hash table may give, and of these the ones
\* that are not rejected because they were tried last.
Lookups == IF HasSource /\ input_position + LargeLook <= avail_in
           THEN {s \in 0 .. Len(input.src) - LargeLook :
                   \A k \in 0 .. LargeLook - 1 : Src(s + k) = Tgt(input_position + k)}
           ELSE {}
Rejected(srcpos) == srcpos # 0 /\ srcpos = match.last
Candidates == {s \in Lookups : ~ Rejected(s)}

\* xd3_source_extend_match for srcpos, back only in MATCH_BACKWARD.
Extended(srcpos, backward) ==
  IF srcpos \notin SrcFrom .. SrcTo THEN [srcpos |-> srcpos, fwd |-> 0, back |-> 0] ELSE
  [srcpos |-> srcpos,
   fwd  |-> Forward(input.src, srcpos, input_position,
                    Lesser(avail_in - input_position, SrcTo - srcpos)),
   back |-> IF backward
            THEN Backward(input.src, srcpos, input_position,
                          Lesser(BackRoom, srcpos - SrcFrom))
            ELSE 0]

Missed == {s \in Candidates : Extended(s, TRUE).fwd < min_match}

AfterMatchStart(m) ==
  IF input_position + m.fwd = avail_in
  THEN [state |-> "MATCH_TARGET", srcpos |-> m.srcpos, last |-> m.srcpos]
  ELSE Searching(m.srcpos)

\* A match that ends with the window is tried again from there in the next.
AfterMatch(m) ==
  IF input_position + m.fwd = avail_in
  THEN [state |-> "MATCH_TARGET", srcpos |-> m.srcpos + m.fwd, last |-> m.srcpos]
  ELSE Searching(m.srcpos)

\* Its second half: the match m is long enough and is entered.
SourceTaken(m) ==
  LET start == m.srcpos - m.back
      end   == m.srcpos + m.fwd
      pos   == input_position - m.back
      w     == iopt.srcwin
      wider == [w EXCEPT
                  !.minaddr = IF w.maxaddr = 0 \/ start < @ THEN start ELSE @,
                  !.maxaddr = Greater(@, end)]
      kept  == IF m.back > 0 THEN Erase(iopt, pos) ELSE iopt
  IN  /\ iopt' = FoundMatch([kept EXCEPT !.srcwin = wider],
                            [type |-> CPY, pos |-> pos, size |-> m.back + m.fwd,
                             addr |-> start, xtra |-> 1])
      /\ match' = AfterMatch(m)

-----------------------------------------------------------------------------
WindowAt(base) == Lesser(input.winsize, Len(input.tgt) - base)

Init ==
  /\ input \in Inputs
  /\ enc_state = "ENC_SEARCH"
  /\ total_in = 0 /\ avail_in = WindowAt(0)
  /\ input_position = 0 /\ min_match = MIN_MATCH /\ run = [l |-> 0, c |-> 0]
  /\ match = [state |-> "MATCH_TARGET", srcpos |-> 0, last |-> 0]
  /\ LET size == IF input.iopt_size = 0 THEN AllocElts ELSE input.iopt_size
     IN  iopt = [used |-> <<>>, free |-> size, size |-> size, iout |-> NoInst,
                 unencoded_offset |-> 0, srcwin |-> NoSrcwin, out |-> <<>>]

\* ENC_SEARCH: first the match that went on to the end of the window before.
Search ==
  /\ enc_state = "ENC_SEARCH"
  /\ IF HasSource /\ match.state = "MATCH_TARGET" /\ avail_in > 0
     THEN LET m == Extended(match.srcpos, FALSE)
          IN  IF ~ Rejected(match.srcpos) /\ m.fwd >= min_match
              THEN SourceTaken(m) /\ Restart(m.fwd, iopt')
              ELSE /\ match' = Searching(match.srcpos)
                   /\ Restart(0, iopt) /\ UNCHANGED iopt
     ELSE /\ match' = Searching(match.last)
          /\ Restart(0, iopt) /\ UNCHANGED iopt
  /\ UNCHANGED <<input, total_in, avail_in>>

\* One turn of the loop of xd3_string_match: a run is always taken, ...
RunLength ==
  IF run.l # SmallLook THEN run.l
  ELSE 1 + Forward(input.tgt, total_in + input_position, input_position + 1,
                   avail_in - input_position - 1)
RunHere == run.l = SmallLook /\ RunLength >= Greater(min_match, MIN_RUN)

RunFound ==
  /\ enc_state = "LOOP" /\ RunHere
  /\ iopt' = FoundMatch(iopt, [type |-> RUN, pos |-> input_position,
                               size |-> RunLength, addr |-> 0, xtra |-> run.c])
  /\ HandleLazy([run EXCEPT !.l = RunLength], RunLength, iopt')
  /\ UNCHANGED <<input, total_in, avail_in, match>>

\* ... a match with the source may be found where large_look bytes are left, ...
SourceFound ==
  /\ enc_state = "LOOP" /\ ~ RunHere
  /\ \E srcpos \in Candidates \ Missed :
       LET m == Extended(srcpos, TRUE)
       IN  /\ SourceTaken(m)
           /\ HandleLazy([run EXCEPT !.l = RunLength], m.fwd, iopt')
  /\ UNCHANGED <<input, total_in, avail_in>>

\* (a match that is too short, or outside the source window, is only remembered)
SourceMissed == match' \in {match} \cup {Searching(s) : s \in Missed}

\* ... a match with the window itself, ...
TargetFound ==
  /\ enc_state = "LOOP" /\ ~ RunHere
  /\ \E base \in 0 .. input_position - 1 :
       LET n == Forward(input.tgt, total_in + base, input_position,
                        avail_in - input_position)
       IN  /\ n >= min_match
           /\ iopt' = FoundMatch(iopt, [type |-> CPY, pos |-> input_position,
                                        size |-> n, addr |-> base, xtra |-> 0])
           /\ HandleLazy([run EXCEPT !.l = RunLength], n, iopt')
  /\ SourceMissed
  /\ UNCHANGED <<input, total_in, avail_in>>

\* ... or nothing.
NothingFound ==
  /\ enc_state = "LOOP" /\ ~ RunHere
  /\ UpdateOne([run EXCEPT !.l = RunLength], Greater(MIN_MATCH, min_match - 1))
  /\ SourceMissed
  /\ UNCHANGED <<input, total_in, avail_in, iopt>>

\* ENC_INSTR: everything that is buffered, and the bytes after it.
Instr ==
  /\ enc_state = "ENC_INSTR"
  /\ iopt' = AddFinalize(Flush(iopt, TRUE))
  /\ enc_state' = "ENC_FLUSH"
  /\ UNCHANGED <<input, total_in, avail_in, input_position, min_match, run, match>>

NextWindowKeepOffset ==
  /\ enc_state = "ENC_FLUSH"
  /\ total_in + avail_in < Len(input.tgt)
  /\ total_in' = total_in + avail_in
  /\ avail_in' = WindowAt(total_in')
  /\ input_position' = 0 /\ min_match' = MIN_MATCH
  /\ iopt' = [iopt EXCEPT !.srcwin = NoSrcwin, !.out = <<>>]
  /\ enc_state' = "ENC_SEARCH"
  /\ UNCHANGED <<input, run, match>>

\* The window is output; xd3_encode_reset, and the next one if there is one.
NextWindow ==
  /\ enc_state = "ENC_FLUSH"
  /\ total_in + avail_in < Len(input.tgt)
  /\ total_in' = total_in + avail_in
  /\ avail_in' = WindowAt(total_in')
  /\ input_position' = 0 /\ min_match' = MIN_MATCH
  /\ iopt' = [iopt EXCEPT !.unencoded_offset = 0, !.srcwin = NoSrcwin, !.out = <<>>]
  /\ enc_state' = "ENC_SEARCH"
  /\ UNCHANGED <<input, run, match>>

Next == \/ Search \/ RunFound \/ SourceFound \/ TargetFound \/ NothingFound
        \/ Instr \/ NextWindow

Spec == Init /\ [][Next]_vars

-----------------------------------------------------------------------------
(* What a decoder makes of the instructions written so far.                *)

Copied(t, addr, size) ==
  LET w == iopt.srcwin
      byte[k \in 0 .. size - 1] ==
        LET a == addr + k
        IN  IF a < w.srclen
            THEN IF a >= 0 /\ w.srcbase + a < Len(input.src)
                 THEN Src(w.srcbase + a) ELSE -1
            ELSE IF a - w.srclen < Len(t) THEN t[a - w.srclen + 1]
            ELSE IF addr - w.srclen < Len(t) THEN byte[a - w.srclen - Len(t)] ELSE -1
  IN  [k \in 1 .. size |-> byte[k - 1]]
Meaning(t, i) ==
  CASE i.type = ADD -> i.data
    [] i.type = RUN -> [k \in 1 .. i.size |-> i.data[1]]
    [] i.type = CPY -> Copied(t, i.addr, i.size)
Rebuilt ==
  LET after[k \in 0 .. Len(iopt.out)] ==
        IF k = 0 THEN <<>>
        ELSE after[k - 1] \o Meaning(after[k - 1], iopt.out[k])
  IN  after[Len(iopt.out)]

-----------------------------------------------------------------------------
\* Whatever matches were found, dropped and trimmed, and whenever a part of the
\* buffer had to be flushed, a decoder that is given the instructions so far and
\* the source window rebuilds the window up to unencoded_offset, byte for byte,
\* and the whole window when it is output.
EncodesWindow ==
  /\ iopt.unencoded_offset <= avail_in
  /\ Rebuilt = [p \in 1 .. iopt.unencoded_offset |-> Tgt(p - 1)]
  /\ enc_state = "ENC_FLUSH" => iopt.unencoded_offset = avail_in

\* An instruction begins where the one before it ended: the assertion of
\* xd3_iopt_finish_encoding on unencoded_offset.
Contiguous ==
  \A k \in 1 .. Len(iopt.out) :
    iopt.out[k].pos = IF k = 1 THEN 0 ELSE EndOf(iopt.out[k - 1])

\* The buffer is what xd3_iopt_flush_instructions takes it to be: matches in
\* the order of their beginnings and of their ends, none shorter than MIN_MATCH
\* (also after a trim), none that begins in what is already encoded or ends after
\* the window.  Every slot
\* is in one list, or in iout (xd3_iopt_check), and a match that is found gets
\* one: the assertion of xd3_iopt_get_slot.
BufferSound ==
  LET u == iopt.used
  IN  /\ \A k \in 1 .. Len(u) :
           /\ u[k].size >= MIN_MATCH
           /\ u[k].pos >= iopt.unencoded_offset /\ EndOf(u[k]) <= avail_in
           /\ k < Len(u) => u[k].pos < u[k + 1].pos /\ EndOf(u[k]) < EndOf(u[k + 1])
      /\ Len(u) + iopt.free + (IF iopt.iout = NoInst THEN 0 ELSE 1) = iopt.size
      /\ iopt.free >= 0

\* Once the source window is decided it covers every source copy that is still
\* buffered, although it was a guess: the assertions of xd3_iopt_finish_encoding.
SourceWindowCovers ==
  \A k \in 1 .. Len(iopt.used) :
    LET i == iopt.used[k]  w == iopt.srcwin
    IN  i.xtra = 1 /\ i.type = CPY =>
          /\ i.addr >= w.minaddr /\ i.addr + i.size <= w.maxaddr
          /\ w.decided => /\ i.addr >= w.srcbase
                         /\ i.addr + i.size <= w.srcbase + w.srclen

\* A match that ends with a window goes on in the next: the source position that
\* is tried first there is the one after the byte matched last, and is not taken
\* for a loop (the assertion of ENC_SEARCH that xd3_source_match_setup succeeds).
MatchGoesOn ==
  enc_state = "ENC_SEARCH" /\ match.state = "MATCH_TARGET" /\ HasSource /\ total_in > 0 =>
    /\ ~ Rejected(match.srcpos)
    /\ match.srcpos > 0 /\ Src(match.srcpos - 1) = Tgt(-1)
=============================================================================

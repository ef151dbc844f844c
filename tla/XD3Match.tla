------------------------------ MODULE XD3Match ------------------------------
(***************************************************************************)
(* How the matches of XD3Iopt are found (xdelta3.c): the source arrives    *)
(* block by block and is indexed in a hash table some way ahead of the     *)
(* input (xd3_srcwin_move_point); a source match is extended backward and  *)
(* forward across blocks (xd3_source_extend_match); matches with the       *)
(* window itself are found through chains of positions (xd3_smatch).       *)
(*                                                                         *)
(* The client either has no getblk callback, so that every block that is   *)
(* not the current one makes xd3_encode_input return XD3_GETSRCBLK from    *)
(* the middle of a loop and start again in ENC_SEARCH; or it is the        *)
(* command line tool, with a FIFO of blocks that refuses to go back.       *)
(*                                                                         *)
(* Each turn of a loop that may need a block is a step.  Buffer, optimiser *)
(* and the loop over the input are those of XD3Iopt, which lets any true   *)
(* match be found; here it is decided by the tables.                       *)
(***************************************************************************)
EXTENDS XD3Iopt

CONSTANTS
  LargeStep,                  \* smatcher.large_step
  SmallChain, SmallLChain,    \* small_chain, small_lchain
  LongEnough,                 \* long_enough
  SprevSize,                  \* sprevsz, a power of two
  Far4, Far5,                 \* 2^14 and 2^21 in the code
  LargeHash(_), SmallHash(_)  \* from strings to slots of the tables

\* An input also says how the source is read: blksize, max_winsize, and whether
\* by a FIFO.  Where the source window is guessed its size is known from the start.
ASSUME MatchAssumption ==
  /\ {LargeStep, SmallChain, SmallLChain, SprevSize} \subseteq Nat \ {0}
  /\ \A i \in Inputs : /\ i.blksize \in Nat \ {0} /\ i.fifo \in BOOLEAN
                       /\ i.max_winsize \in {k * i.blksize : k \in 2 .. 32}
                       /\ i.iopt_size > 0 => i.eof_known

VARIABLES
  at,      \* where in string_match, srcwin_move_point or source_extend_match
  source,  \* xd3_source
  slots,   \* the block in each slot of the FIFO
  index,   \* large_table, srcwin_cksum_pos, maxsrcaddr, and of a call of
           \* srcwin_move_point its target, where it goes on, next_move_point
  extent,  \* match_maxback, match_maxfwd, match_back, match_fwd, and the
           \* caller of source_extend_match
  small    \* small_table, small_prev, small_reset

blocks == <<source, slots>>
matcher == <<index, extent, small>>
allVars == <<vars, at, source, slots, index, extent, small>>

Never == 1000000      \* USIZE_T_MAX
None  == -1           \* no block
Bytes(s, p, n) == SubSeq(s, p + 1, p + n)

-----------------------------------------------------------------------------
(* The source, and xd3_getblk.                                             *)

blksize  == input.blksize
lru_size == input.max_winsize \div blksize
BlockLen(b) == Greater(0, Lesser(blksize, Len(input.src) - b * blksize))
source_eof(s) == s.max_blkno * blksize + s.onlastblk
bytes_on_srcblk(s, b) == IF b = s.max_blkno THEN s.onlastblk ELSE blksize

Account(s, b) ==
  LET top == IF b > s.max_blkno
             THEN [s EXCEPT !.max_blkno = b, !.eof_known = @ \/ s.onblk # blksize]
             ELSE s
  IN  IF b = top.max_blkno THEN [top EXCEPT !.onlastblk = s.onblk] ELSE top

Current(b) == [source EXCEPT !.curblkno = b, !.onblk = BlockLen(b)]

\* What the call returns, and source and slots after it.  The FIFO is that of
\* main_getblk_lru over a file that can seek.
Getblk(b) ==
  LET slot == b % lru_size
  IN  IF b = source.curblkno
      THEN [ret |-> "ok", source |-> Account(source, b), slots |-> slots]
      ELSE IF ~ input.fifo
      THEN [ret |-> "XD3_GETSRCBLK", source |-> [source EXCEPT !.getblkno = b],
            slots |-> slots]
      ELSE IF slots[slot] > b
      THEN [ret |-> "XD3_TOOFARBACK", source |-> [source EXCEPT !.getblkno = b],
            slots |-> slots]
      ELSE [ret |-> "ok", source |-> Account([Current(b) EXCEPT !.getblkno = b], b),
            slots |-> [slots EXCEPT ![slot] = b]]

Use(g) == source' = g.source /\ slots' = g.slots
Asks(g) == g.ret = "XD3_GETSRCBLK" /\ at' = "asks"

\* The client answers, and calls xd3_encode_input again.
Provide ==
  /\ at = "asks"
  /\ source' = Current(source.getblkno)
  /\ at' = "enter"
  /\ UNCHANGED <<vars, slots, matcher>>

-----------------------------------------------------------------------------
(* The loop of xd3_string_match.                                           *)

LargeFits(p) == HasSource /\ p + LargeLook <= avail_in

\* After Restart, and after HandleLazy.
Restarted == at' = IF enc_state' = "LOOP" /\ LargeFits(input_position')
                   THEN "restart" ELSE "top"
Lazy(mlen) == mlen < input.max_lazy /\ input_position + mlen <= avail_in - 2
Handled(mlen) == IF Lazy(mlen) THEN at' = "top" ELSE Restarted

\* xd3_string_match_init; the tables are allocated by the first call.
NoTable == [h \in {} |-> 0]
Put(t, h, p) == [x \in DOMAIN t \cup {h} |-> IF x = h THEN p ELSE t[x]]
MatchInit(s) == IF ~ s.allocated THEN [s EXCEPT !.allocated = TRUE]
                ELSE IF s.reset THEN [s EXCEPT !.reset = FALSE, !.table = NoTable]
                ELSE s

\* A call of xd3_string_match at position p.
StringMatch(p, e) ==
  /\ Restart(p, e) /\ Restarted
  /\ small' = IF p + SmallLook <= avail_in THEN MatchInit(small) ELSE small
  /\ index' = [index EXCEPT !.next_move_point = 0]

TakeRun ==
  /\ at = "top" /\ RunFound /\ Handled(RunLength)
  /\ UNCHANGED <<blocks, matcher>>

NoRun ==
  /\ at = "top" /\ enc_state = "LOOP" /\ ~ RunHere
  /\ at' = IF ~ LargeFits(input_position) THEN "small"
           ELSE IF input_position >= index.next_move_point THEN "move" ELSE "large"
  /\ UNCHANGED <<vars, blocks, matcher>>

-----------------------------------------------------------------------------
(* xd3_srcwin_move_point                                                   *)

absolute_input_pos == total_in + input_position
WindowEnd ==
  IF absolute_input_pos < input.max_winsize \div 2 THEN input.max_winsize
  ELSE LET ahead == absolute_input_pos + input.max_winsize \div 2 + 2 * blksize
       IN  ahead - (ahead % blksize)

Then == IF at = "restart" THEN "top" ELSE "large"
AllIndexed == source.eof_known /\ index.srcwin_cksum_pos = source_eof(source)

\* Where a call goes on.  A slip: blocks that a match has been through already
\* are indexed.
IndexFromLast == index.srcwin_cksum_pos
IndexFrom == Greater(index.srcwin_cksum_pos, index.maxsrcaddr)

MoveStart ==
  /\ at \in {"restart", "move"}
  /\ IF AllIndexed
     THEN index' = [index EXCEPT !.next_move_point = Never] /\ at' = Then
     ELSE /\ index' = [index EXCEPT !.srcwin_cksum_pos = IndexFrom, !.then = Then,
                                    !.target = Greater(WindowEnd, IndexFrom)]
          /\ at' = "indexing"
  /\ UNCHANGED <<vars, blocks, extent, small>>

MoreToIndex == /\ index.srcwin_cksum_pos < index.target
               /\ source.eof_known => index.srcwin_cksum_pos < source_eof(source)

\* The checksums of block b, from its end backward: the first one always.
Insert(t, s, b, oldpos) ==
  LET last == bytes_on_srcblk(s, b) - LargeLook
      n    == IF last < oldpos THEN 1 ELSE 1 + (last - oldpos) \div LargeStep
      after[k \in 0 .. n] ==
        IF k = 0 THEN t
        ELSE LET p == b * blksize + last - (k - 1) * LargeStep
             IN  Put(after[k - 1], LargeHash(Bytes(input.src, p, LargeLook)), p)
  IN  after[n]

IndexBlock ==
  /\ at = "indexing" /\ MoreToIndex
  /\ LET b == index.srcwin_cksum_pos \div blksize
         g == Getblk(b)
         table == IF bytes_on_srcblk(g.source, b) < LargeLook THEN index.large_table
                  ELSE Insert(index.large_table, g.source, b,
                              index.srcwin_cksum_pos % blksize)
     IN  /\ Use(g)
         /\ \/ Asks(g) /\ UNCHANGED index
            \/ g.ret = "XD3_TOOFARBACK" /\ at' = "XD3_INTERNAL" /\ UNCHANGED index
            \/ /\ g.ret = "ok" /\ UNCHANGED at
               /\ index' = [index EXCEPT !.large_table = table,
                                         !.srcwin_cksum_pos = (b + 1) * blksize]
  /\ UNCHANGED <<vars, extent, small>>

\* A slip: the position is left at the end of the last block.
EndOfIndexBlock(size) == index.srcwin_cksum_pos
EndOfIndex(size) == size

MoveEnd ==
  /\ at = "indexing" /\ ~ MoreToIndex
  /\ LET size == source_eof(source)
         done == source.eof_known /\ index.srcwin_cksum_pos >= size
     IN  index' = IF done
                  THEN [index EXCEPT !.srcwin_cksum_pos = EndOfIndex(size),
                                     !.next_move_point = Never]
                  ELSE [index EXCEPT !.next_move_point =
                          input_position + blksize
                            - ((index.srcwin_cksum_pos - index.target) % blksize)]
  /\ at' = index.then
  /\ UNCHANGED <<vars, blocks, extent, small>>

-----------------------------------------------------------------------------
(* xd3_source_match_setup                                                  *)

TooFar(srcpos) == index.srcwin_cksum_pos - srcpos > input.max_winsize
Outside(srcpos) ==
  iopt.srcwin.decided /\ srcpos \notin iopt.srcwin.srcbase ..
                                       iopt.srcwin.srcbase + iopt.srcwin.srclen
\* A slip: a position is tried again after it has been found to be too short.
SetupFailsForgetful(srcpos) == TooFar(srcpos) \/ Outside(srcpos)
SetupFails(srcpos) == Rejected(srcpos) \/ TooFar(srcpos) \/ Outside(srcpos)

NoExtent(caller) == [maxback |-> 0, maxfwd |-> 0, back |-> 0, fwd |-> 0, caller |-> caller]

Extent(srcpos, caller) ==
  LET w    == iopt.srcwin
      fwd  == avail_in - input_position
  IN  [NoExtent(caller) EXCEPT
         !.maxback = Lesser(BackRoom, srcpos - SrcFrom),
         !.maxfwd = IF w.decided THEN Lesser(fwd, w.srcbase + w.srclen - srcpos)
                    ELSE IF source.eof_known THEN Lesser(fwd, source_eof(source) - srcpos)
                    ELSE fwd]

\* The large table at the input position.
LookUp ==
  /\ at = "large"
  /\ LET h == LargeHash(Bytes(input.tgt, absolute_input_pos, LargeLook))
     IN  \/ /\ h \notin DOMAIN index.large_table
            /\ at' = "small" /\ UNCHANGED <<match, extent>>
         \/ /\ h \in DOMAIN index.large_table
            /\ LET srcpos == index.large_table[h]
               IN  IF SetupFails(srcpos)
                   THEN /\ match' = Searching(srcpos) /\ at' = "small"
                        /\ extent' = NoExtent("string_match")
                   ELSE /\ match' = [state |-> "MATCH_BACKWARD", srcpos |-> srcpos,
                                     last |-> srcpos]
                        /\ extent' = Extent(srcpos, "string_match") /\ at' = "extend"
  /\ UNCHANGED <<input, enc_state, total_in, avail_in, input_position, min_match, run,
                 iopt, blocks, index, small>>

-----------------------------------------------------------------------------
(* ENC_SEARCH, entered again after every return.                           *)

Enter ==
  /\ at = "enter" /\ enc_state \in {"ENC_SEARCH", "LOOP"}
  /\ IF ~ HasSource \/ match.state = "MATCH_SEARCHING"
     THEN StringMatch(input_position, iopt) /\ UNCHANGED <<match, extent>>
     ELSE /\ at' = "extend"
          /\ IF match.state = "MATCH_TARGET"
             THEN /\ extent' = IF SetupFails(match.srcpos) THEN NoExtent("encode_input")
                               ELSE Extent(match.srcpos, "encode_input")
                  /\ match' = [match EXCEPT !.state = "MATCH_FORWARD",
                                            !.last = match.srcpos]
             ELSE /\ extent' = [extent EXCEPT !.caller = "encode_input"]
                  /\ UNCHANGED match
          /\ UNCHANGED <<enc_state, input_position, min_match, run, index, small>>
  /\ UNCHANGED <<input, total_in, avail_in, iopt, blocks>>

-----------------------------------------------------------------------------
(* xd3_source_extend_match                                                 *)

searchState == <<input, enc_state, total_in, avail_in, input_position, min_match,
                 run, iopt>>
Forwards(m) == [m EXCEPT !.state = "MATCH_FORWARD"]

\* The block to the left of an offset, and how much of it.
BackwardFrom(off) ==
  IF off % blksize = 0 THEN [blk |-> off \div blksize - 1, off |-> blksize]
  ELSE [blk |-> off \div blksize, off |-> off % blksize]

ExtendBackward ==
  /\ at = "extend" /\ match.state = "MATCH_BACKWARD"
  /\ LET left == match.srcpos - extent.back
         try  == BackwardFrom(left)
         g    == Getblk(try.blk)
         rem  == Lesser(try.off, extent.maxback - extent.back)
         n    == Backward(input.src, g.source.curblkno * blksize + try.off,
                         input_position - extent.back, rem)
     IN  IF extent.back >= extent.maxback
         THEN match' = Forwards(match) /\ UNCHANGED <<at, extent, blocks>>
         ELSE /\ Use(g)
              /\ \/ Asks(g) /\ UNCHANGED <<match, extent>>
                 \/ /\ g.ret = "XD3_TOOFARBACK" /\ UNCHANGED extent
                    /\ IF extent.back = 0 THEN at' = "extended" /\ UNCHANGED match
                       ELSE match' = Forwards(match) /\ UNCHANGED at
                 \/ /\ g.ret = "ok" /\ UNCHANGED at
                    /\ extent' = [extent EXCEPT !.back = @ + n]
                    /\ match' = IF n < rem THEN Forwards(match) ELSE match
  /\ UNCHANGED <<searchState, index, small>>

\* A slip: the part of the match in the blocks before is counted again.
ForwardCountTwice(n) == extent.fwd + n + (IF extent.fwd > 0 THEN 1 ELSE 0)
ForwardCount(n) == extent.fwd + n

\* A slip: a match ends with the block.
StopsHereAtBlock(n, rem) == n <= rem
StopsHere(n, rem) == n < rem \/ rem = 0

ExtendForward ==
  /\ at = "extend" /\ match.state = "MATCH_FORWARD"
  /\ LET right == match.srcpos + extent.fwd
         g   == Getblk(right \div blksize)
         rem == Lesser(extent.maxfwd - extent.fwd, g.source.onblk - (right % blksize))
         n   == Forward(input.src, g.source.curblkno * blksize + (right % blksize),
                        input_position + extent.fwd, rem)
     IN  IF extent.fwd >= extent.maxfwd
         THEN at' = "extended" /\ UNCHANGED <<extent, blocks>>
         ELSE /\ Use(g)
              /\ \/ Asks(g) /\ UNCHANGED extent
                 \/ g.ret = "XD3_TOOFARBACK" /\ at' = "extended" /\ UNCHANGED extent
                 \/ /\ g.ret = "ok" /\ extent' = [extent EXCEPT !.fwd = ForwardCount(n)]
                    /\ at' = IF StopsHere(n, rem) THEN "extended" ELSE "extend"
  /\ UNCHANGED <<searchState, match, index, small>>

\* donefwd.  In a call that was entered again there is no lazy matching.
Extension == [srcpos |-> match.srcpos, back |-> extent.back, fwd |-> extent.fwd]
Reentered == extent.caller = "encode_input"
TooShort == extent.fwd < min_match

Extend ==
  /\ at = "extended" /\ TooShort
  /\ match' = Searching(match.last) /\ extent' = [extent EXCEPT !.fwd = 0]
  /\ IF Reentered THEN StringMatch(input_position, iopt)
     ELSE at' = "small" /\ UNCHANGED <<enc_state, input_position, min_match, run, index, small>>
  /\ UNCHANGED <<input, total_in, avail_in, iopt, blocks>>

TakeSource ==
  /\ at = "extended" /\ ~ TooShort
  /\ SourceTaken(Extension) /\ extent' = [extent EXCEPT !.back = 0]
  /\ LET far == Greater(index.maxsrcaddr, match.srcpos + extent.fwd)
     IN  IF Reentered
         THEN /\ Restart(input_position + extent.fwd, iopt') /\ Restarted
              /\ index' = [index EXCEPT !.maxsrcaddr = far, !.next_move_point = 0]
              /\ small' = IF input_position + extent.fwd + SmallLook <= avail_in
                          THEN MatchInit(small) ELSE small
         ELSE /\ HandleLazy([run EXCEPT !.l = RunLength], extent.fwd, iopt')
              /\ Handled(extent.fwd)
              /\ index' = [index EXCEPT !.maxsrcaddr = far] /\ UNCHANGED small
  /\ UNCHANGED <<input, total_in, avail_in, blocks>>

-----------------------------------------------------------------------------
(* xd3_smatch and xd3_scksum_insert                                        *)

\* One candidate of the chain.
TryBase(q) ==
  LET len  == Forward(input.tgt, total_in + q.base, input_position,
                      avail_in - input_position)
      best == IF len > q.len THEN [q EXCEPT !.len = len, !.offset = q.base] ELSE q
      full == len > q.len /\ (input_position + len = avail_in \/ len >= LongEnough)
      prev == small.prev[q.base % SprevSize]
  IN  IF q.done THEN q
      ELSE IF full \/ prev = None \/ prev > q.base \/ input_position - prev >= SprevSize
      THEN [best EXCEPT !.done = TRUE]
      ELSE [best EXCEPT !.base = prev]

Smatch(base) ==
  LET chain == IF min_match = MIN_MATCH THEN SmallChain ELSE SmallLChain
      after[k \in 0 .. chain] ==
        IF k = 0 THEN [base |-> base, len |-> 0, offset |-> base, done |-> FALSE]
        ELSE TryBase(after[k - 1])
      q == after[chain]
      far == input_position - q.offset
  IN  IF (q.len = 4 /\ far >= Far4) \/ (q.len = 5 /\ far >= Far5)
      THEN [q EXCEPT !.len = 0] ELSE q

sinx == SmallHash(Bytes(input.tgt, absolute_input_pos, SmallLook))
SmallBase == IF sinx \in DOMAIN small.table THEN small.table[sinx] ELSE None

SmallInsert(s) ==
  [s EXCEPT !.prev[input_position % SprevSize] = SmallBase,
            !.table = Put(@, sinx, input_position)]

TrySmall ==
  /\ at = "small"
  /\ small' = SmallInsert(small)
  /\ LET q == IF SmallBase = None THEN [len |-> 0] ELSE Smatch(SmallBase)
         r == [run EXCEPT !.l = RunLength]
     IN  IF q.len >= min_match
         THEN /\ iopt' = FoundMatch(iopt, [type |-> CPY, pos |-> input_position,
                                           size |-> q.len, addr |-> q.offset, xtra |-> 0])
              /\ HandleLazy(r, q.len, iopt') /\ Handled(q.len)
         ELSE /\ UpdateOne(r, Greater(MIN_MATCH, min_match - 1)) /\ at' = "top"
              /\ UNCHANGED iopt
  /\ UNCHANGED <<input, total_in, avail_in, match, blocks, index, extent>>

-----------------------------------------------------------------------------
MatchEnd ==
  /\ at = "top" /\ Instr
  /\ UNCHANGED <<at, blocks, matcher>>
MatchNextWindow ==
  /\ NextWindow
  /\ at' = "enter" /\ small' = [small EXCEPT !.reset = TRUE]
  /\ UNCHANGED <<blocks, index, extent>>

MatchInitState ==
  /\ Init /\ at = "enter"
  /\ LET size == Len(input.src)
     IN  source = [curblkno |-> None, onblk |-> 0, getblkno |-> 0,
                   max_blkno |-> IF input.eof_known THEN size \div blksize ELSE 0,
                   onlastblk |-> IF input.eof_known THEN size % blksize ELSE 0,
                   eof_known |-> input.eof_known]
  /\ slots = [k \in 0 .. lru_size - 1 |-> None]
  /\ index = [large_table |-> NoTable, srcwin_cksum_pos |-> 0, maxsrcaddr |-> 0,
              target |-> 0, then |-> "top", next_move_point |-> 0]
  /\ extent = NoExtent("encode_input")
  /\ small = [table |-> NoTable, prev |-> [k \in 0 .. SprevSize - 1 |-> None],
              allocated |-> FALSE, reset |-> FALSE]

MatchNext ==
  \/ Provide \/ Enter \/ TakeRun \/ NoRun \/ MoveStart \/ IndexBlock \/ MoveEnd
  \/ LookUp \/ ExtendBackward \/ ExtendForward \/ Extend \/ TakeSource \/ TrySmall
  \/ MatchEnd \/ MatchNextWindow

Done == enc_state = "ENC_FLUSH" /\ total_in + avail_in = Len(input.tgt)

\* The source is read forward only: the index never needs a block the FIFO has
\* given up ("TOOFARBACK should never occur here").
NeverInternal == at # "XD3_INTERNAL"

\* The client goes on until the file is encoded, or the encoder has failed (weak
\* fairness of MatchNext, without ENABLED).
Fairness == []<>(Done \/ ~ NeverInternal) \/ []<><<MatchNext>>_allVars
MatchSpec == MatchInitState /\ [][MatchNext]_allVars /\ Fairness

-----------------------------------------------------------------------------
(* Properties.                                                             *)

\* The encoder comes to the end of the file although it starts its search again
\* after every block it has to ask for.
MatchTerminates == <>Done

\* A source match that is found in pieces is what one found at once would be.
\* While the encoder waits for a block, the part it remembers is true on both
\* sides, so the search goes on at the right byte of the right block; and without
\* a limit (of the window, of the FIFO) the match ends where the bytes differ.
SourceMatchMaximal ==
  /\ at \in {"extend", "asks", "extended"} /\ match.state \in {"MATCH_BACKWARD", "MATCH_FORWARD"} =>
       /\ \A k \in 1 .. extent.back :
            Src(match.srcpos - k) = Tgt(input_position - k)
       /\ \A k \in 0 .. extent.fwd - 1 :
            match.srcpos + k < Len(input.src) /\ Src(match.srcpos + k) = Tgt(input_position + k)
       /\ extent.back <= input_position - iopt.unencoded_offset
  /\ enc_state = "LOOP" /\ ~ input.fifo /\ input.iopt_size = 0 =>
       \A k \in 1 .. Len(iopt.used) :
         LET i == iopt.used[k]
         IN  i.xtra = 1 /\ i.type = CPY =>
               /\ \/ EndOf(i) = avail_in \/ i.addr + i.size = Len(input.src)
                  \/ Src(i.addr + i.size) # Tgt(EndOf(i))
               /\ \/ i.pos = 0 \/ i.addr = 0 \/ Src(i.addr - 1) # Tgt(i.pos - 1)

\* The index holds positions of the source, whole look-ups of which the table was
\* told; indexing stays within the source once its end is known (asserted at the
\* beginning of xd3_srcwin_move_point).  Positions of the small table lie in this
\* window, before the input (asserted in xd3_smatch), although the search at a
\* position may begin several times and the tables are kept over windows.
IndexTrue ==
  /\ \A h \in DOMAIN index.large_table :
       LET p == index.large_table[h]
       IN  /\ p >= 0 /\ p + LargeLook <= Len(input.src)
           /\ LargeHash(Bytes(input.src, p, LargeLook)) = h
  /\ at \in {"restart", "move"} /\ source.eof_known =>
       index.srcwin_cksum_pos <= source_eof(source)
  /\ at = "small" => \A h \in DOMAIN small.table : small.table[h] < input_position
=============================================================================

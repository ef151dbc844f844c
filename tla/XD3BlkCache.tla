---------------------------- MODULE XD3BlkCache ----------------------------
(***************************************************************************)
(* The source blocks of the command line tool (xdelta3-blkcache.h) and     *)
(* xd3_getblk of xdelta3.c, which calls it: main_set_source reads as much  *)
(* of the source as may stay in memory and, if there is more, splits the   *)
(* buffer into blocks; main_getblk_func finds a block in one of them or    *)
(* reads it over another.  The blocks are replaced either least recently   *)
(* used first, or, when encoding and when the size is unknown, as a FIFO   *)
(* in which block b can only be in slot b % lru_size.  A source that       *)
(* cannot seek is read forward through the cache.                          *)
(*                                                                         *)
(* A byte of the source is identified with its position in the file.  One  *)
(* read of the file is a step of its own, in which it may fail.            *)
(***************************************************************************)
EXTENDS Integers, SequencesExt

CONSTANTS
  MaxLruSize,   \* MAX_LRU_SIZE, 32
  Files,        \* the kinds of source: see below
  MaxBlkno      \* bound on the blocks that are asked for

(* A source: its length; the size fstat tells, or NoSize for a file that   *)
(* is not regular; whether it turns out compressed at the first read, so   *)
(* that what is read comes from a pipe; how it seeks; whether reads may    *)
(* fail; option_srcwinsz (-B); and whether it is read by the encoder.      *)
NoSize == -1
Kinds == [len : Nat, stat : Nat \cup {NoSize}, compressed : BOOLEAN,
          seek : {"always", "never", "maybe"}, faults : BOOLEAN,
          srcwinsz : Nat, encode : BOOLEAN]

ASSUME BlkCacheAssumption ==
  /\ MaxLruSize \in Nat \ {0} /\ MaxBlkno \in Nat
  /\ \A f \in Files :
       /\ f \in Kinds
       /\ f.srcwinsz > 0 /\ f.srcwinsz % MaxLruSize = 0
       /\ f.stat # NoSize /\ ~ f.compressed => f.stat = f.len
       /\ f.compressed => f.seek = "never"

VARIABLES
  file,         \* the source
  sfile,        \* main_file: source_position, seek_failed, size_known, and the
                \* offset of the descriptor
  lru,          \* the slots: the block each holds, its size and its bytes
  lru_list,     \* the slots, least recently used first
  do_src_fifo,
  src,          \* xd3_source, with the slot that curblk points into
  call,         \* the call of main_getblk_func in progress
  ret,          \* what the last call returned
  recent        \* history: the blocks the cache was asked for,
                \* (LRU), the last lru_size of them, the last one last

vars == <<file, sfile, lru, lru_list, do_src_fifo, src, call, ret, recent>>

INVALID == -1     \* XD3_INVALID_OFFSET
Nowhere == -1     \* no slot
Idle    == [pc |-> "idle", blkno |-> 0, slot |-> Nowhere]
Lesser(a, b) == IF a < b THEN a ELSE b
Greater(a, b) == IF a < b THEN b ELSE a

Span(from, n) == [k \in 1 .. n |-> from + k - 1]
lru_size == Cardinality(DOMAIN lru)
pos      == call.blkno * src.blksize

-----------------------------------------------------------------------------
(* xd3_getblk, apart from the call to main_getblk_func.                    *)

\* The bookkeeping of a block that is in memory: max_blkno, eof_known, onlastblk.
\* A slip: leaves onlastblk as it was.
AccountFull(s, b) ==
  IF b > s.max_blkno
  THEN [s EXCEPT !.max_blkno = b, !.eof_known = @ \/ s.onblk # s.blksize]
  ELSE s
Account(s, b) ==
  LET top == IF b > s.max_blkno
             THEN [s EXCEPT !.max_blkno = b,
                            !.eof_known = @ \/ s.onblk # s.blksize]
             ELSE s
  IN  IF b = top.max_blkno THEN [top EXCEPT !.onlastblk = s.onblk] ELSE top

Remembered(b) ==
  LET all == Append(RemoveFirst(recent, b), b)
  IN  IF do_src_fifo THEN <<>>
      ELSE SubSeq(all, Greater(1, Len(all) - lru_size + 1), Len(all))

\* The call returns block b in the given slot.
GotBlock(b, slot, size) ==
  /\ src' = Account([src EXCEPT !.curblkno = b, !.curblk = slot, !.onblk = size], b)
  /\ recent' = Remembered(b)
  /\ ret' = "ok" /\ call' = Idle

Fail(r) == ret' = r /\ call' = Idle /\ UNCHANGED <<src, recent>>

-----------------------------------------------------------------------------
(* main_set_source                                                         *)

Init ==
  /\ file \in Files
  /\ sfile = [source_position |-> 0, offset |-> 0, seek_failed |-> FALSE,
              size_known |-> FALSE]
  /\ lru = [i \in {0} |-> [blkno |-> INVALID, size |-> 0, blk |-> <<>>]]
  /\ lru_list = <<0>>
  /\ do_src_fifo = file.encode
  /\ src = [blksize |-> file.srcwinsz, curblkno |-> INVALID, curblk |-> Nowhere,
            onblk |-> 0, max_blkno |-> 0, onlastblk |-> 0, eof_known |-> FALSE]
  /\ call = [Idle EXCEPT !.pc = "open"] /\ ret = "ok" /\ recent = <<>>

\* The slots when n bytes have been read into the buffer.
OneBlock(n) == [i \in {0} |-> [blkno |-> 0, size |-> n, blk |-> Span(0, n)]]
SplitBlocks(blksize) ==
  [i \in 0 .. MaxLruSize - 1 |->
     [blkno |-> i, size |-> blksize, blk |-> Span(i * blksize, blksize)]]

\* xd3_set_source_and_size
WithSize(s, size) ==
  [s EXCEPT !.eof_known = TRUE, !.max_blkno = size \div s.blksize,
            !.onlastblk = size % s.blksize]

\* The whole of main_set_source, when the first read (of block 0, which is as
\* large as the window) gives n bytes.
SetSource ==
  /\ call.pc = "open"
  /\ LET n     == Lesser(file.srcwinsz, file.len)
         stat  == file.stat # NoSize /\ ~ file.compressed
         known == stat \/ n < file.srcwinsz
         size  == IF stat THEN file.stat ELSE n
         split == ~ known \/ size > file.srcwinsz
         whole == [src EXCEPT !.curblkno = 0, !.curblk = 0, !.onblk = n]
         first == IF split
                  THEN LET b == file.srcwinsz \div MaxLruSize
                       IN  [whole EXCEPT !.blksize = b, !.onblk = b, !.onlastblk = b,
                                         !.max_blkno = MaxLruSize - 1]
                  ELSE whole
     IN  /\ sfile' = [sfile EXCEPT !.source_position = n, !.offset = n,
                                   !.size_known = known]
         /\ lru' = IF split THEN SplitBlocks(first.blksize) ELSE OneBlock(n)
         /\ lru_list' = IF split THEN Span(0, MaxLruSize) ELSE <<0>>
         /\ src' = IF known THEN WithSize(first, size) ELSE first
         /\ do_src_fifo' = (do_src_fifo \/ ~ known)
         /\ recent' = IF do_src_fifo' THEN <<>> ELSE lru_list'
  /\ call' = Idle /\ UNCHANGED <<file, ret>>

SetSourceError ==
  /\ call.pc = "open" /\ file.faults
  /\ Fail("EIO")
  /\ UNCHANGED <<file, sfile, lru, lru_list, do_src_fifo>>

-----------------------------------------------------------------------------
(* main_getblk_lru: the slot of block b, whether it holds the block, and   *)
(* the list afterwards; or no slot.                                        *)

\* A slip: the list is in the order the blocks were read.
TouchNot(s) == lru_list
Touch(s) == Append(RemoveFirst(lru_list, s), s)
Holding(b) == {s \in DOMAIN lru : lru[s].blkno = b}

FifoSlot(b) == b % lru_size
FifoRefused(b) == lru[FifoSlot(b)].blkno # INVALID /\ lru[FifoSlot(b)].blkno > b

Hit(b) == IF do_src_fifo THEN lru[FifoSlot(b)].blkno = b ELSE Holding(b) # {}
HitSlot(b) == IF do_src_fifo THEN FifoSlot(b) ELSE CHOOSE s \in Holding(b) : TRUE
Refused(b) == do_src_fifo /\ FifoRefused(b)

HitSizeKept(s) == src.onblk     \* a slip
HitSize(s) == lru[s].size
HitList(s) == IF do_src_fifo THEN lru_list ELSE Touch(s)
NewSlot(b) == IF do_src_fifo THEN FifoSlot(b) ELSE Head(lru_list)
NewList    == IF do_src_fifo THEN lru_list ELSE Append(Tail(lru_list), Head(lru_list))

\* The label of a slot that is about to be read over.
KeptLabel(b) == b
NewLabel(b)  == INVALID

-----------------------------------------------------------------------------
(* xd3_getblk(b), up to the first read: a client calls it again after      *)
(* XD3_TOOFARBACK (the encoder skips the match) but not after an error.    *)

\* Bound: at most one block beyond the last one.
Ready(b) ==
  /\ call.pc = "idle" /\ ret \in {"ok", "XD3_TOOFARBACK"}
  /\ b <= file.len \div src.blksize + 1

InMemory(b) ==
  /\ Ready(b) /\ b = src.curblkno
  /\ src' = Account(src, b) /\ ret' = "ok" /\ UNCHANGED <<call, recent>>
  /\ UNCHANGED <<file, sfile, lru, lru_list, do_src_fifo>>

GetblkHit(b) ==
  /\ Ready(b) /\ b # src.curblkno /\ Hit(b)
  /\ LET s == HitSlot(b)
     IN  GotBlock(b, s, HitSize(s)) /\ lru_list' = HitList(s)
  /\ UNCHANGED <<file, sfile, lru, do_src_fifo>>

GetblkRefused(b) ==
  /\ Ready(b) /\ b # src.curblkno /\ ~ Hit(b) /\ Refused(b)
  /\ Fail("XD3_TOOFARBACK")
  /\ UNCHANGED <<file, sfile, lru, lru_list, do_src_fifo>>

\* A slot is taken for block b.
TakeSlot(b) ==
  /\ Ready(b) /\ b # src.curblkno /\ ~ Hit(b) /\ ~ Refused(b)
  /\ lru' = [lru EXCEPT ![NewSlot(b)].blkno = NewLabel(b)]
  /\ lru_list' = NewList
  /\ UNCHANGED <<file, do_src_fifo>>

Reading(pc, b) ==
  /\ call' = [pc |-> pc, blkno |-> b, slot |-> NewSlot(b)]
  /\ UNCHANGED <<src, ret, recent>>

CanSeek   == ~ sfile.seek_failed /\ file.seek # "never"
SeekFails == sfile.seek_failed \/ file.seek # "always"

GetblkNext(b) ==
  /\ TakeSlot(b) /\ b * src.blksize = sfile.source_position
  /\ Reading("read", b) /\ UNCHANGED sfile

\* main_read_seek_source
GetblkSeek(b) ==
  /\ TakeSlot(b) /\ b * src.blksize # sfile.source_position /\ CanSeek
  /\ sfile' = [sfile EXCEPT !.source_position = b * src.blksize,
                            !.offset = b * src.blksize]
  /\ Reading("read", b)

GetblkTooFarBack(b) ==
  /\ TakeSlot(b) /\ b * src.blksize < sfile.source_position /\ SeekFails
  /\ sfile' = [sfile EXCEPT !.seek_failed = TRUE]
  /\ Fail("XD3_TOOFARBACK")

GetblkForward(b) ==
  /\ TakeSlot(b) /\ b * src.blksize > sfile.source_position /\ SeekFails
  /\ sfile' = [sfile EXCEPT !.seek_failed = TRUE]
  /\ Reading("skip", b)

-----------------------------------------------------------------------------
(* Reads.                                                                  *)

\* How many bytes a read of a block gives, and which.
Got == Lesser(src.blksize, IF file.len > sfile.offset THEN file.len - sfile.offset ELSE 0)
ReadIn == Span(sfile.offset, Got)

skip_blkno == sfile.source_position \div src.blksize

\* A slip: what is skipped goes into the slot taken for the block asked for.
SkipSlotSame == call.slot
SkipSlot == IF Hit(skip_blkno) THEN HitSlot(skip_blkno) ELSE NewSlot(skip_blkno)
SkipList == IF Hit(skip_blkno) THEN HitList(SkipSlot) ELSE NewList

\* One turn of the loop of main_read_seek_source.
SkipBlock ==
  /\ call.pc = "skip"
  /\ \/ Hit(skip_blkno) \/ ~ Refused(skip_blkno)
  /\ Got = src.blksize
  /\ lru' = [lru EXCEPT ![SkipSlot] = [blkno |-> skip_blkno, size |-> Got,
                                       blk |-> ReadIn]]
  /\ lru_list' = SkipList
  /\ sfile' = [sfile EXCEPT !.source_position = @ + Got, !.offset = @ + Got]
  /\ call' = [call EXCEPT !.pc = IF sfile'.source_position < pos THEN "skip" ELSE "read"]
  /\ UNCHANGED <<file, do_src_fifo, src, ret, recent>>

\* The input is short, or cannot be read.
SkipShort ==
  /\ call.pc = "skip"
  /\ \/ Hit(skip_blkno) \/ ~ Refused(skip_blkno)
  /\ \/ /\ Got < src.blksize /\ Fail("XD3_INVALID_INPUT")
        /\ lru' = [lru EXCEPT ![SkipSlot].blkno = skip_blkno,
                              ![SkipSlot].blk = ReadIn]
        /\ sfile' = [sfile EXCEPT !.offset = @ + Got]
     \/ /\ file.faults /\ Fail("EIO")
        /\ lru' = [lru EXCEPT ![SkipSlot].blkno = skip_blkno]
        /\ UNCHANGED sfile
  /\ lru_list' = SkipList
  /\ UNCHANGED <<file, do_src_fifo>>

SkipRefused ==
  /\ call.pc = "skip" /\ ~ Hit(skip_blkno) /\ Refused(skip_blkno)
  /\ Fail("XD3_TOOFARBACK")
  /\ UNCHANGED <<file, sfile, lru, lru_list, do_src_fifo>>

\* The end of main_getblk_func.
ReadBlock ==
  /\ call.pc = "read"
  /\ lru' = [lru EXCEPT ![call.slot] = [blkno |-> call.blkno, size |-> Got,
                                        blk |-> ReadIn]]
  /\ sfile' = [sfile EXCEPT !.source_position = pos + Got, !.offset = @ + Got]
  /\ GotBlock(call.blkno, call.slot, Got)
  /\ UNCHANGED <<file, lru_list, do_src_fifo>>

ReadError ==
  /\ call.pc = "read" /\ file.faults
  /\ Fail("EIO")
  /\ UNCHANGED <<file, sfile, lru, lru_list, do_src_fifo>>

\* After an error the tool gives up.
Stopped == call.pc = "idle" /\ ret \notin {"ok", "XD3_TOOFARBACK"} /\ UNCHANGED vars

Getblk(b) == \/ InMemory(b) \/ GetblkHit(b) \/ GetblkRefused(b) \/ GetblkNext(b)
             \/ GetblkSeek(b) \/ GetblkTooFarBack(b) \/ GetblkForward(b)
Reads == SkipBlock \/ SkipShort \/ SkipRefused \/ ReadBlock \/ ReadError
Next == \/ SetSource \/ SetSourceError \/ Reads \/ Stopped
        \/ \E b \in 0 .. MaxBlkno : Getblk(b)
Spec == Init /\ [][Next]_vars

-----------------------------------------------------------------------------
(* Properties.                                                             *)

Alive == ret \in {"ok", "XD3_TOOFARBACK"}
BlockBytes(b) ==
  Span(b * src.blksize,
       IF b * src.blksize >= file.len THEN 0
       ELSE Lesser(src.blksize, file.len - b * src.blksize))

\* A slot that carries a number holds that block of the file, as long as it is
\* there, and no two carry the same: although slots are read over, the number is
\* set at other times than the bytes, and a skip may take the slot of its caller.
LabelsTrue ==
  Alive => \A s \in DOMAIN lru :
    LET b == lru[s].blkno IN
    b # INVALID => /\ SubSeq(lru[s].blk, 1, lru[s].size) = BlockBytes(b)
                   /\ \A t \in DOMAIN lru \ {s} : lru[t].blkno # b

\* Between two calls, whatever the last one returned, the block the library
\* has as its current one (and does not ask for again) is in memory, whole:
\* no slot was read over that curblk points into.  It may be when a FIFO has been
\* filled with gaps and then a seek fails for the first time.
CurrentBlockHolds ==
  Alive /\ call.pc = "idle" /\ ~ (do_src_fifo /\ file.seek = "maybe") =>
    SubSeq(lru[src.curblk].blk, 1, src.onblk) = BlockBytes(src.curblkno)

\* A source that cannot seek, with FIFO replacement, is a window of lru_size
\* blocks that moves forward: all of the last ones are in memory, also after blocks
\* were skipped and requests refused, so that exactly the older ones are refused.
WindowKept ==
  (Alive /\ call.pc = "idle" /\ do_src_fifo /\ file.seek = "never") =>
    LET newest == Max({lru[s].blkno : s \in DOMAIN lru})
    IN  \A b \in newest - lru_size + 1 .. newest : b >= 0 => Holding(b) # {}

\* The list links every slot once; and with LRU replacement and a source that can
\* seek, the last lru_size different blocks the cache was asked for are in memory.
KeepsRecent ==
  /\ Len(lru_list) = lru_size /\ Range(lru_list) = DOMAIN lru
  /\ (Alive /\ call.pc = "idle" /\ ~ do_src_fifo /\ file.seek = "always") =>
       \A k \in 1 .. Len(recent) : Holding(recent[k]) # {}

\* Once the end is known, it is where the file ends, from whichever block that
\* was learnt (for a client that does not ask for blocks beyond the end).
EofTrue ==
  Alive /\ src.eof_known /\ src.max_blkno * src.blksize <= file.len =>
    src.max_blkno * src.blksize + src.onlastblk = file.len
=============================================================================

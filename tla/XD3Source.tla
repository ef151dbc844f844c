----------------------------- MODULE XD3Source -----------------------------
(***************************************************************************)
(* The source file as the library sees it (struct _xd3_source,             *)
(* xd3_set_source, xd3_set_source_and_size and xd3_getblk of xdelta3.c,    *)
(* xd3_blksize_div and xd3_blksize_add of xdelta3.h).  The library never   *)
(* opens the file: it names the block it wants in getblkno, and the client *)
(* puts that block in curblk, its number in curblkno and its length in     *)
(* onblk.  A short block is how the library learns where the file ends.    *)
(***************************************************************************)
EXTENDS XD3Int

CONSTANTS
  Source,     \* the contents of the source file, a sequence of bytes
  BlkSize     \* blksize: a power of two in the code (shiftby, maskby)

ASSUME SourceAssumption ==
  /\ Source \in Seq(Byte)
  /\ Len(Source) < XoffMod
  /\ BlkSize \in Nat \ {0} /\ BlkSize < UsizeMod

\* The bytes of block b that exist in the file.
BlockLen(b) ==
  LET left == Len(Source) - b * BlkSize
  IN  IF b * BlkSize >= Len(Source) THEN 0
      ELSE IF left < BlkSize THEN left ELSE BlkSize

SourceState ==
  [curblkno : Xoff, onblk : 0 .. BlkSize, getblkno : Xoff,
   max_blkno : Xoff, onlastblk : 0 .. BlkSize, eof_known : BOOLEAN,
   cpyoff_blocks : Xoff, cpyoff_blkoff : 0 .. BlkSize - 1]

\* xd3_set_source, called as the Swift driver and main_set_source call it:
\* block 0 is already in the client's buffer.
SetSource ==
  [curblkno |-> 0, onblk |-> BlockLen(0), getblkno |-> 0,
   max_blkno |-> 0, onlastblk |-> 0, eof_known |-> FALSE,
   cpyoff_blocks |-> 0, cpyoff_blkoff |-> 0]

\* xd3_set_source_and_size: the size is known from the start.
SetSourceAndSize ==
  [SetSource EXCEPT !.eof_known = TRUE,
                    !.max_blkno = Len(Source) \div BlkSize,
                    !.onlastblk = Len(Source) % BlkSize]

\* xd3_blksize_div and xd3_blksize_add.  Nothing checks the addition.
BlkDiv(offset) == [blk |-> offset \div BlkSize, off |-> offset % BlkSize]
BlkAdd(blk, off, add) ==
  LET sum == UAdd(off, add)
  IN  [blk |-> (blk + sum \div BlkSize) % XoffMod, off |-> sum % BlkSize]

-----------------------------------------------------------------------------
(* xd3_getblk without a getblk callback.                                   *)

\* The block is not the one in memory: XD3_GETSRCBLK.
Missing(s, b)  == b # s.curblkno
Request(s, b)  == [s EXCEPT !.getblkno = b]

\* The client's answer to XD3_GETSRCBLK.
ProvideStale(s) == [s EXCEPT !.onblk = BlockLen(s.getblkno)]
Provide(s) == [s EXCEPT !.curblkno = s.getblkno, !.onblk = BlockLen(s.getblkno)]

\* The bookkeeping of a block that is in memory.
Account(s, b) ==
  LET top == IF b > s.max_blkno
             THEN [s EXCEPT !.max_blkno = b,
                            !.eof_known = s.eof_known \/ s.onblk # BlkSize]
             ELSE s
  IN  IF b = top.max_blkno THEN [top EXCEPT !.onlastblk = s.onblk] ELSE top

\* The byte at offset off of the block in memory.
CurByte(s, off) == Source[s.curblkno * BlkSize + off + 1]
=============================================================================

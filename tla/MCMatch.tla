------------------------------ MODULE MCMatch -------------------------------
(***************************************************************************)
(* Inputs for XD3Match.  Files are made of words that share prefixes and   *)
(* suffixes, over blocks of eight bytes, so that a match begins, ends and  *)
(* differs on either side of a block.  The block size is a power of two    *)
(* and the source window of the encoder, and of the FIFO, two blocks.      *)
(***************************************************************************)
EXTENDS XD3Match


Reading(srcs, tgts, eof, win, lazy, elts, blks) ==
  [src : srcs, tgt : tgts, eof_known : eof, winsize : {win}, iopt_size : {elts},
   max_lazy : {lazy}, greedy : {FALSE}, blksize : {8}, max_winsize : {8 * blks},
   fifo : BOOLEAN]

Words == {<<1, 1, 2, 1, 2>>, <<2, 2, 1, 1, 3>>, <<3, 1, 2, 2, 1>>, <<1, 1, 1, 1>>}
Sentences(n) == {FlattenSeq(f) : f \in [1 .. n -> Words]}
Sources == {<<1, 1, 2, 1, 2, 2, 2, 1, 1, 3, 3, 1, 2, 2, 1>>,
            <<2, 2, 1, 1, 3, 1, 1, 2, 1, 2, 3, 1, 2, 2, 1, 3, 1, 2, 2, 1,
              1, 1, 2, 1, 2, 1, 1, 2>>,
            <<1, 1, 2, 1, 2, 3>>}

\* A match within the window that is longer than the one with the source, over
\* the end of a block, that begins one byte later; and a source of six
\* blocks that is copied.
Long == <<1, 1, 2, 2, 1, 3, 1, 2, 3, 2, 2, 1, 1, 3, 2, 2, 2, 3, 1, 1, 3, 3, 1, 2,
          3, 3, 3, 2, 1, 2, 1, 3, 3, 2, 3, 1, 2, 1, 1, 1, 3, 1, 3, 2, 3, 2, 1, 1>>
Twice == LET a == <<3>> \o SubSeq(Long, 4, 10) IN a \o <<1>> \o a \o <<3, 1, 1>>

MCInputs ==
  Reading(Sources, Sentences(4), BOOLEAN, 16, 8, 0, 2)
    \cup Reading(Sources, Sentences(5), {TRUE}, 32, 3, 4, 2)
    \cup Reading({Long}, {Twice, Long \o Twice, Twice \o Long}, BOOLEAN, 80, 14, 0, 2)
    \cup Reading({Long}, {Twice, Twice \o Long}, BOOLEAN, 80, 14, 0, 4)

MCMode(i) == i.pos % CopyModes
MCLargeHash(s) == s[1] + 4 * s[2] + 16 * s[3] + 64 * s[4]
MCSmallHash(s) == s[1] + 4 * s[2] + 16 * s[3]
=============================================================================

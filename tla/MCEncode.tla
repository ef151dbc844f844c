------------------------------ MODULE MCEncode ------------------------------
(***************************************************************************)
(* Instances of XD3Encode for TLC, with the real radix, code table and     *)
(* address cache; what is written is read back as VcdiffFile defines it.   *)
(***************************************************************************)
EXTENDS XD3Encode

CONSTANT HardMaxWin

MCMagic == <<214, 195, 196, 0>>
MCAdler32(s) ==
  LET a == FoldLeft(LAMBDA x, y : (x + y) % 65521, 1, s)
      b == FoldLeft(LAMBDA x, k : (x + FoldLeft(+, 1, SubSeq(s, 1, k))) % 65521, 0,
                    [k \in 1 .. Len(s) |-> k])
  IN  <<b \div 256, b % 256, a \div 256, a % 256>>
MCCodeTable == [b \in 0 .. 255 |-> CodeTableSeq[b + 1]]

MCSource == <<1, 2, 3, 4, 1, 2, 3, 4, 5>>
Config(file, winsize, pieces, pages) ==
  [file |-> file, winsize |-> winsize, pieces |-> pieces, adler32 |-> FALSE,
   app |-> <<>>, src |-> FALSE, client |-> "feed", pages |-> pages, room |-> 0]

Plain == <<1, 2, 3, 4, 5, 6, 7, 8, 9>>
Long  == Plain \o <<9, 8, 7, 6>>
Match == <<6, 1, 2, 3, 4, 1, 2, 3, 4, 4, 4, 4, 4, 5>>

MCConfigs ==
  \* every way of cutting the input into pieces
  {Config(SubSeq(Long, 1, n), 4, 1 .. 4, 20) : n \in {0, 3, 8, 13}}
  \* windows with copies, runs and pairs; sections longer than a page; all flags
  \cup {[Config(Match, 10, {4, 10}, 20) EXCEPT !.src = s, !.adler32 = a,
                                            !.app = IF a THEN <<7, 7>> ELSE <<>>] :
         s \in BOOLEAN, a \in BOOLEAN}
  \* an allocation that fails
  \cup {[Config(Plain, 5, {5}, n) EXCEPT !.adler32 = TRUE] : n \in 0 .. 8}
  \* the other clients
  \cup {[Config(SubSeq(Plain, 1, n), 4, {3}, 20) EXCEPT !.client = c, !.room = r] :
         n \in {0, 7, 8, 9}, c \in {"memory", "careless"}, r \in {30, 100}}

-----------------------------------------------------------------------------
File == INSTANCE VcdiffFile WITH CodeTable <- MCCodeTable
Means(delta) == File!Decoded(delta, TRUE, cfg.src)

\* At the end of each window, what the client has taken is a delta file that
\* means exactly the input encoded so far: the lengths in the headers are those
\* of the sections, the pages came out in order and none from the window before,
\* and a decoder that never saw the encoder's caches reads the same instructions.
DeltaMeansInput ==
  ret = "XD3_WINFINISH" /\ closed = "open" =>
    LET m == Means(delivered)
    IN  /\ m.ending = "end" /\ Len(m.outs) = current_window + 1
        /\ FlattenSeq(m.outs) = SubSeq(cfg.file, 1, total_in)

\* A client that flushes and closes well has the whole file in its delta.
ClosedComplete ==
  (closed = "ok" /\ ret \notin Errors /\ cfg.client # "careless") =>
    FlattenSeq(Means(delivered).outs) = cfg.file
=============================================================================

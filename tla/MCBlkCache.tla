----------------------------- MODULE MCBlkCache -----------------------------
(***************************************************************************)
(* Instances of XD3BlkCache for TLC: all kinds of source, with three slots  *)
(* of two bytes.                                                           *)
(***************************************************************************)
EXTENDS XD3BlkCache

Kind(len, seek, encode) ==
  [len |-> len, stat |-> len, compressed |-> FALSE, seek |-> seek, faults |-> FALSE,
   srcwinsz |-> 6, encode |-> encode]
Pipe(len) == [Kind(len, "never", FALSE) EXCEPT !.stat = NoSize]

MCFiles ==
  \* regular files, those of up to 6 bytes as one block, and seeks that fail
  {Kind(len, "always", e) : len \in {0, 5, 6, 9}, e \in BOOLEAN}
  \cup {[Kind(9, "maybe", FALSE) EXCEPT !.faults = TRUE], Kind(13, "maybe", TRUE)}
  \* pipes
  \cup {[Pipe(len) EXCEPT !.encode = e, !.faults = e] : len \in {0, 5, 6, 10, 15}, e \in BOOLEAN}
  \* a device: not regular, but it can seek
  \cup {[Kind(len, "always", FALSE) EXCEPT !.stat = NoSize] : len \in {5, 9}}
  \* a compressed file: fstat tells another size
  \cup {[Pipe(len) EXCEPT !.stat = n, !.compressed = TRUE] : len \in {5, 9}, n \in {4, 7}}
=============================================================================

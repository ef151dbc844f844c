------------------------------- MODULE MCIopt -------------------------------
(***************************************************************************)
(* Inputs for XD3Iopt.                                                     *)
(***************************************************************************)
EXTENDS XD3Iopt

\* The shape of test_iopt_flush_instructions: every four bytes of 1, 2, 3, ...
\* occur somewhere, so that lazy matching finds a match at each position.
Steps(n)   == FlattenSeq([k \in 1 .. n |-> <<k, k + 1, k + 2, k + 3, 0>>])
Upto(n)    == [k \in 1 .. n |-> k]
\* Files encoded in windows of winsize with a buffer of iopt_size slots.
Configured(src, tgt, eof_known, winsize, iopt_size, max_lazy, greedy) ==
  [src : src, tgt : tgt, eof_known : eof_known, winsize : {winsize},
   iopt_size : {iopt_size}, max_lazy : {max_lazy}, greedy : {greedy}]

Staircases(iopt_size, max_lazy, greedy) ==
  Configured({<<>>}, {Steps(n) \o Upto(n + 3) : n \in {5, 6, 7}}, {TRUE},
             64, iopt_size, max_lazy, greedy)
  \cup UNION {Configured({Steps(n)}, {Upto(n + 3) \o Upto(5)}, BOOLEAN,
                         64, iopt_size, max_lazy, greedy) : n \in {6, 7, 8}}

\* Sentences of a few words, in any order, with and without a source.
Words    == {<<1, 1, 2, 1>>, <<2, 2, 1, 2>>}
FarApart == <<1, 1, 2, 1, 1>> \o [k \in 1 .. 24 |-> 0] \o <<2, 2, 2, 1, 2, 1>>
Dense    == <<1,1,2,1,2,2,1,2,1,2,2,2,1,1>>
Sentences(n) == {FlattenSeq(f) : f \in [1 .. n -> Words]}

\* A match far behind in the source that is found late in the window.
Late   == <<3, 3, 1, 3, 3>>
Behind == Dense \o [k \in 1 .. 24 |-> 0] \o Late

\* A buffer of six slots, which fills.
Bounded == Staircases(6, 5, FALSE)
  \cup Configured({<<>>, Dense, FarApart}, Sentences(5), BOOLEAN, 64, 6, 5, FALSE)
  \cup Configured({Behind}, {t \o Late : t \in Sentences(4)}, BOOLEAN, 64, 6, 5, FALSE)

\* A buffer that grows, and windows of twelve bytes: all short strings of two
\* letters, and longer ones of two words.
Sources == {<<>>, <<1,1,2,1,2,2,2,1,1,1,2,1>>, <<2,2,1,1,2,1,2,1,1,2,2,2,2,1>>}
Unbounded == Configured(Sources, [1 .. 12 -> {1, 2}] \cup Sentences(5), {FALSE},
                        12, 0, 9, FALSE)

\* Greedy, a match going back at most to the end of the one before: without
\* lazy matching, in both kinds of buffer.
Greedy == Staircases(6, 0, TRUE)
  \cup Configured({Dense, FarApart}, Sentences(5), BOOLEAN, 64, 6, 0, TRUE)
  \cup Configured(Sources, Sentences(5), {FALSE}, 12, 0, 0, TRUE)

Mixed == Unbounded \cup Bounded \cup Greedy

\* Fewer slots than max_lazy.
FewSlots   == Staircases(4, 5, FALSE)

MCMode(i) == i.pos % CopyModes
=============================================================================

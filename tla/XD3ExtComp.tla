------------------------------- MODULE XD3ExtComp -----------------------------
(***************************************************************************)
(* External compression in the command line tool (xdelta3-main.h): an      *)
(* input that is compressed is read through a decompressor, which gets the *)
(* file from a second child, the copier, for the tool has already read its *)
(* first block; an output that was compressed is written through a         *)
(* recompressor.  The children are joined to the tool by pipes, and        *)
(* inherit what pipe ends the tool holds when it forks.                    *)
(*                                                                         *)
(* A file is the sequence of the units 1, 2, ...; (de)compression keeps    *)
(* units.  The commands (gzip and the like) are external: filters that end *)
(* well at the end of a complete input and with an error otherwise.        *)
(***************************************************************************)
EXTENDS Integers, Sequences, FiniteSets

CONSTANTS PipeSize,   \* units a pipe holds
          Alloc,      \* XD3_ALLOCSIZE: units of the first read and of the copier
          Faults      \* kinds of errors that may happen

ASSUME ExtCompAssumption == PipeSize \in Nat \ {0} /\ Alloc \in Nat \ {0}

VARIABLES job,           \* what the tool is asked to do, and the files
          pipe, kid,     \* the pipes and the children
          ext_subprocs,  \* the children in the order they were started
          written        \* the output file, decompressed

Decomp(f) == <<f, "decomp">>
Copier(f) == <<f, "copier">>
Recomp    == <<"out", "recomp">>
Tool      == <<"xdelta3", "main">>
Filter    == {Decomp("src"), Decomp("inp"), Recomp}
Child     == Filter \cup {Copier("src"), Copier("inp")}
Pipe      == {"src", "inp", "out"} \X {"stdin", "stdout"}

Stdin(p)  == <<p[1], "stdin">>
Stdout(p) == <<p[1], "stdout">>
Running(p) == kid[p].st = "run"

NoPipe == [buf |-> <<>>, readers |-> {}, writers |-> {}]
NoKid  == [st |-> "none", hand |-> <<>>, last |-> 0, block |-> <<>>, pos |-> 0, drain |-> FALSE]
Started(hand, pos) == [NoKid EXCEPT !.st = "run", !.hand = hand, !.block = hand, !.pos = pos]

\* A block of a file, from behind pos.
Block(f, pos, n) ==
  LET end == IF pos + n < job.size[f] THEN pos + n ELSE job.size[f]
  IN  [k \in 1 .. end - pos |-> pos + k]

ExtInit ==
  /\ pipe = [q \in Pipe |-> NoPipe] /\ kid = [p \in Child |-> NoKid]
  /\ ext_subprocs = <<>> /\ written = <<>>

-----------------------------------------------------------------------------
(* Starting children.                                                      *)

Without(ps, p) ==
  [q \in Pipe |-> [ps[q] EXCEPT !.readers = @ \ {p}, !.writers = @ \ {p}]]
\* What a child inherits: the ends the tool holds, of pipes started before.
Inherited(ps, p) ==
  [q \in Pipe |-> [ps[q] EXCEPT
     !.readers = IF Tool \in @ THEN @ \cup {p} ELSE @,
     !.writers = IF Tool \in @ THEN @ \cup {p} ELSE @]]

\* main_input_decompress_setup: the decompressor keeps the one end of each pipe, the
\* copier the writing end of the first.
Decompress(f, first, pos, forks) ==
  LET i == Stdin(Decomp(f))  o == Stdout(Decomp(f))
      d == Inherited(pipe, Decomp(f))
      c == Inherited(d, Copier(f))
  IN  \/ /\ forks = 2
         /\ kid' = [kid EXCEPT ![Decomp(f)] = Started(<<>>, 0), ![Copier(f)] = Started(first, pos)]
         /\ ext_subprocs' = ext_subprocs \o <<Decomp(f), Copier(f)>>
         /\ pipe' = [c EXCEPT ![i].readers = {Decomp(f)}, ![i].writers = {Copier(f)},
                              ![o].readers = {Tool}, ![o].writers = {Decomp(f)}]
      \/ /\ forks = 1
         /\ kid' = [kid EXCEPT ![Decomp(f)] = Started(<<>>, 0)]
         /\ ext_subprocs' = Append(ext_subprocs, Decomp(f))
         /\ pipe' = [d EXCEPT ![i].readers = {Decomp(f)}, ![o].writers = {Decomp(f)}]
      \/ forks = 0 /\ UNCHANGED <<kid, ext_subprocs, pipe>>

\* main_recompress_output.
Recompress(forks) ==
  IF forks = 0 THEN UNCHANGED <<kid, ext_subprocs, pipe>>
  ELSE /\ kid' = [kid EXCEPT ![Recomp] = Started(<<>>, 0)]
       /\ ext_subprocs' = Append(ext_subprocs, Recomp)
       /\ pipe' = [Inherited(pipe, Recomp) EXCEPT
                     ![Stdin(Recomp)] = [NoPipe EXCEPT !.readers = {Recomp}, !.writers = {Tool}]]

-----------------------------------------------------------------------------
(* What children do.                                                       *)

\* The end of a process closes its ends of all pipes.
Ends(p, st, ps) == kid' = [kid EXCEPT ![p].st = st] /\ pipe' = Without(ps, p)
Broken(q) == pipe[q].readers = {}
Room(q)   == Len(pipe[q].buf) < PipeSize

\* A filter: external.
Complete(p) == p = Recomp \/ (job.packed[p[1]] /\ kid[p].last = job.size[p[1]])
Understood(p, u) == p = Recomp \/ (job.packed[p[1]] /\ u = kid[p].last + 1)
FilterTakes(p) ==
  LET q == Stdin(p)  u == Head(pipe[q].buf)
      rest == [pipe EXCEPT ![q].buf = Tail(@)]
  IN  /\ Running(p) /\ kid[p].hand = <<>> /\ pipe[q].buf # <<>>
      /\ IF Understood(p, u)
         THEN kid' = [kid EXCEPT ![p].hand = <<u>>, ![p].last = u] /\ pipe' = rest
         ELSE Ends(p, "failed", rest)
      /\ UNCHANGED <<job, ext_subprocs, written>>
FilterEnds(p) ==
  /\ Running(p) /\ kid[p].hand = <<>>
  /\ pipe[Stdin(p)].buf = <<>> /\ pipe[Stdin(p)].writers = {}
  /\ Ends(p, IF Complete(p) THEN "ok" ELSE "failed", pipe)
  /\ UNCHANGED <<job, ext_subprocs, written>>
FilterGives(p) ==
  LET q == Stdout(p) IN
  /\ Running(p) /\ kid[p].hand # <<>>
  /\ IF p = Recomp
     THEN /\ written' = written \o kid[p].hand
          /\ kid' = [kid EXCEPT ![p].hand = <<>>] /\ UNCHANGED pipe
     ELSE /\ UNCHANGED written
          /\ IF Broken(q) THEN Ends(p, "sigpipe", pipe)
             ELSE /\ Room(q) /\ kid' = [kid EXCEPT ![p].hand = <<>>]
                  /\ pipe' = [pipe EXCEPT ![q].buf = @ \o kid[p].hand]
  /\ UNCHANGED <<job, ext_subprocs>>
FilterFails(p) ==
  /\ "child" \in Faults /\ Running(p)
  /\ Ends(p, "failed", pipe)
  /\ UNCHANGED <<job, ext_subprocs, written>>

\* main_pipe_copier: a block is written unit by unit; when nobody reads it any more
\* the rest of the file is read all the same.
CopierWrites(f) ==
  LET c == Copier(f)  q == Stdin(Decomp(f)) IN
  /\ Running(c) /\ kid[c].hand # <<>>
  /\ IF Broken(q)
     THEN kid' = [kid EXCEPT ![c].hand = <<>>, ![c].drain = TRUE] /\ UNCHANGED pipe
     ELSE /\ Room(q) /\ kid' = [kid EXCEPT ![c].hand = Tail(@)]
          /\ pipe' = [pipe EXCEPT ![q].buf = Append(@, Head(kid[c].hand))]
  /\ UNCHANGED <<job, ext_subprocs, written>>
CopierReads(f) ==
  LET c == Copier(f)  k == kid[c]  b == Block(f, k.pos, Alloc) IN
  /\ Running(c) /\ k.hand = <<>>
  /\ IF Len(k.block) < Alloc /\ ~ k.drain THEN Ends(c, "ok", pipe)
     ELSE /\ kid' = [kid EXCEPT ![c].hand = b, ![c].block = b, ![c].drain = FALSE,
                                ![c].pos = @ + Len(b)]
          /\ UNCHANGED pipe
  /\ UNCHANGED <<job, ext_subprocs, written>>
\* A read that fails is not noticed: its result is positive, and the test is for a
\* negative one.  The block read before is then written once more.
CopierReadFails(f) ==
  LET c == Copier(f)  k == kid[c] IN
  /\ Running(c) /\ k.hand = <<>> /\ (Len(k.block) = Alloc \/ k.drain)
  /\ kid' = [kid EXCEPT ![c].hand = k.block, ![c].drain = FALSE]
  /\ UNCHANGED <<pipe, job, ext_subprocs, written>>

ChildStep(p) ==
  IF p \in Filter THEN FilterTakes(p) \/ FilterEnds(p) \/ FilterGives(p)
  ELSE CopierWrites(p[1]) \/ CopierReads(p[1])

-----------------------------------------------------------------------------
(* The tool and its children.                                              *)

\* main_waitpid_check: a child killed by SIGPIPE is taken to have done well.
StatusOkAny(p) == TRUE   \* a slip
StatusOk(p) == kid[p].st \in {"ok", "sigpipe"}

\* main_external_compression_cleanup, and the end of the tool: the children that
\* have not been waited for are killed.
Killed(k, from) ==
  [p \in Child |->
     IF k[p].st = "run" /\ \E j \in from .. Len(ext_subprocs) : ext_subprocs[j] = p
     THEN [k[p] EXCEPT !.st = "killed"] ELSE k[p]]
AfterKill(k, ps) ==
  [q \in Pipe |-> [ps[q] EXCEPT
     !.readers = {p \in @ : p # Tool => k[p].st = "run"},
     !.writers = {p \in @ : p # Tool => k[p].st = "run"}]]
=============================================================================

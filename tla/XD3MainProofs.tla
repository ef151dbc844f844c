----------------------------- MODULE XD3MainProofs -----------------------------
(***************************************************************************)
(* Proofs about XD3Main: the tool reports success only when all of the     *)
(* input went through the library and all of the output into the file,     *)
(* whatever children stand between them.                                   *)
(***************************************************************************)
EXTENDS XD3Main, SequenceTheorems, TLAPS

(* The inductive invariant.                                                *)

Status  == {"none", "run", "ok", "failed", "sigpipe", "killed"}
KidType == [st : Status, hand : Seq(Nat), last : Nat, block : Seq(Nat), pos : Nat,
            drain : BOOLEAN]
PipeType == [buf : Seq(Nat), readers : SUBSET (Child \cup {Tool}),
             writers : SUBSET (Child \cup {Tool})]
RdType  == [file : {"src", "inp"}, want : Nat, got : Seq(Nat), then : {"read", "again", "got"}]
LibType == [st : {"input", "work", "out", "finish", "post", "aborted"}, avail : Seq(Nat),
            part : Seq(Nat), fed : Seq(Nat), window : Nat]
Places  == {"source", "read", "reading", "failing", "got", "again", "output", "done",
            "wait", "end"}
Types ==
  /\ job \in JobType
  /\ kid \in [Child -> KidType] /\ pipe \in [Pipe -> PipeType]
  /\ ext_subprocs \in Seq(Child) /\ written \in Seq(Nat)
  /\ pc \in Places
  /\ rd \in RdType /\ lib \in LibType
  /\ pos \in [{"src", "inp"} -> Nat] /\ nread \in Nat /\ opened \in BOOLEAN
  /\ waited \in 0 .. Len(ext_subprocs)

\* s has the units after n, in order.
After(s, n) == \A k \in 1 .. Len(s) : s[k] = n + k

\* The decompressor of the input, and its output.
D  == Decomp("inp")
DQ == Stdout(D)

\* What the decompressor of the input has taken is what the tool has read, what
\* is in the pipe, and what it holds.  It ends well at the end of the file only,
\* and is not killed by SIGPIPE while the tool reads.
Decompressed ==
  /\ After(pipe[DQ].buf, pos["inp"])
  /\ After(kid[D].hand, pos["inp"] + Len(pipe[DQ].buf))
  /\ kid[D].last = pos["inp"] + Len(pipe[DQ].buf) + Len(kid[D].hand)
  /\ kid[D].st = "ok" => kid[D].hand = <<>> /\ kid[D].last = job.size["inp"]
  /\ pipe[DQ].writers = (IF Running(D) THEN {D} ELSE {})
  /\ pc \notin {"failing", "wait", "end"} =>
       Tool \in pipe[DQ].readers /\ kid[D].st \notin {"none", "sigpipe"}

Input == IF "inp" \in piped THEN "inp" \notin fresh /\ Decompressed
         ELSE /\ kid[D] = NoKid /\ pipe[DQ].buf = <<>> /\ pipe[DQ].writers = {}
              /\ pos["inp"] <= job.size["inp"]
              /\ "inp" \in fresh => pos["inp"] = 0

\* Nothing comes after what the tool has read, if the decompressor was right.
InputOver == IF "inp" \in piped
             THEN pipe[DQ].buf = <<>> /\ kid[D].st \notin {"none", "run", "sigpipe"}
             ELSE pos["inp"] = job.size["inp"]

\* What the library has been given, and what it has yet to take or to be given.
Fed ==
  LET reading == pc = "reading" /\ rd.file = "inp"
      asked   == \/ pc = "read"
                 \/ pc = "reading" /\ rd.then = "read"
                 \/ pc = "source" /\ job.cmd # "decode"
  IN  /\ After(lib.fed, 0)
      /\ asked => lib.avail = <<>> /\ Len(lib.fed) = pos["inp"]
      /\ reading \/ pc = "got" =>
           /\ lib.avail = <<>> /\ After(rd.got, Len(lib.fed))
           /\ Len(lib.fed) + Len(rd.got) = pos["inp"]
      /\ reading => rd.want = WinsizeOf
      /\ pc = "reading" => (rd.then = "got" <=> reading)
      /\ pc = "reading" /\ rd.file \notin piped => rd.got = <<>>
      /\ pc = "got" /\ Len(rd.got) # WinsizeOf => InputOver
      /\ ~ asked /\ ~ reading /\ pc \notin {"got", "failing", "end"} =>
           /\ After(lib.avail, Len(lib.fed))
           /\ Len(lib.fed) + Len(lib.avail) = pos["inp"]
           /\ nread # WinsizeOf => InputOver
      /\ pc \in {"done", "wait"} /\ job.cmd # "printhdr" => lib.avail = <<>> /\ InputOver

\* The windows whose output has been written.
Wrote == lib.window + (IF lib.st = "finish" THEN 1 ELSE 0)
RQ    == Stdin(Recomp)
Makes == job.cmd # "printhdr" /\ ~ job.noout

\* The output file holds them, with what the recompressor holds and what is in its
\* pipe.
Output ==
  /\ lib.st = "finish" => pc = "again"
  /\ Makes =>
       /\ After(written, 0)
       /\ After(kid[Recomp].hand, Len(written))
       /\ After(pipe[RQ].buf, Len(written) + Len(kid[Recomp].hand))
       /\ Len(written) + Len(kid[Recomp].hand) + Len(pipe[RQ].buf) = Wrote
       /\ pc = "wait" => opened
  /\ IF opened /\ job.recomp
     THEN /\ pc \notin {"wait", "end"} => Tool \in pipe[RQ].writers
          /\ kid[Recomp].st # "none"
     ELSE kid[Recomp] = NoKid /\ pipe[RQ].buf = <<>>
  /\ kid[Recomp].st # "sigpipe"
  /\ kid[Recomp].st = "ok" =>
       pc \in {"wait", "end"} /\ kid[Recomp].hand = <<>> /\ pipe[RQ].buf = <<>>

\* Every child is in the list until it has been waited for.
Waiting ==
  /\ \A p \in Child : kid[p].st # "none" => \E j \in 1 .. Len(ext_subprocs) : ext_subprocs[j] = p
  /\ \A j \in 1 .. waited : kid[ext_subprocs[j]].st \in {"ok", "sigpipe"}
  /\ waited # 0 => pc \in {"wait", "end"}

MainInv == /\ Types /\ Input /\ Fed /\ Output /\ Waiting /\ CompleteOnSuccess
           /\ (result # "none" <=> pc = "end")

-----------------------------------------------------------------------------
(* Units in order.                                                         *)

LEMMA AfterNothing == ASSUME NEW n PROVE After(<<>>, n)
BY DEF After

LEMMA AfterAppend ==
  ASSUME NEW s \in Seq(Nat), NEW n \in Nat, After(s, n), NEW u \in Nat, u = n + Len(s) + 1
  PROVE  /\ After(Append(s, u), n) /\ Append(s, u) \in Seq(Nat)
         /\ Len(Append(s, u)) = Len(s) + 1
BY DEF After

LEMMA AfterHead ==
  ASSUME NEW s \in Seq(Nat), NEW n \in Nat, After(s, n), s # <<>>
  PROVE  /\ Head(s) = n + 1 /\ After(Tail(s), n + 1) /\ Tail(s) \in Seq(Nat)
         /\ Len(Tail(s)) + 1 = Len(s)
<1>1. Len(s) \in Nat \ {0} /\ Head(s) = s[1] /\ Tail(s) \in Seq(Nat) /\ Len(Tail(s)) = Len(s) - 1
      /\ \A k \in 1 .. Len(Tail(s)) : Tail(s)[k] = s[k + 1]
  BY HeadTailProperties, EmptySeq
<1>. QED BY <1>1 DEF After

LEMMA AfterConcat ==
  ASSUME NEW s \in Seq(Nat), NEW t \in Seq(Nat), NEW n \in Nat,
         After(s, n), After(t, n + Len(s))
  PROVE  /\ After(s \o t, n) /\ s \o t \in Seq(Nat) /\ Len(s \o t) = Len(s) + Len(t)
<1>1. s \o t \in Seq(Nat) /\ Len(s \o t) = Len(s) + Len(t)
      /\ \A k \in 1 .. Len(s) + Len(t) :
           (s \o t)[k] = IF k <= Len(s) THEN s[k] ELSE t[k - Len(s)]
  BY ConcatProperties
<1>. QED BY <1>1 DEF After

LEMMA AfterIs ==
  ASSUME NEW s \in Seq(Nat), After(s, 0)
  PROVE  s = [k \in 1 .. Len(s) |-> k]
BY DEF After

LEMMA BlockIs ==
  ASSUME Types, NEW f \in {"src", "inp"}, NEW p \in Nat, NEW n \in Nat, p <= job.size[f]
  PROVE  /\ Block(f, p, n) \in Seq(Nat) /\ After(Block(f, p, n), p)
         /\ Len(Block(f, p, n)) = (IF p + n < job.size[f] THEN n ELSE job.size[f] - p)
<1>1. job.size[f] \in Nat
  BY DEF Types, JobType
<1>. DEFINE m == IF p + n < job.size[f] THEN n ELSE job.size[f] - p
<1>2. m \in Nat
  BY <1>1
<1>3. Block(f, p, n) = [k \in 1 .. m |-> p + k]
  BY <1>1 DEF Block
<1>. HIDE DEF m
<1>4. /\ Block(f, p, n) \in Seq(Nat) /\ Len(Block(f, p, n)) = m
      /\ \A k \in 1 .. m : Block(f, p, n)[k] = p + k
  BY <1>2, <1>3
<1>. QED BY <1>4 DEF After, m

\* The block of a child may begin behind the end of the file.
LEMMA BlockInSeq ==
  ASSUME Types, NEW f \in {"src", "inp"}, NEW p \in Nat, NEW n \in Nat
  PROVE  Block(f, p, n) \in Seq(Nat)
<1>1. job.size[f] \in Nat
  BY DEF Types, JobType
<1>. DEFINE m == (IF p + n < job.size[f] THEN p + n ELSE job.size[f]) - p
<1>2. Block(f, p, n) = [k \in 1 .. m |-> p + k]
  BY <1>1 DEF Block
<1>3. m \in Int
  BY <1>1
<1>. HIDE DEF m
<1>4. CASE m >= 0
  BY <1>2, <1>3, <1>4
<1>5. CASE m < 0
  <2>1. 1 .. m = {}
    BY <1>3, <1>5
  <2>2. Block(f, p, n) \in [1 .. 0 -> Nat]
    BY <1>2, <2>1
  <2>. QED BY <2>2, SeqDef
<1>. QED BY <1>3, <1>4, <1>5

LEMMA Names ==
  /\ D \in Child /\ D \in Filter /\ Recomp \in Child /\ Recomp \in Filter
  /\ D # Recomp /\ Tool \notin Child /\ DQ \in Pipe /\ RQ \in Pipe /\ DQ # RQ
  /\ Copier("inp") \in Child /\ Copier("src") \in Child /\ Decomp("src") \in Child
  /\ Copier("inp") \notin Filter /\ Copier("src") \notin Filter
  /\ Decomp("src") # D /\ Decomp("src") # Recomp
  /\ \A p \in Filter : /\ Stdin(p) \in Pipe /\ Stdout(p) \in Pipe /\ Stdin(p) # DQ
                       /\ (Stdin(p) = RQ <=> p = Recomp) /\ Stdout(p) # RQ
                       /\ (Stdout(p) = DQ <=> p = D)
BY DEF D, DQ, RQ, Recomp, Child, Filter, Pipe, Tool, Decomp, Copier, Stdin, Stdout

LEMMA WinsizeIs == Types => WinsizeOf \in Nat \ {0}
<1>. SUFFICES ASSUME Types PROVE WinsizeOf \in Nat \ {0}
  OBVIOUS
<1>1. job.size["inp"] \in Nat
  BY DEF Types, JobType
<1>. QED BY <1>1, MainAssumption, ExtCompAssumption DEF WinsizeOf, Lesser

-----------------------------------------------------------------------------
(* What a step leaves alone.                                               *)

Over == {"failing", "wait", "end"}

LEMMA InputKept ==
  ASSUME MainInv, job' = job, pos'["inp"] = pos["inp"],
         "inp" \in piped' <=> "inp" \in piped, "inp" \in fresh' => "inp" \in fresh,
         kid'[D].hand = kid[D].hand, kid'[D].last = kid[D].last, kid'[D].st = kid[D].st,
         kid[D] = NoKid => kid'[D] = NoKid,
         pipe'[DQ].buf = pipe[DQ].buf, pipe'[DQ].writers = pipe[DQ].writers,
         pc \in Over => pc' \in Over,
         pc' \notin Over /\ Tool \in pipe[DQ].readers => Tool \in pipe'[DQ].readers
  PROVE  Input' /\ (InputOver => InputOver')
<1>1. InputOver => InputOver'
  BY DEF InputOver
<1>2. "inp" \in piped => Decompressed'
  <2>. SUFFICES ASSUME "inp" \in piped PROVE Decompressed'
    OBVIOUS
  <2>1. Decompressed
    BY DEF MainInv, Input
  <2>2. Running(D)' <=> Running(D)
    BY DEF Running
  <2>3. pipe'[DQ].writers = (IF Running(D)' THEN {D} ELSE {})
    BY <2>1, <2>2 DEF Decompressed
  <2>4. pc' \notin {"failing", "wait", "end"} =>
          Tool \in pipe'[DQ].readers /\ kid'[D].st \notin {"none", "sigpipe"}
    BY <2>1 DEF Decompressed, Over
  <2>5. /\ After(pipe'[DQ].buf, pos'["inp"])
        /\ After(kid'[D].hand, pos'["inp"] + Len(pipe'[DQ].buf))
        /\ kid'[D].last = pos'["inp"] + Len(pipe'[DQ].buf) + Len(kid'[D].hand)
        /\ kid'[D].st = "ok" => kid'[D].hand = <<>> /\ kid'[D].last = job'.size["inp"]
    BY <2>1 DEF Decompressed
  <2>. QED BY <2>3, <2>4, <2>5 DEF Decompressed
<1>3. Input'
  BY <1>2 DEF MainInv, Input
<1>. QED BY <1>1, <1>3

LEMMA OutputKept ==
  ASSUME MainInv, job' = job, written' = written, opened' = opened, Wrote' = Wrote,
         kid'[Recomp].hand = kid[Recomp].hand, kid'[Recomp].st = kid[Recomp].st,
         kid[Recomp] = NoKid => kid'[Recomp] = NoKid,
         pipe'[RQ].buf = pipe[RQ].buf,
         lib'.st = "finish" => pc' = "again", Makes /\ pc' = "wait" => opened,
         pc \in {"wait", "end"} => pc' \in {"wait", "end"},
         pc' \notin {"wait", "end"} /\ Tool \in pipe[RQ].writers => Tool \in pipe'[RQ].writers
  PROVE  Output'
<1>1. Makes' <=> Makes
  BY DEF Makes
<1>2. Output
  BY DEF MainInv
<1>3. Makes => /\ After(written', 0)
               /\ After(kid'[Recomp].hand, Len(written'))
               /\ After(pipe'[RQ].buf, Len(written') + Len(kid'[Recomp].hand))
               /\ Len(written') + Len(kid'[Recomp].hand) + Len(pipe'[RQ].buf) = Wrote'
               /\ pc' = "wait" => opened'
  BY <1>2 DEF Output
<1>4. IF opened' /\ job'.recomp
      THEN /\ pc' \notin {"wait", "end"} => Tool \in pipe'[RQ].writers
           /\ kid'[Recomp].st # "none"
      ELSE kid'[Recomp] = NoKid /\ pipe'[RQ].buf = <<>>
  BY <1>2 DEF Output
<1>5. /\ kid'[Recomp].st # "sigpipe"
      /\ kid'[Recomp].st = "ok" =>
           pc' \in {"wait", "end"} /\ kid'[Recomp].hand = <<>> /\ pipe'[RQ].buf = <<>>
  BY <1>2 DEF Output
<1>. QED BY <1>1, <1>3, <1>4, <1>5 DEF Output

LEMMA WaitingKept ==
  ASSUME MainInv, ext_subprocs' = ext_subprocs, waited' = waited,
         waited # 0 => pc' \in {"wait", "end"},
         \A p \in Child : /\ kid'[p].st # "none" => kid[p].st # "none"
                          /\ kid[p].st \in {"ok", "sigpipe"} => kid'[p].st = kid[p].st
  PROVE  Waiting'
<1>1. Waiting /\ ext_subprocs \in Seq(Child) /\ waited \in 0 .. Len(ext_subprocs)
  BY DEF MainInv, Types
<1>2. \A j \in 1 .. waited : ext_subprocs[j] \in Child
  BY <1>1
<1>. QED BY <1>1, <1>2 DEF Waiting

-----------------------------------------------------------------------------
(* The children.                                                           *)

LEMMA RunningD ==
  ASSUME MainInv, Running(D)
  PROVE  "inp" \in piped /\ Decompressed /\ ~ InputOver
BY DEF MainInv, Input, Running, NoKid, InputOver

LEMMA RunningRecomp ==
  ASSUME MainInv, Running(Recomp)
  PROVE  opened /\ job.recomp
BY DEF MainInv, Output, Running, NoKid

\* A step of a child: what remains is its effect on the data.
LEMMA ChildKept ==
  ASSUME MainInv, NEW p \in Child, Running(p), UNCHANGED <<job, parentVars, ext_subprocs>>,
         Types', Input', InputOver => InputOver', Output',
         kid'[p].st # "none", \A x \in Child \ {p} : kid'[x] = kid[x]
  PROVE  MainInv'
<1>1. UNCHANGED <<pc, rd, pos, fresh, piped, nread, opened, lib, waited, result>>
  BY DEF parentVars
<1>2. Fed'
  <2>1. Fed
    BY DEF MainInv
  <2>2. WinsizeOf' = WinsizeOf
    BY DEF WinsizeOf
  <2>. QED BY <1>1, <2>1, <2>2 DEF Fed
<1>3. Waiting'
  <2>1. waited # 0 => pc' \in {"wait", "end"}
    BY <1>1 DEF MainInv, Waiting
  <2>2. \A x \in Child : /\ kid'[x].st # "none" => kid[x].st # "none"
                         /\ kid[x].st \in {"ok", "sigpipe"} => kid'[x].st = kid[x].st
    BY DEF Running
  <2>. QED BY <1>1, <2>1, <2>2, WaitingKept
<1>4. CompleteOnSuccess'
  <2>1. result # "success"
    BY DEF MainInv, CompleteOnSuccess, Running
  <2>. QED BY <1>1, <2>1 DEF CompleteOnSuccess
<1>5. result' # "none" <=> pc' = "end"
  BY <1>1 DEF MainInv
<1>. QED BY <1>2, <1>3, <1>4, <1>5 DEF MainInv

LEMMA WithoutIs ==
  ASSUME NEW ps \in [Pipe -> PipeType], NEW p
  PROVE  /\ Without(ps, p) \in [Pipe -> PipeType]
         /\ \A q \in Pipe : /\ Without(ps, p)[q].buf = ps[q].buf
                            /\ Without(ps, p)[q].readers = ps[q].readers \ {p}
                            /\ Without(ps, p)[q].writers = ps[q].writers \ {p}
<1>1. ASSUME NEW r \in PipeType
      PROVE  LET w == [r EXCEPT !.readers = @ \ {p}, !.writers = @ \ {p}]
             IN  /\ w \in PipeType /\ w.buf = r.buf /\ w.readers = r.readers \ {p}
                 /\ w.writers = r.writers \ {p}
  BY DEF PipeType
<1>2. \A q \in Pipe : /\ ps[q] \in PipeType
                      /\ Without(ps, p)[q] = [ps[q] EXCEPT !.readers = @ \ {p}, !.writers = @ \ {p}]
  BY DEF Without
<1>. QED BY <1>1, <1>2 DEF Without

LEMMA AfterOne == ASSUME NEW n \in Nat PROVE After(<<n + 1>>, n) /\ Len(<<n + 1>>) = 1
BY DEF After

\* The end of a child, for whatever reason.
LEMMA EndsInv ==
  ASSUME MainInv, NEW p \in Child, Running(p), NEW st \in {"ok", "failed", "sigpipe"},
         NEW ps \in [Pipe -> PipeType], ps[DQ] = pipe[DQ], ps[RQ] = pipe[RQ],
         Ends(p, st, ps), UNCHANGED <<job, parentVars, ext_subprocs, written>>,
         p = D /\ st = "ok" => kid[D].hand = <<>> /\ kid[D].last = job.size["inp"],
         p = D /\ st = "sigpipe" => Tool \notin pipe[DQ].readers,
         p = Recomp => st # "sigpipe",
         p = Recomp /\ st = "ok" =>
           kid[Recomp].hand = <<>> /\ pipe[RQ].buf = <<>> /\ Tool \notin pipe[RQ].writers
  PROVE  MainInv'
<1>1. UNCHANGED <<pc, rd, pos, fresh, piped, nread, opened, lib, waited, result>>
  BY DEF parentVars
<1>2. Types /\ kid \in [Child -> KidType] /\ kid[p] \in KidType
  BY DEF MainInv, Types
<1>3. kid' = [kid EXCEPT ![p].st = st] /\ pipe' = Without(ps, p)
  BY DEF Ends
<1>4. /\ kid' \in [Child -> KidType] /\ \A x \in Child \ {p} : kid'[x] = kid[x]
      /\ kid'[p].hand = kid[p].hand /\ kid'[p].last = kid[p].last /\ kid'[p].st = st
  <2>1. kid'[p] = [kid[p] EXCEPT !.st = st]
    BY <1>2, <1>3
  <2>2. [kid[p] EXCEPT !.st = st] \in KidType
    BY <1>2 DEF KidType, Status
  <2>3. kid' \in [Child -> KidType] /\ \A x \in Child \ {p} : kid'[x] = kid[x]
    BY <1>2, <1>3, <2>1, <2>2
  <2>4. kid'[p].hand = kid[p].hand /\ kid'[p].last = kid[p].last /\ kid'[p].st = st
    BY <1>2, <2>1 DEF KidType
  <2>. QED BY <2>3, <2>4
<1>5. /\ pipe' \in [Pipe -> PipeType]
      /\ pipe'[DQ].buf = pipe[DQ].buf /\ pipe'[RQ].buf = pipe[RQ].buf
      /\ pipe'[DQ].readers = pipe[DQ].readers \ {p}
      /\ pipe'[DQ].writers = pipe[DQ].writers \ {p}
      /\ pipe'[RQ].writers = pipe[RQ].writers \ {p}
  BY <1>3, WithoutIs, Names
<1>6. Types'
  BY <1>1, <1>2, <1>4, <1>5 DEF Types
<1>7. Tool # p /\ D \in Child /\ Recomp \in Child /\ D # Recomp
  BY Names
<1>8. Input' /\ (InputOver => InputOver')
  <2>1. CASE p = D
    <3>1. "inp" \in piped /\ Decompressed /\ ~ InputOver
      BY <2>1, RunningD
    <3>2. ~ Running(D)' /\ pipe'[DQ].writers = {}
      BY <1>4, <1>5, <2>1, <3>1 DEF Running, Decompressed
    <3>3. pc' \notin {"failing", "wait", "end"} =>
            Tool \in pipe'[DQ].readers /\ kid'[D].st \notin {"none", "sigpipe"}
      BY <1>1, <1>4, <1>5, <1>7, <2>1, <3>1 DEF Decompressed
    <3>4. Decompressed'
      BY <1>1, <1>4, <1>5, <2>1, <3>1, <3>2, <3>3 DEF Decompressed
    <3>. QED BY <1>1, <3>1, <3>4 DEF Input, MainInv
  <2>2. CASE p # D
    <3>1. kid'[D] = kid[D]
      BY <1>4, <1>7, <2>2
    <3>2. pipe'[DQ].writers = pipe[DQ].writers
      <4>1. pipe[DQ].writers \subseteq {D}
        BY DEF MainInv, Input, Decompressed
      <4>. QED BY <1>5, <2>2, <4>1
    <3>. QED BY <1>1, <1>5, <1>7, <3>1, <3>2, InputKept
  <2>. QED BY <2>1, <2>2
<1>9. Output'
  <2>0. Wrote' = Wrote /\ (Makes' <=> Makes)
    BY <1>1 DEF Wrote, Makes
  <2>1. CASE p = Recomp
    <3>1. opened /\ job.recomp
      BY <2>1, RunningRecomp
    <3>2. Output
      BY DEF MainInv
    <3>3. pc' \notin {"wait", "end"} => Tool \in pipe'[RQ].writers
      BY <1>1, <1>5, <1>7, <3>1, <3>2 DEF Output
    <3>4. kid'[Recomp].st = "ok" =>
            pc' \in {"wait", "end"} /\ kid'[Recomp].hand = <<>> /\ pipe'[RQ].buf = <<>>
      BY <1>1, <1>4, <1>5, <2>1, <3>1, <3>2 DEF Output
    <3>5. Makes => /\ After(written, 0)
                   /\ After(kid'[Recomp].hand, Len(written))
                   /\ After(pipe'[RQ].buf, Len(written) + Len(kid'[Recomp].hand))
                   /\ Len(written) + Len(kid'[Recomp].hand) + Len(pipe'[RQ].buf) = Wrote
      BY <1>4, <1>5, <2>1, <3>2 DEF Output
    <3>6. kid'[Recomp].st \notin {"none", "sigpipe"}
      BY <1>4, <2>1
    <3>7. lib'.st = "finish" => pc' = "again"
      BY <1>1, <3>2 DEF Output
    <3>. QED BY <1>1, <2>0, <3>1, <3>3, <3>4, <3>5, <3>6, <3>7 DEF Output
  <2>2. CASE p # Recomp
    <3>1. kid'[Recomp] = kid[Recomp]
      BY <1>4, <1>7, <2>2
    <3>2. lib'.st = "finish" => pc' = "again"
      BY <1>1 DEF MainInv, Output
    <3>3. Makes /\ pc' = "wait" => opened
      BY <1>1 DEF MainInv, Output
    <3>. QED BY <1>1, <1>5, <1>7, <2>0, <3>1, <3>2, <3>3, OutputKept
  <2>. QED BY <2>1, <2>2
<1>. QED BY <1>4, <1>6, <1>8, <1>9, ChildKept

LEMMA FilterTakesInv ==
  ASSUME MainInv, NEW p \in Filter, FilterTakes(p), UNCHANGED parentVars
  PROVE  MainInv'
<1>. DEFINE q == Stdin(p)
            u == Head(pipe[q].buf)
            rest == [pipe EXCEPT ![q].buf = Tail(@)]
<1>1. p \in Child /\ q \in Pipe /\ q # DQ /\ (q = RQ <=> p = Recomp) /\ DQ \in Pipe /\ RQ \in Pipe
      /\ D # Recomp /\ D \in Child /\ Recomp \in Child /\ Tool # p
  BY Names DEF Child
<1>2. /\ Running(p) /\ kid[p].hand = <<>> /\ pipe[q].buf # <<>>
      /\ UNCHANGED <<job, ext_subprocs, written>>
  BY DEF FilterTakes
<1>3. /\ UNCHANGED <<pc, rd, pos, fresh, piped, nread, opened, lib, waited, result>>
  BY DEF parentVars
<1>4. Types /\ kid \in [Child -> KidType] /\ pipe \in [Pipe -> PipeType]
  BY DEF MainInv, Types
<1>5. kid[p] \in KidType /\ pipe[q] \in PipeType /\ pipe[q].buf \in Seq(Nat)
  BY <1>1, <1>4 DEF PipeType
<1>6. u \in Nat /\ Tail(pipe[q].buf) \in Seq(Nat)
  BY <1>2, <1>5, HeadTailProperties
<1>7. /\ rest \in [Pipe -> PipeType]
      /\ rest[q].buf = Tail(pipe[q].buf) /\ \A x \in Pipe \ {q} : rest[x] = pipe[x]
      /\ rest[q].readers = pipe[q].readers /\ rest[q].writers = pipe[q].writers
  <2>1. [pipe[q] EXCEPT !.buf = Tail(@)] \in PipeType
    BY <1>5, <1>6 DEF PipeType
  <2>2. \A x \in Pipe : rest[x] = IF x = q THEN [pipe[q] EXCEPT !.buf = Tail(@)] ELSE pipe[x]
    BY <1>4
  <2>3. rest[q] = [pipe[q] EXCEPT !.buf = Tail(@)]
    BY <1>1, <2>2
  <2>4. rest \in [Pipe -> PipeType]
    BY <1>4, <2>1
  <2>. HIDE DEF rest
  <2>5. rest[q].buf = Tail(pipe[q].buf) /\ rest[q].readers = pipe[q].readers
        /\ rest[q].writers = pipe[q].writers
    BY <1>5, <2>3 DEF PipeType
  <2>. QED BY <2>2, <2>4, <2>5
<1>. HIDE DEF rest, u, q
<1>a. CASE Understood(p, u)
  <2>1. kid' = [kid EXCEPT ![p].hand = <<u>>, ![p].last = u] /\ pipe' = rest
    BY <1>a DEF FilterTakes, q, u, rest
  <2>2. /\ kid' \in [Child -> KidType] /\ \A x \in Child \ {p} : kid'[x] = kid[x]
        /\ kid'[p].hand = <<u>> /\ kid'[p].last = u /\ kid'[p].st = kid[p].st
    <3>1. kid'[p] = [kid[p] EXCEPT !.hand = <<u>>, !.last = u]
      BY <1>1, <1>4, <2>1
    <3>2. <<u>> \in Seq(Nat)
      BY <1>6
    <3>3. [kid[p] EXCEPT !.hand = <<u>>, !.last = u] \in KidType
      BY <1>5, <1>6, <3>2 DEF KidType
    <3>4. \A x \in Child \ {p} : kid'[x] = kid[x]
      BY <1>4, <2>1
    <3>5. kid' \in [Child -> KidType]
      BY <1>1, <1>4, <2>1, <3>1, <3>3
    <3>6. kid'[p].hand = <<u>> /\ kid'[p].last = u /\ kid'[p].st = kid[p].st
      BY <1>5, <3>1 DEF KidType
    <3>. QED BY <3>4, <3>5, <3>6
  <2>3. Types'
    BY <1>2, <1>3, <1>4, <1>7, <2>1, <2>2 DEF Types
  <2>4. pipe'[DQ] = pipe[DQ]
    BY <1>1, <1>7, <2>1
  <2>5. Input' /\ (InputOver => InputOver')
    <3>1. CASE p = D
      <4>1. "inp" \in piped /\ Decompressed /\ ~ InputOver
        BY <1>2, <3>1, RunningD
      <4>2. u = kid[D].last + 1 /\ kid[D].hand = <<>>
        BY <1>1, <1>2, <1>a, <3>1 DEF Understood, D, Decomp
      <4>3. kid[D].last = pos["inp"] + Len(pipe[DQ].buf) /\ pos["inp"] \in Nat
            /\ Len(pipe[DQ].buf) \in Nat
        <5>1. pipe[DQ].buf \in Seq(Nat) /\ pos["inp"] \in Nat
          BY <1>1, <1>4 DEF PipeType, Types
        <5>. QED BY <4>1, <4>2, <5>1 DEF Decompressed
      <4>4. /\ After(<<u>>, pos["inp"] + Len(pipe[DQ].buf))
            /\ u = pos["inp"] + Len(pipe[DQ].buf) + Len(<<u>>)
        BY <4>2, <4>3 DEF After
      <4>5. Running(D)' /\ Running(D) /\ kid'[D].st = "run"
        BY <1>2, <2>2, <3>1 DEF Running
      <4>6. Decompressed'
        BY <1>2, <1>3, <2>2, <2>4, <3>1, <4>1, <4>4, <4>5 DEF Decompressed
      <4>. QED BY <1>3, <4>1, <4>6 DEF Input, MainInv
    <3>2. CASE p # D
      BY <1>1, <1>2, <1>3, <2>2, <2>4, <3>2, InputKept
    <3>. QED BY <3>1, <3>2
  <2>6. Output'
    <3>1. CASE p = Recomp
      <4>1. opened /\ job.recomp /\ q = RQ
        BY <1>1, <1>2, <3>1, RunningRecomp
      <4>2. Output /\ written \in Seq(Nat) /\ kid[Recomp].hand = <<>>
        BY <1>2, <3>1 DEF MainInv, Types
      <4>3. kid'[Recomp].st = "run" /\ kid[Recomp].st = "run"
        BY <1>2, <2>2, <3>1 DEF Running
      <4>4. Makes => /\ After(kid'[Recomp].hand, Len(written))
                     /\ After(pipe'[RQ].buf, Len(written) + Len(kid'[Recomp].hand))
                     /\ Len(written) + Len(kid'[Recomp].hand) + Len(pipe'[RQ].buf) = Wrote
        <5>. SUFFICES ASSUME Makes
                      PROVE  /\ After(<<u>>, Len(written))
                             /\ After(Tail(pipe[RQ].buf), Len(written) + Len(<<u>>))
                             /\ Len(written) + Len(<<u>>) + Len(Tail(pipe[RQ].buf)) = Wrote
          BY <1>7, <2>1, <2>2, <3>1, <4>1
        <5>1. Len(written) \in Nat /\ Len(<<>>) = 0
          BY <4>2
        <5>2. /\ After(pipe[RQ].buf, Len(written))
              /\ Len(written) + Len(pipe[RQ].buf) = Wrote
          BY <4>2, <5>1, <1>5, <4>1 DEF Output
        <5>3. /\ u = Len(written) + 1 /\ After(Tail(pipe[RQ].buf), Len(written) + 1)
              /\ Len(Tail(pipe[RQ].buf)) + 1 = Len(pipe[RQ].buf)
          BY <1>2, <1>5, <4>1, <5>1, <5>2, AfterHead DEF u
        <5>4. Len(Tail(pipe[RQ].buf)) \in Nat
          BY <1>6, <4>1
        <5>5. After(<<u>>, Len(written)) /\ Len(<<u>>) = 1
          BY <5>1, <5>3, AfterOne
        <5>6. After(Tail(pipe[RQ].buf), Len(written) + Len(<<u>>))
          BY <5>3, <5>5
        <5>7. Len(written) + Len(<<u>>) + Len(Tail(pipe[RQ].buf)) = Wrote
          <6>1. PICK a \in Nat, c \in Nat : /\ a = Len(written) /\ c = Len(Tail(pipe[RQ].buf))
                                            /\ c + 1 = Len(pipe[RQ].buf)
            BY <5>1, <5>3, <5>4
          <6>2. a + (c + 1) = Wrote
            BY <5>2, <6>1
          <6>3. a + 1 + c = Wrote
            BY <6>2
          <6>. QED BY <5>5, <6>1, <6>3
        <5>. QED BY <5>5, <5>6, <5>7
      <4>5. Wrote' = Wrote /\ (Makes' <=> Makes)
        BY <1>2, <1>3 DEF Wrote, Makes
      <4>6. pipe'[RQ].writers = pipe[RQ].writers
        BY <1>7, <2>1, <4>1
      <4>. QED BY <1>2, <1>3, <4>1, <4>2, <4>3, <4>4, <4>5, <4>6 DEF Output
    <3>2. CASE p # Recomp
      <4>1. pipe'[RQ] = pipe[RQ] /\ kid'[Recomp] = kid[Recomp] /\ Wrote' = Wrote
        BY <1>1, <1>3, <1>7, <2>1, <2>2, <3>2 DEF Wrote
      <4>2. lib'.st = "finish" => pc' = "again"
        BY <1>3 DEF MainInv, Output
      <4>3. Makes /\ pc' = "wait" => opened
        BY <1>3 DEF MainInv, Output
      <4>. QED BY <1>2, <1>3, <4>1, <4>2, <4>3, OutputKept
    <3>. QED BY <3>1, <3>2
  <2>7. kid'[p].st # "none"
    BY <1>2, <2>2 DEF Running
  <2>. QED BY <1>1, <1>2, <2>2, <2>3, <2>5, <2>6, <2>7, ChildKept
<1>b. CASE ~ Understood(p, u)
  <2>1. kid' = [kid EXCEPT ![p].st = "failed"] /\ pipe' = Without(rest, p) /\ p # Recomp
    BY <1>b DEF FilterTakes, Ends, q, u, rest, Understood
  <2>2. rest[DQ] = pipe[DQ] /\ rest[RQ] = pipe[RQ]
    BY <1>1, <1>7, <2>1
  <2>. QED BY <1>1, <1>2, <1>7, <2>1, <2>2, EndsInv DEF Ends
<1>. QED BY <1>a, <1>b

LEMMA FilterEndsInv ==
  ASSUME MainInv, NEW p \in Filter, FilterEnds(p), UNCHANGED parentVars
  PROVE  MainInv'
<1>1. /\ Running(p) /\ kid[p].hand = <<>> /\ pipe[Stdin(p)].buf = <<>>
      /\ pipe[Stdin(p)].writers = {}
      /\ Ends(p, IF Complete(p) THEN "ok" ELSE "failed", pipe)
      /\ UNCHANGED <<job, ext_subprocs, written>>
  BY DEF FilterEnds
<1>2. p \in Child /\ pipe \in [Pipe -> PipeType]
  BY DEF Filter, Child, MainInv, Types
<1>. DEFINE st == IF Complete(p) THEN "ok" ELSE "failed"
<1>3. st \in {"ok", "failed"}
  OBVIOUS
<1>4. p = D /\ st = "ok" => kid[D].hand = <<>> /\ kid[D].last = job.size["inp"]
  BY <1>1, Names DEF Complete, D, Decomp
<1>5. p = Recomp => pipe[RQ].buf = <<>> /\ Tool \notin pipe[RQ].writers
  BY <1>1 DEF RQ
<1>6. Ends(p, st, pipe)
  BY <1>1
<1>. HIDE DEF st
<1>. QED BY <1>1, <1>2, <1>3, <1>4, <1>5, <1>6, EndsInv

LEMMA FilterFailsInv ==
  ASSUME MainInv, NEW p \in Filter, FilterFails(p), UNCHANGED parentVars
  PROVE  MainInv'
<1>1. p \in Child /\ pipe \in [Pipe -> PipeType]
  BY DEF Filter, Child, MainInv, Types
<1>2. /\ Running(p) /\ Ends(p, "failed", pipe) /\ UNCHANGED <<job, ext_subprocs, written>>
  BY DEF FilterFails
<1>. QED BY <1>1, <1>2, EndsInv

\* A step of a child that neither reads nor writes what is counted.
LEMMA BystanderInv ==
  ASSUME MainInv, NEW p \in Child, Running(p), p # D, p # Recomp,
         UNCHANGED <<job, parentVars, ext_subprocs, written>>,
         kid' \in [Child -> KidType], \A x \in Child \ {p} : kid'[x] = kid[x],
         kid'[p].st # "none", pipe' \in [Pipe -> PipeType],
         pipe'[DQ] = pipe[DQ], pipe'[RQ] = pipe[RQ]
  PROVE  MainInv'
<1>1. UNCHANGED <<pc, rd, pos, fresh, piped, nread, opened, lib, waited, result>>
  BY DEF parentVars
<1>2. Types'
  BY <1>1 DEF MainInv, Types
<1>3. kid'[D] = kid[D] /\ kid'[Recomp] = kid[Recomp]
  BY Names
<1>4. Input' /\ (InputOver => InputOver')
  BY <1>1, <1>3, InputKept
<1>5. Output'
  <2>1. lib'.st = "finish" => pc' = "again"
    BY <1>1 DEF MainInv, Output
  <2>2. Makes /\ pc' = "wait" => opened
    BY <1>1 DEF MainInv, Output
  <2>3. Wrote' = Wrote
    BY <1>1 DEF Wrote
  <2>. QED BY <1>1, <1>3, <2>1, <2>2, <2>3, OutputKept
<1>. QED BY <1>2, <1>4, <1>5, ChildKept

\* One end of a pipe is written.
LEMMA PipeWritten ==
  ASSUME Types, NEW q \in Pipe, NEW s \in Seq(Nat), pipe' = [pipe EXCEPT ![q].buf = s]
  PROVE  /\ pipe' \in [Pipe -> PipeType] /\ pipe'[q].buf = s
         /\ pipe'[q].readers = pipe[q].readers /\ pipe'[q].writers = pipe[q].writers
         /\ \A x \in Pipe \ {q} : pipe'[x] = pipe[x]
<1>1. pipe \in [Pipe -> PipeType] /\ pipe[q] \in PipeType
  BY DEF Types
<1>2. pipe'[q] = [pipe[q] EXCEPT !.buf = s] /\ \A x \in Pipe \ {q} : pipe'[x] = pipe[x]
  BY <1>1
<1>3. [pipe[q] EXCEPT !.buf = s] \in PipeType
  BY <1>1 DEF PipeType
<1>4. pipe' \in [Pipe -> PipeType]
  BY <1>1, <1>2, <1>3
<1>5. pipe'[q].buf = s /\ pipe'[q].readers = pipe[q].readers /\ pipe'[q].writers = pipe[q].writers
  BY <1>1, <1>2 DEF PipeType
<1>. QED BY <1>2, <1>4, <1>5

LEMMA HandEmptied ==
  ASSUME Types, NEW p \in Child, NEW s \in Seq(Nat), kid' = [kid EXCEPT ![p].hand = s]
  PROVE  /\ kid' \in [Child -> KidType] /\ \A x \in Child \ {p} : kid'[x] = kid[x]
         /\ kid'[p].hand = s /\ kid'[p].st = kid[p].st /\ kid'[p].last = kid[p].last
<1>1. kid \in [Child -> KidType] /\ kid[p] \in KidType
  BY DEF Types
<1>2. kid'[p] = [kid[p] EXCEPT !.hand = s] /\ \A x \in Child \ {p} : kid'[x] = kid[x]
  BY <1>1
<1>3. [kid[p] EXCEPT !.hand = s] \in KidType
  BY <1>1 DEF KidType
<1>4. kid' \in [Child -> KidType]
  BY <1>1, <1>2, <1>3
<1>5. kid'[p].hand = s /\ kid'[p].st = kid[p].st /\ kid'[p].last = kid[p].last
  BY <1>1, <1>2 DEF KidType
<1>. QED BY <1>2, <1>4, <1>5

LEMMA FilterGivesInv ==
  ASSUME MainInv, NEW p \in Filter, FilterGives(p), UNCHANGED parentVars
  PROVE  MainInv'
<1>1. /\ p \in Child /\ Stdout(p) \in Pipe /\ Stdout(p) # RQ /\ (Stdout(p) = DQ <=> p = D)
      /\ DQ \in Pipe /\ RQ \in Pipe /\ DQ # RQ /\ D \in Child /\ Recomp \in Child /\ D # Recomp
  BY Names DEF Child
<1>2. Running(p) /\ kid[p].hand # <<>> /\ UNCHANGED <<job, ext_subprocs>>
  BY DEF FilterGives
<1>3. UNCHANGED <<pc, rd, pos, fresh, piped, nread, opened, lib, waited, result>>
  BY DEF parentVars
<1>4. Types /\ kid[p] \in KidType /\ kid[p].hand \in Seq(Nat) /\ written \in Seq(Nat)
      /\ pipe[Stdout(p)].buf \in Seq(Nat) /\ <<>> \in Seq(Nat)
  <2>1. Types /\ kid[p] \in KidType /\ pipe[Stdout(p)] \in PipeType /\ written \in Seq(Nat)
    BY <1>1 DEF MainInv, Types
  <2>. QED BY <2>1 DEF KidType, PipeType
<1>a. CASE p = Recomp
  <2>1. /\ written' = written \o kid[p].hand
        /\ kid' = [kid EXCEPT ![p].hand = <<>>] /\ UNCHANGED pipe
    BY <1>a DEF FilterGives
  <2>2. /\ kid' \in [Child -> KidType] /\ \A x \in Child \ {p} : kid'[x] = kid[x]
        /\ kid'[p].hand = <<>> /\ kid'[p].st = kid[p].st
    BY <1>1, <1>4, <2>1, HandEmptied
  <2>3. written' \in Seq(Nat) /\ Len(written') = Len(written) + Len(kid[p].hand)
    BY <1>4, <2>1, ConcatProperties
  <2>4. Types'
    BY <1>2, <1>3, <1>4, <2>1, <2>2, <2>3 DEF Types
  <2>5. Input' /\ (InputOver => InputOver')
    BY <1>1, <1>2, <1>3, <1>a, <2>1, <2>2, InputKept
  <2>6. Output'
    <3>1. opened /\ job.recomp /\ Output
      BY <1>2, <1>a, RunningRecomp DEF MainInv
    <3>2. Makes => /\ After(written', 0)
                   /\ After(<<>>, Len(written'))
                   /\ After(pipe[RQ].buf, Len(written') + Len(<<>>))
                   /\ Len(written') + Len(<<>>) + Len(pipe[RQ].buf) = Wrote
      <4>. SUFFICES ASSUME Makes
                    PROVE  /\ After(written', 0)
                           /\ After(<<>>, Len(written'))
                           /\ After(pipe[RQ].buf, Len(written') + Len(<<>>))
                           /\ Len(written') + Len(<<>>) + Len(pipe[RQ].buf) = Wrote
        OBVIOUS
      <4>1. /\ After(written, 0) /\ After(kid[p].hand, Len(written))
            /\ After(pipe[RQ].buf, Len(written) + Len(kid[p].hand))
            /\ Len(written) + Len(kid[p].hand) + Len(pipe[RQ].buf) = Wrote
        BY <1>a, <3>1 DEF Output
      <4>2. Len(written) \in Nat /\ Len(kid[p].hand) \in Nat /\ Len(<<>>) = 0
        BY <1>4
      <4>3. After(kid[p].hand, 0 + Len(written))
        BY <4>1, <4>2
      <4>4. After(written', 0)
        BY <1>4, <2>1, <4>1, <4>3, AfterConcat
      <4>5. Len(written') + Len(<<>>) = Len(written) + Len(kid[p].hand)
        BY <2>3, <4>2
      <4>. QED BY <4>1, <4>4, <4>5, AfterNothing
    <3>3. Wrote' = Wrote /\ (Makes' <=> Makes)
      BY <1>2, <1>3 DEF Wrote, Makes
    <3>4. kid'[Recomp].st = "run"
      BY <1>2, <1>a, <2>2 DEF Running
    <3>. QED BY <1>2, <1>3, <1>a, <2>1, <2>2, <3>1, <3>2, <3>3, <3>4 DEF Output
  <2>7. kid'[p].st # "none"
    BY <1>2, <2>2 DEF Running
  <2>. QED BY <1>1, <1>2, <2>2, <2>4, <2>5, <2>6, <2>7, ChildKept
<1>b. CASE p # Recomp /\ Broken(Stdout(p))
  <2>1. Ends(p, "sigpipe", pipe) /\ UNCHANGED written
    BY <1>b DEF FilterGives
  <2>2. p = D => Tool \notin pipe[DQ].readers
    BY <1>b DEF Broken, DQ
  <2>3. pipe \in [Pipe -> PipeType]
    BY <1>4 DEF Types
  <2>. QED BY <1>1, <1>2, <1>b, <2>1, <2>2, <2>3, EndsInv
<1>c. CASE p # Recomp /\ ~ Broken(Stdout(p))
  <2>. DEFINE q == Stdout(p)
              s == pipe[q].buf \o kid[p].hand
  <2>1. /\ kid' = [kid EXCEPT ![p].hand = <<>>] /\ UNCHANGED written
        /\ pipe' = [pipe EXCEPT ![q].buf = s]
    BY <1>c DEF FilterGives
  <2>2. s \in Seq(Nat) /\ Len(s) = Len(pipe[q].buf) + Len(kid[p].hand)
    BY <1>4, ConcatProperties
  <2>3. /\ pipe' \in [Pipe -> PipeType] /\ pipe'[q].buf = s
        /\ pipe'[q].readers = pipe[q].readers /\ pipe'[q].writers = pipe[q].writers
        /\ \A x \in Pipe \ {q} : pipe'[x] = pipe[x]
    <3>. HIDE DEF s
    <3>. QED BY <1>1, <1>4, <2>1, <2>2, PipeWritten
  <2>4. /\ kid' \in [Child -> KidType] /\ \A x \in Child \ {p} : kid'[x] = kid[x]
        /\ kid'[p].hand = <<>> /\ kid'[p].st = kid[p].st /\ kid'[p].last = kid[p].last
    BY <1>1, <1>4, <2>1, HandEmptied
  <2>5. kid'[p].st = "run" /\ kid[p].st = "run"
    BY <1>2, <2>4 DEF Running
  <2>6. pipe'[RQ] = pipe[RQ]
    BY <1>1, <2>3
  <2>7. CASE p = D
    <3>1. q = DQ /\ kid'[Recomp] = kid[Recomp]
      BY <1>1, <2>4, <2>7
    <3>2. Types'
      BY <1>2, <1>3, <1>4, <2>1, <2>3, <2>4 DEF Types
    <3>3. "inp" \in piped /\ Decompressed /\ ~ InputOver
      BY <1>2, <2>7, RunningD
    <3>4. Decompressed'
      <4>1. pos["inp"] \in Nat /\ Len(pipe[DQ].buf) \in Nat /\ Len(kid[D].hand) \in Nat
            /\ Len(<<>>) = 0
        BY <1>4, <2>7, <3>1 DEF Types
      <4>2. /\ After(s, pos["inp"])
            /\ kid'[D].last = pos["inp"] + Len(s) + Len(<<>>)
        <5>1. After(s, pos["inp"])
          BY <1>4, <2>7, <3>1, <3>3, <4>1, AfterConcat DEF Decompressed
        <5>2. kid[D].last = pos["inp"] + Len(pipe[DQ].buf) + Len(kid[D].hand)
          BY <3>3 DEF Decompressed
        <5>. HIDE DEF s, q
        <5>3. /\ Len(s) = Len(pipe[DQ].buf) + Len(kid[D].hand)
              /\ kid'[D].last = kid[D].last
          BY <2>2, <2>4, <2>7, <3>1
        <5>4. pos["inp"] + Len(s) + Len(<<>>) = pos["inp"] + Len(pipe[DQ].buf) + Len(kid[D].hand)
          <6>1. PICK a \in Nat, m \in Nat, n \in Nat :
                  a = pos["inp"] /\ m = Len(pipe[DQ].buf) /\ n = Len(kid[D].hand)
            BY <4>1
          <6>2. Len(s) = m + n
            BY <5>3, <6>1
          <6>3. a + (m + n) + 0 = a + m + n
            OBVIOUS
          <6>. QED BY <4>1, <6>1, <6>2, <6>3
        <5>. QED BY <5>1, <5>2, <5>3, <5>4
      <4>3. After(<<>>, pos["inp"] + Len(s))
        BY AfterNothing
      <4>. HIDE DEF s, q
      <4>4. Running(D)' /\ Running(D)
        BY <2>5, <2>7 DEF Running
      <4>. QED BY <1>3, <2>3, <2>4, <2>5, <2>7, <3>1, <3>3, <4>2, <4>3, <4>4 DEF Decompressed
    <3>5. Input'
      BY <1>3, <3>3, <3>4 DEF Input, MainInv
    <3>6. Output'
      <4>1. lib'.st = "finish" => pc' = "again"
        BY <1>3 DEF MainInv, Output
      <4>2. Makes /\ pc' = "wait" => opened
        BY <1>3 DEF MainInv, Output
      <4>3. Wrote' = Wrote
        BY <1>3 DEF Wrote
      <4>. QED BY <1>2, <1>3, <2>1, <2>6, <3>1, <4>1, <4>2, <4>3, OutputKept
    <3>. QED BY <1>1, <1>2, <2>4, <2>5, <3>2, <3>3, <3>5, <3>6, ChildKept
  <2>8. CASE p # D
    <3>1. pipe'[DQ] = pipe[DQ]
      BY <1>1, <2>3, <2>8
    <3>. QED BY <1>1, <1>2, <1>c, <2>1, <2>3, <2>4, <2>5, <2>6, <2>8, <3>1, BystanderInv
  <2>. QED BY <2>7, <2>8
<1>. QED BY <1>a, <1>b, <1>c

LEMMA CopierWritesInv ==
  ASSUME MainInv, NEW f \in {"src", "inp"}, CopierWrites(f), UNCHANGED parentVars
  PROVE  MainInv'
<1>. DEFINE c == Copier(f)
            q == Stdin(Decomp(f))
<1>1. /\ c \in Child /\ c # D /\ c # Recomp /\ q \in Pipe /\ q # DQ /\ q # RQ
  BY Names DEF Child, Filter, Copier, Decomp, D, DQ, RQ, Recomp, Stdin, Stdout, Pipe
<1>2. Types /\ Running(c) /\ kid[c].hand # <<>> /\ UNCHANGED <<job, ext_subprocs, written>>
  BY DEF CopierWrites, MainInv
<1>3. kid \in [Child -> KidType] /\ pipe \in [Pipe -> PipeType] /\ DQ \in Pipe /\ RQ \in Pipe
  BY <1>2, Names DEF Types
<1>4. kid[c] \in KidType /\ kid[c].hand \in Seq(Nat) /\ kid[c].st = "run" /\ pipe[q].buf \in Seq(Nat)
  <2>1. kid[c] \in KidType /\ pipe[q] \in PipeType
    BY <1>1, <1>3
  <2>. QED BY <1>2, <2>1 DEF KidType, PipeType, Running
<1>a. CASE Broken(q)
  <2>1. kid' = [kid EXCEPT ![c].hand = <<>>, ![c].drain = TRUE] /\ UNCHANGED pipe
    BY <1>a DEF CopierWrites
  <2>2. kid'[c] = [kid[c] EXCEPT !.hand = <<>>, !.drain = TRUE]
    BY <1>1, <1>3, <2>1
  <2>. HIDE DEF c
  <2>3. /\ [kid[c] EXCEPT !.hand = <<>>, !.drain = TRUE] \in KidType
        /\ [kid[c] EXCEPT !.hand = <<>>, !.drain = TRUE].st = "run"
    <3>1. <<>> \in Seq(Nat)
      OBVIOUS
    <3>2. \A r \in KidType : [r EXCEPT !.hand = <<>>, !.drain = TRUE] \in KidType
      BY <3>1 DEF KidType
    <3>. QED BY <1>4, <3>2 DEF KidType
  <2>4. kid' \in [Child -> KidType] /\ \A x \in Child \ {c} : kid'[x] = kid[x]
    BY <1>1, <1>3, <2>1, <2>2, <2>3
  <2>. QED BY <1>1, <1>2, <1>3, <2>1, <2>2, <2>3, <2>4, BystanderInv
<1>b. CASE ~ Broken(q)
  <2>. DEFINE s == Append(pipe[q].buf, Head(kid[c].hand))
  <2>1. /\ kid' = [kid EXCEPT ![c].hand = Tail(kid[c].hand)]
        /\ pipe' = [pipe EXCEPT ![q].buf = s]
    BY <1>b, <1>3, <1>1 DEF CopierWrites
  <2>2. s \in Seq(Nat) /\ Tail(kid[c].hand) \in Seq(Nat)
    BY <1>2, <1>4, HeadTailProperties
  <2>. HIDE DEF s, c, q
  <2>3. /\ kid' \in [Child -> KidType] /\ \A x \in Child \ {c} : kid'[x] = kid[x]
        /\ kid'[c].st = kid[c].st
    BY <1>1, <1>2, <2>1, <2>2, HandEmptied
  <2>4. /\ pipe' \in [Pipe -> PipeType] /\ \A x \in Pipe \ {q} : pipe'[x] = pipe[x]
    BY <1>1, <1>2, <2>1, <2>2, PipeWritten
  <2>. QED BY <1>1, <1>2, <1>3, <1>4, <2>3, <2>4, BystanderInv
<1>. QED BY <1>a, <1>b

LEMMA CopierReadsInv ==
  ASSUME MainInv, NEW f \in {"src", "inp"}, CopierReads(f), UNCHANGED parentVars
  PROVE  MainInv'
<1>. DEFINE c == Copier(f)
            b == Block(f, kid[c].pos, Alloc)
<1>1. c \in Child /\ c # D /\ c # Recomp
  BY DEF Child, Copier, Decomp, D, Recomp
<1>2. /\ Types /\ Running(c) /\ kid[c].hand = <<>>
      /\ UNCHANGED <<job, ext_subprocs, written>>
  BY DEF CopierReads, MainInv
<1>3. kid \in [Child -> KidType] /\ pipe \in [Pipe -> PipeType]
  BY <1>2 DEF Types
<1>a. CASE Ends(c, "ok", pipe)
  BY <1>1, <1>2, <1>3, <1>a, EndsInv
<1>b. CASE /\ kid' = [kid EXCEPT ![c].hand = b, ![c].block = b, ![c].drain = FALSE,
                                 ![c].pos = @ + Len(b)]
           /\ UNCHANGED pipe
  <2>1. kid[c] \in KidType
    BY <1>1, <1>3
  <2>2. kid[c].st = "run" /\ kid[c].pos \in Nat
    BY <1>2, <2>1 DEF KidType, Running
  <2>3. b \in Seq(Nat) /\ Len(b) \in Nat
    <3>1. b \in Seq(Nat)
      BY <1>2, <2>2, BlockInSeq, ExtCompAssumption
    <3>. HIDE DEF b
    <3>. QED BY <3>1
  <2>. HIDE DEF b, c
  <2>. DEFINE k == [kid[c] EXCEPT !.hand = b, !.block = b, !.drain = FALSE, !.pos = @ + Len(b)]
  <2>4. k \in KidType /\ k.st = "run"
    <3>1. kid[c].pos + Len(b) \in Nat
      BY <2>2, <2>3
    <3>. QED BY <2>1, <2>2, <2>3, <3>1 DEF KidType
  <2>5. kid'[c] = k /\ \A x \in Child \ {c} : kid'[x] = kid[x]
    BY <1>1, <1>3, <1>b
  <2>. HIDE DEF k
  <2>6. kid' \in [Child -> KidType]
    BY <1>1, <1>3, <1>b, <2>4, <2>5
  <2>. QED BY <1>1, <1>2, <1>3, <1>b, <2>4, <2>5, <2>6, BystanderInv
<1>. QED BY <1>a, <1>b DEF CopierReads

LEMMA ChildrenInv ==
  ASSUME MainInv, NEW p \in Child, ChildStep(p), UNCHANGED parentVars
  PROVE  MainInv'
<1>1. CASE p \in Filter
  BY <1>1, FilterTakesInv, FilterEndsInv, FilterGivesInv DEF ChildStep
<1>2. CASE p \notin Filter
  <2>1. p[1] \in {"src", "inp"}
    BY <1>2 DEF Child, Copier
  <2>. QED BY <1>2, <2>1, CopierWritesInv, CopierReadsInv DEF ChildStep
<1>. QED BY <1>1, <1>2

-----------------------------------------------------------------------------
(* The tool.                                                               *)

\* A step of the tool, not its last: what remains is its effect on the data.
LEMMA ParentKept ==
  ASSUME MainInv, pc # "end", pc' # "end", UNCHANGED <<job, kid, ext_subprocs, waited, result>>,
         pc = "wait" => pc' = "wait", Types', Input', Output', Fed'
  PROVE  MainInv'
<1>1. result = "none"
  BY DEF MainInv
<1>2. Waiting'
  BY WaitingKept DEF MainInv, Waiting
<1>3. CompleteOnSuccess' /\ (result' # "none" <=> pc' = "end")
  BY <1>1 DEF CompleteOnSuccess
<1>. QED BY <1>2, <1>3 DEF MainInv

\* A step that leaves children, pipes and the output alone, and reads nothing.
LEMMA ParentQuiet ==
  ASSUME MainInv, pc \notin {"failing", "wait", "end"}, pc' \notin {"failing", "wait", "end"},
         UNCHANGED <<job, extVars, result, fresh, piped, opened, waited>>,
         pos'["inp"] = pos["inp"], Wrote' = Wrote, lib'.st = "finish" => pc' = "again",
         pc' \in Places, rd' \in RdType, pos' \in [{"src", "inp"} -> Nat], nread' \in Nat,
         lib' \in LibType, (InputOver => InputOver') => Fed'
  PROVE  MainInv'
<1>1. UNCHANGED <<kid, pipe, ext_subprocs, written>>
  BY DEF extVars
<1>2. Types'
  BY <1>1 DEF MainInv, Types
<1>3. Input' /\ (InputOver => InputOver')
  BY <1>1, InputKept DEF Over
<1>4. Output'
  BY <1>1, OutputKept
<1>. QED BY <1>1, <1>2, <1>3, <1>4, ParentKept

LEMMA ReadsIs ==
  ASSUME NEW f \in {"src", "inp"}, NEW n \in Nat, NEW then \in {"read", "again", "got"},
         Reads(f, n, then)
  PROVE  /\ rd' \in RdType /\ rd'.file = f /\ rd'.want = n /\ rd'.got = <<>> /\ rd'.then = then
<1>1. <<>> \in Seq(Nat)
  OBVIOUS
<1>. QED BY <1>1 DEF Reads, RdType

LEMMA SetSourceInv == MainInv /\ SetSource => MainInv'
<1>. SUFFICES ASSUME MainInv, SetSource PROVE MainInv'
  OBVIOUS
<1>1. /\ pc = "source" /\ pc' = "reading"
      /\ UNCHANGED <<job, extVars, result, pos, fresh, piped, nread, opened, lib, waited>>
  BY DEF SetSource, Goto
<1>2. /\ rd' \in RdType /\ rd'.file = "src" /\ rd'.got = <<>>
      /\ rd'.then = IF job.cmd = "decode" THEN "again" ELSE "read"
  BY ReadsIs, MainAssumption DEF SetSource
<1>3. (InputOver => InputOver') => Fed'
  <2>1. Fed /\ WinsizeOf' = WinsizeOf
    BY <1>1 DEF MainInv, WinsizeOf
  <2>. QED BY <1>1, <1>2, <2>1 DEF Fed
<1>4. Types /\ Wrote' = Wrote /\ lib'.st # "finish"
  BY <1>1 DEF MainInv, Output, Wrote
<1>. QED BY <1>1, <1>2, <1>3, <1>4, ParentQuiet DEF Types, Places

LEMMA ReadInputInv == MainInv /\ ReadInput => MainInv'
<1>. SUFFICES ASSUME MainInv, ReadInput PROVE MainInv'
  OBVIOUS
<1>1. /\ pc = "read" /\ pc' = "reading"
      /\ UNCHANGED <<job, extVars, result, pos, fresh, piped, nread, opened, lib, waited>>
  BY DEF ReadInput, Goto
<1>2. Types /\ WinsizeOf \in Nat
  BY WinsizeIs DEF MainInv
<1>3. /\ rd' \in RdType /\ rd'.file = "inp" /\ rd'.want = WinsizeOf /\ rd'.got = <<>>
      /\ rd'.then = "got"
  BY <1>2, ReadsIs DEF ReadInput
<1>4. (InputOver => InputOver') => Fed'
  <2>1. Fed /\ WinsizeOf' = WinsizeOf
    BY <1>1 DEF MainInv, WinsizeOf
  <2>2. lib.avail = <<>> /\ Len(lib.fed) = pos["inp"] /\ After(lib.fed, 0)
    BY <1>1, <2>1 DEF Fed
  <2>3. After(rd'.got, Len(lib.fed)) /\ Len(lib.fed) + Len(rd'.got) = pos["inp"]
    <3>1. pos["inp"] \in Nat /\ Len(<<>>) = 0
      BY <1>2 DEF Types
    <3>. QED BY <1>3, <2>2, <3>1, AfterNothing
  <2>. QED BY <1>1, <1>3, <2>1, <2>2, <2>3 DEF Fed
<1>5. Wrote' = Wrote /\ lib'.st # "finish"
  BY <1>1 DEF MainInv, Output, Wrote
<1>. QED BY <1>1, <1>2, <1>3, <1>4, <1>5, ParentQuiet DEF Types, Places

LEMMA GotInputInv == MainInv /\ GotInput => MainInv'
<1>. SUFFICES ASSUME MainInv, GotInput PROVE MainInv'
  OBVIOUS
<1>1. /\ pc = "got" /\ nread' = Len(rd.got) /\ lib' = [lib EXCEPT !.avail = rd.got]
      /\ pc' = (IF rd.got = <<>> /\ lib.window > 0 THEN "done" ELSE "again")
      /\ UNCHANGED <<job, extVars, result, rd, pos, fresh, piped, opened, waited>>
  BY DEF GotInput, Goto
<1>2. Types /\ lib \in LibType /\ rd \in RdType /\ rd.got \in Seq(Nat) /\ Len(rd.got) \in Nat
  BY DEF MainInv, Types, RdType
<1>3. /\ lib' \in LibType /\ lib'.avail = rd.got /\ lib'.fed = lib.fed /\ lib'.st = lib.st
      /\ lib'.window = lib.window
  BY <1>1, <1>2 DEF LibType
<1>4. (InputOver => InputOver') => Fed'
  <2>. SUFFICES ASSUME InputOver => InputOver' PROVE Fed'
    OBVIOUS
  <2>1. Fed /\ WinsizeOf' = WinsizeOf
    BY <1>1 DEF MainInv, WinsizeOf
  <2>2. /\ After(lib.fed, 0) /\ After(rd.got, Len(lib.fed))
        /\ Len(lib.fed) + Len(rd.got) = pos["inp"]
        /\ Len(rd.got) # WinsizeOf => InputOver
    BY <1>1, <2>1 DEF Fed
  <2>3. rd.got = <<>> => Len(rd.got) # WinsizeOf
    BY <1>2, WinsizeIs
  <2>. QED BY <1>1, <1>3, <2>1, <2>2, <2>3 DEF Fed
<1>5. Wrote' = Wrote /\ lib'.st # "finish"
  BY <1>1, <1>3 DEF MainInv, Output, Wrote
<1>. QED BY <1>1, <1>2, <1>3, <1>4, <1>5, ParentQuiet DEF Types, Places

LEMMA LibInputInv == MainInv /\ LibInput => MainInv'
<1>. SUFFICES ASSUME MainInv, LibInput PROVE MainInv'
  OBVIOUS
<1>1. /\ pc = "again" /\ lib.avail = <<>> /\ lib.st \in {"post", "input"}
      /\ lib' = [lib EXCEPT !.st = "input"]
      /\ pc' = (IF nread = WinsizeOf THEN "read" ELSE "done")
      /\ UNCHANGED <<job, extVars, result, rd, pos, fresh, piped, nread, opened, waited>>
  BY DEF LibInput, Goto, GoesOn, mainFrame
<1>2. Types /\ lib \in LibType
  BY DEF MainInv, Types
<1>3. /\ lib' \in LibType /\ lib'.avail = lib.avail /\ lib'.fed = lib.fed /\ lib'.st = "input"
      /\ lib'.window = lib.window
  BY <1>1, <1>2 DEF LibType
<1>4. (InputOver => InputOver') => Fed'
  <2>. SUFFICES ASSUME InputOver => InputOver' PROVE Fed'
    OBVIOUS
  <2>1. Fed /\ WinsizeOf' = WinsizeOf
    BY <1>1 DEF MainInv, WinsizeOf
  <2>2. /\ After(lib.fed, 0) /\ After(lib.avail, Len(lib.fed))
        /\ Len(lib.fed) + Len(lib.avail) = pos["inp"] /\ (nread # WinsizeOf => InputOver)
    BY <1>1, <2>1 DEF Fed
  <2>3. Len(lib.fed) = pos["inp"]
    <3>1. Len(lib.fed) \in Nat /\ Len(<<>>) = 0
      BY <1>2 DEF LibType
    <3>. QED BY <1>1, <2>2, <3>1
  <2>. QED BY <1>1, <1>3, <2>1, <2>2, <2>3 DEF Fed
<1>5. Wrote' = Wrote /\ lib'.st # "finish"
  BY <1>1, <1>3 DEF MainInv, Output, Wrote
<1>. QED BY <1>1, <1>2, <1>3, <1>4, <1>5, ParentQuiet DEF Types, Places

\* What is left, and what is taken, stays the input in order.
LEMMA FedWhileRunning ==
  ASSUME MainInv, pc = "again", pc' \in {"again", "output", "reading", "source"},
         pc' = "source" => job.cmd = "decode",
         pc' = "reading" => /\ rd'.file = "src" /\ rd'.then = "again" /\ rd'.got = <<>>,
         UNCHANGED <<job, pos, nread>>, InputOver => InputOver',
         After(lib'.fed, 0), After(lib'.avail, Len(lib'.fed)),
         Len(lib'.fed) + Len(lib'.avail) = Len(lib.fed) + Len(lib.avail)
  PROVE  Fed'
<1>1. Fed /\ WinsizeOf' = WinsizeOf
  BY DEF MainInv, WinsizeOf
<1>2. Len(lib.fed) + Len(lib.avail) = pos["inp"] /\ (nread # WinsizeOf => InputOver)
  BY <1>1 DEF Fed
<1>. QED BY <1>1, <1>2 DEF Fed

LEMMA AgainFacts ==
  ASSUME MainInv, pc = "again"
  PROVE  /\ After(lib.fed, 0) /\ After(lib.avail, Len(lib.fed))
         /\ lib.fed \in Seq(Nat) /\ lib.avail \in Seq(Nat)
         /\ Len(lib.fed) \in Nat /\ Len(lib.avail) \in Nat /\ Len(<<>>) = 0
<1>1. Fed /\ lib.fed \in Seq(Nat) /\ lib.avail \in Seq(Nat)
  BY DEF MainInv, Types, LibType
<1>. QED BY <1>1 DEF Fed

LEMMA EncodeWindowInv == MainInv /\ EncodeWindow => MainInv'
<1>. SUFFICES ASSUME MainInv, EncodeWindow PROVE MainInv'
  OBVIOUS
<1>1. /\ pc = "again" /\ pc' = "again" /\ lib.st = "input"
      /\ lib' = [lib EXCEPT !.st = "work", !.avail = <<>>, !.fed = @ \o lib.avail]
      /\ UNCHANGED <<job, extVars, result, rd, pos, fresh, piped, nread, opened, waited>>
  BY DEF EncodeWindow, mainFrame
<1>2. Types /\ lib \in LibType
  BY DEF MainInv, Types
<1>. DEFINE s == lib.fed \o lib.avail
<1>3. After(s, 0) /\ s \in Seq(Nat) /\ Len(s) = Len(lib.fed) + Len(lib.avail)
  <2>1. After(lib.avail, 0 + Len(lib.fed))
    BY <1>1, AgainFacts
  <2>. QED BY <1>1, <2>1, AgainFacts, AfterConcat
<1>4. lib' = [lib EXCEPT !.st = "work", !.avail = <<>>, !.fed = s]
  BY <1>1, <1>2 DEF LibType
<1>. HIDE DEF s
<1>5. /\ lib' \in LibType /\ lib'.avail = <<>> /\ lib'.fed = s /\ lib'.st = "work"
      /\ lib'.window = lib.window
  <2>1. <<>> \in Seq(Nat)
    OBVIOUS
  <2>. QED BY <1>2, <1>3, <1>4, <2>1 DEF LibType
<1>6. (InputOver => InputOver') => Fed'
  <2>1. /\ After(lib'.fed, 0) /\ After(lib'.avail, Len(lib'.fed))
        /\ Len(lib'.fed) + Len(lib'.avail) = Len(lib.fed) + Len(lib.avail)
    <3>1. Len(lib'.fed) = Len(lib.fed) + Len(lib.avail) /\ Len(lib'.avail) = 0
      BY <1>1, <1>3, <1>5, AgainFacts
    <3>2. After(lib'.fed, 0) /\ After(lib'.avail, Len(lib'.fed))
      BY <1>3, <1>5, AfterNothing
    <3>3. \A a, b \in Nat : (a + b) + 0 = a + b
      OBVIOUS
    <3>. QED BY <1>1, <3>1, <3>2, <3>3, AgainFacts
  <2>. QED BY <1>1, <2>1, FedWhileRunning
<1>7. Wrote' = Wrote
  BY <1>1, <1>5 DEF Wrote
<1>. QED BY <1>1, <1>2, <1>5, <1>6, <1>7, ParentQuiet DEF Types, Places

LEMMA DecodeUnitInv == MainInv /\ DecodeUnit => MainInv'
<1>. SUFFICES ASSUME MainInv, DecodeUnit PROVE MainInv'
  OBVIOUS
<1>. DEFINE u == Head(lib.avail)
            header == u > 1 /\ lib.part = <<>>
            part == IF header THEN <<u>> ELSE <<>>
            st == IF u = 1 \/ (header /\ job.cmd = "decode") THEN "input" ELSE "work"
<1>1. /\ pc = "again" /\ pc' \in {"again", "source"} /\ lib.st = "input" /\ lib.avail # <<>>
      /\ pc' = "source" => job.cmd = "decode"
      /\ lib' = [lib EXCEPT !.avail = Tail(@), !.fed = Append(@, u), !.part = part, !.st = st]
      /\ UNCHANGED <<job, extVars, result, rd, pos, fresh, piped, nread, opened, waited>>
  BY DEF DecodeUnit, mainFrame, Goto
<1>2. Types /\ lib \in LibType
  BY DEF MainInv, Types
<1>3. /\ u = Len(lib.fed) + 1 /\ After(Tail(lib.avail), Len(lib.fed) + 1)
      /\ Tail(lib.avail) \in Seq(Nat) /\ Len(Tail(lib.avail)) + 1 = Len(lib.avail)
  BY <1>1, AgainFacts, AfterHead
<1>4. part \in Seq(Nat) /\ st \in {"input", "work"} /\ u \in Nat
  BY <1>1, <1>3, AgainFacts
<1>. HIDE DEF u, part, st
<1>5. /\ After(Append(lib.fed, u), 0) /\ Append(lib.fed, u) \in Seq(Nat)
      /\ Len(Append(lib.fed, u)) = Len(lib.fed) + 1
  <2>1. u = 0 + Len(lib.fed) + 1
    BY <1>1, <1>3, AgainFacts
  <2>. QED BY <1>1, <1>4, <2>1, AgainFacts, AfterAppend
<1>6. /\ lib' \in LibType /\ lib'.avail = Tail(lib.avail) /\ lib'.fed = Append(lib.fed, u)
      /\ lib'.st = st /\ lib'.window = lib.window
  BY <1>1, <1>2, <1>3, <1>4, <1>5 DEF LibType
<1>7. (InputOver => InputOver') => Fed'
  <2>1. Len(lib'.fed) + Len(lib'.avail) = Len(lib.fed) + Len(lib.avail)
    <3>1. PICK a \in Nat, b \in Nat : a = Len(lib.fed) /\ b = Len(Tail(lib.avail))
      BY <1>1, <1>3, AgainFacts
    <3>2. Len(lib'.fed) = a + 1 /\ Len(lib'.avail) = b /\ Len(lib.avail) = b + 1
      BY <1>3, <1>5, <1>6, <3>1
    <3>3. (a + 1) + b = a + (b + 1)
      OBVIOUS
    <3>4. Len(lib.fed) = a
      BY <3>1
    <3>. HIDE DEF u
    <3>. QED BY <3>2, <3>3, <3>4
  <2>2. After(lib'.fed, 0) /\ After(lib'.avail, Len(lib'.fed))
    BY <1>3, <1>5, <1>6
  <2>. QED BY <1>1, <2>1, <2>2, FedWhileRunning
<1>8. Wrote' = Wrote /\ lib'.st # "finish"
  BY <1>1, <1>4, <1>6 DEF Wrote
<1>. QED BY <1>1, <1>2, <1>6, <1>7, <1>8, ParentQuiet DEF Types, Places

LEMMA GetBlockInv == MainInv /\ GetBlock => MainInv'
<1>. SUFFICES ASSUME MainInv, GetBlock PROVE MainInv'
  OBVIOUS
<1>1. /\ pc = "again" /\ pc' = "reading" /\ lib.st = "work"
      /\ UNCHANGED <<job, extVars, result, pos, fresh, piped, nread, opened, lib, waited>>
  BY DEF GetBlock, Goto
<1>2. rd' \in RdType /\ rd'.file = "src" /\ rd'.got = <<>> /\ rd'.then = "again"
  BY ReadsIs, MainAssumption DEF GetBlock
<1>3. (InputOver => InputOver') => Fed'
  BY <1>1, <1>2, AgainFacts, FedWhileRunning
<1>4. Types /\ Wrote' = Wrote /\ lib'.st # "finish"
  BY <1>1 DEF MainInv, Wrote
<1>. QED BY <1>1, <1>2, <1>3, <1>4, ParentQuiet DEF Types, Places

LEMMA LibOutputInv == MainInv /\ LibOutput => MainInv'
<1>. SUFFICES ASSUME MainInv, LibOutput PROVE MainInv'
  OBVIOUS
<1>1. /\ pc = "again" /\ pc' = "output" /\ lib.st = "work"
      /\ lib' = [lib EXCEPT !.st = "out", !.part = <<>>]
      /\ UNCHANGED <<job, extVars, result, rd, pos, fresh, piped, nread, opened, waited>>
  BY DEF LibOutput, Goto, mainFrame
<1>2. Types /\ lib \in LibType
  BY DEF MainInv, Types
<1>3. /\ lib' \in LibType /\ lib'.avail = lib.avail /\ lib'.fed = lib.fed /\ lib'.st = "out"
      /\ lib'.window = lib.window
  <2>1. <<>> \in Seq(Nat)
    OBVIOUS
  <2>. QED BY <1>1, <1>2, <2>1 DEF LibType
<1>4. (InputOver => InputOver') => Fed'
  BY <1>1, <1>3, AgainFacts, FedWhileRunning
<1>5. Wrote' = Wrote
  BY <1>1, <1>3 DEF Wrote
<1>. QED BY <1>1, <1>2, <1>3, <1>4, <1>5, ParentQuiet DEF Types, Places

LEMMA WinFinishInv == MainInv /\ WinFinish => MainInv'
<1>. SUFFICES ASSUME MainInv, WinFinish PROVE MainInv'
  OBVIOUS
<1>. DEFINE st == IF job.cmd = "encode" THEN "post" ELSE "input"
<1>1. /\ pc = "again" /\ pc' = "again" /\ lib.st = "finish"
      /\ lib' = [lib EXCEPT !.window = @ + 1, !.st = st]
      /\ UNCHANGED <<job, extVars, result, rd, pos, fresh, piped, nread, opened, waited>>
  BY DEF WinFinish, mainFrame
<1>2. Types /\ lib \in LibType
  BY DEF MainInv, Types
<1>3. /\ lib' \in LibType /\ lib'.avail = lib.avail /\ lib'.fed = lib.fed
      /\ lib'.st \in {"post", "input"} /\ lib'.window = lib.window + 1
  <2>1. lib.window + 1 \in Nat /\ st \in {"post", "input"}
    BY <1>2 DEF LibType
  <2>. HIDE DEF st
  <2>. QED BY <1>1, <1>2, <2>1 DEF LibType
<1>4. (InputOver => InputOver') => Fed'
  BY <1>1, <1>3, AgainFacts, FedWhileRunning
<1>5. Wrote' = Wrote
  <2>1. lib.window \in Nat
    BY <1>2 DEF LibType
  <2>. QED BY <1>1, <1>3, <2>1 DEF Wrote
<1>. QED BY <1>1, <1>2, <1>3, <1>4, <1>5, ParentQuiet DEF Types, Places

LEMMA ParentMoves ==
  ASSUME MainInv, pc # "end", pc' # "end", UNCHANGED result,
         Types', Input', Output', Fed', Waiting'
  PROVE  MainInv'
<1>1. result = "none"
  BY DEF MainInv
<1>. QED BY <1>1 DEF MainInv, CompleteOnSuccess

\* A read of the source is over.
LEMMA SourceRead ==
  ASSUME MainInv, pc = "reading", rd.file = "src", pc' = rd.then, lib' = lib, nread' = nread,
         job' = job, pos'["inp"] = pos["inp"], InputOver => InputOver'
  PROVE  Fed' /\ pc' \in {"read", "again"}
<1>1. Fed /\ WinsizeOf' = WinsizeOf /\ rd.then \in {"read", "again", "got"}
  BY DEF MainInv, WinsizeOf, Types, RdType
<1>. QED BY <1>1 DEF Fed

\* A read of the input is over.
LEMMA InputRead ==
  ASSUME MainInv, pc = "reading", rd.file = "inp", pc' = rd.then, lib' = lib, job' = job,
         After(rd'.got, Len(lib.fed)), Len(lib.fed) + Len(rd'.got) = pos'["inp"],
         Len(rd'.got) # WinsizeOf => InputOver'
  PROVE  Fed' /\ pc' = "got"
<1>1. Fed /\ WinsizeOf' = WinsizeOf
  BY DEF MainInv, WinsizeOf
<1>. QED BY <1>1 DEF Fed

\* A file has been read without a child.
LEMMA BlockRead ==
  ASSUME MainInv, pc = "reading", pc' = rd.then,
         UNCHANGED <<job, extVars, result, piped, nread, opened, lib, waited>>,
         fresh' = fresh \ {rd.file},
         NEW b \in Seq(Nat), NEW n \in Nat,
         rd' = [rd EXCEPT !.got = b], pos' = [pos EXCEPT ![rd.file] = n],
         rd.file = "inp" => /\ "inp" \notin piped
                            /\ b = Block("inp", pos["inp"], rd.want) /\ n = pos["inp"] + Len(b)
  PROVE  MainInv'
<1>1. UNCHANGED <<kid, pipe, ext_subprocs, written>>
  BY DEF extVars
<1>2. /\ Types /\ rd \in RdType /\ pos \in [{"src", "inp"} -> Nat] /\ rd.file \in {"src", "inp"}
      /\ rd.want \in Nat /\ pos["src"] \in Nat /\ pos["inp"] \in Nat
  BY DEF MainInv, Types, RdType
<1>3. Len(b) \in Nat
  OBVIOUS
<1>5. rd' \in RdType /\ rd'.got = b
  BY <1>2, <1>3 DEF RdType
<1>6. /\ pos' \in [{"src", "inp"} -> Nat] /\ pos'[rd.file] = n
      /\ rd.file = "src" => pos'["inp"] = pos["inp"]
  BY <1>2
<1>7. Wrote' = Wrote /\ lib'.st # "finish" /\ pc' \in {"read", "again", "got"}
  BY <1>2 DEF MainInv, Output, Wrote, RdType
<1>8. Types'
  BY <1>1, <1>2, <1>5, <1>6, <1>7 DEF Types, Places
<1>9. Output'
  BY <1>1, <1>7, OutputKept
<1>10. CASE rd.file = "src"
  <2>1. Input' /\ (InputOver => InputOver')
    BY <1>1, <1>6, <1>7, <1>10, InputKept DEF Over
  <2>2. Fed'
    BY <1>6, <1>10, <2>1, SourceRead
  <2>. QED BY <1>1, <1>7, <1>8, <1>9, <2>1, <2>2, ParentKept
<1>11. CASE rd.file = "inp"
  <2>1. /\ kid[D] = NoKid /\ pipe[DQ].buf = <<>> /\ pipe[DQ].writers = {}
        /\ pos["inp"] <= job.size["inp"]
    BY <1>11 DEF MainInv, Input
  <2>2. /\ After(b, pos["inp"])
        /\ Len(b) = IF pos["inp"] + rd.want < job.size["inp"] THEN rd.want
                    ELSE job.size["inp"] - pos["inp"]
    BY <1>2, <1>11, <2>1, BlockIs
  <2>3. job.size["inp"] \in Nat
    BY <1>2 DEF Types, JobType
  <2>4. pos'["inp"] <= job.size["inp"] /\ (Len(b) # rd.want => pos'["inp"] = job.size["inp"])
    BY <1>2, <1>6, <1>11, <2>1, <2>2, <2>3
  <2>5. Input'
    BY <1>1, <1>11, <2>1, <2>4 DEF Input
  <2>6. /\ rd.want = WinsizeOf /\ rd.got = <<>> /\ Len(lib.fed) + Len(rd.got) = pos["inp"]
    BY <1>11 DEF MainInv, Fed
  <2>7. Len(lib.fed) = pos["inp"]
    <3>1. Len(lib.fed) \in Nat /\ Len(<<>>) = 0
      BY <1>2 DEF Types, LibType
    <3>. QED BY <2>6, <3>1
  <2>8. Len(rd'.got) # WinsizeOf => InputOver'
    BY <1>5, <1>11, <2>4, <2>6 DEF InputOver
  <2>9. Fed'
    BY <1>5, <1>6, <1>11, <2>2, <2>7, <2>8, InputRead
  <2>. QED BY <1>1, <1>7, <1>8, <1>9, <2>5, <2>9, ParentKept
<1>. QED BY <1>2, <1>10, <1>11

LEMMA FileReadInv == MainInv /\ FileRead => MainInv'
<1>. SUFFICES ASSUME MainInv, FileRead PROVE MainInv'
  OBVIOUS
<1>. DEFINE b == Block(rd.file, pos[rd.file], rd.want)
            n == pos[rd.file] + Len(b)
<1>1. /\ pc = "reading" /\ pc' = rd.then /\ rd.file \notin fresh \cup piped
      /\ UNCHANGED <<job, extVars, result, fresh, piped, nread, opened, lib, waited>>
      /\ rd' = [rd EXCEPT !.got = b] /\ pos' = [pos EXCEPT ![rd.file] = n]
  BY DEF FileRead, Goto
<1>2. Types /\ rd.file \in {"src", "inp"} /\ rd.want \in Nat /\ pos[rd.file] \in Nat
  BY DEF MainInv, Types, RdType
<1>3. b \in Seq(Nat)
  BY <1>2, BlockInSeq
<1>4. rd.file = "inp" => /\ "inp" \notin piped
                         /\ b = Block("inp", pos["inp"], rd.want) /\ n = pos["inp"] + Len(b)
  BY <1>1
<1>5. n \in Nat
  <2>. HIDE DEF b
  <2>. QED BY <1>2, <1>3
<1>. HIDE DEF b, n
<1>6. fresh' = fresh \ {rd.file}
  BY <1>1
<1>. QED BY <1>1, <1>3, <1>4, <1>5, <1>6, BlockRead

\* The first block, read in two parts, is the block.
LEMMA TwoParts ==
  ASSUME Types, NEW f \in {"src", "inp"}, NEW n \in Nat
  PROVE  LET want  == Lesser(n, Alloc)
             first == Block(f, 0, want)
             rest  == IF Len(first) = want THEN Block(f, want, n - want) ELSE <<>>
         IN  first \o rest = Block(f, 0, n)
<1>. DEFINE want  == Lesser(n, Alloc)
            first == Block(f, 0, want)
            rest  == IF Len(first) = want THEN Block(f, want, n - want) ELSE <<>>
<1>1. job.size[f] \in Nat /\ Alloc \in Nat
  BY ExtCompAssumption DEF Types, JobType
<1>2. want \in Nat /\ n - want \in Nat /\ want <= n
  BY <1>1 DEF Lesser
<1>. HIDE DEF want
<1>3. PICK z \in Nat : z = job.size[f]
  BY <1>1
<1>4. /\ first \in Seq(Nat) /\ After(first, 0)
      /\ Len(first) = (IF want < z THEN want ELSE z)
  <2>1. 0 <= job.size[f] /\ 0 + want = want /\ z - 0 = z
    BY <1>1, <1>2, <1>3
  <2>. QED BY <1>2, <1>3, <2>1, BlockIs
<1>5. /\ Block(f, 0, n) \in Seq(Nat) /\ After(Block(f, 0, n), 0)
      /\ Len(Block(f, 0, n)) = (IF n < z THEN n ELSE z)
  <2>1. 0 <= job.size[f] /\ 0 + n = n /\ z - 0 = z
    BY <1>1, <1>3
  <2>. QED BY <1>3, <2>1, BlockIs
<1>6. rest \in Seq(Nat) /\ After(rest, Len(first)) /\ Len(first) + Len(rest) = (IF n < z THEN n ELSE z)
  <2>1. CASE Len(first) = want
    <3>1. want <= z
      BY <1>2, <1>4, <2>1
    <3>2. /\ rest \in Seq(Nat) /\ After(rest, want)
          /\ Len(rest) = (IF want + (n - want) < z THEN n - want ELSE z - want)
      BY <1>2, <1>3, <2>1, <3>1, BlockIs
    <3>. HIDE DEF rest, first
    <3>. QED BY <1>2, <2>1, <3>1, <3>2
  <2>2. CASE Len(first) # want
    <3>1. rest = <<>> /\ Len(first) = z /\ z <= want
      BY <1>2, <1>4, <2>2
    <3>. HIDE DEF rest, first
    <3>2. Len(<<>>) = 0 /\ <<>> \in Seq(Nat)
      OBVIOUS
    <3>3. z + 0 = (IF n < z THEN n ELSE z)
      BY <1>2, <3>1
    <3>. QED BY <3>1, <3>2, <3>3, AfterNothing
  <2>. QED BY <2>1, <2>2
<1>. HIDE DEF rest, first
<1>7. /\ After(first \o rest, 0) /\ first \o rest \in Seq(Nat)
      /\ Len(first \o rest) = Len(first) + Len(rest)
  <2>1. Len(first) \in Nat /\ 0 + Len(first) = Len(first)
    BY <1>4
  <2>. QED BY <1>4, <1>6, <2>1, AfterConcat
<1>8. first \o rest = Block(f, 0, n)
  <2>1. first \o rest = [k \in 1 .. Len(first \o rest) |-> k]
    BY <1>7, AfterIs
  <2>2. Block(f, 0, n) = [k \in 1 .. Len(Block(f, 0, n)) |-> k]
    BY <1>5, AfterIs
  <2>3. Len(first \o rest) = Len(Block(f, 0, n))
    BY <1>5, <1>6, <1>7
  <2>. QED BY <2>1, <2>2, <2>3
<1>. QED BY <1>8 DEF first, rest, want

-----------------------------------------------------------------------------
(* Forks.                                                                  *)

LEMMA InheritedIs ==
  ASSUME NEW ps \in [Pipe -> PipeType], NEW p \in Child
  PROVE  /\ Inherited(ps, p) \in [Pipe -> PipeType]
         /\ \A q \in Pipe : /\ Inherited(ps, p)[q].buf = ps[q].buf
                            /\ ps[q].readers \subseteq Inherited(ps, p)[q].readers
                            /\ ps[q].writers \subseteq Inherited(ps, p)[q].writers
                            /\ Tool \notin ps[q].writers =>
                                 Inherited(ps, p)[q].writers = ps[q].writers
<1>. DEFINE W(r) == [r EXCEPT !.readers = IF Tool \in @ THEN @ \cup {p} ELSE @,
                              !.writers = IF Tool \in @ THEN @ \cup {p} ELSE @]
<1>1. ASSUME NEW r \in PipeType
      PROVE  /\ W(r) \in PipeType /\ W(r).buf = r.buf
             /\ r.readers \subseteq W(r).readers /\ r.writers \subseteq W(r).writers
             /\ Tool \notin r.writers => W(r).writers = r.writers
  BY DEF PipeType
<1>2. \A q \in Pipe : ps[q] \in PipeType /\ Inherited(ps, p)[q] = W(ps[q])
  BY DEF Inherited
<1>3. Inherited(ps, p) = [q \in Pipe |-> W(ps[q])]
  BY DEF Inherited
<1>. HIDE DEF W
<1>4. Inherited(ps, p) \in [Pipe -> PipeType]
  BY <1>1, <1>2, <1>3
<1>. QED BY <1>1, <1>2, <1>4

LEMMA StartedIs ==
  ASSUME NEW s \in Seq(Nat), NEW n \in Nat
  PROVE  /\ Started(s, n) \in KidType /\ Started(s, n).st = "run" /\ Started(s, n).hand = s
         /\ Started(s, n).last = 0
<1>1. NoKid \in KidType
  <2>1. <<>> \in Seq(Nat)
    OBVIOUS
  <2>. QED BY <2>1 DEF NoKid, KidType, Status
<1>2. Started(s, n) = [NoKid EXCEPT !.st = "run", !.hand = s, !.block = s, !.pos = n]
  BY DEF Started
<1>3. NoKid.last = 0
  BY DEF NoKid
<1>. QED BY <1>1, <1>2, <1>3 DEF KidType, Status

\* The children that were forked are in the list; nothing else has changed.
LEMMA DecompressIs ==
  ASSUME MainInv, pc = "reading", NEW f \in {"src", "inp"}, NEW s \in Seq(Nat), NEW n \in Nat,
         NEW forks \in 0 .. 2, Decompress(f, s, n, forks)
  PROVE  /\ kid' \in [Child -> KidType] /\ ext_subprocs' \in Seq(Child)
         /\ pipe' \in [Pipe -> PipeType] /\ Len(ext_subprocs) <= Len(ext_subprocs')
         /\ \A x \in Child \ {Decomp(f), Copier(f)} : kid'[x] = kid[x]
         /\ \A q \in Pipe : pipe'[q].buf = pipe[q].buf
         /\ forks # 0 => kid'[Decomp(f)] = Started(<<>>, 0)
         /\ \A q \in Pipe \ {Stdin(Decomp(f)), Stdout(Decomp(f))} :
              /\ pipe[q].readers \subseteq pipe'[q].readers
              /\ pipe[q].writers \subseteq pipe'[q].writers
              /\ Tool \notin pipe[q].writers => pipe'[q].writers = pipe[q].writers
         /\ forks = 0 => kid' = kid /\ pipe' = pipe
         /\ forks # 0 => pipe'[Stdout(Decomp(f))].writers = {Decomp(f)}
         /\ forks = 2 => pipe'[Stdout(Decomp(f))].readers = {Tool}
         /\ \A x \in Child : kid'[x].st # "none" =>
              \E j \in 1 .. Len(ext_subprocs') : ext_subprocs'[j] = x
<1>. DEFINE i == Stdin(Decomp(f))
            o == Stdout(Decomp(f))
            d == Inherited(pipe, Decomp(f))
            c == Inherited(d, Copier(f))
<1>1. /\ Decomp(f) \in Child /\ Copier(f) \in Child /\ Decomp(f) # Copier(f) /\ i \in Pipe
      /\ o \in Pipe /\ i # o
  BY Names DEF Decomp, Copier, Child, Filter, Stdin, Stdout, Pipe
<1>2. /\ kid \in [Child -> KidType] /\ pipe \in [Pipe -> PipeType] /\ ext_subprocs \in Seq(Child)
      /\ \A x \in Child : kid[x].st # "none" =>
           \E j \in 1 .. Len(ext_subprocs) : ext_subprocs[j] = x
  BY DEF MainInv, Types, Waiting
<1>3. /\ Started(<<>>, 0) \in KidType /\ Started(s, n) \in KidType
  BY StartedIs, EmptySeq
<1>4. CASE forks = 0
  BY <1>1, <1>2, <1>4 DEF Decompress
<1>5. CASE forks = 1
  <2>1. /\ kid' = [kid EXCEPT ![Decomp(f)] = Started(<<>>, 0)]
        /\ ext_subprocs' = Append(ext_subprocs, Decomp(f))
        /\ pipe' = [d EXCEPT ![i].readers = {Decomp(f)}, ![o].writers = {Decomp(f)}]
    <3>1. forks # 2 /\ forks # 0
      BY <1>5
    <3>. QED BY <3>1, Zenon DEF Decompress
  <2>2. /\ kid' \in [Child -> KidType] /\ kid'[Decomp(f)] = Started(<<>>, 0)
        /\ \A x \in Child \ {Decomp(f)} : kid'[x] = kid[x]
    BY <1>1, <1>2, <1>3, <2>1
  <2>3. /\ d \in [Pipe -> PipeType]
        /\ \A q \in Pipe : /\ d[q].buf = pipe[q].buf
                           /\ pipe[q].readers \subseteq d[q].readers
                           /\ pipe[q].writers \subseteq d[q].writers
                           /\ Tool \notin pipe[q].writers => d[q].writers = pipe[q].writers
    BY <1>1, <1>2, InheritedIs
  <2>. HIDE DEF d, i, o
  <2>4. /\ pipe' \in [Pipe -> PipeType] /\ \A q \in Pipe : pipe'[q].buf = d[q].buf
        /\ pipe'[o].writers = {Decomp(f)}
        /\ \A q \in Pipe \ {i, o} : pipe'[q] = d[q]
    <3>1. /\ [d[i] EXCEPT !.readers = {Decomp(f)}] \in PipeType
          /\ [d[i] EXCEPT !.readers = {Decomp(f)}].buf = d[i].buf
      BY <1>1, <2>3 DEF PipeType
    <3>2. /\ [d[o] EXCEPT !.writers = {Decomp(f)}] \in PipeType
          /\ [d[o] EXCEPT !.writers = {Decomp(f)}].buf = d[o].buf
          /\ [d[o] EXCEPT !.writers = {Decomp(f)}].writers = {Decomp(f)}
      BY <1>1, <2>3 DEF PipeType
    <3>3. /\ pipe'[i] = [d[i] EXCEPT !.readers = {Decomp(f)}]
          /\ pipe'[o] = [d[o] EXCEPT !.writers = {Decomp(f)}]
          /\ \A q \in Pipe \ {i, o} : pipe'[q] = d[q]
      BY <1>1, <2>1, <2>3
    <3>4. pipe' \in [Pipe -> PipeType]
      BY <1>1, <2>1, <2>3, <3>1, <3>2, <3>3
    <3>. QED BY <3>1, <3>2, <3>3, <3>4
  <2>5. /\ ext_subprocs' \in Seq(Child) /\ Len(ext_subprocs') = Len(ext_subprocs) + 1
        /\ ext_subprocs'[Len(ext_subprocs) + 1] = Decomp(f)
        /\ \A j \in 1 .. Len(ext_subprocs) : ext_subprocs'[j] = ext_subprocs[j]
    BY <1>1, <1>2, <2>1
  <2>6. \A x \in Child : kid'[x].st # "none" =>
              \E j \in 1 .. Len(ext_subprocs') : ext_subprocs'[j] = x
    <3>1. Len(ext_subprocs) \in Nat /\ Len(ext_subprocs) + 1 \in 1 .. Len(ext_subprocs')
          /\ 1 .. Len(ext_subprocs) \subseteq 1 .. Len(ext_subprocs')
      BY <1>2, <2>5
    <3>. QED BY <1>2, <2>2, <2>5, <3>1
  <2>7. Len(ext_subprocs) <= Len(ext_subprocs')
    BY <1>2, <2>5
  <2>. QED BY <1>5, <2>2, <2>3, <2>4, <2>5, <2>6, <2>7 DEF i, o
<1>6. CASE forks = 2
  <2>1. /\ kid' = [kid EXCEPT ![Decomp(f)] = Started(<<>>, 0), ![Copier(f)] = Started(s, n)]
        /\ ext_subprocs' = ext_subprocs \o <<Decomp(f), Copier(f)>>
        /\ pipe' = [c EXCEPT ![i].readers = {Decomp(f)}, ![i].writers = {Copier(f)},
                             ![o].readers = {Tool}, ![o].writers = {Decomp(f)}]
    <3>1. forks # 1 /\ forks # 0
      BY <1>6
    <3>. QED BY <3>1, Zenon DEF Decompress
  <2>2. /\ kid' \in [Child -> KidType] /\ kid'[Decomp(f)] = Started(<<>>, 0)
        /\ \A x \in Child \ {Decomp(f), Copier(f)} : kid'[x] = kid[x]
    BY <1>1, <1>2, <1>3, <2>1
  <2>3. /\ c \in [Pipe -> PipeType]
        /\ \A q \in Pipe : /\ c[q].buf = pipe[q].buf
                           /\ pipe[q].readers \subseteq c[q].readers
                           /\ pipe[q].writers \subseteq c[q].writers
                           /\ Tool \notin pipe[q].writers => c[q].writers = pipe[q].writers
    <3>1. /\ d \in [Pipe -> PipeType]
          /\ \A q \in Pipe : /\ d[q].buf = pipe[q].buf
                             /\ pipe[q].readers \subseteq d[q].readers
                             /\ pipe[q].writers \subseteq d[q].writers
                             /\ Tool \notin pipe[q].writers => d[q].writers = pipe[q].writers
      BY <1>1, <1>2, InheritedIs
    <3>. HIDE DEF d
    <3>2. /\ c \in [Pipe -> PipeType]
          /\ \A q \in Pipe : /\ c[q].buf = d[q].buf
                             /\ d[q].readers \subseteq c[q].readers
                             /\ d[q].writers \subseteq c[q].writers
                             /\ Tool \notin d[q].writers => c[q].writers = d[q].writers
      BY <1>1, <3>1, InheritedIs
    <3>. HIDE DEF c
    <3>3. ASSUME NEW q \in Pipe
          PROVE  /\ c[q].buf = pipe[q].buf
                 /\ pipe[q].readers \subseteq c[q].readers
                 /\ pipe[q].writers \subseteq c[q].writers
                 /\ Tool \notin pipe[q].writers => c[q].writers = pipe[q].writers
      BY <3>1, <3>2
    <3>. QED BY <3>2, <3>3
  <2>. HIDE DEF c, i, o
  <2>4. /\ pipe' \in [Pipe -> PipeType] /\ \A q \in Pipe : pipe'[q].buf = c[q].buf
        /\ pipe'[o].writers = {Decomp(f)} /\ pipe'[o].readers = {Tool}
        /\ \A q \in Pipe \ {i, o} : pipe'[q] = c[q]
    <3>1. /\ [c[i] EXCEPT !.readers = {Decomp(f)}, !.writers = {Copier(f)}] \in PipeType
          /\ [c[i] EXCEPT !.readers = {Decomp(f)}, !.writers = {Copier(f)}].buf = c[i].buf
      BY <1>1, <2>3 DEF PipeType
    <3>2. /\ [c[o] EXCEPT !.readers = {Tool}, !.writers = {Decomp(f)}] \in PipeType
          /\ [c[o] EXCEPT !.readers = {Tool}, !.writers = {Decomp(f)}].buf = c[o].buf
          /\ [c[o] EXCEPT !.readers = {Tool}, !.writers = {Decomp(f)}].writers = {Decomp(f)}
          /\ [c[o] EXCEPT !.readers = {Tool}, !.writers = {Decomp(f)}].readers = {Tool}
      BY <1>1, <2>3 DEF PipeType
    <3>3. /\ pipe'[i] = [c[i] EXCEPT !.readers = {Decomp(f)}, !.writers = {Copier(f)}]
          /\ pipe'[o] = [c[o] EXCEPT !.readers = {Tool}, !.writers = {Decomp(f)}]
          /\ \A q \in Pipe \ {i, o} : pipe'[q] = c[q]
      BY <1>1, <2>1, <2>3
    <3>4. pipe' \in [Pipe -> PipeType]
      BY <1>1, <2>1, <2>3, <3>1, <3>2, <3>3
    <3>. QED BY <3>1, <3>2, <3>3, <3>4
  <2>5. /\ ext_subprocs' \in Seq(Child) /\ Len(ext_subprocs') = Len(ext_subprocs) + 2
        /\ ext_subprocs'[Len(ext_subprocs) + 1] = Decomp(f)
        /\ ext_subprocs'[Len(ext_subprocs) + 2] = Copier(f)
        /\ \A j \in 1 .. Len(ext_subprocs) : ext_subprocs'[j] = ext_subprocs[j]
    BY <1>1, <1>2, <2>1
  <2>6. \A x \in Child : kid'[x].st # "none" =>
              \E j \in 1 .. Len(ext_subprocs') : ext_subprocs'[j] = x
    <3>1. /\ Len(ext_subprocs) \in Nat /\ Len(ext_subprocs) + 1 \in 1 .. Len(ext_subprocs')
          /\ Len(ext_subprocs) + 2 \in 1 .. Len(ext_subprocs')
          /\ 1 .. Len(ext_subprocs) \subseteq 1 .. Len(ext_subprocs')
      BY <1>2, <2>5
    <3>. QED BY <1>2, <2>2, <2>5, <3>1
  <2>7. Len(ext_subprocs) <= Len(ext_subprocs')
    BY <1>2, <2>5
  <2>. QED BY <1>6, <2>2, <2>3, <2>4, <2>5, <2>6, <2>7 DEF i, o
<1>. QED BY <1>4, <1>5, <1>6

\* The first read of a file that is compressed.
LEMMA ForkedRead ==
  ASSUME MainInv, pc = "reading", NEW f \in {"src", "inp"}, f = rd.file, f \in fresh,
         NEW forks \in 0 .. 2, NEW s \in Seq(Nat), NEW n \in Nat, Decompress(f, s, n, forks),
         pc' = (IF forks = 2 THEN "reading" ELSE "failing"),
         piped' = piped \cup {f}, fresh' = fresh \ {f},
         UNCHANGED <<job, rd, pos, nread, opened, lib, waited, result, written>>
  PROVE  MainInv'
<1>1. /\ Types /\ Fed /\ Input /\ Output /\ WinsizeOf' = WinsizeOf /\ Wrote' = Wrote
      /\ rd \in RdType
  BY DEF MainInv, Types, WinsizeOf, Wrote
<1>2. /\ kid' \in [Child -> KidType] /\ ext_subprocs' \in Seq(Child)
      /\ pipe' \in [Pipe -> PipeType] /\ Len(ext_subprocs) <= Len(ext_subprocs')
      /\ \A x \in Child \ {Decomp(f), Copier(f)} : kid'[x] = kid[x]
      /\ \A q \in Pipe : pipe'[q].buf = pipe[q].buf
      /\ forks # 0 => kid'[Decomp(f)] = Started(<<>>, 0)
      /\ \A q \in Pipe \ {Stdin(Decomp(f)), Stdout(Decomp(f))} :
           /\ pipe[q].readers \subseteq pipe'[q].readers
           /\ pipe[q].writers \subseteq pipe'[q].writers
           /\ Tool \notin pipe[q].writers => pipe'[q].writers = pipe[q].writers
      /\ forks = 0 => kid' = kid /\ pipe' = pipe
      /\ forks # 0 => pipe'[Stdout(Decomp(f))].writers = {Decomp(f)}
      /\ forks = 2 => pipe'[Stdout(Decomp(f))].readers = {Tool}
      /\ \A x \in Child : kid'[x].st # "none" =>
           \E j \in 1 .. Len(ext_subprocs') : ext_subprocs'[j] = x
  BY DecompressIs
<1>3. waited = 0
  BY DEF MainInv, Waiting
<1>4. Types'
  BY <1>1, <1>2, <1>3 DEF Types, Places
<1>5. Waiting'
  BY <1>2, <1>3 DEF Waiting
<1>6. lib'.st # "finish"
  BY <1>1 DEF Output
<1>7. Output'
  <2>1. /\ RQ \in Pipe \ {Stdin(Decomp(f)), Stdout(Decomp(f))}
        /\ Recomp \in Child \ {Decomp(f), Copier(f)}
    BY Names DEF Decomp, Copier, Recomp, Child, Filter, RQ, Stdin, Stdout, Pipe
  <2>. QED BY <1>1, <1>2, <1>6, <2>1, OutputKept
<1>a. CASE f = "src"
  <2>1. /\ DQ \in Pipe \ {Stdin(Decomp(f)), Stdout(Decomp(f))}
        /\ D \in Child \ {Decomp(f), Copier(f)}
    BY <1>a, Names DEF Decomp, Copier, D, DQ, Child, Filter, Stdin, Stdout, Pipe
  <2>2. Tool \notin pipe[DQ].writers
    <3>1. pipe[DQ].writers \subseteq {D} /\ Tool # D
      BY <1>1, Names DEF Input, Decompressed
    <3>. QED BY <3>1
  <2>3. Input' /\ (InputOver => InputOver')
    BY <1>2, <1>a, <2>1, <2>2, InputKept DEF Over
  <2>4. Fed'
    BY <1>1, <1>a, <2>3 DEF Fed
  <2>. QED BY <1>4, <1>5, <1>7, <2>3, <2>4, ParentMoves
<1>b. CASE f = "inp"
  <2>1. Decomp(f) = D /\ Stdout(Decomp(f)) = DQ /\ D \in Child /\ DQ \in Pipe
    BY <1>b, Names DEF D, DQ
  <2>2. "inp" \notin piped /\ kid[D] = NoKid /\ pipe[DQ].buf = <<>> /\ pipe[DQ].writers = {}
        /\ pos["inp"] = 0
    BY <1>1, <1>b DEF Input
  <2>3. kid'[D].hand = <<>> /\ kid'[D].last = 0 /\ kid'[D].st \in {"none", "run"}
        /\ (forks = 2 => kid'[D].st = "run")
        /\ pipe'[DQ].writers = (IF kid'[D].st = "run" THEN {D} ELSE {})
    <3>1. forks = 0 => kid'[D] = NoKid /\ pipe'[DQ].writers = {}
      BY <1>2, <2>2
    <3>2. forks # 0 => kid'[D] = Started(<<>>, 0) /\ pipe'[DQ].writers = {D}
      BY <1>2, <2>1
    <3>3. /\ Started(<<>>, 0).st = "run" /\ Started(<<>>, 0).hand = <<>>
          /\ Started(<<>>, 0).last = 0
      BY StartedIs, EmptySeq
    <3>4. NoKid.st = "none" /\ NoKid.hand = <<>> /\ NoKid.last = 0
      BY DEF NoKid
    <3>5. CASE forks = 0
      <4>1. kid'[D].st = "none" /\ kid'[D].hand = <<>> /\ kid'[D].last = 0
        BY <3>1, <3>4, <3>5
      <4>2. pipe'[DQ].writers = {} /\ forks # 2
        BY <3>1, <3>5
      <4>. QED BY <4>1, <4>2
    <3>6. CASE forks # 0
      BY <3>2, <3>3, <3>6
    <3>. QED BY <3>5, <3>6
  <2>4. pipe'[DQ].buf = <<>> /\ Len(<<>>) = 0 /\ 0 + 0 + 0 = 0
    BY <1>2, <2>1, <2>2
  <2>5. Decompressed'
    <3>1. /\ After(pipe'[DQ].buf, pos'["inp"])
          /\ After(kid'[D].hand, pos'["inp"] + Len(pipe'[DQ].buf))
      BY <2>3, <2>4, AfterNothing
    <3>2. kid'[D].last = pos'["inp"] + Len(pipe'[DQ].buf) + Len(kid'[D].hand)
      BY <2>2, <2>3, <2>4
    <3>3. /\ kid'[D].st # "ok" /\ pipe'[DQ].writers = (IF Running(D)' THEN {D} ELSE {})
      BY <2>3 DEF Running
    <3>4. pc' \notin {"failing", "wait", "end"} =>
            Tool \in pipe'[DQ].readers /\ kid'[D].st \notin {"none", "sigpipe"}
      BY <1>2, <2>1, <2>3
    <3>. QED BY <3>1, <3>2, <3>3, <3>4 DEF Decompressed
  <2>6. Input'
    BY <1>b, <2>5 DEF Input
  <2>7. Fed'
    <3>1. CASE forks = 2
      <4>1. pc' = "reading" /\ rd' = rd
        BY <3>1
      <4>2. rd.got = <<>>
        BY <1>1, <1>b, <2>2 DEF Fed
      <4>. QED BY <1>1, <1>b, <4>1, <4>2 DEF Fed
    <3>2. CASE forks # 2
      BY <1>1, <3>2 DEF Fed
    <3>. QED BY <3>1, <3>2
  <2>. QED BY <1>4, <1>5, <1>7, <2>6, <2>7, ParentMoves
<1>. QED BY <1>a, <1>b

LEMMA FirstReadInv == MainInv /\ FirstRead => MainInv'
<1>. SUFFICES ASSUME MainInv, FirstRead PROVE MainInv'
  OBVIOUS
<1>. DEFINE f == rd.file
            want == Lesser(rd.want, Alloc)
            first == Block(f, 0, want)
            rest == IF Len(first) = want THEN Block(f, want, rd.want - want) ELSE <<>>
            b == Block(f, 0, rd.want)
<1>1. /\ pc = "reading" /\ f \in fresh /\ fresh' = fresh \ {f}
      /\ UNCHANGED <<job, nread, opened, lib, waited, result, written>>
  BY DEF FirstRead
<1>2. Types /\ f \in {"src", "inp"} /\ rd.want \in Nat /\ want \in Nat
  BY ExtCompAssumption DEF MainInv, Types, RdType, Lesser
<1>3. first \in Seq(Nat) /\ b \in Seq(Nat) /\ first \o rest = b
  BY <1>2, BlockInSeq, TwoParts
<1>4. Len(first) \in Nat
  <2>. HIDE DEF first
  <2>. QED BY <1>3
<1>5. CASE Compressed(f, first)
  <2>1. /\ \E forks \in IF "fork" \in Faults THEN 0 .. 2 ELSE {2} :
             /\ Decompress(f, first, Len(first), forks)
             /\ pc' = IF forks = 2 THEN "reading" ELSE "failing"
        /\ piped' = piped \cup {f} /\ UNCHANGED <<rd, pos>>
    BY <1>5 DEF FirstRead
  <2>. HIDE DEF first
  <2>2. PICK forks \in 0 .. 2 :
          /\ Decompress(f, first, Len(first), forks)
          /\ pc' = IF forks = 2 THEN "reading" ELSE "failing"
    BY <2>1
  <2>. QED BY <1>1, <1>2, <1>3, <1>4, <2>1, <2>2, ForkedRead
<1>6. CASE ~ Compressed(f, first)
  <2>1. /\ rd' = [rd EXCEPT !.got = first \o rest]
        /\ pos' = [pos EXCEPT ![f] = Len(rd'.got)] /\ pc' = rd.then
        /\ UNCHANGED <<piped, pipe, kid, ext_subprocs>>
    BY <1>6 DEF FirstRead
  <2>. HIDE DEF first, rest, b
  <2>2. rd'.got = b /\ rd' = [rd EXCEPT !.got = b] /\ pos' = [pos EXCEPT ![f] = Len(b)]
    <3>1. rd' = [rd EXCEPT !.got = b]
      BY <1>3, <2>1
    <3>2. rd'.got = b
      BY <1>2, <3>1 DEF Types, RdType
    <3>. QED BY <2>1, <3>1, <3>2
  <2>3. Len(b) \in Nat
    BY <1>3
  <2>4. CASE f = "src"
    BY <1>1, <1>3, <2>1, <2>2, <2>3, <2>4, BlockRead DEF extVars
  <2>5. CASE f = "inp"
    <3>1. "inp" \notin piped /\ pos["inp"] = 0 /\ 0 + Len(b) = Len(b)
      BY <1>1, <2>3, <2>5 DEF MainInv, Input
    <3>2. b = Block("inp", pos["inp"], rd.want) /\ Len(b) = pos["inp"] + Len(b)
      BY <2>5, <3>1 DEF b
    <3>. QED BY <1>1, <1>3, <2>1, <2>2, <2>3, <2>5, <3>1, <3>2, BlockRead DEF extVars
  <2>. QED BY <1>2, <2>4, <2>5
<1>. QED BY <1>5, <1>6

\* A read from a pipe goes on.
LEMMA FedWhileReading ==
  ASSUME MainInv, pc = "reading", UNCHANGED <<pc, lib, nread, job, piped>>,
         rd'.file = rd.file, rd'.want = rd.want, rd'.then = rd.then, rd.file \in piped,
         rd.file \in {"src", "inp"},
         rd.file = "src" => pos'["inp"] = pos["inp"] /\ (InputOver => InputOver'),
         rd.file = "inp" => /\ After(rd'.got, Len(lib.fed))
                            /\ Len(lib.fed) + Len(rd'.got) = pos'["inp"]
  PROVE  Fed'
<1>1. Fed /\ WinsizeOf' = WinsizeOf
  BY DEF MainInv, WinsizeOf
<1>2. CASE rd.file = "src"
  BY <1>1, <1>2 DEF Fed
<1>3. CASE rd.file = "inp"
  <2>1. /\ After(lib.fed, 0) /\ lib.avail = <<>> /\ rd.want = WinsizeOf /\ rd.then = "got"
    BY <1>1, <1>3 DEF Fed
  <2>. QED BY <1>1, <1>3, <2>1 DEF Fed
<1>. QED BY <1>2, <1>3

\* One unit is taken from a pipe.
LEMMA UnitRead ==
  ASSUME MainInv, NEW f \in {"src", "inp"}, f = rd.file, f \in piped, pc = "reading",
         UNCHANGED <<pc, job, fresh, piped, nread, opened, lib, waited, result, kid, ext_subprocs, written>>,
         NEW q \in Pipe, q = Stdout(Decomp(f)), pipe[q].buf # <<>>,
         pos' = [pos EXCEPT ![f] = @ + 1], rd' = [rd EXCEPT !.got = Append(@, Head(pipe[q].buf))],
         pipe' = [pipe EXCEPT ![q].buf = Tail(@)]
  PROVE  MainInv'
<1>. DEFINE b == pipe[q].buf
<1>1. /\ Types /\ rd \in RdType /\ rd.got \in Seq(Nat) /\ b \in Seq(Nat) /\ q # RQ
      /\ (q = DQ <=> f = "inp") /\ pos["inp"] \in Nat /\ pos["src"] \in Nat
  <2>1. Types /\ pipe[q] \in PipeType /\ rd \in RdType /\ pos \in [{"src", "inp"} -> Nat]
    BY DEF MainInv, Types
  <2>2. q # RQ /\ (q = DQ <=> f = "inp")
    BY DEF Decomp, Stdout, RQ, Recomp, Stdin, DQ, D
  <2>. QED BY <2>1, <2>2 DEF RdType, PipeType
<1>2. Tail(b) \in Seq(Nat) /\ Head(b) \in Nat /\ Len(Tail(b)) + 1 = Len(b)
      /\ Len(b) \in Nat /\ Len(Tail(b)) \in Nat /\ Len(rd.got) \in Nat
  BY <1>1, HeadTailProperties, EmptySeq
<1>3. pipe' = [pipe EXCEPT ![q].buf = Tail(b)] /\ rd' = [rd EXCEPT !.got = Append(rd.got, Head(b))]
  BY <1>1 DEF Types
<1>. HIDE DEF b
<1>4. /\ pipe' \in [Pipe -> PipeType] /\ pipe'[q].buf = Tail(b)
      /\ pipe'[q].readers = pipe[q].readers /\ pipe'[q].writers = pipe[q].writers
      /\ \A x \in Pipe \ {q} : pipe'[x] = pipe[x]
  BY <1>1, <1>2, <1>3, PipeWritten
<1>5. /\ rd' \in RdType /\ rd'.got = Append(rd.got, Head(b)) /\ rd'.file = rd.file
      /\ rd'.want = rd.want /\ rd'.then = rd.then
  <2>1. Append(rd.got, Head(b)) \in Seq(Nat)
    BY <1>1, <1>2
  <2>. QED BY <1>1, <1>3, <2>1 DEF RdType
<1>6. /\ pos' \in [{"src", "inp"} -> Nat] /\ pos'[f] = pos[f] + 1
      /\ (f = "src" => pos'["inp"] = pos["inp"])
  BY <1>1 DEF Types
<1>7. Types'
  BY <1>1, <1>4, <1>5, <1>6 DEF Types
<1>8. Output'
  <2>1. pipe'[RQ] = pipe[RQ] /\ Wrote' = Wrote
    BY <1>1, <1>4, Names DEF Wrote
  <2>2. lib.st = "finish" => pc = "again"
    BY DEF MainInv, Output
  <2>. QED BY <2>1, <2>2, OutputKept
<1>9. Fed /\ WinsizeOf' = WinsizeOf
  BY DEF MainInv, WinsizeOf
<1>a. CASE f = "src"
  <2>1. pipe'[DQ] = pipe[DQ]
    BY <1>1, <1>4, <1>a, Names
  <2>2. Input' /\ (InputOver => InputOver')
    BY <1>6, <1>a, <2>1, InputKept
  <2>3. Fed'
    <3>1. rd.file = "src" /\ rd'.file = "src" /\ pos'["inp"] = pos["inp"] /\ "src" \in piped
      BY <1>5, <1>6, <1>a
    <3>. QED BY <1>5, <2>2, <3>1, FedWhileReading
  <2>. QED BY <1>7, <1>8, <2>2, <2>3, ParentKept
<1>b. CASE f = "inp"
  <2>1. Input /\ Decompressed /\ q = DQ /\ "inp" \notin fresh
    BY <1>1, <1>b DEF MainInv, Input
  <2>2. /\ After(b, pos["inp"]) /\ After(kid[D].hand, pos["inp"] + Len(b))
        /\ kid[D].last = pos["inp"] + Len(b) + Len(kid[D].hand)
    BY <2>1 DEF Decompressed, b
  <2>3. Head(b) = pos["inp"] + 1 /\ After(Tail(b), pos["inp"] + 1)
    <3>1. b # <<>>
      BY DEF b
    <3>. QED BY <1>1, <2>2, <3>1, AfterHead
  <2>4. /\ pos'["inp"] = pos["inp"] + 1
        /\ pos'["inp"] + Len(Tail(b)) = pos["inp"] + Len(b)
    <3>1. PICK i \in Nat : i = pos["inp"]
      BY <1>1
    <3>2. PICK m \in Nat : m = Len(b)
      BY <1>2
    <3>3. PICK n \in Nat : n = Len(Tail(b))
      BY <1>2
    <3>. QED BY <1>2, <1>6, <1>b, <3>1, <3>2, <3>3
  <2>5. Decompressed'
    <3>1. /\ After(pipe'[DQ].buf, pos'["inp"])
          /\ After(kid'[D].hand, pos'["inp"] + Len(pipe'[DQ].buf))
          /\ kid'[D].last = pos'["inp"] + Len(pipe'[DQ].buf) + Len(kid'[D].hand)
      BY <1>4, <2>1, <2>2, <2>3, <2>4
    <3>2. kid'[D].st = "ok" => kid'[D].hand = <<>> /\ kid'[D].last = job'.size["inp"]
      BY <2>1 DEF Decompressed
    <3>3. pipe'[DQ].writers = (IF Running(D)' THEN {D} ELSE {})
      BY <1>4, <2>1 DEF Decompressed, Running
    <3>4. pc' \notin {"failing", "wait", "end"} =>
            Tool \in pipe'[DQ].readers /\ kid'[D].st \notin {"none", "sigpipe"}
      BY <1>4, <2>1 DEF Decompressed
    <3>. QED BY <3>1, <3>2, <3>3, <3>4 DEF Decompressed
  <2>6. Input'
    BY <1>b, <2>1, <2>5 DEF Input
  <2>7. Fed'
    <3>1. /\ After(lib.fed, 0) /\ lib.avail = <<>> /\ After(rd.got, Len(lib.fed))
          /\ Len(lib.fed) + Len(rd.got) = pos["inp"] /\ rd.want = WinsizeOf /\ rd.then = "got"
      BY <1>9, <1>b DEF Fed
    <3>2. PICK m \in Nat : m = Len(lib.fed)
      <4>1. lib.fed \in Seq(Nat)
        BY <1>1 DEF Types, LibType
      <4>2. Len(lib.fed) \in Nat
        BY <4>1
      <4>. QED BY <4>2
    <3>3. /\ After(rd'.got, m) /\ Len(rd'.got) = Len(rd.got) + 1
      <4>1. Head(b) = m + Len(rd.got) + 1
        BY <2>3, <3>1, <3>2
      <4>. QED BY <1>1, <1>2, <1>5, <3>1, <3>2, <4>1, AfterAppend
    <3>4. m + Len(rd'.got) = pos'["inp"]
      <4>1. PICK k \in Nat : k = Len(rd.got)
        BY <1>2
      <4>2. m + k = pos["inp"] /\ Len(rd'.got) = k + 1 /\ pos'["inp"] = pos["inp"] + 1
        BY <2>4, <3>1, <3>2, <3>3, <4>1
      <4>3. m + (k + 1) = (m + k) + 1
        OBVIOUS
      <4>. QED BY <4>2, <4>3
    <3>5. rd.file = "inp" /\ rd'.file = "inp" /\ rd'.want = rd.want /\ rd'.then = rd.then
          /\ "inp" \in piped
      BY <1>5, <1>b
    <3>6. After(rd'.got, Len(lib.fed)) /\ Len(lib.fed) + Len(rd'.got) = pos'["inp"]
      BY <3>2, <3>3, <3>4
    <3>. QED BY <3>5, <3>6, FedWhileReading
  <2>. QED BY <1>7, <1>8, <2>6, <2>7, ParentKept
<1>. QED BY <1>a, <1>b

LEMMA PipeReadInv == MainInv /\ PipeRead => MainInv'
<1>. SUFFICES ASSUME MainInv, PipeRead PROVE MainInv'
  OBVIOUS
<1>. DEFINE q == Stdout(Decomp(rd.file))
<1>1. /\ pc = "reading" /\ rd.file \in piped
      /\ UNCHANGED <<job, fresh, piped, nread, opened, lib, waited, result, kid, ext_subprocs, written>>
  BY DEF PipeRead
<1>2. Types /\ rd \in RdType /\ rd.file \in {"src", "inp"} /\ rd.then \in {"read", "again", "got"}
  BY DEF MainInv, Types, RdType
<1>3. q \in Pipe
  BY <1>2 DEF Stdout, Decomp, Pipe
<1>a. CASE Len(rd.got) = rd.want \/ (pipe[q].buf = <<>> /\ pipe[q].writers = {})
  <2>1. pc' = rd.then /\ UNCHANGED <<rd, pos, pipe>>
    BY <1>a DEF PipeRead
  <2>2. Types' /\ pc' \notin Over
    BY <1>1, <1>2, <2>1 DEF Types, Places, Over
  <2>3. Input' /\ (InputOver => InputOver')
    BY <1>1, <2>1, <2>2, InputKept DEF Over
  <2>4. Output'
    <3>1. lib.st # "finish" /\ Wrote' = Wrote
      BY <1>1 DEF MainInv, Output, Wrote
    <3>. QED BY <1>1, <2>1, <2>2, <3>1, OutputKept DEF Over
  <2>5. CASE rd.file = "src"
    <3>1. Fed'
      BY <1>1, <2>1, <2>3, <2>5, SourceRead
    <3>. QED BY <1>1, <2>2, <2>3, <2>4, <3>1, ParentKept DEF Over
  <2>6. CASE rd.file = "inp"
    <3>1. /\ After(rd.got, Len(lib.fed)) /\ Len(lib.fed) + Len(rd.got) = pos["inp"]
          /\ rd.want = WinsizeOf
      BY <1>1, <2>6 DEF MainInv, Fed
    <3>2. Len(rd.got) # WinsizeOf => InputOver'
      <4>. SUFFICES ASSUME Len(rd.got) # WinsizeOf PROVE InputOver
        BY <2>3
      <4>1. pipe[DQ].buf = <<>> /\ pipe[DQ].writers = {}
        BY <1>a, <2>6, <3>1 DEF DQ, D
      <4>2. kid[D].st \notin {"none", "run", "sigpipe"}
        BY <1>1, <2>6, <4>1 DEF MainInv, Input, Decompressed, Running
      <4>. QED BY <1>1, <2>6, <4>1, <4>2 DEF InputOver
    <3>3. Fed'
      BY <1>1, <2>1, <2>6, <3>1, <3>2, InputRead
    <3>. QED BY <1>1, <2>2, <2>3, <2>4, <3>3, ParentKept DEF Over
  <2>. QED BY <1>2, <2>5, <2>6
<1>b. CASE ~ (Len(rd.got) = rd.want \/ (pipe[q].buf = <<>> /\ pipe[q].writers = {}))
  <2>1. /\ pipe[q].buf # <<>> /\ pos' = [pos EXCEPT ![rd.file] = @ + 1]
        /\ rd' = [rd EXCEPT !.got = Append(@, Head(pipe[q].buf))]
        /\ pipe' = [pipe EXCEPT ![q].buf = Tail(@)] /\ UNCHANGED pc
    BY <1>b DEF PipeRead
  <2>. HIDE DEF q
  <2>. QED BY <1>1, <1>2, <1>3, <2>1, UnitRead DEF q
<1>. QED BY <1>a, <1>b

-----------------------------------------------------------------------------
(* The end of the tool.                                                    *)

LEMMA KilledIs ==
  ASSUME MainInv, NEW n
  PROVE  /\ Killed(kid, n) \in [Child -> KidType]
         /\ \A p \in Child : LET k == Killed(kid, n)[p] IN
              \/ k = kid[p]
              \/ /\ kid[p].st = "run" /\ k.st = "killed" /\ k.hand = kid[p].hand
                 /\ k.last = kid[p].last
<1>1. kid \in [Child -> KidType]
  BY DEF MainInv, Types
<1>2. ASSUME NEW p \in Child
      PROVE  LET k == [kid[p] EXCEPT !.st = "killed"]
             IN  k \in KidType /\ k.st = "killed" /\ k.hand = kid[p].hand /\ k.last = kid[p].last
  <2>1. kid[p] \in KidType
    BY <1>1
  <2>. QED BY <2>1 DEF KidType, Status
<1>3. ASSUME NEW p \in Child
      PROVE  \/ Killed(kid, n)[p] = kid[p]
             \/ kid[p].st = "run" /\ Killed(kid, n)[p] = [kid[p] EXCEPT !.st = "killed"]
  BY DEF Killed
<1>4. Killed(kid, n) = [p \in Child |-> Killed(kid, n)[p]]
  BY DEF Killed
<1>5. ASSUME NEW p \in Child
      PROVE  /\ Killed(kid, n)[p] \in KidType
             /\ LET k == Killed(kid, n)[p] IN
                \/ k = kid[p]
                \/ /\ kid[p].st = "run" /\ k.st = "killed" /\ k.hand = kid[p].hand
                   /\ k.last = kid[p].last
  BY <1>1, <1>2, <1>3
<1>. QED BY <1>4, <1>5

LEMMA AfterKillIs ==
  ASSUME NEW ps \in [Pipe -> PipeType], NEW k
  PROVE  /\ AfterKill(k, ps) \in [Pipe -> PipeType]
         /\ \A q \in Pipe :
              /\ AfterKill(k, ps)[q].buf = ps[q].buf
              /\ AfterKill(k, ps)[q].writers = {p \in ps[q].writers : p # Tool => k[p].st = "run"}
<1>1. ASSUME NEW r \in PipeType
      PROVE  LET w == [r EXCEPT !.readers = {p \in @ : p # Tool => k[p].st = "run"},
                                !.writers = {p \in @ : p # Tool => k[p].st = "run"}]
             IN  /\ w \in PipeType /\ w.buf = r.buf
                 /\ w.writers = {p \in r.writers : p # Tool => k[p].st = "run"}
  BY DEF PipeType
<1>2. \A q \in Pipe :
        /\ ps[q] \in PipeType
        /\ AfterKill(k, ps)[q] =
             [ps[q] EXCEPT !.readers = {p \in @ : p # Tool => k[p].st = "run"},
                           !.writers = {p \in @ : p # Tool => k[p].st = "run"}]
  BY DEF AfterKill
<1>3. AfterKill(k, ps) = [q \in Pipe |-> AfterKill(k, ps)[q]]
  BY DEF AfterKill
<1>. QED BY <1>1, <1>2, <1>3

LEMMA FinishIs ==
  ASSUME MainInv, NEW r, Finish(r)
  PROVE  /\ result' = r /\ pc' = "end" /\ UNCHANGED <<ext_subprocs, written>>
         /\ kid' \in [Child -> KidType] /\ pipe' \in [Pipe -> PipeType]
         /\ r # "failure" => kid' = kid
         /\ \A p \in Child :
              \/ kid'[p] = kid[p]
              \/ /\ kid[p].st = "run" /\ kid'[p].st = "killed" /\ kid'[p].hand = kid[p].hand
                 /\ kid'[p].last = kid[p].last
         /\ \A q \in Pipe :
              /\ pipe'[q].buf = pipe[q].buf
              /\ pipe'[q].writers =
                   {p \in pipe[q].writers \ {Tool} : p # Tool => kid'[p].st = "run"}
<1>1. /\ result' = r /\ pc' = "end" /\ UNCHANGED <<ext_subprocs, written>>
      /\ kid' = (IF r = "failure" THEN Killed(kid, waited + 1) ELSE kid)
      /\ pipe' = AfterKill(kid', Without(pipe, Tool))
  BY DEF Finish
<1>2. kid \in [Child -> KidType] /\ pipe \in [Pipe -> PipeType]
  BY DEF MainInv, Types
<1>3. /\ Without(pipe, Tool) \in [Pipe -> PipeType]
      /\ \A q \in Pipe : /\ Without(pipe, Tool)[q].buf = pipe[q].buf
                         /\ Without(pipe, Tool)[q].writers = pipe[q].writers \ {Tool}
  BY <1>2, WithoutIs
<1>4. /\ pipe' \in [Pipe -> PipeType]
      /\ \A q \in Pipe :
           /\ pipe'[q].buf = Without(pipe, Tool)[q].buf
           /\ pipe'[q].writers =
                {p \in Without(pipe, Tool)[q].writers : p # Tool => kid'[p].st = "run"}
  BY <1>1, <1>3, AfterKillIs
<1>5. /\ kid' \in [Child -> KidType]
      /\ \A p \in Child :
           \/ kid'[p] = kid[p]
           \/ /\ kid[p].st = "run" /\ kid'[p].st = "killed" /\ kid'[p].hand = kid[p].hand
              /\ kid'[p].last = kid[p].last
  <2>1. CASE r = "failure"
    BY <1>1, <2>1, KilledIs
  <2>2. CASE r # "failure"
    BY <1>1, <1>2, <2>2
  <2>. QED BY <2>1, <2>2
<1>6. \A q \in Pipe :
        /\ pipe'[q].buf = pipe[q].buf
        /\ pipe'[q].writers = {p \in pipe[q].writers \ {Tool} : p # Tool => kid'[p].st = "run"}
  BY <1>3, <1>4
<1>. QED BY <1>1, <1>4, <1>5, <1>6

LEMMA FinishInv ==
  ASSUME MainInv, pc # "end", NEW r \in {"success", "failure", "signal"}, Finish(r),
         UNCHANGED <<job, rd, pos, fresh, piped, nread, opened, lib, waited>>,
         lib.st # "finish", r = "success" => CompleteOnSuccess'
  PROVE  MainInv'
<1>1. /\ result' = r /\ pc' = "end" /\ UNCHANGED <<ext_subprocs, written>>
      /\ kid' \in [Child -> KidType] /\ pipe' \in [Pipe -> PipeType]
      /\ \A p \in Child :
           \/ kid'[p] = kid[p]
           \/ /\ kid[p].st = "run" /\ kid'[p].st = "killed" /\ kid'[p].hand = kid[p].hand
              /\ kid'[p].last = kid[p].last
      /\ \A q \in Pipe :
           /\ pipe'[q].buf = pipe[q].buf
           /\ pipe'[q].writers =
                {p \in pipe[q].writers \ {Tool} : p # Tool => kid'[p].st = "run"}
  BY FinishIs
<1>2. Types /\ Input /\ Fed /\ Output /\ Waiting
  BY DEF MainInv
<1>3. Types'
  BY <1>1, <1>2 DEF Types, Places
<1>4. /\ D \in Child /\ DQ \in Pipe /\ Recomp \in Child /\ RQ \in Pipe /\ D # Tool
  BY Names
<1>5. Input'
  <2>1. CASE "inp" \in piped
    <3>1. "inp" \notin fresh /\ Decompressed
      BY <1>2, <2>1 DEF Input
    <3>2. /\ pipe'[DQ].buf = pipe[DQ].buf /\ kid'[D].hand = kid[D].hand
          /\ kid'[D].last = kid[D].last /\ (kid'[D].st \in {"ok", "run"} => kid[D].st = kid'[D].st)
      BY <1>1, <1>4
    <3>3. pipe'[DQ].writers = (IF Running(D)' THEN {D} ELSE {})
      <4>1. pipe[DQ].writers = (IF Running(D) THEN {D} ELSE {})
        BY <3>1 DEF Decompressed
      <4>2. pipe'[DQ].writers = {p \in pipe[DQ].writers \ {Tool} : p # Tool => kid'[p].st = "run"}
        BY <1>1, <1>4
      <4>. QED BY <1>4, <3>2, <4>1, <4>2 DEF Running
    <3>4. Decompressed'
      BY <1>1, <3>1, <3>2, <3>3 DEF Decompressed
    <3>. QED BY <2>1, <3>1, <3>4 DEF Input
  <2>2. CASE "inp" \notin piped
    <3>1. /\ kid[D] = NoKid /\ pipe[DQ].buf = <<>> /\ pipe[DQ].writers = {}
          /\ pos["inp"] <= job.size["inp"] /\ ("inp" \in fresh => pos["inp"] = 0)
      BY <1>2, <2>2 DEF Input
    <3>2. kid'[D] = NoKid
      BY <1>1, <1>4, <3>1 DEF NoKid
    <3>3. pipe'[DQ].buf = <<>> /\ pipe'[DQ].writers = {}
      BY <1>1, <1>4, <3>1
    <3>. QED BY <2>2, <3>1, <3>2, <3>3 DEF Input
  <2>. QED BY <2>1, <2>2
<1>6. Fed'
  BY <1>1, <1>2 DEF Fed
<1>7. Output'
  <2>1. /\ kid'[Recomp].hand = kid[Recomp].hand /\ pipe'[RQ].buf = pipe[RQ].buf
        /\ kid'[Recomp].st \in {"ok", "sigpipe", "none"} => kid[Recomp].st = kid'[Recomp].st
        /\ kid[Recomp] = NoKid => kid'[Recomp] = NoKid
    BY <1>1, <1>4 DEF NoKid
  <2>2. Makes' = Makes /\ Wrote' = Wrote
    BY DEF Makes, Wrote
  <2>3. Makes => /\ After(written', 0)
                 /\ After(kid'[Recomp].hand, Len(written'))
                 /\ After(pipe'[RQ].buf, Len(written') + Len(kid'[Recomp].hand))
                 /\ Len(written') + Len(kid'[Recomp].hand) + Len(pipe'[RQ].buf) = Wrote'
    BY <1>1, <1>2, <2>1, <2>2 DEF Output
  <2>4. IF opened' /\ job'.recomp THEN kid'[Recomp].st # "none"
        ELSE kid'[Recomp] = NoKid /\ pipe'[RQ].buf = <<>>
    BY <1>2, <2>1 DEF Output
  <2>5. /\ kid'[Recomp].st # "sigpipe"
        /\ kid'[Recomp].st = "ok" => kid'[Recomp].hand = <<>> /\ pipe'[RQ].buf = <<>>
    BY <1>2, <2>1 DEF Output
  <2>. QED BY <1>1, <2>2, <2>3, <2>4, <2>5 DEF Output
<1>8. Waiting'
  <2>1. \A p \in Child : /\ kid'[p].st # "none" => kid[p].st # "none"
                         /\ kid[p].st \in {"ok", "sigpipe"} => kid'[p].st = kid[p].st
    BY <1>1
  <2>. QED BY <1>1, <2>1, WaitingKept
<1>9. CompleteOnSuccess'
  BY <1>1 DEF CompleteOnSuccess
<1>10. result' # "none" /\ pc' = "end"
  BY <1>1
<1>. QED BY <1>3, <1>5, <1>6, <1>7, <1>8, <1>9, <1>10 DEF MainInv

LEMMA FailuresInv == MainInv /\ (OpenFails \/ ReadFails \/ Failing \/ LibError) => MainInv'
<1>. SUFFICES ASSUME MainInv, OpenFails \/ ReadFails \/ Failing \/ LibError PROVE MainInv'
  OBVIOUS
<1>1. /\ pc # "end" /\ lib.st # "finish" /\ Finish("failure")
      /\ UNCHANGED <<job, rd, pos, fresh, piped, nread, opened, lib, waited>>
  BY DEF MainInv, Output, OpenFails, ReadFails, Failing, LibError, mainFrame
<1>. QED BY <1>1, FinishInv

-----------------------------------------------------------------------------
(* The output.                                                             *)

LEMMA StartedEmpty ==
  /\ Started(<<>>, 0) \in KidType /\ Started(<<>>, 0).st = "run"
  /\ Started(<<>>, 0).hand = <<>>
<1>1. <<>> \in Seq(Nat) /\ 0 \in Nat
  OBVIOUS
<1>. QED BY <1>1, StartedIs

LEMMA NewPipe ==
  LET n == [NoPipe EXCEPT !.readers = {Recomp}, !.writers = {Tool}]
  IN  n \in PipeType /\ n.buf = <<>> /\ Tool \in n.writers
<1>1. <<>> \in Seq(Nat) /\ Recomp \in Child
  BY Names
<1>2. NoPipe \in PipeType /\ NoPipe.buf = <<>>
  BY <1>1 DEF NoPipe, PipeType
<1>. QED BY <1>1, <1>2 DEF PipeType

LEMMA OutputOpened ==
  ASSUME MainInv, pc = "output", ~ opened, job.recomp, Recompress(1), opened' = TRUE,
         pc' = "output",
         UNCHANGED <<job, rd, pos, fresh, piped, nread, lib, waited, result, written>>
  PROVE  MainInv'
<1>1. /\ kid' = [kid EXCEPT ![Recomp] = Started(<<>>, 0)]
      /\ ext_subprocs' = Append(ext_subprocs, Recomp)
      /\ pipe' = [Inherited(pipe, Recomp) EXCEPT
                    ![RQ] = [NoPipe EXCEPT !.readers = {Recomp}, !.writers = {Tool}]]
  BY DEF Recompress, RQ
<1>2. /\ Types /\ Input /\ Fed /\ Output /\ Waiting /\ WinsizeOf' = WinsizeOf /\ Wrote' = Wrote
  BY DEF MainInv, WinsizeOf, Wrote
<1>3. /\ kid \in [Child -> KidType] /\ pipe \in [Pipe -> PipeType] /\ ext_subprocs \in Seq(Child)
  BY <1>2 DEF Types
<1>4. /\ D \in Child /\ DQ \in Pipe /\ Recomp \in Child /\ RQ \in Pipe /\ D # Recomp /\ DQ # RQ
      /\ Tool # D
  BY Names
<1>5. /\ kid' \in [Child -> KidType] /\ kid'[Recomp].st = "run" /\ kid'[Recomp].hand = <<>>
      /\ \A x \in Child \ {Recomp} : kid'[x] = kid[x]
  <2>1. /\ Started(<<>>, 0) \in KidType /\ Started(<<>>, 0).st = "run"
        /\ Started(<<>>, 0).hand = <<>>
    BY StartedEmpty
  <2>. QED BY <1>1, <1>3, <1>4, <2>1
<1>6. /\ pipe' \in [Pipe -> PipeType] /\ pipe'[RQ].buf = <<>> /\ Tool \in pipe'[RQ].writers
      /\ pipe'[DQ].buf = pipe[DQ].buf /\ pipe[DQ].readers \subseteq pipe'[DQ].readers
      /\ Tool \notin pipe[DQ].writers => pipe'[DQ].writers = pipe[DQ].writers
  <2>. DEFINE c == Inherited(pipe, Recomp)
              n == [NoPipe EXCEPT !.readers = {Recomp}, !.writers = {Tool}]
  <2>1. /\ c \in [Pipe -> PipeType]
        /\ c[DQ].buf = pipe[DQ].buf /\ pipe[DQ].readers \subseteq c[DQ].readers
        /\ Tool \notin pipe[DQ].writers => c[DQ].writers = pipe[DQ].writers
    BY <1>3, <1>4, InheritedIs
  <2>2. n \in PipeType /\ n.buf = <<>> /\ Tool \in n.writers
    <3>. HIDE DEF c
    <3>. QED BY NewPipe
  <2>3. pipe' = [c EXCEPT ![RQ] = n]
    BY <1>1
  <2>. HIDE DEF c, n
  <2>4. pipe' \in [Pipe -> PipeType] /\ pipe'[RQ] = n /\ pipe'[DQ] = c[DQ]
    BY <1>4, <2>1, <2>2, <2>3
  <2>. QED BY <2>1, <2>2, <2>4
<1>7. /\ ext_subprocs' \in Seq(Child) /\ Len(ext_subprocs') = Len(ext_subprocs) + 1
      /\ ext_subprocs'[Len(ext_subprocs) + 1] = Recomp /\ Len(ext_subprocs) \in Nat
      /\ \A j \in 1 .. Len(ext_subprocs) : ext_subprocs'[j] = ext_subprocs[j]
  BY <1>1, <1>3, <1>4
<1>8. waited = 0 /\ lib.st # "finish"
  BY <1>2 DEF Waiting, Output
<1>9. Types'
  BY <1>2, <1>5, <1>6, <1>7, <1>8 DEF Types
<1>10. Input' /\ (InputOver => InputOver')
  <2>1. pipe'[DQ].writers = pipe[DQ].writers
    <3>1. pipe[DQ].writers \subseteq {D}
      BY <1>2 DEF Input, Decompressed
    <3>. QED BY <1>4, <1>6, <3>1
  <2>2. kid'[D] = kid[D]
    BY <1>4, <1>5
  <2>. QED BY <1>6, <2>1, <2>2, InputKept DEF Over
<1>11. Fed'
  BY <1>2, <1>10 DEF Fed
<1>12. Output'
  <2>1. kid[Recomp] = NoKid /\ pipe[RQ].buf = <<>>
    BY <1>2 DEF Output
  <2>2. kid[Recomp].hand = <<>>
    BY <2>1 DEF NoKid
  <2>3. Makes' <=> Makes
    BY DEF Makes
  <2>4. Makes => /\ After(written', 0)
                 /\ After(kid'[Recomp].hand, Len(written'))
                 /\ After(pipe'[RQ].buf, Len(written') + Len(kid'[Recomp].hand))
                 /\ Len(written') + Len(kid'[Recomp].hand) + Len(pipe'[RQ].buf) = Wrote'
    BY <1>2, <1>5, <1>6, <2>1, <2>2 DEF Output
  <2>. QED BY <1>5, <1>6, <1>8, <2>3, <2>4 DEF Output
<1>13. Waiting'
  <2>1. \A x \in Child : kid'[x].st # "none" =>
          \E j \in 1 .. Len(ext_subprocs') : ext_subprocs'[j] = x
    <3>1. /\ Len(ext_subprocs) + 1 \in 1 .. Len(ext_subprocs')
          /\ 1 .. Len(ext_subprocs) \subseteq 1 .. Len(ext_subprocs')
      BY <1>7
    <3>. QED BY <1>2, <1>5, <1>7, <3>1 DEF Waiting
  <2>. QED BY <1>8, <2>1 DEF Waiting
<1>. QED BY <1>9, <1>10, <1>11, <1>12, <1>13, ParentMoves

LEMMA OpenOutputInv == MainInv /\ OpenOutput => MainInv'
<1>. SUFFICES ASSUME MainInv, OpenOutput PROVE MainInv'
  OBVIOUS
<1>1. /\ pc = "output" /\ ~ opened
      /\ UNCHANGED <<lib, job, rd, pos, fresh, piped, nread, waited>>
  BY DEF OpenOutput
<1>2. lib.st # "finish" /\ Types
  BY <1>1 DEF MainInv, Output
<1>a. CASE Finish("failure") /\ UNCHANGED opened
  BY <1>1, <1>2, <1>a, FinishInv
<1>b. CASE ~ job.recomp /\ opened' = TRUE /\ Goto("output")
  <2>1. UNCHANGED <<pc, result, kid, pipe, ext_subprocs, written>>
    BY <1>1, <1>b DEF Goto, extVars
  <2>2. Types'
    BY <1>1, <1>2, <1>b, <2>1 DEF Types
  <2>3. Input' /\ (InputOver => InputOver')
    BY <1>1, <2>1, InputKept DEF Over
  <2>4. Fed'
    <3>1. Fed /\ WinsizeOf' = WinsizeOf
      BY <1>1 DEF MainInv, WinsizeOf
    <3>. QED BY <1>1, <2>1, <2>3, <3>1 DEF Fed
  <2>5. Output'
    <3>1. Output /\ Makes' = Makes /\ Wrote' = Wrote
      BY <1>1 DEF MainInv, Makes, Wrote
    <3>. QED BY <1>1, <1>2, <1>b, <2>1, <3>1 DEF Output
  <2>. QED BY <1>1, <2>1, <2>2, <2>3, <2>4, <2>5, ParentKept
<1>c. CASE /\ job.recomp /\ UNCHANGED <<written, result>>
           /\ \E forks \in IF "fork" \in Faults THEN {0, 1} ELSE {1} :
                /\ Recompress(forks)
                /\ opened' = (forks = 1) /\ pc' = IF forks = 1 THEN "output" ELSE "failing"
  <2>1. PICK forks \in {0, 1} :
          /\ Recompress(forks)
          /\ opened' = (forks = 1) /\ pc' = IF forks = 1 THEN "output" ELSE "failing"
    BY <1>c
  <2>2. CASE forks = 1
    <3>1. Recompress(1) /\ opened' = TRUE /\ pc' = "output"
      BY <2>1, <2>2
    <3>. QED BY <1>1, <1>c, <3>1, OutputOpened
  <2>3. CASE forks = 0
    <3>1. forks # 1
      BY <2>3
    <3>2. UNCHANGED <<kid, ext_subprocs, pipe>> /\ opened' = FALSE /\ pc' = "failing"
      BY <2>1, <2>3, <3>1, Zenon DEF Recompress
    <3>3. opened' = opened /\ Wrote' = Wrote
      BY <1>1, <3>2 DEF MainInv, Types, Wrote
    <3>4. Types'
      BY <1>1, <1>2, <1>c, <3>2, <3>3 DEF Types, Places
    <3>5. Input'
      BY <1>1, <3>2, InputKept DEF Over
    <3>6. Output'
      BY <1>1, <1>2, <1>c, <3>2, <3>3, OutputKept
    <3>7. Fed'
      BY <1>1, <3>2 DEF MainInv, Fed
    <3>. QED BY <1>1, <1>c, <3>2, <3>4, <3>5, <3>6, <3>7, ParentKept
  <2>. QED BY <2>2, <2>3
<1>. QED BY <1>a, <1>b, <1>c DEF OpenOutput

\* The library is told that its output is out.
LEMMA OutputTaken ==
  ASSUME MainInv, pc = "output",
         UNCHANGED <<job, rd, pos, fresh, piped, nread, opened, waited, result, kid, ext_subprocs>>,
         NEW st \in {"finish", "aborted"}, lib' = [lib EXCEPT !.st = st],
         pc' = (IF st = "finish" THEN "again" ELSE "done"),
         st = "aborted" => job.cmd = "printhdr",
         written' \in Seq(Nat), pipe' \in [Pipe -> PipeType], pipe'[DQ] = pipe[DQ],
         Output'
  PROVE  MainInv'
<1>1. Types /\ lib \in LibType
  BY DEF MainInv, Types
<1>2. /\ lib' \in LibType /\ lib'.avail = lib.avail /\ lib'.fed = lib.fed
      /\ lib'.window = lib.window /\ lib'.st = st
  BY <1>1 DEF LibType
<1>3. Types'
  BY <1>1, <1>2 DEF Types, Places
<1>4. Input' /\ (InputOver => InputOver')
  BY InputKept DEF Over
<1>5. Fed'
  <2>1. Fed /\ WinsizeOf' = WinsizeOf
    BY DEF MainInv, WinsizeOf
  <2>2. pc' \in {"again", "done"} /\ (pc' = "done" => job.cmd = "printhdr")
    OBVIOUS
  <2>. QED BY <1>2, <1>4, <2>1, <2>2 DEF Fed
<1>. QED BY <1>3, <1>4, <1>5, ParentKept

LEMMA WindowFacts ==
  ASSUME MainInv, pc = "output"
  PROVE  /\ lib.window \in Nat /\ Wrote = lib.window
         /\ \A st \in {"finish", "aborted"} :
              lib' = [lib EXCEPT !.st = st] =>
                lib'.st = st /\ Wrote' = IF st = "finish" THEN lib.window + 1 ELSE lib.window
<1>1. lib \in LibType /\ lib.st # "finish"
  BY DEF MainInv, Types, Output
<1>2. lib.window \in Nat
  BY <1>1 DEF LibType
<1>3. Wrote = lib.window
  BY <1>1, <1>2 DEF Wrote
<1>4. ASSUME NEW st \in {"finish", "aborted"}, lib' = [lib EXCEPT !.st = st]
      PROVE  lib'.st = st /\ Wrote' = IF st = "finish" THEN lib.window + 1 ELSE lib.window
  <2>1. lib'.st = st /\ lib'.window = lib.window
    BY <1>1, <1>4 DEF LibType
  <2>. QED BY <1>2, <2>1 DEF Wrote
<1>. QED BY <1>2, <1>3, <1>4

\* A window goes into the output file.
LEMMA FileWritten ==
  ASSUME MainInv, pc = "output", opened, Makes, ~ job.recomp, pc' = "again",
         UNCHANGED <<job, opened, kid, pipe>>, lib' = [lib EXCEPT !.st = "finish"],
         written' = Append(written, lib.window + 1)
  PROVE  Output' /\ written' \in Seq(Nat)
<1>1. /\ lib.window \in Nat /\ Wrote = lib.window /\ lib'.st = "finish"
      /\ Wrote' = lib.window + 1
  BY WindowFacts
<1>2. Output /\ written \in Seq(Nat)
  BY DEF MainInv, Types
<1>3. /\ kid[Recomp] = NoKid /\ pipe[RQ].buf = <<>> /\ kid[Recomp].hand = <<>>
  BY <1>2 DEF Output, NoKid
<1>4. Len(<<>>) = 0 /\ Len(written) \in Nat
  BY <1>2
<1>5. After(written, 0) /\ Len(written) + 0 + 0 = lib.window
  BY <1>1, <1>2, <1>3, <1>4 DEF Output
<1>6. After(written', 0) /\ written' \in Seq(Nat) /\ Len(written') = Len(written) + 1
  <2>1. lib.window + 1 \in Nat /\ lib.window + 1 = 0 + Len(written) + 1
    BY <1>1, <1>4, <1>5
  <2>. QED BY <1>2, <1>5, <2>1, AfterAppend
<1>7. Len(written') + 0 + 0 = Wrote'
  BY <1>1, <1>4, <1>5, <1>6
<1>8. Output'
  <2>1. /\ After(written', 0)
        /\ After(kid'[Recomp].hand, Len(written'))
        /\ After(pipe'[RQ].buf, Len(written') + Len(kid'[Recomp].hand))
        /\ Len(written') + Len(kid'[Recomp].hand) + Len(pipe'[RQ].buf) = Wrote'
    BY <1>3, <1>4, <1>6, <1>7, AfterNothing
  <2>2. kid'[Recomp].st \notin {"ok", "sigpipe"}
    BY <1>3 DEF NoKid
  <2>. QED BY <1>3, <2>1, <2>2 DEF Output
<1>. QED BY <1>6, <1>8

\* A window goes to the recompressor.
LEMMA RecompressorWritten ==
  ASSUME MainInv, pc = "output", opened, Makes, job.recomp, pc' = "again",
         UNCHANGED <<job, opened, kid, written>>, lib' = [lib EXCEPT !.st = "finish"],
         pipe' = [pipe EXCEPT ![RQ].buf = Append(@, lib.window + 1)]
  PROVE  Output' /\ pipe' \in [Pipe -> PipeType] /\ pipe'[DQ] = pipe[DQ]
<1>. DEFINE b == pipe[RQ].buf
            h == kid[Recomp].hand
            s == Append(b, lib.window + 1)
<1>1. /\ lib.window \in Nat /\ Wrote = lib.window /\ lib'.st = "finish"
      /\ Wrote' = lib.window + 1
  BY WindowFacts
<1>2. /\ Types /\ Output /\ written \in Seq(Nat) /\ RQ \in Pipe /\ DQ \in Pipe \ {RQ}
      /\ Recomp \in Child
  BY Names DEF MainInv, Types
<1>3. b \in Seq(Nat) /\ h \in Seq(Nat) /\ pipe \in [Pipe -> PipeType]
  <2>1. pipe[RQ] \in PipeType /\ kid[Recomp] \in KidType
    BY <1>2 DEF Types
  <2>. QED BY <1>2, <2>1 DEF PipeType, KidType, Types
<1>4. /\ After(written, 0) /\ After(h, Len(written)) /\ After(b, Len(written) + Len(h))
      /\ Len(written) + Len(h) + Len(b) = lib.window
  BY <1>1, <1>2 DEF Output
<1>5. Tool \in pipe[RQ].writers /\ kid[Recomp].st \notin {"none", "sigpipe", "ok"}
  BY <1>2 DEF Output
<1>6. pipe' = [pipe EXCEPT ![RQ].buf = s]
  BY <1>2, <1>3
<1>. HIDE DEF b, h
<1>7. PICK w \in Nat : w = Len(written)
  BY <1>2
<1>8. PICK n \in Nat : n = Len(h)
  BY <1>3
<1>9. PICK m \in Nat : m = Len(b)
  BY <1>3
<1>10. w + n \in Nat /\ lib.window + 1 = (w + n) + m + 1 /\ lib.window + 1 \in Nat
  BY <1>1, <1>4, <1>7, <1>8, <1>9
<1>11. After(b, w + n)
  BY <1>4, <1>7, <1>8
<1>12. After(s, w + n) /\ s \in Seq(Nat) /\ Len(s) = m + 1
  BY <1>3, <1>9, <1>10, <1>11, AfterAppend
<1>. HIDE DEF s
<1>13. /\ pipe' \in [Pipe -> PipeType] /\ pipe'[RQ].buf = s
       /\ pipe'[RQ].writers = pipe[RQ].writers /\ \A x \in Pipe \ {RQ} : pipe'[x] = pipe[x]
  BY <1>2, <1>6, <1>12, PipeWritten
<1>14. w + n + (m + 1) = Wrote'
  BY <1>1, <1>10
<1>15. Output'
  <2>1. /\ After(written', 0)
        /\ After(kid'[Recomp].hand, Len(written'))
        /\ After(pipe'[RQ].buf, Len(written') + Len(kid'[Recomp].hand))
        /\ Len(written') + Len(kid'[Recomp].hand) + Len(pipe'[RQ].buf) = Wrote'
    BY <1>4, <1>7, <1>8, <1>12, <1>13, <1>14 DEF h
  <2>2. kid'[Recomp].st \notin {"none", "sigpipe", "ok"} /\ Tool \in pipe'[RQ].writers
    BY <1>5, <1>13
  <2>. QED BY <2>1, <2>2 DEF Output
<1>. QED BY <1>2, <1>13, <1>15

LEMMA WriteOutputInv == MainInv /\ WriteOutput => MainInv'
<1>. SUFFICES ASSUME MainInv, WriteOutput PROVE MainInv'
  OBVIOUS
<1>1. /\ pc = "output" /\ (opened \/ job.noout)
      /\ UNCHANGED <<job, rd, pos, fresh, piped, nread, opened, waited>>
  BY DEF WriteOutput, mainFrame
<1>2. Types /\ Output /\ lib.st # "finish" /\ written \in Seq(Nat) /\ pipe \in [Pipe -> PipeType]
  BY <1>1 DEF MainInv, Output, Types
<1>a. CASE /\ job.cmd = "printhdr"
           /\ lib' = [lib EXCEPT !.st = "aborted"] /\ Goto("done")
  <2>1. UNCHANGED <<result, pipe, kid, ext_subprocs, written>> /\ pc' = "done"
    BY <1>a DEF Goto, extVars
  <2>2. lib'.st = "aborted" /\ Wrote' = Wrote
    BY <1>1, <1>a, WindowFacts
  <2>3. Output'
    BY <1>1, <2>1, <2>2, OutputKept
  <2>. QED BY <1>1, <1>2, <1>a, <2>1, <2>3, OutputTaken
<1>b. CASE /\ job.cmd # "printhdr" /\ job.noout
           /\ lib' = [lib EXCEPT !.st = "finish"] /\ Goto("again")
  <2>1. UNCHANGED <<result, pipe, kid, ext_subprocs, written>> /\ pc' = "again"
    BY <1>b DEF Goto, extVars
  <2>2. Output'
    <3>1. ~ Makes' /\ opened' = opened /\ job' = job
      BY <1>1, <1>b DEF Makes
    <3>2. /\ IF opened' /\ job'.recomp
             THEN Tool \in pipe'[RQ].writers /\ kid'[Recomp].st # "none"
             ELSE kid'[Recomp] = NoKid /\ pipe'[RQ].buf = <<>>
          /\ kid'[Recomp].st # "sigpipe" /\ kid'[Recomp].st # "ok"
      BY <1>1, <1>2, <2>1, <3>1 DEF Output
    <3>. QED BY <2>1, <3>1, <3>2 DEF Output
  <2>. QED BY <1>1, <1>2, <1>b, <2>1, <2>2, OutputTaken
<1>c. CASE /\ job.cmd # "printhdr" /\ ~ job.noout /\ ~ job.recomp
           /\ lib' = [lib EXCEPT !.st = "finish"] /\ pc' = "again"
           /\ written' = Append(written, lib.window + 1)
           /\ UNCHANGED <<result, pipe, kid, ext_subprocs>>
  <2>1. Output' /\ written' \in Seq(Nat)
    BY <1>1, <1>c, FileWritten DEF Makes
  <2>. QED BY <1>1, <1>2, <1>c, <2>1, OutputTaken
<1>d. CASE /\ job.cmd # "printhdr" /\ ~ job.noout /\ job.recomp
           /\ lib' = [lib EXCEPT !.st = "finish"] /\ pc' = "again"
           /\ pipe' = [pipe EXCEPT ![RQ].buf = Append(@, lib.window + 1)]
           /\ UNCHANGED <<result, kid, ext_subprocs, written>>
  <2>1. Output' /\ pipe' \in [Pipe -> PipeType] /\ pipe'[DQ] = pipe[DQ]
    BY <1>1, <1>d, RecompressorWritten DEF Makes
  <2>. QED BY <1>1, <1>2, <1>d, <2>1, OutputTaken
<1>e. CASE (Finish("signal") \/ Finish("failure")) /\ UNCHANGED lib
  BY <1>1, <1>2, <1>e, FinishInv
<1>. QED BY <1>a, <1>b, <1>c, <1>d, <1>e DEF WriteOutput, RQ

-----------------------------------------------------------------------------
(* The end.                                                                *)

LEMMA CloseFilesInv == MainInv /\ CloseFiles => MainInv'
<1>. SUFFICES ASSUME MainInv, CloseFiles PROVE MainInv'
  OBVIOUS
<1>1. pc = "done" /\ UNCHANGED <<job, rd, pos, fresh, piped, nread, opened, lib, waited>>
  BY DEF CloseFiles, mainFrame
<1>2. Types /\ Output /\ Input /\ Fed /\ lib.st # "finish" /\ pipe \in [Pipe -> PipeType]
      /\ kid \in [Child -> KidType]
  BY <1>1 DEF MainInv, Output, Types
<1>a. CASE Finish("failure")
  BY <1>1, <1>2, <1>a, FinishInv
<1>b. CASE /\ Makes => opened
           /\ pipe' = Without(pipe, Tool) /\ pc' = "wait"
           /\ UNCHANGED <<result, kid, ext_subprocs, written>>
  <2>1. /\ pipe' \in [Pipe -> PipeType]
        /\ \A q \in Pipe : pipe'[q].buf = pipe[q].buf /\ pipe'[q].writers = pipe[q].writers \ {Tool}
    BY <1>2, <1>b, WithoutIs
  <2>2. DQ \in Pipe /\ RQ \in Pipe /\ Tool # D
    BY Names
  <2>3. pipe'[DQ].writers = pipe[DQ].writers
    <3>1. pipe[DQ].writers \subseteq {D}
      BY <1>2 DEF Input, Decompressed
    <3>. QED BY <2>1, <2>2, <3>1
  <2>4. Types'
    BY <1>1, <1>2, <1>b, <2>1 DEF Types, Places
  <2>5. Input' /\ (InputOver => InputOver')
    BY <1>1, <1>b, <2>1, <2>2, <2>3, InputKept DEF Over
  <2>6. Output'
    <3>1. Wrote' = Wrote
      BY <1>1 DEF Wrote
    <3>. QED BY <1>1, <1>2, <1>b, <2>1, <2>2, <3>1, OutputKept
  <2>7. Fed'
    <3>1. WinsizeOf' = WinsizeOf
      BY <1>1 DEF WinsizeOf
    <3>. QED BY <1>1, <1>2, <1>b, <2>5, <3>1 DEF Fed
  <2>. QED BY <1>1, <1>b, <2>4, <2>5, <2>6, <2>7, ParentKept
<1>. QED BY <1>a, <1>b DEF CloseFiles, OpenEnds, Makes

LEMMA WaitChildInv == MainInv /\ WaitChild => MainInv'
<1>. SUFFICES ASSUME MainInv, WaitChild PROVE MainInv'
  OBVIOUS
<1>1. /\ pc = "wait" /\ waited < Len(ext_subprocs)
      /\ UNCHANGED <<job, rd, pos, fresh, piped, nread, opened, lib>>
  BY DEF WaitChild
<1>2. /\ Types /\ Waiting /\ lib.st # "finish" /\ waited \in Nat /\ Len(ext_subprocs) \in Nat
  BY <1>1 DEF MainInv, Output, Types
<1>a. CASE Finish("failure") /\ UNCHANGED waited
  BY <1>1, <1>2, <1>a, FinishInv
<1>b. CASE /\ StatusOk(ext_subprocs[waited + 1])
           /\ waited' = waited + 1 /\ Goto("wait")
  <2>1. /\ UNCHANGED <<pc, result, pipe, kid, ext_subprocs, written>>
        /\ kid[ext_subprocs[waited + 1]].st \in {"ok", "sigpipe"}
    BY <1>1, <1>b DEF Goto, extVars, StatusOk
  <2>2. waited + 1 \in 0 .. Len(ext_subprocs)
    BY <1>1, <1>2
  <2>3. Types'
    BY <1>1, <1>2, <1>b, <2>1, <2>2 DEF Types
  <2>4. Waiting'
    <3>1. \A j \in 1 .. waited' : j \in 1 .. waited \/ j = waited + 1
      BY <1>2, <1>b
    <3>. QED BY <1>1, <1>2, <2>1, <3>1 DEF Waiting
  <2>5. Input' /\ (InputOver => InputOver')
    BY <1>1, <2>1, InputKept
  <2>6. Output'
    <3>1. Wrote' = Wrote /\ Output
      BY <1>1 DEF Wrote, MainInv
    <3>. QED BY <1>1, <1>2, <2>1, <3>1, OutputKept DEF Output
  <2>7. Fed'
    <3>1. WinsizeOf' = WinsizeOf /\ Fed
      BY <1>1 DEF WinsizeOf, MainInv
    <3>. QED BY <1>1, <2>1, <2>5, <3>1 DEF Fed
  <2>. QED BY <1>1, <2>1, <2>3, <2>4, <2>5, <2>6, <2>7, ParentMoves
<1>. QED BY <1>a, <1>b DEF WaitChild

\* Success is reported: nothing is left in a pipe or with a child.
LEMMA NothingLeft ==
  ASSUME MainInv, pc = "wait", waited = Len(ext_subprocs)
  PROVE  /\ \A p \in Child : kid[p].st \in {"none", "ok", "sigpipe"}
         /\ job.cmd # "printhdr" =>
              /\ lib.fed = Block("inp", 0, job.size["inp"])
              /\ ~ job.noout => written = [k \in 1 .. lib.window |-> k]
<1>1. /\ Types /\ Input /\ Fed /\ Output /\ Waiting
  BY DEF MainInv
<1>2. \A p \in Child : kid[p].st \in {"none", "ok", "sigpipe"}
  BY <1>1 DEF Waiting
<1>3. D \in Child /\ Recomp \in Child
  BY Names
<1>a. ASSUME job.cmd # "printhdr" PROVE lib.fed = Block("inp", 0, job.size["inp"])
  <2>1. /\ After(lib.fed, 0) /\ lib.avail = <<>> /\ InputOver
        /\ Len(lib.fed) + Len(lib.avail) = pos["inp"]
    BY <1>1, <1>a DEF Fed
  <2>2. /\ lib.fed \in Seq(Nat) /\ job.size["inp"] \in Nat /\ pos["inp"] \in Nat
    BY <1>1 DEF Types, LibType, JobType
  <2>3. Len(<<>>) = 0 /\ Len(lib.fed) \in Nat
    BY <2>2
  <2>4. pos["inp"] = job.size["inp"]
    <3>1. CASE "inp" \in piped
      <4>1. pipe[DQ].buf = <<>> /\ kid[D].st = "ok"
        BY <1>2, <1>3, <2>1, <3>1 DEF InputOver
      <4>2. kid[D].hand = <<>> /\ kid[D].last = job.size["inp"]
            /\ kid[D].last = pos["inp"] + Len(pipe[DQ].buf) + Len(kid[D].hand)
        BY <1>1, <3>1, <4>1 DEF Input, Decompressed
      <4>3. job.size["inp"] = pos["inp"] + 0 + 0
        BY <2>3, <4>1, <4>2
      <4>. QED BY <2>2, <4>3
    <3>2. CASE "inp" \notin piped
      BY <2>1, <3>2 DEF InputOver
    <3>. QED BY <3>1, <3>2
  <2>5. Len(lib.fed) = job.size["inp"]
    BY <2>1, <2>2, <2>3, <2>4
  <2>6. lib.fed = [k \in 1 .. job.size["inp"] |-> k]
    BY <2>1, <2>2, <2>5, AfterIs
  <2>7. Block("inp", 0, job.size["inp"]) = [k \in 1 .. job.size["inp"] |-> k]
    <3>1. PICK z \in Nat : z = job.size["inp"]
      BY <2>2
    <3>2. Block("inp", 0, z) = [k \in 1 .. z - 0 |-> 0 + k]
      BY <3>1 DEF Block
    <3>. QED BY <3>1, <3>2
  <2>. QED BY <2>6, <2>7
<1>b. ASSUME Makes PROVE written = [k \in 1 .. lib.window |-> k]
  <2>1. /\ After(written, 0) /\ opened
        /\ Len(written) + Len(kid[Recomp].hand) + Len(pipe[RQ].buf) = Wrote
    BY <1>1, <1>b DEF Output
  <2>2. written \in Seq(Nat) /\ lib.window \in Nat
    BY <1>1 DEF Types, LibType
  <2>3. Len(<<>>) = 0 /\ Len(written) \in Nat
    BY <2>2
  <2>4. kid[Recomp].hand = <<>> /\ pipe[RQ].buf = <<>>
    <3>1. CASE job.recomp
      <4>1. kid[Recomp].st = "ok"
        BY <1>1, <1>2, <1>3, <2>1, <3>1 DEF Output
      <4>. QED BY <1>1, <4>1 DEF Output
    <3>2. CASE ~ job.recomp
      BY <1>1, <3>2 DEF Output, NoKid
    <3>. QED BY <3>1, <3>2
  <2>5. Wrote = lib.window + 0
    BY <1>1 DEF Output, Wrote
  <2>6. Len(written) = lib.window
    BY <2>1, <2>2, <2>3, <2>4, <2>5
  <2>. QED BY <2>1, <2>2, <2>6, AfterIs
<1>. QED BY <1>2, <1>a, <1>b DEF Makes

LEMMA CloseStreamInv == MainInv /\ CloseStream => MainInv'
<1>. SUFFICES ASSUME MainInv, CloseStream PROVE MainInv'
  OBVIOUS
<1>1. /\ pc = "wait" /\ waited = Len(ext_subprocs)
      /\ UNCHANGED <<job, rd, pos, fresh, piped, nread, opened, lib, waited>>
      /\ Finish(IF lib.part = <<>> THEN "success" ELSE "failure")
  BY DEF CloseStream, mainFrame
<1>2. lib.st # "finish"
  BY <1>1 DEF MainInv, Output
<1>a. CASE Finish("failure")
  BY <1>1, <1>2, <1>a, FinishInv
<1>b. CASE Finish("success")
  <2>1. kid' = kid /\ written' = written
    BY <1>b, FinishIs
  <2>2. CompleteOnSuccess'
    <3>1. Block("inp", 0, job.size["inp"])' = Block("inp", 0, job.size["inp"])
      BY <1>1 DEF Block
    <3>. QED BY <1>1, <2>1, <3>1, NothingLeft DEF CompleteOnSuccess
  <2>. QED BY <1>1, <1>2, <1>b, <2>2, FinishInv
<1>. QED BY <1>1, <1>a, <1>b

-----------------------------------------------------------------------------
(* The theorem.                                                            *)

LEMMA InitInv == MainInit => MainInv
<1>. SUFFICES ASSUME MainInit PROVE MainInv
  OBVIOUS
<1>1. <<>> \in Seq(Nat) /\ <<>> \in Seq(Child) /\ Len(<<>>) = 0
  OBVIOUS
<1>2. /\ job \in JobType /\ pc \in {"source", "read"} /\ (pc = "source" => job.cmd # "decode")
      /\ rd = [file |-> "inp", want |-> 0, got |-> <<>>, then |-> "read"]
      /\ pos = [f \in {"src", "inp"} |-> 0] /\ fresh = {"src", "inp"} /\ piped = {}
      /\ nread = 0 /\ opened = FALSE /\ waited = 0 /\ result = "none"
      /\ lib = [st |-> "input", avail |-> <<>>, part |-> <<>>, fed |-> <<>>, window |-> 0]
  BY MainAssumption DEF MainInit
<1>3. /\ pipe = [q \in Pipe |-> NoPipe] /\ kid = [p \in Child |-> NoKid]
      /\ ext_subprocs = <<>> /\ written = <<>>
  BY DEF MainInit, ExtInit
<1>4. NoPipe \in PipeType /\ NoPipe.buf = <<>> /\ NoPipe.writers = {}
  BY <1>1 DEF NoPipe, PipeType
<1>5. NoKid \in KidType /\ NoKid.st = "none" /\ NoKid.hand = <<>>
  BY <1>1 DEF NoKid, KidType, Status
<1>6. D \in Child /\ DQ \in Pipe /\ Recomp \in Child /\ RQ \in Pipe
  BY Names
<1>7. Types
  <2>1. kid \in [Child -> KidType] /\ pipe \in [Pipe -> PipeType]
    BY <1>3, <1>4, <1>5
  <2>2. rd \in RdType /\ lib \in LibType
    BY <1>1, <1>2 DEF RdType, LibType
  <2>3. pos \in [{"src", "inp"} -> Nat] /\ waited \in 0 .. Len(ext_subprocs)
    BY <1>1, <1>2, <1>3
  <2>. QED BY <1>1, <1>2, <1>3, <2>1, <2>2, <2>3 DEF Types, Places
<1>8. Input
  <2>1. kid[D] = NoKid /\ pipe[DQ].buf = <<>> /\ pipe[DQ].writers = {} /\ pos["inp"] = 0
    BY <1>2, <1>3, <1>4, <1>6
  <2>2. job.size["inp"] \in Nat
    BY <1>2 DEF JobType
  <2>. QED BY <1>2, <2>1, <2>2 DEF Input
<1>9. Fed
  BY <1>1, <1>2, AfterNothing DEF Fed
<1>10. Output
  <2>1. kid[Recomp] = NoKid /\ pipe[RQ].buf = <<>>
    BY <1>3, <1>4, <1>6
  <2>2. Wrote = 0 /\ lib.st = "input"
    BY <1>2 DEF Wrote
  <2>3. /\ After(written, 0)
        /\ After(kid[Recomp].hand, Len(written))
        /\ After(pipe[RQ].buf, Len(written) + Len(kid[Recomp].hand))
        /\ Len(written) + Len(kid[Recomp].hand) + Len(pipe[RQ].buf) = Wrote
    <3>1. written = <<>> /\ kid[Recomp].hand = <<>> /\ pipe[RQ].buf = <<>> /\ 0 + 0 + 0 = 0
      BY <1>3, <1>5, <2>1
    <3>2. Len(written) + Len(kid[Recomp].hand) + Len(pipe[RQ].buf) = 0 + 0 + 0
      BY <1>1, <3>1
    <3>. QED BY <2>2, <3>1, <3>2, AfterNothing
  <2>. QED BY <1>2, <1>5, <2>1, <2>2, <2>3 DEF Output
<1>11. Waiting
  BY <1>2, <1>3, <1>5 DEF Waiting
<1>12. CompleteOnSuccess /\ result = "none" /\ pc # "end"
  BY <1>2 DEF CompleteOnSuccess
<1>. QED BY <1>7, <1>8, <1>9, <1>10, <1>11, <1>12 DEF MainInv

LEMMA StepInv == MainInv /\ [Next]_toolVars => MainInv'
<1>. SUFFICES ASSUME MainInv, [Next]_toolVars PROVE MainInv'
  OBVIOUS
<1>1. CASE ParentStep
  BY <1>1, SetSourceInv, FailuresInv, ReadInputInv, FirstReadInv, FileReadInv, PipeReadInv,
     GotInputInv, LibInputInv, EncodeWindowInv, DecodeUnitInv, GetBlockInv, LibOutputInv,
     OpenOutputInv, WriteOutputInv, WinFinishInv, CloseFilesInv, WaitChildInv, CloseStreamInv
  DEF ParentStep
<1>2. CASE \E p \in Child : ChildStep(p) /\ UNCHANGED parentVars
  BY <1>2, ChildrenInv
<1>3. CASE \E p \in Filter : FilterFails(p) /\ UNCHANGED parentVars
  BY <1>3, FilterFailsInv
<1>4. CASE UNCHANGED toolVars
  <2>1. UNCHANGED <<job, pc, rd, pos, fresh, piped, nread, opened, lib, waited, result, pipe,
                    kid, ext_subprocs, written>>
    BY <1>4 DEF toolVars, parentVars, extVars
  <2>2. Types'
    BY <2>1 DEF MainInv, Types
  <2>3. Input' /\ (InputOver => InputOver')
    BY <2>1, InputKept
  <2>4. Fed'
    <3>1. Fed /\ WinsizeOf' = WinsizeOf
      BY <2>1 DEF MainInv, WinsizeOf
    <3>. QED BY <2>1, <2>3, <3>1 DEF Fed
  <2>5. Output'
    <3>1. Wrote' = Wrote /\ Makes' = Makes /\ Output
      BY <2>1 DEF Wrote, Makes, MainInv
    <3>. QED BY <2>1, <3>1 DEF Output
  <2>6. Waiting'
    BY <2>1 DEF MainInv, Waiting
  <2>7. CompleteOnSuccess' /\ (result' # "none" <=> pc' = "end")
    <3>1. Block("inp", 0, job.size["inp"])' = Block("inp", 0, job.size["inp"])
      BY <2>1 DEF Block
    <3>. QED BY <2>1, <3>1 DEF MainInv, CompleteOnSuccess
  <2>. QED BY <2>2, <2>3, <2>4, <2>5, <2>6, <2>7 DEF MainInv
<1>. QED BY <1>1, <1>2, <1>3, <1>4 DEF Next

\* When the tool reports success (main_input has come to its end without an error and
\* xd3_close_stream has not objected), all of the input was given to the library, in
\* order, each window is in the output file, and no child has failed: for files of any
\* size, pipes of any capacity, windows of any size, and children that may stop, fail
\* and be scheduled in any way.
THEOREM SuccessIsComplete == Spec => []CompleteOnSuccess
<1>1. MainInv => CompleteOnSuccess
  BY DEF MainInv
<1>2. Spec => MainInit /\ [][Next]_toolVars
  BY DEF Spec
<1>. QED BY <1>1, <1>2, InitInv, StepInv, PTL
=============================================================================

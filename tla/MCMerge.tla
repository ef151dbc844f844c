-------------------------------- MODULE MCMerge --------------------------------
(***************************************************************************)
(* Deltas that follow on each other, and some that do not: pairs of deltas *)
(* of one window each, in every way to make a window of two instructions;  *)
(* first deltas whose copies chain through their own target; deltas of two *)
(* windows; and three deltas in a row.                                     *)
(***************************************************************************)
EXTENDS XD3Merge

Source == <<1, 2, 3, 4>>

Add(data)       == [type |-> "ADD", size |-> Len(data), addr |-> 0, data |-> data]
Run(size, byte) == [type |-> "RUN", size |-> size, addr |-> 0, data |-> <<byte>>]
CopyFrom(addr, n)   == [type |-> "CPY", size |-> n, addr |-> addr, data |-> <<>>]

\* What can stand in a window with a copy window of n bytes after some bytes made:
\* copies from the copy window and from what is made, also up to over the end.
InstsAt(n, made, sizes, byte) ==
  {Run(s, byte) : s \in sizes} \cup {Add([j \in 1 .. s |-> byte + j]) : s \in sizes}
    \cup {CopyFrom(a, s) : a \in n .. n + made - 1, s \in sizes}
    \cup {CopyFrom(a, s) : a \in 0 .. n - 1, s \in sizes}
InWindow(n, h) == h.addr >= n \/ h.addr + h.size <= n
Pairs(n, sizes, byte) ==
  {p \in UNION {{<<a, b>> : b \in InstsAt(n, a.size, sizes, byte + 4)} :
                a \in InstsAt(n, 0, sizes, byte)} : InWindow(n, p[1]) /\ InWindow(n, p[2])}

\* A window over the first n bytes of the version before, from an offset on.
Over(off, n, insts) == [ind |-> IF n = 0 THEN Own ELSE "VCD_SOURCE", cpylen |-> n, cpyoff |-> off,
                        insts |-> insts, check |-> NoCheck]

\* Each window with its checksum.
Checked(delta, source) ==
  [n \in DOMAIN delta |->
     [delta[n] EXCEPT !.check = {Target(delta[n], CopyWindow(delta[n], source))}]]

Job(deltas) == [source |-> Source, deltas |-> deltas]

\* First deltas: every pair, and chains of copies.
Chains ==
  {<<CopyFrom(1, 3), CopyFrom(4, 5), h>> : h \in {CopyFrom(5, 4), CopyFrom(11, 4), Add(<<9>>)}}
    \cup {<<Add(<<6, 7>>), CopyFrom(5, 3), CopyFrom(6, 3)>>, <<Run(2, 5), CopyFrom(0, 2), CopyFrom(5, 4)>>,
          <<CopyFrom(3, 1), CopyFrom(4, 3), CopyFrom(2, 2)>>}
Firsts == {<<Over(0, 4, p)>> : p \in Pairs(4, {2}, 10)} \cup {<<Over(0, 4, c)>> : c \in Chains}

\* Seconds for a version: every pair of instructions over the whole of it.
Seconds(version, sizes) ==
  {<<Over(0, Len(version), p)>> : p \in Pairs(Len(version), sizes, 20)}

TwoDeltas ==
  UNION {{Job(<<d1, d2>>) : d2 \in Seconds(Means(d1, Source), {1, 3})} : d1 \in Firsts}

\* Deltas of several windows, with copy windows that are parts of the version before,
\* one without, and the delta of an empty target.
Many(version) ==
  LET n == Len(version)
  IN  {<<Over(1, n - 1, <<CopyFrom(0, n - 1), CopyFrom(n - 1, 3)>>),
         Over(0, 2, <<CopyFrom(0, 2), Add(<<30>>), CopyFrom(3, 2)>>)>>,
       <<Over(0, 0, <<Add(<<31, 32>>), CopyFrom(0, 3)>>),
         Over(n - 2, 2, <<Run(2, 33), CopyFrom(1, 1), CopyFrom(2, 4)>>)>>,
       <<Over(0, n, <<CopyFrom(1, n - 1)>>), Over(0, n, <<CopyFrom(0, 1), CopyFrom(n, 2)>>),
         Over(0, 0, <<Run(3, 34)>>)>>,
       <<Over(0, 0, <<>>)>>}
\* In these the next delta does not fit the one before: a window over the target, and a
\* copy behind the end of the version.
Wrong(version) ==
  {<<[Over(0, 2, <<Add(<<35>>), CopyFrom(1, 1)>>) EXCEPT !.ind = "VCD_TARGET"]>>,
   <<Over(0, 0, <<Add(<<36>>)>>), Over(Len(version), 2, <<CopyFrom(1, 1)>>)>>}

After(d, source) ==
  LET version == Means(d, source) IN IF Len(version) < 3 THEN {} ELSE Many(version)
ThreeDeltas ==
  LET two == UNION {{<<d1, d2>> : d2 \in After(d1, Source)} : d1 \in Many(Source)}
  IN  {Job(<<d>>) : d \in Many(Source)} \cup {Job(t) : t \in two}
      \cup UNION {{Job(Append(t, d3)) :
                     d3 \in After(t[2], Means(t[1], Source)) \cup Wrong(Applied(t, Source))} :
                   t \in two}

\* All with checksums, for the many deltas.
AllChecked(j) ==
  [j EXCEPT !.deltas = [n \in DOMAIN @ |-> Checked(@[n], Applied(SubSeq(@, 1, n - 1), Source))]]

MCJobs == TwoDeltas \cup ThreeDeltas
            \cup {AllChecked(j) : j \in {i \in ThreeDeltas : AllFit(i.deltas, i.source)}}
===============================================================================

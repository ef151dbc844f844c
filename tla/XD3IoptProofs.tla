---------------------------- MODULE XD3IoptProofs ----------------------------
(***************************************************************************)
(* Proofs about XD3Iopt.  For a buffer that grows, the default of the      *)
(* library: the instructions that are encoded rebuild the window, whatever *)
(* matches were found and however they overlap.  For a buffer of any size: *)
(* the source window, once decided, covers what is still buffered.         *)
(***************************************************************************)
EXTENDS XD3Iopt, SequenceTheorems, WellFoundedInduction, TLAPS

-----------------------------------------------------------------------------
(* Induction and recursion.                                                *)

\* Induction, for a set.
LEMMA NatSets ==
  ASSUME NEW S, 0 \in S, \A n \in Nat : n \in S => n + 1 \in S
  PROVE  Nat \subseteq S
<1>. DEFINE Less == OpToRel(<, Nat)
            T    == Nat \ S
<1>1. \A x, y \in Nat : <<x, y>> \in Less <=> x < y
  BY DEF OpToRel
<1>2. IsWellFoundedOn(Less, Nat)
  BY NatLessThanWellFounded
<1>. HIDE DEF Less
<1>. SUFFICES ASSUME T # {} PROVE FALSE
  OBVIOUS
<1>3. PICK x \in T : \A y \in T : ~ (<<y, x>> \in Less)
  BY <1>2, WFMin
<1>4. x \in Nat /\ x # 0
  OBVIOUS
<1>5. x - 1 \in Nat /\ x = (x - 1) + 1
  BY <1>4
<1>6. x - 1 \notin S
  BY <1>5
<1>7. <<x - 1, x>> \in Less
  BY <1>1, <1>4, <1>5
<1>. QED BY <1>3, <1>5, <1>6, <1>7

\* The same for every smaller number.
LEMMA NatSetsBelow ==
  ASSUME NEW S, \A n \in Nat : 0 .. n - 1 \subseteq S => n \in S
  PROVE  Nat \subseteq S
<1>. DEFINE B == {n \in Nat : 0 .. n \subseteq S}
<1>1. 0 \in B
  <2>1. 0 .. 0 - 1 \subseteq S
    OBVIOUS
  <2>2. 0 \in S
    BY <2>1
  <2>. QED BY <2>2
<1>2. ASSUME NEW n \in Nat, n \in B PROVE n + 1 \in B
  <2>1. 0 .. (n + 1) - 1 \subseteq S
    BY <1>2
  <2>2. n + 1 \in S
    BY <2>1
  <2>3. 0 .. n + 1 \subseteq S
    BY <1>2, <2>2
  <2>. QED BY <2>3
<1>. HIDE DEF B
<1>3. Nat \subseteq B
  BY <1>1, <1>2, NatSets
<1>. QED BY <1>3 DEF B

\* A step of a set to itself can be repeated: the recursive functions of the
\* module exist, and stay in the set.
Repeats(f, b, step, n) == f[0] = b /\ \A k \in 1 .. n : f[k] = step[f[k - 1]]

LEMMA Repeated ==
  ASSUME NEW T, NEW b \in T, NEW step \in [T -> T], NEW n \in Nat
  PROVE  \E f \in [0 .. n -> T] : Repeats(f, b, step, n)
<1>. DEFINE Is(f, m) == Repeats(f, b, step, m)
            S == {m \in Nat : \E f \in [0 .. m -> T] : Is(f, m)}
<1>1. 0 \in S
  <2>1. [k \in 0 .. 0 |-> b] \in [0 .. 0 -> T] /\ Is([k \in 0 .. 0 |-> b], 0)
    BY DEF Repeats
  <2>. QED BY <2>1
<1>2. ASSUME NEW m \in Nat, m \in S PROVE m + 1 \in S
  <2>1. PICK f \in [0 .. m -> T] : Is(f, m)
    BY <1>2
  <2>. DEFINE g == [k \in 0 .. m + 1 |-> IF k = m + 1 THEN step[f[m]] ELSE f[k]]
  <2>2. g \in [0 .. m + 1 -> T]
    OBVIOUS
  <2>3. \A k \in 0 .. m : g[k] = f[k]
    OBVIOUS
  <2>4. g[m + 1] = step[f[m]]
    OBVIOUS
  <2>. HIDE DEF g
  <2>5. Is(g, m + 1)
    <3>1. g[0] = b
      BY <2>1, <2>3 DEF Repeats
    <3>2. ASSUME NEW k \in 1 .. m + 1 PROVE g[k] = step[g[k - 1]]
      <4>1. CASE k = m + 1
        BY <4>1, <2>3, <2>4
      <4>2. CASE k # m + 1
        BY <4>2, <2>1, <2>3 DEF Repeats
      <4>. QED BY <4>1, <4>2
    <3>. QED BY <3>1, <3>2 DEF Repeats
  <2>. QED BY <2>2, <2>5
<1>. HIDE DEF S
<1>3. n \in S
  BY <1>1, <1>2, NatSets
<1>. QED BY <1>3 DEF S

-----------------------------------------------------------------------------
(* Matches.                                                                *)

MatchType == [type : {RUN, CPY}, pos : Nat, size : Nat, addr : Nat, xtra : Nat]

\* The window is a part of the target.
Setting ==
  /\ input.src \in Seq(Nat) /\ input.tgt \in Seq(Nat)
  /\ total_in \in Nat /\ avail_in \in Nat /\ total_in + avail_in <= Len(input.tgt)

LEMMA SettingTypes ==
  ASSUME Setting
  PROVE  /\ Len(input.src) \in Nat /\ Len(input.tgt) \in Nat
         /\ total_in \in Nat /\ avail_in \in Nat
         /\ \A p \in 0 .. avail_in - 1 : Tgt(p) \in Nat
         /\ \A p \in 0 .. Len(input.src) - 1 : Src(p) \in Nat
<1>1. Len(input.src) \in Nat /\ Len(input.tgt) \in Nat
  BY DEF Setting
<1>2. ASSUME NEW p \in 0 .. avail_in - 1 PROVE Tgt(p) \in Nat
  <2>1. total_in + p + 1 \in 1 .. Len(input.tgt)
    BY <1>1 DEF Setting
  <2>. QED BY <2>1 DEF Setting, Tgt
<1>3. ASSUME NEW p \in 0 .. Len(input.src) - 1 PROVE Src(p) \in Nat
  <2>1. p + 1 \in 1 .. Len(input.src)
    BY <1>1
  <2>. QED BY <2>1 DEF Setting, Src
<1>. QED BY <1>1, <1>2, <1>3 DEF Setting

\* What a match says of the window is true.  (xtra of a run is its byte, xtra of
\* a copy is 1 if it is a copy from the source.)
IsMatch(i) ==
  /\ i.size >= 1 /\ EndOf(i) <= avail_in
  /\ i.type = RUN => \A k \in 0 .. i.size - 1 : Tgt(i.pos + k) = i.xtra
  /\ i.type = CPY /\ i.xtra = 1 =>
       /\ i.addr + i.size <= Len(input.src)
       /\ \A k \in 0 .. i.size - 1 : Src(i.addr + k) = Tgt(i.pos + k)
  /\ i.type = CPY /\ i.xtra # 1 =>
       /\ i.addr < i.pos
       /\ \A k \in 0 .. i.size - 1 : Tgt(i.addr + k) = Tgt(i.pos + k)

\* A copy from the source lies between the addresses noted in w.
Held(i, w) ==
  i.type = CPY /\ i.xtra = 1 => w.minaddr <= i.addr /\ i.addr + i.size <= w.maxaddr

Matches(w) == {i \in MatchType : IsMatch(i) /\ Held(i, w)}

\* In the order of their beginnings and of their ends.
Ordered(u) ==
  \A j, k \in 1 .. Len(u) :
    j < k => u[j].pos < u[k].pos /\ EndOf(u[j]) < EndOf(u[k])

\* The first n do not overlap what follows.
Apart(u, n) ==
  \A j \in 1 .. Len(u) - 1 : j < n => EndOf(u[j]) <= u[j + 1].pos

LEMMA MatchFields ==
  ASSUME NEW w, NEW i \in Matches(w)
  PROVE  /\ i.type \in {RUN, CPY} /\ i.pos \in Nat /\ i.size \in Nat /\ i.size >= 1
         /\ i.addr \in Nat /\ i.xtra \in Nat /\ EndOf(i) \in Nat
BY DEF Matches, MatchType, IsMatch, EndOf

\* A match without its last c bytes, and without its first, is a match.
LEMMA EndTrimmed ==
  ASSUME Setting, NEW w, w.maxaddr \in Nat,
         NEW i \in Matches(w), NEW c \in Nat, c < i.size
  PROVE  LET t == [i EXCEPT !.size = @ - c]
         IN  t \in Matches(w) /\ t.pos = i.pos /\ EndOf(t) = EndOf(i) - c
<1>. DEFINE t == [i EXCEPT !.size = @ - c]
<1>1. /\ i \in MatchType /\ IsMatch(i) /\ Held(i, w)
      /\ i.pos \in Nat /\ i.size \in Nat /\ i.addr \in Nat
  BY DEF Matches, MatchType
<1>2. /\ t \in MatchType /\ t.type = i.type /\ t.pos = i.pos /\ t.addr = i.addr
      /\ t.xtra = i.xtra /\ t.size = i.size - c
  BY <1>1 DEF MatchType
<1>. HIDE DEF t
<1>3. /\ t.size \in Nat /\ t.size >= 1 /\ t.size <= i.size
      /\ 0 .. t.size - 1 \subseteq 0 .. i.size - 1
  BY <1>1, <1>2
<1>4. EndOf(t) = EndOf(i) - c /\ EndOf(t) <= EndOf(i) /\ EndOf(i) \in Nat
  BY <1>1, <1>2 DEF EndOf
<1>5. IsMatch(t)
  <2>1. EndOf(t) <= avail_in
    BY <1>1, <1>4, SettingTypes DEF IsMatch
  <2>2. ASSUME i.type = CPY, i.xtra = 1 PROVE i.addr + t.size <= Len(input.src)
    BY <2>2, <1>1, <1>3, SettingTypes DEF IsMatch
  <2>. QED BY <1>1, <1>2, <1>3, <2>1, <2>2 DEF IsMatch
<1>6. Held(t, w)
  BY <1>1, <1>2, <1>3 DEF Held
<1>. QED BY <1>2, <1>4, <1>5, <1>6 DEF t, Matches

LEMMA FrontTrimmed ==
  ASSUME Setting, NEW w, w.minaddr \in Nat, w.maxaddr \in Nat,
         NEW i \in Matches(w), NEW c \in Nat, c < i.size
  PROVE  LET t == [i EXCEPT !.pos = @ + c, !.size = @ - c, !.addr = @ + c]
         IN  t \in Matches(w) /\ t.pos = i.pos + c /\ EndOf(t) = EndOf(i)
<1>. DEFINE t == [i EXCEPT !.pos = @ + c, !.size = @ - c, !.addr = @ + c]
<1>1. /\ i \in MatchType /\ IsMatch(i) /\ Held(i, w)
      /\ i.pos \in Nat /\ i.size \in Nat /\ i.addr \in Nat
  BY DEF Matches, MatchType
<1>2. /\ t \in MatchType /\ t.type = i.type /\ t.pos = i.pos + c
      /\ t.addr = i.addr + c /\ t.xtra = i.xtra /\ t.size = i.size - c
  <2>1. i.pos + c \in Nat /\ i.addr + c \in Nat /\ i.size - c \in Nat
    BY <1>1
  <2>. QED BY <1>1, <2>1 DEF MatchType
<1>. HIDE DEF t
<1>3. /\ t.size \in Nat /\ t.size >= 1 /\ t.addr + t.size = i.addr + i.size
      /\ \A k \in 0 .. t.size - 1 : /\ c + k \in 0 .. i.size - 1
                                  /\ t.pos + k = i.pos + (c + k)
                                  /\ t.addr + k = i.addr + (c + k)
  BY <1>1, <1>2
<1>4. EndOf(t) = EndOf(i) /\ EndOf(i) \in Nat
  BY <1>1, <1>2 DEF EndOf
<1>5. IsMatch(t)
  <2>1. EndOf(t) <= avail_in /\ t.size >= 1
    BY <1>1, <1>3, <1>4 DEF IsMatch
  <2>2. ASSUME t.type = RUN, NEW k \in 0 .. t.size - 1 PROVE Tgt(t.pos + k) = t.xtra
    <3>1. c + k \in 0 .. i.size - 1 /\ t.pos + k = i.pos + (c + k)
      BY <2>2, <1>3
    <3>2. i.type = RUN /\ t.xtra = i.xtra
      BY <2>2, <1>2
    <3>3. Tgt(i.pos + (c + k)) = i.xtra
      BY <1>1, <3>1, <3>2 DEF IsMatch
    <3>. QED BY <3>1, <3>2, <3>3
  <2>3. ASSUME t.type = CPY, t.xtra = 1, NEW k \in 0 .. t.size - 1
        PROVE  Src(t.addr + k) = Tgt(t.pos + k)
    <3>1. /\ c + k \in 0 .. i.size - 1 /\ t.pos + k = i.pos + (c + k)
          /\ t.addr + k = i.addr + (c + k)
      BY <2>3, <1>3
    <3>2. i.type = CPY /\ i.xtra = 1
      BY <2>3, <1>2
    <3>3. Src(i.addr + (c + k)) = Tgt(i.pos + (c + k))
      BY <1>1, <3>1, <3>2 DEF IsMatch
    <3>. QED BY <3>1, <3>3
  <2>4. ASSUME t.type = CPY, t.xtra = 1 PROVE t.addr + t.size <= Len(input.src)
    BY <2>4, <1>1, <1>2, <1>3 DEF IsMatch
  <2>5. ASSUME t.type = CPY, t.xtra # 1, NEW k \in 0 .. t.size - 1
        PROVE  Tgt(t.addr + k) = Tgt(t.pos + k)
    <3>1. /\ c + k \in 0 .. i.size - 1 /\ t.pos + k = i.pos + (c + k)
          /\ t.addr + k = i.addr + (c + k)
      BY <2>5, <1>3
    <3>2. i.type = CPY /\ i.xtra # 1
      BY <2>5, <1>2
    <3>3. Tgt(i.addr + (c + k)) = Tgt(i.pos + (c + k))
      BY <1>1, <3>1, <3>2 DEF IsMatch
    <3>. QED BY <3>1, <3>3
  <2>6. ASSUME t.type = CPY, t.xtra # 1 PROVE t.addr < t.pos
    <3>1. i.addr < i.pos
      BY <2>6, <1>1, <1>2 DEF IsMatch
    <3>. QED BY <3>1, <1>1, <1>2
  <2>. QED BY <2>1, <2>2, <2>3, <2>4, <2>5, <2>6 DEF IsMatch
<1>6. Held(t, w)
  <2>. SUFFICES ASSUME t.type = CPY, t.xtra = 1
                PROVE  w.minaddr <= t.addr /\ t.addr + t.size <= w.maxaddr
    BY DEF Held
  <2>1. w.minaddr <= i.addr /\ i.addr + i.size <= w.maxaddr
    BY <1>1, <1>2 DEF Held
  <2>. QED BY <2>1, <1>1, <1>2, <1>3
<1>. QED BY <1>2, <1>4, <1>5, <1>6 DEF t, Matches

LEMMA RemoveAtFacts ==
  ASSUME NEW S, NEW s \in Seq(S), NEW i \in 1 .. Len(s)
  PROVE  /\ RemoveAt(s, i) \in Seq(S) /\ Len(RemoveAt(s, i)) = Len(s) - 1
         /\ \A j \in 1 .. Len(s) - 1 :
              RemoveAt(s, i)[j] = IF j < i THEN s[j] ELSE s[j + 1]
<1>. DEFINE a == SubSeq(s, 1, i - 1)
            b == SubSeq(s, i + 1, Len(s))
<1>1. Len(s) \in Nat
  OBVIOUS
<1>2. /\ a \in Seq(S) /\ Len(a) = i - 1 /\ \A j \in 1 .. i - 1 : a[j] = s[j]
  <2>1. 1 \in Int /\ i - 1 \in Int /\ \A j \in 1 .. i - 1 : s[j] \in S
    BY <1>1
  <2>2. /\ a \in Seq(S) /\ Len(a) = IF 1 <= i - 1 THEN i - 1 - 1 + 1 ELSE 0
        /\ \A j \in 1 .. i - 1 - 1 + 1 : a[j] = s[1 + j - 1]
    BY <2>1, SubSeqProperties
  <2>3. Len(a) = i - 1
    BY <2>2
  <2>4. ASSUME NEW j \in 1 .. i - 1 PROVE a[j] = s[j]
    <3>1. j \in 1 .. i - 1 - 1 + 1 /\ 1 + j - 1 = j
      OBVIOUS
    <3>. QED BY <3>1, <2>2
  <2>. QED BY <2>2, <2>3, <2>4
<1>3. /\ b \in Seq(S) /\ Len(b) = Len(s) - i
      /\ \A j \in 1 .. Len(s) - i : b[j] = s[i + j]
  <2>1. i + 1 \in Int /\ Len(s) \in Int /\ \A j \in i + 1 .. Len(s) : s[j] \in S
    BY <1>1
  <2>2. /\ b \in Seq(S) /\ Len(b) = IF i + 1 <= Len(s) THEN Len(s) - (i + 1) + 1 ELSE 0
        /\ \A j \in 1 .. Len(s) - (i + 1) + 1 : b[j] = s[i + 1 + j - 1]
    BY <2>1, SubSeqProperties
  <2>3. Len(b) = Len(s) - i
    BY <2>2, <1>1
  <2>4. ASSUME NEW j \in 1 .. Len(s) - i PROVE b[j] = s[i + j]
    <3>1. j \in 1 .. Len(s) - (i + 1) + 1 /\ i + 1 + j - 1 = i + j
      BY <1>1
    <3>. QED BY <3>1, <2>2
  <2>. QED BY <2>2, <2>3, <2>4
<1>4. /\ RemoveAt(s, i) \in Seq(S) /\ Len(RemoveAt(s, i)) = Len(a) + Len(b)
      /\ \A j \in 1 .. Len(a) + Len(b) :
           RemoveAt(s, i)[j] = IF j <= Len(a) THEN a[j] ELSE b[j - Len(a)]
  BY <1>2, <1>3, ConcatProperties DEF RemoveAt
<1>. HIDE DEF a, b
<1>4a. Len(a) \in Int /\ Len(b) \in Int /\ Len(a) + Len(b) = Len(s) - 1
  BY <1>1, <1>2, <1>3
<1>5. ASSUME NEW j \in 1 .. Len(s) - 1
      PROVE  RemoveAt(s, i)[j] = IF j < i THEN s[j] ELSE s[j + 1]
  <2>1. CASE j < i
    <3>1. j <= Len(a) /\ j \in 1 .. Len(a) + Len(b) /\ j \in 1 .. i - 1
      BY <2>1, <1>1, <1>2, <1>4a
    <3>2. RemoveAt(s, i)[j] = a[j] /\ a[j] = s[j]
      BY <3>1, <1>2, <1>4
    <3>. QED BY <2>1, <3>2
  <2>2. CASE j >= i
    <3>1. j - Len(a) \in 1 .. Len(s) - i /\ i + (j - Len(a)) = j + 1
      BY <2>2, <1>1, <1>2
    <3>2. RemoveAt(s, i)[j] = b[j - Len(a)]
      <4>1. ~ (j <= Len(a)) /\ j \in 1 .. Len(a) + Len(b)
        BY <2>2, <1>1, <1>2, <1>4a
      <4>. QED BY <4>1, <1>4
    <3>3. b[j - Len(a)] = s[j + 1]
      BY <3>1, <1>3
    <3>. QED BY <2>2, <3>2, <3>3
  <2>. QED BY <2>1, <2>2, <1>1
<1>. QED BY <1>1, <1>2, <1>3, <1>4, <1>5

\* Dropping a match leaves the others in order.
LEMMA DroppedOrdered ==
  ASSUME NEW w, NEW u \in Seq(Matches(w)), Ordered(u), NEW i \in 1 .. Len(u)
  PROVE  Ordered(RemoveAt(u, i))
<1>. DEFINE r == RemoveAt(u, i)
            at(j) == IF j < i THEN j ELSE j + 1
<1>1. Len(u) \in Nat /\ Len(r) = Len(u) - 1 /\ \A j \in 1 .. Len(u) - 1 : r[j] = u[at(j)]
  BY RemoveAtFacts
<1>. HIDE DEF r
<1>2. ASSUME NEW j \in 1 .. Len(r), NEW k \in 1 .. Len(r), j < k
      PROVE  r[j].pos < r[k].pos /\ EndOf(r[j]) < EndOf(r[k])
  <2>1. at(j) \in 1 .. Len(u) /\ at(k) \in 1 .. Len(u) /\ at(j) < at(k)
    BY <1>1, <1>2
  <2>2. r[j] = u[at(j)] /\ r[k] = u[at(k)]
    BY <1>1
  <2>. HIDE DEF at
  <2>. QED BY <2>1, <2>2 DEF Ordered
<1>3. Ordered(r)
  BY <1>2 DEF Ordered
<1>. QED BY <1>3 DEF r

-----------------------------------------------------------------------------
(* xd3_iopt_flush_instructions, first loop.                                *)

\* The two of an overlapping pair as Shorten cuts them, with c of the bytes they
\* share gone from the first and the rest from the second.
CutPair(u, i, c) ==
  LET overlap == EndOf(u[i]) - u[i + 1].pos
      d       == overlap - c
  IN  [u EXCEPT ![i] = [u[i] EXCEPT !.size = @ - c],
                ![i + 1] = [u[i + 1] EXCEPT !.pos = @ + d, !.size = @ - d,
                                            !.addr = @ + d]]

\* What goes from the first, of sizes a and b.
CutOf(a, b, overlap, newsize) ==
  IF newsize > a THEN 0
  ELSE IF newsize > b THEN overlap
  ELSE Lesser(a - newsize, overlap)

LEMMA CutArithmetic ==
  ASSUME NEW a \in Nat, NEW b \in Nat, NEW overlap \in Nat, NEW gap \in Nat,
         NEW newsize \in Nat, gap = a + b - overlap, overlap < a, overlap < b,
         newsize >= 1, newsize < gap
  PROVE  LET cut1 == CutOf(a, b, overlap, newsize)
         IN  /\ cut1 \in Nat /\ cut1 <= overlap /\ cut1 < a
             /\ overlap - cut1 < b
BY DEF Lesser, CutOf

\* Two that overlap, and neither is nearly all of the other.
Wide(u, i) ==
  /\ EndOf(u[i]) > u[i + 1].pos
  /\ EndOf(u[i + 1]) - EndOf(u[i]) > 2 /\ u[i + 1].pos - u[i].pos > 2

\* c is a part of the overlap, and leaves something of both.
CanCut(u, i, c) ==
  /\ EndOf(u[i]) > u[i + 1].pos
  /\ c <= EndOf(u[i]) - u[i + 1].pos /\ c < u[i].size
  /\ EndOf(u[i]) - u[i + 1].pos - c < u[i + 1].size

\* The one after the next is apart from the first.
Clear(u, i) == i + 2 <= Len(u) => EndOf(u[i]) < u[i + 2].pos

LEMMA BothSpans ==
  ASSUME NEW p \in Nat, NEW a \in Nat, NEW q \in Nat, NEW b \in Nat,
         p + a > q, (q + b) - (p + a) > 2, q - p > 2
  PROVE  /\ (p + a) - q \in Nat /\ (q + b) - p \in Nat /\ (q + b) - p >= 4
         /\ (q + b) - p = a + b - ((p + a) - q)
         /\ (p + a) - q < a /\ (p + a) - q < b
OBVIOUS

LEMMA CutSize ==
  ASSUME NEW w, NEW u \in Seq(Matches(w)), Ordered(u),
         NEW i \in Nat \ {0}, i < Len(u), Wide(u, i)
  PROVE  \E c \in Nat : CanCut(u, i, c) /\ Shorten(u, i) = CutPair(u, i, c)
<1>. DEFINE r1 == u[i]
            r2 == u[i + 1]
            overlap == EndOf(r1) - r2.pos
            gap     == EndOf(r2) - r1.pos
            newsize == Lesser(MaxMatchSplit, gap - gap \div 2)
            cut1    == CutOf(r1.size, r2.size, overlap, newsize)
<1>1. Len(u) \in Nat /\ i \in 1 .. Len(u) /\ i + 1 \in 1 .. Len(u)
  OBVIOUS
<1>2. r1 \in Matches(w) /\ r2 \in Matches(w)
  BY <1>1, ElementOfSeq
<1>. HIDE DEF r1, r2
<1>3. /\ r1.pos \in Nat /\ r1.size \in Nat /\ r1.size >= 1
      /\ r2.pos \in Nat /\ r2.size \in Nat /\ r2.size >= 1
      /\ EndOf(r1) = r1.pos + r1.size /\ EndOf(r2) = r2.pos + r2.size
  BY <1>2, MatchFields DEF EndOf
<1>4. EndOf(r1) > r2.pos /\ EndOf(r2) - EndOf(r1) > 2 /\ r2.pos - r1.pos > 2
  BY DEF r1, r2, Wide
<1>a. PICK p \in Nat, a \in Nat, q \in Nat, b \in Nat :
        r1.pos = p /\ r1.size = a /\ r2.pos = q /\ r2.size = b
  BY <1>3
<1>b. EndOf(r1) = p + a /\ EndOf(r2) = q + b
  BY <1>3, <1>a
<1>c. p + a > q /\ (q + b) - (p + a) > 2 /\ q - p > 2
  BY <1>4, <1>a, <1>b
<1>d. overlap = (p + a) - q /\ gap = (q + b) - p
  BY <1>a, <1>b
<1>. HIDE DEF overlap, gap
<1>e. /\ (p + a) - q \in Nat /\ (q + b) - p \in Nat /\ (q + b) - p >= 4
      /\ (q + b) - p = a + b - ((p + a) - q)
      /\ (p + a) - q < a /\ (p + a) - q < b
  BY <1>c, BothSpans
<1>5. /\ overlap \in Nat /\ gap \in Nat /\ gap = r1.size + r2.size - overlap
      /\ overlap < r1.size /\ overlap < r2.size /\ gap >= 4
  BY <1>a, <1>d, <1>e
<1>6. newsize \in Nat /\ newsize >= 1 /\ newsize < gap
  <2>1. MaxMatchSplit \in Nat /\ MaxMatchSplit >= 1
    BY IoptAssumption
  <2>3. PICK h \in Nat : h = gap - gap \div 2
    BY <1>5
  <2>4. h >= 1 /\ h < gap
    BY <2>3, <1>5
  <2>. QED BY <2>1, <2>3, <2>4, <1>5 DEF Lesser
<1>. HIDE DEF newsize
<1>7. /\ cut1 \in Nat /\ cut1 <= overlap /\ cut1 < r1.size
      /\ overlap - cut1 < r2.size
  BY <1>3, <1>5, <1>6, CutArithmetic
<1>8. Shorten(u, i) = CutPair(u, i, cut1)
  BY DEF Shorten, CutPair, CutOf, cut1, newsize, gap, overlap, r1, r2
<1>. HIDE DEF cut1
<1>9. CanCut(u, i, cut1)
  BY <1>4, <1>7 DEF overlap, r1, r2, CanCut
<1>. QED BY <1>7, <1>8, <1>9

LEMMA CutPairFacts ==
  ASSUME Setting, NEW w, w.minaddr \in Nat, w.maxaddr \in Nat,
         NEW u \in Seq(Matches(w)), NEW i \in Nat \ {0}, i < Len(u),
         EndOf(u[i]) > u[i + 1].pos,
         NEW c \in Nat, c <= EndOf(u[i]) - u[i + 1].pos, c < u[i].size,
         EndOf(u[i]) - u[i + 1].pos - c < u[i + 1].size
  PROVE  LET s == CutPair(u, i, c)
         IN  /\ s \in Seq(Matches(w)) /\ Len(s) = Len(u)
             /\ \A j \in 1 .. Len(u) : j # i /\ j # i + 1 => s[j] = u[j]
             /\ s[i].pos = u[i].pos /\ EndOf(s[i]) = s[i + 1].pos
             /\ EndOf(s[i + 1]) = EndOf(u[i + 1])
             /\ u[i + 1].pos <= s[i + 1].pos /\ EndOf(s[i]) <= EndOf(u[i])
<1>. DEFINE d == EndOf(u[i]) - u[i + 1].pos - c
            s1 == [u[i] EXCEPT !.size = @ - c]
            s2 == [u[i + 1] EXCEPT !.pos = @ + d, !.size = @ - d, !.addr = @ + d]
            t == [u EXCEPT ![i] = s1]
            s == [t EXCEPT ![i + 1] = s2]
<1>1. Len(u) \in Nat /\ i \in 1 .. Len(u) /\ i + 1 \in 1 .. Len(u)
  OBVIOUS
<1>2. u[i] \in Matches(w) /\ u[i + 1] \in Matches(w)
  BY <1>1, ElementOfSeq
<1>3. /\ u[i].size \in Nat /\ EndOf(u[i]) \in Nat /\ u[i + 1].pos \in Nat
      /\ u[i + 1].size \in Nat
  BY <1>2, MatchFields
<1>4. d \in Nat /\ d < u[i + 1].size
  BY <1>3
<1>5. s1 \in Matches(w) /\ s1.pos = u[i].pos /\ EndOf(s1) = EndOf(u[i]) - c
  BY <1>2, EndTrimmed
<1>6. s2 \in Matches(w) /\ s2.pos = u[i + 1].pos + d /\ EndOf(s2) = EndOf(u[i + 1])
  <2>. HIDE DEF d
  <2>. QED BY <1>2, <1>4, FrontTrimmed
<1>7. EndOf(s1) = s2.pos
  <2>. HIDE DEF s1, s2
  <2>. QED BY <1>3, <1>5, <1>6
<1>8. CutPair(u, i, c) = s
  BY DEF CutPair
<1>8a. u[i + 1].pos <= s2.pos /\ EndOf(s1) <= EndOf(u[i])
  <2>. HIDE DEF s1, s2, d
  <2>. QED BY <1>3, <1>4, <1>5, <1>6
<1>. HIDE DEF s1, s2
<1>9. /\ t \in Seq(Matches(w)) /\ Len(t) = Len(u)
      /\ \A j \in 1 .. Len(u) : t[j] = IF j = i THEN s1 ELSE u[j]
  BY <1>1, <1>5, ExceptSeq
<1>. HIDE DEF t
<1>10. /\ s \in Seq(Matches(w)) /\ Len(s) = Len(u)
       /\ \A j \in 1 .. Len(u) : s[j] = IF j = i + 1 THEN s2 ELSE t[j]
  BY <1>1, <1>6, <1>9, ExceptSeq
<1>. HIDE DEF s
<1>11. s[i] = s1 /\ s[i + 1] = s2
  BY <1>1, <1>9, <1>10
<1>12. \A j \in 1 .. Len(u) : j # i /\ j # i + 1 => s[j] = u[j]
  BY <1>9, <1>10
<1>. QED BY <1>5, <1>6, <1>7, <1>8, <1>8a, <1>10, <1>11, <1>12

\* The state of the loop: a buffer in order, in which nothing before i overlaps.
QType(w, n) ==
  {q \in [list : Seq(Matches(w)), i : Nat \ {0}] :
     Ordered(q.list) /\ Apart(q.list, q.i) /\ Len(q.list) <= n}

LEMMA DroppedSecond ==
  ASSUME NEW w, NEW u \in Seq(Matches(w)), Ordered(u),
         NEW i \in Nat \ {0}, i < Len(u), Apart(u, i)
  PROVE  /\ RemoveAt(u, i + 1) \in Seq(Matches(w)) /\ Ordered(RemoveAt(u, i + 1))
         /\ Apart(RemoveAt(u, i + 1), i) /\ Len(RemoveAt(u, i + 1)) = Len(u) - 1
<1>. DEFINE r == RemoveAt(u, i + 1)
<1>1. Len(u) \in Nat /\ i + 1 \in 1 .. Len(u)
  OBVIOUS
<1>2. /\ r \in Seq(Matches(w)) /\ Len(r) = Len(u) - 1
      /\ \A j \in 1 .. Len(u) - 1 : r[j] = IF j < i + 1 THEN u[j] ELSE u[j + 1]
  BY <1>1, RemoveAtFacts
<1>3. Ordered(r)
  BY <1>1, DroppedOrdered
<1>. HIDE DEF r
<1>4. ASSUME NEW j \in 1 .. Len(r) - 1, j < i PROVE EndOf(r[j]) <= r[j + 1].pos
  <2>1. j \in 1 .. Len(u) - 1 /\ j + 1 \in 1 .. Len(u) - 1 /\ j < i + 1 /\ j + 1 < i + 1
    BY <1>1, <1>2, <1>4
  <2>2. r[j] = u[j] /\ r[j + 1] = u[j + 1]
    BY <1>2, <2>1
  <2>. QED BY <1>4, <2>1, <2>2 DEF Apart
<1>5. Apart(r, i)
  BY <1>4 DEF Apart
<1>. QED BY <1>2, <1>3, <1>5 DEF r

LEMMA DroppedFirst ==
  ASSUME NEW w, NEW u \in Seq(Matches(w)), Ordered(u),
         NEW i \in Nat \ {0}, i < Len(u), Apart(u, i)
  PROVE  /\ RemoveAt(u, i) \in Seq(Matches(w)) /\ Ordered(RemoveAt(u, i))
         /\ Apart(RemoveAt(u, i), i) /\ Len(RemoveAt(u, i)) = Len(u) - 1
<1>. DEFINE r == RemoveAt(u, i)
<1>1. Len(u) \in Nat /\ i \in 1 .. Len(u) /\ i + 1 \in 1 .. Len(u)
  OBVIOUS
<1>2. /\ r \in Seq(Matches(w)) /\ Len(r) = Len(u) - 1
      /\ \A j \in 1 .. Len(u) - 1 : r[j] = IF j < i THEN u[j] ELSE u[j + 1]
  BY <1>1, RemoveAtFacts
<1>3. Ordered(r)
  BY <1>1, DroppedOrdered
<1>. HIDE DEF r
<1>4. ASSUME NEW j \in 1 .. Len(r) - 1, j < i PROVE EndOf(r[j]) <= r[j + 1].pos
  <2>1. j \in 1 .. Len(u) - 1 /\ j + 1 \in 1 .. Len(u) - 1
    BY <1>1, <1>2, <1>4
  <2>2. r[j] = u[j] /\ EndOf(u[j]) <= u[j + 1].pos
    BY <1>2, <1>4, <2>1 DEF Apart
  <2>3. CASE j + 1 < i
    BY <2>1, <2>2, <2>3, <1>2
  <2>4. CASE ~ (j + 1 < i)
    <3>0. j \in Int /\ j + 1 = i
      BY <2>1, <2>4, <1>4
    <3>a. r[j + 1] = IF j + 1 < i THEN u[j + 1] ELSE u[(j + 1) + 1]
      BY <2>1, <1>2
    <3>b. (j + 1) + 1 = j + 2
      BY <3>0
    <3>1. j + 1 = i /\ r[j + 1] = u[j + 2]
      BY <2>4, <3>0, <3>a, <3>b
    <3>2. i \in 1 .. Len(u) /\ j + 2 \in 1 .. Len(u) /\ i < j + 2
      BY <3>1, <1>1
    <3>3. u[i].pos < u[j + 2].pos
      BY <3>2 DEF Ordered
    <3>4. u[j] \in Matches(w) /\ u[i] \in Matches(w) /\ u[j + 2] \in Matches(w)
      BY <3>2, <2>1, <1>1, ElementOfSeq
    <3>5. EndOf(u[j]) \in Nat /\ u[i].pos \in Nat /\ u[j + 2].pos \in Nat
      BY <3>4, MatchFields
    <3>. QED BY <3>1, <3>3, <3>5, <2>2
  <2>. QED BY <2>3, <2>4
<1>5. Apart(r, i)
  BY <1>4 DEF Apart
<1>. QED BY <1>2, <1>3, <1>5 DEF r

\* The next one begins after the first ends: nothing before i + 1 overlaps.
LEMMA OneFurther ==
  ASSUME NEW u, NEW i \in Nat \ {0}, Len(u) \in Nat, Apart(u, i),
         i + 1 <= Len(u) => EndOf(u[i]) <= u[i + 1].pos
  PROVE  Apart(u, i + 1)
<1>. SUFFICES ASSUME NEW j \in 1 .. Len(u) - 1, j < i + 1
              PROVE  EndOf(u[j]) <= u[j + 1].pos
  BY DEF Apart
<1>1. CASE j < i
  BY <1>1 DEF Apart
<1>2. CASE j = i
  BY <1>2
<1>. QED BY <1>1, <1>2

LEMMA DroppedSecondFurther ==
  ASSUME NEW w, NEW u \in Seq(Matches(w)), Ordered(u),
         NEW i \in Nat \ {0}, i < Len(u), Apart(u, i),
         i + 2 <= Len(u) => EndOf(u[i]) <= u[i + 2].pos
  PROVE  Apart(RemoveAt(u, i + 1), i + 1)
<1>. DEFINE r == RemoveAt(u, i + 1)
<1>1. Len(u) \in Nat /\ i + 1 \in 1 .. Len(u)
  OBVIOUS
<1>2. /\ Len(r) = Len(u) - 1
      /\ \A j \in 1 .. Len(u) - 1 : r[j] = IF j < i + 1 THEN u[j] ELSE u[j + 1]
  BY <1>1, RemoveAtFacts
<1>3. Apart(r, i)
  BY DroppedSecond
<1>. HIDE DEF r
<1>4. ASSUME i + 1 <= Len(r) PROVE EndOf(r[i]) <= r[i + 1].pos
  <2>1. i \in 1 .. Len(u) - 1 /\ i + 1 \in 1 .. Len(u) - 1 /\ i + 2 <= Len(u)
    BY <1>1, <1>2, <1>4
  <2>2. r[i] = u[i] /\ r[i + 1] = u[i + 2]
    BY <2>1, <1>2
  <2>. QED BY <2>1, <2>2
<1>5. Len(r) \in Nat
  BY <1>1, <1>2
<1>6. Apart(r, i + 1)
  BY <1>3, <1>4, <1>5, OneFurther
<1>. QED BY <1>6 DEF r

LEMMA NotBefore ==
  ASSUME NEW w, NEW u \in Seq(Matches(w)), Ordered(u),
         NEW j \in 1 .. Len(u), NEW k \in 1 .. Len(u), j <= k
  PROVE  u[j].pos <= u[k].pos /\ EndOf(u[j]) <= EndOf(u[k])
<1>1. u[j] \in Matches(w) /\ u[k] \in Matches(w)
  BY ElementOfSeq
<1>2. u[j].pos \in Nat /\ EndOf(u[j]) \in Nat /\ u[k].pos \in Nat /\ EndOf(u[k]) \in Nat
  BY <1>1, MatchFields
<1>3. CASE j = k
  BY <1>2, <1>3
<1>4. CASE j < k
  BY <1>2, <1>4 DEF Ordered
<1>. QED BY <1>3, <1>4

LEMMA AtMost ==
  ASSUME NEW a \in Nat, NEW b \in Nat, NEW c \in Nat, a <= b, b <= c
  PROVE  a <= c
OBVIOUS

LEMMA CutPairKeeps ==
  ASSUME Setting, NEW w, w.minaddr \in Nat, w.maxaddr \in Nat,
         NEW u \in Seq(Matches(w)), Ordered(u),
         NEW i \in Nat \ {0}, i < Len(u), Apart(u, i),
         Clear(u, i), NEW c \in Nat, CanCut(u, i, c)
  PROVE  LET s == CutPair(u, i, c)
         IN  /\ s \in Seq(Matches(w)) /\ Len(s) = Len(u)
             /\ Ordered(s) /\ Apart(s, i + 1)
<1>. DEFINE s == CutPair(u, i, c)
            m == i + 1
<1>1. /\ s \in Seq(Matches(w)) /\ Len(s) = Len(u)
      /\ \A j \in 1 .. Len(u) : j # i /\ j # m => s[j] = u[j]
      /\ s[i].pos = u[i].pos /\ EndOf(s[i]) = s[m].pos
      /\ EndOf(s[m]) = EndOf(u[m])
      /\ u[m].pos <= s[m].pos /\ EndOf(s[i]) <= EndOf(u[i])
  BY CutPairFacts DEF CanCut
<1>. HIDE DEF s
<1>2. Len(u) \in Nat /\ i \in 1 .. Len(u) /\ m \in 1 .. Len(u)
  OBVIOUS
<1>3. \A j \in 1 .. Len(u) :
        /\ u[j].pos \in Nat /\ EndOf(u[j]) \in Nat
        /\ s[j].pos \in Nat /\ EndOf(s[j]) \in Nat /\ s[j].pos < EndOf(s[j])
  <2>. TAKE j \in 1 .. Len(u)
  <2>1. u[j] \in Matches(w) /\ s[j] \in Matches(w)
    BY <1>1, <1>2, ElementOfSeq
  <2>2. s[j].pos \in Nat /\ s[j].size \in Nat /\ s[j].size >= 1
    BY <2>1, MatchFields
  <2>3. s[j].pos < EndOf(s[j])
    BY <2>2 DEF EndOf
  <2>. QED BY <2>1, <2>3, MatchFields
<1>4. ASSUME NEW j \in 1 .. Len(u), NEW k \in 1 .. Len(u), j < k
      PROVE  s[j].pos < s[k].pos
  <2>1. u[j].pos < u[k].pos
    BY <1>4 DEF Ordered
  <2>2. CASE j # m /\ k # m
    BY <2>1, <2>2, <1>1
  <2>3. CASE k = m
    <3>1. s[j].pos = u[j].pos
      BY <2>3, <1>1, <1>2, <1>4
    <3>2. u[k].pos <= s[k].pos
      BY <2>3, <1>1
    <3>3. u[j].pos \in Nat /\ u[k].pos \in Nat /\ s[k].pos \in Nat
      BY <1>3
    <3>. HIDE DEF m
    <3>. QED BY <3>1, <3>2, <3>3, <2>1
  <2>4. CASE j = m
    <3>1. /\ k # i /\ k # m /\ s[k] = u[k]
          /\ i + 2 \in 1 .. Len(u) /\ i + 2 <= Len(u) /\ i + 2 <= k
      BY <2>4, <1>1, <1>2, <1>4
    <3>2. EndOf(u[i]) < u[i + 2].pos /\ u[i + 2].pos <= u[k].pos
      BY <3>1, NotBefore DEF Clear
    <3>3. s[j].pos = EndOf(s[i]) /\ EndOf(s[i]) <= EndOf(u[i]) /\ s[k].pos = u[k].pos
      BY <3>1, <2>4, <1>1
    <3>4. /\ EndOf(s[i]) \in Nat /\ EndOf(u[i]) \in Nat
          /\ u[i + 2].pos \in Nat /\ u[k].pos \in Nat
      BY <3>1, <1>2, <1>3
    <3>. HIDE DEF m
    <3>5. s[j].pos < u[i + 2].pos
      BY <3>2, <3>3, <3>4
    <3>. QED BY <3>2, <3>3, <3>4, <3>5
  <2>. QED BY <2>2, <2>3, <2>4
<1>5. ASSUME NEW j \in 1 .. Len(u), NEW k \in 1 .. Len(u), j < k
      PROVE  EndOf(s[j]) < EndOf(s[k])
  <2>1. EndOf(u[j]) < EndOf(u[k])
    BY <1>5 DEF Ordered
  <2>2. CASE j # i /\ k # i
    BY <2>1, <2>2, <1>1
  <2>3. CASE j = i
    <3>1. EndOf(s[k]) = EndOf(u[k])
      BY <2>3, <1>1, <1>2, <1>5
    <3>. QED BY <3>1, <2>1, <2>3, <1>1, <1>3
  <2>4. CASE k = i
    <3>1. /\ s[j] = u[j] /\ j \in 1 .. Len(u) - 1 /\ j < i
          /\ j + 1 \in 1 .. Len(u) /\ j + 1 <= i
      BY <2>4, <1>1, <1>2, <1>5
    <3>2. EndOf(u[j]) <= u[j + 1].pos
      BY <3>1 DEF Apart
    <3>3. u[j + 1].pos <= u[i].pos
      BY <3>1, <1>2, NotBefore
    <3>4. /\ EndOf(s[j]) = EndOf(u[j]) /\ s[k].pos = u[i].pos
          /\ s[k].pos < EndOf(s[k])
      BY <3>1, <2>4, <1>1, <1>3
    <3>5. /\ EndOf(u[j]) \in Nat /\ u[j + 1].pos \in Nat /\ u[i].pos \in Nat
          /\ EndOf(s[k]) \in Nat
      BY <3>1, <1>2, <1>3
    <3>. HIDE DEF m
    <3>a. EndOf(u[j]) <= u[i].pos
      BY <3>2, <3>3, <3>5, AtMost, Zenon
    <3>b. EndOf(s[j]) = EndOf(u[j]) /\ s[k].pos = u[i].pos
      BY <3>4
    <3>6. EndOf(s[j]) <= s[k].pos
      BY <3>a, <3>b
    <3>7. EndOf(s[j]) \in Nat /\ s[k].pos \in Nat
      BY <3>4, <3>5
    <3>. QED BY <3>4, <3>5, <3>6, <3>7
  <2>. QED BY <2>2, <2>3, <2>4
<1>6. Ordered(s)
  BY <1>1, <1>4, <1>5 DEF Ordered
<1>7. Apart(s, i)
  <2>. SUFFICES ASSUME NEW j \in 1 .. Len(s) - 1, j < i
                PROVE  EndOf(s[j]) <= s[j + 1].pos
    BY DEF Apart
  <2>1. j \in 1 .. Len(u) - 1 /\ j \in 1 .. Len(u) /\ j + 1 \in 1 .. Len(u) /\ j + 1 # m
    BY <1>1, <1>2
  <2>2. s[j] = u[j] /\ s[j + 1].pos = u[j + 1].pos
    BY <2>1, <1>1, <1>2
  <2>. QED BY <2>1, <2>2 DEF Apart
<1>8. Apart(s, i + 1)
  BY <1>1, <1>2, <1>3, <1>7, OneFurther
<1>. QED BY <1>1, <1>6, <1>8 DEF s

\* Two that overlap: one is dropped, or both are cut.
LEMMA OptimizeOverlapKeeps ==
  ASSUME Setting, NEW w, w.minaddr \in Nat, w.maxaddr \in Nat,
         NEW u \in Seq(Matches(w)), Ordered(u),
         NEW i \in Nat \ {0}, i < Len(u), Apart(u, i),
         EndOf(u[i]) > u[i + 1].pos
  PROVE  \E s \in Seq(Matches(w)), at \in Nat \ {0} :
           /\ OptimizeOverlap(u, i, TRUE) = [list |-> s, i |-> at]
           /\ Ordered(s) /\ Apart(s, at) /\ Len(s) <= Len(u)
           /\ Len(s) - at <= Len(u) - i - 1
<1>. DEFINE r == OptimizeOverlap(u, i, TRUE)
            near  == i + 2 <= Len(u) /\ u[i + 2].pos <= EndOf(u[i]) + 1
            short == \/ EndOf(u[i + 1]) - u[i].pos < 2 * MIN_MATCH
                     \/ EndOf(u[i + 1]) - EndOf(u[i]) <= 2
                     \/ u[i + 1].pos - u[i].pos <= 2
<1>1. Len(u) \in Nat /\ i \in 1 .. Len(u) /\ i + 1 \in 1 .. Len(u)
  OBVIOUS
<1>2. r = IF near THEN [list |-> RemoveAt(u, i + 1), i |-> i]
          ELSE IF short
          THEN IF u[i].size < u[i + 1].size
               THEN [list |-> RemoveAt(u, i), i |-> i]
               ELSE [list |-> RemoveAt(u, i + 1), i |-> i + 1]
          ELSE [list |-> Shorten(u, i), i |-> i + 1]
  BY DEF OptimizeOverlap
<1>3. ASSUME ~ near, i + 2 <= Len(u) PROVE EndOf(u[i]) < u[i + 2].pos
  <2>1. i + 2 \in 1 .. Len(u)
    BY <1>1, <1>3
  <2>2. u[i] \in Matches(w) /\ u[i + 2] \in Matches(w)
    BY <2>1, <1>1, ElementOfSeq
  <2>3. EndOf(u[i]) \in Nat /\ u[i + 2].pos \in Nat
    BY <2>2, MatchFields
  <2>. QED BY <1>3, <2>3
<1>. HIDE DEF r, near
<1>4. CASE near
  <2>1. r = [list |-> RemoveAt(u, i + 1), i |-> i]
    BY <1>2, <1>4
  <2>. DEFINE s == RemoveAt(u, i + 1)
  <2>2. s \in Seq(Matches(w)) /\ Ordered(s) /\ Apart(s, i) /\ Len(s) = Len(u) - 1
    BY DroppedSecond
  <2>. HIDE DEF s
  <2>3. Len(s) <= Len(u) /\ Len(s) - i <= Len(u) - i - 1
    BY <1>1, <2>2
  <2>4. r = [list |-> s, i |-> i]
    BY <2>1 DEF s
  <2>. QED BY <2>2, <2>3, <2>4 DEF r
<1>5. CASE ~ near /\ short /\ u[i].size < u[i + 1].size
  <2>1. r = [list |-> RemoveAt(u, i), i |-> i]
    BY <1>2, <1>5
  <2>2. Len(RemoveAt(u, i)) <= Len(u) /\ Len(RemoveAt(u, i)) - i <= Len(u) - i - 1
    BY <1>1, DroppedFirst
  <2>. QED BY <2>1, <2>2, DroppedFirst DEF r
<1>6. CASE ~ near /\ short /\ ~ (u[i].size < u[i + 1].size)
  <2>. DEFINE s == RemoveAt(u, i + 1)
  <2>1. r = [list |-> s, i |-> i + 1]
    BY <1>2, <1>6
  <2>2. s \in Seq(Matches(w)) /\ Ordered(s) /\ Len(s) = Len(u) - 1
    BY DroppedSecond
  <2>3. i + 2 <= Len(u) => EndOf(u[i]) <= u[i + 2].pos
    <3>1. SUFFICES ASSUME i + 2 <= Len(u) PROVE EndOf(u[i]) <= u[i + 2].pos
      OBVIOUS
    <3>2. i + 2 \in 1 .. Len(u)
      BY <1>1, <3>1
    <3>3. u[i] \in Matches(w) /\ u[i + 2] \in Matches(w)
      BY <3>2, <1>1, ElementOfSeq
    <3>4. EndOf(u[i]) \in Nat /\ u[i + 2].pos \in Nat
      BY <3>3, MatchFields
    <3>. QED BY <1>3, <1>6, <3>1, <3>4
  <2>4. Apart(s, i + 1)
    BY <2>3, DroppedSecondFurther
  <2>. HIDE DEF s
  <2>5. i + 1 \in Nat \ {0} /\ Len(s) <= Len(u) /\ Len(s) - (i + 1) <= Len(u) - i - 1
    BY <1>1, <2>2
  <2>. QED BY <2>1, <2>2, <2>4, <2>5 DEF r
<1>7. CASE ~ near /\ ~ short
  <2>1. r = [list |-> Shorten(u, i), i |-> i + 1]
    BY <1>2, <1>7
  <2>2. Wide(u, i)
    <3>1. u[i] \in Matches(w) /\ u[i + 1] \in Matches(w)
      BY <1>1, ElementOfSeq
    <3>2. /\ EndOf(u[i]) \in Nat /\ u[i].pos \in Nat
          /\ EndOf(u[i + 1]) \in Nat /\ u[i + 1].pos \in Nat
      BY <3>1, MatchFields
    <3>. QED BY <1>7, <3>2 DEF Wide
  <2>3. PICK c \in Nat : CanCut(u, i, c) /\ Shorten(u, i) = CutPair(u, i, c)
    BY <2>2, CutSize
  <2>. DEFINE s == CutPair(u, i, c)
  <2>4. s \in Seq(Matches(w)) /\ Len(s) = Len(u) /\ Ordered(s) /\ Apart(s, i + 1)
    <3>1. Clear(u, i)
      BY <1>3, <1>7 DEF Clear
    <3>. QED BY <2>3, <3>1, CutPairKeeps
  <2>. HIDE DEF s
  <2>5. i + 1 \in Nat \ {0} /\ Len(s) <= Len(u) /\ Len(s) - (i + 1) <= Len(u) - i - 1
    BY <1>1, <2>4
  <2>6. r = [list |-> s, i |-> i + 1]
    BY <2>1, <2>3 DEF s
  <2>. QED BY <2>4, <2>5, <2>6 DEF r
<1>. QED BY <1>4, <1>5, <1>6, <1>7

\* A step of the loop leaves the buffer in order, and comes nearer to its end.
LEMMA OptimizeStepKeeps ==
  ASSUME Setting, NEW w, w.minaddr \in Nat, w.maxaddr \in Nat,
         NEW n \in Nat, NEW q \in QType(w, n)
  PROVE  LET r == OptimizeStep(q, TRUE)
         IN  /\ r \in QType(w, n)
             /\ \/ Len(r.list) - r.i <= Len(q.list) - q.i - 1
                \/ r.i >= Len(r.list)
<1>. DEFINE u == q.list
            i == q.i
            r == OptimizeStep(q, TRUE)
<1>1. /\ q \in [list : Seq(Matches(w)), i : Nat \ {0}]
      /\ u \in Seq(Matches(w)) /\ i \in Nat \ {0}
      /\ Ordered(u) /\ Apart(u, i) /\ Len(u) <= n /\ Len(u) \in Nat
  BY DEF QType
<1>2. CASE i >= Len(u)
  BY <1>2 DEF OptimizeStep
<1>3. CASE i < Len(u) /\ EndOf(u[i]) <= u[i + 1].pos
  <2>1. r = [q EXCEPT !.i = i + 1]
    <3>1. ~ (i >= Len(u))
      BY <1>1, <1>3
    <3>. QED BY <3>1, <1>3, Zenon DEF OptimizeStep
  <2>1a. i + 1 \in Nat \ {0}
    BY <1>1
  <2>2. /\ r \in [list : Seq(Matches(w)), i : Nat \ {0}]
        /\ r.list = u /\ r.i = i + 1
    BY <2>1, <2>1a, <1>1
  <2>. HIDE DEF r
  <2>3. Apart(u, i + 1)
    BY <1>1, <1>3, OneFurther
  <2>4. r \in QType(w, n)
    BY <1>1, <2>2, <2>3 DEF QType
  <2>5. Len(r.list) - r.i <= Len(u) - i - 1
    BY <2>2, <1>1
  <2>. QED BY <2>4, <2>5 DEF r
<1>4. CASE i < Len(u) /\ ~ (EndOf(u[i]) <= u[i + 1].pos)
  <2>1. r = OptimizeOverlap(u, i, TRUE)
    <3>1. ~ (i >= Len(u))
      BY <1>1, <1>4
    <3>. QED BY <3>1, <1>4, Zenon DEF OptimizeStep
  <2>2. EndOf(u[i]) > u[i + 1].pos
    <3>1. i \in 1 .. Len(u) /\ i + 1 \in 1 .. Len(u)
      BY <1>1, <1>4
    <3>2. u[i] \in Matches(w) /\ u[i + 1] \in Matches(w)
      BY <1>1, <3>1, ElementOfSeq
    <3>3. EndOf(u[i]) \in Nat /\ u[i + 1].pos \in Nat
      BY <3>2, MatchFields
    <3>. QED BY <1>4, <3>3
  <2>3. PICK s \in Seq(Matches(w)), at \in Nat \ {0} :
           /\ OptimizeOverlap(u, i, TRUE) = [list |-> s, i |-> at]
           /\ Ordered(s) /\ Apart(s, at) /\ Len(s) <= Len(u)
           /\ Len(s) - at <= Len(u) - i - 1
    <3>. HIDE DEF u, i
    <3>. QED BY <1>1, <1>4, <2>2, OptimizeOverlapKeeps
  <2>4. r = [list |-> s, i |-> at]
    BY <2>1, <2>3
  <2>. HIDE DEF r
  <2>5. Len(s) <= n
    BY <1>1, <2>3
  <2>6. r \in QType(w, n) /\ r.list = s /\ r.i = at
    BY <2>3, <2>4, <2>5 DEF QType
  <2>. QED BY <2>3, <2>6 DEF r
<1>5. i >= Len(u) \/ i < Len(u)
  BY <1>1
<1>. QED BY <1>2, <1>3, <1>4, <1>5

\* The function that Optimize computes, up to n.
StepsFrom(list, n, g) ==
  g = [k \in 0 .. n |-> IF k = 0 THEN [list |-> list, i |-> 1]
                        ELSE OptimizeStep(g[k - 1], TRUE)]

LEMMA StepsExist ==
  ASSUME Setting, NEW w, w.minaddr \in Nat, w.maxaddr \in Nat,
         NEW u \in Seq(Matches(w)), Ordered(u), NEW n \in Nat
  PROVE  \E g : StepsFrom(u, n, g)
<1>. DEFINE T == QType(w, Len(u))
            b == [list |-> u, i |-> 1]
            step == [q \in T |-> OptimizeStep(q, TRUE)]
<1>1. Len(u) \in Nat
  OBVIOUS
<1>2. b \in T
  <2>1. Apart(u, 1)
    BY <1>1 DEF Apart
  <2>. QED BY <2>1, <1>1 DEF QType
<1>3. step \in [T -> T]
  <2>1. ASSUME NEW q \in T PROVE OptimizeStep(q, TRUE) \in T
    BY <1>1, OptimizeStepKeeps
  <2>. QED BY <2>1
<1>4a. PICK g \in [0 .. n -> T] : Repeats(g, b, step, n)
  <2>. HIDE DEF T, b, step
  <2>. QED BY <1>2, <1>3, Repeated
<1>4. g[0] = b /\ \A k \in 1 .. n : g[k] = step[g[k - 1]]
  BY <1>4a DEF Repeats
<1>5. ASSUME NEW k \in 0 .. n
      PROVE  g[k] = IF k = 0 THEN b ELSE OptimizeStep(g[k - 1], TRUE)
  <2>. HIDE DEF T, b
  <2>1. CASE k = 0
    BY <2>1, <1>4
  <2>2. CASE k # 0
    <3>1. k \in 1 .. n /\ k - 1 \in 0 .. n
      BY <2>2
    <3>2. g[k - 1] \in T
      BY <3>1, <1>4
    <3>. QED BY <2>2, <3>1, <3>2, <1>4
  <2>. QED BY <2>1, <2>2
<1>6. g = [k \in 0 .. n |-> IF k = 0 THEN b ELSE OptimizeStep(g[k - 1], TRUE)]
  <2>. HIDE DEF T, b, step
  <2>. QED BY <1>4, <1>5
<1>7. StepsFrom(u, n, g)
  BY <1>6 DEF StepsFrom
<1>. QED BY <1>7

\* The buffer that xd3_iopt_flush_instructions is left with: in order, without
\* an overlap.
LEMMA OptimizeFacts ==
  ASSUME Setting, NEW w, w.minaddr \in Nat, w.maxaddr \in Nat,
         NEW u \in Seq(Matches(w)), Ordered(u)
  PROVE  LET s == Optimize(u, TRUE)
         IN  /\ s \in Seq(Matches(w)) /\ Ordered(s) /\ Apart(s, Len(s))
             /\ Len(s) <= Len(u)
<1>. DEFINE n == 2 * Len(u)
            g == CHOOSE f : StepsFrom(u, n, f)
            T == QType(w, Len(u))
            S == {k \in Nat : k <= n =>
                    /\ g[k] \in T
                    /\ \/ Len(g[k].list) - g[k].i + k <= Len(u) - 1
                       \/ g[k].i >= Len(g[k].list)}
<1>1. Len(u) \in Nat /\ n \in Nat
  OBVIOUS
<1>2. StepsFrom(u, n, g)
  <2>1. \E f : StepsFrom(u, n, f)
    <3>. HIDE DEF n
    <3>. QED BY <1>1, StepsExist
  <2>. HIDE DEF n
  <2>. QED BY <2>1
<1>3. Optimize(u, TRUE) = g[n].list
  BY DEF Optimize, StepsFrom
<1>. HIDE DEF g
<1>4. /\ g[0] = [list |-> u, i |-> 1]
      /\ \A k \in 1 .. n : g[k] = OptimizeStep(g[k - 1], TRUE)
  <2>. HIDE DEF n
  <2>. QED BY <1>1, <1>2 DEF StepsFrom
<1>. HIDE DEF n
<1>5. 0 \in S
  <2>1. Apart(u, 1)
    BY <1>1 DEF Apart
  <2>2. g[0] \in T
    BY <1>4, <1>1, <2>1 DEF QType
  <2>3. Len(g[0].list) - g[0].i + 0 <= Len(u) - 1
    BY <1>1, <1>4
  <2>. QED BY <2>2, <2>3
<1>6. ASSUME NEW k \in Nat, k \in S PROVE k + 1 \in S
  <2>. SUFFICES ASSUME k + 1 <= n
                PROVE  /\ g[k + 1] \in T
                       /\ \/ Len(g[k + 1].list) - g[k + 1].i + (k + 1) <= Len(u) - 1
                          \/ g[k + 1].i >= Len(g[k + 1].list)
    OBVIOUS
  <2>1. k <= n /\ k + 1 \in 1 .. n /\ (k + 1) - 1 = k
    BY <1>1
  <2>2. /\ g[k] \in T
        /\ \/ Len(g[k].list) - g[k].i + k <= Len(u) - 1
           \/ g[k].i >= Len(g[k].list)
    BY <1>6, <2>1
  <2>3. g[k + 1] = OptimizeStep(g[k], TRUE)
    BY <1>4, <2>1
  <2>. HIDE DEF S
  <2>4. /\ g[k + 1] \in T
        /\ \/ Len(g[k + 1].list) - g[k + 1].i <= Len(g[k].list) - g[k].i - 1
           \/ g[k + 1].i >= Len(g[k + 1].list)
    BY <1>1, <2>2, <2>3, OptimizeStepKeeps
  <2>5. /\ Len(g[k].list) \in Nat /\ g[k].i \in Nat
        /\ Len(g[k + 1].list) \in Nat /\ g[k + 1].i \in Nat
    BY <2>2, <2>4 DEF QType
  <2>. HIDE DEF T
  <2>6. CASE g[k + 1].i >= Len(g[k + 1].list)
    BY <2>4, <2>6
  <2>7. CASE ~ (g[k + 1].i >= Len(g[k + 1].list))
    <3>1. Len(g[k + 1].list) - g[k + 1].i <= Len(g[k].list) - g[k].i - 1
      BY <2>4, <2>7
    <3>2. PICK l \in Nat, i \in Nat, m \in Nat, j \in Nat, e \in Nat :
            /\ l = Len(g[k].list) /\ i = g[k].i /\ e = Len(u)
            /\ m = Len(g[k + 1].list) /\ j = g[k + 1].i
      BY <2>5, <1>1
    <3>3. m - j <= l - i - 1 /\ ~ (j >= m) /\ (l - i + k <= e - 1 \/ i >= l)
      BY <3>1, <3>2, <2>2, <2>7
    <3>4. m - j + (k + 1) <= e - 1
      BY <3>3
    <3>. QED BY <2>4, <3>2, <3>4
  <2>. QED BY <2>6, <2>7
<1>. HIDE DEF S
<1>7. n \in S
  BY <1>1, <1>5, <1>6, NatSets
<1>8. /\ g[n] \in T
      /\ \/ Len(g[n].list) - g[n].i + n <= Len(u) - 1
         \/ g[n].i >= Len(g[n].list)
  <2>1. n <= n
    BY <1>1
  <2>. QED BY <1>7, <2>1 DEF S
<1>9. /\ g[n].list \in Seq(Matches(w)) /\ Ordered(g[n].list) /\ Apart(g[n].list, g[n].i)
      /\ Len(g[n].list) <= Len(u) /\ g[n].i \in Nat /\ Len(g[n].list) \in Nat
  BY <1>8 DEF QType
<1>10. g[n].i >= Len(g[n].list)
  <2>. SUFFICES ASSUME Len(g[n].list) - g[n].i + n <= Len(u) - 1
                PROVE  g[n].i >= Len(g[n].list)
    BY <1>8
  <2>. QED BY <1>1, <1>9 DEF n
<1>11. Apart(g[n].list, Len(g[n].list))
  BY <1>9, <1>10 DEF Apart
<1>. QED BY <1>3, <1>9, <1>11

-----------------------------------------------------------------------------
(* Encoding.                                                               *)

InstType == [type : {ADD, RUN, CPY}, pos : Nat, size : Nat, addr : Nat, xtra : Nat]
Insts(w) == {i \in InstType : IsMatch(i) /\ Held(i, w)}
OutType  == [type : {ADD, RUN, CPY}, pos : Nat, size : Nat, addr : Nat, data : Seq(Nat)]
SrcwinType == [decided : BOOLEAN, srcbase : Nat, srclen : Nat, minaddr : Nat, maxaddr : Nat]
IoptType == [used : Seq(MatchType), free : Int, size : Nat,
             iout : InstType \cup {NoInst}, unencoded_offset : Nat,
             srcwin : SrcwinType, out : Seq(OutType)]

\* The source window before the first copy is encoded.
Open(w) == /\ w \in SrcwinType /\ ~ w.decided /\ w.srcbase = 0 /\ w.srclen = 0
           /\ w.maxaddr > 0 => w.minaddr <= w.maxaddr

\* What an encoded instruction says of the window is true, if the source window
\* is w.
TrueOut(o, w) ==
  /\ o.size >= 1 /\ EndOf(o) <= avail_in
  /\ o.type = ADD => o.data = [k \in 1 .. o.size |-> Tgt(o.pos + k - 1)]
  /\ o.type = RUN => \A k \in 0 .. o.size - 1 : Tgt(o.pos + k) = o.data[1]
  /\ o.type = CPY =>
       \/ /\ o.addr + o.size <= w.srclen
          /\ w.srcbase + o.addr + o.size <= Len(input.src)
          /\ \A k \in 0 .. o.size - 1 : Src(w.srcbase + o.addr + k) = Tgt(o.pos + k)
       \/ /\ o.addr >= w.srclen /\ o.addr - w.srclen < o.pos
          /\ \A k \in 0 .. o.size - 1 : Tgt(o.addr - w.srclen + k) = Tgt(o.pos + k)

\* The instructions encoded so far are true and follow each other up to
\* unencoded_offset; w is the source window before the first of them.
Encoded(e, w) ==
  /\ \A k \in 1 .. Len(e.out) :
       /\ TrueOut(e.out[k], e.srcwin)
       /\ e.out[k].pos = IF k = 1 THEN 0 ELSE EndOf(e.out[k - 1])
  /\ e.unencoded_offset = IF Len(e.out) = 0 THEN 0 ELSE EndOf(e.out[Len(e.out)])
  /\ \/ e.srcwin = w /\ (HasSource => \A k \in 1 .. Len(e.out) : e.out[k].type # CPY)
     \/ HasSource /\ e.srcwin = SrcwinSetup(w, TRUE)

\* The slots that iout holds.
Held1(e) == IF e.iout = NoInst THEN 0 ELSE Slot(e.iout)

LEMMA InstFields ==
  ASSUME NEW w, NEW i \in Insts(w)
  PROVE  /\ i.type \in {ADD, RUN, CPY} /\ i.pos \in Nat /\ i.size \in Nat /\ i.size >= 1
         /\ i.addr \in Nat /\ i.xtra \in Nat /\ EndOf(i) \in Nat
         /\ EndOf(i) = i.pos + i.size /\ EndOf(i) <= avail_in
         /\ i \in InstType /\ IsMatch(i) /\ Held(i, w)
BY DEF Insts, InstType, IsMatch, EndOf

LEMMA FinalWindow ==
  ASSUME NEW w, Open(w)
  PROVE  LET v == SrcwinSetup(w, TRUE)
         IN  /\ v \in SrcwinType /\ v.decided
             /\ w.maxaddr > 0 => v.srcbase = w.minaddr /\ v.srclen = w.maxaddr - w.minaddr
<1>. DEFINE v == SrcwinSetup(w, TRUE)
<1>1. w \in SrcwinType /\ w.maxaddr \in Nat /\ w.minaddr \in Nat
  BY DEF Open, SrcwinType
<1>2. CASE w.maxaddr = 0
  <2>1. v = [w EXCEPT !.decided = TRUE]
    BY <1>2 DEF SrcwinSetup
  <2>2. v \in SrcwinType /\ v.decided
    BY <2>1, <1>1 DEF SrcwinType
  <2>3. ~ (w.maxaddr > 0)
    BY <1>1, <1>2
  <2>. QED BY <2>2, <2>3
<1>3. CASE w.maxaddr # 0
  <2>1. v = [w EXCEPT !.decided = TRUE, !.srcbase = w.minaddr,
                      !.srclen = w.maxaddr - w.minaddr]
    BY <1>3 DEF SrcwinSetup
  <2>2. w.maxaddr - w.minaddr \in Nat
    BY <1>1, <1>3 DEF Open
  <2>3. /\ v \in SrcwinType /\ v.decided
        /\ v.srcbase = w.minaddr /\ v.srclen = w.maxaddr - w.minaddr
    BY <2>1, <2>2, <1>1 DEF SrcwinType
  <2>. QED BY <2>3
<1>. QED BY <1>2, <1>3

\* What FinishEncoding appends for i if the source window is v.
AddrOf(i, v) == IF i.type # CPY THEN 0
                ELSE IF i.xtra = 1 THEN i.addr - v.srcbase ELSE v.srclen + i.addr
DataOf(i) == CASE i.type = CPY -> <<>>
               [] i.type = RUN -> <<i.xtra>>
               [] i.type = ADD -> [k \in 1 .. i.size |-> Tgt(i.pos + k - 1)]
Instruction(i, v) == [type |-> i.type, pos |-> i.pos, size |-> i.size,
                      addr |-> AddrOf(i, v), data |-> DataOf(i)]

LEMMA DataType ==
  ASSUME Setting, NEW w, NEW i \in Insts(w)
  PROVE  DataOf(i) \in Seq(Nat)
<1>1. /\ i.pos \in Nat /\ i.size \in Nat /\ i.size >= 1
      /\ i.pos + i.size <= avail_in /\ avail_in \in Nat
  BY InstFields, SettingTypes
<1>2. ADD # CPY /\ RUN # CPY /\ ADD # RUN
  BY DEF ADD, RUN, CPY
<1>3. CASE i.type = CPY
  BY <1>2, <1>3 DEF DataOf
<1>4. CASE i.type = RUN
  <2>1. i.xtra \in Nat
    BY InstFields
  <2>2. DataOf(i) = <<i.xtra>>
    BY <1>2, <1>4 DEF DataOf
  <2>. DEFINE x == i.xtra
  <2>. HIDE DEF x
  <2>3. x \in Nat => <<x>> \in Seq(Nat)
    OBVIOUS
  <2>. QED BY <2>1, <2>2, <2>3 DEF x
<1>5. CASE i.type = ADD
  <2>. DEFINE n == i.size
              f == [k \in 1 .. n |-> Tgt(i.pos + k - 1)]
  <2>1. ASSUME NEW k \in 1 .. n PROVE Tgt(i.pos + k - 1) \in Nat
    <3>1. i.pos + k - 1 \in 0 .. avail_in - 1
      BY <1>1
    <3>. QED BY <3>1, SettingTypes
  <2>2. f \in [1 .. n -> Nat]
    BY <2>1
  <2>3. f \in Seq(Nat)
    <3>1. n \in Nat
      BY <1>1
    <3>. HIDE DEF f, n
    <3>. QED BY <2>2, <3>1, SeqDef
  <2>4. DataOf(i) = f
    BY <1>2, <1>5 DEF DataOf
  <2>. QED BY <2>3, <2>4
<1>6. i.type \in {ADD, RUN, CPY}
  BY InstFields
<1>. QED BY <1>3, <1>4, <1>5, <1>6

LEMMA InstructionTrue ==
  ASSUME Setting, NEW w, Open(w), NEW i \in Insts(w), NEW v, v \in SrcwinType,
         i.type = CPY =>
           \/ HasSource /\ v = SrcwinSetup(w, TRUE)
           \/ ~ HasSource /\ v = w
  PROVE  LET o == Instruction(i, v)
         IN  /\ o \in OutType /\ TrueOut(o, v) /\ o.type = i.type
             /\ o.pos = i.pos /\ EndOf(o) = EndOf(i)
<1>. DEFINE o == Instruction(i, v)
<1>1. /\ i.type \in {ADD, RUN, CPY} /\ i.pos \in Nat /\ i.size \in Nat /\ i.size >= 1
      /\ i.addr \in Nat /\ EndOf(i) = i.pos + i.size /\ EndOf(i) <= avail_in
      /\ IsMatch(i) /\ Held(i, w)
  BY InstFields
<1>2. /\ o.type = i.type /\ o.pos = i.pos /\ o.size = i.size
      /\ o.addr = AddrOf(i, v) /\ o.data = DataOf(i)
  BY DEF Instruction
<1>3. EndOf(o) = EndOf(i)
  BY <1>2 DEF EndOf
<1>4. DataOf(i) \in Seq(Nat)
  BY DataType
<1>5. v.srcbase \in Nat /\ v.srclen \in Nat
  BY DEF SrcwinType
<1>6. ADD # CPY /\ RUN # CPY /\ ADD # RUN
  BY DEF ADD, RUN, CPY
<1>7. ASSUME i.type = CPY, i.xtra = 1
      PROVE  /\ AddrOf(i, v) \in Nat
             /\ AddrOf(i, v) + i.size <= v.srclen
             /\ v.srcbase + AddrOf(i, v) + i.size <= Len(input.src)
             /\ \A k \in 0 .. i.size - 1 :
                  Src(v.srcbase + AddrOf(i, v) + k) = Tgt(i.pos + k)
  <2>1. /\ i.addr + i.size <= Len(input.src)
        /\ \A k \in 0 .. i.size - 1 : Src(i.addr + k) = Tgt(i.pos + k)
    BY <1>1, <1>7 DEF IsMatch
  <2>2. w.minaddr <= i.addr /\ i.addr + i.size <= w.maxaddr
    BY <1>1, <1>7 DEF Held
  <2>3. w.minaddr \in Nat /\ w.maxaddr \in Nat
    BY DEF Open, SrcwinType
  <2>4. w.maxaddr > 0
    BY <1>1, <2>2, <2>3
  <2>5. HasSource
    <3>1. SUFFICES ASSUME input.src = <<>> PROVE FALSE
      BY DEF HasSource
    <3>2. Len(input.src) = 0
      BY <3>1
    <3>. QED BY <3>2, <2>1, <1>1
  <2>6. v.srcbase = w.minaddr /\ v.srclen = w.maxaddr - w.minaddr
    BY <1>7, <2>4, <2>5, FinalWindow
  <2>7. AddrOf(i, v) = i.addr - v.srcbase
    BY <1>7 DEF AddrOf
  <2>8. /\ AddrOf(i, v) \in Nat /\ AddrOf(i, v) + i.size <= v.srclen
        /\ v.srcbase + AddrOf(i, v) = i.addr
    BY <2>2, <2>3, <2>6, <2>7, <1>1
  <2>. QED BY <2>1, <2>8
<1>8. ASSUME i.type = CPY, i.xtra # 1
      PROVE  /\ AddrOf(i, v) \in Nat
             /\ AddrOf(i, v) >= v.srclen /\ AddrOf(i, v) - v.srclen < i.pos
             /\ \A k \in 0 .. i.size - 1 :
                  Tgt(AddrOf(i, v) - v.srclen + k) = Tgt(i.pos + k)
  <2>1. /\ i.addr < i.pos
        /\ \A k \in 0 .. i.size - 1 : Tgt(i.addr + k) = Tgt(i.pos + k)
    BY <1>1, <1>8 DEF IsMatch
  <2>2. AddrOf(i, v) = v.srclen + i.addr
    BY <1>8 DEF AddrOf
  <2>3. /\ AddrOf(i, v) \in Nat /\ AddrOf(i, v) >= v.srclen
        /\ AddrOf(i, v) - v.srclen = i.addr
    BY <2>2, <1>1, <1>5
  <2>. QED BY <2>1, <2>3
<1>9. AddrOf(i, v) \in Nat
  <2>1. i.type # CPY => AddrOf(i, v) = 0
    BY DEF AddrOf
  <2>. QED BY <2>1, <1>7, <1>8
<1>10. o \in OutType
  BY <1>1, <1>4, <1>9 DEF Instruction, OutType
<1>11. i.type = ADD => DataOf(i) = [k \in 1 .. i.size |-> Tgt(i.pos + k - 1)]
  BY <1>6 DEF DataOf
<1>12. i.type = RUN => \A k \in 0 .. i.size - 1 : Tgt(i.pos + k) = DataOf(i)[1]
  <2>1. ASSUME i.type = RUN PROVE DataOf(i)[1] = i.xtra
    BY <2>1, <1>6 DEF DataOf
  <2>. QED BY <2>1, <1>1 DEF IsMatch
<1>. HIDE DEF o
<1>13. TrueOut(o, v)
  BY <1>1, <1>2, <1>3, <1>7, <1>8, <1>11, <1>12 DEF TrueOut
<1>. QED BY <1>2, <1>3, <1>10, <1>13 DEF o

\* The fields of what FinishEncoding returns.
WindowFor(e, i) == IF i.type = CPY /\ HasSource /\ ~ e.srcwin.decided
                   THEN SrcwinSetup(e.srcwin, TRUE) ELSE e.srcwin

LEMMA FinishFields ==
  ASSUME NEW e \in IoptType, NEW i \in InstType,
         Instruction(i, WindowFor(e, i)) \in OutType, WindowFor(e, i) \in SrcwinType
  PROVE  LET r == FinishEncoding(e, i, TRUE)
         IN  /\ r \in IoptType /\ r.used = e.used /\ r.size = e.size
             /\ r.srcwin = WindowFor(e, i)
             /\ r.unencoded_offset = e.unencoded_offset + i.size
             /\ r.out = Append(e.out, Instruction(i, WindowFor(e, i)))
             /\ r.free + Held1(r) = e.free + Held1(e) + Slot(i)
<1>. DEFINE v == WindowFor(e, i)
            o == Instruction(i, v)
            r == FinishEncoding(e, i, TRUE)
            paired == e.iout # NoInst /\ PairCode(Coded(e.iout), Coded(i)) # NoCode
            iout == IF paired THEN NoInst ELSE i
            free == e.free + (IF e.iout = NoInst THEN 0 ELSE Slot(e.iout))
                           + (IF paired THEN Slot(i) ELSE 0)
            offset == e.unencoded_offset + i.size
<1>1. r = [e EXCEPT !.srcwin = v, !.unencoded_offset = offset,
             !.out = Append(e.out, o), !.iout = iout, !.free = free]
  BY DEF FinishEncoding, WindowFor, Instruction, AddrOf, DataOf
<1>2. /\ e.free \in Int /\ e.unencoded_offset \in Nat /\ e.out \in Seq(OutType)
      /\ i.size \in Nat
  BY DEF IoptType, InstType
<1>3. Slot(i) \in {0, 1} /\ Slot(e.iout) \in {0, 1}
  BY DEF Slot
<1>4. i # NoInst
  BY DEF InstType, NoInst, NOOP, ADD, RUN, CPY
<1>. HIDE DEF v, o, r, paired
<1>5. free \in Int /\ offset \in Nat /\ iout \in InstType \cup {NoInst}
  BY <1>2, <1>3
<1>6. Append(e.out, o) \in Seq(OutType)
  <2>1. o \in OutType
    BY DEF o, v
  <2>. QED BY <1>2, <2>1
<1>6a. v \in SrcwinType
  BY DEF v
<1>7. free + (IF iout = NoInst THEN 0 ELSE Slot(iout))
        = e.free + (IF e.iout = NoInst THEN 0 ELSE Slot(e.iout)) + Slot(i)
  BY <1>2, <1>3, <1>4
<1>. HIDE DEF free, offset, iout
<1>8. /\ r \in IoptType /\ r.used = e.used /\ r.size = e.size /\ r.srcwin = v
      /\ r.unencoded_offset = offset /\ r.out = Append(e.out, o)
      /\ r.iout = iout /\ r.free = free
  BY <1>1, <1>5, <1>6, <1>6a DEF IoptType
<1>9. r.free + Held1(r) = e.free + Held1(e) + Slot(i)
  BY <1>7, <1>8 DEF Held1
<1>. QED BY <1>8, <1>9 DEF r, v, o, offset

LEMMA TrueAnyway ==
  ASSUME NEW o, NEW v, NEW w, TrueOut(o, v), o.type # CPY
  PROVE  TrueOut(o, w)
BY DEF TrueOut

LEMMA FinishEncodingKeeps ==
  ASSUME Setting, NEW w, Open(w), NEW e \in IoptType, Encoded(e, w),
         NEW i \in Insts(w), i.pos = e.unencoded_offset
  PROVE  LET r == FinishEncoding(e, i, TRUE)
         IN  /\ r \in IoptType /\ r.used = e.used /\ r.size = e.size
             /\ r.unencoded_offset = EndOf(i) /\ Encoded(r, w)
             /\ r.free + Held1(r) = e.free + Held1(e) + Slot(i)
<1>. DEFINE v == WindowFor(e, i)
            o == Instruction(i, v)
            r == FinishEncoding(e, i, TRUE)
            n == Len(e.out)
<1>1. e.out \in Seq(OutType) /\ n \in Nat /\ e.srcwin \in SrcwinType
  BY DEF IoptType
<1>2. ~ w.decided /\ SrcwinSetup(w, TRUE).decided /\ SrcwinSetup(w, TRUE) \in SrcwinType
  BY FinalWindow DEF Open
<1>3. \/ /\ v = e.srcwin /\ e.srcwin = w
         /\ HasSource => i.type # CPY /\ \A k \in 1 .. n : e.out[k].type # CPY
      \/ /\ HasSource /\ v = SrcwinSetup(w, TRUE)
         /\ v = e.srcwin \/ \A k \in 1 .. n : e.out[k].type # CPY
  <2>1. CASE /\ e.srcwin = w
             /\ HasSource => \A k \in 1 .. Len(e.out) : e.out[k].type # CPY
    BY <2>1, <1>2 DEF WindowFor
  <2>2. CASE HasSource /\ e.srcwin = SrcwinSetup(w, TRUE)
    BY <2>2, <1>2 DEF WindowFor
  <2>. QED BY <2>1, <2>2 DEF Encoded
<1>. HIDE DEF v
<1>4. v \in SrcwinType
  BY <1>1, <1>2, <1>3
<1>5. /\ i.type = CPY =>
           \/ HasSource /\ v = SrcwinSetup(w, TRUE)
           \/ ~ HasSource /\ v = w
  BY <1>3
<1>6. /\ o \in OutType /\ TrueOut(o, v) /\ o.type = i.type
      /\ o.pos = i.pos /\ EndOf(o) = EndOf(i)
  BY <1>4, <1>5, InstructionTrue
<1>. HIDE DEF o
<1>7. i \in InstType /\ EndOf(i) = i.pos + i.size
  BY InstFields
<1>8. /\ r \in IoptType /\ r.used = e.used /\ r.size = e.size
      /\ r.srcwin = v /\ r.unencoded_offset = e.unencoded_offset + i.size
      /\ r.out = Append(e.out, o)
      /\ r.free + Held1(r) = e.free + Held1(e) + Slot(i)
  BY <1>4, <1>6, <1>7, FinishFields DEF v, o
<1>. HIDE DEF r
<1>9. /\ Len(r.out) = n + 1 /\ r.out[n + 1] = o
      /\ \A k \in 1 .. n : r.out[k] = e.out[k]
  BY <1>1, <1>6, <1>8, AppendProperties
<1>10. r.unencoded_offset = EndOf(i)
  BY <1>7, <1>8
<1>11. ASSUME NEW k \in 1 .. n + 1
       PROVE  /\ TrueOut(r.out[k], v)
              /\ r.out[k].pos = IF k = 1 THEN 0 ELSE EndOf(r.out[k - 1])
  <2>1. CASE k = n + 1
    <3>1. o.pos = IF n = 0 THEN 0 ELSE EndOf(e.out[n])
      BY <1>6 DEF Encoded
    <3>2. CASE n = 0
      BY <2>1, <3>1, <3>2, <1>6, <1>9
    <3>3. CASE n # 0
      <4>1. n \in 1 .. n /\ k # 1 /\ k - 1 = n
        BY <2>1, <3>3, <1>1
      <4>. HIDE DEF n
      <4>. QED BY <2>1, <3>1, <3>3, <4>1, <1>6, <1>9
    <3>. QED BY <3>2, <3>3
  <2>2. CASE k # n + 1
    <3>1. k \in 1 .. n /\ (k # 1 => k - 1 \in 1 .. n)
      BY <2>2, <1>1
    <3>2. /\ TrueOut(e.out[k], e.srcwin)
          /\ e.out[k].pos = IF k = 1 THEN 0 ELSE EndOf(e.out[k - 1])
      BY <3>1 DEF Encoded
    <3>3. TrueOut(e.out[k], v)
      BY <3>1, <3>2, <1>3, TrueAnyway
    <3>. QED BY <3>1, <3>2, <3>3, <1>9
  <2>. QED BY <2>1, <2>2
<1>12. \/ r.srcwin = w /\ (HasSource => \A k \in 1 .. Len(r.out) : r.out[k].type # CPY)
       \/ HasSource /\ r.srcwin = SrcwinSetup(w, TRUE)
  <2>1. CASE HasSource /\ v = SrcwinSetup(w, TRUE)
    BY <2>1, <1>8
  <2>2. CASE /\ v = w
             /\ HasSource => i.type # CPY /\ \A k \in 1 .. n : e.out[k].type # CPY
    <3>1. ASSUME HasSource, NEW k \in 1 .. n + 1 PROVE r.out[k].type # CPY
      <4>1. CASE k = n + 1
        BY <4>1, <3>1, <2>2, <1>6, <1>9
      <4>2. CASE k # n + 1
        <5>1. k \in 1 .. n
          BY <4>2, <1>1
        <5>2. r.out[k] = e.out[k]
          BY <5>1, <1>9
        <5>. QED BY <5>1, <5>2, <3>1, <2>2
      <4>. QED BY <4>1, <4>2
    <3>. QED BY <3>1, <2>2, <1>8, <1>9
  <2>. QED BY <2>1, <2>2, <1>3
<1>13. r.unencoded_offset = IF Len(r.out) = 0 THEN 0 ELSE EndOf(r.out[Len(r.out)])
  BY <1>1, <1>6, <1>9, <1>10
<1>14. Encoded(r, w)
  BY <1>8, <1>9, <1>11, <1>12, <1>13 DEF Encoded
<1>. QED BY <1>8, <1>10, <1>14 DEF r

\* xd3_iopt_add, up to pos.
LEMMA AddUpToKeeps ==
  ASSUME Setting, NEW w, Open(w), NEW e \in IoptType, Encoded(e, w),
         NEW pos \in Nat, e.unencoded_offset <= pos, pos <= avail_in
  PROVE  LET r == AddUpTo(e, pos, TRUE)
         IN  /\ r \in IoptType /\ r.used = e.used /\ r.size = e.size
             /\ r.unencoded_offset = pos /\ Encoded(r, w)
             /\ r.free + Held1(r) = e.free + Held1(e)
<1>. DEFINE off == e.unencoded_offset
            i == [type |-> ADD, pos |-> off, size |-> pos - off, addr |-> 0, xtra |-> 0]
            r == AddUpTo(e, pos, TRUE)
<1>1. off \in Nat /\ e.free \in Int
  BY DEF IoptType
<1>1a. Held1(e) \in Int
  BY DEF Held1, Slot
<1>2. CASE pos > off
  <2>1. r = FinishEncoding(e, i, TRUE)
    BY <1>2 DEF AddUpTo
  <2>2. i \in InstType /\ i.type = ADD /\ i.pos = off /\ i.size = pos - off
    BY <1>1, <1>2 DEF InstType
  <2>. HIDE DEF i
  <2>3. i.size >= 1 /\ EndOf(i) = pos
    BY <1>1, <1>2, <2>2 DEF EndOf
  <2>4. i \in Insts(w)
    BY <2>2, <2>3 DEF Insts, IsMatch, Held, ADD, RUN, CPY
  <2>. HIDE DEF r
  <2>5. /\ r \in IoptType /\ r.used = e.used /\ r.size = e.size
        /\ r.unencoded_offset = EndOf(i) /\ Encoded(r, w)
        /\ r.free + Held1(r) = e.free + Held1(e) + Slot(i)
    BY <2>1, <2>2, <2>4, FinishEncodingKeeps
  <2>6. Slot(i) = 0
    BY <2>2 DEF Slot
  <2>7. r.free + Held1(r) = e.free + Held1(e)
    BY <2>5, <2>6, <1>1, <1>1a
  <2>. QED BY <2>3, <2>5, <2>7 DEF r
<1>3. CASE ~ (pos > off)
  <2>1. r = e
    BY <1>3 DEF AddUpTo
  <2>2. e.unencoded_offset = pos
    BY <1>1, <1>3
  <2>. QED BY <2>1, <2>2
<1>. QED BY <1>2, <1>3

\* A match, and the bytes before it.
LEMMA AddEncodingKeeps ==
  ASSUME Setting, NEW w, Open(w), NEW e \in IoptType, Encoded(e, w),
         NEW i \in Matches(w), e.unencoded_offset <= i.pos
  PROVE  LET r == AddEncoding(e, i, TRUE)
         IN  /\ r \in IoptType /\ r.used = e.used /\ r.size = e.size
             /\ r.unencoded_offset = EndOf(i) /\ Encoded(r, w)
             /\ r.free + Held1(r) = e.free + Held1(e) + 1
<1>. DEFINE q == AddUpTo(e, i.pos, TRUE)
            r == AddEncoding(e, i, TRUE)
<1>1. i \in Insts(w) /\ i.type # ADD
  BY DEF Matches, MatchType, Insts, InstType, ADD, RUN, CPY
<1>2. i.pos \in Nat /\ i.pos <= avail_in
  BY <1>1, InstFields, SettingTypes
<1>3. /\ q \in IoptType /\ q.used = e.used /\ q.size = e.size
      /\ q.unencoded_offset = i.pos /\ Encoded(q, w)
      /\ q.free + Held1(q) = e.free + Held1(e)
  BY <1>2, AddUpToKeeps
<1>. HIDE DEF q
<1>4. r = FinishEncoding(q, i, TRUE)
  BY DEF AddEncoding, q
<1>. HIDE DEF r
<1>5. /\ r \in IoptType /\ r.used = q.used /\ r.size = q.size
      /\ r.unencoded_offset = EndOf(i) /\ Encoded(r, w)
      /\ r.free + Held1(r) = q.free + Held1(q) + Slot(i)
  BY <1>1, <1>3, <1>4, FinishEncodingKeeps
<1>6. Slot(i) = 1
  BY <1>1 DEF Slot
<1>. QED BY <1>3, <1>5, <1>6 DEF r

\* The buffer while it is emptied: the first k of list are encoded.
Emptied(list, size, w, k) ==
  {e \in IoptType :
     /\ Encoded(e, w) /\ e.used = <<>> /\ e.size = size
     /\ e.unencoded_offset = IF k = 0 THEN 0 ELSE EndOf(list[k])
     /\ e.free + Held1(e) + (Len(list) - k) = size}

LEMMA EmptiedStep ==
  ASSUME Setting, NEW w, Open(w), NEW list \in Seq(Matches(w)), Ordered(list),
         Apart(list, Len(list)), NEW size \in Nat,
         NEW k \in 0 .. Len(list) - 1, NEW e \in Emptied(list, size, w, k)
  PROVE  AddEncoding(e, list[k + 1], TRUE) \in Emptied(list, size, w, k + 1)
<1>. DEFINE i == list[k + 1]
            r == AddEncoding(e, i, TRUE)
<1>1. Len(list) \in Nat /\ k + 1 \in 1 .. Len(list)
  OBVIOUS
<1>2. i \in Matches(w) /\ i.pos \in Nat
  BY <1>1, ElementOfSeq, MatchFields
<1>3. /\ e \in IoptType /\ Encoded(e, w) /\ e.used = <<>> /\ e.size = size
      /\ e.unencoded_offset = IF k = 0 THEN 0 ELSE EndOf(list[k])
      /\ e.free + Held1(e) + (Len(list) - k) = size
  BY DEF Emptied
<1>4. e.unencoded_offset <= i.pos
  <2>1. CASE k = 0
    BY <2>1, <1>2, <1>3
  <2>2. CASE k # 0
    <3>1. k \in 1 .. Len(list) - 1 /\ k < Len(list)
      BY <2>2, <1>1
    <3>. QED BY <2>2, <3>1, <1>3 DEF Apart
  <2>. QED BY <2>1, <2>2
<1>. HIDE DEF i
<1>5. /\ r \in IoptType /\ r.used = e.used /\ r.size = e.size
      /\ r.unencoded_offset = EndOf(i) /\ Encoded(r, w)
      /\ r.free + Held1(r) = e.free + Held1(e) + 1
  BY <1>2, <1>3, <1>4, AddEncodingKeeps
<1>. HIDE DEF r
<1>6. r.free + Held1(r) + (Len(list) - (k + 1)) = size
  <2>1. e.free \in Int /\ r.free \in Int
    BY <1>3, <1>5 DEF IoptType
  <2>2. Held1(e) \in Int /\ Held1(r) \in Int
    BY DEF Held1, Slot
  <2>3. PICK a \in Int, b \in Int, c \in Int, d \in Int, n \in Nat :
          /\ a = e.free /\ b = Held1(e) /\ c = r.free /\ d = Held1(r) /\ n = Len(list)
    BY <2>1, <2>2, <1>1
  <2>4. a + b + (n - k) = size /\ c + d = a + b + 1
    BY <2>3, <1>3, <1>5
  <2>5. c + d + (n - (k + 1)) = size
    BY <2>4
  <2>. QED BY <2>3, <2>5
<1>7. r \in Emptied(list, size, w, k + 1)
  <2>1. k + 1 # 0
    OBVIOUS
  <2>. QED BY <2>1, <1>3, <1>5, <1>6 DEF Emptied, i
<1>. QED BY <1>7 DEF r, i

\* The function that Flush computes.
FlushFrom(list, rest, n, g) ==
  g = [k \in 0 .. n |-> IF k = 0 THEN rest ELSE AddEncoding(g[k - 1], list[k], TRUE)]

LEMMA FlushExists ==
  ASSUME Setting, NEW w, Open(w), NEW list \in Seq(Matches(w)), Ordered(list),
         Apart(list, Len(list)), NEW size \in Nat,
         NEW rest \in Emptied(list, size, w, 0)
  PROVE  \E g : /\ FlushFrom(list, rest, Len(list), g)
                /\ g[Len(list)] \in Emptied(list, size, w, Len(list))
<1>. DEFINE n == Len(list)
            T == {p \in (0 .. n) \X IoptType : p[2] \in Emptied(list, size, w, p[1])}
            Step(p) == IF p[1] < n
                       THEN <<p[1] + 1, AddEncoding(p[2], list[p[1] + 1], TRUE)>>
                       ELSE p
            step == [p \in T |-> Step(p)]
            b == <<0, rest>>
<1>1. n \in Nat
  OBVIOUS
<1>2. \A k, e : e \in Emptied(list, size, w, k) => e \in IoptType
  BY DEF Emptied
<1>3. b \in T
  BY <1>1, <1>2
<1>4. ASSUME NEW p \in T, p[1] < n
      PROVE  /\ Step(p) \in T /\ Step(p)[1] = p[1] + 1
             /\ Step(p)[2] = AddEncoding(p[2], list[p[1] + 1], TRUE)
  <2>1. p[1] \in 0 .. n - 1 /\ p[2] \in Emptied(list, size, w, p[1])
    BY <1>1, <1>4
  <2>2. AddEncoding(p[2], list[p[1] + 1], TRUE) \in Emptied(list, size, w, p[1] + 1)
    <3>. HIDE DEF T
    <3>. QED BY <2>1, EmptiedStep
  <2>3. p[1] + 1 \in 0 .. n
    BY <2>1, <1>1
  <2>. DEFINE a == p[1] + 1
              d == AddEncoding(p[2], list[p[1] + 1], TRUE)
  <2>4. Step(p) = <<a, d>>
    BY <1>4
  <2>5. d \in Emptied(list, size, w, a) /\ d \in IoptType /\ a \in 0 .. n
    BY <2>2, <2>3, <1>2
  <2>. HIDE DEF Step, a, d, n
  <2>6. <<a, d>> \in T
    BY <2>5
  <2>. HIDE DEF T
  <2>7. Step(p) \in T /\ Step(p)[1] = a /\ Step(p)[2] = d
    BY <2>4, <2>6
  <2>. QED BY <2>7 DEF a, d
<1>5. step \in [T -> T]
  <2>1. ASSUME NEW p \in T PROVE Step(p) \in T
    <3>1. CASE p[1] < n
      <4>. HIDE DEF T, Step
      <4>. QED BY <3>1, <1>4
    <3>2. CASE ~ (p[1] < n)
      BY <3>2
    <3>. QED BY <3>1, <3>2
  <2>. HIDE DEF T, Step
  <2>. QED BY <2>1
<1>6. PICK f \in [0 .. n -> T] : Repeats(f, b, step, n)
  <2>. HIDE DEF T, b, step, n
  <2>. QED BY <1>1, <1>3, <1>5, Repeated
<1>7. f[0] = b /\ \A k \in 1 .. n : f[k] = step[f[k - 1]]
  BY <1>6 DEF Repeats
<1>. HIDE DEF Step
<1>8. \A k \in 1 .. n : f[k] = Step(f[k - 1]) /\ f[k - 1] \in T
  <2>. SUFFICES ASSUME NEW k \in 1 .. n PROVE f[k] = Step(f[k - 1]) /\ f[k - 1] \in T
    OBVIOUS
  <2>1. k - 1 \in 0 .. n
    BY <1>1
  <2>. HIDE DEF T
  <2>2. f[k - 1] \in T
    BY <1>6, <2>1
  <2>. QED BY <1>7, <2>2
<1>. HIDE DEF step
<1>9. \A k \in 0 .. n : f[k] \in T /\ f[k][1] = k
  <2>. DEFINE S == {k \in Nat : k <= n => f[k] \in T /\ f[k][1] = k}
  <2>1. 0 \in S
    <3>. HIDE DEF T
    <3>. QED BY <1>3, <1>7
  <2>2. ASSUME NEW k \in Nat, k \in S PROVE k + 1 \in S
    <3>. SUFFICES ASSUME k + 1 <= n PROVE f[k + 1] \in T /\ f[k + 1][1] = k + 1
      OBVIOUS
    <3>1. k <= n /\ k + 1 \in 1 .. n /\ (k + 1) - 1 = k /\ k < n
      BY <1>1
    <3>. HIDE DEF T
    <3>2. f[k] \in T /\ f[k][1] = k
      BY <2>2, <3>1
    <3>3. f[k + 1] = Step(f[k])
      BY <1>8, <3>1
    <3>. QED BY <1>4, <3>1, <3>2, <3>3
  <2>. HIDE DEF S
  <2>3. Nat \subseteq S
    BY <2>1, <2>2, NatSets
  <2>. QED BY <2>3, <1>1 DEF S
<1>. DEFINE g == [k \in 0 .. n |-> f[k][2]]
<1>10. ASSUME NEW k \in 0 .. n
       PROVE  g[k] = IF k = 0 THEN rest ELSE AddEncoding(g[k - 1], list[k], TRUE)
  <2>1. CASE k = 0
    BY <2>1, <1>7
  <2>2. CASE k # 0
    <3>1. k \in 1 .. n /\ k - 1 \in 0 .. n /\ (k - 1) + 1 = k /\ k - 1 < n
      BY <2>2, <1>1
    <3>. HIDE DEF T, b
    <3>2. f[k] = Step(f[k - 1]) /\ f[k - 1] \in T /\ f[k - 1][1] = k - 1
      BY <1>8, <1>9, <3>1
    <3>3. f[k][2] = AddEncoding(f[k - 1][2], list[k], TRUE)
      BY <1>4, <3>1, <3>2
    <3>. QED BY <2>2, <3>1, <3>3
  <2>. QED BY <2>1, <2>2
<1>11. g = [k \in 0 .. n |-> IF k = 0 THEN rest ELSE AddEncoding(g[k - 1], list[k], TRUE)]
  <2>1. g = [k \in 0 .. n |-> g[k]]
    OBVIOUS
  <2>. HIDE DEF g, n
  <2>. QED BY <1>10, <2>1
<1>12. g[n] \in Emptied(list, size, w, n)
  <2>1. n \in 0 .. n
    BY <1>1
  <2>2. f[n] \in T /\ f[n][1] = n /\ g[n] = f[n][2]
    BY <1>9, <2>1
  <2>. QED BY <2>2
<1>. HIDE DEF g
<1>13. FlushFrom(list, rest, n, g)
  BY <1>11 DEF FlushFrom
<1>. QED BY <1>12, <1>13

\* One entry of it.
FlushAt(list, rest, h, m) ==
  h[m] = IF m = 0 THEN rest ELSE AddEncoding(h[m - 1], list[m], TRUE)

LEMMA FlushStep ==
  ASSUME NEW list, NEW rest, NEW n \in Nat, NEW h, FlushFrom(list, rest, n, h),
         NEW m \in 0 .. n
  PROVE  FlushAt(list, rest, h, m)
<1>. DEFINE Body(k) == IF k = 0 THEN rest ELSE AddEncoding(h[k - 1], list[k], TRUE)
<1>1. h = [k \in 0 .. n |-> Body(k)]
  BY DEF FlushFrom
<1>. HIDE DEF Body
<1>2. h[m] = Body(m)
  BY <1>1
<1>. QED BY <1>2 DEF Body, FlushAt

LEMMA FlushAgrees ==
  ASSUME NEW list, NEW rest, NEW n \in Nat, NEW f, NEW g,
         FlushFrom(list, rest, n, f), FlushFrom(list, rest, n, g)
  PROVE  g[n] = f[n]
<1>. DEFINE S == {m \in Nat : m <= n => g[m] = f[m]}
<1>1. ASSUME NEW m \in 0 .. n
      PROVE  FlushAt(list, rest, f, m) /\ FlushAt(list, rest, g, m)
  BY FlushStep
<1>2. 0 \in S
  <2>1. 0 \in 0 .. n
    OBVIOUS
  <2>2. FlushAt(list, rest, f, 0) /\ FlushAt(list, rest, g, 0)
    BY <1>1, <2>1
  <2>3. f[0] = rest /\ g[0] = rest
    BY <2>2 DEF FlushAt
  <2>. QED BY <2>3
<1>3. ASSUME NEW m \in Nat, m \in S PROVE m + 1 \in S
  <2>. SUFFICES ASSUME m + 1 <= n PROVE g[m + 1] = f[m + 1]
    OBVIOUS
  <2>1. m <= n /\ m + 1 \in 0 .. n /\ m + 1 # 0 /\ (m + 1) - 1 = m
    OBVIOUS
  <2>2. g[m] = f[m]
    BY <1>3, <2>1
  <2>3. FlushAt(list, rest, f, m + 1) /\ FlushAt(list, rest, g, m + 1)
    BY <1>1, <2>1
  <2>4. /\ f[m + 1] = AddEncoding(f[m], list[m + 1], TRUE)
        /\ g[m + 1] = AddEncoding(g[m], list[m + 1], TRUE)
    BY <2>1, <2>3 DEF FlushAt
  <2>. QED BY <2>2, <2>4
<1>. HIDE DEF S
<1>4. Nat \subseteq S
  BY <1>2, <1>3, NatSets
<1>5. n \in S
  BY <1>4
<1>. QED BY <1>5 DEF S

\* Whatever the buffer holds, flushing it encodes true instructions that follow
\* each other, and every slot is free again or in iout.
LEMMA FlushKeeps ==
  ASSUME Setting, NEW e \in IoptType, Open(e.srcwin),
         e.used \in Seq(Matches(e.srcwin)), Ordered(e.used),
         e.out = <<>>, e.unencoded_offset = 0, e.iout = NoInst,
         Len(e.used) + e.free = e.size
  PROVE  LET r == Flush(e, TRUE)
         IN  /\ r \in IoptType /\ Encoded(r, e.srcwin) /\ r.used = <<>>
             /\ r.size = e.size /\ r.free + Held1(r) = e.size
             /\ r.unencoded_offset <= avail_in
<1>. DEFINE w == e.srcwin
            list == Optimize(e.used, TRUE)
            n == Len(list)
            rest == [e EXCEPT !.used = SubSeq(list, n + 1, Len(list)),
                              !.free = @ + Len(e.used) - Len(list)]
            g == CHOOSE f : FlushFrom(list, rest, n, f)
            r == Flush(e, TRUE)
<1>1. w \in SrcwinType /\ w.minaddr \in Nat /\ w.maxaddr \in Nat
  BY DEF Open, SrcwinType
<1>2. /\ list \in Seq(Matches(w)) /\ Ordered(list) /\ Apart(list, Len(list))
  BY <1>1, OptimizeFacts
<1>3. r = g[n]
  BY DEF Flush, FlushFrom
<1>. HIDE DEF list, g, r
<1>4. n \in Nat
  BY <1>2
<1>5. SubSeq(list, n + 1, n) = <<>>
  BY <1>4, SubSeqEmpty
<1>6. Len(e.used) \in Nat /\ e.free \in Int /\ e.size \in Nat
  BY DEF IoptType
<1>7. /\ rest \in IoptType /\ rest.used = <<>> /\ rest.size = e.size
      /\ rest.out = <<>> /\ rest.unencoded_offset = 0 /\ rest.iout = NoInst
      /\ rest.srcwin = w /\ rest.free = e.free + Len(e.used) - n
  <2>. DEFINE free == e.free + Len(e.used) - n
  <2>1. free \in Int
    BY <1>4, <1>6
  <2>. HIDE DEF free
  <2>2. rest = [e EXCEPT !.used = <<>>, !.free = free]
    BY <1>5 DEF free
  <2>3. <<>> \in Seq(MatchType)
    OBVIOUS
  <2>. HIDE DEF rest, n
  <2>4. /\ rest \in IoptType /\ rest.used = <<>> /\ rest.size = e.size
        /\ rest.out = e.out /\ rest.unencoded_offset = e.unencoded_offset
        /\ rest.iout = e.iout /\ rest.srcwin = e.srcwin /\ rest.free = free
    BY <2>1, <2>2, <2>3 DEF IoptType
  <2>. QED BY <2>4 DEF free
<1>. HIDE DEF rest
<1>8. Encoded(rest, w)
  <2>1. Len(rest.out) = 0
    BY <1>7
  <2>. QED BY <2>1, <1>7 DEF Encoded
<1>9. Held1(rest) = 0
  BY <1>7 DEF Held1
<1>10. rest \in Emptied(list, e.size, w, 0)
  <2>1. rest.free + Held1(rest) + (Len(list) - 0) = e.size
    BY <1>4, <1>6, <1>7, <1>9
  <2>. QED BY <2>1, <1>7, <1>8 DEF Emptied
<1>11. PICK f : FlushFrom(list, rest, n, f) /\ f[n] \in Emptied(list, e.size, w, n)
  <2>. HIDE DEF w, n
  <2>1. \E f : /\ FlushFrom(list, rest, Len(list), f)
               /\ f[Len(list)] \in Emptied(list, e.size, w, Len(list))
    <3>1. Open(w)
      BY DEF w
    <3>. QED BY <1>2, <1>6, <1>10, <3>1, FlushExists
  <2>. QED BY <2>1 DEF n
<1>12. FlushFrom(list, rest, n, g)
  BY <1>11 DEF g
<1>13. r \in Emptied(list, e.size, w, n)
  <2>. HIDE DEF n, w
  <2>1. g[n] = f[n]
    BY <1>4, <1>11, <1>12, FlushAgrees
  <2>. QED BY <2>1, <1>3, <1>11
<1>14. /\ r \in IoptType /\ Encoded(r, w) /\ r.used = <<>> /\ r.size = e.size
       /\ r.unencoded_offset = IF n = 0 THEN 0 ELSE EndOf(list[n])
       /\ r.free + Held1(r) + (n - n) = e.size
  BY <1>13 DEF Emptied
<1>15. r.unencoded_offset <= avail_in
  <2>1. CASE n = 0
    BY <2>1, <1>14, SettingTypes
  <2>2. CASE n # 0
    <3>1. n \in 1 .. n
      BY <2>2, <1>4
    <3>. HIDE DEF n, w
    <3>2. list[n] \in Matches(w)
      <4>1. n \in 1 .. Len(list)
        BY <3>1 DEF n
      <4>. QED BY <4>1, <1>2, ElementOfSeq
    <3>3. EndOf(list[n]) <= avail_in
      BY <3>2 DEF Matches, IsMatch
    <3>. QED BY <2>2, <3>3, <1>14
  <2>. QED BY <2>1, <2>2
<1>16. r.free + Held1(r) = e.size
  <2>1. r.free \in Int /\ Held1(r) \in Int
    BY <1>14 DEF IoptType, Held1, Slot
  <2>2. r.free + Held1(r) + (n - n) = r.free + Held1(r)
    BY <2>1, <1>4
  <2>. QED BY <2>2, <1>14
<1>. QED BY <1>14, <1>15, <1>16 DEF r, w

\* ENC_INSTR: the whole window is encoded, and every slot is free.
LEMMA InstrEncodes ==
  ASSUME Setting, NEW e \in IoptType, Open(e.srcwin),
         e.used \in Seq(Matches(e.srcwin)), Ordered(e.used),
         e.out = <<>>, e.unencoded_offset = 0, e.iout = NoInst,
         Len(e.used) + e.free = e.size
  PROVE  LET r == AddFinalize(Flush(e, TRUE))
         IN  /\ r \in IoptType /\ Encoded(r, e.srcwin) /\ r.used = <<>>
             /\ r.size = e.size /\ r.free = r.size /\ r.iout = NoInst
             /\ r.unencoded_offset = avail_in
<1>. DEFINE w == e.srcwin
            f == Flush(e, TRUE)
            q == AddUpTo(f, avail_in, TRUE)
            r == AddFinalize(f)
<1>1. /\ f \in IoptType /\ Encoded(f, w) /\ f.used = <<>>
      /\ f.size = e.size /\ f.free + Held1(f) = e.size
      /\ f.unencoded_offset <= avail_in
  BY FlushKeeps
<1>. HIDE DEF f
<1>2. /\ q \in IoptType /\ q.used = f.used /\ q.size = f.size
      /\ q.unencoded_offset = avail_in /\ Encoded(q, w)
      /\ q.free + Held1(q) = f.free + Held1(f)
  <2>1. avail_in \in Nat /\ avail_in <= avail_in
    BY SettingTypes
  <2>. HIDE DEF w
  <2>2. Open(w)
    BY DEF w
  <2>. QED BY <1>1, <2>1, <2>2, AddUpToKeeps
<1>3. r = IF q.iout = NoInst THEN q
          ELSE [q EXCEPT !.iout = NoInst, !.free = @ + Slot(q.iout)]
  BY DEF AddFinalize
<1>. HIDE DEF q, r
<1>4. q.free \in Int /\ Slot(q.iout) \in Int
  BY <1>2 DEF IoptType, Slot
<1>. DEFINE Done == /\ r \in IoptType /\ Encoded(r, w) /\ r.used = <<>>
                    /\ r.size = e.size /\ r.free = r.size /\ r.iout = NoInst
                    /\ r.unencoded_offset = avail_in
<1>5. ASSUME q.iout = NoInst PROVE Done
  <2>1. Held1(q) = 0
    BY <1>5 DEF Held1
  <2>2. q.free = e.size
    BY <2>1, <1>1, <1>2, <1>4
  <2>3. r = q
    BY <1>3, <1>5
  <2>. QED BY <2>2, <2>3, <1>1, <1>2, <1>5
<1>6. ASSUME q.iout # NoInst PROVE Done
  <2>1. Held1(q) = Slot(q.iout)
    BY <1>6 DEF Held1
  <2>. DEFINE free == q.free + Slot(q.iout)
  <2>2. free \in Int /\ free = e.size
    BY <2>1, <1>1, <1>2, <1>4
  <2>3. r = [q EXCEPT !.iout = NoInst, !.free = free]
    BY <1>3, <1>6
  <2>. HIDE DEF free
  <2>4. /\ r \in IoptType /\ r.used = q.used /\ r.size = q.size /\ r.free = free
        /\ r.iout = NoInst /\ r.unencoded_offset = q.unencoded_offset
        /\ r.out = q.out /\ r.srcwin = q.srcwin
    <3>. HIDE DEF q, r
    <3>. QED BY <2>2, <2>3, <1>2 DEF IoptType
  <2>5. Encoded(r, w)
    BY <2>4, <1>2 DEF Encoded
  <2>. QED BY <2>2, <2>4, <2>5, <1>1, <1>2
<1>7. Done
  BY <1>5, <1>6
<1>. QED BY <1>7 DEF r, f, w

-----------------------------------------------------------------------------
(* What a decoder makes of true instructions.                              *)

\* The first n bytes of the window.
Prefix(n) == [p \in 1 .. n |-> Tgt(p - 1)]

LEMMA PrefixFacts ==
  ASSUME Setting, NEW n \in Nat, n <= avail_in
  PROVE  /\ Prefix(n) \in Seq(Nat) /\ Len(Prefix(n)) = n
         /\ \A p \in 1 .. n : Prefix(n)[p] = Tgt(p - 1)
<1>1. ASSUME NEW p \in 1 .. n PROVE Tgt(p - 1) \in Nat
  <2>1. p - 1 \in 0 .. avail_in - 1
    BY SettingTypes
  <2>. QED BY <2>1, SettingTypes
<1>2. Prefix(n) \in [1 .. n -> Nat]
  BY <1>1 DEF Prefix
<1>3. Prefix(n) \in Seq(Nat)
  BY <1>2, SeqDef
<1>4. Len(Prefix(n)) \in Nat /\ DOMAIN Prefix(n) = 1 .. Len(Prefix(n))
  BY <1>3, LenProperties
<1>5. 1 .. n = 1 .. Len(Prefix(n))
  BY <1>2, <1>4
<1>6. Len(Prefix(n)) = n
  <2>. HIDE DEF Prefix
  <2>1. PICK m \in Nat : m = Len(Prefix(n))
    BY <1>4
  <2>2. 1 .. n = 1 .. m
    BY <1>5, <2>1
  <2>3. n = m
    <3>1. CASE n < m
      <4>1. m \in 1 .. m /\ m \notin 1 .. n
        BY <3>1
      <4>. QED BY <2>2, <4>1
    <3>2. CASE m < n
      <4>1. n \in 1 .. n /\ n \notin 1 .. m
        BY <3>2
      <4>. QED BY <2>2, <4>1
    <3>. QED BY <3>1, <3>2
  <2>. QED BY <2>1, <2>3
<1>7. \A p \in 1 .. n : Prefix(n)[p] = Tgt(p - 1)
  BY DEF Prefix
<1>. QED BY <1>3, <1>6, <1>7

LEMMA PrefixGrows ==
  ASSUME Setting, NEW n \in Nat, NEW m \in Nat, n + m <= avail_in
  PROVE  Prefix(n) \o [k \in 1 .. m |-> Tgt(n + k - 1)] = Prefix(n + m)
<1>. DEFINE tail == [k \in 1 .. m |-> Tgt(n + k - 1)]
<1>1. avail_in \in Nat /\ n <= avail_in
  BY SettingTypes
<1>2. Prefix(n) \in Seq(Nat) /\ Len(Prefix(n)) = n
  BY <1>1, PrefixFacts
<1>3. ASSUME NEW k \in 1 .. m PROVE Tgt(n + k - 1) \in Nat
  <2>1. n + k - 1 \in 0 .. avail_in - 1
    BY <1>1
  <2>. QED BY <2>1, SettingTypes
<1>4. tail \in [1 .. m -> Nat]
  BY <1>3
<1>5. tail \in Seq(Nat)
  BY <1>4, SeqDef
<1>6. Len(tail) = m
  BY <1>4, <1>5, LenProperties
<1>. DEFINE t == Prefix(n) \o tail
<1>7. /\ t \in Seq(Nat) /\ Len(t) = n + m
      /\ \A p \in 1 .. n + m : t[p] = IF p <= n THEN Prefix(n)[p] ELSE tail[p - n]
  <2>. DEFINE s == Prefix(n)
  <2>1. s \in Seq(Nat) /\ Len(s) = n
    BY <1>2
  <2>. HIDE DEF tail, s
  <2>2. /\ s \o tail \in Seq(Nat) /\ Len(s \o tail) = Len(s) + Len(tail)
        /\ \A p \in 1 .. Len(s) + Len(tail) :
             (s \o tail)[p] = IF p <= Len(s) THEN s[p] ELSE tail[p - Len(s)]
    BY <1>5, <2>1, ConcatProperties
  <2>3. Len(s) + Len(tail) = n + m
    BY <1>6, <2>1
  <2>4. \A p \in 1 .. n + m : (s \o tail)[p] = IF p <= n THEN s[p] ELSE tail[p - n]
    BY <2>1, <2>2, <2>3
  <2>. QED BY <2>2, <2>3, <2>4 DEF s
<1>8. ASSUME NEW p \in 1 .. n + m PROVE t[p] = Tgt(p - 1)
  <2>. HIDE DEF t
  <2>1. CASE p <= n
    <3>1. p \in 1 .. n
      BY <2>1
    <3>. HIDE DEF tail
    <3>2. t[p] = Prefix(n)[p]
      BY <1>7, <2>1
    <3>3. Prefix(n)[p] = Tgt(p - 1)
      BY <1>1, <3>1, PrefixFacts
    <3>. QED BY <3>2, <3>3
  <2>2. CASE ~ (p <= n)
    <3>1. p - n \in 1 .. m /\ n + (p - n) - 1 = p - 1
      BY <2>2
    <3>2. tail[p - n] = Tgt(n + (p - n) - 1)
      BY <3>1
    <3>. HIDE DEF tail
    <3>3. t[p] = tail[p - n]
      BY <1>7, <2>2
    <3>. QED BY <3>1, <3>2, <3>3
  <2>. QED BY <2>1, <2>2
<1>9. /\ Prefix(n + m) \in Seq(Nat) /\ Len(Prefix(n + m)) = n + m
      /\ \A p \in 1 .. n + m : Prefix(n + m)[p] = Tgt(p - 1)
  BY PrefixFacts
<1>. HIDE DEF t
<1>10. t = Prefix(n + m)
  <2>. DEFINE q == Prefix(n + m)
  <2>1. q \in Seq(Nat) /\ Len(q) = n + m /\ \A p \in 1 .. n + m : q[p] = Tgt(p - 1)
    BY <1>9
  <2>. HIDE DEF q
  <2>2. Len(t) = Len(q) /\ \A p \in 1 .. Len(t) : t[p] = q[p]
    BY <1>7, <1>8, <2>1
  <2>3. t = q
    BY <1>7, <2>1, <2>2, SeqEqual
  <2>. QED BY <2>3 DEF q
<1>. QED BY <1>10 DEF t, tail

\* The function that Copied computes.
Byte(t, addr, h, k) ==
  LET w == iopt.srcwin
      a == addr + k
  IN  IF a < w.srclen
      THEN IF a >= 0 /\ w.srcbase + a < Len(input.src)
           THEN Src(w.srcbase + a) ELSE -1
      ELSE IF a - w.srclen < Len(t) THEN t[a - w.srclen + 1]
      ELSE IF addr - w.srclen < Len(t) THEN h[a - w.srclen - Len(t)] ELSE -1
CopyFrom(t, addr, size, g) == g = [k \in 0 .. size - 1 |-> Byte(t, addr, g, k)]

LEMMA CopiedByte ==
  ASSUME Setting, iopt.srcwin \in SrcwinType, NEW o \in OutType, o.type = CPY,
         TrueOut(o, iopt.srcwin), NEW k \in 0 .. o.size - 1, NEW h,
         \A j \in 0 .. k - 1 : h[j] = Tgt(o.pos + j)
  PROVE  Byte(Prefix(o.pos), o.addr, h, k) = Tgt(o.pos + k)
<1>. DEFINE w == iopt.srcwin
            t == Prefix(o.pos)
            a == o.addr + k
<1>1. w.srclen \in Nat /\ w.srcbase \in Nat
  BY DEF SrcwinType
<1>2. o.pos \in Nat /\ o.addr \in Nat /\ o.size \in Nat /\ k \in Nat
  BY DEF OutType
<1>3. avail_in \in Nat /\ o.pos <= avail_in
  BY <1>2, SettingTypes DEF TrueOut, EndOf
<1>4. Len(t) = o.pos /\ \A p \in 1 .. o.pos : t[p] = Tgt(p - 1)
  BY <1>2, <1>3, PrefixFacts
<1>. HIDE DEF t
<1>5. Byte(t, o.addr, h, k)
        = IF a < w.srclen
          THEN IF a >= 0 /\ w.srcbase + a < Len(input.src)
               THEN Src(w.srcbase + a) ELSE -1
          ELSE IF a - w.srclen < o.pos THEN t[a - w.srclen + 1]
          ELSE IF o.addr - w.srclen < o.pos THEN h[a - w.srclen - o.pos] ELSE -1
  BY <1>4 DEF Byte
<1>6. CASE /\ o.addr + o.size <= w.srclen
           /\ w.srcbase + o.addr + o.size <= Len(input.src)
           /\ \A j \in 0 .. o.size - 1 : Src(w.srcbase + o.addr + j) = Tgt(o.pos + j)
  <2>1. a < w.srclen /\ a >= 0 /\ w.srcbase + a < Len(input.src)
    <3>1. Len(input.src) \in Nat
      BY SettingTypes
    <3>2. PICK b \in Nat, l \in Nat, d \in Nat, n \in Nat, c \in Nat, m \in Nat :
            /\ b = w.srcbase /\ l = w.srclen /\ d = o.addr /\ n = o.size
            /\ c = Len(input.src) /\ m = k
      BY <1>1, <1>2, <3>1
    <3>3. d + n <= l /\ b + d + n <= c /\ m <= n - 1
      BY <1>6, <3>2
    <3>4. d + m < l /\ d + m >= 0 /\ b + (d + m) < c
      BY <3>3
    <3>. QED BY <3>2, <3>4
  <2>2. w.srcbase + a = w.srcbase + o.addr + k
    BY <1>1, <1>2
  <2>3. Src(w.srcbase + a) = Tgt(o.pos + k)
    BY <1>6, <2>2
  <2>. HIDE DEF a
  <2>. QED BY <1>5, <2>1, <2>3 DEF t
<1>7. CASE /\ o.addr >= w.srclen /\ o.addr - w.srclen < o.pos
           /\ \A j \in 0 .. o.size - 1 : Tgt(o.addr - w.srclen + j) = Tgt(o.pos + j)
  <2>1. ~ (a < w.srclen)
    BY <1>1, <1>2, <1>7
  <2>2. Tgt(o.addr - w.srclen + k) = Tgt(o.pos + k)
    BY <1>7
  <2>3. CASE a - w.srclen < o.pos
    <3>1. a - w.srclen + 1 \in 1 .. o.pos
      BY <1>1, <1>2, <2>1, <2>3
    <3>2. (a - w.srclen + 1) - 1 = o.addr - w.srclen + k
      BY <1>1, <1>2
    <3>3. t[a - w.srclen + 1] = Tgt(o.addr - w.srclen + k)
      BY <1>4, <3>1, <3>2
    <3>. HIDE DEF a
    <3>. QED BY <1>5, <2>1, <2>2, <2>3, <3>3 DEF t
  <2>4. CASE ~ (a - w.srclen < o.pos)
    <3>. DEFINE j == a - w.srclen - o.pos
    <3>1. j \in 0 .. k - 1
      BY <1>1, <1>2, <1>7, <2>4
    <3>2. o.pos + j = o.addr - w.srclen + k
      BY <1>1, <1>2
    <3>3. h[j] = Tgt(o.pos + k)
      BY <3>1, <3>2, <2>2
    <3>4. o.addr - w.srclen < o.pos
      BY <1>7
    <3>. HIDE DEF a
    <3>. QED BY <1>5, <2>1, <2>4, <3>3, <3>4 DEF t
  <2>. QED BY <2>3, <2>4
<1>. QED BY <1>6, <1>7 DEF TrueOut

LEMMA CopiedIs ==
  ASSUME Setting, iopt.srcwin \in SrcwinType, NEW o \in OutType, o.type = CPY,
         TrueOut(o, iopt.srcwin)
  PROVE  Copied(Prefix(o.pos), o.addr, o.size) = [k \in 1 .. o.size |-> Tgt(o.pos + k - 1)]
<1>. DEFINE t == Prefix(o.pos)
            f == [k \in 0 .. o.size - 1 |-> Tgt(o.pos + k)]
            g == CHOOSE h : CopyFrom(t, o.addr, o.size, h)
            Body(h, k) == Byte(t, o.addr, h, k)
<1>1. Copied(t, o.addr, o.size) = [k \in 1 .. o.size |-> g[k - 1]]
  BY DEF Copied, CopyFrom, Byte
<1>2. o.size \in Nat /\ o.pos \in Nat
  BY DEF OutType
<1>3. CopyFrom(t, o.addr, o.size, f)
  <2>1. ASSUME NEW k \in 0 .. o.size - 1 PROVE Byte(t, o.addr, f, k) = Tgt(o.pos + k)
    <3>1. \A j \in 0 .. k - 1 : f[j] = Tgt(o.pos + j)
      BY <1>2
    <3>. HIDE DEF f
    <3>. QED BY <3>1, CopiedByte
  <2>2. f = [k \in 0 .. o.size - 1 |-> Body(f, k)]
    <3>. HIDE DEF t
    <3>. QED BY <2>1
  <2>. QED BY <2>2 DEF CopyFrom
<1>4. CopyFrom(t, o.addr, o.size, g)
  <2>. HIDE DEF t, f
  <2>. QED BY <1>3
<1>. HIDE DEF g, t
<1>5. ASSUME NEW k \in 0 .. o.size - 1 PROVE g[k] = Byte(t, o.addr, g, k)
  <2>1. g = [j \in 0 .. o.size - 1 |-> Body(g, j)]
    BY <1>4 DEF CopyFrom
  <2>. HIDE DEF Body
  <2>2. g[k] = Body(g, k)
    BY <2>1
  <2>. QED BY <2>2 DEF Body
<1>. DEFINE S == {k \in Nat : k < o.size => g[k] = Tgt(o.pos + k)}
<1>6. ASSUME NEW k \in Nat, 0 .. k - 1 \subseteq S PROVE k \in S
  <2>. SUFFICES ASSUME k < o.size PROVE g[k] = Tgt(o.pos + k)
    OBVIOUS
  <2>1. k \in 0 .. o.size - 1
    BY <1>2
  <2>2. ASSUME NEW j \in 0 .. k - 1 PROVE g[j] = Tgt(o.pos + j)
    <3>1. j \in S /\ j < o.size
      BY <1>2, <1>6
    <3>. QED BY <3>1
  <2>. HIDE DEF S
  <2>3. Byte(t, o.addr, g, k) = Tgt(o.pos + k)
    BY <2>1, <2>2, CopiedByte DEF t
  <2>. QED BY <1>5, <2>1, <2>3
<1>. HIDE DEF S
<1>7. Nat \subseteq S
  BY <1>6, NatSetsBelow
<1>8. ASSUME NEW k \in 1 .. o.size PROVE g[k - 1] = Tgt(o.pos + k - 1)
  <2>1. k - 1 \in Nat /\ k - 1 < o.size /\ o.pos + (k - 1) = o.pos + k - 1
    BY <1>2
  <2>2. k - 1 \in S
    BY <1>7, <2>1
  <2>. QED BY <2>1, <2>2 DEF S
<1>. QED BY <1>1, <1>8 DEF t

LEMMA MeaningIs ==
  ASSUME Setting, iopt.srcwin \in SrcwinType, NEW o \in OutType,
         TrueOut(o, iopt.srcwin)
  PROVE  Meaning(Prefix(o.pos), o) = [k \in 1 .. o.size |-> Tgt(o.pos + k - 1)]
<1>. DEFINE t == Prefix(o.pos)
<1>1. o.type \in {ADD, RUN, CPY} /\ o.pos \in Nat /\ o.size \in Nat
  BY DEF OutType
<1>2. ADD # CPY /\ RUN # CPY /\ ADD # RUN
  BY DEF ADD, RUN, CPY
<1>. HIDE DEF t
<1>3. CASE o.type = ADD
  <2>1. Meaning(t, o) = o.data
    BY <1>2, <1>3 DEF Meaning
  <2>2. o.data = [k \in 1 .. o.size |-> Tgt(o.pos + k - 1)]
    BY <1>3 DEF TrueOut
  <2>. QED BY <2>1, <2>2 DEF t
<1>4. CASE o.type = RUN
  <2>1. Meaning(t, o) = [k \in 1 .. o.size |-> o.data[1]]
    BY <1>2, <1>4 DEF Meaning
  <2>2. \A k \in 0 .. o.size - 1 : Tgt(o.pos + k) = o.data[1]
    BY <1>4 DEF TrueOut
  <2>3. ASSUME NEW k \in 1 .. o.size PROVE o.data[1] = Tgt(o.pos + k - 1)
    <3>1. k - 1 \in 0 .. o.size - 1 /\ o.pos + (k - 1) = o.pos + k - 1
      BY <1>1
    <3>. QED BY <2>2, <3>1
  <2>. QED BY <2>1, <2>3 DEF t
<1>5. CASE o.type = CPY
  <2>1. Meaning(t, o) = Copied(t, o.addr, o.size)
    BY <1>2, <1>5 DEF Meaning
  <2>. QED BY <2>1, <1>5, CopiedIs DEF t
<1>. QED BY <1>1, <1>3, <1>4, <1>5

\* The function that Rebuilt computes, and one entry of it.
RebuildFrom(out, g) ==
  g = [k \in 0 .. Len(out) |->
         IF k = 0 THEN <<>> ELSE g[k - 1] \o Meaning(g[k - 1], out[k])]
RebuildAt(out, h, k) ==
  h[k] = IF k = 0 THEN <<>> ELSE h[k - 1] \o Meaning(h[k - 1], out[k])

LEMMA RebuildStep ==
  ASSUME NEW out, NEW h, RebuildFrom(out, h), NEW k \in 0 .. Len(out)
  PROVE  RebuildAt(out, h, k)
<1>. DEFINE Body(m) == IF m = 0 THEN <<>> ELSE h[m - 1] \o Meaning(h[m - 1], out[m])
<1>1. h = [m \in 0 .. Len(out) |-> Body(m)]
  BY DEF RebuildFrom
<1>. HIDE DEF Body
<1>2. h[k] = Body(k)
  BY <1>1
<1>. QED BY <1>2 DEF Body, RebuildAt

\* Where the kth instruction ends.
EndAt(out, k) == IF k = 0 THEN 0 ELSE EndOf(out[k])

LEMMA RebuildNext ==
  ASSUME Setting, NEW w, iopt \in IoptType, Encoded(iopt, w),
         NEW k \in Nat, k < Len(iopt.out)
  PROVE  /\ EndAt(iopt.out, k) \in Nat /\ EndAt(iopt.out, k + 1) \in Nat
         /\ Prefix(EndAt(iopt.out, k))
              \o Meaning(Prefix(EndAt(iopt.out, k)), iopt.out[k + 1])
            = Prefix(EndAt(iopt.out, k + 1))
<1>. DEFINE out == iopt.out
            o == out[k + 1]
<1>1. out \in Seq(OutType) /\ Len(out) \in Nat /\ iopt.srcwin \in SrcwinType
  BY DEF IoptType
<1>2. k + 1 \in 1 .. Len(out)
  BY <1>1
<1>3. /\ TrueOut(o, iopt.srcwin)
      /\ o.pos = IF k + 1 = 1 THEN 0 ELSE EndOf(out[(k + 1) - 1])
  BY <1>2 DEF Encoded
<1>4. o \in OutType
  BY <1>1, <1>2, ElementOfSeq
<1>. HIDE DEF out, o
<1>5. o.pos \in Nat /\ o.size \in Nat /\ EndOf(o) = o.pos + o.size
  BY <1>4 DEF OutType, EndOf
<1>6. EndAt(out, k) = o.pos
  <2>1. CASE k = 0
    BY <2>1, <1>3 DEF EndAt
  <2>2. CASE k # 0
    <3>1. k + 1 # 1 /\ (k + 1) - 1 = k
      BY <2>2
    <3>. QED BY <2>2, <3>1, <1>3 DEF EndAt
  <2>. QED BY <2>1, <2>2
<1>7. EndAt(out, k + 1) = o.pos + o.size
  <2>1. k + 1 # 0
    OBVIOUS
  <2>. QED BY <2>1, <1>5 DEF EndAt, o
<1>8. o.pos + o.size <= avail_in
  BY <1>3, <1>5 DEF TrueOut
<1>9. Prefix(o.pos) \o Meaning(Prefix(o.pos), o) = Prefix(o.pos + o.size)
  BY <1>1, <1>3, <1>4, <1>5, <1>8, MeaningIs, PrefixGrows
<1>. QED BY <1>5, <1>6, <1>7, <1>9 DEF out, o

LEMMA PrefixEmpty ==
  Prefix(0) = <<>>
<1>1. 1 .. 0 = {}
  OBVIOUS
<1>. QED BY <1>1 DEF Prefix

\* A decoder rebuilds the window up to unencoded_offset.
LEMMA RebuiltIs ==
  ASSUME Setting, NEW w, iopt \in IoptType, Encoded(iopt, w)
  PROVE  Rebuilt = Prefix(iopt.unencoded_offset)
<1>. DEFINE out == iopt.out
            n == Len(out)
            f == [k \in 0 .. n |-> Prefix(EndAt(out, k))]
            g == CHOOSE h : RebuildFrom(out, h)
<1>1. Rebuilt = g[n]
  BY DEF Rebuilt, RebuildFrom
<1>2. n \in Nat
  BY DEF IoptType
<1>3. ASSUME NEW k \in Nat, k < n
      PROVE  Prefix(EndAt(out, k)) \o Meaning(Prefix(EndAt(out, k)), out[k + 1])
               = Prefix(EndAt(out, k + 1))
  BY <1>3, RebuildNext
<1>4. Prefix(EndAt(out, 0)) = <<>>
  BY PrefixEmpty DEF EndAt
<1>. HIDE DEF g, out, n
<1>5. RebuildFrom(out, f)
  <2>1. ASSUME NEW k \in 0 .. n
        PROVE  f[k] = IF k = 0 THEN <<>> ELSE f[k - 1] \o Meaning(f[k - 1], out[k])
    <3>1. CASE k = 0
      <4>1. f[k] = Prefix(EndAt(out, k))
        OBVIOUS
      <4>. QED BY <3>1, <4>1, <1>4
    <3>2. CASE k # 0
      <4>1. k - 1 \in Nat /\ k - 1 < n /\ (k - 1) + 1 = k /\ k - 1 \in 0 .. n
        BY <3>2, <1>2
      <4>2. f[k] = Prefix(EndAt(out, k)) /\ f[k - 1] = Prefix(EndAt(out, k - 1))
        BY <4>1
      <4>3. Prefix(EndAt(out, k - 1)) \o Meaning(Prefix(EndAt(out, k - 1)), out[(k - 1) + 1])
              = Prefix(EndAt(out, (k - 1) + 1))
        BY <1>3, <4>1
      <4>. HIDE DEF f
      <4>. QED BY <3>2, <4>1, <4>2, <4>3
    <3>. QED BY <3>1, <3>2
  <2>2. f = [k \in 0 .. n |-> f[k]]
    OBVIOUS
  <2>. HIDE DEF f
  <2>3. f = [k \in 0 .. n |-> IF k = 0 THEN <<>> ELSE f[k - 1] \o Meaning(f[k - 1], out[k])]
    BY <2>1, <2>2
  <2>. QED BY <2>3 DEF RebuildFrom, n
<1>6. RebuildFrom(out, g)
  <2>. HIDE DEF f
  <2>. QED BY <1>5 DEF g
<1>7. ASSUME NEW k \in 0 .. n PROVE RebuildAt(out, g, k)
  BY <1>6, <1>7, RebuildStep DEF n
<1>. DEFINE S == {k \in Nat : k <= n => g[k] = Prefix(EndAt(out, k))}
<1>. HIDE DEF f
<1>8. 0 \in S
  <2>1. 0 \in 0 .. n
    BY <1>2
  <2>2. g[0] = <<>>
    BY <2>1, <1>7 DEF RebuildAt
  <2>. QED BY <2>2, <1>4
<1>9. ASSUME NEW k \in Nat, k \in S PROVE k + 1 \in S
  <2>. SUFFICES ASSUME k + 1 <= n PROVE g[k + 1] = Prefix(EndAt(out, k + 1))
    OBVIOUS
  <2>1. k <= n /\ k < n /\ k + 1 \in 0 .. n /\ k + 1 # 0 /\ (k + 1) - 1 = k
    BY <1>2
  <2>2. g[k] = Prefix(EndAt(out, k))
    BY <1>9, <2>1
  <2>. HIDE DEF S
  <2>3. RebuildAt(out, g, k + 1)
    BY <2>1, <1>7
  <2>4. g[k + 1] = g[k] \o Meaning(g[k], out[k + 1])
    BY <2>1, <2>3 DEF RebuildAt
  <2>. QED BY <2>1, <2>2, <2>4, <1>3
<1>. HIDE DEF S
<1>10. n \in S
  BY <1>2, <1>8, <1>9, NatSets
<1>11. g[n] = Prefix(EndAt(out, n))
  BY <1>2, <1>10 DEF S
<1>12. EndAt(out, n) = iopt.unencoded_offset
  BY DEF EndAt, Encoded, n, out
<1>. QED BY <1>1, <1>11, <1>12

-----------------------------------------------------------------------------
(* Matching.                                                               *)

LEMMA NatMin ==
  ASSUME NEW D, D \subseteq Nat, D # {}
  PROVE  Min(D) \in D /\ \A y \in D : Min(D) <= y
<1>. DEFINE S == {n \in Nat : n \notin D}
<1>1. \E x \in D : \A y \in D : x <= y
  <2>. SUFFICES ASSUME \A x \in D : \E y \in D : ~ (x <= y) PROVE FALSE
    OBVIOUS
  <2>1. ASSUME NEW n \in Nat, 0 .. n - 1 \subseteq S PROVE n \in S
    <3>. SUFFICES ASSUME n \in D PROVE FALSE
      OBVIOUS
    <3>1. PICK y \in D : ~ (n <= y)
      OBVIOUS
    <3>2. y \in 0 .. n - 1
      BY <3>1
    <3>. QED BY <2>1, <3>2
  <2>. HIDE DEF S
  <2>2. Nat \subseteq S
    BY <2>1, NatSetsBelow
  <2>. QED BY <2>2 DEF S
<1>. QED BY <1>1 DEF Min

LEMMA BoundedMax ==
  ASSUME NEW n \in Nat, NEW D, D \subseteq 0 .. n, D # {}
  PROVE  Max(D) \in D /\ \A y \in D : Max(D) >= y
<1>. DEFINE E == {n - y : y \in D}
<1>1. E \subseteq Nat /\ E # {}
  <2>1. ASSUME NEW y \in D PROVE n - y \in Nat
    OBVIOUS
  <2>2. PICK y \in D : TRUE
    OBVIOUS
  <2>3. n - y \in E
    OBVIOUS
  <2>. QED BY <2>1, <2>3
<1>2. Min(E) \in E /\ \A z \in E : Min(E) <= z
  <2>. HIDE DEF E
  <2>. QED BY <1>1, NatMin
<1>3. PICK x \in D : Min(E) = n - x
  BY <1>2
<1>4. ASSUME NEW y \in D PROVE x >= y
  <2>1. n - y \in E
    OBVIOUS
  <2>2. n - x <= n - y
    BY <1>2, <1>3, <2>1
  <2>3. x \in 0 .. n /\ y \in 0 .. n
    OBVIOUS
  <2>. QED BY <2>2, <2>3
<1>5. \E m \in D : \A y \in D : m >= y
  BY <1>4
<1>. QED BY <1>5 DEF Max

\* What Forward and Backward say.
Agrees(s, a, p, max, f) ==
  f \in 0 .. max /\ \A k \in 0 .. f - 1 : s[a + k + 1] = Tgt(p + k)
AgreesBack(s, a, p, max, f) ==
  f \in 0 .. max /\ \A k \in 0 .. f - 1 : s[a - k] = Tgt(p - k - 1)

LEMMA ForwardAgrees ==
  ASSUME NEW s, NEW a, NEW p, NEW max \in Nat
  PROVE  Agrees(s, a, p, max, Forward(s, a, p, max))
<1>. DEFINE D == {k \in 0 .. max - 1 : s[a + k + 1] # Tgt(p + k)}
            f == Forward(s, a, p, max)
<1>1. f = IF D = {} THEN max ELSE Min(D)
  BY DEF Forward
<1>2. CASE D = {}
  BY <1>1, <1>2 DEF Agrees
<1>3. CASE D # {}
  <2>1. D \subseteq 0 .. max - 1 /\ D \subseteq Nat
    OBVIOUS
  <2>2. f \in D /\ \A y \in D : f <= y
    <3>. HIDE DEF D, f
    <3>. QED BY <1>1, <1>3, <2>1, NatMin
  <2>3. f \in 0 .. max - 1
    <3>. HIDE DEF f
    <3>. QED BY <2>1, <2>2
  <2>. HIDE DEF f
  <2>4. ASSUME NEW k \in 0 .. f - 1 PROVE s[a + k + 1] = Tgt(p + k)
    <3>1. k \in 0 .. max - 1 /\ ~ (f <= k)
      BY <2>3
    <3>2. k \notin D
      BY <2>2, <3>1
    <3>. QED BY <3>1, <3>2
  <2>5. f \in 0 .. max
    BY <2>3
  <2>. HIDE DEF D
  <2>. QED BY <2>4, <2>5 DEF Agrees, f
<1>. QED BY <1>2, <1>3

LEMMA BackwardAgrees ==
  ASSUME NEW s, NEW a, NEW p, NEW max \in Nat
  PROVE  AgreesBack(s, a, p, max, Backward(s, a, p, max))
<1>. DEFINE D == {k \in 0 .. max - 1 : s[a - k] # Tgt(p - k - 1)}
            f == Backward(s, a, p, max)
<1>1. f = IF D = {} THEN max ELSE Min(D)
  BY DEF Backward
<1>2. CASE D = {}
  BY <1>1, <1>2 DEF AgreesBack
<1>3. CASE D # {}
  <2>1. D \subseteq 0 .. max - 1 /\ D \subseteq Nat
    OBVIOUS
  <2>2. f \in D /\ \A y \in D : f <= y
    <3>. HIDE DEF D, f
    <3>. QED BY <1>1, <1>3, <2>1, NatMin
  <2>3. f \in 0 .. max - 1
    <3>. HIDE DEF f
    <3>. QED BY <2>1, <2>2
  <2>. HIDE DEF f
  <2>4. ASSUME NEW k \in 0 .. f - 1 PROVE s[a - k] = Tgt(p - k - 1)
    <3>1. k \in 0 .. max - 1 /\ ~ (f <= k)
      BY <2>3
    <3>2. k \notin D
      BY <2>2, <3>1
    <3>. QED BY <3>1, <3>2
  <2>5. f \in 0 .. max
    BY <2>3
  <2>. HIDE DEF D
  <2>. QED BY <2>4, <2>5 DEF AgreesBack, f
<1>. QED BY <1>2, <1>3

LEMMA BeforeFacts ==
  ASSUME NEW S, NEW u \in Seq(S), NEW pos
  PROVE  /\ Before(u, pos) \in 0 .. Len(u)
         /\ Before(u, pos) # 0 => u[Before(u, pos)].pos < pos
         /\ \A k \in 1 .. Len(u) : u[k].pos < pos => k <= Before(u, pos)
<1>. DEFINE D == {0} \cup {k \in 1 .. Len(u) : u[k].pos < pos}
            b == Before(u, pos)
<1>1. Len(u) \in Nat
  BY LenProperties
<1>2. D \subseteq 0 .. Len(u) /\ D # {}
  BY <1>1
<1>3. b = Max(D)
  BY DEF Before
<1>4. b \in D /\ \A y \in D : b >= y
  <2>. HIDE DEF D, b
  <2>. QED BY <1>1, <1>2, <1>3, BoundedMax
<1>. HIDE DEF b
<1>5. b \in 0 .. Len(u)
  BY <1>2, <1>4
<1>6. b # 0 => u[b].pos < pos
  BY <1>4
<1>7. ASSUME NEW k \in 1 .. Len(u), u[k].pos < pos PROVE k <= b
  <2>1. k \in D
    BY <1>7
  <2>. HIDE DEF D
  <2>2. b >= k
    BY <1>4, <2>1
  <2>. QED BY <1>1, <1>5, <2>2
<1>. HIDE DEF D
<1>. QED BY <1>5, <1>6, <1>7 DEF b

\* Cutting the end of an ordered buffer, and adding to it.
LEMMA CutEnd ==
  ASSUME NEW w, NEW u \in Seq(Matches(w)), Ordered(u), NEW n \in 0 .. Len(u)
  PROVE  LET v == SubSeq(u, 1, n)
         IN  /\ v \in Seq(Matches(w)) /\ Ordered(v) /\ Len(v) = n
             /\ \A k \in 1 .. n : v[k] = u[k]
<1>. DEFINE v == SubSeq(u, 1, n)
<1>1. Len(u) \in Nat /\ n \in Nat /\ n <= Len(u)
  BY LenProperties
<1>2. /\ v \in Seq(Matches(w)) /\ Len(v) = n
      /\ \A k \in 1 .. n : v[k] = u[k]
  <2>1. \A k \in 1 .. n : u[k] \in Matches(w)
    BY <1>1, ElementOfSeq
  <2>2. v \in Seq(Matches(w))
    BY <1>1, <2>1, SubSeqProperties
  <2>3. Len(v) = n
    BY <1>1, SubSeqProperties
  <2>4. \A k \in 1 .. n : v[k] = u[k]
    BY <1>1, SubSeqProperties
  <2>. QED BY <2>2, <2>3, <2>4
<1>. HIDE DEF v
<1>3. Ordered(v)
  <2>1. ASSUME NEW j \in 1 .. n, NEW k \in 1 .. n, j < k
        PROVE  v[j].pos < v[k].pos /\ EndOf(v[j]) < EndOf(v[k])
    <3>1. j \in 1 .. Len(u) /\ k \in 1 .. Len(u)
      BY <1>1
    <3>2. u[j].pos < u[k].pos /\ EndOf(u[j]) < EndOf(u[k])
      BY <2>1, <3>1 DEF Ordered
    <3>3. v[j] = u[j] /\ v[k] = u[k]
      BY <1>2
    <3>. QED BY <3>2, <3>3
  <2>. QED BY <2>1, <1>2 DEF Ordered
<1>. QED BY <1>2, <1>3 DEF v

\* A match that may be added to u.
Follows(u, i) ==
  \A k \in 1 .. Len(u) : u[k].pos < i.pos /\ EndOf(u[k]) < EndOf(i)

LEMMA AddEnd ==
  ASSUME NEW w, NEW u \in Seq(Matches(w)), Ordered(u), NEW i \in Matches(w), Follows(u, i)
  PROVE  LET v == Append(u, i)
         IN  /\ v \in Seq(Matches(w)) /\ Ordered(v) /\ Len(v) = Len(u) + 1
             /\ \A k \in 1 .. Len(u) : v[k] = u[k]
             /\ v[Len(u) + 1] = i
<1>. DEFINE v == Append(u, i)
<1>1. Len(u) \in Nat
  BY LenProperties
<1>2. /\ v \in Seq(Matches(w)) /\ Len(v) = Len(u) + 1
      /\ \A k \in 1 .. Len(u) : v[k] = u[k]
      /\ v[Len(u) + 1] = i
  BY <1>1, AppendProperties
<1>. HIDE DEF v
<1>3. Ordered(v)
  <2>1. ASSUME NEW j \in 1 .. Len(u) + 1, NEW k \in 1 .. Len(u) + 1, j < k
        PROVE  v[j].pos < v[k].pos /\ EndOf(v[j]) < EndOf(v[k])
    <3>1. j \in 1 .. Len(u) /\ v[j] = u[j]
      BY <1>1, <1>2, <2>1
    <3>2. CASE k = Len(u) + 1
      <4>1. v[k] = i
        BY <1>2, <3>2
      <4>. QED BY <3>1, <4>1 DEF Follows
    <3>3. CASE k # Len(u) + 1
      <4>1. k \in 1 .. Len(u)
        BY <1>1, <3>3
      <4>2. v[k] = u[k]
        BY <1>2, <4>1
      <4>. QED BY <2>1, <3>1, <4>1, <4>2 DEF Ordered
    <3>. QED BY <3>2, <3>3
  <2>. QED BY <2>1, <1>2 DEF Ordered
<1>. QED BY <1>2, <1>3 DEF v

\* It is enough that the last one comes before it.
LEMMA FollowsLast ==
  ASSUME NEW w, NEW u \in Seq(Matches(w)), Ordered(u), NEW i \in Matches(w),
         u # <<>> => u[Len(u)].pos < i.pos /\ EndOf(u[Len(u)]) < EndOf(i)
  PROVE  Follows(u, i)
<1>1. Len(u) \in Nat /\ (Len(u) # 0 => u # <<>>)
  BY LenProperties, EmptySeq
<1>. SUFFICES ASSUME NEW k \in 1 .. Len(u)
              PROVE  u[k].pos < i.pos /\ EndOf(u[k]) < EndOf(i)
  BY DEF Follows
<1>. DEFINE l == Len(u)
<1>2. l \in 1 .. Len(u) /\ u # <<>> /\ k <= l
  BY <1>1
<1>3. u[l].pos < i.pos /\ EndOf(u[l]) < EndOf(i)
  BY <1>2
<1>4. u[k] \in Matches(w) /\ u[l] \in Matches(w)
  BY <1>1, <1>2, ElementOfSeq
<1>5. CASE k = l
  BY <1>3, <1>5
<1>6. CASE k # l
  <2>1. k < l
    BY <1>1, <1>2, <1>6
  <2>2. u[k].pos < u[l].pos /\ EndOf(u[k]) < EndOf(u[l])
    BY <1>2, <2>1 DEF Ordered
  <2>3. /\ u[k].pos \in Nat /\ u[l].pos \in Nat /\ i.pos \in Nat
        /\ EndOf(u[k]) \in Nat /\ EndOf(u[l]) \in Nat /\ EndOf(i) \in Nat
    BY <1>4, MatchFields
  <2>. HIDE DEF l
  <2>. QED BY <1>3, <2>2, <2>3
<1>. QED BY <1>5, <1>6

\* The buffer before anything is encoded.
NoneShort(u) == \A k \in 1 .. Len(u) : u[k].size >= MIN_MATCH
Gathering(e) ==
  /\ e \in IoptType
  /\ e.out = <<>> /\ e.unencoded_offset = 0 /\ e.iout = NoInst
  /\ Open(e.srcwin)
  /\ e.used \in Seq(Matches(e.srcwin)) /\ Ordered(e.used) /\ NoneShort(e.used)
  /\ Len(e.used) + e.free = e.size /\ e.free >= 0

LEMMA UsedType ==
  ASSUME NEW w, NEW u \in Seq(Matches(w))
  PROVE  u \in Seq(MatchType)
<1>1. Matches(w) \subseteq MatchType
  BY DEF Matches
<1>2. Len(u) \in Nat /\ \A k \in 1 .. Len(u) : u[k] \in MatchType
  BY <1>1, ElementOfSeq, LenProperties
<1>3. u = [k \in 1 .. Len(u) |-> u[k]]
  BY LenProperties
<1>4. u \in [1 .. Len(u) -> MatchType]
  BY <1>2, <1>3
<1>. QED BY <1>2, <1>4, SeqDef

\* A buffer that grows always has a slot.
LEMMA SlotFound ==
  ASSUME input.iopt_size = 0, NEW e, Gathering(e)
  PROVE  LET q == GetSlot(e)
         IN  /\ Gathering(q) /\ q.used = e.used /\ q.srcwin = e.srcwin /\ q.free >= 1
<1>. DEFINE q == GetSlot(e)
<1>1. /\ e \in IoptType /\ e.free \in Int /\ e.size \in Nat /\ e.free >= 0
      /\ e.used \in Seq(Matches(e.srcwin))
  BY DEF Gathering, IoptType
<1>2. Len(e.used) \in Nat /\ AllocElts \in Nat /\ AllocElts >= 1
  BY <1>1, LenProperties, IoptAssumption
<1>3. CASE e.free > 0
  <2>1. q = e
    BY <1>3 DEF GetSlot
  <2>2. e.free >= 1
    BY <1>1, <1>3
  <2>. QED BY <2>1, <2>2
<1>4. CASE ~ (e.free > 0)
  <2>. DEFINE free == e.free + AllocElts
              size == e.size + AllocElts
  <2>1. free \in Int /\ size \in Nat /\ free >= 1
    BY <1>1, <1>2
  <2>2. q = [e EXCEPT !.free = free, !.size = size]
    BY <1>4 DEF GetSlot
  <2>3. Len(e.used) + free = size
    <3>1. Len(e.used) + e.free = e.size
      BY DEF Gathering
    <3>. QED BY <1>1, <1>2, <3>1
  <2>. HIDE DEF free, size, q
  <2>4. /\ q \in IoptType /\ q.used = e.used /\ q.free = free /\ q.size = size
        /\ q.iout = e.iout /\ q.unencoded_offset = e.unencoded_offset
        /\ q.srcwin = e.srcwin /\ q.out = e.out
    BY <1>1, <2>1, <2>2 DEF IoptType
  <2>5. q.free >= 0 /\ q.free >= 1 /\ Len(q.used) + q.free = q.size
    BY <2>1, <2>3, <2>4
  <2>6. Gathering(q)
    BY <2>4, <2>5 DEF Gathering
  <2>. QED BY <2>4, <2>5, <2>6 DEF q
<1>. QED BY <1>3, <1>4

LEMMA FoundKeeps ==
  ASSUME input.iopt_size = 0, NEW e, Gathering(e), NEW i \in Matches(e.srcwin),
         i.size >= MIN_MATCH, Follows(e.used, i)
  PROVE  LET r == FoundMatch(e, i)
         IN  Gathering(r) /\ r.used = Append(e.used, i) /\ r.srcwin = e.srcwin
<1>. DEFINE q == GetSlot(e)
            r == FoundMatch(e, i)
            w == e.srcwin
            u == e.used
            free == q.free - 1
<1>1. Gathering(q) /\ q.used = e.used /\ q.srcwin = e.srcwin /\ q.free >= 1
  BY SlotFound
<1>2. r = [q EXCEPT !.free = free, !.used = Append(u, i)]
  BY <1>1 DEF FoundMatch
<1>. HIDE DEF q, r
<1>3. /\ q \in IoptType /\ q.free \in Int /\ q.size \in Nat
      /\ u \in Seq(Matches(w)) /\ Ordered(u) /\ NoneShort(u)
      /\ Len(u) + q.free = q.size
  BY <1>1 DEF Gathering, IoptType
<1>4. Len(u) \in Nat
  BY <1>3, LenProperties
<1>. DEFINE v == Append(u, i)
<1>5. /\ v \in Seq(Matches(w)) /\ Ordered(v) /\ Len(v) = Len(u) + 1
      /\ \A k \in 1 .. Len(u) : v[k] = u[k]
      /\ v[Len(u) + 1] = i
  <2>. HIDE DEF w, u
  <2>1. i \in Matches(w) /\ Follows(u, i)
    BY DEF w, u
  <2>. QED BY <1>3, <2>1, AddEnd
<1>6. v \in Seq(MatchType)
  BY <1>5, UsedType
<1>7. free \in Int /\ free >= 0 /\ (Len(u) + 1) + free = q.size
  BY <1>1, <1>3, <1>4
<1>8. NoneShort(v)
  <2>. SUFFICES ASSUME NEW k \in 1 .. Len(u) + 1 PROVE v[k].size >= MIN_MATCH
    BY <1>5 DEF NoneShort
  <2>. HIDE DEF v, u
  <2>1. CASE k = Len(u) + 1
    BY <1>5, <2>1
  <2>2. CASE k # Len(u) + 1
    <3>1. k \in 1 .. Len(u)
      BY <1>4, <2>2
    <3>. QED BY <1>3, <1>5, <3>1 DEF NoneShort
  <2>. QED BY <2>1, <2>2
<1>. HIDE DEF v, free
<1>9. /\ r \in IoptType /\ r.used = v /\ r.free = free /\ r.size = q.size
      /\ r.iout = q.iout /\ r.unencoded_offset = q.unencoded_offset
      /\ r.srcwin = q.srcwin /\ r.out = q.out
  BY <1>2, <1>3, <1>6, <1>7 DEF IoptType, v
<1>10. Gathering(r)
  <2>1. Len(r.used) + r.free = r.size /\ r.free >= 0
    BY <1>5, <1>7, <1>9
  <2>2. r.srcwin = w /\ Open(w)
    BY <1>1, <1>9 DEF Gathering
  <2>3. /\ r.used \in Seq(Matches(r.srcwin)) /\ Ordered(r.used) /\ NoneShort(r.used)
    BY <1>5, <1>8, <1>9, <2>2
  <2>. QED BY <1>1, <1>9, <2>1, <2>2, <2>3 DEF Gathering
<1>. QED BY <1>1, <1>9, <1>10 DEF r, v

\* xd3_iopt_erase
LEMMA EraseKeeps ==
  ASSUME NEW e, Gathering(e), NEW pos
  PROVE  LET r == Erase(e, pos)
         IN  /\ Gathering(r) /\ r.srcwin = e.srcwin
             /\ r.used = SubSeq(e.used, 1, Before(e.used, pos))
<1>. DEFINE r == Erase(e, pos)
            w == e.srcwin
            u == e.used
            n == Before(u, pos)
            v == SubSeq(u, 1, n)
            free == e.free + Len(u) - n
<1>1. r = [e EXCEPT !.used = v, !.free = free]
  BY DEF Erase
<1>2. /\ e \in IoptType /\ e.free \in Int /\ e.size \in Nat /\ e.free >= 0
      /\ u \in Seq(Matches(w)) /\ Ordered(u) /\ NoneShort(u)
      /\ Len(u) + e.free = e.size /\ Open(w)
  BY DEF Gathering, IoptType
<1>3. Len(u) \in Nat
  BY <1>2, LenProperties
<1>. HIDE DEF r, u, w
<1>4. n \in 0 .. Len(u)
  BY <1>2, BeforeFacts
<1>. HIDE DEF n
<1>5. /\ v \in Seq(Matches(w)) /\ Ordered(v) /\ Len(v) = n
      /\ \A k \in 1 .. n : v[k] = u[k]
  BY <1>2, <1>4, CutEnd
<1>6. v \in Seq(MatchType)
  BY <1>5, UsedType
<1>7. free \in Int /\ free >= 0 /\ n + free = e.size
  BY <1>2, <1>3, <1>4
<1>. HIDE DEF v, free
<1>8. NoneShort(v)
  <2>1. ASSUME NEW k \in 1 .. n PROVE v[k].size >= MIN_MATCH
    <3>1. k \in 1 .. Len(u)
      BY <1>3, <1>4
    <3>. QED BY <1>2, <1>5, <3>1 DEF NoneShort
  <2>. QED BY <1>5, <2>1 DEF NoneShort
<1>9. /\ r \in IoptType /\ r.used = v /\ r.free = free /\ r.size = e.size
      /\ r.iout = e.iout /\ r.unencoded_offset = e.unencoded_offset
      /\ r.srcwin = e.srcwin /\ r.out = e.out
  BY <1>1, <1>2, <1>6, <1>7 DEF IoptType
<1>10. Gathering(r)
  <2>1. Len(r.used) + r.free = r.size /\ r.free >= 0
    BY <1>5, <1>7, <1>9
  <2>2. r.srcwin = w /\ Open(r.srcwin)
    BY <1>2, <1>9 DEF w
  <2>3. /\ r.used \in Seq(Matches(r.srcwin)) /\ Ordered(r.used) /\ NoneShort(r.used)
    BY <1>5, <1>8, <1>9, <2>2
  <2>. QED BY <1>9, <2>1, <2>2, <2>3 DEF Gathering
<1>. QED BY <1>9, <1>10 DEF r, v, n, u

\* The source window when a copy from start to end is entered.
Wider(w, start, end) ==
  [w EXCEPT !.minaddr = IF w.maxaddr = 0 \/ start < @ THEN start ELSE @,
            !.maxaddr = Greater(@, end)]

LEMMA WiderFacts ==
  ASSUME NEW w, Open(w), NEW start \in Nat, NEW end \in Nat, start < end
  PROVE  LET v == Wider(w, start, end)
         IN  /\ Open(v) /\ v.minaddr <= start /\ end <= v.maxaddr
             /\ Matches(w) \subseteq Matches(v)
<1>. DEFINE v == Wider(w, start, end)
            lo == IF w.maxaddr = 0 \/ start < w.minaddr THEN start ELSE w.minaddr
            hi == Greater(w.maxaddr, end)
<1>1. /\ w \in SrcwinType /\ w.minaddr \in Nat /\ w.maxaddr \in Nat /\ ~ w.decided
      /\ w.srcbase = 0 /\ w.srclen = 0
      /\ w.maxaddr > 0 => w.minaddr <= w.maxaddr
  BY DEF Open, SrcwinType
<1>2. /\ lo \in Nat /\ hi \in Nat /\ lo <= start /\ end <= hi /\ lo <= hi
      /\ w.maxaddr > 0 => lo <= w.minaddr /\ w.maxaddr <= hi
  BY <1>1 DEF Greater
<1>3. v = [w EXCEPT !.minaddr = lo, !.maxaddr = hi]
  BY DEF Wider
<1>. HIDE DEF v, lo, hi
<1>4. /\ v \in SrcwinType /\ v.minaddr = lo /\ v.maxaddr = hi
      /\ v.decided = w.decided /\ v.srcbase = w.srcbase /\ v.srclen = w.srclen
  BY <1>1, <1>2, <1>3 DEF SrcwinType
<1>5. Open(v)
  BY <1>1, <1>2, <1>4 DEF Open
<1>6. ASSUME NEW i \in Matches(w) PROVE i \in Matches(v)
  <2>1. /\ i \in MatchType /\ IsMatch(i) /\ Held(i, w)
    BY DEF Matches
  <2>2. i.addr \in Nat /\ i.size \in Nat /\ i.size >= 1
    BY MatchFields
  <2>3. Held(i, v)
    <3>. SUFFICES ASSUME i.type = CPY, i.xtra = 1
                  PROVE  v.minaddr <= i.addr /\ i.addr + i.size <= v.maxaddr
      BY DEF Held
    <3>1. w.minaddr <= i.addr /\ i.addr + i.size <= w.maxaddr
      BY <2>1 DEF Held
    <3>2. w.maxaddr > 0
      BY <1>1, <2>2, <3>1
    <3>. QED BY <1>1, <1>2, <1>4, <2>2, <3>1, <3>2
  <2>. QED BY <2>1, <2>3 DEF Matches
<1>. QED BY <1>2, <1>4, <1>5, <1>6 DEF v

LEMMA WiderSeq ==
  ASSUME NEW w, NEW v, Matches(w) \subseteq Matches(v), NEW u \in Seq(Matches(w))
  PROVE  u \in Seq(Matches(v))
<1>2. Len(u) \in Nat /\ \A k \in 1 .. Len(u) : u[k] \in Matches(v)
  BY ElementOfSeq, LenProperties
<1>3. u = [k \in 1 .. Len(u) |-> u[k]]
  BY LenProperties
<1>4. u \in [1 .. Len(u) -> Matches(v)]
  BY <1>2, <1>3
<1>. QED BY <1>2, <1>4, SeqDef

LEMMA WidenKeeps ==
  ASSUME NEW e, Gathering(e), NEW start \in Nat, NEW end \in Nat, start < end
  PROVE  LET r == [e EXCEPT !.srcwin = Wider(e.srcwin, start, end)]
         IN  /\ Gathering(r) /\ r.used = e.used
             /\ r.srcwin = Wider(e.srcwin, start, end)
<1>. DEFINE w == e.srcwin
            v == Wider(w, start, end)
            r == [e EXCEPT !.srcwin = v]
<1>1. /\ e \in IoptType /\ Open(w) /\ e.used \in Seq(Matches(w))
      /\ Ordered(e.used) /\ NoneShort(e.used)
  BY DEF Gathering
<1>2. Open(v) /\ Matches(w) \subseteq Matches(v)
  <2>. HIDE DEF w
  <2>. QED BY <1>1, WiderFacts
<1>. HIDE DEF v
<1>3. v \in SrcwinType
  BY <1>2 DEF Open
<1>4. e.used \in Seq(Matches(v))
  <2>. HIDE DEF w
  <2>. QED BY <1>1, <1>2, WiderSeq
<1>5. /\ r \in IoptType /\ r.used = e.used /\ r.free = e.free /\ r.size = e.size
      /\ r.iout = e.iout /\ r.unencoded_offset = e.unencoded_offset
      /\ r.srcwin = v /\ r.out = e.out
  BY <1>1, <1>3 DEF IoptType
<1>. HIDE DEF r, w
<1>6. Gathering(r)
  BY <1>1, <1>2, <1>4, <1>5 DEF Gathering
<1>. QED BY <1>5, <1>6 DEF r, v, w

\* r counts how often its byte occurs at the end of what comes before q; n bytes
\* of it are known.
RunsTo(r, q, n) ==
  /\ r \in [l : Nat, c : Nat]
  /\ \A j \in 0 .. n - 1 : j < r.l => Tgt(q - 1 - j) = r.c

LEMMA NextRunKeeps ==
  ASSUME Setting, NEW q \in Nat, q < avail_in, NEW n \in Nat, NEW r, RunsTo(r, q, n)
  PROVE  RunsTo(NextRun(r, Tgt(q)), q + 1, n + 1)
<1>. DEFINE c == Tgt(q)
            s == NextRun(r, c)
<1>1. c \in Nat
  BY SettingTypes
<1>2. r.l \in Nat /\ r.c \in Nat /\ r \in [l : Nat, c : Nat]
  BY DEF RunsTo
<1>3. Tgt((q + 1) - 1 - 0) = c
  OBVIOUS
<1>. HIDE DEF c
<1>4. CASE r.c = c
  <2>. DEFINE l == r.l + 1
  <2>1. s = [r EXCEPT !.l = l]
    BY <1>4 DEF NextRun
  <2>2. l \in Nat
    BY <1>2
  <2>. HIDE DEF l, s
  <2>3. s \in [l : Nat, c : Nat] /\ s.l = l /\ s.c = r.c
    BY <1>2, <2>1, <2>2
  <2>4. ASSUME NEW j \in 0 .. (n + 1) - 1, j < s.l PROVE Tgt((q + 1) - 1 - j) = s.c
    <3>1. CASE j = 0
      BY <3>1, <1>3, <1>4, <2>3
    <3>2. CASE j # 0
      <4>1. j - 1 \in 0 .. n - 1 /\ j - 1 < r.l /\ q - 1 - (j - 1) = (q + 1) - 1 - j
        BY <1>2, <2>3, <2>4, <3>2 DEF l
      <4>2. Tgt(q - 1 - (j - 1)) = r.c
        BY <4>1 DEF RunsTo
      <4>. QED BY <4>1, <4>2, <2>3
    <3>. QED BY <3>1, <3>2
  <2>. QED BY <2>3, <2>4 DEF RunsTo, s, c
<1>5. CASE r.c # c
  <2>1. s = [l |-> 1, c |-> c]
    BY <1>5 DEF NextRun
  <2>. HIDE DEF s
  <2>2. s \in [l : Nat, c : Nat] /\ s.l = 1 /\ s.c = c
    BY <2>1, <1>1
  <2>3. ASSUME NEW j \in 0 .. (n + 1) - 1, j < s.l PROVE Tgt((q + 1) - 1 - j) = s.c
    <3>1. j = 0
      BY <2>2, <2>3
    <3>. QED BY <3>1, <1>3, <2>2
  <2>. QED BY <2>2, <2>3 DEF RunsTo, s, c
<1>. QED BY <1>4, <1>5

\* xd3_comprun
CompRunFrom(p, g) ==
  g = [k \in 0 .. SmallLook |-> IF k = 0 THEN [l |-> 0, c |-> 0]
                                ELSE NextRun(g[k - 1], Tgt(p + k - 1))]

LEMMA CompRunTrue ==
  ASSUME Setting, NEW p \in Nat, p + SmallLook <= avail_in
  PROVE  RunsTo(CompRun(p), p + SmallLook, SmallLook)
<1>. DEFINE r0 == [l |-> 0, c |-> 0]
            r1 == NextRun(r0, Tgt(p + 1 - 1))
            r2 == NextRun(r1, Tgt(p + 2 - 1))
            r3 == NextRun(r2, Tgt(p + 3 - 1))
            r4 == NextRun(r3, Tgt(p + 4 - 1))
            f == [k \in 0 .. 4 |-> IF k = 0 THEN r0 ELSE IF k = 1 THEN r1
                                   ELSE IF k = 2 THEN r2 ELSE IF k = 3 THEN r3 ELSE r4]
            g == CHOOSE h : CompRunFrom(p, h)
            Body(h, k) == IF k = 0 THEN r0 ELSE NextRun(h[k - 1], Tgt(p + k - 1))
<1>1. CompRun(p) = g[4]
  BY DEF CompRun, CompRunFrom, SmallLook
<1>2. f = [k \in 0 .. 4 |-> Body(f, k)]
  <2>1. f[0] = r0 /\ f[1] = r1 /\ f[2] = r2 /\ f[3] = r3 /\ f[4] = r4
    <3>. HIDE DEF r0, r1, r2, r3, r4
    <3>. QED OBVIOUS
  <2>2. f = [k \in 0 .. 4 |-> f[k]]
    OBVIOUS
  <2>. HIDE DEF f
  <2>3. /\ Body(f, 0) = f[0] /\ Body(f, 1) = f[1] /\ Body(f, 2) = f[2]
        /\ Body(f, 3) = f[3] /\ Body(f, 4) = f[4]
    <3>1. Body(f, 0) = r0
      OBVIOUS
    <3>2. Body(f, 1) = r1 /\ Body(f, 2) = r2 /\ Body(f, 3) = r3 /\ Body(f, 4) = r4
      <4>1. /\ Body(f, 1) = NextRun(f[0], Tgt(p + 1 - 1))
            /\ Body(f, 2) = NextRun(f[1], Tgt(p + 2 - 1))
            /\ Body(f, 3) = NextRun(f[2], Tgt(p + 3 - 1))
            /\ Body(f, 4) = NextRun(f[3], Tgt(p + 4 - 1))
        OBVIOUS
      <4>. QED BY <4>1, <2>1, Zenon
    <3>. HIDE DEF Body, r0, r1, r2, r3, r4
    <3>. QED BY <2>1, <3>1, <3>2
  <2>. HIDE DEF Body
  <2>4. ASSUME NEW k \in 0 .. 4 PROVE f[k] = Body(f, k)
    <3>1. k = 0 \/ k = 1 \/ k = 2 \/ k = 3 \/ k = 4
      OBVIOUS
    <3>. QED BY <3>1, <2>3
  <2>. QED BY <2>2, <2>4
<1>3. CompRunFrom(p, f)
  <2>. HIDE DEF f
  <2>. QED BY <1>2 DEF CompRunFrom, SmallLook
<1>4. CompRunFrom(p, g)
  <2>. HIDE DEF f
  <2>. QED BY <1>3
<1>. HIDE DEF g, f
<1>5. g = [k \in 0 .. 4 |-> Body(g, k)]
  BY <1>4 DEF CompRunFrom, SmallLook
<1>6. /\ g[0] = Body(g, 0) /\ g[1] = Body(g, 1) /\ g[2] = Body(g, 2)
      /\ g[3] = Body(g, 3) /\ g[4] = Body(g, 4)
  <2>. HIDE DEF Body
  <2>1. \A k \in 0 .. 4 : g[k] = Body(g, k)
    BY <1>5
  <2>. QED BY <2>1
<1>7. /\ g[0] = r0
      /\ g[1] = NextRun(g[0], Tgt(p)) /\ g[2] = NextRun(g[1], Tgt(p + 1))
      /\ g[3] = NextRun(g[2], Tgt(p + 2)) /\ g[4] = NextRun(g[3], Tgt(p + 3))
  BY <1>6
<1>8. RunsTo(g[0], p, 0)
  BY <1>7 DEF RunsTo
<1>9. p < avail_in /\ p + 1 < avail_in /\ p + 2 < avail_in /\ p + 3 < avail_in
  BY SettingTypes DEF SmallLook
<1>10. RunsTo(g[1], p + 1, 0 + 1)
  BY <1>7, <1>8, <1>9, NextRunKeeps
<1>11. RunsTo(g[2], (p + 1) + 1, (0 + 1) + 1)
  BY <1>7, <1>9, <1>10, NextRunKeeps
<1>12. RunsTo(g[3], (p + 2) + 1, (0 + 2) + 1)
  <2>1. (p + 1) + 1 = p + 2 /\ (0 + 1) + 1 = 0 + 2
    OBVIOUS
  <2>2. RunsTo(g[2], p + 2, 0 + 2)
    BY <1>11, <2>1
  <2>. QED BY <1>7, <1>9, <2>2, NextRunKeeps
<1>13. RunsTo(g[4], (p + 3) + 1, (0 + 3) + 1)
  <2>1. (p + 2) + 1 = p + 3 /\ (0 + 2) + 1 = 0 + 3
    OBVIOUS
  <2>2. RunsTo(g[3], p + 3, 0 + 3)
    BY <1>12, <2>1
  <2>. QED BY <1>7, <1>9, <2>2, NextRunKeeps
<1>14. (p + 3) + 1 = p + SmallLook /\ (0 + 3) + 1 = SmallLook
  BY DEF SmallLook
<1>. QED BY <1>1, <1>13, <1>14

\* The run before the bytes that are looked at, when it is long enough, is one.
LEMMA RunLengthFacts ==
  ASSUME Setting, NEW q, q = input_position + SmallLook, input_position \in Nat,
         q <= avail_in, RunsTo(run, q, SmallLook)
  PROVE  /\ RunLength \in Nat
         /\ RunsTo([run EXCEPT !.l = RunLength], q, SmallLook)
         /\ run.l = SmallLook =>
              /\ input_position + RunLength <= avail_in
              /\ \A k \in 0 .. RunLength - 1 : Tgt(input_position + k) = run.c
<1>. DEFINE p == input_position
            f == Forward(input.tgt, total_in + p, p + 1, avail_in - p - 1)
            r == [run EXCEPT !.l = RunLength]
<1>1. /\ run \in [l : Nat, c : Nat] /\ run.l \in Nat
      /\ \A j \in 0 .. SmallLook - 1 : j < run.l => Tgt(q - 1 - j) = run.c
  BY DEF RunsTo
<1>2. avail_in \in Nat /\ p \in Nat /\ avail_in - p - 1 \in Nat /\ total_in \in Nat
  BY SettingTypes DEF SmallLook
<1>3. CASE run.l # SmallLook
  <2>1. RunLength = run.l
    BY <1>3 DEF RunLength
  <2>2. r = run
    BY <1>1, <2>1
  <2>. HIDE DEF r
  <2>. QED BY <1>1, <1>3, <2>1, <2>2 DEF r
<1>4. CASE run.l = SmallLook
  <2>1. RunLength = 1 + f
    BY <1>4 DEF RunLength
  <2>2. Agrees(input.tgt, total_in + p, p + 1, avail_in - p - 1, f)
    <3>. HIDE DEF p
    <3>. QED BY <1>2, ForwardAgrees DEF p
  <2>. HIDE DEF f
  <2>3. f \in 0 .. avail_in - p - 1 /\ f \in Nat
    BY <2>2, <1>2 DEF Agrees
  <2>4. ASSUME NEW k \in 0 .. f - 1 PROVE Tgt(p + k) = Tgt(p + k + 1)
    <3>1. input.tgt[total_in + p + k + 1] = Tgt(p + 1 + k)
      BY <2>2 DEF Agrees
    <3>2. total_in + p + k + 1 = total_in + (p + k) + 1 /\ p + 1 + k = p + k + 1
      BY <1>2, <2>3
    <3>. HIDE DEF p
    <3>. QED BY <3>1, <3>2 DEF Tgt
  <2>. DEFINE S == {k \in Nat : k <= f => Tgt(p + k) = run.c}
  <2>5. 0 \in S
    <3>1. 3 \in 0 .. SmallLook - 1 /\ 3 < run.l /\ q - 1 - 3 = p + 0
      BY <1>2, <1>4 DEF SmallLook
    <3>2. Tgt(q - 1 - 3) = run.c
      BY <1>1, <3>1
    <3>. HIDE DEF p
    <3>. QED BY <3>1, <3>2
  <2>6. ASSUME NEW k \in Nat, k \in S PROVE k + 1 \in S
    <3>. SUFFICES ASSUME k + 1 <= f PROVE Tgt(p + (k + 1)) = run.c
      OBVIOUS
    <3>1. k <= f /\ k \in 0 .. f - 1 /\ p + (k + 1) = p + k + 1
      BY <2>3, <1>2
    <3>2. Tgt(p + k) = run.c
      BY <2>6, <3>1
    <3>. HIDE DEF S, p
    <3>. QED BY <2>4, <3>1, <3>2
  <2>. HIDE DEF S
  <2>7. Nat \subseteq S
    BY <2>5, <2>6, NatSets
  <2>8. ASSUME NEW k \in 0 .. RunLength - 1 PROVE Tgt(p + k) = run.c
    <3>1. k \in Nat /\ k <= f
      BY <2>1, <2>3
    <3>. QED BY <2>7, <3>1 DEF S
  <2>9. RunLength \in Nat /\ p + RunLength <= avail_in
    BY <1>2, <2>1, <2>3
  <2>. DEFINE l == RunLength
  <2>. HIDE DEF l
  <2>10. r \in [l : Nat, c : Nat] /\ r.c = run.c
    <3>1. r = [run EXCEPT !.l = l] /\ l \in Nat
      BY <2>9 DEF l
    <3>. HIDE DEF r
    <3>. QED BY <1>1, <3>1
  <2>11. \A j \in 0 .. SmallLook - 1 : Tgt(q - 1 - j) = r.c
    <3>. HIDE DEF r
    <3>. QED BY <1>1, <1>4, <2>10 DEF SmallLook
  <2>. HIDE DEF r
  <2>12. RunsTo(r, q, SmallLook)
    BY <2>10, <2>11 DEF RunsTo
  <2>. QED BY <2>8, <2>9, <2>12 DEF r
<1>. QED BY <1>3, <1>4

LEMMA LastMatchedFacts ==
  ASSUME NEW e, Gathering(e)
  PROVE  /\ LastMatched(e) \in Nat
         /\ \A k \in 1 .. Len(e.used) : EndOf(e.used[k]) <= LastMatched(e)
<1>. DEFINE u == e.used
            w == e.srcwin
<1>1. u \in Seq(Matches(w)) /\ Ordered(u)
  BY DEF Gathering
<1>. HIDE DEF u, w
<1>2. Len(u) \in Nat /\ (u # <<>> => Len(u) # 0)
  BY <1>1, LenProperties, EmptySeq
<1>3. CASE u = <<>>
  <2>1. LastMatched(e) = 0 /\ Len(u) = 0
    BY <1>3 DEF LastMatched, u
  <2>. QED BY <2>1 DEF u
<1>4. CASE u # <<>>
  <2>. DEFINE l == Len(u)
  <2>1. l \in 1 .. Len(u)
    BY <1>2, <1>4
  <2>2. LastMatched(e) = EndOf(u[l])
    BY <1>4 DEF LastMatched, Last, u
  <2>3. EndOf(u[l]) \in Nat
    <3>1. u[l] \in Matches(w)
      BY <1>1, <2>1, ElementOfSeq
    <3>. QED BY <3>1, MatchFields
  <2>4. ASSUME NEW k \in 1 .. Len(u) PROVE EndOf(u[k]) <= EndOf(u[l])
    <3>1. CASE k = l
      BY <3>1, <2>3
    <3>2. CASE k # l
      <4>1. k < l
        BY <1>2, <3>2
      <4>2. EndOf(u[k]) < EndOf(u[l])
        BY <1>1, <2>1, <4>1 DEF Ordered
      <4>3. u[k] \in Matches(w)
        BY <1>1, ElementOfSeq
      <4>4. EndOf(u[k]) \in Nat
        BY <4>3, MatchFields
      <4>. HIDE DEF l
      <4>. QED BY <2>3, <4>2, <4>4
    <3>. QED BY <3>1, <3>2
  <2>. HIDE DEF l
  <2>. QED BY <2>2, <2>3, <2>4 DEF u
<1>. QED BY <1>3, <1>4

\* What holds when position p is looked at, with buffer e.
Behind(e, p) == \A k \in 1 .. Len(e.used) : e.used[k].pos < p
Looking(e, p, min, r) ==
  /\ p \in Nat /\ p + SmallLook <= avail_in
  /\ min \in Nat /\ min >= MIN_MATCH /\ p + min >= 1 + LastMatched(e)
  /\ Behind(e, p)
  /\ input.greedy => LastMatched(e) <= p
  /\ RunsTo(r, p + SmallLook, SmallLook)

\* A step to the next position that is looked at, or to the end of the window.
Onward(e) ==
  /\ input_position' \in Nat
  /\ enc_state' \in {"LOOP", "ENC_INSTR"}
  /\ enc_state' = "LOOP" => Looking(e, input_position', min_match', run')

LEMMA RestartKeeps ==
  ASSUME Setting, NEW e, Gathering(e), NEW p \in Nat, Behind(e, p),
         input.greedy => LastMatched(e) <= p, Restart(p, e)
  PROVE  Onward(e)
<1>1. input_position' = p
  BY DEF Restart
<1>2. CASE p + SmallLook > avail_in
  BY <1>1, <1>2 DEF Restart, Onward
<1>3. CASE ~ (p + SmallLook > avail_in)
  <2>1. p + SmallLook <= avail_in
    BY <1>3, SettingTypes DEF SmallLook
  <2>2. /\ enc_state' = "LOOP" /\ run' = CompRun(p)
        /\ min_match' = Greater(MIN_MATCH, 1 + LastMatched(e) - p)
    BY <1>3 DEF Restart
  <2>3. LastMatched(e) \in Nat
    BY LastMatchedFacts
  <2>4. /\ min_match' \in Nat /\ min_match' >= MIN_MATCH
        /\ p + min_match' >= 1 + LastMatched(e)
    BY <2>2, <2>3 DEF Greater, MIN_MATCH
  <2>5. RunsTo(run', p + SmallLook, SmallLook)
    BY <2>1, <2>2, CompRunTrue
  <2>6. Looking(e, p, min_match', run')
    BY <2>1, <2>4, <2>5 DEF Looking
  <2>. QED BY <1>1, <2>2, <2>6 DEF Onward
<1>. QED BY <1>2, <1>3

LEMMA UpdateOneKeeps ==
  ASSUME Setting, NEW e, Gathering(e), enc_state = "LOOP",
         input_position \in Nat, input_position + SmallLook <= avail_in,
         NEW r, RunsTo(r, input_position + SmallLook, SmallLook),
         NEW min \in Nat, min >= MIN_MATCH, input_position + min >= LastMatched(e),
         Behind(e, input_position + 1),
         input.greedy => LastMatched(e) <= input_position + 1,
         UpdateOne(r, min)
  PROVE  Onward(e)
<1>. DEFINE p == input_position
<1>0. avail_in \in Nat /\ LastMatched(e) \in Nat
  BY SettingTypes, LastMatchedFacts
<1>1. CASE p + SmallLook = avail_in
  <2>1. enc_state' = "ENC_INSTR" /\ input_position' = p
    BY <1>1 DEF UpdateOne
  <2>2. p \in Nat
    OBVIOUS
  <2>. QED BY <2>1, <2>2 DEF Onward
<1>2. CASE p + SmallLook # avail_in
  <2>. DEFINE q == p + SmallLook
  <2>1. /\ input_position' = p + 1 /\ enc_state' = "LOOP" /\ min_match' = min
        /\ run' = NextRun(r, Tgt(q))
    BY <1>2 DEF UpdateOne
  <2>2. q \in Nat /\ q < avail_in /\ q + 1 = (p + 1) + SmallLook
    BY <1>0, <1>2 DEF SmallLook
  <2>3. RunsTo(r, q, SmallLook)
    OBVIOUS
  <2>. HIDE DEF q
  <2>4. RunsTo(NextRun(r, Tgt(q)), q + 1, SmallLook + 1)
    <3>1. SmallLook \in Nat
      BY DEF SmallLook
    <3>. QED BY <2>2, <2>3, <3>1, NextRunKeeps
  <2>5. RunsTo(run', (p + 1) + SmallLook, SmallLook)
    <3>1. RunsTo(run', (p + 1) + SmallLook, SmallLook + 1)
      BY <2>1, <2>2, <2>4
    <3>2. 0 .. SmallLook - 1 \subseteq 0 .. (SmallLook + 1) - 1
      BY DEF SmallLook
    <3>. QED BY <3>1, <3>2 DEF RunsTo
  <2>6. /\ p + 1 \in Nat /\ (p + 1) + SmallLook <= avail_in
        /\ (p + 1) + min >= 1 + LastMatched(e)
    BY <1>0, <2>2 DEF SmallLook
  <2>7. Looking(e, p + 1, min, run')
    BY <2>5, <2>6 DEF Looking
  <2>. QED BY <2>1, <2>6, <2>7 DEF Onward
<1>. QED BY <1>1, <1>2

\* HANDLELAZY, after a match of length mlen at the position was entered.
LEMMA HandleLazyKeeps ==
  ASSUME Setting, input.greedy => input.max_lazy = 0,
         NEW e, Gathering(e), enc_state = "LOOP",
         input_position \in Nat, input_position + SmallLook <= avail_in,
         NEW r, RunsTo(r, input_position + SmallLook, SmallLook),
         NEW mlen \in Nat, mlen >= MIN_MATCH, LastMatched(e) = input_position + mlen,
         Behind(e, input_position + 1),
         HandleLazy(r, mlen, e)
  PROVE  Onward(e)
<1>. DEFINE p == input_position
<1>1. CASE mlen < input.max_lazy /\ p + mlen <= avail_in - 2
  <2>1. UpdateOne(r, mlen)
    BY <1>1 DEF HandleLazy
  <2>2. ~ input.greedy
    <3>1. mlen < 0 => FALSE
      OBVIOUS
    <3>. QED BY <1>1, <3>1
  <2>3. p + mlen >= LastMatched(e)
    OBVIOUS
  <2>. QED BY <2>1, <2>2, <2>3, UpdateOneKeeps
<1>2. CASE ~ (mlen < input.max_lazy /\ p + mlen <= avail_in - 2)
  <2>1. Restart(p + mlen, e)
    BY <1>2 DEF HandleLazy
  <2>2. p + mlen \in Nat /\ p + 1 <= p + mlen /\ p \in Nat
    BY DEF MIN_MATCH
  <2>3. Behind(e, p + mlen)
    <3>. SUFFICES ASSUME NEW k \in 1 .. Len(e.used) PROVE e.used[k].pos < p + mlen
      BY DEF Behind
    <3>1. e.used[k].pos < p + 1
      BY DEF Behind
    <3>2. e.used[k].pos \in Nat
      <4>1. e.used \in Seq(Matches(e.srcwin))
        BY DEF Gathering
      <4>2. e.used[k] \in Matches(e.srcwin)
        BY <4>1, ElementOfSeq
      <4>. QED BY <4>2, MatchFields
    <3>. QED BY <2>2, <3>1, <3>2
  <2>4. LastMatched(e) <= p + mlen
    BY <2>2
  <2>. HIDE DEF p
  <2>. QED BY <2>1, <2>2, <2>3, <2>4, RestartKeeps
<1>. QED BY <1>1, <1>2

\* Nothing but i is new in v.
AddsOnly(v, u, i) ==
  \A k \in 1 .. Len(v) : v[k] = i \/ \E j \in 1 .. Len(u) : v[k] = u[j]

LEMMA MatchEntered ==
  ASSUME input.iopt_size = 0, NEW e, Gathering(e), NEW i \in Matches(e.srcwin),
         i.size >= MIN_MATCH, Follows(e.used, i), NEW q \in Nat, i.pos < q
  PROVE  LET r == FoundMatch(e, i)
         IN  /\ Gathering(r) /\ Behind(r, q) /\ LastMatched(r) = EndOf(i)
             /\ AddsOnly(r.used, e.used, i)
<1>. DEFINE r == FoundMatch(e, i)
            u == e.used
            w == e.srcwin
            v == Append(u, i)
<1>1. Gathering(r) /\ r.used = v
  BY FoundKeeps
<1>2. u \in Seq(Matches(w)) /\ Ordered(u)
  BY DEF Gathering
<1>2a. i \in Matches(w) /\ Follows(u, i)
  OBVIOUS
<1>. HIDE DEF r, u, w
<1>3. Len(u) \in Nat
  BY <1>2, LenProperties
<1>4. /\ Len(v) = Len(u) + 1 /\ v[Len(u) + 1] = i
      /\ \A k \in 1 .. Len(u) : v[k] = u[k]
  BY <1>2, <1>2a, AddEnd
<1>. HIDE DEF v
<1>5. LastMatched(r) = EndOf(i)
  <2>1. v # <<>>
    <3>. SUFFICES ASSUME v = <<>> PROVE FALSE
      OBVIOUS
    <3>1. Len(v) = 0
      OBVIOUS
    <3>. QED BY <3>1, <1>3, <1>4
  <2>. QED BY <2>1, <1>1, <1>4 DEF LastMatched, Last
<1>6. Behind(r, q)
  <2>. SUFFICES ASSUME NEW k \in 1 .. Len(u) + 1 PROVE v[k].pos < q
    BY <1>1, <1>4 DEF Behind
  <2>1. CASE k = Len(u) + 1
    BY <1>4, <2>1
  <2>2. CASE k # Len(u) + 1
    <3>1. k \in 1 .. Len(u)
      BY <1>3, <2>2
    <3>2. v[k] = u[k] /\ u[k].pos < i.pos
      BY <1>2a, <1>4, <3>1 DEF Follows
    <3>3. u[k] \in Matches(w)
      BY <1>2, <3>1, ElementOfSeq
    <3>4. u[k].pos \in Nat /\ i.pos \in Nat
      BY <1>2a, <3>3, MatchFields
    <3>. QED BY <3>2, <3>4
  <2>. QED BY <2>1, <2>2
<1>7. AddsOnly(v, u, i)
  <2>. SUFFICES ASSUME NEW k \in 1 .. Len(u) + 1, v[k] # i
                PROVE  \E j \in 1 .. Len(u) : v[k] = u[j]
    BY <1>4 DEF AddsOnly
  <2>1. k \in 1 .. Len(u)
    BY <1>3, <1>4
  <2>. QED BY <1>4, <2>1
<1>. QED BY <1>1, <1>5, <1>6, <1>7 DEF r, u

\* A true match of the source, at the position that is looked at.
SourceMatch(m) ==
  /\ m.srcpos \in Nat /\ m.fwd \in Nat /\ m.back \in Nat
  /\ m.back <= input_position /\ m.back <= m.srcpos
  /\ m.srcpos + m.fwd <= Len(input.src) /\ input_position + m.fwd <= avail_in
  /\ \A k \in 0 .. m.fwd - 1 : Src(m.srcpos + k) = Tgt(input_position + k)
  /\ \A k \in 0 .. m.back - 1 : Src(m.srcpos - k - 1) = Tgt(input_position - k - 1)

LEMMA ExtendedFacts ==
  ASSUME Setting, Open(iopt.srcwin), input_position \in Nat, input_position <= avail_in,
         BackLimit \in Nat, BackLimit <= input_position,
         NEW srcpos \in Nat, srcpos <= Len(input.src), NEW backward \in BOOLEAN
  PROVE  LET m == Extended(srcpos, backward)
         IN  SourceMatch(m) /\ m.srcpos = srcpos /\ (~ backward => m.back = 0)
<1>. DEFINE m == Extended(srcpos, backward)
            p == input_position
            maxfwd == Lesser(avail_in - p, Len(input.src) - srcpos)
            maxback == Lesser(BackRoom, srcpos - 0)
            fwd == Forward(input.src, srcpos, p, maxfwd)
            back == IF backward THEN Backward(input.src, srcpos, p, maxback) ELSE 0
<1>1. Len(input.src) \in Nat /\ avail_in \in Nat /\ total_in \in Nat /\ p \in Nat
  BY SettingTypes
<1>2. SrcFrom = 0 /\ SrcTo = Len(input.src)
  BY DEF SrcFrom, SrcTo, Open
<1>3. srcpos \in SrcFrom .. SrcTo
  BY <1>1, <1>2
<1>4. m = [srcpos |-> srcpos, fwd |-> fwd, back |-> back]
  BY <1>2, <1>3 DEF Extended
<1>5. maxfwd \in Nat /\ maxback \in Nat /\ maxback <= p /\ maxback <= srcpos
  <2>1. BackRoom \in Nat /\ BackRoom <= p
    BY <1>1 DEF BackRoom
  <2>. QED BY <1>1, <2>1 DEF Lesser
<1>6. Agrees(input.src, srcpos, p, maxfwd, fwd)
  <2>. HIDE DEF maxfwd, p
  <2>. QED BY <1>5, ForwardAgrees
<1>7. backward => AgreesBack(input.src, srcpos, p, maxback, back)
  <2>. HIDE DEF maxback, p
  <2>1. AgreesBack(input.src, srcpos, p, maxback, Backward(input.src, srcpos, p, maxback))
    BY <1>5, BackwardAgrees
  <2>. QED BY <2>1
<1>8. ~ backward => back = 0
  OBVIOUS
<1>. HIDE DEF fwd, back, m
<1>9. /\ fwd \in Nat /\ srcpos + fwd <= Len(input.src) /\ p + fwd <= avail_in
      /\ \A k \in 0 .. fwd - 1 : input.src[srcpos + k + 1] = Tgt(p + k)
  BY <1>1, <1>6 DEF Agrees, Lesser
<1>10. /\ back \in Nat /\ back <= p /\ back <= srcpos
       /\ \A k \in 0 .. back - 1 : input.src[srcpos - k] = Tgt(p - k - 1)
  <2>1. CASE backward
    <3>. HIDE DEF maxback
    <3>. QED BY <1>1, <1>5, <1>7, <2>1 DEF AgreesBack
  <2>2. CASE ~ backward
    BY <1>1, <1>8, <2>2
  <2>. QED BY <2>1, <2>2
<1>11. ASSUME NEW k \in 0 .. back - 1 PROVE Src(srcpos - k - 1) = Tgt(p - k - 1)
  <2>1. srcpos - k - 1 + 1 = srcpos - k
    BY <1>10
  <2>. QED BY <2>1, <1>10 DEF Src
<1>12. ASSUME NEW k \in 0 .. fwd - 1 PROVE Src(srcpos + k) = Tgt(p + k)
  BY <1>9 DEF Src
<1>13. m.srcpos = srcpos /\ m.fwd = fwd /\ m.back = back
  BY <1>4
<1>14. SourceMatch(m)
  BY <1>9, <1>10, <1>11, <1>12, <1>13 DEF SourceMatch
<1>. QED BY <1>8, <1>13, <1>14 DEF m

\* The match that SourceTaken enters.
CopyOf(m) == [type |-> CPY, pos |-> input_position - m.back, size |-> m.back + m.fwd,
              addr |-> m.srcpos - m.back, xtra |-> 1]

LEMMA CopyOfTrue ==
  ASSUME Setting, input_position \in Nat, NEW m, SourceMatch(m), m.fwd >= MIN_MATCH,
         NEW w, w.minaddr <= m.srcpos - m.back, m.srcpos + m.fwd <= w.maxaddr
  PROVE  /\ CopyOf(m) \in Matches(w)
         /\ EndOf(CopyOf(m)) = input_position + m.fwd
<1>. DEFINE i == CopyOf(m)
            p == input_position
            start == m.srcpos - m.back
            pos == p - m.back
            size == m.back + m.fwd
<1>1. /\ m.srcpos \in Nat /\ m.fwd \in Nat /\ m.back \in Nat
      /\ m.back <= p /\ m.back <= m.srcpos
      /\ m.srcpos + m.fwd <= Len(input.src) /\ p + m.fwd <= avail_in
      /\ p \in Nat
  BY DEF SourceMatch
<1>2. Len(input.src) \in Nat /\ avail_in \in Nat
  BY SettingTypes
<1>a. start \in Nat /\ pos \in Nat
  BY <1>1
<1>b. size \in Nat /\ size >= 1
  BY <1>1 DEF MIN_MATCH
<1>c. start + size = m.srcpos + m.fwd /\ pos + size = p + m.fwd
  BY <1>1
<1>3. /\ start \in Nat /\ pos \in Nat /\ size \in Nat /\ size >= 1
      /\ start + size = m.srcpos + m.fwd /\ pos + size = p + m.fwd
  BY <1>a, <1>b, <1>c
<1>4. ASSUME NEW k \in 0 .. size - 1 PROVE Src(start + k) = Tgt(pos + k)
  <2>1. CASE k < m.back
    <3>. DEFINE j == m.back - 1 - k
    <3>1. j \in 0 .. m.back - 1 /\ m.srcpos - j - 1 = start + k /\ p - j - 1 = pos + k
      <4>1. PICK s \in Nat, b \in Nat, q \in Nat :
              s = m.srcpos /\ b = m.back /\ q = p
        BY <1>1
      <4>2. k \in Nat /\ k < b
        BY <1>3, <2>1, <4>1
      <4>3. /\ b - 1 - k \in 0 .. b - 1 /\ s - (b - 1 - k) - 1 = s - b + k
            /\ q - (b - 1 - k) - 1 = q - b + k
        BY <4>2
      <4>. QED BY <4>1, <4>3
    <3>2. Src(m.srcpos - j - 1) = Tgt(p - j - 1)
      BY <3>1 DEF SourceMatch
    <3>. HIDE DEF j, start, pos, p
    <3>. QED BY <3>1, <3>2
  <2>2. CASE ~ (k < m.back)
    <3>. DEFINE j == k - m.back
    <3>1. j \in 0 .. m.fwd - 1 /\ m.srcpos + j = start + k /\ p + j = pos + k
      <4>1. PICK s \in Nat, b \in Nat, q \in Nat, f \in Nat :
              s = m.srcpos /\ b = m.back /\ q = p /\ f = m.fwd
        BY <1>1
      <4>2. k \in 0 .. b + f - 1 /\ ~ (k < b)
        BY <2>2, <4>1
      <4>3. /\ k - b \in 0 .. f - 1 /\ s + (k - b) = s - b + k
            /\ q + (k - b) = q - b + k
        BY <4>2
      <4>. QED BY <4>1, <4>3
    <3>2. Src(m.srcpos + j) = Tgt(p + j)
      BY <3>1 DEF SourceMatch
    <3>. HIDE DEF j, start, pos, p
    <3>. QED BY <3>1, <3>2
  <2>. QED BY <2>1, <2>2
<1>5. /\ i = [type |-> CPY, pos |-> pos, size |-> size, addr |-> start, xtra |-> 1]
  BY DEF CopyOf
<1>. HIDE DEF start, pos, size, i
<1>6. /\ i.type = CPY /\ i.pos = pos /\ i.size = size /\ i.addr = start /\ i.xtra = 1
      /\ i \in MatchType
  BY <1>3, <1>5 DEF MatchType
<1>7. EndOf(i) = p + m.fwd
  BY <1>3, <1>6 DEF EndOf
<1>8. i.type # RUN
  BY <1>6 DEF CPY, RUN
<1>9. IsMatch(i)
  <2>1. i.size >= 1 /\ EndOf(i) <= avail_in /\ i.addr + i.size <= Len(input.src)
    BY <1>1, <1>3, <1>6, <1>7
  <2>2. \A k \in 0 .. i.size - 1 : Src(i.addr + k) = Tgt(i.pos + k)
    BY <1>4, <1>6
  <2>. QED BY <1>6, <1>8, <2>1, <2>2 DEF IsMatch
<1>10. Held(i, w)
  BY <1>1, <1>3, <1>6 DEF Held, start
<1>. QED BY <1>6, <1>7, <1>9, <1>10 DEF i, Matches

LEMMA SourceTakenKeeps ==
  ASSUME Setting, input.iopt_size = 0, Gathering(iopt), input_position \in Nat,
         Behind(iopt, input_position), NEW m, SourceMatch(m), m.fwd >= MIN_MATCH,
         LastMatched(iopt) < input_position + m.fwd,
         SourceTaken(m)
  PROVE  /\ Gathering(iopt') /\ Behind(iopt', input_position + 1)
         /\ LastMatched(iopt') = input_position + m.fwd
         /\ match' = AfterMatch(m)
         /\ AddsOnly(iopt'.used, iopt.used, CopyOf(m))
<1>. DEFINE p == input_position
            start == m.srcpos - m.back
            end == m.srcpos + m.fwd
            pos == p - m.back
            w == iopt.srcwin
            v == Wider(w, start, end)
            u == iopt.used
            kept == IF m.back > 0 THEN Erase(iopt, pos) ELSE iopt
            e == [kept EXCEPT !.srcwin = v]
            i == CopyOf(m)
<1>1. iopt' = FoundMatch(e, i) /\ match' = AfterMatch(m)
  BY DEF SourceTaken, Wider, CopyOf
<1>2. /\ m.srcpos \in Nat /\ m.fwd \in Nat /\ m.back \in Nat
      /\ m.back <= p /\ m.back <= m.srcpos /\ p \in Nat
  BY DEF SourceMatch
<1>3. start \in Nat /\ end \in Nat /\ start < end /\ pos \in Nat /\ pos < p + 1
  BY <1>2 DEF MIN_MATCH
<1>4. /\ u \in Seq(Matches(w)) /\ Ordered(u) /\ Open(w)
  BY DEF Gathering
<1>5. Len(u) \in Nat
  BY <1>4, LenProperties
<1>6. \A k \in 1 .. Len(u) : EndOf(u[k]) < p + m.fwd
  <2>. SUFFICES ASSUME NEW k \in 1 .. Len(u) PROVE EndOf(u[k]) < p + m.fwd
    OBVIOUS
  <2>1. EndOf(u[k]) <= LastMatched(iopt) /\ LastMatched(iopt) \in Nat
    BY LastMatchedFacts
  <2>2. EndOf(u[k]) \in Nat
    <3>1. u[k] \in Matches(w)
      BY <1>4, ElementOfSeq
    <3>. QED BY <3>1, MatchFields
  <2>. QED BY <2>1, <2>2, <1>2
<1>7. /\ Gathering(kept) /\ kept.srcwin = w
      /\ \A k \in 1 .. Len(kept.used) :
           /\ kept.used[k].pos < pos /\ EndOf(kept.used[k]) < p + m.fwd
           /\ \E j \in 1 .. Len(u) : kept.used[k] = u[j]
  <2>1. CASE m.back > 0
    <3>1. kept = Erase(iopt, pos)
      BY <2>1
    <3>. DEFINE n == Before(u, pos)
                t == SubSeq(u, 1, n)
    <3>2. Gathering(kept) /\ kept.srcwin = w /\ kept.used = t
      <4>. HIDE DEF pos
      <4>. QED BY <3>1, EraseKeeps
    <3>. HIDE DEF u, w, pos, kept
    <3>3. n \in 0 .. Len(u) /\ (n # 0 => u[n].pos < pos)
      BY <1>4, BeforeFacts
    <3>. HIDE DEF n
    <3>4. Len(t) = n /\ \A k \in 1 .. n : t[k] = u[k]
      BY <1>4, <3>3, CutEnd
    <3>. HIDE DEF t
    <3>5. ASSUME NEW k \in 1 .. n PROVE /\ t[k].pos < pos /\ EndOf(t[k]) < p + m.fwd
                                           /\ \E j \in 1 .. Len(u) : t[k] = u[j]
      <4>1. k \in 1 .. Len(u) /\ n \in 1 .. Len(u) /\ n # 0 /\ t[k] = u[k]
        BY <1>5, <3>3, <3>4
      <4>2. u[k] \in Matches(w) /\ u[n] \in Matches(w)
        BY <1>4, <4>1, ElementOfSeq
      <4>3. u[k].pos \in Nat /\ u[n].pos \in Nat
        BY <4>2, MatchFields
      <4>4. u[k].pos <= u[n].pos
        <5>1. CASE k = n
          BY <5>1, <4>3
        <5>2. CASE k # n
          <6>1. k < n
            BY <3>3, <5>2
          <6>2. u[k].pos < u[n].pos
            BY <1>4, <4>1, <6>1 DEF Ordered
          <6>. QED BY <6>2, <4>3
        <5>. QED BY <5>1, <5>2
      <4>5. u[k].pos < pos
        BY <1>3, <3>3, <4>1, <4>3, <4>4
      <4>. QED BY <1>6, <4>1, <4>5
    <3>. QED BY <3>2, <3>4, <3>5
  <2>2. CASE ~ (m.back > 0)
    <3>1. kept = iopt /\ pos = p
      BY <1>2, <2>2
    <3>. QED BY <1>6, <3>1 DEF Behind
  <2>. QED BY <2>1, <2>2
<1>. HIDE DEF kept
<1>8. Gathering(e) /\ e.used = kept.used /\ e.srcwin = v
  <2>. HIDE DEF start, end, w
  <2>. QED BY <1>3, <1>7, WidenKeeps
<1>9. v.minaddr <= start /\ end <= v.maxaddr
  <2>. HIDE DEF start, end, w
  <2>. QED BY <1>3, <1>4, WiderFacts
<1>. HIDE DEF e, v
<1>10. i \in Matches(v) /\ EndOf(i) = p + m.fwd
  BY <1>9, CopyOfTrue
<1>11. i.pos = pos /\ i.size >= MIN_MATCH
  <2>1. i.size = m.back + m.fwd /\ i.pos = pos
    BY DEF CopyOf
  <2>. QED BY <1>2, <2>1 DEF MIN_MATCH
<1>. HIDE DEF i, pos
<1>12. Follows(e.used, i)
  BY <1>7, <1>8, <1>10, <1>11 DEF Follows
<1>. DEFINE q == p + 1
<1>13. q \in Nat /\ i.pos < q
  BY <1>2, <1>3, <1>11
<1>. HIDE DEF q
<1>14. LET r == FoundMatch(e, i)
       IN  /\ Gathering(r) /\ Behind(r, q) /\ LastMatched(r) = EndOf(i)
           /\ AddsOnly(r.used, e.used, i)
  <2>1. i \in Matches(e.srcwin)
    BY <1>8, <1>10
  <2>. QED BY <1>8, <1>11, <1>12, <1>13, <2>1, MatchEntered
<1>15. AddsOnly(iopt'.used, u, i)
  <2>. DEFINE t == iopt'.used
              s == kept.used
  <2>1. AddsOnly(t, s, i)
    BY <1>1, <1>8, <1>14
  <2>2. \A k \in 1 .. Len(s) : \E j \in 1 .. Len(u) : s[k] = u[j]
    BY <1>7
  <2>. HIDE DEF t, s, u
  <2>3. AddsOnly(t, u, i)
    BY <2>1, <2>2 DEF AddsOnly
  <2>. QED BY <2>3 DEF t
<1>. QED BY <1>1, <1>10, <1>14, <1>15 DEF q, i

\* What is known of the match state: a match that ended with the window ended
\* with the byte before `at'.
MatchKept(m, at) ==
  /\ m.srcpos \in Nat /\ m.last \in Nat /\ m.srcpos <= Len(input.src)
  /\ m.state = "MATCH_TARGET" =>
       m.srcpos > 0 /\ m.srcpos # m.last /\ Src(m.srcpos - 1) = Tgt(at - 1)

LEMMA AfterMatchKept ==
  ASSUME Setting, input_position \in Nat, NEW m, SourceMatch(m), m.fwd >= MIN_MATCH
  PROVE  MatchKept(AfterMatch(m), avail_in)
<1>. DEFINE p == input_position
            a == AfterMatch(m)
<1>1. /\ m.srcpos \in Nat /\ m.fwd \in Nat /\ m.srcpos + m.fwd <= Len(input.src)
      /\ p \in Nat
  BY DEF SourceMatch
<1>2. Len(input.src) \in Nat
  BY SettingTypes
<1>3. CASE p + m.fwd = avail_in
  <2>. DEFINE s == m.srcpos + m.fwd
  <2>1. a.state = "MATCH_TARGET" /\ a.srcpos = s /\ a.last = m.srcpos
    BY <1>3 DEF AfterMatch
  <2>2. s \in Nat /\ s <= Len(input.src) /\ s > 0 /\ s # m.srcpos
    BY <1>1, <1>2 DEF MIN_MATCH
  <2>3. Src(s - 1) = Tgt(avail_in - 1)
    <3>. DEFINE k == m.fwd - 1
    <3>a. k \in 0 .. m.fwd - 1
      BY <1>1 DEF MIN_MATCH
    <3>b. m.srcpos + k = s - 1
      BY <1>1
    <3>c. p + k = avail_in - 1
      BY <1>1, <1>3
    <3>1. k \in 0 .. m.fwd - 1 /\ m.srcpos + k = s - 1 /\ p + k = avail_in - 1
      BY <3>a, <3>b, <3>c
    <3>2. Src(m.srcpos + k) = Tgt(p + k)
      BY <3>1 DEF SourceMatch
    <3>. HIDE DEF s, p, k
    <3>. QED BY <3>1, <3>2
  <2>. HIDE DEF s, a
  <2>. QED BY <1>1, <2>1, <2>2, <2>3 DEF MatchKept, a
<1>4. CASE p + m.fwd # avail_in
  <2>1. a.state = "MATCH_SEARCHING" /\ a.srcpos = 0 /\ a.last = m.srcpos
    BY <1>4 DEF AfterMatch, Searching
  <2>. HIDE DEF a
  <2>. QED BY <1>1, <1>2, <2>1 DEF MatchKept, a
<1>. QED BY <1>3, <1>4

LEMMA SearchingKept ==
  ASSUME Setting, NEW s \in Nat, NEW at
  PROVE  MatchKept(Searching(s), at)
<1>1. Len(input.src) \in Nat
  BY SettingTypes
<1>. QED BY <1>1 DEF MatchKept, Searching

-----------------------------------------------------------------------------
(* The invariant.                                                          *)

\* The buffer grows, the default of the library, and a greedy search is not a
\* lazy one.
Unlimited == input.iopt_size = 0 /\ (input.greedy => input.max_lazy = 0)

\* The window is encoded.
Written ==
  /\ iopt \in IoptType
  /\ iopt.used = <<>> /\ iopt.iout = NoInst /\ iopt.free = iopt.size
  /\ iopt.unencoded_offset = avail_in
  /\ \E w : Encoded(iopt, w)

\* The match state before a window and later.
MatchInv ==
  /\ match.srcpos \in Nat /\ match.last \in Nat /\ match.srcpos <= Len(input.src)
  /\ enc_state = "ENC_SEARCH" /\ total_in > 0 => MatchKept(match, 0)
  /\ enc_state # "ENC_SEARCH" => MatchKept(match, avail_in)

BufferInv ==
  /\ input \in Inputs
  /\ total_in \in Nat /\ total_in <= Len(input.tgt) /\ avail_in = WindowAt(total_in)
  /\ input_position \in Nat
  /\ enc_state \in {"ENC_SEARCH", "LOOP", "ENC_INSTR", "ENC_FLUSH"}
  /\ enc_state # "ENC_FLUSH" => Gathering(iopt)
  /\ enc_state = "ENC_SEARCH" =>
       iopt.used = <<>> /\ input_position = 0 /\ min_match = MIN_MATCH
  /\ enc_state = "LOOP" => Looking(iopt, input_position, min_match, run)
  /\ enc_state = "ENC_FLUSH" => Written

IoptInv == BufferInv /\ MatchInv

LEMMA WindowFits ==
  ASSUME input \in Inputs, total_in \in Nat, total_in <= Len(input.tgt),
         avail_in = WindowAt(total_in)
  PROVE  Setting
<1>1. /\ input.src \in Seq(Nat) /\ input.tgt \in Seq(Nat) /\ input.winsize \in Nat
  BY IoptAssumption
<1>2. Len(input.tgt) \in Nat
  BY <1>1, LenProperties
<1>3. avail_in \in Nat /\ total_in + avail_in <= Len(input.tgt)
  BY <1>1, <1>2 DEF WindowAt, Lesser
<1>. QED BY <1>1, <1>3 DEF Setting

\* A step within a window.
LEMMA SameWindow ==
  ASSUME UNCHANGED <<input, total_in, avail_in>>
  PROVE  /\ Gathering(iopt') => Gathering(iopt)'
         /\ Looking(iopt', input_position', min_match', run')
              => Looking(iopt, input_position, min_match, run)'
         /\ MatchKept(match', avail_in) => MatchKept(match, avail_in)'
<1>1. input' = input /\ total_in' = total_in /\ avail_in' = avail_in
  OBVIOUS
<1>2. \A i \in MatchType : IsMatch(i)' <=> IsMatch(i)
  BY <1>1 DEF IsMatch, Src, Tgt
<1>3. {i \in MatchType : IsMatch(i)' /\ Held(i, iopt'.srcwin)} = Matches(iopt'.srcwin)
  BY <1>2 DEF Matches
<1>4. Gathering(iopt') => Gathering(iopt)'
  BY <1>3 DEF Gathering, Matches
<1>5. Looking(iopt', input_position', min_match', run')
        => Looking(iopt, input_position, min_match, run)'
  BY <1>1 DEF Looking, RunsTo, Tgt, Behind, LastMatched
<1>6. MatchKept(match', avail_in) => MatchKept(match, avail_in)'
  BY <1>1 DEF MatchKept, Src, Tgt
<1>. QED BY <1>4, <1>5, <1>6

LEMMA OnwardBuffer ==
  ASSUME BufferInv, UNCHANGED <<input, total_in, avail_in>>,
         Gathering(iopt'), Onward(iopt')
  PROVE  BufferInv'
<1>1. Gathering(iopt)'
  BY SameWindow
<1>2. enc_state' = "LOOP" => Looking(iopt, input_position, min_match, run)'
  BY SameWindow DEF Onward
<1>3. input_position' \in Nat /\ enc_state' \in {"LOOP", "ENC_INSTR"}
  BY DEF Onward
<1>4. /\ (input \in Inputs)'
      /\ (total_in \in Nat /\ total_in <= Len(input.tgt) /\ avail_in = WindowAt(total_in))'
  BY DEF BufferInv, WindowAt
<1>. QED BY <1>1, <1>2, <1>3, <1>4 DEF BufferInv

LEMMA OnwardInv ==
  ASSUME IoptInv, UNCHANGED <<input, total_in, avail_in>>,
         Gathering(iopt'), Onward(iopt'), MatchKept(match', avail_in)
  PROVE  IoptInv'
<1>1. BufferInv'
  BY OnwardBuffer DEF IoptInv
<1>2. MatchKept(match, avail_in)'
  BY SameWindow
<1>3. MatchInv'
  BY <1>2 DEF Onward, MatchInv, MatchKept
<1>. QED BY <1>1, <1>3 DEF IoptInv

LEMMA BehindMore ==
  ASSUME NEW e, Gathering(e), NEW p \in Nat, NEW q \in Nat, p <= q, Behind(e, p)
  PROVE  Behind(e, q)
<1>. SUFFICES ASSUME NEW k \in 1 .. Len(e.used) PROVE e.used[k].pos < q
  BY DEF Behind
<1>1. e.used[k].pos < p
  BY DEF Behind
<1>2. e.used[k] \in Matches(e.srcwin)
  <2>1. e.used \in Seq(Matches(e.srcwin))
    BY DEF Gathering
  <2>. QED BY <2>1, ElementOfSeq
<1>3. e.used[k].pos \in Nat
  BY <1>2, MatchFields
<1>. QED BY <1>1, <1>3

LEMMA SearchInv ==
  ASSUME IoptInv, Unlimited, Search
  PROVE  IoptInv'
<1>1. Setting
  BY WindowFits DEF IoptInv, BufferInv
<1>2. /\ enc_state = "ENC_SEARCH" /\ Gathering(iopt) /\ iopt.used = <<>>
      /\ input_position = 0 /\ min_match = MIN_MATCH /\ Len(iopt.used) = 0
  BY DEF IoptInv, BufferInv, Search
<1>3. UNCHANGED <<input, total_in, avail_in>>
  BY DEF Search
<1>4. Behind(iopt, 0) /\ LastMatched(iopt) = 0
  BY <1>2 DEF Behind, LastMatched
<1>5. match.srcpos \in Nat /\ match.last \in Nat /\ match.srcpos <= Len(input.src)
  BY DEF IoptInv, MatchInv
<1>. DEFINE m == Extended(match.srcpos, FALSE)
<1>6. CASE /\ HasSource /\ match.state = "MATCH_TARGET" /\ avail_in > 0
           /\ ~ Rejected(match.srcpos) /\ m.fwd >= min_match
  <2>1. SourceTaken(m) /\ Restart(m.fwd, iopt')
    BY <1>6 DEF Search
  <2>2. SourceMatch(m)
    <3>1. Open(iopt.srcwin) /\ iopt.unencoded_offset = 0
      BY <1>2 DEF Gathering
    <3>2. BackLimit = 0
      BY <1>4, <3>1 DEF BackLimit
    <3>3. input_position \in Nat /\ input_position <= avail_in
      BY <1>1, <1>2, SettingTypes
    <3>4. BackLimit \in Nat /\ BackLimit <= input_position /\ FALSE \in BOOLEAN
      BY <1>2, <3>2
    <3>. QED BY <1>1, <1>5, <3>1, <3>3, <3>4, ExtendedFacts, Zenon
  <2>. HIDE DEF m
  <2>3. m.fwd \in Nat /\ m.fwd >= MIN_MATCH
    BY <1>2, <1>6, <2>2 DEF SourceMatch
  <2>4. LastMatched(iopt) < input_position + m.fwd
    BY <1>2, <1>4, <2>3 DEF MIN_MATCH
  <2>5. /\ Gathering(iopt') /\ Behind(iopt', input_position + 1)
        /\ LastMatched(iopt') = input_position + m.fwd
        /\ match' = AfterMatch(m)
    BY <1>1, <1>2, <1>4, <2>1, <2>2, <2>3, <2>4, SourceTakenKeeps DEF Unlimited
  <2>6. Behind(iopt', m.fwd)
    <3>1. 1 \in Nat /\ 1 <= m.fwd /\ input_position + 1 = 1
      BY <1>2, <2>3 DEF MIN_MATCH
    <3>. QED BY <2>3, <2>5, <3>1, BehindMore
  <2>7. LastMatched(iopt') <= m.fwd
    BY <1>2, <2>3, <2>5
  <2>8. Onward(iopt')
    BY <1>1, <2>1, <2>3, <2>5, <2>6, <2>7, RestartKeeps
  <2>9. MatchKept(match', avail_in)
    BY <1>1, <1>2, <2>2, <2>3, <2>5, AfterMatchKept
  <2>. QED BY <1>3, <2>5, <2>8, <2>9, OnwardInv
<1>7. CASE ~ (/\ HasSource /\ match.state = "MATCH_TARGET" /\ avail_in > 0
              /\ ~ Rejected(match.srcpos) /\ m.fwd >= min_match)
  <2>1. /\ match' = Searching(match.srcpos) \/ match' = Searching(match.last)
        /\ Restart(0, iopt) /\ iopt' = iopt
    BY <1>7 DEF Search
  <2>2. Onward(iopt)
    BY <1>1, <1>2, <1>4, <2>1, RestartKeeps
  <2>3. Onward(iopt')
    BY <2>1, <2>2
  <2>4. MatchKept(match', avail_in)
    BY <1>1, <1>5, <2>1, SearchingKept
  <2>5. Gathering(iopt')
    BY <1>2, <2>1
  <2>. QED BY <1>3, <2>3, <2>4, <2>5, OnwardInv
<1>. QED BY <1>6, <1>7

\* A match that begins at the position that is looked at and is long enough.
LEMMA LoopMatch ==
  ASSUME Setting, Unlimited, Gathering(iopt),
         Looking(iopt, input_position, min_match, run),
         NEW i \in Matches(iopt.srcwin), i.pos = input_position, i.size >= min_match,
         iopt' = FoundMatch(iopt, i)
  PROVE  /\ Gathering(iopt') /\ Behind(iopt', input_position + 1)
         /\ LastMatched(iopt') = input_position + i.size
         /\ i.size \in Nat /\ i.size >= MIN_MATCH
         /\ AddsOnly(iopt'.used, iopt.used, i)
<1>. DEFINE p == input_position
            u == iopt.used
            w == iopt.srcwin
<1>1. /\ p \in Nat /\ min_match \in Nat /\ min_match >= MIN_MATCH
      /\ p + min_match >= 1 + LastMatched(iopt) /\ Behind(iopt, p)
  BY DEF Looking
<1>2. i.size \in Nat /\ EndOf(i) = p + i.size
  BY MatchFields DEF EndOf
<1>3. i.size >= MIN_MATCH
  BY <1>1, <1>2 DEF MIN_MATCH
<1>4. Follows(u, i)
  <2>. SUFFICES ASSUME NEW k \in 1 .. Len(u)
                PROVE  u[k].pos < i.pos /\ EndOf(u[k]) < EndOf(i)
    BY DEF Follows
  <2>1. u[k].pos < p
    BY <1>1 DEF Behind
  <2>2. EndOf(u[k]) <= LastMatched(iopt) /\ LastMatched(iopt) \in Nat
    BY LastMatchedFacts
  <2>3. EndOf(u[k]) \in Nat
    <3>1. u \in Seq(Matches(w))
      BY DEF Gathering
    <3>. HIDE DEF u, w
    <3>2. u[k] \in Matches(w)
      BY <3>1, ElementOfSeq
    <3>. QED BY <3>2, MatchFields
  <2>. QED BY <1>1, <1>2, <2>1, <2>2, <2>3
<1>5. p + 1 \in Nat /\ i.pos < p + 1
  BY <1>1
<1>. DEFINE q == p + 1
<1>. HIDE DEF q
<1>6. LET r == FoundMatch(iopt, i)
      IN  /\ Gathering(r) /\ Behind(r, q) /\ LastMatched(r) = EndOf(i)
          /\ AddsOnly(r.used, iopt.used, i)
  <2>1. q \in Nat /\ i.pos < q
    BY <1>5 DEF q
  <2>. QED BY <1>3, <1>4, <2>1, MatchEntered DEF Unlimited
<1>. QED BY <1>2, <1>3, <1>6 DEF q

\* In the loop.
LEMMA LoopFacts ==
  ASSUME BufferInv, enc_state = "LOOP"
  PROVE  /\ Setting /\ Gathering(iopt)
         /\ Looking(iopt, input_position, min_match, run)
         /\ input_position \in Nat /\ input_position + SmallLook <= avail_in
         /\ RunLength \in Nat
         /\ RunsTo([run EXCEPT !.l = RunLength], input_position + SmallLook, SmallLook)
         /\ run.l = SmallLook =>
              /\ input_position + RunLength <= avail_in
              /\ \A k \in 0 .. RunLength - 1 : Tgt(input_position + k) = run.c
         /\ run.c \in Nat /\ min_match \in Nat /\ min_match >= MIN_MATCH
         /\ BackLimit \in Nat /\ BackLimit <= input_position
<1>. DEFINE q == input_position + SmallLook
<1>1. Setting
  BY WindowFits DEF BufferInv
<1>2. Gathering(iopt) /\ Looking(iopt, input_position, min_match, run)
  BY DEF BufferInv
<1>3. /\ input_position \in Nat /\ q <= avail_in /\ RunsTo(run, q, SmallLook)
      /\ min_match \in Nat /\ min_match >= MIN_MATCH
      /\ input.greedy => LastMatched(iopt) <= input_position
  BY <1>2 DEF Looking
<1>4. run.c \in Nat
  BY <1>3 DEF RunsTo
<1>5. BackLimit \in Nat /\ BackLimit <= input_position
  <2>1. iopt.unencoded_offset = 0 /\ LastMatched(iopt) \in Nat
    BY <1>2, LastMatchedFacts DEF Gathering
  <2>. QED BY <1>3, <2>1 DEF BackLimit
<1>6. /\ RunLength \in Nat
      /\ RunsTo([run EXCEPT !.l = RunLength], q, SmallLook)
      /\ run.l = SmallLook =>
           /\ input_position + RunLength <= avail_in
           /\ \A k \in 0 .. RunLength - 1 : Tgt(input_position + k) = run.c
  <2>. HIDE DEF q
  <2>1. q = input_position + SmallLook
    BY DEF q
  <2>. QED BY <1>1, <1>3, <2>1, RunLengthFacts
<1>. QED BY <1>1, <1>2, <1>3, <1>4, <1>5, <1>6

LEMMA RunFoundBuffer ==
  ASSUME BufferInv, Unlimited, RunFound
  PROVE  /\ BufferInv' /\ Onward(iopt')
         /\ RunLength \in Nat /\ RunLength >= MIN_MATCH
         /\ LastMatched(iopt') = input_position + RunLength
         /\ \E i : i.type = RUN /\ AddsOnly(iopt'.used, iopt.used, i)
<1>. DEFINE i == [type |-> RUN, pos |-> input_position, size |-> RunLength,
                  addr |-> 0, xtra |-> run.c]
            r == [run EXCEPT !.l = RunLength]
<1>1. /\ enc_state = "LOOP" /\ RunHere /\ iopt' = FoundMatch(iopt, i)
      /\ HandleLazy(r, RunLength, iopt')
      /\ UNCHANGED <<input, total_in, avail_in, match>>
  BY DEF RunFound
<1>2. /\ Setting /\ Gathering(iopt) /\ Looking(iopt, input_position, min_match, run)
      /\ input_position \in Nat /\ input_position + SmallLook <= avail_in
      /\ RunLength \in Nat /\ RunsTo(r, input_position + SmallLook, SmallLook)
      /\ run.l = SmallLook =>
           /\ input_position + RunLength <= avail_in
           /\ \A k \in 0 .. RunLength - 1 : Tgt(input_position + k) = run.c
      /\ run.c \in Nat /\ min_match \in Nat /\ min_match >= MIN_MATCH
  BY <1>1, LoopFacts
<1>3. run.l = SmallLook /\ RunLength >= min_match /\ RunLength >= 1
  BY <1>1, <1>2 DEF RunHere, Greater, MIN_RUN
<1>. HIDE DEF r
<1>4. /\ i.type = RUN /\ i.pos = input_position /\ i.size = RunLength
      /\ i.xtra = run.c /\ i \in MatchType
  BY <1>2 DEF MatchType
<1>. HIDE DEF i
<1>5. i \in Matches(iopt.srcwin)
  <2>1. i.type # CPY
    BY <1>4 DEF RUN, CPY
  <2>2. IsMatch(i)
    BY <1>2, <1>3, <1>4, <2>1 DEF IsMatch, EndOf
  <2>. QED BY <1>4, <2>1, <2>2 DEF Held, Matches
<1>6. /\ Gathering(iopt') /\ Behind(iopt', input_position + 1)
      /\ LastMatched(iopt') = input_position + RunLength
      /\ RunLength >= MIN_MATCH
      /\ AddsOnly(iopt'.used, iopt.used, i)
  BY <1>1, <1>2, <1>3, <1>4, <1>5, LoopMatch
<1>7. Onward(iopt')
  BY <1>1, <1>2, <1>6, HandleLazyKeeps DEF Unlimited
<1>. QED BY <1>1, <1>2, <1>4, <1>6, <1>7, OnwardBuffer

LEMMA RunFoundInv ==
  ASSUME IoptInv, Unlimited, RunFound
  PROVE  IoptInv'
<1>1. /\ enc_state = "LOOP" /\ UNCHANGED <<input, total_in, avail_in, match>>
  BY DEF RunFound
<1>2. BufferInv' /\ Onward(iopt') /\ MatchKept(match, avail_in)
  BY <1>1, RunFoundBuffer DEF IoptInv, MatchInv
<1>3. MatchKept(match', avail_in)
  BY <1>1, <1>2
<1>4. MatchKept(match, avail_in)'
  BY <1>1, <1>3, SameWindow
<1>5. MatchInv'
  BY <1>2, <1>4 DEF Onward, MatchInv, MatchKept
<1>. QED BY <1>2, <1>5 DEF IoptInv

\* A source position that may be tried.
LEMMA CandidateFacts ==
  ASSUME IoptInv, enc_state = "LOOP", NEW srcpos \in Candidates
  PROVE  /\ srcpos \in Nat /\ SourceMatch(Extended(srcpos, TRUE))
         /\ HasSource
<1>1. /\ Setting /\ Gathering(iopt) /\ BackLimit \in Nat /\ BackLimit <= input_position
      /\ input_position \in Nat /\ input_position + SmallLook <= avail_in
  BY LoopFacts DEF IoptInv
<1>2. HasSource /\ srcpos \in 0 .. Len(input.src) - LargeLook
  <2>1. srcpos \in Lookups
    BY DEF Candidates
  <2>2. HasSource /\ input_position + LargeLook <= avail_in
    BY <2>1 DEF Lookups
  <2>. QED BY <2>1, <2>2 DEF Lookups
<1>3. Len(input.src) \in Nat /\ LargeLook \in Nat /\ avail_in \in Nat
  BY <1>1, SettingTypes, IoptAssumption
<1>4. srcpos \in Nat /\ srcpos <= Len(input.src)
  BY <1>2, <1>3
<1>5. Open(iopt.srcwin) /\ input_position <= avail_in /\ TRUE \in BOOLEAN
  BY <1>1, <1>3 DEF Gathering, SmallLook
<1>6. SourceMatch(Extended(srcpos, TRUE))
  BY <1>1, <1>4, <1>5, ExtendedFacts, Zenon
<1>. QED BY <1>2, <1>4, <1>6

LEMMA SourceFoundInv ==
  ASSUME IoptInv, Unlimited, SourceFound
  PROVE  IoptInv'
<1>. DEFINE r == [run EXCEPT !.l = RunLength]
<1>1. enc_state = "LOOP" /\ UNCHANGED <<input, total_in, avail_in>>
  BY DEF SourceFound
<1>2. PICK srcpos \in Candidates \ Missed :
        LET m == Extended(srcpos, TRUE)
        IN  SourceTaken(m) /\ HandleLazy(r, m.fwd, iopt')
  BY DEF SourceFound
<1>. DEFINE m == Extended(srcpos, TRUE)
<1>3. SourceTaken(m) /\ HandleLazy(r, m.fwd, iopt') /\ ~ (m.fwd < min_match)
  BY <1>2 DEF Missed
<1>4. /\ Setting /\ Gathering(iopt) /\ Looking(iopt, input_position, min_match, run)
      /\ input_position \in Nat /\ input_position + SmallLook <= avail_in
      /\ RunsTo(r, input_position + SmallLook, SmallLook)
      /\ min_match \in Nat /\ min_match >= MIN_MATCH
  BY <1>1, LoopFacts DEF IoptInv
<1>5. SourceMatch(m)
  BY <1>1, <1>2, CandidateFacts
<1>. HIDE DEF m, r
<1>6. m.fwd \in Nat /\ m.fwd >= min_match /\ m.fwd >= MIN_MATCH
  BY <1>3, <1>4, <1>5 DEF SourceMatch, MIN_MATCH
<1>7. LastMatched(iopt) < input_position + m.fwd /\ Behind(iopt, input_position)
  <2>1. LastMatched(iopt) \in Nat
    BY <1>4, LastMatchedFacts
  <2>2. input_position + min_match >= 1 + LastMatched(iopt) /\ Behind(iopt, input_position)
    BY <1>4 DEF Looking
  <2>. QED BY <1>4, <1>6, <2>1, <2>2
<1>8. /\ Gathering(iopt') /\ Behind(iopt', input_position + 1)
      /\ LastMatched(iopt') = input_position + m.fwd
      /\ match' = AfterMatch(m)
  BY <1>3, <1>4, <1>5, <1>6, <1>7, SourceTakenKeeps DEF Unlimited
<1>9. Onward(iopt')
  BY <1>1, <1>3, <1>4, <1>6, <1>8, HandleLazyKeeps DEF Unlimited
<1>10. MatchKept(match', avail_in)
  BY <1>4, <1>5, <1>6, <1>8, AfterMatchKept
<1>. QED BY <1>1, <1>8, <1>9, <1>10, OnwardInv

LEMMA SourceMissedKept ==
  ASSUME IoptInv, enc_state = "LOOP", SourceMissed
  PROVE  MatchKept(match', avail_in)
<1>1. Setting /\ MatchKept(match, avail_in)
  BY LoopFacts DEF IoptInv, MatchInv
<1>2. CASE match' = match
  BY <1>1, <1>2
<1>3. CASE match' # match
  <2>1. PICK s \in Missed : match' = Searching(s)
    BY <1>3 DEF SourceMissed
  <2>2. s \in Candidates
    BY DEF Missed
  <2>3. s \in Nat
    BY <2>2, CandidateFacts
  <2>. QED BY <1>1, <2>1, <2>3, SearchingKept
<1>. QED BY <1>2, <1>3

\* A match with the window itself.
LEMMA TargetTaken ==
  ASSUME BufferInv, Unlimited, enc_state = "LOOP", UNCHANGED <<input, total_in, avail_in>>,
         NEW base \in 0 .. input_position - 1,
         LET n == Forward(input.tgt, total_in + base, input_position,
                          avail_in - input_position)
         IN  /\ n >= min_match
             /\ iopt' = FoundMatch(iopt, [type |-> CPY, pos |-> input_position,
                                          size |-> n, addr |-> base, xtra |-> 0])
             /\ HandleLazy([run EXCEPT !.l = RunLength], n, iopt')
  PROVE  /\ BufferInv' /\ Onward(iopt')
         /\ LET n == Forward(input.tgt, total_in + base, input_position,
                             avail_in - input_position)
            IN  /\ n \in Nat /\ n >= MIN_MATCH
                /\ LastMatched(iopt') = input_position + n
         /\ \E i : i.xtra = 0 /\ AddsOnly(iopt'.used, iopt.used, i)
<1>. DEFINE r == [run EXCEPT !.l = RunLength]
            N == Forward(input.tgt, total_in + base, input_position,
                         avail_in - input_position)
            I == [type |-> CPY, pos |-> input_position, size |-> N,
                  addr |-> base, xtra |-> 0]
<1>3. /\ Setting /\ Gathering(iopt) /\ Looking(iopt, input_position, min_match, run)
      /\ input_position \in Nat /\ input_position + SmallLook <= avail_in
      /\ RunsTo(r, input_position + SmallLook, SmallLook)
      /\ min_match \in Nat /\ min_match >= MIN_MATCH
  BY LoopFacts
<1>4. avail_in \in Nat /\ total_in \in Nat
  BY <1>3, SettingTypes
<1>. DEFINE n == N
            i == I
<1>5. Agrees(input.tgt, total_in + base, input_position, avail_in - input_position, n)
  <2>. DEFINE max == avail_in - input_position
  <2>1. max \in Nat
    BY <1>3, <1>4 DEF SmallLook
  <2>. HIDE DEF max
  <2>2. Agrees(input.tgt, total_in + base, input_position, max,
               Forward(input.tgt, total_in + base, input_position, max))
    BY <2>1, ForwardAgrees
  <2>. QED BY <2>2 DEF max
<1>6. n >= min_match /\ iopt' = FoundMatch(iopt, i) /\ HandleLazy(r, n, iopt')
  OBVIOUS
<1>7. i = [type |-> CPY, pos |-> input_position, size |-> n, addr |-> base, xtra |-> 0]
  OBVIOUS
<1>. HIDE DEF n, i, r, N, I
<1>8. /\ n \in Nat /\ input_position + n <= avail_in /\ n >= 1
      /\ \A k \in 0 .. n - 1 : input.tgt[total_in + base + k + 1] = Tgt(input_position + k)
  BY <1>3, <1>4, <1>5, <1>6 DEF Agrees, MIN_MATCH
<1>9. base \in Nat /\ base < input_position
  BY <1>3
<1>10. /\ i.type = CPY /\ i.pos = input_position /\ i.size = n /\ i.addr = base
       /\ i.xtra = 0 /\ i \in MatchType
  BY <1>3, <1>7, <1>8, <1>9 DEF MatchType
<1>11. i \in Matches(iopt.srcwin)
  <2>1. ASSUME NEW k \in 0 .. n - 1 PROVE Tgt(base + k) = Tgt(input_position + k)
    <3>1. total_in + base + k + 1 = total_in + (base + k) + 1
      BY <1>4, <1>8, <1>9
    <3>2. input.tgt[total_in + (base + k) + 1] = Tgt(input_position + k)
      BY <1>8, <3>1
    <3>. QED BY <3>2 DEF Tgt
  <2>2. i.type # RUN /\ i.xtra # 1
    BY <1>10 DEF CPY, RUN
  <2>3. EndOf(i) <= avail_in
    BY <1>8, <1>10 DEF EndOf
  <2>4. IsMatch(i)
    BY <1>8, <1>9, <1>10, <2>1, <2>2, <2>3 DEF IsMatch
  <2>. QED BY <1>10, <2>2, <2>4 DEF Matches, Held
<1>12. /\ Gathering(iopt') /\ Behind(iopt', input_position + 1)
       /\ LastMatched(iopt') = input_position + n
       /\ n >= MIN_MATCH
       /\ AddsOnly(iopt'.used, iopt.used, i)
  BY <1>3, <1>6, <1>10, <1>11, LoopMatch
<1>13. Onward(iopt')
  BY <1>3, <1>6, <1>8, <1>12, HandleLazyKeeps DEF Unlimited
<1>14. n \in Nat /\ n >= MIN_MATCH
  BY <1>8, <1>12
<1>15. \E j : j.xtra = 0 /\ AddsOnly(iopt'.used, iopt.used, j)
  BY <1>10, <1>12
<1>. QED BY <1>12, <1>13, <1>14, <1>15, OnwardBuffer DEF n, N

LEMMA TargetFoundInv ==
  ASSUME IoptInv, Unlimited, TargetFound
  PROVE  IoptInv'
<1>1. /\ enc_state = "LOOP" /\ UNCHANGED <<input, total_in, avail_in>> /\ SourceMissed
  BY DEF TargetFound
<1>2. BufferInv' /\ Onward(iopt')
  BY <1>1, TargetTaken DEF TargetFound, IoptInv
<1>3. MatchKept(match', avail_in)
  BY <1>1, SourceMissedKept
<1>4. MatchKept(match, avail_in)'
  BY <1>1, <1>3, SameWindow
<1>5. MatchInv'
  BY <1>2, <1>4 DEF Onward, MatchInv, MatchKept
<1>. QED BY <1>2, <1>5 DEF IoptInv

LEMMA NothingTaken ==
  ASSUME BufferInv, enc_state = "LOOP", UNCHANGED <<input, total_in, avail_in, iopt>>,
         UpdateOne([run EXCEPT !.l = RunLength], Greater(MIN_MATCH, min_match - 1))
  PROVE  BufferInv' /\ Onward(iopt')
<1>. DEFINE r == [run EXCEPT !.l = RunLength]
            min == Greater(MIN_MATCH, min_match - 1)
<1>1. /\ enc_state = "LOOP" /\ UNCHANGED <<input, total_in, avail_in, iopt>>
      /\ UpdateOne(r, min)
  OBVIOUS
<1>2. /\ Setting /\ Gathering(iopt) /\ Looking(iopt, input_position, min_match, run)
      /\ input_position \in Nat /\ input_position + SmallLook <= avail_in
      /\ RunsTo(r, input_position + SmallLook, SmallLook)
      /\ min_match \in Nat /\ min_match >= MIN_MATCH
  BY <1>1, LoopFacts
<1>3. LastMatched(iopt) \in Nat
  BY <1>2, LastMatchedFacts
<1>4. /\ input_position + min_match >= 1 + LastMatched(iopt)
      /\ Behind(iopt, input_position)
      /\ input.greedy => LastMatched(iopt) <= input_position
  BY <1>2 DEF Looking
<1>5. min \in Nat /\ min >= MIN_MATCH /\ input_position + min >= LastMatched(iopt)
  BY <1>2, <1>3, <1>4 DEF Greater, MIN_MATCH
<1>. HIDE DEF r, min
<1>6. Behind(iopt, input_position + 1)
  <2>. DEFINE q == input_position + 1
  <2>1. q \in Nat /\ input_position <= q
    BY <1>2
  <2>. HIDE DEF q
  <2>2. Behind(iopt, q)
    BY <1>2, <1>4, <2>1, BehindMore
  <2>. QED BY <2>2 DEF q
<1>7. input.greedy => LastMatched(iopt) <= input_position + 1
  BY <1>2, <1>3, <1>4
<1>8. Onward(iopt)
  BY <1>1, <1>2, <1>5, <1>6, <1>7, UpdateOneKeeps
<1>9. Onward(iopt') /\ Gathering(iopt')
  BY <1>1, <1>2, <1>8
<1>. QED BY <1>1, <1>9, OnwardBuffer

LEMMA NothingFoundInv ==
  ASSUME IoptInv, NothingFound
  PROVE  IoptInv'
<1>1. /\ enc_state = "LOOP" /\ UNCHANGED <<input, total_in, avail_in, iopt>>
      /\ SourceMissed
  BY DEF NothingFound
<1>2. BufferInv' /\ Onward(iopt')
  BY <1>1, NothingTaken DEF NothingFound, IoptInv
<1>3. MatchKept(match', avail_in)
  BY <1>1, SourceMissedKept
<1>4. MatchKept(match, avail_in)'
  BY <1>1, <1>3, SameWindow
<1>5. MatchInv'
  BY <1>2, <1>4 DEF Onward, MatchInv, MatchKept
<1>. QED BY <1>2, <1>5 DEF IoptInv

LEMMA InstrBuffer ==
  ASSUME BufferInv, Instr
  PROVE  BufferInv'
<1>1. /\ enc_state = "ENC_INSTR" /\ enc_state' = "ENC_FLUSH"
      /\ iopt' = AddFinalize(Flush(iopt, TRUE))
      /\ UNCHANGED <<input, total_in, avail_in, input_position, min_match, run, match>>
  BY DEF Instr
<1>2. Setting
  BY WindowFits DEF BufferInv
<1>3. Gathering(iopt)
  BY <1>1 DEF BufferInv
<1>4. /\ iopt \in IoptType /\ Open(iopt.srcwin)
      /\ iopt.used \in Seq(Matches(iopt.srcwin)) /\ Ordered(iopt.used)
      /\ iopt.out = <<>> /\ iopt.unencoded_offset = 0 /\ iopt.iout = NoInst
      /\ Len(iopt.used) + iopt.free = iopt.size
  BY <1>3 DEF Gathering
<1>. DEFINE w == iopt.srcwin
<1>5. /\ iopt' \in IoptType /\ Encoded(iopt', w) /\ iopt'.used = <<>>
      /\ iopt'.free = iopt'.size /\ iopt'.iout = NoInst
      /\ iopt'.unencoded_offset = avail_in
  BY <1>1, <1>2, <1>4, InstrEncodes
<1>. HIDE DEF w
<1>6. Written'
  <2>1. input' = input /\ total_in' = total_in /\ avail_in' = avail_in
    BY <1>1
  <2>2. PICK v : v = w
    OBVIOUS
  <2>3. Encoded(iopt', v)
    BY <1>5, <2>2
  <2>5. HasSource' <=> HasSource
    BY <2>1 DEF HasSource
  <2>6. SrcwinSetup(v, TRUE)' = SrcwinSetup(v, TRUE)
    BY <2>1 DEF SrcwinSetup
  <2>4. Encoded(iopt, v)'
    <3>1. \A k \in 1 .. Len(iopt'.out) :
            TrueOut(iopt'.out[k], iopt'.srcwin) => TrueOut(iopt.out[k], iopt.srcwin)'
      BY <2>1 DEF TrueOut, Src, Tgt
    <3>. QED BY <2>3, <2>5, <2>6, <3>1 DEF Encoded
  <2>. QED BY <1>5, <2>1, <2>4 DEF Written
<1>7. /\ (input \in Inputs)' /\ input_position' \in Nat
      /\ (total_in \in Nat /\ total_in <= Len(input.tgt) /\ avail_in = WindowAt(total_in))'
  BY <1>1 DEF BufferInv, WindowAt
<1>. QED BY <1>1, <1>6, <1>7 DEF BufferInv

LEMMA InstrInv ==
  ASSUME IoptInv, Instr
  PROVE  IoptInv'
<1>1. /\ enc_state = "ENC_INSTR" /\ enc_state' = "ENC_FLUSH"
      /\ UNCHANGED <<input, total_in, avail_in, match>>
  BY DEF Instr
<1>2. MatchInv'
  <2>1. MatchKept(match, avail_in) /\ match.srcpos \in Nat /\ match.last \in Nat
        /\ match.srcpos <= Len(input.src)
    BY <1>1 DEF IoptInv, MatchInv
  <2>2. MatchKept(match', avail_in)
    BY <1>1, <2>1
  <2>3. MatchKept(match, avail_in)'
    BY <1>1, <2>2, SameWindow
  <2>. QED BY <1>1, <2>1, <2>3 DEF MatchInv
<1>. QED BY <1>2, InstrBuffer DEF IoptInv

\* A buffer in which nothing is held.
LEMMA EmptyGathering ==
  ASSUME NEW e \in IoptType, e.used = <<>>, e.free = e.size, e.iout = NoInst,
         e.out = <<>>, e.unencoded_offset = 0, Open(e.srcwin)
  PROVE  Gathering(e)
<1>1. Len(e.used) = 0 /\ e.size \in Nat
  BY DEF IoptType
<1>2. e.used \in Seq(Matches(e.srcwin))
  <2>. DEFINE S == Matches(e.srcwin)
  <2>. HIDE DEF S
  <2>1. <<>> \in Seq(S)
    OBVIOUS
  <2>. QED BY <2>1 DEF S
<1>3. Ordered(e.used) /\ NoneShort(e.used)
  BY <1>1 DEF Ordered, NoneShort
<1>4. Len(e.used) + e.free = e.size /\ e.free >= 0
  BY <1>1
<1>. QED BY <1>2, <1>3, <1>4 DEF Gathering

LEMMA NoSrcwinOpen ==
  Open(NoSrcwin)
BY DEF Open, NoSrcwin, SrcwinType

LEMMA EmptyIopt ==
  ASSUME NEW e \in IoptType, e.used = <<>>, e.free = e.size, e.iout = NoInst
  PROVE  Gathering([e EXCEPT !.unencoded_offset = 0, !.srcwin = NoSrcwin, !.out = <<>>])
<1>. DEFINE v == NoSrcwin
            o == <<>>
            r == [e EXCEPT !.unencoded_offset = 0, !.srcwin = v, !.out = o]
<1>1. Open(v) /\ v \in SrcwinType
  BY NoSrcwinOpen DEF Open
<1>2. o \in Seq(OutType) /\ 0 \in Nat
  OBVIOUS
<1>. HIDE DEF v, o, r
<1>3. /\ r \in IoptType /\ r.used = e.used /\ r.free = e.free /\ r.size = e.size
      /\ r.iout = e.iout /\ r.unencoded_offset = 0 /\ r.srcwin = v /\ r.out = o
  BY <1>1, <1>2 DEF IoptType, r
<1>4. Gathering(r)
  BY <1>1, <1>3, EmptyGathering DEF o
<1>. QED BY <1>4 DEF r, v, o

LEMMA NextWindowBuffer ==
  ASSUME BufferInv, NextWindow
  PROVE  BufferInv'
<1>1. /\ enc_state = "ENC_FLUSH" /\ enc_state' = "ENC_SEARCH"
      /\ total_in + avail_in < Len(input.tgt) /\ total_in' = total_in + avail_in
      /\ avail_in' = WindowAt(total_in')
      /\ input_position' = 0 /\ min_match' = MIN_MATCH
      /\ iopt' = [iopt EXCEPT !.unencoded_offset = 0, !.srcwin = NoSrcwin, !.out = <<>>]
      /\ UNCHANGED <<input, run, match>>
  BY DEF NextWindow
<1>2. Setting
  BY WindowFits DEF BufferInv
<1>3. /\ iopt \in IoptType /\ iopt.used = <<>> /\ iopt.iout = NoInst
      /\ iopt.free = iopt.size
  BY <1>1 DEF BufferInv, Written
<1>4. Gathering(iopt')
  BY <1>1, <1>3, EmptyIopt
<1>5. iopt'.used = <<>>
  BY <1>1, <1>3 DEF IoptType
<1>6. Gathering(iopt)'
  <2>1. /\ iopt' \in IoptType /\ iopt'.out = <<>> /\ iopt'.unencoded_offset = 0
        /\ iopt'.iout = NoInst /\ Open(iopt'.srcwin)
        /\ Ordered(iopt'.used) /\ NoneShort(iopt'.used)
        /\ Len(iopt'.used) + iopt'.free = iopt'.size /\ iopt'.free >= 0
    BY <1>4 DEF Gathering
  <2>2. (iopt.used \in Seq(Matches(iopt.srcwin)))'
    <3>. DEFINE S == Matches(iopt.srcwin)'
    <3>. HIDE DEF S
    <3>1. <<>> \in Seq(S)
      OBVIOUS
    <3>. QED BY <1>5, <3>1 DEF S
  <2>. QED BY <2>1, <2>2 DEF Gathering
<1>7. /\ total_in' \in Nat /\ total_in' <= Len(input'.tgt)
      /\ (avail_in = WindowAt(total_in))'
  BY <1>1, <1>2, SettingTypes DEF WindowAt
<1>. QED BY <1>1, <1>5, <1>6, <1>7 DEF BufferInv

LEMMA NextWindowInv ==
  ASSUME IoptInv, NextWindow
  PROVE  IoptInv'
<1>1. /\ enc_state = "ENC_FLUSH" /\ enc_state' = "ENC_SEARCH"
      /\ total_in' = total_in + avail_in
      /\ UNCHANGED <<input, run, match>>
  BY DEF NextWindow
<1>2. Setting
  BY WindowFits DEF IoptInv, BufferInv
<1>3. MatchInv'
  <2>1. MatchKept(match, avail_in)
    BY <1>1 DEF IoptInv, MatchInv
  <2>2. (match.state = "MATCH_TARGET" =>
           match.srcpos > 0 /\ match.srcpos # match.last
           /\ Src(match.srcpos - 1) = Tgt(avail_in - 1))
        /\ match.srcpos \in Nat /\ match.last \in Nat /\ match.srcpos <= Len(input.src)
    BY <2>1 DEF MatchKept
  <2>3. Tgt(0 - 1)' = Tgt(avail_in - 1)
    <3>1. total_in' + (0 - 1) + 1 = total_in + (avail_in - 1) + 1
      BY <1>1, <1>2, SettingTypes
    <3>. QED BY <1>1, <3>1 DEF Tgt
  <2>4. Src(match.srcpos - 1)' = Src(match.srcpos - 1)
    BY <1>1 DEF Src
  <2>5. MatchKept(match, 0)'
    BY <1>1, <2>2, <2>3, <2>4 DEF MatchKept
  <2>. QED BY <1>1, <2>2, <2>5 DEF MatchInv
<1>. QED BY <1>3, NextWindowBuffer DEF IoptInv

LEMMA InitInv ==
  ASSUME Init
  PROVE  IoptInv
<1>. DEFINE size == IF input.iopt_size = 0 THEN AllocElts ELSE input.iopt_size
<1>1. /\ input \in Inputs /\ enc_state = "ENC_SEARCH" /\ total_in = 0
      /\ avail_in = WindowAt(total_in) /\ input_position = 0 /\ min_match = MIN_MATCH
      /\ match = [state |-> "MATCH_TARGET", srcpos |-> 0, last |-> 0]
      /\ iopt = [used |-> <<>>, free |-> size, size |-> size, iout |-> NoInst,
                 unencoded_offset |-> 0, srcwin |-> NoSrcwin, out |-> <<>>]
  BY DEF Init
<1>2. size \in Nat
  <2>1. AllocElts \in Nat /\ input.iopt_size \in Nat
    BY <1>1, IoptAssumption
  <2>. QED BY <2>1
<1>3. input.src \in Seq(Nat) /\ input.tgt \in Seq(Nat)
  BY <1>1, IoptAssumption
<1>4. Len(input.src) \in Nat /\ Len(input.tgt) \in Nat
  BY <1>3, LenProperties
<1>5. Gathering(iopt)
  <2>. DEFINE v == NoSrcwin
              o == <<>>
  <2>1. Open(v) /\ v \in SrcwinType
    BY NoSrcwinOpen DEF Open
  <2>2. o \in Seq(OutType) /\ o \in Seq(MatchType)
    OBVIOUS
  <2>3. iopt = [used |-> o, free |-> size, size |-> size, iout |-> NoInst,
                unencoded_offset |-> 0, srcwin |-> v, out |-> o]
    BY <1>1
  <2>. HIDE DEF v, o, size
  <2>4. iopt \in IoptType
    BY <1>2, <2>1, <2>2, <2>3 DEF IoptType
  <2>5. /\ iopt.used = o /\ iopt.free = iopt.size /\ iopt.iout = NoInst
        /\ iopt.out = o /\ iopt.unencoded_offset = 0 /\ iopt.srcwin = v
    BY <2>3
  <2>. QED BY <2>1, <2>4, <2>5, EmptyGathering DEF o
<1>6. iopt.used = <<>>
  BY <1>1
<1>7. MatchInv
  BY <1>1, <1>4 DEF MatchInv
<1>8. BufferInv
  BY <1>1, <1>4, <1>5, <1>6 DEF BufferInv
<1>. QED BY <1>7, <1>8 DEF IoptInv

\* A step that leaves the window alone.
LEMMA SameBuffer ==
  ASSUME BufferInv, UNCHANGED <<input, enc_state, total_in, avail_in, input_position,
                                min_match, run, iopt>>
  PROVE  BufferInv'
<1>1. /\ input' = input /\ enc_state' = enc_state /\ total_in' = total_in
      /\ avail_in' = avail_in /\ input_position' = input_position
      /\ min_match' = min_match /\ run' = run /\ iopt' = iopt
  OBVIOUS
<1>2. enc_state # "ENC_FLUSH" => Gathering(iopt)'
  <2>1. UNCHANGED <<input, total_in, avail_in>>
    BY <1>1
  <2>2. enc_state # "ENC_FLUSH" => Gathering(iopt')
    BY <1>1 DEF BufferInv
  <2>. QED BY <2>1, <2>2, SameWindow
<1>3. (enc_state = "LOOP" => Looking(iopt, input_position, min_match, run))'
  BY <1>1 DEF BufferInv, Looking, RunsTo, Tgt, Behind, LastMatched
<1>4. enc_state = "ENC_FLUSH" => Written'
  <2>. SUFFICES ASSUME Written PROVE Written'
    BY DEF BufferInv
  <2>1. PICK w : Encoded(iopt, w)
    BY DEF Written
  <2>2. Encoded(iopt, w)'
    <3>1. \A k \in 1 .. Len(iopt.out) : TrueOut(iopt.out[k], iopt.srcwin)'
      <4>. SUFFICES ASSUME NEW k \in 1 .. Len(iopt.out)
                    PROVE  TrueOut(iopt.out[k], iopt.srcwin)'
        OBVIOUS
      <4>1. TrueOut(iopt.out[k], iopt.srcwin)
        BY <2>1 DEF Encoded
      <4>. QED BY <4>1, <1>1 DEF TrueOut, Src, Tgt
    <3>2. SrcwinSetup(w, TRUE)' = SrcwinSetup(w, TRUE) /\ HasSource' = HasSource
      BY <1>1 DEF SrcwinSetup, HasSource
    <3>. HIDE DEF HasSource
    <3>. QED BY <3>1, <3>2, <2>1, <1>1 DEF Encoded
  <2>. QED BY <1>1, <2>2 DEF Written
<1>. QED BY <1>1, <1>2, <1>3, <1>4 DEF BufferInv, WindowAt

\* In every state, when the buffer grows.
GrowingInv == Unlimited => IoptInv

LEMMA StepInv ==
  ASSUME GrowingInv, [Next]_vars
  PROVE  GrowingInv'
<1>1. Unlimited' <=> Unlimited
  <2>1. input' = input
    BY DEF Next, Search, RunFound, SourceFound, TargetFound, NothingFound, Instr,
           NextWindow, vars
  <2>. QED BY <2>1 DEF Unlimited
<1>. SUFFICES ASSUME Unlimited, IoptInv PROVE IoptInv'
  BY <1>1 DEF GrowingInv
<1>2. CASE Search
  BY <1>2, SearchInv
<1>3. CASE RunFound
  BY <1>3, RunFoundInv
<1>4. CASE SourceFound
  BY <1>4, SourceFoundInv
<1>5. CASE TargetFound
  BY <1>5, TargetFoundInv
<1>6. CASE NothingFound
  BY <1>6, NothingFoundInv
<1>7. CASE Instr
  BY <1>7, InstrInv
<1>8. CASE NextWindow
  BY <1>8, NextWindowInv
<1>9. CASE UNCHANGED vars
  <2>1. BufferInv'
    BY <1>9, SameBuffer DEF IoptInv, vars
  <2>2. /\ input' = input /\ enc_state' = enc_state /\ total_in' = total_in
        /\ avail_in' = avail_in /\ match' = match
    BY <1>9 DEF vars
  <2>3. MatchInv'
    BY <2>2 DEF IoptInv, MatchInv, MatchKept, Src, Tgt
  <2>. QED BY <2>1, <2>3 DEF IoptInv
<1>. QED BY <1>2, <1>3, <1>4, <1>5, <1>6, <1>7, <1>8, <1>9 DEF Next

\* With a buffer that grows, at any time the buffer holds true matches in order
\* and nothing is encoded, or the window is output and everything is encoded.
THEOREM Growing == Spec => []GrowingInv
<1>1. Init => GrowingInv
  BY InitInv DEF GrowingInv
<1>2. GrowingInv /\ [Next]_vars => GrowingInv'
  BY StepInv
<1>. QED BY <1>1, <1>2, PTL DEF Spec

-----------------------------------------------------------------------------
(* The properties that TLC checks, for a buffer that grows.                *)

LEMMA NothingYet ==
  ASSUME Setting, Gathering(iopt)
  PROVE  /\ Rebuilt = Prefix(iopt.unencoded_offset)
         /\ iopt.unencoded_offset = 0 /\ Contiguous
<1>1. /\ iopt \in IoptType /\ iopt.out = <<>> /\ iopt.unencoded_offset = 0
      /\ Len(iopt.out) = 0
  BY DEF Gathering
<1>. DEFINE w == iopt.srcwin
<1>2. Encoded(iopt, w)
  BY <1>1 DEF Encoded
<1>. HIDE DEF w
<1>3. Rebuilt = Prefix(iopt.unencoded_offset)
  BY <1>1, <1>2, RebuiltIs
<1>. QED BY <1>1, <1>3 DEF Contiguous

LEMMA EncodesFact ==
  ASSUME BufferInv
  PROVE  EncodesWindow /\ Contiguous
<1>1. Setting
  BY WindowFits DEF BufferInv
<1>2. avail_in \in Nat
  BY <1>1, SettingTypes
<1>3. CASE enc_state # "ENC_FLUSH"
  <2>1. /\ Rebuilt = Prefix(iopt.unencoded_offset)
        /\ iopt.unencoded_offset = 0 /\ Contiguous
    BY <1>1, <1>3, NothingYet DEF BufferInv
  <2>. QED BY <1>2, <1>3, <2>1 DEF EncodesWindow, Prefix
<1>4. CASE enc_state = "ENC_FLUSH"
  <2>1. Written
    BY <1>4 DEF BufferInv
  <2>2. PICK w : Encoded(iopt, w)
    BY <2>1 DEF Written
  <2>3. iopt \in IoptType /\ iopt.unencoded_offset = avail_in
    BY <2>1 DEF Written
  <2>4. Rebuilt = Prefix(iopt.unencoded_offset)
    BY <1>1, <2>2, <2>3, RebuiltIs
  <2>5. Contiguous
    BY <2>2 DEF Encoded, Contiguous
  <2>. QED BY <1>2, <2>3, <2>4, <2>5 DEF EncodesWindow, Prefix
<1>. QED BY <1>3, <1>4

LEMMA BufferFact ==
  ASSUME BufferInv
  PROVE  BufferSound
<1>1. CASE enc_state # "ENC_FLUSH"
  <2>. DEFINE u == iopt.used
              w == iopt.srcwin
  <2>1. Gathering(iopt)
    BY <1>1 DEF BufferInv
  <2>2. /\ u \in Seq(Matches(w)) /\ Ordered(u) /\ NoneShort(u) /\ Open(w)
        /\ iopt.unencoded_offset = 0 /\ iopt.iout = NoInst
        /\ Len(u) + iopt.free = iopt.size /\ iopt.free >= 0
        /\ iopt.free \in Int
    BY <2>1 DEF Gathering, IoptType
  <2>3. Len(u) \in Nat
    BY <2>2, LenProperties
  <2>4. ASSUME NEW k \in 1 .. Len(u)
        PROVE  /\ u[k] \in Matches(w) /\ u[k].pos \in Nat /\ EndOf(u[k]) <= avail_in
               /\ u[k].size >= MIN_MATCH
               /\ k < Len(u) =>
                    u[k].pos < u[k + 1].pos /\ EndOf(u[k]) < EndOf(u[k + 1])
    <3>. HIDE DEF u, w
    <3>1. u[k] \in Matches(w)
      BY <2>2, ElementOfSeq
    <3>2. u[k].pos \in Nat /\ EndOf(u[k]) <= avail_in
      BY <3>1, MatchFields DEF Matches, IsMatch
    <3>3. k < Len(u) => k + 1 \in 1 .. Len(u) /\ k < k + 1
      BY <2>3
    <3>. QED BY <2>2, <3>1, <3>2, <3>3 DEF NoneShort, Ordered
  <2>5. Len(u) + iopt.free + (IF iopt.iout = NoInst THEN 0 ELSE 1) = iopt.size
    BY <2>2, <2>3
  <2>6. BufferSound
    BY <2>2, <2>4, <2>5 DEF BufferSound
  <2>. QED BY <2>6
<1>2. CASE enc_state = "ENC_FLUSH"
  <2>1. /\ iopt \in IoptType /\ iopt.used = <<>> /\ iopt.iout = NoInst
        /\ iopt.free = iopt.size /\ iopt.size \in Nat /\ Len(iopt.used) = 0
    BY <1>2 DEF BufferInv, Written, IoptType
  <2>. QED BY <2>1 DEF BufferSound
<1>. QED BY <1>1, <1>2

LEMMA MatchFact ==
  ASSUME IoptInv
  PROVE  MatchGoesOn
<1>. SUFFICES ASSUME enc_state = "ENC_SEARCH", match.state = "MATCH_TARGET",
                     HasSource, total_in > 0
              PROVE  /\ ~ Rejected(match.srcpos)
                     /\ match.srcpos > 0 /\ Src(match.srcpos - 1) = Tgt(-1)
  BY DEF MatchGoesOn
<1>1. MatchKept(match, 0)
  BY DEF IoptInv, MatchInv
<1>2. match.srcpos > 0 /\ match.srcpos # match.last
      /\ Src(match.srcpos - 1) = Tgt(0 - 1)
  BY <1>1 DEF MatchKept
<1>3. 0 - 1 = -1
  OBVIOUS
<1>4. ~ Rejected(match.srcpos)
  BY <1>2 DEF Rejected
<1>. QED BY <1>2, <1>3, <1>4

\* xd3_iopt_finish_encoding, xd3_srcwin_setup: for any files, any window size and
\* whatever matches are found, a decoder that is given the instructions written
\* so far and the source window rebuilds the window, byte for byte.
THEOREM AlwaysEncodesWindow == Spec => [](Unlimited => EncodesWindow)
<1>1. GrowingInv => (Unlimited => EncodesWindow)
  BY EncodesFact DEF GrowingInv, IoptInv
<1>. QED BY <1>1, Growing, PTL

\* The assertion of xd3_iopt_finish_encoding on unencoded_offset, which a buffer of
\* few slots violates, holds when the buffer grows: instructions follow each other.
THEOREM AlwaysContiguous == Spec => [](Unlimited => Contiguous)
<1>1. GrowingInv => (Unlimited => Contiguous)
  BY EncodesFact DEF GrowingInv, IoptInv
<1>. QED BY <1>1, Growing, PTL

\* xd3_found_match, xd3_iopt_erase: the buffer holds matches of at least MIN_MATCH
\* bytes in the order of their beginnings and of their ends, and every slot is in
\* one list.
THEOREM AlwaysBufferSound == Spec => [](Unlimited => BufferSound)
<1>1. GrowingInv => (Unlimited => BufferSound)
  BY BufferFact DEF GrowingInv, IoptInv
<1>. QED BY <1>1, Growing, PTL

\* A match that ends with a window goes on in the next one, at the byte after it.
THEOREM AlwaysGoesOn == Spec => [](Unlimited => MatchGoesOn)
<1>1. GrowingInv => (Unlimited => MatchGoesOn)
  BY MatchFact DEF GrowingInv
<1>. QED BY <1>1, Growing, PTL

-----------------------------------------------------------------------------
(* The source window, for a buffer of any size, greedy or not.  Only what  *)
(* a match needs of the source is kept in mind, whatever the order of the  *)
(* matches.                                                                *)

\* What a buffer can hold, of input inp: the bytes, the instructions (xtra of a
\* run is its byte) and the source window.
Values(inp)  == {inp.tgt[q] : q \in Int} \cup {0, 1}
Item(inp)   == [type : {ADD, RUN, CPY}, pos : Int, size : Nat, addr : Int,
                xtra : Values(inp)]
Output(inp) == [type : {ADD, RUN, CPY}, pos : Int, size : Nat, addr : Int,
                data : Seq(Values(inp))]
Coverage    == [decided : BOOLEAN, srcbase : Nat, srclen : Int,
                minaddr : Nat, maxaddr : Nat]
Buffer(inp) == [used : Seq(Item(inp)), free : Int, size : Nat,
                iout : Item(inp) \cup {NoInst}, unencoded_offset : Int,
                srcwin : Coverage, out : Seq(Output(inp))]
RunType(inp) == [l : Int, c : Values(inp)]

\* The matches that the source window w has room for.
Within(inp, i, w) ==
  i.type = CPY /\ i.xtra = 1 =>
    /\ w.minaddr <= i.addr /\ i.addr + i.size <= w.maxaddr
    /\ i.addr + i.size <= Len(inp.src)
    /\ w.decided => w.srcbase <= i.addr /\ i.addr + i.size <= w.srcbase + w.srclen
Fitting(inp, w) ==
  {i \in Item(inp) : i.type # ADD /\ i.size >= 1 /\ Within(inp, i, w)}

Known == input \in Inputs /\ total_in \in Int /\ avail_in \in Int

LEMMA KnownLength ==
  ASSUME Known
  PROVE  Len(input.src) \in Nat /\ Len(input.tgt) \in Nat /\ input.winsize \in Nat
<1>1. input.src \in Seq(Nat) /\ input.tgt \in Seq(Nat) /\ input.winsize \in Nat
  BY IoptAssumption DEF Known
<1>. QED BY <1>1, LenProperties

LEMMA KnownByte ==
  ASSUME Known, NEW p \in Int
  PROVE  Tgt(p) \in Values(input)
<1>1. total_in + p + 1 \in Int
  BY DEF Known
<1>. QED BY <1>1 DEF Tgt, Values

LEMMA SeqMore ==
  ASSUME NEW A, NEW B, A \subseteq B, NEW s \in Seq(A)
  PROVE  s \in Seq(B)
<1>1. Len(s) \in Nat /\ s \in [1 .. Len(s) -> A]
  BY LenProperties
<1>2. s \in [1 .. Len(s) -> B]
  BY <1>1
<1>. QED BY <1>1, <1>2, SeqDef

\* A step of a set to itself can be repeated with a count: the recursive
\* functions of the module exist ...
Counts(f, b, step, n) ==
  f[0] = b /\ \A k \in 1 .. n : f[k] = step[<<k, f[k - 1]>>]

LEMMA Counted ==
  ASSUME NEW T, NEW b \in T, NEW n \in Nat, NEW step \in [(1 .. n) \X T -> T]
  PROVE  \E f \in [0 .. n -> T] : Counts(f, b, step, n)
<1>. DEFINE Is(f, m) == Counts(f, b, step, m)
            S == {m \in Nat : m <= n => \E f \in [0 .. m -> T] : Is(f, m)}
<1>1. 0 \in S
  <2>1. [k \in 0 .. 0 |-> b] \in [0 .. 0 -> T] /\ Is([k \in 0 .. 0 |-> b], 0)
    BY DEF Counts
  <2>. QED BY <2>1
<1>2. ASSUME NEW m \in Nat, m \in S PROVE m + 1 \in S
  <2>. SUFFICES ASSUME m + 1 <= n PROVE \E f \in [0 .. m + 1 -> T] : Is(f, m + 1)
    OBVIOUS
  <2>1. PICK f \in [0 .. m -> T] : Is(f, m)
    BY <1>2
  <2>1a. step[<<m + 1, f[m]>>] \in T
    <3>1. m + 1 \in 1 .. n /\ f[m] \in T
      OBVIOUS
    <3>. QED BY <3>1
  <2>. DEFINE g == [k \in 0 .. m + 1 |-> IF k = m + 1 THEN step[<<m + 1, f[m]>>] ELSE f[k]]
  <2>2. g \in [0 .. m + 1 -> T]
    BY <2>1a
  <2>3. \A k \in 0 .. m : g[k] = f[k]
    OBVIOUS
  <2>4. g[m + 1] = step[<<m + 1, f[m]>>]
    OBVIOUS
  <2>. HIDE DEF g
  <2>5. Is(g, m + 1)
    <3>1. g[0] = b
      BY <2>1, <2>3 DEF Counts
    <3>2. ASSUME NEW k \in 1 .. m + 1 PROVE g[k] = step[<<k, g[k - 1]>>]
      <4>1. CASE k = m + 1
        BY <4>1, <2>3, <2>4
      <4>2. CASE k # m + 1
        <5>1. k \in 1 .. m /\ k - 1 \in 0 .. m /\ k \in 0 .. m
          BY <4>2
        <5>2. f[k] = step[<<k, f[k - 1]>>]
          BY <2>1, <5>1 DEF Counts
        <5>. QED BY <5>1, <5>2, <2>3
      <4>. QED BY <4>1, <4>2
    <3>. QED BY <3>1, <3>2 DEF Counts
  <2>. QED BY <2>2, <2>5
<1>. HIDE DEF S
<1>3. n \in S
  BY <1>1, <1>2, NatSets
<1>. QED BY <1>3 DEF S

\* ... and stay in it.
Stays(g, T, n) == g[0] \in T /\ \A k \in 1 .. n : g[k - 1] \in T => g[k] \in T

LEMMA StepsStayIn ==
  ASSUME NEW T, NEW n \in Nat, NEW g, Stays(g, T, n)
  PROVE  g[n] \in T
<1>. DEFINE S == {k \in Nat : k <= n => g[k] \in T}
<1>1. 0 \in S
  BY DEF Stays
<1>2. ASSUME NEW k \in Nat, k \in S PROVE k + 1 \in S
  <2>. SUFFICES ASSUME k + 1 <= n PROVE g[k + 1] \in T
    OBVIOUS
  <2>1. k <= n /\ k + 1 \in 1 .. n /\ (k + 1) - 1 = k
    OBVIOUS
  <2>. QED BY <1>2, <2>1 DEF Stays
<1>. HIDE DEF S
<1>3. n \in S
  BY <1>1, <1>2, NatSets
<1>. QED BY <1>3 DEF S

-----------------------------------------------------------------------------
(* The cuts.                                                               *)

LEMMA FittingFields ==
  ASSUME NEW inp, NEW w, NEW i \in Fitting(inp, w)
  PROVE  /\ i \in Item(inp) /\ i.type \in {RUN, CPY} /\ i.type # ADD
         /\ i.pos \in Int /\ i.size \in Nat /\ i.size >= 1 /\ i.addr \in Int
         /\ i.xtra \in Values(inp) /\ EndOf(i) = i.pos + i.size /\ EndOf(i) \in Int
         /\ Within(inp, i, w)
BY DEF Fitting, Item, EndOf

\* A match without its last c bytes, and without its first, needs no more room.
LEMMA EndCut ==
  ASSUME NEW inp, Len(inp.src) \in Nat, NEW w \in Coverage,
         NEW i \in Fitting(inp, w), NEW c \in Nat, c < i.size
  PROVE  [i EXCEPT !.size = @ - c] \in Fitting(inp, w)
<1>. DEFINE s == i.size - c
            t == [i EXCEPT !.size = s]
<1>1. s \in Nat /\ s >= 1 /\ s <= i.size
  BY FittingFields
<1>. HIDE DEF s, t
<1>2. /\ t \in Item(inp) /\ t.type = i.type /\ t.addr = i.addr /\ t.xtra = i.xtra
      /\ t.size = s
  <2>1. i \in Item(inp)
    BY FittingFields
  <2>. QED BY <1>1, <2>1 DEF Item, t
<1>3. Within(inp, t, w)
  <2>. SUFFICES ASSUME t.type = CPY, t.xtra = 1
                PROVE  /\ w.minaddr <= t.addr /\ t.addr + t.size <= w.maxaddr
                       /\ t.addr + t.size <= Len(inp.src)
                       /\ w.decided => /\ w.srcbase <= t.addr
                                       /\ t.addr + t.size <= w.srcbase + w.srclen
    BY DEF Within
  <2>1. /\ w.minaddr <= i.addr /\ i.addr + i.size <= w.maxaddr
        /\ i.addr + i.size <= Len(inp.src)
        /\ w.decided => /\ w.srcbase <= i.addr
                        /\ i.addr + i.size <= w.srcbase + w.srclen
    BY <1>2, FittingFields DEF Within
  <2>2. /\ w.maxaddr \in Int /\ w.srcbase \in Int /\ w.srclen \in Int /\ i.addr \in Int
        /\ i.size \in Int
    BY FittingFields DEF Coverage
  <2>. QED BY <1>1, <1>2, <2>1, <2>2
<1>4. t \in Fitting(inp, w)
  BY <1>1, <1>2, <1>3, FittingFields DEF Fitting
<1>. QED BY <1>4 DEF t, s

LEMMA FrontCut ==
  ASSUME NEW inp, Len(inp.src) \in Nat, NEW w \in Coverage,
         NEW i \in Fitting(inp, w), NEW c \in Nat, c < i.size
  PROVE  [i EXCEPT !.pos = @ + c, !.size = @ - c, !.addr = @ + c] \in Fitting(inp, w)
<1>. DEFINE p == i.pos + c
            s == i.size - c
            a == i.addr + c
            t == [i EXCEPT !.pos = p, !.size = s, !.addr = a]
<1>1. s \in Nat /\ s >= 1 /\ p \in Int /\ a \in Int /\ a + s = i.addr + i.size /\ i.addr <= a
  BY FittingFields
<1>. HIDE DEF p, s, a, t
<1>2. /\ t \in Item(inp) /\ t.type = i.type /\ t.addr = a /\ t.xtra = i.xtra
      /\ t.size = s
  <2>1. i \in Item(inp)
    BY FittingFields
  <2>. QED BY <1>1, <2>1 DEF Item, t
<1>3. Within(inp, t, w)
  <2>. SUFFICES ASSUME t.type = CPY, t.xtra = 1
                PROVE  /\ w.minaddr <= t.addr /\ t.addr + t.size <= w.maxaddr
                       /\ t.addr + t.size <= Len(inp.src)
                       /\ w.decided => /\ w.srcbase <= t.addr
                                       /\ t.addr + t.size <= w.srcbase + w.srclen
    BY DEF Within
  <2>1. /\ w.minaddr <= i.addr /\ i.addr + i.size <= w.maxaddr
        /\ i.addr + i.size <= Len(inp.src)
        /\ w.decided => /\ w.srcbase <= i.addr
                        /\ i.addr + i.size <= w.srcbase + w.srclen
    BY <1>2, FittingFields DEF Within
  <2>2. /\ w.maxaddr \in Int /\ w.minaddr \in Int /\ w.srcbase \in Int /\ w.srclen \in Int
        /\ i.addr \in Int /\ i.size \in Int
    BY FittingFields DEF Coverage
  <2>. QED BY <1>1, <1>2, <2>1, <2>2
<1>4. t \in Fitting(inp, w)
  BY <1>1, <1>2, <1>3, FittingFields DEF Fitting
<1>. QED BY <1>4 DEF t, s, p, a

LEMMA ShortenFits ==
  ASSUME NEW inp, Len(inp.src) \in Nat, NEW w \in Coverage,
         NEW u \in Seq(Fitting(inp, w)), NEW i \in Nat \ {0}, i < Len(u),
         EndOf(u[i]) > u[i + 1].pos,
         EndOf(u[i + 1]) - EndOf(u[i]) > 2, u[i + 1].pos - u[i].pos > 2
  PROVE  Shorten(u, i) \in Seq(Fitting(inp, w))
<1>. DEFINE S == Fitting(inp, w)
            r1 == u[i]
            r2 == u[i + 1]
            overlap == EndOf(r1) - r2.pos
            gap     == EndOf(r2) - r1.pos
            newsize == Lesser(MaxMatchSplit, gap - gap \div 2)
            cut1    == CutOf(r1.size, r2.size, overlap, newsize)
            cut2    == overlap - cut1
            s1 == [r1 EXCEPT !.size = @ - cut1]
            s2 == [r2 EXCEPT !.pos = @ + cut2, !.size = @ - cut2, !.addr = @ + cut2]
<1>1. Len(u) \in Nat /\ i \in 1 .. Len(u) /\ i + 1 \in 1 .. Len(u)
  OBVIOUS
<1>2. r1 \in S /\ r2 \in S
  <2>1. r1 \in Fitting(inp, w) /\ r2 \in Fitting(inp, w)
    BY <1>1, ElementOfSeq
  <2>. QED BY <2>1
<1>3. /\ r1.pos \in Int /\ r1.size \in Nat /\ r2.pos \in Int /\ r2.size \in Nat
      /\ EndOf(r1) = r1.pos + r1.size /\ EndOf(r2) = r2.pos + r2.size
  BY <1>2, FittingFields
<1>4. EndOf(r1) > r2.pos /\ EndOf(r2) - EndOf(r1) > 2 /\ r2.pos - r1.pos > 2
  OBVIOUS
<1>5. Shorten(u, i) = [u EXCEPT ![i] = s1, ![i + 1] = s2]
  BY DEF Shorten, CutOf
<1>. HIDE DEF S, r1, r2
<1>6. /\ overlap \in Nat /\ overlap < r1.size /\ overlap < r2.size
      /\ gap \in Nat /\ gap = r1.size + r2.size - overlap /\ gap >= 4
  <2>1. PICK p \in Int, a \in Nat, q \in Int, b \in Nat :
          r1.pos = p /\ r1.size = a /\ r2.pos = q /\ r2.size = b
    BY <1>3
  <2>2. EndOf(r1) = p + a /\ EndOf(r2) = q + b
    BY <1>3, <2>1
  <2>3. p + a > q /\ (q + b) - (p + a) > 2 /\ q - p > 2
    BY <1>4, <2>1, <2>2
  <2>4. overlap = (p + a) - q /\ gap = (q + b) - p
    BY <2>1, <2>2
  <2>. HIDE DEF overlap, gap
  <2>. QED BY <2>1, <2>3, <2>4
<1>. HIDE DEF overlap, gap
<1>7. newsize \in Nat /\ newsize >= 1 /\ newsize < gap
  <2>1. MaxMatchSplit \in Nat /\ MaxMatchSplit >= 1
    BY IoptAssumption
  <2>2. PICK h \in Nat : h = gap - gap \div 2
    BY <1>6
  <2>3. h >= 1 /\ h < gap
    BY <2>2, <1>6
  <2>. QED BY <2>1, <2>2, <2>3, <1>6 DEF Lesser
<1>. HIDE DEF newsize
<1>8. /\ cut1 \in Nat /\ cut1 <= overlap /\ cut1 < r1.size
      /\ overlap - cut1 < r2.size
  BY <1>3, <1>6, <1>7, CutArithmetic
<1>. HIDE DEF cut1
<1>9. cut2 \in Nat /\ cut2 < r2.size
  BY <1>6, <1>8
<1>. HIDE DEF cut2
<1>10. s1 \in S /\ s2 \in S
  BY <1>2, <1>8, <1>9, EndCut, FrontCut DEF S
<1>. HIDE DEF s1, s2
<1>11. [u EXCEPT ![i] = s1] \in Seq(S) /\ Len([u EXCEPT ![i] = s1]) = Len(u)
  BY <1>1, <1>10, ExceptSeq DEF S
<1>. DEFINE t == [u EXCEPT ![i] = s1]
<1>12. [t EXCEPT ![i + 1] = s2] \in Seq(S)
  <2>. HIDE DEF t
  <2>1. t \in Seq(S) /\ i + 1 \in 1 .. Len(t)
    BY <1>1, <1>11 DEF t
  <2>. QED BY <2>1, <1>10, ExceptSeq
<1>. QED BY <1>5, <1>12 DEF S

\* The state of the loop, whatever the order.
LoopState(inp, w) == [list : Seq(Fitting(inp, w)), i : Nat \ {0}]

LEMMA LoopStateIs ==
  ASSUME NEW inp, NEW w, NEW u \in Seq(Fitting(inp, w)), NEW i \in Nat \ {0}
  PROVE  [list |-> u, i |-> i] \in LoopState(inp, w)
BY DEF LoopState

LEMMA StepFits ==
  ASSUME NEW inp, Len(inp.src) \in Nat, NEW w \in Coverage, NEW force,
         NEW q \in LoopState(inp, w)
  PROVE  OptimizeStep(q, force) \in LoopState(inp, w)
<1>. DEFINE u == q.list
            i == q.i
<1>1. u \in Seq(Fitting(inp, w)) /\ i \in Nat \ {0} /\ q = [list |-> u, i |-> i]
      /\ i + 1 \in Nat \ {0} /\ Len(u) \in Nat
  BY DEF LoopState
<1>2. CASE i >= Len(u)
  BY <1>2 DEF OptimizeStep
<1>3. CASE ~ (i >= Len(u)) /\ EndOf(u[i]) <= u[i + 1].pos
  <2>1. OptimizeStep(q, force) = [q EXCEPT !.i = i + 1]
    BY <1>3, Zenon DEF OptimizeStep
  <2>2. [q EXCEPT !.i = i + 1] = [list |-> u, i |-> i + 1]
    BY <1>1
  <2>. HIDE DEF u, i
  <2>. QED BY <1>1, <2>1, <2>2, LoopStateIs
<1>4. CASE ~ (i >= Len(u)) /\ ~ (EndOf(u[i]) <= u[i + 1].pos)
  <2>1. OptimizeStep(q, force) = OptimizeOverlap(u, i, force)
    BY <1>4, Zenon DEF OptimizeStep
  <2>. HIDE DEF u, i
  <2>2. i \in 1 .. Len(u) /\ i + 1 \in 1 .. Len(u) /\ i < Len(u)
    BY <1>1, <1>4
  <2>3. RemoveAt(u, i) \in Seq(Fitting(inp, w)) /\ RemoveAt(u, i + 1) \in Seq(Fitting(inp, w))
    BY <1>1, <2>2, RemoveAtFacts
  <2>4. u[i] \in Fitting(inp, w) /\ u[i + 1] \in Fitting(inp, w)
    BY <1>1, <2>2, ElementOfSeq
  <2>5. /\ EndOf(u[i]) \in Int /\ EndOf(u[i + 1]) \in Int
        /\ u[i].pos \in Int /\ u[i + 1].pos \in Int
    BY <2>4, FittingFields
  <2>. DEFINE short == \/ EndOf(u[i + 1]) - u[i].pos < 2 * MIN_MATCH
                       \/ EndOf(u[i + 1]) - EndOf(u[i]) <= 2
                       \/ u[i + 1].pos - u[i].pos <= 2
  <2>6. ASSUME ~ short PROVE Shorten(u, i) \in Seq(Fitting(inp, w))
    <3>1. /\ EndOf(u[i]) > u[i + 1].pos
          /\ EndOf(u[i + 1]) - EndOf(u[i]) > 2 /\ u[i + 1].pos - u[i].pos > 2
      BY <1>4, <2>5, <2>6
    <3>. QED BY <1>1, <2>2, <3>1, ShortenFits
  <2>. DEFINE r == OptimizeOverlap(u, i, force)
  <2>7. \/ r = [list |-> RemoveAt(u, i + 1), i |-> i]
        \/ r = [list |-> u, i |-> i]
        \/ r = [list |-> RemoveAt(u, i), i |-> i]
        \/ r = [list |-> RemoveAt(u, i + 1), i |-> i + 1]
        \/ ~ short /\ r = [list |-> Shorten(u, i), i |-> i + 1]
    <3>. DEFINE near == i + 2 <= Len(u) /\ u[i + 2].pos <= EndOf(u[i]) + 1
                waits == ~ (i + 2 <= Len(u)) /\ ~ force
    <3>1. r = IF near THEN [list |-> RemoveAt(u, i + 1), i |-> i]
              ELSE IF waits THEN [list |-> u, i |-> i]
              ELSE IF short
              THEN IF u[i].size < u[i + 1].size
                   THEN [list |-> RemoveAt(u, i), i |-> i]
                   ELSE [list |-> RemoveAt(u, i + 1), i |-> i + 1]
              ELSE [list |-> Shorten(u, i), i |-> i + 1]
      BY DEF OptimizeOverlap
    <3>. HIDE DEF r, near, waits, short
    <3>. QED BY <3>1
  <2>. HIDE DEF short, r
  <2>8. /\ [list |-> RemoveAt(u, i + 1), i |-> i] \in LoopState(inp, w)
        /\ [list |-> u, i |-> i] \in LoopState(inp, w)
        /\ [list |-> RemoveAt(u, i), i |-> i] \in LoopState(inp, w)
        /\ [list |-> RemoveAt(u, i + 1), i |-> i + 1] \in LoopState(inp, w)
        /\ ~ short => [list |-> Shorten(u, i), i |-> i + 1] \in LoopState(inp, w)
    BY <1>1, <2>3, <2>6, LoopStateIs
  <2>. QED BY <2>1, <2>7, <2>8 DEF r
<1>. QED BY <1>2, <1>3, <1>4

LoopFrom(list, force, n, g) ==
  g = [k \in 0 .. n |-> IF k = 0 THEN [list |-> list, i |-> 1]
                        ELSE OptimizeStep(g[k - 1], force)]

\* Dropping and cutting asks for no more of the source.
LEMMA OptimizeFits ==
  ASSUME NEW inp, Len(inp.src) \in Nat, NEW w \in Coverage, NEW force,
         NEW u \in Seq(Fitting(inp, w))
  PROVE  Optimize(u, force) \in Seq(Fitting(inp, w))
<1>. DEFINE n == 2 * Len(u)
            T == LoopState(inp, w)
            b == [list |-> u, i |-> 1]
            step == [p \in (1 .. n) \X T |-> OptimizeStep(p[2], force)]
            g == CHOOSE f : LoopFrom(u, force, n, f)
<1>1. Len(u) \in Nat /\ n \in Nat
  OBVIOUS
<1>2. b \in T
  BY LoopStateIs
<1>3. step \in [(1 .. n) \X T -> T]
  <2>1. ASSUME NEW p \in (1 .. n) \X T PROVE OptimizeStep(p[2], force) \in T
    <3>1. p[2] \in T
      OBVIOUS
    <3>. QED BY <3>1, StepFits
  <2>. QED BY <2>1
<1>. HIDE DEF n, T, g
<1>4. PICK f \in [0 .. n -> T] : Counts(f, b, step, n)
  <2>. HIDE DEF b, step
  <2>. QED BY <1>1, <1>2, <1>3, Counted
<1>5. ASSUME NEW k \in 0 .. n
      PROVE  f[k] = IF k = 0 THEN b ELSE OptimizeStep(f[k - 1], force)
  <2>1. CASE k = 0
    BY <2>1, <1>4 DEF Counts
  <2>2. CASE k # 0
    <3>1. k \in 1 .. n /\ k - 1 \in 0 .. n
      BY <1>1, <2>2
    <3>2. f[k] = step[<<k, f[k - 1]>>] /\ f[k - 1] \in T
      BY <3>1, <1>4 DEF Counts
    <3>. QED BY <2>2, <3>1, <3>2
  <2>. QED BY <2>1, <2>2
<1>6. LoopFrom(u, force, n, f)
  <2>1. f = [k \in 0 .. n |-> f[k]]
    OBVIOUS
  <2>2. f = [k \in 0 .. n |-> IF k = 0 THEN b ELSE OptimizeStep(f[k - 1], force)]
    <3>. HIDE DEF b, step
    <3>. QED BY <1>5, <2>1
  <2>. QED BY <2>2 DEF LoopFrom
<1>7. LoopFrom(u, force, n, g)
  <2>. HIDE DEF b, step
  <2>. QED BY <1>6 DEF g
<1>8. Stays(g, T, n)
  <2>1. g[0] = b
    BY <1>1, <1>7 DEF LoopFrom
  <2>2. ASSUME NEW k \in 1 .. n, g[k - 1] \in T PROVE g[k] \in T
    <3>1. g[k] = OptimizeStep(g[k - 1], force)
      BY <1>1, <1>7 DEF LoopFrom
    <3>. QED BY <2>2, <3>1, StepFits DEF T
  <2>. QED BY <1>2, <2>1, <2>2 DEF Stays
<1>9. g[n] \in T
  BY <1>1, <1>8, StepsStayIn
<1>10. Optimize(u, force) = g[n].list
  BY DEF Optimize, LoopFrom, g, n
<1>. QED BY <1>9, <1>10 DEF T, LoopState

-----------------------------------------------------------------------------
(* Encoding decides the source window, and the window keeps what is held.  *)

LEMMA SetupCovers ==
  ASSUME Known, NEW w \in Coverage, ~ w.decided, NEW last
  PROVE  LET v == SrcwinSetup(w, last)
         IN  v \in Coverage /\ Fitting(input, w) \subseteq Fitting(input, v)
<1>. DEFINE v == SrcwinSetup(w, last)
            length == w.maxaddr - w.minaddr
            guess  == Greater(length, avail_in + avail_in \div 4)
            srclen == IF last THEN length
                      ELSE IF input.eof_known
                      THEN Lesser(guess, Len(input.src) - w.minaddr) ELSE guess
            none == last /\ w.maxaddr = 0
<1>1. /\ w.maxaddr \in Nat /\ w.minaddr \in Nat /\ w.srcbase \in Nat /\ w.srclen \in Int
      /\ w.decided \in BOOLEAN /\ Len(input.src) \in Nat /\ avail_in \in Int
  BY KnownLength DEF Coverage, Known
<1>2. v = IF none THEN [w EXCEPT !.decided = TRUE]
          ELSE [w EXCEPT !.decided = TRUE, !.srcbase = w.minaddr, !.srclen = srclen]
  BY DEF SrcwinSetup
<1>3. length \in Int /\ guess \in Int /\ length <= guess
  <2>1. PICK h \in Int : h = avail_in + avail_in \div 4
    BY <1>1
  <2>. QED BY <1>1, <2>1 DEF Greater
<1>. HIDE DEF guess
<1>4. srclen \in Int /\ (length <= srclen \/ Len(input.src) - w.minaddr <= srclen)
  BY <1>1, <1>3 DEF Lesser
<1>. HIDE DEF srclen, none, v
<1>5. /\ v \in Coverage /\ v.minaddr = w.minaddr /\ v.maxaddr = w.maxaddr
      /\ ~ none => v.srcbase = w.minaddr /\ v.srclen = srclen
  BY <1>1, <1>2, <1>4 DEF Coverage
<1>6. ASSUME NEW i \in Fitting(input, w) PROVE i \in Fitting(input, v)
  <2>1. i \in Item(input) /\ i.type # ADD /\ i.size \in Nat /\ i.size >= 1 /\ i.addr \in Int
    BY FittingFields
  <2>2. Within(input, i, v)
    <3>. SUFFICES ASSUME i.type = CPY, i.xtra = 1
                  PROVE  /\ v.minaddr <= i.addr /\ i.addr + i.size <= v.maxaddr
                         /\ i.addr + i.size <= Len(input.src)
                         /\ v.decided => /\ v.srcbase <= i.addr
                                         /\ i.addr + i.size <= v.srcbase + v.srclen
      BY DEF Within
    <3>1. /\ w.minaddr <= i.addr /\ i.addr + i.size <= w.maxaddr
          /\ i.addr + i.size <= Len(input.src)
      BY FittingFields DEF Within
    <3>2. ~ none
      <4>1. w.maxaddr # 0
        BY <1>1, <2>1, <3>1
      <4>. QED BY <4>1 DEF none
    <3>3. v.srcbase = w.minaddr /\ v.srclen = srclen
      BY <3>2, <1>5
    <3>4. i.addr + i.size <= w.minaddr + srclen
      BY <1>1, <1>4, <2>1, <3>1
    <3>. QED BY <1>1, <1>5, <2>1, <3>1, <3>3, <3>4
  <2>. QED BY <2>1, <2>2 DEF Fitting
<1>. QED BY <1>5, <1>6 DEF v

\* A buffer e that becomes r: what is held, and what r's source window covers.
Onwards(e, r) ==
  /\ r \in Buffer(input) /\ r.used = e.used
  /\ Fitting(input, e.srcwin) \subseteq Fitting(input, r.srcwin)

WindowThen(e, i, last) == IF i.type = CPY /\ HasSource /\ ~ e.srcwin.decided
                          THEN SrcwinSetup(e.srcwin, last) ELSE e.srcwin

LEMMA InstructionIs ==
  ASSUME Known, NEW v \in Coverage, NEW i \in Item(input)
  PROVE  Instruction(i, v) \in Output(input)
<1>1. /\ i.type \in {ADD, RUN, CPY} /\ i.pos \in Int /\ i.size \in Nat /\ i.addr \in Int
      /\ i.xtra \in Values(input)
  BY DEF Item
<1>2. AddrOf(i, v) \in Int
  <2>1. v.srcbase \in Int /\ v.srclen \in Int
    BY DEF Coverage
  <2>. QED BY <1>1, <2>1 DEF AddrOf
<1>3. ADD # CPY /\ RUN # CPY /\ ADD # RUN
  BY DEF ADD, RUN, CPY
<1>4. DataOf(i) \in Seq(Values(input))
  <2>. DEFINE B == Values(input)
  <2>1. CASE i.type = CPY
    <3>1. DataOf(i) = <<>>
      BY <1>3, <2>1 DEF DataOf
    <3>. HIDE DEF B
    <3>2. <<>> \in Seq(B)
      OBVIOUS
    <3>. QED BY <3>1, <3>2 DEF B
  <2>2. CASE i.type = RUN
    <3>. DEFINE x == i.xtra
    <3>1. DataOf(i) = <<x>> /\ x \in B
      BY <1>1, <1>3, <2>2 DEF DataOf
    <3>. HIDE DEF B, x
    <3>2. x \in B => <<x>> \in Seq(B)
      OBVIOUS
    <3>3. <<x>> \in Seq(B)
      BY <3>1, <3>2
    <3>. QED BY <3>1, <3>3 DEF B
  <2>3. CASE i.type = ADD
    <3>. DEFINE n == i.size
                f == [k \in 1 .. n |-> Tgt(i.pos + k - 1)]
    <3>1. DataOf(i) = f
      BY <1>3, <2>3 DEF DataOf
    <3>2. ASSUME NEW k \in 1 .. n PROVE Tgt(i.pos + k - 1) \in B
      <4>1. i.pos + k - 1 \in Int
        BY <1>1
      <4>. QED BY <4>1, KnownByte
    <3>. HIDE DEF B
    <3>3. f \in [1 .. n -> B]
      BY <3>2
    <3>4. n \in Nat
      BY <1>1
    <3>. HIDE DEF f, n
    <3>5. f \in Seq(B)
      BY <3>3, <3>4, SeqDef
    <3>. QED BY <3>1, <3>5 DEF B
  <2>. QED BY <1>1, <2>1, <2>2, <2>3
<1>5. Instruction(i, v) = [type |-> i.type, pos |-> i.pos, size |-> i.size,
                           addr |-> AddrOf(i, v), data |-> DataOf(i)]
  BY DEF Instruction
<1>. QED BY <1>1, <1>2, <1>4, <1>5 DEF Output

LEMMA FinishCovers ==
  ASSUME Known, NEW e \in Buffer(input), NEW i \in Item(input), NEW last
  PROVE  Onwards(e, FinishEncoding(e, i, last))
<1>. DEFINE v == WindowThen(e, i, last)
            o == Instruction(i, v)
            r == FinishEncoding(e, i, last)
            paired == e.iout # NoInst /\ PairCode(Coded(e.iout), Coded(i)) # NoCode
            iout == IF paired THEN NoInst ELSE i
            free == e.free + (IF e.iout = NoInst THEN 0 ELSE Slot(e.iout))
                           + (IF paired THEN Slot(i) ELSE 0)
            offset == e.unencoded_offset + i.size
            out == Append(e.out, o)
<1>1. r = [e EXCEPT !.srcwin = v, !.unencoded_offset = offset,
             !.out = out, !.iout = iout, !.free = free]
  BY DEF FinishEncoding, WindowThen, Instruction, AddrOf, DataOf
<1>2. /\ e.free \in Int /\ e.unencoded_offset \in Int /\ e.out \in Seq(Output(input))
      /\ e.srcwin \in Coverage /\ i.size \in Nat
  BY DEF Buffer, Item
<1>3. v \in Coverage /\ Fitting(input, e.srcwin) \subseteq Fitting(input, v)
  BY <1>2, SetupCovers DEF WindowThen
<1>4. Slot(i) \in {0, 1} /\ Slot(e.iout) \in {0, 1}
  BY DEF Slot
<1>. HIDE DEF v
<1>5. o \in Output(input)
  BY <1>3, InstructionIs
<1>. HIDE DEF o, r, paired
<1>6. free \in Int /\ offset \in Int /\ iout \in Item(input) \cup {NoInst}
  BY <1>2, <1>4
<1>7. out \in Seq(Output(input))
  <2>. DEFINE S == Output(input)
  <2>. HIDE DEF S
  <2>1. e.out \in Seq(S) /\ o \in S
    BY <1>2, <1>5 DEF S
  <2>2. out \in Seq(S)
    BY <2>1
  <2>. QED BY <2>2 DEF S
<1>. HIDE DEF free, offset, iout, out
<1>8. r \in Buffer(input) /\ r.used = e.used /\ r.srcwin = v
  BY <1>1, <1>3, <1>6, <1>7 DEF Buffer
<1>. QED BY <1>3, <1>8 DEF Onwards, r

LEMMA AddUpToCovers ==
  ASSUME Known, NEW e \in Buffer(input), NEW pos \in Int, NEW last
  PROVE  Onwards(e, AddUpTo(e, pos, last))
<1>. DEFINE off == e.unencoded_offset
            size == pos - off
            i == [type |-> ADD, pos |-> off, size |-> size, addr |-> 0, xtra |-> 0]
<1>1. off \in Int
  BY DEF Buffer
<1>2. CASE pos > off
  <2>1. AddUpTo(e, pos, last) = FinishEncoding(e, i, last)
    BY <1>2 DEF AddUpTo
  <2>2. size \in Nat /\ 0 \in Values(input)
    BY <1>1, <1>2 DEF Values
  <2>. HIDE DEF off, size
  <2>3. i \in Item(input)
    BY <1>1, <2>2 DEF Item
  <2>. QED BY <2>1, <2>3, FinishCovers
<1>3. CASE ~ (pos > off)
  BY <1>3 DEF AddUpTo, Onwards
<1>. QED BY <1>2, <1>3

LEMMA AddEncodingCovers ==
  ASSUME Known, NEW e \in Buffer(input), NEW i \in Item(input), NEW last
  PROVE  Onwards(e, AddEncoding(e, i, last))
<1>. DEFINE q == AddUpTo(e, i.pos, last)
<1>1. i.pos \in Int
  BY DEF Item
<1>2. Onwards(e, q)
  BY <1>1, AddUpToCovers
<1>. HIDE DEF q
<1>3. q \in Buffer(input)
  BY <1>2 DEF Onwards
<1>4. Onwards(q, FinishEncoding(q, i, last))
  BY <1>3, FinishCovers
<1>5. Onwards(e, FinishEncoding(q, i, last))
  BY <1>2, <1>4 DEF Onwards
<1>. QED BY <1>5 DEF AddEncoding, q

LEMMA OnwardsMore ==
  ASSUME NEW e, NEW q, NEW r, Onwards(e, q), Onwards(q, r)
  PROVE  Onwards(e, r)
BY DEF Onwards

EmptyingFrom(list, rest, force, n, g) ==
  g = [k \in 0 .. n |-> IF k = 0 THEN rest ELSE AddEncoding(g[k - 1], list[k], force)]

LEMMA EmptyingCovers ==
  ASSUME Known, NEW list \in Seq(Item(input)), NEW rest \in Buffer(input), NEW force,
         NEW n \in Nat, n <= Len(list)
  PROVE  LET g == CHOOSE f : EmptyingFrom(list, rest, force, n, f)
         IN  Onwards(rest, g[n])
<1>. DEFINE T == {r \in Buffer(input) : Onwards(rest, r)}
            step == [p \in (1 .. n) \X T |-> AddEncoding(p[2], list[p[1]], force)]
            g == CHOOSE f : EmptyingFrom(list, rest, force, n, f)
<1>1. rest \in T
  BY DEF Onwards
<1>2. ASSUME NEW k \in 1 .. n, NEW r \in T PROVE AddEncoding(r, list[k], force) \in T
  <2>1. list[k] \in Item(input)
    <3>. DEFINE S == Item(input)
    <3>. HIDE DEF S
    <3>1. list \in Seq(S) /\ k \in 1 .. Len(list)
      <4>1. list \in Seq(S)
        BY DEF S
      <4>. QED BY <4>1, LenProperties
    <3>2. list[k] \in S
      BY <3>1, ElementOfSeq
    <3>. QED BY <3>2 DEF S
  <2>2. Onwards(r, AddEncoding(r, list[k], force))
    BY <2>1, AddEncodingCovers
  <2>3. Onwards(rest, AddEncoding(r, list[k], force))
    BY <2>2, OnwardsMore
  <2>. QED BY <2>3 DEF Onwards
<1>3. step \in [(1 .. n) \X T -> T]
  <2>1. ASSUME NEW p \in (1 .. n) \X T PROVE AddEncoding(p[2], list[p[1]], force) \in T
    <3>1. p[1] \in 1 .. n /\ p[2] \in T
      OBVIOUS
    <3>. HIDE DEF T
    <3>. QED BY <3>1, <1>2
  <2>. HIDE DEF T
  <2>. QED BY <2>1
<1>. HIDE DEF T, g
<1>4. PICK f \in [0 .. n -> T] : Counts(f, rest, step, n)
  <2>. HIDE DEF step
  <2>. QED BY <1>1, <1>3, Counted
<1>5. ASSUME NEW k \in 0 .. n
      PROVE  f[k] = IF k = 0 THEN rest ELSE AddEncoding(f[k - 1], list[k], force)
  <2>1. CASE k = 0
    BY <2>1, <1>4 DEF Counts
  <2>2. CASE k # 0
    <3>1. k \in 1 .. n /\ k - 1 \in 0 .. n
      BY <2>2
    <3>2. f[k] = step[<<k, f[k - 1]>>] /\ f[k - 1] \in T
      BY <3>1, <1>4 DEF Counts
    <3>. QED BY <2>2, <3>1, <3>2
  <2>. QED BY <2>1, <2>2
<1>6. EmptyingFrom(list, rest, force, n, f)
  <2>1. f = [k \in 0 .. n |-> f[k]]
    OBVIOUS
  <2>2. f = [k \in 0 .. n |-> IF k = 0 THEN rest ELSE AddEncoding(f[k - 1], list[k], force)]
    <3>. HIDE DEF step
    <3>. QED BY <1>5, <2>1
  <2>. QED BY <2>2 DEF EmptyingFrom
<1>7. EmptyingFrom(list, rest, force, n, g)
  <2>. HIDE DEF step
  <2>. QED BY <1>6 DEF g
<1>8. Stays(g, T, n)
  <2>1. g[0] = rest
    BY <1>7 DEF EmptyingFrom
  <2>2. ASSUME NEW k \in 1 .. n, g[k - 1] \in T PROVE g[k] \in T
    <3>1. g[k] = AddEncoding(g[k - 1], list[k], force)
      BY <1>7 DEF EmptyingFrom
    <3>. QED BY <2>2, <3>1, <1>2
  <2>. QED BY <1>1, <2>1, <2>2 DEF Stays
<1>9. g[n] \in T
  BY <1>8, StepsStayIn
<1>. QED BY <1>9 DEF T, g

\* A buffer whose matches all fit the source window.
Covers(e) == e \in Buffer(input) /\ e.used \in Seq(Fitting(input, e.srcwin))

\* A buffer e that becomes r and holds what fits.
CoversOn(e, r) == Covers(r) /\ Fitting(input, e.srcwin) \subseteq Fitting(input, r.srcwin)

LEMMA FittingItems ==
  ASSUME NEW inp, NEW w
  PROVE  Fitting(inp, w) \subseteq Item(inp)
BY DEF Fitting

\* xd3_iopt_flush_instructions: what stays in the buffer fits the window that
\* what goes may have decided.
LEMMA FlushCovers ==
  ASSUME Known, NEW e, Covers(e), NEW force
  PROVE  LET r == Flush(e, force)
         IN  CoversOn(e, r) /\ (force => r.used = <<>>)
<1>. DEFINE w == e.srcwin
            S == Fitting(input, w)
            list == Optimize(e.used, force)
            half == e.size \div 2 + 1
            n == IF force THEN Len(list)
                 ELSE Lesser(Len(list), Greater(1, Lesser(half, Len(list) - 2)))
            left == SubSeq(list, n + 1, Len(list))
            rest == [e EXCEPT !.used = SubSeq(list, n + 1, Len(list)),
                              !.free = @ + Len(e.used) - Len(list)]
            r == Flush(e, force)
<1>1. /\ e \in Buffer(input) /\ e.used \in Seq(Fitting(input, w)) /\ w \in Coverage
      /\ e.size \in Nat /\ e.free \in Int /\ Len(input.src) \in Nat
  BY KnownLength DEF Covers, Buffer
<1>2. list \in Seq(Fitting(input, w))
  BY <1>1, OptimizeFits
<1>3. r = LET g == CHOOSE f : EmptyingFrom(list, rest, force, n, f) IN g[n]
  BY DEF Flush, EmptyingFrom
<1>. HIDE DEF list, r
<1>4. Len(list) \in Nat /\ Len(e.used) \in Nat
  BY <1>1, <1>2, LenProperties
<1>5. n \in Nat /\ n <= Len(list)
  <2>1. half \in Nat
    BY <1>1
  <2>. HIDE DEF half
  <2>. QED BY <1>4, <2>1 DEF Lesser, Greater
<1>6. force => n = Len(list)
  OBVIOUS
<1>. HIDE DEF n
<1>7. left \in Seq(S)
  <2>. HIDE DEF S
  <2>1. list \in Seq(S)
    BY <1>2 DEF S
  <2>2. \A k \in n + 1 .. Len(list) : list[k] \in S
    <3>1. ASSUME NEW k \in n + 1 .. Len(list) PROVE list[k] \in S
      <4>1. k \in 1 .. Len(list)
        BY <1>4, <1>5
      <4>. QED BY <4>1, <2>1, ElementOfSeq
    <3>. QED BY <3>1
  <2>. QED BY <1>4, <1>5, <2>2, SubSeqProperties
<1>8. force => left = <<>>
  <2>. SUFFICES ASSUME force PROVE left = <<>>
    OBVIOUS
  <2>1. n = Len(list)
    BY <1>6
  <2>. QED BY <2>1, <1>4, SubSeqEmpty
<1>. HIDE DEF left
<1>9. rest \in Buffer(input) /\ rest.used = left /\ rest.srcwin = w
  <2>. DEFINE free == e.free + Len(e.used) - Len(list)
  <2>1. free \in Int
    BY <1>1, <1>4
  <2>. HIDE DEF free
  <2>2. rest = [e EXCEPT !.used = left, !.free = free]
    BY DEF free, left
  <2>3. left \in Seq(Item(input))
    <3>1. S \subseteq Item(input)
      BY FittingItems
    <3>. HIDE DEF S
    <3>. QED BY <3>1, <1>7, SeqMore
  <2>. HIDE DEF rest
  <2>. QED BY <1>1, <2>1, <2>2, <2>3 DEF Buffer
<1>. HIDE DEF rest
<1>10. list \in Seq(Item(input))
  BY <1>2, FittingItems, SeqMore
<1>11. Onwards(rest, r)
  BY <1>3, <1>5, <1>9, <1>10, EmptyingCovers
<1>12. /\ r \in Buffer(input) /\ r.used = left
       /\ Fitting(input, w) \subseteq Fitting(input, r.srcwin)
  BY <1>9, <1>11 DEF Onwards
<1>13. r.used \in Seq(Fitting(input, r.srcwin))
  BY <1>7, <1>12, SeqMore
<1>. QED BY <1>8, <1>12, <1>13 DEF r, Covers, CoversOn

LEMMA GetSlotCovers ==
  ASSUME Known, NEW e, Covers(e)
  PROVE  CoversOn(e, GetSlot(e))
<1>1. CASE e.free > 0
  BY <1>1 DEF GetSlot, CoversOn
<1>2. CASE ~ (e.free > 0) /\ input.iopt_size = 0
  <2>. DEFINE r == [e EXCEPT !.free = @ + AllocElts, !.size = @ + AllocElts]
              free == e.free + AllocElts
              size == e.size + AllocElts
  <2>1. GetSlot(e) = r
    BY <1>2 DEF GetSlot
  <2>2. free \in Int /\ size \in Nat
    BY IoptAssumption DEF Covers, Buffer
  <2>3. r = [e EXCEPT !.free = free, !.size = size]
    OBVIOUS
  <2>. HIDE DEF free, size, r
  <2>4. r \in Buffer(input) /\ r.used = e.used /\ r.srcwin = e.srcwin
    BY <2>2, <2>3 DEF Covers, Buffer
  <2>. QED BY <2>1, <2>4 DEF Covers, CoversOn
<1>3. CASE ~ (e.free > 0) /\ input.iopt_size # 0
  BY <1>3, FlushCovers DEF GetSlot
<1>. QED BY <1>1, <1>2, <1>3

\* xd3_found_match
LEMMA FoundCovers ==
  ASSUME Known, NEW e, Covers(e), NEW i \in Fitting(input, e.srcwin)
  PROVE  Covers(FoundMatch(e, i))
<1>. DEFINE q == GetSlot(e)
            S == Fitting(input, q.srcwin)
            used == Append(q.used, i)
            free == q.free - 1
            r == FoundMatch(e, i)
<1>1. CoversOn(e, q)
  BY GetSlotCovers
<1>2. r = [q EXCEPT !.free = free, !.used = used]
  BY DEF FoundMatch
<1>. HIDE DEF q, r
<1>3. /\ q \in Buffer(input) /\ q.used \in Seq(S) /\ i \in S /\ q.free \in Int
  BY <1>1 DEF CoversOn, Covers, Buffer
<1>4. S \subseteq Item(input)
  BY FittingItems
<1>5. used \in Seq(S) /\ free \in Int
  <2>. HIDE DEF S
  <2>. QED BY <1>3
<1>6. used \in Seq(Item(input))
  <2>. HIDE DEF S, used
  <2>. QED BY <1>4, <1>5, SeqMore
<1>. HIDE DEF used, free
<1>7. r \in Buffer(input) /\ r.used = used /\ r.srcwin = q.srcwin
  BY <1>2, <1>3, <1>5, <1>6 DEF Buffer
<1>. QED BY <1>5, <1>7 DEF Covers, r

\* xd3_iopt_erase
LEMMA EraseCovers ==
  ASSUME Known, NEW e, Covers(e), NEW pos
  PROVE  Covers(Erase(e, pos)) /\ Erase(e, pos).srcwin = e.srcwin
<1>. DEFINE S == Fitting(input, e.srcwin)
            kept == Before(e.used, pos)
            used == SubSeq(e.used, 1, kept)
            free == e.free + Len(e.used) - kept
            r == Erase(e, pos)
<1>1. e \in Buffer(input) /\ e.used \in Seq(S) /\ e.free \in Int
  BY DEF Covers, Buffer
<1>2. Len(e.used) \in Nat
  <2>. HIDE DEF S
  <2>. QED BY <1>1, LenProperties
<1>3. kept \in 0 .. Len(e.used)
  <2>. HIDE DEF S
  <2>. QED BY <1>1, BeforeFacts
<1>4. r = [e EXCEPT !.used = used, !.free = free]
  BY DEF Erase
<1>. HIDE DEF kept, r
<1>5. free \in Int
  BY <1>1, <1>2, <1>3
<1>6. used \in Seq(S)
  <2>. HIDE DEF S
  <2>1. \A k \in 1 .. kept : e.used[k] \in S
    <3>1. ASSUME NEW k \in 1 .. kept PROVE e.used[k] \in S
      <4>1. k \in 1 .. Len(e.used)
        BY <1>2, <1>3
      <4>. QED BY <4>1, <1>1, ElementOfSeq
    <3>. QED BY <3>1
  <2>. QED BY <1>2, <1>3, <2>1, SubSeqProperties
<1>7. used \in Seq(Item(input))
  <2>1. S \subseteq Item(input)
    BY FittingItems
  <2>. HIDE DEF S, used
  <2>. QED BY <2>1, <1>6, SeqMore
<1>. HIDE DEF used, free
<1>8. r \in Buffer(input) /\ r.used = used /\ r.srcwin = e.srcwin
  BY <1>1, <1>4, <1>5, <1>7 DEF Buffer
<1>. QED BY <1>6, <1>8 DEF Covers, r

-----------------------------------------------------------------------------
(* A match with the source stays within what has been decided.             *)

LEMMA ForwardAtMost ==
  ASSUME NEW s, NEW a, NEW p, NEW max \in Int
  PROVE  Forward(s, a, p, max) \in Int /\ Forward(s, a, p, max) <= max
<1>1. CASE max \in Nat
  BY <1>1, ForwardAgrees DEF Agrees
<1>2. CASE max \notin Nat
  <2>1. {k \in 0 .. max - 1 : s[a + k + 1] # Tgt(p + k)} = {}
    BY <1>2
  <2>. QED BY <2>1 DEF Forward
<1>. QED BY <1>1, <1>2

LEMMA LastMatchedInt ==
  ASSUME Known, NEW e, Covers(e)
  PROVE  LastMatched(e) \in Int
<1>. DEFINE u == e.used
            S == Fitting(input, e.srcwin)
<1>1. u \in Seq(S)
  BY DEF Covers
<1>. HIDE DEF u, S
<1>2. CASE u = <<>>
  BY <1>2 DEF LastMatched, u
<1>3. CASE u # <<>>
  <2>1. Last(u) = u[Len(u)] /\ Len(u) \in 1 .. Len(u)
    <3>1. Len(u) \in Nat /\ Len(u) # 0
      BY <1>1, <1>3, EmptySeq
    <3>. QED BY <3>1 DEF Last
  <2>2. Last(u) \in S
    BY <1>1, <2>1, ElementOfSeq
  <2>3. EndOf(Last(u)) \in Int
    BY <2>2, FittingFields DEF S
  <2>. QED BY <1>3, <2>3 DEF LastMatched, u
<1>. QED BY <1>2, <1>3

\* Where a match of the source may be.
Reaches(m) ==
  /\ m.srcpos \in Int /\ m.fwd \in Int /\ m.back \in Nat
  /\ m.fwd >= 1 => SrcFrom <= m.srcpos - m.back /\ m.srcpos + m.fwd <= SrcTo

LEMMA SourceEnds ==
  ASSUME Known, Covers(iopt)
  PROVE  /\ SrcFrom \in Nat /\ SrcTo \in Int /\ SrcTo <= Len(input.src)
         /\ iopt.srcwin.decided =>
              /\ SrcFrom = iopt.srcwin.srcbase
              /\ SrcTo <= iopt.srcwin.srcbase + iopt.srcwin.srclen
<1>1. /\ iopt.srcwin.srcbase \in Nat /\ iopt.srcwin.srclen \in Int
      /\ Len(input.src) \in Nat
  BY KnownLength DEF Covers, Buffer, Coverage
<1>. QED BY <1>1 DEF SrcFrom, SrcTo, Lesser

LEMMA ExtendedReaches ==
  ASSUME Known, Covers(iopt), input_position \in Nat,
         NEW srcpos \in Int, NEW backward \in BOOLEAN
  PROVE  Reaches(Extended(srcpos, backward)) /\ Extended(srcpos, backward).srcpos = srcpos
<1>. DEFINE m == Extended(srcpos, backward)
            maxfwd == Lesser(avail_in - input_position, SrcTo - srcpos)
            maxback == Lesser(BackRoom, srcpos - SrcFrom)
            fwd == Forward(input.src, srcpos, input_position, maxfwd)
            back == IF backward THEN Backward(input.src, srcpos, input_position, maxback)
                    ELSE 0
<1>1. SrcFrom \in Nat /\ SrcTo \in Int
  BY SourceEnds
<1>2. CASE srcpos \notin SrcFrom .. SrcTo
  BY <1>2 DEF Extended, Reaches
<1>3. CASE srcpos \in SrcFrom .. SrcTo
  <2>1. m = [srcpos |-> srcpos, fwd |-> fwd, back |-> back]
    BY <1>3 DEF Extended
  <2>2. BackRoom \in Nat
    <3>1. BackLimit \in Int
      BY LastMatchedInt DEF BackLimit, Covers, Buffer
    <3>. QED BY <3>1 DEF BackRoom
  <2>3. maxfwd \in Int /\ maxfwd <= SrcTo - srcpos
    BY <1>1 DEF Known, Lesser
  <2>4. maxback \in Nat /\ maxback <= srcpos - SrcFrom
    BY <1>1, <1>3, <2>2 DEF Lesser
  <2>. HIDE DEF maxfwd, maxback
  <2>5. fwd \in Int /\ fwd <= maxfwd
    BY <2>3, ForwardAtMost
  <2>6. back \in 0 .. maxback
    <3>1. Backward(input.src, srcpos, input_position, maxback) \in 0 .. maxback
      BY <2>4, BackwardAgrees DEF AgreesBack
    <3>. QED BY <2>4, <3>1
  <2>. HIDE DEF m, fwd, back
  <2>7. m.srcpos = srcpos /\ m.fwd = fwd /\ m.back = back
    BY <2>1
  <2>8. SrcFrom <= srcpos - back /\ srcpos + fwd <= SrcTo
    BY <1>1, <2>3, <2>4, <2>5, <2>6
  <2>9. back \in Nat
    BY <2>4, <2>6
  <2>. QED BY <2>5, <2>7, <2>8, <2>9 DEF Reaches, m
<1>. QED BY <1>2, <1>3

\* The addresses noted are widened by a match within what is decided.
LEMMA WiderCovers ==
  ASSUME Known, Covers(iopt), NEW start \in Int, NEW end \in Int,
         SrcFrom <= start, start < end, end <= SrcTo
  PROVE  LET v == Wider(iopt.srcwin, start, end)
         IN  /\ v \in Coverage /\ Fitting(input, iopt.srcwin) \subseteq Fitting(input, v)
             /\ v.minaddr <= start /\ end <= v.maxaddr /\ end <= Len(input.src)
             /\ v.decided => v.srcbase <= start /\ end <= v.srcbase + v.srclen
<1>. DEFINE w == iopt.srcwin
            min == IF w.maxaddr = 0 \/ start < w.minaddr THEN start ELSE w.minaddr
            max == Greater(w.maxaddr, end)
            v == Wider(w, start, end)
<1>1. /\ w \in Coverage /\ w.maxaddr \in Nat /\ w.minaddr \in Nat /\ w.srcbase \in Nat
      /\ w.srclen \in Int /\ Len(input.src) \in Nat
  BY KnownLength DEF Covers, Buffer, Coverage
<1>2. /\ SrcFrom \in Nat /\ SrcTo \in Int /\ SrcTo <= Len(input.src)
      /\ w.decided => /\ SrcFrom = w.srcbase
                      /\ SrcTo <= w.srcbase + w.srclen
  BY SourceEnds
<1>3. v = [w EXCEPT !.minaddr = min, !.maxaddr = max]
  BY DEF Wider
<1>4. /\ min \in Nat /\ min <= start /\ (min <= w.minaddr \/ w.maxaddr = 0)
      /\ max \in Nat /\ end <= max /\ w.maxaddr <= max
  BY <1>1, <1>2 DEF Greater
<1>. HIDE DEF min, max, v, w
<1>5. /\ v \in Coverage /\ v.minaddr = min /\ v.maxaddr = max /\ v.srcbase = w.srcbase
      /\ v.srclen = w.srclen /\ v.decided = w.decided
  BY <1>1, <1>3, <1>4 DEF Coverage
<1>6. ASSUME NEW i \in Fitting(input, w) PROVE i \in Fitting(input, v)
  <2>1. i \in Item(input) /\ i.type # ADD /\ i.size \in Nat /\ i.size >= 1 /\ i.addr \in Int
    BY FittingFields
  <2>2. Within(input, i, v)
    <3>. SUFFICES ASSUME i.type = CPY, i.xtra = 1
                  PROVE  /\ v.minaddr <= i.addr /\ i.addr + i.size <= v.maxaddr
                         /\ i.addr + i.size <= Len(input.src)
                         /\ v.decided => /\ v.srcbase <= i.addr
                                         /\ i.addr + i.size <= v.srcbase + v.srclen
      BY DEF Within
    <3>1. /\ w.minaddr <= i.addr /\ i.addr + i.size <= w.maxaddr
          /\ i.addr + i.size <= Len(input.src)
          /\ w.decided => /\ w.srcbase <= i.addr
                          /\ i.addr + i.size <= w.srcbase + w.srclen
      BY FittingFields DEF Within
    <3>2. min <= i.addr /\ i.addr + i.size <= max
      BY <1>1, <1>4, <2>1, <3>1
    <3>. QED BY <1>5, <3>1, <3>2
  <2>. QED BY <2>1, <2>2 DEF Fitting
<1>7. end <= Len(input.src) /\ (w.decided => w.srcbase <= start /\ end <= w.srcbase + w.srclen)
  BY <1>1, <1>2
<1>. QED BY <1>4, <1>5, <1>6, <1>7 DEF v, w

LEMMA SourceTakenCovers ==
  ASSUME Known, Covers(iopt), input_position \in Nat, NEW m, Reaches(m), m.fwd >= 1,
         SourceTaken(m)
  PROVE  Covers(iopt') /\ match'.srcpos \in Int
<1>. DEFINE start == m.srcpos - m.back
            end   == m.srcpos + m.fwd
            pos   == input_position - m.back
            size  == m.back + m.fwd
            w     == iopt.srcwin
            v     == Wider(w, start, end)
            kept  == IF m.back > 0 THEN Erase(iopt, pos) ELSE iopt
            e     == [kept EXCEPT !.srcwin = v]
            i     == [type |-> CPY, pos |-> pos, size |-> size, addr |-> start, xtra |-> 1]
<1>1. /\ m.srcpos \in Int /\ m.fwd \in Int /\ m.fwd >= 1 /\ m.back \in Nat
      /\ SrcFrom <= start /\ end <= SrcTo
  BY DEF Reaches
<1>2. /\ start \in Int /\ end \in Int /\ start < end /\ pos \in Int /\ size \in Nat
      /\ size >= 1 /\ start + size = end
  BY <1>1
<1>3. iopt' = FoundMatch(e, i) /\ match' = AfterMatch(m)
  BY DEF SourceTaken, Wider
<1>4. match'.srcpos \in Int
  BY <1>1, <1>3 DEF AfterMatch, Searching
<1>5. Covers(kept) /\ kept.srcwin = w
  BY EraseCovers
<1>. HIDE DEF start, end, pos, size, kept
<1>6. /\ v \in Coverage /\ Fitting(input, w) \subseteq Fitting(input, v)
      /\ v.minaddr <= start /\ end <= v.maxaddr /\ end <= Len(input.src)
      /\ v.decided => v.srcbase <= start /\ end <= v.srcbase + v.srclen
  BY <1>1, <1>2, WiderCovers
<1>. HIDE DEF v, w, e, i
<1>7. e \in Buffer(input) /\ e.used = kept.used /\ e.srcwin = v
  BY <1>5, <1>6 DEF Covers, Buffer, e
<1>8. Covers(e)
  <2>1. kept.used \in Seq(Fitting(input, w))
    BY <1>5 DEF Covers
  <2>2. kept.used \in Seq(Fitting(input, v))
    BY <2>1, <1>6, SeqMore
  <2>. QED BY <2>2, <1>7 DEF Covers
<1>9. /\ i \in Item(input) /\ i.type = CPY /\ i.size = size /\ i.addr = start
  <2>1. 1 \in Values(input)
    BY DEF Values
  <2>. QED BY <1>2, <2>1 DEF Item, i
<1>10. i \in Fitting(input, v)
  <2>1. Within(input, i, v)
    BY <1>2, <1>6, <1>9 DEF Within
  <2>2. CPY # ADD
    BY DEF CPY, ADD
  <2>. QED BY <1>2, <1>9, <2>1, <2>2 DEF Fitting
<1>11. Covers(FoundMatch(e, i))
  BY <1>7, <1>8, <1>10, FoundCovers
<1>. QED BY <1>3, <1>4, <1>11

-----------------------------------------------------------------------------
(* The steps.                                                              *)

LEMMA NextRunTyped ==
  ASSUME NEW inp, NEW r \in RunType(inp), NEW c \in Values(inp)
  PROVE  NextRun(r, c) \in RunType(inp)
<1>1. CASE r.c = c
  <2>. DEFINE l == r.l + 1
  <2>1. l \in Int
    BY DEF RunType
  <2>2. NextRun(r, c) = [r EXCEPT !.l = l]
    BY <1>1 DEF NextRun
  <2>. HIDE DEF l
  <2>. QED BY <2>1, <2>2 DEF RunType
<1>2. CASE r.c # c
  BY <1>2 DEF NextRun, RunType
<1>. QED BY <1>1, <1>2

LEMMA CompRunTyped ==
  ASSUME Known, NEW p \in Int
  PROVE  CompRun(p) \in RunType(input)
<1>. DEFINE n == SmallLook
            T == RunType(input)
            b == [l |-> 0, c |-> 0]
            step == [q \in (1 .. n) \X T |-> NextRun(q[2], Tgt(p + q[1] - 1))]
            g == CHOOSE f : CompRunFrom(p, f)
<1>1. n \in Nat
  BY DEF SmallLook
<1>2. b \in T
  BY DEF RunType, Values
<1>3. ASSUME NEW k \in 1 .. n, NEW r \in T PROVE NextRun(r, Tgt(p + k - 1)) \in T
  <2>1. p + k - 1 \in Int
    BY <1>1
  <2>. QED BY <2>1, KnownByte, NextRunTyped
<1>. HIDE DEF n, T, g, b
<1>4. step \in [(1 .. n) \X T -> T]
  <2>1. ASSUME NEW q \in (1 .. n) \X T PROVE NextRun(q[2], Tgt(p + q[1] - 1)) \in T
    <3>1. q[1] \in 1 .. n /\ q[2] \in T
      OBVIOUS
    <3>. QED BY <3>1, <1>3
  <2>. QED BY <2>1
<1>5. PICK f \in [0 .. n -> T] : Counts(f, b, step, n)
  <2>. HIDE DEF step
  <2>. QED BY <1>1, <1>2, <1>4, Counted
<1>6. ASSUME NEW k \in 0 .. n
      PROVE  f[k] = IF k = 0 THEN b ELSE NextRun(f[k - 1], Tgt(p + k - 1))
  <2>1. CASE k = 0
    BY <2>1, <1>5 DEF Counts
  <2>2. CASE k # 0
    <3>1. k \in 1 .. n /\ k - 1 \in 0 .. n
      BY <1>1, <2>2
    <3>2. f[k] = step[<<k, f[k - 1]>>] /\ f[k - 1] \in T
      BY <3>1, <1>5 DEF Counts
    <3>. QED BY <2>2, <3>1, <3>2
  <2>. QED BY <2>1, <2>2
<1>7. CompRunFrom(p, f)
  <2>1. f = [k \in 0 .. n |-> f[k]]
    OBVIOUS
  <2>2. f = [k \in 0 .. n |-> IF k = 0 THEN b ELSE NextRun(f[k - 1], Tgt(p + k - 1))]
    <3>. HIDE DEF step
    <3>. QED BY <1>6, <2>1
  <2>. QED BY <2>2 DEF CompRunFrom, n, b
<1>8. CompRunFrom(p, g)
  <2>. HIDE DEF step
  <2>. QED BY <1>7 DEF g
<1>8a. g = [k \in 0 .. n |-> IF k = 0 THEN b ELSE NextRun(g[k - 1], Tgt(p + k - 1))]
  BY <1>8 DEF CompRunFrom, n, b
<1>9. Stays(g, T, n)
  <2>1. g[0] = b
    BY <1>1, <1>8a
  <2>2. ASSUME NEW k \in 1 .. n, g[k - 1] \in T PROVE g[k] \in T
    <3>1. g[k] = NextRun(g[k - 1], Tgt(p + k - 1))
      BY <1>1, <1>8a
    <3>. QED BY <2>2, <3>1, <1>3
  <2>. QED BY <1>2, <2>1, <2>2 DEF Stays
<1>10. g[n] \in T
  BY <1>1, <1>9, StepsStayIn
<1>. QED BY <1>10 DEF CompRun, CompRunFrom, g, n, T

\* The state of the loop of xd3_string_match.
Typed(p, min, r) == /\ p \in Nat /\ min \in Int /\ min >= 1
                    /\ r \in RunType(input)

LEMMA RestartTyped ==
  ASSUME Known, Typed(input_position, min_match, run), NEW p \in Nat, NEW e, Covers(e),
         Restart(p, e)
  PROVE  Typed(input_position', min_match', run') /\ enc_state' # "ENC_FLUSH"
<1>1. input_position' = p
  BY DEF Restart
<1>2. CASE p + SmallLook > avail_in
  <2>1. enc_state' = "ENC_INSTR" /\ min_match' = min_match /\ run' = run
    BY <1>2 DEF Restart
  <2>. QED BY <1>1, <2>1 DEF Typed
<1>3. CASE ~ (p + SmallLook > avail_in)
  <2>1. /\ enc_state' = "LOOP" /\ min_match' = Greater(MIN_MATCH, 1 + LastMatched(e) - p)
        /\ run' = CompRun(p)
    BY <1>3 DEF Restart
  <2>2. LastMatched(e) \in Int
    BY LastMatchedInt
  <2>3. min_match' \in Int /\ min_match' >= 1
    BY <2>1, <2>2 DEF Greater, MIN_MATCH
  <2>4. CompRun(p) \in RunType(input)
    BY CompRunTyped
  <2>. QED BY <1>1, <2>1, <2>3, <2>4 DEF Typed
<1>. QED BY <1>2, <1>3

LEMMA UpdateOneTyped ==
  ASSUME Known, Typed(input_position, min_match, run), enc_state # "ENC_FLUSH",
         NEW r \in RunType(input), NEW min \in Int, min >= 1, UpdateOne(r, min)
  PROVE  Typed(input_position', min_match', run') /\ enc_state' # "ENC_FLUSH"
<1>1. CASE input_position + SmallLook = avail_in
  <2>1. /\ enc_state' = "ENC_INSTR" /\ input_position' = input_position
        /\ min_match' = min_match /\ run' = run
    BY <1>1 DEF UpdateOne
  <2>. QED BY <2>1 DEF Typed
<1>2. CASE input_position + SmallLook # avail_in
  <2>1. /\ input_position' = input_position + 1
        /\ run' = NextRun(r, Tgt(input_position + SmallLook))
        /\ min_match' = min /\ enc_state' = enc_state
    BY <1>2 DEF UpdateOne
  <2>2. input_position \in Nat /\ input_position + SmallLook \in Int
    BY DEF Typed, SmallLook
  <2>3. run' \in RunType(input)
    BY <2>1, <2>2, KnownByte, NextRunTyped
  <2>. QED BY <2>1, <2>2, <2>3 DEF Typed
<1>. QED BY <1>1, <1>2

LEMMA HandleLazyTyped ==
  ASSUME Known, Typed(input_position, min_match, run), enc_state # "ENC_FLUSH",
         NEW r \in RunType(input), NEW mlen \in Int, mlen >= 1, NEW e, Covers(e),
         HandleLazy(r, mlen, e)
  PROVE  Typed(input_position', min_match', run') /\ enc_state' # "ENC_FLUSH"
<1>1. CASE UpdateOne(r, mlen)
  BY <1>1, UpdateOneTyped
<1>2. CASE Restart(input_position + mlen, e)
  <2>1. input_position + mlen \in Nat
    BY DEF Typed
  <2>. QED BY <1>2, <2>1, RestartTyped
<1>. QED BY <1>1, <1>2 DEF HandleLazy

CoverInv ==
  /\ Known /\ Typed(input_position, min_match, run) /\ match.srcpos \in Int
  /\ Covers(iopt) /\ (enc_state = "ENC_FLUSH" => iopt.used = <<>>)

\* A step that leaves the window alone and does not output it.
LEMMA SameFileCovers ==
  ASSUME Known, UNCHANGED <<input, total_in, avail_in>>, match'.srcpos \in Int,
         Covers(iopt'), Typed(input_position', min_match', run'),
         enc_state' # "ENC_FLUSH"
  PROVE  CoverInv'
<1>1. input' = input /\ total_in' = total_in /\ avail_in' = avail_in
  OBVIOUS
<1>2. Known'
  BY <1>1 DEF Known
<1>3. Covers(iopt)'
  BY <1>1 DEF Covers
<1>4. Typed(input_position, min_match, run)'
  BY <1>1 DEF Typed
<1>. QED BY <1>2, <1>3, <1>4 DEF CoverInv

LEMMA SearchCovers ==
  ASSUME CoverInv, Search
  PROVE  CoverInv'
<1>. USE DEF CoverInv
<1>1. enc_state = "ENC_SEARCH" /\ UNCHANGED <<input, total_in, avail_in>>
  BY DEF Search
<1>2. CASE ~ (HasSource /\ match.state = "MATCH_TARGET" /\ avail_in > 0)
  <2>1. match' = Searching(match.last) /\ Restart(0, iopt) /\ iopt' = iopt
    BY <1>2 DEF Search
  <2>2. Typed(input_position', min_match', run') /\ enc_state' # "ENC_FLUSH"
    BY <2>1, RestartTyped
  <2>3. match'.srcpos \in Int
    BY <2>1 DEF Searching
  <2>4. Covers(iopt')
    BY <2>1
  <2>. QED BY <1>1, <2>2, <2>3, <2>4, SameFileCovers
<1>3. CASE HasSource /\ match.state = "MATCH_TARGET" /\ avail_in > 0
  <2>. DEFINE m == Extended(match.srcpos, FALSE)
              taken == ~ Rejected(match.srcpos) /\ m.fwd >= min_match
  <2>1. IF taken THEN SourceTaken(m) /\ Restart(m.fwd, iopt')
        ELSE match' = Searching(match.srcpos) /\ Restart(0, iopt) /\ iopt' = iopt
    BY <1>3 DEF Search
  <2>2. Reaches(m)
    BY ExtendedReaches DEF Typed
  <2>. HIDE DEF m
  <2>3. CASE taken
    <3>1. m.fwd \in Nat /\ m.fwd >= 1
      BY <2>2, <2>3 DEF Reaches, Typed
    <3>2. Covers(iopt') /\ match'.srcpos \in Int
      BY <2>1, <2>2, <2>3, <3>1, SourceTakenCovers DEF Typed
    <3>3. Typed(input_position', min_match', run') /\ enc_state' # "ENC_FLUSH"
      BY <2>1, <2>3, <3>1, <3>2, RestartTyped
    <3>. QED BY <1>1, <3>2, <3>3, SameFileCovers
  <2>4. CASE ~ taken
    <3>1. match' = Searching(match.srcpos) /\ Restart(0, iopt) /\ iopt' = iopt
      BY <2>1, <2>4
    <3>2. Typed(input_position', min_match', run') /\ enc_state' # "ENC_FLUSH"
      BY <3>1, RestartTyped
    <3>3. match'.srcpos \in Int
      BY <3>1 DEF Searching
    <3>4. Covers(iopt')
      BY <3>1
    <3>. QED BY <1>1, <3>2, <3>3, <3>4, SameFileCovers
  <2>. QED BY <2>3, <2>4
<1>. QED BY <1>2, <1>3

\* The run that the loop goes on with.
LEMMA RunTyped ==
  ASSUME CoverInv
  PROVE  RunLength \in Int /\ [run EXCEPT !.l = RunLength] \in RunType(input)
<1>. DEFINE n == RunLength
<1>1. run \in RunType(input) /\ run.l \in Int /\ avail_in \in Int /\ input_position \in Int
  BY DEF CoverInv, Typed, RunType, Known
<1>2. n \in Int
  <2>1. Forward(input.tgt, total_in + input_position, input_position + 1,
                avail_in - input_position - 1) \in Int
    BY <1>1, ForwardAtMost
  <2>. QED BY <1>1, <2>1 DEF RunLength
<1>. HIDE DEF n
<1>3. [run EXCEPT !.l = n] \in RunType(input)
  BY <1>1, <1>2 DEF RunType
<1>. QED BY <1>2, <1>3 DEF n

LEMMA RunFoundCovers ==
  ASSUME CoverInv, RunFound
  PROVE  CoverInv'
<1>. USE DEF CoverInv
<1>. DEFINE p == input_position
            n == RunLength
            c == run.c
            i == [type |-> RUN, pos |-> p, size |-> n, addr |-> 0, xtra |-> c]
            r == [run EXCEPT !.l = RunLength]
<1>1. /\ enc_state = "LOOP" /\ RunHere /\ iopt' = FoundMatch(iopt, i)
      /\ HandleLazy(r, n, iopt') /\ UNCHANGED <<input, total_in, avail_in>>
      /\ match' = match
  BY DEF RunFound
<1>2. n \in Int /\ r \in RunType(input)
  BY RunTyped
<1>3. n \in Nat /\ n >= 1
  BY <1>1, <1>2 DEF RunHere, Greater, MIN_RUN, Typed
<1>4. p \in Int /\ c \in Values(input)
  BY DEF Typed, RunType
<1>. HIDE DEF p, n, c, r, i
<1>5. i \in Item(input) /\ i.type = RUN /\ i.size = n
  BY <1>3, <1>4 DEF Item, i
<1>6. i \in Fitting(input, iopt.srcwin)
  <2>1. RUN # CPY /\ RUN # ADD
    BY DEF RUN, CPY, ADD
  <2>. QED BY <1>3, <1>5, <2>1 DEF Fitting, Within
<1>7. Covers(iopt')
  BY <1>1, <1>6, FoundCovers
<1>8. Typed(input_position', min_match', run') /\ enc_state' # "ENC_FLUSH"
  BY <1>1, <1>2, <1>3, <1>7, HandleLazyTyped
<1>. QED BY <1>1, <1>7, <1>8, SameFileCovers

LEMMA SourceFoundCovers ==
  ASSUME CoverInv, SourceFound
  PROVE  CoverInv'
<1>. USE DEF CoverInv
<1>1. enc_state = "LOOP" /\ UNCHANGED <<input, total_in, avail_in>>
  BY DEF SourceFound
<1>2. PICK srcpos \in Candidates \ Missed :
        /\ SourceTaken(Extended(srcpos, TRUE))
        /\ HandleLazy([run EXCEPT !.l = RunLength], Extended(srcpos, TRUE).fwd, iopt')
  BY DEF SourceFound
<1>. DEFINE m == Extended(srcpos, TRUE)
            r == [run EXCEPT !.l = RunLength]
<1>3. srcpos \in Int
  BY DEF Candidates, Lookups
<1>4. Reaches(m)
  BY <1>3, ExtendedReaches DEF Typed
<1>5. ~ (m.fwd < min_match)
  BY DEF Missed
<1>6. r \in RunType(input)
  BY RunTyped
<1>7. SourceTaken(m) /\ HandleLazy(r, m.fwd, iopt')
  BY <1>2
<1>. HIDE DEF m, r
<1>8. m.fwd \in Int /\ m.fwd >= 1
  BY <1>4, <1>5 DEF Reaches, Typed
<1>9. Covers(iopt') /\ match'.srcpos \in Int
  BY <1>4, <1>7, <1>8, SourceTakenCovers DEF Typed
<1>10. Typed(input_position', min_match', run') /\ enc_state' # "ENC_FLUSH"
  BY <1>1, <1>6, <1>7, <1>8, <1>9, HandleLazyTyped
<1>. QED BY <1>1, <1>9, <1>10, SameFileCovers

LEMMA MissedTyped ==
  ASSUME CoverInv, SourceMissed
  PROVE  match'.srcpos \in Int
BY DEF CoverInv, SourceMissed, Searching

LEMMA TargetFoundCovers ==
  ASSUME CoverInv, TargetFound
  PROVE  CoverInv'
<1>. USE DEF CoverInv
<1>1. enc_state = "LOOP" /\ UNCHANGED <<input, total_in, avail_in>> /\ SourceMissed
  BY DEF TargetFound
<1>2. PICK base \in 0 .. input_position - 1 :
        LET n == Forward(input.tgt, total_in + base, input_position,
                         avail_in - input_position)
        IN  /\ n >= min_match
            /\ iopt' = FoundMatch(iopt, [type |-> CPY, pos |-> input_position,
                                         size |-> n, addr |-> base, xtra |-> 0])
            /\ HandleLazy([run EXCEPT !.l = RunLength], n, iopt')
  BY DEF TargetFound
<1>. DEFINE p == input_position
            n == Forward(input.tgt, total_in + base, input_position,
                         avail_in - input_position)
            i == [type |-> CPY, pos |-> p, size |-> n, addr |-> base, xtra |-> 0]
            r == [run EXCEPT !.l = RunLength]
<1>3. p \in Nat /\ base \in Int /\ 0 \in Values(input)
  BY DEF Typed, Values
<1>4. n \in Int
  <2>1. avail_in - input_position \in Int
    BY <1>3 DEF Known
  <2>. QED BY <2>1, ForwardAtMost
<1>5. n >= min_match /\ iopt' = FoundMatch(iopt, i) /\ HandleLazy(r, n, iopt')
  BY <1>2
<1>6. r \in RunType(input)
  BY RunTyped
<1>. HIDE DEF p, n, r, i
<1>7. n \in Nat /\ n >= 1
  BY <1>4, <1>5 DEF Typed
<1>8. /\ i \in Item(input) /\ i.type = CPY /\ i.size = n /\ i.xtra = 0
  BY <1>3, <1>7 DEF Item, i
<1>9. i \in Fitting(input, iopt.srcwin)
  <2>1. CPY # ADD
    BY DEF CPY, ADD
  <2>. QED BY <1>7, <1>8, <2>1 DEF Fitting, Within
<1>10. Covers(iopt')
  BY <1>5, <1>9, FoundCovers
<1>11. Typed(input_position', min_match', run') /\ enc_state' # "ENC_FLUSH"
  BY <1>1, <1>5, <1>6, <1>7, <1>10, HandleLazyTyped
<1>12. match'.srcpos \in Int
  BY <1>1, MissedTyped
<1>. QED BY <1>1, <1>10, <1>11, <1>12, SameFileCovers

LEMMA NothingFoundCovers ==
  ASSUME CoverInv, NothingFound
  PROVE  CoverInv'
<1>. USE DEF CoverInv
<1>. DEFINE r == [run EXCEPT !.l = RunLength]
            min == Greater(MIN_MATCH, min_match - 1)
<1>1. /\ enc_state = "LOOP" /\ UNCHANGED <<input, total_in, avail_in>> /\ SourceMissed
      /\ UpdateOne(r, min) /\ iopt' = iopt
  BY DEF NothingFound
<1>2. r \in RunType(input)
  BY RunTyped
<1>3. min \in Int /\ min >= 1
  BY DEF Typed, Greater, MIN_MATCH
<1>. HIDE DEF r, min
<1>4. Typed(input_position', min_match', run') /\ enc_state' # "ENC_FLUSH"
  BY <1>1, <1>2, <1>3, UpdateOneTyped
<1>5. match'.srcpos \in Int
  BY <1>1, MissedTyped
<1>6. Covers(iopt')
  BY <1>1
<1>. QED BY <1>1, <1>4, <1>5, <1>6, SameFileCovers

LEMMA InstrCovers ==
  ASSUME CoverInv, Instr
  PROVE  CoverInv'
<1>. DEFINE e == Flush(iopt, TRUE)
            q == AddUpTo(e, avail_in, TRUE)
            r == AddFinalize(e)
<1>1. /\ enc_state' = "ENC_FLUSH" /\ iopt' = r
      /\ input' = input /\ total_in' = total_in /\ avail_in' = avail_in
      /\ input_position' = input_position /\ min_match' = min_match
      /\ run' = run /\ match' = match
  BY DEF Instr
<1>2. Known /\ Covers(e) /\ e.used = <<>>
  BY FlushCovers DEF CoverInv, CoversOn
<1>. HIDE DEF e
<1>3. q \in Buffer(input) /\ q.used = <<>>
  <2>1. Onwards(e, q)
    BY <1>2, AddUpToCovers DEF Covers, Known
  <2>. QED BY <1>2, <2>1 DEF Onwards
<1>4. r \in Buffer(input) /\ r.used = <<>>
  <2>1. CASE q.iout = NoInst
    BY <1>3, <2>1 DEF AddFinalize
  <2>2. CASE q.iout # NoInst
    <3>. DEFINE free == q.free + Slot(q.iout)
    <3>1. r = [q EXCEPT !.iout = NoInst, !.free = free]
      BY <2>2 DEF AddFinalize
    <3>2. free \in Int
      <4>1. Slot(q.iout) \in {0, 1}
        BY DEF Slot
      <4>. HIDE DEF q
      <4>2. q.free \in Int
        BY <1>3 DEF Buffer
      <4>. QED BY <4>1, <4>2
    <3>. HIDE DEF q, r, free
    <3>. QED BY <1>3, <3>1, <3>2 DEF Buffer
  <2>. QED BY <2>1, <2>2
<1>. HIDE DEF r
<1>5. (iopt.used \in Seq(Fitting(input, iopt.srcwin)))'
  <2>. DEFINE S == Fitting(input, iopt.srcwin)'
  <2>. HIDE DEF S
  <2>1. <<>> \in Seq(S)
    OBVIOUS
  <2>. QED BY <1>1, <1>4, <2>1 DEF S
<1>6. Covers(iopt)'
  BY <1>1, <1>4, <1>5 DEF Covers
<1>7. Known' /\ Typed(input_position, min_match, run)' /\ match'.srcpos \in Int
  BY <1>1 DEF CoverInv, Known, Typed
<1>. QED BY <1>1, <1>4, <1>6, <1>7 DEF CoverInv

LEMMA ResetBuffer ==
  ASSUME NEW inp, NEW e \in Buffer(inp)
  PROVE  LET r == [e EXCEPT !.unencoded_offset = 0, !.srcwin = NoSrcwin, !.out = <<>>]
         IN  r \in Buffer(inp) /\ r.used = e.used
<1>. DEFINE v == NoSrcwin
            o == <<>>
            z == 0
            r == [e EXCEPT !.unencoded_offset = z, !.srcwin = v, !.out = o]
<1>1. v \in Coverage /\ z \in Int
  BY DEF NoSrcwin, Coverage
<1>2. o \in Seq(Output(inp))
  <2>. DEFINE S == Output(inp)
  <2>. HIDE DEF S
  <2>1. o \in Seq(S)
    OBVIOUS
  <2>. QED BY <2>1 DEF S
<1>. HIDE DEF v, o, z, r
<1>3. r \in Buffer(inp) /\ r.used = e.used
  BY <1>1, <1>2 DEF Buffer, r
<1>. QED BY <1>3 DEF r, v, o, z

LEMMA NextWindowCovers ==
  ASSUME CoverInv, NextWindow
  PROVE  CoverInv'
<1>1. /\ enc_state = "ENC_FLUSH" /\ enc_state' = "ENC_SEARCH"
      /\ total_in' = total_in + avail_in /\ avail_in' = WindowAt(total_in')
      /\ input_position' = 0 /\ min_match' = MIN_MATCH
      /\ iopt' = [iopt EXCEPT !.unencoded_offset = 0, !.srcwin = NoSrcwin, !.out = <<>>]
      /\ input' = input /\ run' = run /\ match' = match
  BY DEF NextWindow
<1>2. Known'
  <2>1. total_in' \in Int
    BY <1>1 DEF CoverInv, Known
  <2>2. input.winsize \in Nat /\ Len(input.tgt) \in Nat
    BY KnownLength DEF CoverInv
  <2>3. avail_in' \in Int
    BY <1>1, <2>1, <2>2 DEF WindowAt, Lesser
  <2>. QED BY <1>1, <2>1, <2>3 DEF CoverInv, Known
<1>3. Typed(input_position, min_match, run)'
  BY <1>1 DEF CoverInv, Typed, MIN_MATCH
<1>4. iopt' \in Buffer(input) /\ iopt'.used = <<>>
  <2>1. iopt \in Buffer(input) /\ iopt.used = <<>>
    BY <1>1 DEF CoverInv, Covers
  <2>. QED BY <1>1, <2>1, ResetBuffer
<1>5. (iopt.used \in Seq(Fitting(input, iopt.srcwin)))'
  <2>. DEFINE S == Fitting(input, iopt.srcwin)'
  <2>. HIDE DEF S
  <2>1. <<>> \in Seq(S)
    OBVIOUS
  <2>. QED BY <1>4, <2>1 DEF S
<1>6. Covers(iopt)'
  BY <1>1, <1>4, <1>5 DEF Covers
<1>. QED BY <1>1, <1>2, <1>3, <1>4, <1>6 DEF CoverInv

LEMMA InitCovers ==
  ASSUME Init
  PROVE  CoverInv
<1>. DEFINE size == IF input.iopt_size = 0 THEN AllocElts ELSE input.iopt_size
<1>1. /\ input \in Inputs /\ enc_state = "ENC_SEARCH" /\ total_in = 0
      /\ avail_in = WindowAt(0) /\ input_position = 0 /\ min_match = MIN_MATCH
      /\ run = [l |-> 0, c |-> 0]
      /\ match = [state |-> "MATCH_TARGET", srcpos |-> 0, last |-> 0]
      /\ iopt = [used |-> <<>>, free |-> size, size |-> size, iout |-> NoInst,
                 unencoded_offset |-> 0, srcwin |-> NoSrcwin, out |-> <<>>]
  BY DEF Init
<1>2. Known
  <2>1. input.winsize \in Nat /\ input.tgt \in Seq(Nat)
    BY <1>1, IoptAssumption
  <2>2. Len(input.tgt) \in Nat
    BY <2>1, LenProperties
  <2>. QED BY <1>1, <2>1, <2>2 DEF Known, WindowAt, Lesser
<1>3. Typed(input_position, min_match, run) /\ match.srcpos \in Int
  BY <1>1 DEF Typed, RunType, Values, MIN_MATCH
<1>4. size \in Nat
  <2>1. AllocElts \in Nat /\ input.iopt_size \in Nat
    BY <1>1, IoptAssumption
  <2>. QED BY <2>1
<1>5. iopt \in Buffer(input)
  <2>. DEFINE v == NoSrcwin
              u == <<>>
              A == Item(input)
              B == Output(input)
  <2>1. v \in Coverage
    BY DEF NoSrcwin, Coverage
  <2>2. u \in Seq(A) /\ u \in Seq(B)
    <3>. HIDE DEF A, B
    <3>. QED OBVIOUS
  <2>3. iopt = [used |-> u, free |-> size, size |-> size, iout |-> NoInst,
                unencoded_offset |-> 0, srcwin |-> v, out |-> u]
    BY <1>1
  <2>. HIDE DEF v, u, size
  <2>. QED BY <1>4, <2>1, <2>2, <2>3 DEF Buffer
<1>6. iopt.used = <<>>
  BY <1>1
<1>7. iopt.used \in Seq(Fitting(input, iopt.srcwin))
  <2>. DEFINE S == Fitting(input, iopt.srcwin)
  <2>. HIDE DEF S
  <2>1. <<>> \in Seq(S)
    OBVIOUS
  <2>. QED BY <1>6, <2>1 DEF S
<1>. QED BY <1>1, <1>2, <1>3, <1>5, <1>7 DEF CoverInv, Covers

LEMMA StepCovers ==
  ASSUME CoverInv, [Next]_vars
  PROVE  CoverInv'
<1>1. CASE Search
  BY <1>1, SearchCovers
<1>2. CASE RunFound
  BY <1>2, RunFoundCovers
<1>3. CASE SourceFound
  BY <1>3, SourceFoundCovers
<1>4. CASE TargetFound
  BY <1>4, TargetFoundCovers
<1>5. CASE NothingFound
  BY <1>5, NothingFoundCovers
<1>6. CASE Instr
  BY <1>6, InstrCovers
<1>7. CASE NextWindow
  BY <1>7, NextWindowCovers
<1>8. CASE UNCHANGED vars
  BY <1>8 DEF vars, CoverInv, Known, Typed, Covers
<1>. QED BY <1>1, <1>2, <1>3, <1>4, <1>5, <1>6, <1>7, <1>8 DEF Next

LEMMA CoverFact ==
  ASSUME CoverInv
  PROVE  SourceWindowCovers
<1>. DEFINE u == iopt.used
            w == iopt.srcwin
<1>1. u \in Seq(Fitting(input, w))
  BY DEF CoverInv, Covers
<1>2. ASSUME NEW k \in 1 .. Len(u) PROVE Within(input, u[k], w)
  <2>. HIDE DEF u, w
  <2>1. u[k] \in Fitting(input, w)
    BY <1>1, <1>2, ElementOfSeq
  <2>. QED BY <2>1, FittingFields
<1>3. \A k \in 1 .. Len(u) : /\ u[k].addr \in Int /\ u[k].size \in Int
  <2>. HIDE DEF u, w
  <2>1. ASSUME NEW k \in 1 .. Len(u) PROVE u[k].addr \in Int /\ u[k].size \in Int
    <3>1. u[k] \in Fitting(input, w)
      BY <1>1, <2>1, ElementOfSeq
    <3>. QED BY <3>1, FittingFields
  <2>. QED BY <2>1
<1>4. w \in Coverage
  BY DEF CoverInv, Covers, Buffer
<1>. QED BY <1>2, <1>3, <1>4 DEF SourceWindowCovers, Within, Coverage

\* xd3_srcwin_setup, the assertions of xd3_iopt_finish_encoding: for a buffer of any
\* size, also one that must be emptied in the middle of a window and has the source
\* window decided by a guess, and whatever matches are found, dropped and cut before
\* and after: the window covers every source copy that is still to be encoded.
THEOREM AlwaysCovered == Spec => []SourceWindowCovers
<1>1. Init => CoverInv
  BY InitCovers
<1>2. CoverInv /\ [Next]_vars => CoverInv'
  BY StepCovers
<1>3. CoverInv => SourceWindowCovers
  BY CoverFact
<1>. QED BY <1>1, <1>2, <1>3, PTL DEF Spec

=============================================================================

----------------------------- MODULE XD3WireProofs -----------------------------
(***************************************************************************)
(* Proofs about what is written of an instruction: its address             *)
(* (XD3Addresses) and its opcode (XD3InstCode).  The caches of the encoder *)
(* and the decoder go in step, and no mode would have taken fewer bytes;   *)
(* the opcodes are read as the instructions that were meant, and no opcode *)
(* of the table is missed.  That an address which was encoded is decoded   *)
(* is EncodedIsDecoded, in XD3DataProofs.                                  *)
(***************************************************************************)
EXTENDS XD3Wire, XD3DataProofs

-----------------------------------------------------------------------------
(* The two ends in step.                                                   *)

\* An entry of the SAME cache is in the slot of its address, or was never used.
SlotsTrue(c) ==
  \A s \in SameSlots : c.same[s] = 0 \/ c.same[s] % (SSame * SameBlock) = s

\* The inductive invariant: the types, Lockstep and the slots.
AInv ==
  /\ enc \in Cache /\ dec = enc /\ SlotsTrue(enc)
  /\ here \in 0 .. MaxHere
  /\ got = [ok |-> TRUE, addr |-> addr, next |-> Len(sent.bytes)]

LEMMA InitSlots == SlotsTrue(InitCache)
BY DEF SlotsTrue, InitCache

LEMMA UpdateSlots ==
  ASSUME NEW c \in Cache, NEW a \in Usize, SlotsTrue(c)
  PROVE  SlotsTrue(UpdateCache(c, a))
<1>. DEFINE n    == SSame * SameBlock
            same == [c.same EXCEPT ![a % n] = a]
<1>1. UpdateCache(c, a).same = same
  BY DEF UpdateCache
<1>2. a % n \in SameSlots
  BY SlotType, IntAssumption DEF Usize
<1>3. c.same \in [SameSlots -> Usize]
  BY DEF Cache
<1>. SUFFICES ASSUME NEW s \in SameSlots PROVE same[s] = 0 \/ same[s] % n = s
  BY <1>1 DEF SlotsTrue
<1>. HIDE DEF n
<1>4. CASE s = a % n
  BY <1>3, <1>4
<1>5. CASE s # a % n
  BY <1>3, <1>5 DEF SlotsTrue, n
<1>. QED BY <1>4, <1>5

LEMMA HereType ==
  ASSUME NEW h \in 0 .. MaxHere
  PROVE  h \in Usize /\ h \in Nat
BY AddressesAssumption, IntAssumption DEF Usize

LEMMA StartAInv ==
  ASSUME NEW h \in 0 .. MaxHere, Start(h)
  PROVE  AInv'
<1>1. Len(<<0>>) = 1
  OBVIOUS
<1>. QED BY <1>1, InitCacheType, InitSlots DEF Start, AInv

LEMMA InitAInv == Init => AInv
<1>1. Len(<<0>>) = 1
  OBVIOUS
<1>. QED BY <1>1, InitCacheType, InitSlots DEF Init, AInv

LEMMA CopyAInv ==
  ASSUME AInv, NEW a \in 0 .. MaxHere, NEW n \in CopySizes, Copy(a, n)
  PROVE  AInv'
<1>. DEFINE e == EncodeAddress(enc, a, here)
            d == DecodeAddress(dec, here, e.mode, e.bytes, 0)
<1>1. /\ enc' = e.cache /\ dec' = d.cache
      /\ sent' = [mode |-> e.mode, bytes |-> e.bytes]
      /\ got' = [ok |-> d.ok, addr |-> d.addr, next |-> d.next]
      /\ addr' = a /\ here' = here + n /\ here' <= MaxHere /\ a < here
  BY DEF Copy
<1>2. enc \in Cache /\ dec = enc /\ here \in 0 .. MaxHere /\ SlotsTrue(enc)
  BY DEF AInv
<1>3. a \in Nat /\ a \in Usize /\ here \in Usize /\ here \in Nat
  BY <1>2, HereType
<1>4. /\ e.cache = UpdateCache(enc, a)
      /\ d = [ok |-> TRUE, addr |-> a, next |-> Len(e.bytes), cache |-> e.cache]
  BY <1>1, <1>2, <1>3, EncodedIsDecoded
<1>. HIDE DEF e, d
<1>5. d.ok = TRUE /\ d.addr = a /\ d.next = Len(e.bytes) /\ d.cache = e.cache
  BY <1>4
<1>6. enc' \in Cache /\ SlotsTrue(enc')
  BY <1>1, <1>2, <1>3, <1>4, UpdateCacheType, UpdateSlots
<1>7. dec' = enc' /\ got' = [ok |-> TRUE, addr |-> addr', next |-> Len(sent'.bytes)]
  BY <1>1, <1>5
<1>8. here' \in 0 .. MaxHere
  <2>1. n \in Nat /\ MaxHere \in Nat
    BY AddressesAssumption, IntAssumption DEF Usize
  <2>. QED BY <1>1, <1>3, <2>1
<1>9. SlotsTrue(enc)'
  BY <1>6 DEF SlotsTrue
<1>. QED BY <1>6, <1>7, <1>8, <1>9 DEF AInv

LEMMA LiteralAInv ==
  ASSUME AInv, NEW n \in CopySizes, Literal(n)
  PROVE  AInv'
<1>1. n \in Nat /\ MaxHere \in Nat
  BY AddressesAssumption, IntAssumption DEF Usize
<1>2. here' \in 0 .. MaxHere
  BY <1>1 DEF AInv, Literal
<1>. QED BY <1>2 DEF AInv, Literal, SlotsTrue

LEMMA NextAInv == AInv /\ [Next]_vars => AInv'
<1>. SUFFICES ASSUME AInv, [Next]_vars PROVE AInv'
  OBVIOUS
<1>1. ASSUME NEW a \in 0 .. MaxHere, NEW n \in CopySizes, Copy(a, n) PROVE AInv'
  BY <1>1, CopyAInv
<1>2. ASSUME NEW n \in CopySizes, Literal(n) PROVE AInv'
  BY <1>2, LiteralAInv
<1>3. ASSUME NEW h \in 0 .. MaxHere, NextWindow(h) PROVE AInv'
  BY <1>3, StartAInv DEF NextWindow
<1>4. CASE UNCHANGED vars
  BY <1>4 DEF vars, AInv, SlotsTrue
<1>. QED BY <1>1, <1>2, <1>3, <1>4 DEF Next

LEMMA AInvAlways == Spec => []AInv
BY InitAInv, NextAInv, PTL DEF Spec

\* The caches are never sent, and yet the decoder reads the address that the
\* encoder meant, to the last byte, for every sequence of copies, literals and
\* windows.
THEOREM CachesInLockstep == Spec => []Lockstep
<1>1. AInv => Lockstep
  BY DEF AInv, Lockstep
<1>. QED BY <1>1, AInvAlways, PTL

-----------------------------------------------------------------------------
(* The choice of the mode.                                                 *)

\* The bytes of a candidate of the search.
LEMMA CandidateLen ==
  ASSUME NEW c \in Cache, NEW a \in Nat, NEW h \in Usize, a < h,
         NEW m \in Candidates(c, a)
  PROVE  /\ Delta(c, m, a, h) \in Nat
         /\ Len(EmitInt(Delta(c, m, a, h))) = SizeofSize(Delta(c, m, a, h))
<1>1. Delta(c, m, a, h) \in Nat
  BY DeltaType, IntAssumption DEF Usize
<1>. QED BY <1>1, SizeIsLength

\* No mode that can say the address takes fewer bytes than the one chosen,
\* unless the distance of that one was taken for a byte and is none.
LEMMA ChosenIsShortest ==
  ASSUME NEW c \in Cache, SlotsTrue(c), NEW a \in Nat, NEW h \in Usize, a < h,
         NEW m \in Modes, Reaches(c, m, a),
         LET e == EncodeAddress(c, a, h)
         IN  /\ e.mode < SameStart
             /\ Delta(c, e.mode, a, h) % UintMod < Radix
             => Delta(c, e.mode, a, h) < Radix
  PROVE  Len(EncodeAddress(c, a, h).bytes) <= ByteCount(c, m, a, h)
<1>. DEFINE e    == EncodeAddress(c, a, h)
            slot == a % (SSame * SameBlock)
<1>0. /\ e.mode < SameStart
      /\ Delta(c, e.mode, a, h) % UintMod < Radix
      => Delta(c, e.mode, a, h) < Radix
  OBVIOUS
<1>1. \/ \E k \in Candidates(c, a) :
           /\ e.mode = k /\ e.bytes = EmitInt(Delta(c, k, a, h))
           /\ \/ Delta(c, k, a, h) % UintMod < Radix
              \/ /\ a # 0 /\ c.same[slot] # a
                 /\ \A n \in Candidates(c, a) : Delta(c, k, a, h) <= Delta(c, n, a, h)
      \/ e.bytes = <<slot % SameBlock>>
  BY ModeChosen
<1>. HIDE DEF e
<1>2. m < SameStart => m \in Candidates(c, a)
  <2>. SUFFICES ASSUME m < SameStart PROVE m \in Candidates(c, a)
    OBVIOUS
  <2>1. m \in 0 .. SameStart - 1
    BY SlotsType, CacheAssumption DEF Modes
  <2>2. ~ (m < 2) => m \in 2 .. SameStart - 1
    BY <2>1, SlotsType
  <2>3. m < 2 \/ c.near[m - 2] <= a
    BY <2>2 DEF Reaches
  <2>4. ~ (m < 2) => m - 2 \in 0 .. SNear - 1
    BY <2>2, SlotsType
  <2>5. ~ (m < 2) => c.near[m - 2] \in Nat
    <3>1. ~ (m < 2) => c.near[m - 2] \in Usize
      BY <2>4 DEF Cache
    <3>. QED BY <3>1, IntAssumption DEF Usize
  <2>6. m < 2 \/ a >= c.near[m - 2]
    BY <2>3, <2>5
  <2>. QED BY <2>1, <2>6 DEF Candidates
<1>3. ByteCount(c, m, a, h) \in Nat \ {0}
  <2>1. CASE m >= SameStart
    BY <2>1 DEF ByteCount
  <2>2. CASE ~ (m >= SameStart)
    <3>1. m < SameStart
      BY <2>2, SlotsType, CacheAssumption DEF Modes
    <3>2. Delta(c, m, a, h) \in Nat
      BY <3>1, <1>2, CandidateLen
    <3>3. SizeofSize(Delta(c, m, a, h)) \in Nat \ {0}
      <4>. HIDE DEF Delta
      <4>1. Delta(c, m, a, h) <= Delta(c, m, a, h)
        BY <3>2
      <4>. QED BY <3>2, <4>1, SizeFacts
    <3>. QED BY <2>2, <3>3 DEF ByteCount
  <2>. QED BY <2>1, <2>2
<1>4. CASE e.bytes = <<slot % SameBlock>>
  <2>1. Len(e.bytes) = 1
    BY <1>4
  <2>. QED BY <2>1, <1>3 DEF e
<1>5. ASSUME NEW k \in Candidates(c, a), e.mode = k,
             e.bytes = EmitInt(Delta(c, k, a, h)),
             Delta(c, k, a, h) % UintMod < Radix
      PROVE  Len(e.bytes) <= ByteCount(c, m, a, h)
  <2>0. k < SameStart
    BY SlotsType, CacheAssumption DEF Candidates
  <2>1. /\ Delta(c, k, a, h) \in Nat /\ Delta(c, k, a, h) < Radix
        /\ Len(e.bytes) = SizeofSize(Delta(c, k, a, h))
    BY <1>0, <1>5, <2>0, CandidateLen
  <2>2. SizeofSize(Delta(c, k, a, h)) = 1
    <3>1. Delta(c, k, a, h) <= Delta(c, k, a, h)
      BY <2>1
    <3>. QED BY <2>1, <3>1, SizeFacts
  <2>. QED BY <2>1, <2>2, <1>3
<1>6. ASSUME NEW k \in Candidates(c, a), e.bytes = EmitInt(Delta(c, k, a, h)),
             a # 0, c.same[slot] # a,
             \A n \in Candidates(c, a) : Delta(c, k, a, h) <= Delta(c, n, a, h)
      PROVE  Len(e.bytes) <= ByteCount(c, m, a, h)
  <2>1. /\ Delta(c, k, a, h) \in Nat
        /\ Len(e.bytes) = SizeofSize(Delta(c, k, a, h))
    BY <1>6, CandidateLen
  <2>2. m < SameStart
    <3>. SUFFICES ASSUME ~ (m < SameStart) PROVE FALSE
      OBVIOUS
    <3>1. m \in Nat /\ m >= SameStart /\ ~ (m < 2) /\ ~ (m \in 2 .. SameStart - 1)
      BY SlotsType, CacheAssumption DEF Modes
    <3>2. PICK b \in 0 .. SameBlock - 1 : c.same[(m - SameStart) * SameBlock + b] = a
      BY <3>1 DEF Reaches
    <3>3. b \in Byte
      BY DEF Byte, SameBlock
    <3>. DEFINE s == (m - SameStart) * SameBlock + b
    <3>4. s \in SameSlots
      BY <3>1, <3>3, SameSlotType
    <3>5. c.same[s] = a
      BY <3>2
    <3>. HIDE DEF s
    <3>6. a % (SSame * SameBlock) = s
      BY <3>4, <3>5, <1>6 DEF SlotsTrue
    <3>. QED BY <3>5, <3>6, <1>6
  <2>3. m \in Candidates(c, a) /\ ~ (m >= SameStart)
    BY <1>2, <2>2, SlotsType, CacheAssumption DEF Modes
  <2>4. Delta(c, m, a, h) \in Nat /\ Delta(c, k, a, h) <= Delta(c, m, a, h)
    BY <2>3, <1>6, CandidateLen
  <2>5. SizeofSize(Delta(c, k, a, h)) <= SizeofSize(Delta(c, m, a, h))
    BY <2>1, <2>4, SizeFacts
  <2>. QED BY <2>1, <2>3, <2>5 DEF ByteCount
<1>. QED BY <1>1, <1>4, <1>5, <1>6 DEF e

\* The address is as short as it can be, as the comment in xd3_encode_address
\* says, save one whose own distance the mask of SMALLEST_INT takes for a byte:
\* for every size of the caches and every position.
THEOREM NoShorterMode == Spec => []ShortestUnlessMasked
<1>1. AInv => ShortestUnlessMasked
  <2>. SUFFICES ASSUME AInv, NEW a \in 0 .. here - 1,
                       ~ Masked(EncodeAddress(enc, a, here).mode, a),
                       NEW m \in Modes, Reaches(enc, m, a)
                PROVE  Len(EncodeAddress(enc, a, here).bytes) <= ByteCount(enc, m, a, here)
    BY DEF ShortestUnlessMasked, ShortestFor
  <2>1. enc \in Cache /\ SlotsTrue(enc) /\ here \in 0 .. MaxHere
    BY DEF AInv
  <2>2. a \in Nat /\ here \in Nat /\ here \in Usize /\ a < here
    BY <2>1, HereType
  <2>. DEFINE d == Delta(enc, EncodeAddress(enc, a, here).mode, a, here)
  <2>3. ASSUME EncodeAddress(enc, a, here).mode < SameStart, d % UintMod < Radix
        PROVE  d < Radix
    <3>. DEFINE e    == EncodeAddress(enc, a, here)
                slot == a % (SSame * SameBlock)
    <3>1. e.mode \in Candidates(enc, a) \/ e.mode = SameStart + slot \div SameBlock
      BY <2>1, <2>2, ModeChosen
    <3>2. slot \in Nat
      BY <2>2, SlotsType
    <3>. HIDE DEF e, slot
    <3>3. SameBlock \in Nat \ {0} /\ SameStart \in Nat
      BY SlotsType
    <3>4. slot \div SameBlock \in Nat
      BY <3>2, <3>3
    <3>5. e.mode \in Candidates(enc, a)
      BY <2>3, <3>1, <3>3, <3>4 DEF e
    <3>6. d \in Nat
      BY <2>1, <2>2, <3>5, CandidateLen DEF e
    <3>. QED BY <2>3, <3>6, IntAssumption DEF Masked
  <2>. QED BY <2>1, <2>2, <2>3, ChosenIsShortest
<1>. QED BY <1>1, AInvAlways, PTL

-----------------------------------------------------------------------------
(* Sequences of sequences, one behind the other.                           *)

\* f[i] is what the first i sequences of s make, one after the other.
Flattens(f, s) ==
  \A i \in 1 .. Len(s) : f[i] = IF i = 1 THEN s[i] ELSE f[i - 1] \o s[i]

\* f and g have the same first n values.
Agree(f, g, n) == \A i \in 1 .. n : f[i] = g[i]

\* A function on 1 .. n is a sequence.
LEMMA FunctionIsSeq ==
  ASSUME NEW X, NEW n \in Nat, NEW f \in [1 .. n -> X]
  PROVE  f \in Seq(X)
OBVIOUS

\* What flattens s agrees with what flattens a sequence that begins with s.
LEMMA FlattensAgree ==
  ASSUME NEW X, NEW s \in Seq(Seq(X)), NEW t \in Seq(Seq(X)), Len(s) <= Len(t),
         Agree(s, t, Len(s)), NEW f, NEW g, Flattens(f, s), Flattens(g, t)
  PROVE  Agree(f, g, Len(s))
<1>. DEFINE S == {n \in Nat : n \in 1 .. Len(s) => f[n] = g[n]}
<1>1. 0 \in S
  OBVIOUS
<1>2. ASSUME NEW n \in Nat, n \in S PROVE n + 1 \in S
  <2>. SUFFICES ASSUME n + 1 \in 1 .. Len(s) PROVE f[n + 1] = g[n + 1]
    OBVIOUS
  <2>1. n + 1 \in 1 .. Len(t) /\ t[n + 1] = s[n + 1]
    BY DEF Agree
  <2>2. f[n + 1] = IF n + 1 = 1 THEN s[n + 1] ELSE f[(n + 1) - 1] \o s[n + 1]
    BY DEF Flattens
  <2>3. g[n + 1] = IF n + 1 = 1 THEN t[n + 1] ELSE g[(n + 1) - 1] \o t[n + 1]
    BY <2>1 DEF Flattens
  <2>4. CASE n = 0
    BY <2>1, <2>2, <2>3, <2>4
  <2>5. CASE n # 0
    <3>1. n \in 1 .. Len(s) /\ (n + 1) - 1 = n /\ n + 1 # 1
      BY <2>5
    <3>2. f[n] = g[n]
      BY <1>2, <3>1
    <3>. QED BY <2>1, <2>2, <2>3, <3>1, <3>2
  <2>. QED BY <2>4, <2>5
<1>. HIDE DEF S
<1>3. Nat \subseteq S
  BY <1>1, <1>2, NatSets
<1>. QED BY <1>3 DEF S, Agree

\* Every sequence of sequences has a function that flattens it: by induction,
\* over the set of the lengths up to which there is one.
LEMMA FlattensExists ==
  ASSUME NEW X, NEW s \in Seq(Seq(X))
  PROVE  \E f \in [1 .. Len(s) -> Seq(X)] : Flattens(f, s)
<1>. DEFINE Has(n) == \E f \in [1 .. n -> Seq(X)] :
                        \A i \in 1 .. n : f[i] = IF i = 1 THEN s[i] ELSE f[i - 1] \o s[i]
            S == {n \in Nat : n <= Len(s) => Has(n)}
<1>1. 0 \in S
  <2>1. [i \in 1 .. 0 |-> <<>>] \in [1 .. 0 -> Seq(X)]
    OBVIOUS
  <2>2. 1 .. 0 = {}
    OBVIOUS
  <2>3. Has(0)
    BY <2>1, <2>2
  <2>. QED BY <2>3
<1>2. ASSUME NEW n \in Nat, n \in S PROVE n + 1 \in S
  <2>. SUFFICES ASSUME n + 1 <= Len(s) PROVE Has(n + 1)
    <3>. HIDE DEF Has
    <3>. QED OBVIOUS
  <2>1. Has(n)
    <3>. HIDE DEF Has
    <3>. QED BY <1>2
  <2>2. PICK f \in [1 .. n -> Seq(X)] :
          \A i \in 1 .. n : f[i] = IF i = 1 THEN s[i] ELSE f[i - 1] \o s[i]
    BY <2>1
  <2>. DEFINE v == IF n = 0 THEN s[n + 1] ELSE f[n] \o s[n + 1]
              g == [i \in 1 .. n + 1 |-> IF i = n + 1 THEN v ELSE f[i]]
  <2>3. v \in Seq(X)
    <3>1. n + 1 \in 1 .. Len(s)
      OBVIOUS
    <3>2. s[n + 1] \in Seq(X)
      BY <3>1
    <3>3. n # 0 => f[n] \in Seq(X)
      OBVIOUS
    <3>. QED BY <3>2, <3>3
  <2>. HIDE DEF Has
  <2>4. g \in [1 .. n + 1 -> Seq(X)]
    <3>. HIDE DEF v
    <3>. QED BY <2>3
  <2>5. \A i \in 1 .. n + 1 : g[i] = IF i = 1 THEN s[i] ELSE g[i - 1] \o s[i]
    <3>. SUFFICES ASSUME NEW i \in 1 .. n + 1
                  PROVE  g[i] = IF i = 1 THEN s[i] ELSE g[i - 1] \o s[i]
      OBVIOUS
    <3>1. CASE i = n + 1
      <4>1. g[i] = v
        BY <3>1
      <4>2. n = 0 <=> i = 1
        BY <3>1
      <4>3. n # 0 => g[i - 1] = f[n]
        <5>. HIDE DEF v
        <5>1. n # 0 => i - 1 = n /\ n \in 1 .. n + 1 /\ n # n + 1
          BY <3>1
        <5>. QED BY <5>1
      <4>. HIDE DEF g
      <4>. QED BY <3>1, <4>1, <4>2, <4>3
    <3>2. CASE i # n + 1
      <4>1. i \in 1 .. n
        BY <3>2
      <4>2. i # 1 => i - 1 \in 1 .. n + 1 /\ i - 1 # n + 1
        OBVIOUS
      <4>. HIDE DEF v
      <4>3. g[i] = f[i]
        BY <3>2
      <4>4. i # 1 => g[i - 1] = f[i - 1]
        BY <4>2
      <4>. HIDE DEF g
      <4>. QED BY <2>2, <4>1, <4>3, <4>4
    <3>. QED BY <3>1, <3>2
  <2>. HIDE DEF g
  <2>. QED BY <2>4, <2>5 DEF Has
<1>. HIDE DEF S, Has
<1>3. Len(s) \in S
  BY <1>1, <1>2, NatSets
<1>4. Has(Len(s))
  BY <1>3 DEF S
<1>. QED BY <1>4 DEF Has, Flattens

\* The last value of such a function is the flattened sequence.
LEMMA FlattenSteps ==
  ASSUME NEW X, NEW s \in Seq(Seq(X)), Len(s) > 0
  PROVE  \E f \in [1 .. Len(s) -> Seq(X)] :
           Flattens(f, s) /\ Codes!FlattenSeq(s) = f[Len(s)]
<1>. DEFINE n == Len(s)
            D(h) == [i \in 1 .. n |-> IF i = 1 THEN s[i] ELSE h[i - 1] \o s[i]]
            h == CHOOSE h : h = D(h)
<1>1. PICK f \in [1 .. n -> Seq(X)] : Flattens(f, s)
  BY FlattensExists
<1>2. f = D(f)
  <2>1. \A i \in 1 .. n : f[i] = D(f)[i]
    BY <1>1 DEF Flattens
  <2>2. DOMAIN f = 1 .. n /\ f = [i \in 1 .. n |-> f[i]]
    OBVIOUS
  <2>3. D(f) = [i \in 1 .. n |-> D(f)[i]]
    OBVIOUS
  <2>. HIDE DEF D
  <2>. QED BY <2>1, <2>2, <2>3
<1>. HIDE DEF D
<1>3. h = D(h)
  BY <1>2
<1>. HIDE DEF h
<1>4. Flattens(h, s)
  <2>1. \A i \in 1 .. n : D(h)[i] = IF i = 1 THEN s[i] ELSE h[i - 1] \o s[i]
    BY DEF D
  <2>. QED BY <1>3, <2>1 DEF Flattens
<1>5. h[n] = f[n]
  <2>1. n <= n /\ n \in 1 .. n
    OBVIOUS
  <2>2. Agree(s, s, Len(s))
    BY DEF Agree
  <2>3. Agree(h, f, Len(s))
    BY <1>1, <1>4, <2>1, <2>2, FlattensAgree
  <2>. QED BY <2>1, <2>3 DEF Agree
<1>6. Codes!FlattenSeq(s) = h[n]
  BY DEF Codes!FlattenSeq, h, D
<1>. QED BY <1>1, <1>5, <1>6

\* What another sequence adds to the flattened one.
LEMMA FlattenAppend ==
  ASSUME NEW X, NEW s \in Seq(Seq(X)), NEW x \in Seq(X)
  PROVE  /\ Codes!FlattenSeq(s) \in Seq(X)
         /\ Codes!FlattenSeq(Append(s, x)) = Codes!FlattenSeq(s) \o x
<1>. DEFINE t == Append(s, x)
            n == Len(s)
<1>1. t \in Seq(Seq(X)) /\ Len(t) = n + 1 /\ t[n + 1] = x /\ n \in Nat
  OBVIOUS
<1>2. \A i \in 1 .. n : t[i] = s[i]
  OBVIOUS
<1>3. Len(t) > 0 /\ t \in Seq(Seq(X)) /\ n <= Len(t) /\ n + 1 \in 1 .. Len(t)
  BY <1>1
<1>4. ASSUME n # 0 PROVE n \in 1 .. n /\ n \in 1 .. Len(t) /\ Len(s) > 0
  BY <1>1, <1>4
<1>. HIDE DEF t
<1>5. PICK g \in [1 .. Len(t) -> Seq(X)] :
        Flattens(g, t) /\ Codes!FlattenSeq(t) = g[Len(t)]
  BY <1>3, FlattenSteps
<1>6. g[n + 1] = IF n + 1 = 1 THEN x ELSE g[(n + 1) - 1] \o x
  BY <1>1, <1>3, <1>5 DEF Flattens
<1>7. CASE n = 0
  <2>1. s = <<>>
    BY <1>7
  <2>2. Codes!FlattenSeq(s) = s
    BY <1>7 DEF Codes!FlattenSeq
  <2>3. Codes!FlattenSeq(s) \in Seq(X)
    <3>1. <<>> \in Seq(X)
      OBVIOUS
    <3>. QED BY <2>1, <2>2, <3>1, Zenon
  <2>4. g[n + 1] = x
    BY <1>6, <1>7
  <2>5. <<>> \o x = x
    OBVIOUS
  <2>6. Codes!FlattenSeq(t) = x
    BY <1>1, <1>5, <2>4
  <2>7. Codes!FlattenSeq(s) \o x = x
    BY <2>1, <2>2, <2>5
  <2>. QED BY <2>3, <2>6, <2>7 DEF t
<1>8. CASE n # 0
  <2>1. PICK f \in [1 .. n -> Seq(X)] :
          Flattens(f, s) /\ Codes!FlattenSeq(s) = f[n]
    BY <1>4, <1>8, FlattenSteps
  <2>2. \A i \in 1 .. n : f[i] = g[i]
    <3>1. Agree(s, t, Len(s))
      BY <1>2 DEF Agree
    <3>2. Agree(f, g, Len(s))
      BY <1>3, <1>5, <2>1, <3>1, FlattensAgree
    <3>. QED BY <3>2 DEF Agree
  <2>3. f[n] = g[n] /\ f[n] \in Seq(X)
    BY <1>4, <1>8, <2>2
  <2>4. g[n + 1] = g[n] \o x
    BY <1>1, <1>6, <1>8
  <2>5. Codes!FlattenSeq(s) \in Seq(X)
    BY <2>1, <2>3
  <2>6. Codes!FlattenSeq(t) = g[n + 1]
    BY <1>1, <1>5
  <2>7. Codes!FlattenSeq(t) = Codes!FlattenSeq(s) \o x
    BY <2>1, <2>3, <2>4, <2>6
  <2>. QED BY <2>5, <2>7 DEF t
<1>. QED BY <1>7, <1>8

\* Where the elements of two sequences are in their concatenation.
LEMMA ConcatFacts ==
  ASSUME NEW X, NEW p \in Seq(X), NEW q \in Seq(X)
  PROVE  /\ p \o q \in Seq(X)
         /\ Len(p) \in Nat /\ Len(q) \in Nat /\ Len(p \o q) = Len(p) + Len(q)
         /\ \A k \in 1 .. Len(p) : (p \o q)[k] = p[k]
         /\ \A k \in 1 .. Len(q) : (p \o q)[Len(p) + k] = q[k]
OBVIOUS

\* S[i] is the length of the first i sequences of s.
Lengths(S, s, n) ==
  /\ \A i \in 0 .. n : S[i] \in Nat
  /\ S[0] = 0 /\ \A i \in 1 .. n : S[i] = S[i - 1] + Len(s[i])

\* The elements of s[i] are in r behind S[i - 1].
Placed(r, S, s, n) ==
  /\ Len(r) = S[n]
  /\ \A i \in 1 .. n : \A k \in 1 .. Len(s[i]) : r[S[i - 1] + k] = s[i][k]

\* By the same induction, where the elements are in what the steps make.
LEMMA StepsAt ==
  ASSUME NEW X, NEW n \in Nat \ {0}, NEW s \in [1 .. n -> Seq(X)], Len(s) = n,
         NEW S, Lengths(S, s, n), NEW f \in [1 .. n -> Seq(X)], Flattens(f, s),
         NEW r, r = f[n]
  PROVE  Placed(r, S, s, n)
<1>. DEFINE Has(m) == /\ Len(f[m]) = S[m]
                      /\ \A i \in 1 .. m : \A k \in 1 .. Len(s[i]) :
                           f[m][S[i - 1] + k] = s[i][k] /\ S[i - 1] + k <= S[m]
            P == {m \in Nat : m + 1 <= n => Has(m + 1)}
<1>. HIDE DEF Has
<1>2. 0 \in P
  <2>1. f[1] = s[1] /\ S[0] = 0 /\ S[1] = S[0] + Len(s[1])
    BY DEF Flattens, Lengths
  <2>2. \A i \in 1 .. 1 : i = 1 /\ i - 1 = 0
    OBVIOUS
  <2>3. s[1] \in Seq(X)
    OBVIOUS
  <2>4. Has(1)
    BY <2>1, <2>2, <2>3 DEF Has
  <2>. QED BY <2>4
<1>3. ASSUME NEW m \in Nat, m \in P PROVE m + 1 \in P
  <2>. SUFFICES ASSUME (m + 1) + 1 <= n PROVE Has((m + 1) + 1)
    OBVIOUS
  <2>. DEFINE a == m + 1
              b == a + 1
  <2>1. a \in 1 .. n /\ b \in 1 .. n /\ b # 1 /\ b - 1 = a /\ a \in Nat
    OBVIOUS
  <2>2. Has(a)
    BY <1>3, <2>1
  <2>. HIDE DEF a, b, P
  <2>3. f[b] = f[a] \o s[b]
    BY <2>1 DEF Flattens
  <2>4. f[a] \in Seq(X) /\ s[b] \in Seq(X)
    BY <2>1
  <2>10. S[a] \in Nat /\ S[b] \in Nat
    BY <2>1 DEF Lengths
  <2>5. Len(f[a]) = S[a]
    BY <2>2 DEF Has
  <2>6. S[b] = S[a] + Len(s[b])
    BY <2>1 DEF Lengths
  <2>. DEFINE c == f[a] \o s[b]
  <2>0. /\ Len(s[b]) \in Nat /\ Len(c) = Len(f[a]) + Len(s[b])
        /\ \A k \in 1 .. Len(f[a]) : c[k] = f[a][k]
        /\ \A k \in 1 .. Len(s[b]) : c[Len(f[a]) + k] = s[b][k]
    <3>. DEFINE p == f[a]
                q == s[b]
    <3>1. p \in Seq(X) /\ q \in Seq(X)
      BY <2>4
    <3>. HIDE DEF p, q
    <3>2. /\ Len(q) \in Nat /\ Len(p \o q) = Len(p) + Len(q)
          /\ \A k \in 1 .. Len(p) : (p \o q)[k] = p[k]
          /\ \A k \in 1 .. Len(q) : (p \o q)[Len(p) + k] = q[k]
      BY <3>1, ConcatFacts
    <3>. QED BY <3>2 DEF p, q
  <2>. HIDE DEF c
  <2>7. Len(f[b]) = S[b]
    BY <2>3, <2>5, <2>6, <2>0 DEF c
  <2>8. ASSUME NEW i \in 1 .. b, NEW k \in 1 .. Len(s[i])
        PROVE  f[b][S[i - 1] + k] = s[i][k] /\ S[i - 1] + k <= S[b]
    <3>1. CASE i = b
      <4>1. i - 1 = a
        BY <2>1, <3>1
      <4>2. c[Len(f[a]) + k] = s[b][k]
        BY <2>0, <3>1
      <4>3. S[a] + k <= S[b]
        BY <2>10, <2>0, <2>6, <3>1
      <4>. QED BY <2>3, <2>5, <3>1, <4>1, <4>2, <4>3 DEF c
    <3>2. CASE i # b
      <4>1. i \in 1 .. a /\ i - 1 \in 0 .. n /\ i \in 1 .. n
        BY <2>1, <3>2
      <4>2. f[a][S[i - 1] + k] = s[i][k] /\ S[i - 1] + k <= S[a]
        BY <2>2, <4>1 DEF Has
      <4>6. S[i - 1] \in Nat /\ k \in Int
        BY <4>1 DEF Lengths
      <4>3. S[i - 1] + k \in 1 .. Len(f[a])
        <5>1. s[i] \in Seq(X)
          BY <4>1
        <5>2. Len(s[i]) \in Nat
          BY <5>1
        <5>3. k \in Nat /\ k >= 1
          BY <5>2
        <5>4. S[i - 1] + k \in Nat /\ S[i - 1] + k >= 1 /\ S[i - 1] + k <= Len(f[a])
          BY <2>5, <4>2, <4>6, <5>3
        <5>. QED BY <2>5, <2>10, <5>4
      <4>4. c[S[i - 1] + k] = f[a][S[i - 1] + k]
        BY <2>0, <4>3
      <4>5. S[a] <= S[b]
        BY <2>10, <2>0, <2>6
      <4>7. f[b][S[i - 1] + k] = s[i][k]
        BY <2>3, <4>2, <4>4 DEF c
      <4>8. S[i - 1] + k <= S[b]
        <5>1. \A u \in Int, v \in Nat, w \in Nat : u <= v /\ v <= w => u <= w
          OBVIOUS
        <5>2. S[i - 1] + k \in Int
          BY <4>6
        <5>. QED BY <2>10, <4>2, <4>5, <5>1, <5>2
      <4>. QED BY <4>7, <4>8
    <3>. QED BY <3>1, <3>2
  <2>9. Has(b)
    BY <2>7, <2>8 DEF Has
  <2>. QED BY <2>9 DEF a, b
<1>. HIDE DEF P
<1>4. n - 1 \in P
  <2>1. Nat \subseteq P
    BY <1>2, <1>3, NatSets
  <2>. QED BY <2>1
<1>5. n - 1 \in Nat /\ (n - 1) + 1 = n /\ n <= n
  OBVIOUS
<1>6. Has(n)
  BY <1>4, <1>5 DEF P
<1>. QED BY <1>6 DEF Has, Placed

\* Where the elements of each sequence go.
LEMMA FlattenAt ==
  ASSUME NEW X, NEW n \in Nat \ {0}, NEW s \in [1 .. n -> Seq(X)],
         NEW S, Lengths(S, s, n)
  PROVE  /\ Codes!FlattenSeq(s) \in Seq(X)
         /\ Placed(Codes!FlattenSeq(s), S, s, n)
<1>1. s \in Seq(Seq(X)) /\ Len(s) = n
  OBVIOUS
<1>2. Len(s) > 0 /\ n \in 1 .. n
  BY <1>1
<1>3. PICK f \in [1 .. n -> Seq(X)] :
        Flattens(f, s) /\ Codes!FlattenSeq(s) = f[n]
  <2>1. \E f \in [1 .. Len(s) -> Seq(X)] :
           Flattens(f, s) /\ Codes!FlattenSeq(s) = f[Len(s)]
    BY <1>1, <1>2, FlattenSteps
  <2>. QED BY <1>1, <2>1
<1>. DEFINE r == Codes!FlattenSeq(s)
<1>4. Placed(r, S, s, n)
  <2>1. Len(s) = n /\ Flattens(f, s) /\ r = f[n]
    BY <1>1, <1>3
  <2>. HIDE DEF r
  <2>. QED BY <2>1, StepsAt
<1>. QED BY <1>2, <1>3, <1>4

-----------------------------------------------------------------------------
(* The code table.                                                         *)

\* A row of the table, and the instructions it has rows for.
Entry == [type1 : Nat, size1 : Nat, type2 : Nat, size2 : Nat]
RunOne == Codes!Single(2, 0)
AddOne(s) == Codes!Single(1, s)
CopyOne(m, k) == Codes!Single(3 + m, IF k = 1 THEN 0 ELSE k + 2)
AddCopy(a, m, k) == Codes!Double(1, a, 3 + m, 3 + k)
CopyAdd(m) == Codes!Double(3 + m, 4, 1, 1)

\* Where the opcodes are in t.
IsTable(t) ==
  /\ Len(t) = 256
  /\ t[1] = RunOne
  /\ \A s \in 0 .. 17 : t[s + 2] = AddOne(s)
  /\ \A m \in 0 .. 8, k \in 1 .. 16 : t[19 + 16 * m + k] = CopyOne(m, k)
  /\ \A m \in 0 .. 5, a \in 1 .. 4, k \in 1 .. 3 :
       t[163 + 12 * m + 3 * (a - 1) + k] = AddCopy(a, m, k)
  /\ \A m \in 6 .. 8, a \in 1 .. 4 : t[235 + 4 * (m - 6) + a] = AddCopy(a, m, 1)
  /\ \A m \in 0 .. 8 : t[248 + m] = CopyAdd(m)

\* Single and Double make rows of the table.
LEMMA EntryType ==
  ASSUME NEW a \in Nat, NEW b \in Nat, NEW c \in Nat, NEW d \in Nat
  PROVE  Codes!Single(a, b) \in Entry /\ Codes!Double(a, b, c, d) \in Entry
BY DEF Codes!Single, Codes!Double, Codes!NOOP, Entry

\* The rows of the COPYs: 16 of each mode.
Copies == Codes!ForModes(Codes!CopyEntries)
LEMMA CopiesAt ==
  /\ Copies \in Seq(Entry) /\ Len(Copies) = 144
  /\ \A m \in 0 .. 8, k \in 1 .. 16 : Copies[16 * m + k] = CopyOne(m, k)
<1>. DEFINE s == [m \in 1 .. 9 |-> Codes!CopyEntries(m - 1)]
            S == [i \in 0 .. 9 |-> 16 * i]
<1>1. Copies = Codes!FlattenSeq(s)
  BY DEF Copies, Codes!ForModes, Codes!CopyModes, Codes!Desc
<1>2. ASSUME NEW m \in 0 .. 8
      PROVE  Codes!CopyEntries(m) = [k \in 1 .. 16 |-> CopyOne(m, k)]
  BY DEF Codes!CopyEntries, Codes!Desc, CopyOne, Codes!CPY, Codes!MIN_MATCH
<1>3. ASSUME NEW m \in 0 .. 8, NEW k \in 1 .. 16 PROVE CopyOne(m, k) \in Entry
  BY EntryType DEF CopyOne
<1>4. ASSUME NEW i \in 1 .. 9
      PROVE  /\ s[i] \in Seq(Entry) /\ Len(s[i]) = 16
             /\ \A k \in 1 .. 16 : s[i][k] = CopyOne(i - 1, k)
  <2>. DEFINE c == [k \in 1 .. 16 |-> CopyOne(i - 1, k)]
  <2>1. i - 1 \in 0 .. 8
    OBVIOUS
  <2>2. s[i] = c
    BY <1>2, <2>1
  <2>3. c \in Seq(Entry) /\ Len(c) = 16 /\ \A k \in 1 .. 16 : c[k] = CopyOne(i - 1, k)
    BY <1>3, <2>1
  <2>. QED BY <2>2, <2>3
<1>5. s \in [1 .. 9 -> Seq(Entry)]
  BY <1>4
<1>. HIDE DEF s
<1>6. Lengths(S, s, 9)
  <2>1. \A i \in 0 .. 9 : S[i] = 16 * i
    OBVIOUS
  <2>2. \A i \in 1 .. 9 : i - 1 \in 0 .. 9 /\ i \in 0 .. 9 /\ 16 * i = 16 * (i - 1) + 16
    OBVIOUS
  <2>. HIDE DEF S
  <2>3. \A i \in 1 .. 9 : S[i] = S[i - 1] + Len(s[i])
    BY <1>4, <2>1, <2>2
  <2>4. S[0] = 0 /\ \A i \in 0 .. 9 : S[i] \in Nat
    BY <2>1
  <2>. QED BY <2>3, <2>4 DEF Lengths
<1>7. Copies \in Seq(Entry) /\ Placed(Copies, S, s, 9)
  <2>. HIDE DEF S
  <2>1. 9 \in Nat \ {0}
    OBVIOUS
  <2>. QED BY <1>1, <1>5, <1>6, <2>1, FlattenAt
<1>8. Len(Copies) = 144
  BY <1>7 DEF Placed
<1>9. ASSUME NEW m \in 0 .. 8, NEW k \in 1 .. 16
      PROVE  Copies[16 * m + k] = CopyOne(m, k)
  <2>1. m + 1 \in 1 .. 9 /\ (m + 1) - 1 = m
    OBVIOUS
  <2>2. Copies[S[(m + 1) - 1] + k] = s[m + 1][k]
    <3>1. k \in 1 .. Len(s[m + 1])
      BY <1>4, <2>1
    <3>. HIDE DEF S
    <3>. QED BY <1>7, <2>1, <3>1 DEF Placed
  <2>3. S[(m + 1) - 1] = 16 * m
    BY <2>1
  <2>. HIDE DEF S
  <2>4. s[m + 1][k] = CopyOne(m, k)
    BY <1>4, <2>1
  <2>. QED BY <2>2, <2>3, <2>4
<1>. QED BY <1>7, <1>8, <1>9

\* The pairs of an ADD and a copy of one mode.
LEMMA AddCopiesAt ==
  ASSUME NEW m \in 0 .. 8, NEW w \in {1, 3}, w = IF m < 6 THEN 3 ELSE 1
  PROVE  /\ Codes!AddCopyEntries(m) \in Seq(Entry)
         /\ Len(Codes!AddCopyEntries(m)) = 4 * w
         /\ \A a \in 1 .. 4, k \in 1 .. w :
              Codes!AddCopyEntries(m)[w * (a - 1) + k] = AddCopy(a, m, k)
<1>. DEFINE r == Codes!AddCopyEntries(m)
            max == Codes!CopyMax(m, Codes!Desc.addcopy_near_cpy_max,
                                 Codes!Desc.addcopy_same_cpy_max)
            s == [a \in 1 .. Codes!Desc.addcopy_add_max |->
                    [k \in 1 .. max - Codes!MIN_MATCH + 1 |->
                       Codes!Double(Codes!ADD, a, Codes!CPY + m, Codes!MIN_MATCH + k - 1)]]
            S == [i \in 0 .. 4 |-> w * i]
<1>1. r = Codes!FlattenSeq(s)
  BY DEF Codes!AddCopyEntries
<1>2. max - Codes!MIN_MATCH + 1 = w /\ Codes!Desc.addcopy_add_max = 4
  BY DEF Codes!CopyMax, Codes!Desc, Codes!MIN_MATCH
<1>. HIDE DEF max, r
<1>3. ASSUME NEW a \in 1 .. 4
      PROVE  /\ s[a] \in Seq(Entry) /\ Len(s[a]) = w
             /\ \A k \in 1 .. w : s[a][k] = AddCopy(a, m, k)
  <2>. DEFINE c == [k \in 1 .. w |-> AddCopy(a, m, k)]
  <2>1. \A k \in 1 .. w : Codes!Double(Codes!ADD, a, Codes!CPY + m, Codes!MIN_MATCH + k - 1)
                            = AddCopy(a, m, k)
    <3>1. \A k \in 1 .. w : 4 + k - 1 = 3 + k
      OBVIOUS
    <3>. QED BY <3>1 DEF AddCopy, Codes!ADD, Codes!CPY, Codes!MIN_MATCH
  <2>2. s[a] = c
    BY <1>2, <2>1
  <2>3. \A k \in 1 .. w : AddCopy(a, m, k) \in Entry
    BY EntryType DEF AddCopy
  <2>4. c \in Seq(Entry) /\ Len(c) = w /\ \A k \in 1 .. w : c[k] = AddCopy(a, m, k)
    BY <2>3
  <2>. HIDE DEF c, s
  <2>. QED BY <2>2, <2>4
<1>4. s \in [1 .. 4 -> Seq(Entry)]
  BY <1>2, <1>3
<1>. HIDE DEF s
<1>5. Lengths(S, s, 4)
  <2>1. \A i \in 0 .. 4 : S[i] = w * i
    OBVIOUS
  <2>2. \A i \in 1 .. 4 : i - 1 \in 0 .. 4 /\ i \in 0 .. 4 /\ w * i = w * (i - 1) + w
    OBVIOUS
  <2>. HIDE DEF S
  <2>3. \A i \in 1 .. 4 : S[i] = S[i - 1] + Len(s[i])
    BY <1>3, <2>1, <2>2
  <2>4. S[0] = 0 /\ \A i \in 0 .. 4 : S[i] \in Nat
    BY <2>1
  <2>. QED BY <2>3, <2>4 DEF Lengths
<1>6. r \in Seq(Entry) /\ Placed(r, S, s, 4)
  <2>. HIDE DEF S
  <2>1. 4 \in Nat \ {0}
    OBVIOUS
  <2>. QED BY <1>1, <1>4, <1>5, <2>1, FlattenAt
<1>7. Len(r) = 4 * w
  BY <1>6 DEF Placed
<1>8. ASSUME NEW a \in 1 .. 4, NEW k \in 1 .. w
      PROVE  r[w * (a - 1) + k] = AddCopy(a, m, k)
  <2>1. S[a - 1] = w * (a - 1)
    OBVIOUS
  <2>. HIDE DEF S
  <2>2. r[S[a - 1] + k] = s[a][k]
    <3>1. k \in 1 .. Len(s[a])
      BY <1>3
    <3>. QED BY <1>6, <3>1 DEF Placed
  <2>3. s[a][k] = AddCopy(a, m, k)
    BY <1>3
  <2>. QED BY <2>1, <2>2, <2>3
<1>. QED BY <1>6, <1>7, <1>8 DEF r

\* The rows of an ADD and a COPY: 12 of each of the modes 0 to 5, then 4.
AddCopies == Codes!ForModes(Codes!AddCopyEntries)
LEMMA AllAddCopiesAt ==
  /\ AddCopies \in Seq(Entry) /\ Len(AddCopies) = 84
  /\ \A m \in 0 .. 5, a \in 1 .. 4, k \in 1 .. 3 :
       AddCopies[12 * m + 3 * (a - 1) + k] = AddCopy(a, m, k)
  /\ \A m \in 6 .. 8, a \in 1 .. 4 : AddCopies[72 + 4 * (m - 6) + a] = AddCopy(a, m, 1)
<1>. DEFINE s == [m \in 1 .. 9 |-> Codes!AddCopyEntries(m - 1)]
            S == [i \in 0 .. 9 |-> IF i <= 6 THEN 12 * i ELSE 72 + 4 * (i - 6)]
<1>1. AddCopies = Codes!FlattenSeq(s)
  BY DEF AddCopies, Codes!ForModes, Codes!CopyModes, Codes!Desc
<1>2. ASSUME NEW i \in 1 .. 6
      PROVE  /\ s[i] \in Seq(Entry) /\ Len(s[i]) = 12
             /\ \A a \in 1 .. 4, k \in 1 .. 3 : s[i][3 * (a - 1) + k] = AddCopy(a, i - 1, k)
  <2>1. i - 1 \in 0 .. 8 /\ 3 \in {1, 3} /\ 3 = (IF i - 1 < 6 THEN 3 ELSE 1) /\ i \in 1 .. 9
    OBVIOUS
  <2>2. s[i] = Codes!AddCopyEntries(i - 1)
    BY <2>1
  <2>. HIDE DEF s
  <2>3. /\ Codes!AddCopyEntries(i - 1) \in Seq(Entry)
        /\ Len(Codes!AddCopyEntries(i - 1)) = 4 * 3
        /\ \A a \in 1 .. 4, k \in 1 .. 3 :
              Codes!AddCopyEntries(i - 1)[3 * (a - 1) + k] = AddCopy(a, i - 1, k)
    BY <2>1, AddCopiesAt
  <2>. QED BY <2>2, <2>3
<1>3. ASSUME NEW i \in 7 .. 9
      PROVE  /\ s[i] \in Seq(Entry) /\ Len(s[i]) = 4
             /\ \A a \in 1 .. 4 : s[i][a] = AddCopy(a, i - 1, 1)
  <2>1. i - 1 \in 0 .. 8 /\ 1 \in {1, 3} /\ 1 = (IF i - 1 < 6 THEN 3 ELSE 1) /\ i \in 1 .. 9
    OBVIOUS
  <2>2. s[i] = Codes!AddCopyEntries(i - 1)
    BY <2>1
  <2>. HIDE DEF s
  <2>3. /\ Codes!AddCopyEntries(i - 1) \in Seq(Entry)
        /\ Len(Codes!AddCopyEntries(i - 1)) = 4 * 1
        /\ \A a \in 1 .. 4, k \in 1 .. 1 :
              Codes!AddCopyEntries(i - 1)[1 * (a - 1) + k] = AddCopy(a, i - 1, k)
    BY <2>1, AddCopiesAt
  <2>4. \A a \in 1 .. 4 : 1 * (a - 1) + 1 = a /\ 1 \in 1 .. 1
    OBVIOUS
  <2>. QED BY <2>2, <2>3, <2>4
<1>4. s \in [1 .. 9 -> Seq(Entry)]
  <2>1. \A i \in 1 .. 9 : i \in 1 .. 6 \/ i \in 7 .. 9
    OBVIOUS
  <2>. QED BY <1>2, <1>3, <2>1
<1>. HIDE DEF s
<1>5. /\ \A i \in 0 .. 6 : S[i] = 12 * i
      /\ \A i \in 6 .. 9 : S[i] = 72 + 4 * (i - 6)
  OBVIOUS
<1>. HIDE DEF S
<1>6. Lengths(S, s, 9)
  <2>1. \A i \in 1 .. 6 : S[i] = S[i - 1] + Len(s[i])
    <3>1. \A i \in 1 .. 6 : i - 1 \in 0 .. 6 /\ i \in 0 .. 6 /\ 12 * i = 12 * (i - 1) + 12
      OBVIOUS
    <3>. QED BY <1>2, <1>5, <3>1
  <2>2. \A i \in 7 .. 9 : S[i] = S[i - 1] + Len(s[i])
    <3>1. \A i \in 7 .. 9 : /\ i - 1 \in 6 .. 9 /\ i \in 6 .. 9
                             /\ 72 + 4 * (i - 6) = 72 + 4 * ((i - 1) - 6) + 4
      OBVIOUS
    <3>. QED BY <1>3, <1>5, <3>1
  <2>3. S[0] = 0
    BY <1>5
  <2>4. \A i \in 0 .. 9 : S[i] \in Nat
    <3>1. \A i \in 0 .. 9 : i \in 0 .. 6 \/ i \in 6 .. 9
      OBVIOUS
    <3>2. \A i \in 0 .. 6 : 12 * i \in Nat
      OBVIOUS
    <3>3. \A i \in 6 .. 9 : 72 + 4 * (i - 6) \in Nat
      OBVIOUS
    <3>. QED BY <1>5, <3>1, <3>2, <3>3
  <2>5. \A i \in 1 .. 9 : i \in 1 .. 6 \/ i \in 7 .. 9
    OBVIOUS
  <2>. QED BY <2>1, <2>2, <2>3, <2>4, <2>5 DEF Lengths
<1>7. AddCopies \in Seq(Entry) /\ Placed(AddCopies, S, s, 9)
  <2>1. 9 \in Nat \ {0}
    OBVIOUS
  <2>. QED BY <1>1, <1>4, <1>6, <2>1, FlattenAt
<1>8. Len(AddCopies) = 84
  BY <1>5, <1>7 DEF Placed
<1>9. ASSUME NEW i \in 1 .. 9, NEW j \in 1 .. Len(s[i])
      PROVE  AddCopies[S[i - 1] + j] = s[i][j]
  BY <1>7 DEF Placed
<1>10. ASSUME NEW m \in 0 .. 5, NEW a \in 1 .. 4, NEW k \in 1 .. 3
       PROVE  AddCopies[12 * m + 3 * (a - 1) + k] = AddCopy(a, m, k)
  <2>. DEFINE i == m + 1
              j == 3 * (a - 1) + k
  <2>1. /\ i \in 1 .. 6 /\ i \in 1 .. 9 /\ i - 1 = m /\ i - 1 \in 0 .. 6 /\ j \in 1 .. 12
        /\ 12 * m + 3 * (a - 1) + k = 12 * m + j
    OBVIOUS
  <2>2. s[i][j] = AddCopy(a, m, k) /\ Len(s[i]) = 12
    BY <1>2, <2>1
  <2>. HIDE DEF i, j
  <2>3. AddCopies[S[i - 1] + j] = s[i][j]
    BY <1>9, <2>1, <2>2
  <2>4. S[i - 1] = 12 * m
    BY <1>5, <2>1
  <2>. QED BY <2>1, <2>2, <2>3, <2>4
<1>11. ASSUME NEW m \in 6 .. 8, NEW a \in 1 .. 4
       PROVE  AddCopies[72 + 4 * (m - 6) + a] = AddCopy(a, m, 1)
  <2>. DEFINE i == m + 1
  <2>1. i \in 7 .. 9 /\ i \in 1 .. 9 /\ i - 1 = m /\ i - 1 \in 6 .. 9
    OBVIOUS
  <2>2. s[i][a] = AddCopy(a, m, 1) /\ Len(s[i]) = 4
    BY <1>3, <2>1
  <2>. HIDE DEF i
  <2>3. AddCopies[S[i - 1] + a] = s[i][a]
    BY <1>9, <2>1, <2>2
  <2>4. S[i - 1] = 72 + 4 * (m - 6)
    BY <1>5, <2>1
  <2>. QED BY <2>2, <2>3, <2>4
<1>. QED BY <1>7, <1>8, <1>10, <1>11

\* The rows of a COPY and an ADD: one of each mode.
CopyAdds == Codes!ForModes(Codes!CopyAddEntries)
LEMMA CopyAddsAt ==
  /\ CopyAdds \in Seq(Entry) /\ Len(CopyAdds) = 9
  /\ \A m \in 0 .. 8 : CopyAdds[1 + m] = CopyAdd(m)
<1>. DEFINE s == [m \in 1 .. 9 |-> Codes!CopyAddEntries(m - 1)]
            S == [i \in 0 .. 9 |-> i]
<1>1. CopyAdds = Codes!FlattenSeq(s)
  BY DEF CopyAdds, Codes!ForModes, Codes!CopyModes, Codes!Desc
<1>2. ASSUME NEW m \in 0 .. 8
      PROVE  /\ Codes!CopyAddEntries(m) \in Seq(Entry) /\ Len(Codes!CopyAddEntries(m)) = 1
             /\ Codes!CopyAddEntries(m)[1] = CopyAdd(m)
  <2>. DEFINE max == Codes!CopyMax(m, Codes!Desc.copyadd_near_cpy_max,
                                   Codes!Desc.copyadd_same_cpy_max)
              u == [k \in 1 .. max - Codes!MIN_MATCH + 1 |->
                      [add \in 1 .. Codes!Desc.copyadd_add_max |->
                         Codes!Double(Codes!CPY + m, Codes!MIN_MATCH + k - 1, Codes!ADD, add)]]
  <2>1. Codes!CopyAddEntries(m) = Codes!FlattenSeq(u)
    BY DEF Codes!CopyAddEntries
  <2>2. max - Codes!MIN_MATCH + 1 = 1 /\ Codes!Desc.copyadd_add_max = 1
    BY DEF Codes!CopyMax, Codes!Desc, Codes!MIN_MATCH
  <2>. HIDE DEF max
  <2>. DEFINE c == [add \in 1 .. 1 |-> CopyAdd(m)]
  <2>3. u[1] = c
    <3>1. \A add \in 1 .. 1 :
            Codes!Double(Codes!CPY + m, Codes!MIN_MATCH + 1 - 1, Codes!ADD, add) = CopyAdd(m)
      <4>1. 4 + 1 - 1 = 4 /\ \A add \in 1 .. 1 : add = 1
        OBVIOUS
      <4>. QED BY <4>1 DEF CopyAdd, Codes!ADD, Codes!CPY, Codes!MIN_MATCH
    <3>. QED BY <2>2, <3>1
  <2>4. CopyAdd(m) \in Entry
    BY EntryType DEF CopyAdd
  <2>5. c \in Seq(Entry) /\ Len(c) = 1 /\ c[1] = CopyAdd(m)
    BY <2>4
  <2>6. Len(u) = 1
    BY <2>2
  <2>7. Codes!FlattenSeq(u) = u[1]
    <3>. HIDE DEF c
    <3>1. u \in [1 .. 1 -> Seq(Entry)]
      <4>1. DOMAIN u = 1 .. 1 /\ \A i \in 1 .. 1 : i = 1
        BY <2>2
      <4>2. u = [i \in 1 .. 1 |-> u[i]]
        BY <2>2
      <4>. HIDE DEF u
      <4>. QED BY <2>3, <2>5, <4>1, <4>2
    <3>. HIDE DEF u
    <3>2. u \in Seq(Seq(Entry)) /\ Len(u) > 0
      <4>1. Len(u) > 0
        BY <2>6
      <4>2. 1 \in Nat
        OBVIOUS
      <4>. QED BY <3>1, <4>1, <4>2, FunctionIsSeq
    <3>3. PICK f \in [1 .. Len(u) -> Seq(Entry)] :
            Flattens(f, u) /\ Codes!FlattenSeq(u) = f[Len(u)]
      BY <2>6, <3>2, FlattenSteps
    <3>4. f[1] = u[1]
      BY <2>6, <3>3 DEF Flattens
    <3>. QED BY <2>6, <3>3, <3>4
  <2>. HIDE DEF u, c
  <2>. QED BY <2>1, <2>3, <2>5, <2>7
<1>3. ASSUME NEW i \in 1 .. 9
      PROVE  s[i] \in Seq(Entry) /\ Len(s[i]) = 1 /\ s[i][1] = CopyAdd(i - 1)
  <2>1. i - 1 \in 0 .. 8 /\ s[i] = Codes!CopyAddEntries(i - 1)
    OBVIOUS
  <2>. HIDE DEF s
  <2>. QED BY <1>2, <2>1
<1>4. s \in [1 .. 9 -> Seq(Entry)]
  BY <1>3
<1>. HIDE DEF s
<1>5. \A i \in 0 .. 9 : S[i] = i
  OBVIOUS
<1>. HIDE DEF S
<1>6. Lengths(S, s, 9)
  <2>1. \A i \in 1 .. 9 : i - 1 \in 0 .. 9 /\ i \in 0 .. 9 /\ i = (i - 1) + 1
    OBVIOUS
  <2>2. \A i \in 1 .. 9 : S[i] = S[i - 1] + Len(s[i])
    BY <1>3, <1>5, <2>1
  <2>3. S[0] = 0 /\ \A i \in 0 .. 9 : S[i] \in Nat
    BY <1>5
  <2>. QED BY <2>2, <2>3 DEF Lengths
<1>7. CopyAdds \in Seq(Entry) /\ Placed(CopyAdds, S, s, 9)
  <2>1. 9 \in Nat \ {0}
    OBVIOUS
  <2>. QED BY <1>1, <1>4, <1>6, <2>1, FlattenAt
<1>8. Len(CopyAdds) = 9
  BY <1>5, <1>7 DEF Placed
<1>9. ASSUME NEW m \in 0 .. 8 PROVE CopyAdds[1 + m] = CopyAdd(m)
  <2>. DEFINE i == m + 1
  <2>1. i \in 1 .. 9 /\ i - 1 = m /\ i - 1 \in 0 .. 9
    OBVIOUS
  <2>. HIDE DEF i
  <2>2. 1 \in 1 .. Len(s[i])
    BY <1>3, <2>1
  <2>3. CopyAdds[S[i - 1] + 1] = s[i][1]
    BY <1>7, <2>1, <2>2 DEF Placed
  <2>4. s[i][1] = CopyAdd(m) /\ S[i - 1] = m
    BY <1>3, <1>5, <2>1
  <2>5. m + 1 = 1 + m
    OBVIOUS
  <2>. QED BY <2>3, <2>4, <2>5
<1>. QED BY <1>7, <1>8, <1>9

\* Two sequences of one element, joined.
LEMMA TwoJoined ==
  ASSUME NEW a, NEW b
  PROVE  <<a>> \o <<b>> = <<a, b>>
<1>. DEFINE p == <<a>>
            q == <<b>>
            c == p \o q
            d == <<a, b>>
            X == {a, b}
<1>1. /\ p \in Seq(X) /\ q \in Seq(X) /\ d \in Seq(X)
      /\ Len(p) = 1 /\ p[1] = a /\ Len(q) = 1 /\ q[1] = b
      /\ Len(d) = 2 /\ d[1] = a /\ d[2] = b
  OBVIOUS
<1>. HIDE DEF p, q, d, X
<1>2. /\ c \in Seq(X) /\ Len(c) = Len(p) + Len(q)
      /\ \A k \in 1 .. Len(p) : c[k] = p[k]
      /\ \A k \in 1 .. Len(q) : c[Len(p) + k] = q[k]
  BY <1>1, ConcatFacts
<1>. HIDE DEF c
<1>3. Len(c) = 2 /\ c[1] = a /\ c[2] = b
  BY <1>1, <1>2
<1>4. \A k \in 1 .. 2 : c[k] = d[k]
  BY <1>1, <1>3
<1>5. c = d
  BY <1>1, <1>2, <1>3, <1>4, SeqEqual
<1>. QED BY <1>5 DEF c, d, p, q

\* c is p, of length n, and then q, of length m.
Joined(c, p, q, n, m) ==
  /\ Len(c) = n + m
  /\ \A k \in 1 .. n : c[k] = p[k]
  /\ \A k \in 1 .. m : c[n + k] = q[k]

\* A concatenation joins its two parts.
LEMMA ConcatJoins ==
  ASSUME NEW X, NEW p \in Seq(X), NEW q \in Seq(X), NEW c, c = p \o q
  PROVE  c \in Seq(X) /\ Joined(c, p, q, Len(p), Len(q))
BY ConcatFacts DEF Joined

\* Every opcode at its place: what the loops of xd3_build_code_table make.
LEMMA TableAt == IsTable(Codes!CodeTableSeq)
<1>. DEFINE A == <<RunOne, AddOne(0)>>
            B == [s \in 1 .. 17 |-> AddOne(s)]
            AB == A \o B
            ABC == AB \o Copies
            ABCD == ABC \o AddCopies
            t == ABCD \o CopyAdds
<1>1. Codes!CodeTableSeq = t
  <2>1. Codes!Desc.add_sizes = 17
    BY DEF Codes!Desc
  <2>2. <<Codes!Single(Codes!RUN, 0), Codes!Single(Codes!ADD, 0)>> = A
    BY DEF RunOne, AddOne, Codes!RUN, Codes!ADD
  <2>3. [s \in 1 .. 17 |-> Codes!Single(Codes!ADD, s)] = B
    BY DEF AddOne, Codes!ADD
  <2>. HIDE DEF A, B
  <2>. QED BY <2>1, <2>2, <2>3 DEF Codes!CodeTableSeq, Copies, AddCopies, CopyAdds
<1>2. /\ A \in Seq(Entry) /\ Len(A) = 2 /\ A[1] = RunOne /\ A[2] = AddOne(0)
      /\ B \in Seq(Entry) /\ Len(B) = 17 /\ \A s \in 1 .. 17 : B[s] = AddOne(s)
  <2>1. RunOne \in Entry /\ \A s \in 0 .. 17 : AddOne(s) \in Entry
    BY EntryType DEF RunOne, AddOne
  <2>. QED BY <2>1
<1>. HIDE DEF A, B, t
<1>. HIDE DEF AB, ABC, ABCD
<1>3. AB \in Seq(Entry) /\ Joined(AB, A, B, 2, 17) /\ Len(AB) = 19
  <2>1. AB = A \o B
    BY DEF AB
  <2>2. A \in Seq(Entry) /\ B \in Seq(Entry)
    BY <1>2
  <2>4. Len(A) = 2 /\ Len(B) = 17
    BY <1>2
  <2>3. AB \in Seq(Entry) /\ Joined(AB, A, B, Len(A), Len(B))
    BY <2>1, <2>2, ConcatJoins, Zenon
  <2>. QED BY <2>3, <2>4 DEF Joined
<1>4. ABC \in Seq(Entry) /\ Joined(ABC, AB, Copies, 19, 144) /\ Len(ABC) = 163
  <2>1. ABC = AB \o Copies
    BY DEF ABC
  <2>2. AB \in Seq(Entry) /\ Copies \in Seq(Entry)
    BY <1>3, CopiesAt
  <2>4. Len(AB) = 19 /\ Len(Copies) = 144
    BY <1>3, CopiesAt
  <2>3. ABC \in Seq(Entry) /\ Joined(ABC, AB, Copies, Len(AB), Len(Copies))
    BY <2>1, <2>2, ConcatJoins, Zenon
  <2>. QED BY <2>3, <2>4 DEF Joined
<1>5. ABCD \in Seq(Entry) /\ Joined(ABCD, ABC, AddCopies, 163, 84) /\ Len(ABCD) = 247
  <2>1. ABCD = ABC \o AddCopies
    BY DEF ABCD
  <2>2. ABC \in Seq(Entry) /\ AddCopies \in Seq(Entry)
    BY <1>4, AllAddCopiesAt
  <2>4. Len(ABC) = 163 /\ Len(AddCopies) = 84
    BY <1>4, AllAddCopiesAt
  <2>3. ABCD \in Seq(Entry) /\ Joined(ABCD, ABC, AddCopies, Len(ABC), Len(AddCopies))
    BY <2>1, <2>2, ConcatJoins, Zenon
  <2>. QED BY <2>3, <2>4 DEF Joined
<1>6. t \in Seq(Entry) /\ Joined(t, ABCD, CopyAdds, 247, 9) /\ Len(t) = 256
  <2>1. t = ABCD \o CopyAdds
    BY DEF t
  <2>2. ABCD \in Seq(Entry) /\ CopyAdds \in Seq(Entry)
    BY <1>5, CopyAddsAt
  <2>4. Len(ABCD) = 247 /\ Len(CopyAdds) = 9
    BY <1>5, CopyAddsAt
  <2>3. t \in Seq(Entry) /\ Joined(t, ABCD, CopyAdds, Len(ABCD), Len(CopyAdds))
    BY <2>1, <2>2, ConcatJoins, Zenon
  <2>. QED BY <2>3, <2>4 DEF Joined
<1>7. ASSUME NEW k \in 1 .. 19 PROVE t[k] = AB[k]
  <2>1. k \in 1 .. 163 /\ k \in 1 .. 247
    OBVIOUS
  <2>2. t[k] = ABCD[k]
    BY <1>6, <2>1 DEF Joined
  <2>3. ABCD[k] = ABC[k]
    BY <1>5, <2>1 DEF Joined
  <2>4. ABC[k] = AB[k]
    BY <1>4 DEF Joined
  <2>. QED BY <2>2, <2>3, <2>4
<1>8. t[1] = RunOne /\ \A s \in 0 .. 17 : t[s + 2] = AddOne(s)
  <2>1. AB[1] = RunOne /\ AB[2] = AddOne(0)
    BY <1>2, <1>3 DEF Joined
  <2>2. t[1] = RunOne /\ t[2] = AddOne(0)
    BY <1>7, <2>1
  <2>3. ASSUME NEW s \in 1 .. 17 PROVE t[s + 2] = AddOne(s)
    <3>1. s + 2 = 2 + s /\ 2 + s \in 1 .. 19
      OBVIOUS
    <3>2. AB[2 + s] = B[s] /\ B[s] = AddOne(s)
      BY <1>2, <1>3 DEF Joined
    <3>. QED BY <1>7, <3>1, <3>2
  <2>4. \A s \in 0 .. 17 : s = 0 \/ s \in 1 .. 17
    OBVIOUS
  <2>. QED BY <2>2, <2>3, <2>4
<1>9. ASSUME NEW m \in 0 .. 8, NEW k \in 1 .. 16
      PROVE  t[19 + 16 * m + k] = CopyOne(m, k)
  <2>. DEFINE j == 16 * m + k
  <2>1. /\ j \in 1 .. 144 /\ 19 + 16 * m + k = 19 + j
        /\ 19 + j \in 1 .. 163 /\ 19 + j \in 1 .. 247
    OBVIOUS
  <2>2. j = 16 * m + k
    OBVIOUS
  <2>. HIDE DEF j
  <2>3. Copies[j] = CopyOne(m, k)
    BY <2>2, CopiesAt
  <2>4. ABC[19 + j] = Copies[j]
    BY <1>4, <2>1 DEF Joined
  <2>5. ABCD[19 + j] = ABC[19 + j]
    BY <1>5, <2>1 DEF Joined
  <2>6. t[19 + j] = ABCD[19 + j]
    BY <1>6, <2>1 DEF Joined
  <2>. QED BY <2>1, <2>3, <2>4, <2>5, <2>6
<1>10. ASSUME NEW k \in 1 .. 84 PROVE t[163 + k] = AddCopies[k]
  <2>1. 163 + k \in 1 .. 247
    OBVIOUS
  <2>2. ABCD[163 + k] = AddCopies[k]
    BY <1>5 DEF Joined
  <2>3. t[163 + k] = ABCD[163 + k]
    BY <1>6, <2>1 DEF Joined
  <2>. QED BY <2>2, <2>3
<1>11. ASSUME NEW m \in 0 .. 5, NEW a \in 1 .. 4, NEW k \in 1 .. 3
       PROVE  t[163 + 12 * m + 3 * (a - 1) + k] = AddCopy(a, m, k)
  <2>. DEFINE j == 12 * m + 3 * (a - 1) + k
  <2>1. j \in 1 .. 84 /\ 163 + 12 * m + 3 * (a - 1) + k = 163 + j
    OBVIOUS
  <2>2. AddCopies[j] = AddCopy(a, m, k)
    BY AllAddCopiesAt
  <2>. HIDE DEF j
  <2>. QED BY <1>10, <2>1, <2>2
<1>12. ASSUME NEW m \in 6 .. 8, NEW a \in 1 .. 4
       PROVE  t[235 + 4 * (m - 6) + a] = AddCopy(a, m, 1)
  <2>. DEFINE j == 72 + 4 * (m - 6) + a
  <2>1. j \in 1 .. 84 /\ 235 + 4 * (m - 6) + a = 163 + j
    OBVIOUS
  <2>2. AddCopies[j] = AddCopy(a, m, 1)
    BY AllAddCopiesAt
  <2>. HIDE DEF j
  <2>. QED BY <1>10, <2>1, <2>2
<1>13. ASSUME NEW m \in 0 .. 8 PROVE t[248 + m] = CopyAdd(m)
  <2>1. 1 + m \in 1 .. 9 /\ 247 + (1 + m) = 248 + m
    OBVIOUS
  <2>2. t[247 + (1 + m)] = CopyAdds[1 + m]
    BY <1>6, <2>1 DEF Joined
  <2>3. CopyAdds[1 + m] = CopyAdd(m)
    BY CopyAddsAt
  <2>. QED BY <2>1, <2>2, <2>3
<1>14. IsTable(t)
  BY <1>6, <1>8, <1>9, <1>11, <1>12, <1>13 DEF IsTable
<1>. QED BY <1>1, <1>14

\* There are no other opcodes.
LEMMA OpcodesAre ==
  ASSUME IsTable(table), NEW e \in Codes!Opcodes
  PROVE  \/ e = RunOne
         \/ \E s \in 0 .. 17 : e = AddOne(s)
         \/ \E m \in 0 .. 8, k \in 1 .. 16 : e = CopyOne(m, k)
         \/ \E m \in 0 .. 8, a \in 1 .. 4, k \in 1 .. 3 :
              (m < 6 \/ k = 1) /\ e = AddCopy(a, m, k)
         \/ \E m \in 0 .. 8 : e = CopyAdd(m)
<1>1. PICK j \in 1 .. 256 : e = table[j]
  BY DEF Codes!Opcodes
<1>2. CASE j = 1
  BY <1>1, <1>2 DEF IsTable
<1>3. CASE j \in 2 .. 19
  <2>1. j - 2 \in 0 .. 17 /\ j = (j - 2) + 2
    BY <1>3
  <2>2. table[(j - 2) + 2] = AddOne(j - 2)
    BY <2>1 DEF IsTable
  <2>. QED BY <1>1, <2>1, <2>2
<1>4. CASE j \in 20 .. 163
  <2>1. \E m \in 0 .. 8, k \in 1 .. 16 : j = 19 + 16 * m + k
    <3>1. (j - 20) \div 16 \in 0 .. 8 /\ ((j - 20) % 16) + 1 \in 1 .. 16
      BY <1>4
    <3>2. j = 19 + 16 * ((j - 20) \div 16) + (((j - 20) % 16) + 1)
      BY <1>4
    <3>. QED BY <3>1, <3>2
  <2>2. PICK m \in 0 .. 8, k \in 1 .. 16 : j = 19 + 16 * m + k
    BY <2>1
  <2>3. table[19 + 16 * m + k] = CopyOne(m, k)
    BY DEF IsTable
  <2>. QED BY <1>1, <2>2, <2>3
<1>5. CASE j \in 164 .. 235
  <2>. DEFINE m == (j - 164) \div 12
              r == (j - 164) % 12
              a == (r \div 3) + 1
              k == (r % 3) + 1
  <2>1. m \in 0 .. 5 /\ r \in 0 .. 11 /\ j = 164 + 12 * m + r
    BY <1>5
  <2>. HIDE DEF m, r
  <2>2. a \in 1 .. 4 /\ k \in 1 .. 3 /\ r = 3 * (a - 1) + k - 1
    BY <2>1
  <2>. HIDE DEF a, k
  <2>3. table[163 + 12 * m + 3 * (a - 1) + k] = AddCopy(a, m, k)
    BY <2>1, <2>2 DEF IsTable
  <2>4. j = 163 + 12 * m + 3 * (a - 1) + k
    BY <2>1, <2>2
  <2>5. m \in 0 .. 8 /\ m < 6
    BY <2>1
  <2>. QED BY <1>1, <2>2, <2>3, <2>4, <2>5
<1>6. CASE j \in 236 .. 247
  <2>. DEFINE m == ((j - 236) \div 4) + 6
              a == ((j - 236) % 4) + 1
  <2>1. m \in 6 .. 8 /\ a \in 1 .. 4 /\ j = 235 + 4 * (m - 6) + a
    BY <1>6
  <2>. HIDE DEF m, a
  <2>2. table[235 + 4 * (m - 6) + a] = AddCopy(a, m, 1)
    BY <2>1 DEF IsTable
  <2>3. m \in 0 .. 8 /\ 1 \in 1 .. 3
    BY <2>1
  <2>. QED BY <1>1, <2>1, <2>2, <2>3
<1>7. CASE j \in 248 .. 256
  <2>1. j - 248 \in 0 .. 8 /\ j = 248 + (j - 248)
    BY <1>7
  <2>2. table[248 + (j - 248)] = CopyAdd(j - 248)
    BY <2>1 DEF IsTable
  <2>. QED BY <1>1, <2>1, <2>2
<1>. QED BY <1>2, <1>3, <1>4, <1>5, <1>6, <1>7

\* An instruction as xd3_choose_instruction is given it.
Inst(i) == i.type \in 1 .. 11 /\ i.size \in Nat \ {0}

LEMMA Forms ==
  ASSUME NEW a, NEW b, NEW c, NEW d
  PROVE  /\ Codes!Single(a, b) = [type1 |-> a, size1 |-> b, type2 |-> 0, size2 |-> 0]
         /\ Codes!Double(a, b, c, d) = [type1 |-> a, size1 |-> b, type2 |-> c, size2 |-> d]
BY DEF Codes!Single, Codes!Double, Codes!NOOP

\* No opcode of the table says that instruction with its size.
LEMMA NoSingle ==
  ASSUME IsTable(table), NEW u \in 1 .. 11, NEW z \in Nat \ {0},
         \/ u = 2
         \/ u = 1 /\ z > 17
         \/ u >= 3 /\ z \notin 4 .. 18
  PROVE  Codes!Single(u, z) \notin Codes!Opcodes
<1>. DEFINE e == Codes!Single(u, z)
<1>. SUFFICES ASSUME e \in Codes!Opcodes PROVE FALSE
  OBVIOUS
<1>1. e.type1 = u /\ e.size1 = z /\ e.type2 = 0
  BY Forms
<1>. HIDE DEF e
<1>2. e # RunOne
  BY <1>1 DEF RunOne, Codes!Single
<1>3. ASSUME NEW s \in 0 .. 17, e = AddOne(s) PROVE FALSE
  <2>1. e.type1 = 1 /\ e.size1 = s
    BY <1>3 DEF AddOne, Codes!Single
  <2>. QED BY <1>1, <2>1
<1>4. ASSUME NEW m \in 0 .. 8, NEW k \in 1 .. 16, e = CopyOne(m, k) PROVE FALSE
  <2>1. e.type1 = 3 + m /\ e.size1 = IF k = 1 THEN 0 ELSE k + 2
    BY <1>4 DEF CopyOne, Codes!Single
  <2>. QED BY <1>1, <2>1
<1>5. ASSUME NEW m \in 0 .. 8, NEW a \in 1 .. 4, NEW k \in 1 .. 3, e = AddCopy(a, m, k)
      PROVE  FALSE
  <2>1. e.type2 = 3 + m
    BY <1>5 DEF AddCopy, Codes!Double
  <2>. QED BY <1>1, <2>1
<1>6. ASSUME NEW m \in 0 .. 8, e = CopyAdd(m) PROVE FALSE
  <2>1. e.type2 = 1
    BY <1>6 DEF CopyAdd, Codes!Double
  <2>. QED BY <1>1, <2>1
<1>. QED BY <1>2, <1>3, <1>4, <1>5, <1>6, OpcodesAre

\* The opcode of an instruction alone: of its size, or of none if the table
\* has none of its size.
LEMMA SingleFound ==
  ASSUME IsTable(table), NEW i, Inst(i)
  PROVE  /\ Codes!SingleCode(i) + 1 \in 1 .. 256
         /\ \/ table[Codes!SingleCode(i) + 1] = Codes!Single(i.type, i.size)
            \/ /\ table[Codes!SingleCode(i) + 1] = Codes!Single(i.type, 0)
               /\ Codes!Single(i.type, i.size) \notin Codes!Opcodes
<1>. DEFINE c == Codes!SingleCode(i)
            u == i.type
            z == i.size
            m == u - 3
<1>1. /\ u = 2 => c = 0
      /\ u = 1 => c = IF z <= 17 THEN 1 + z ELSE 1
      /\ (u # 2 /\ u # 1) => c = 19 + 16 * (u - 3) + (IF z \in 4 .. 18 THEN z - 3 ELSE 0)
  BY DEF Codes!SingleCode, Codes!RUN, Codes!ADD, Codes!CPY
<1>2. u \in 1 .. 11 /\ z \in Nat \ {0}
  BY DEF Inst
<1>. HIDE DEF c, u, z
<1>3. CASE u = 2
  <2>1. c + 1 = 1 /\ table[1] = Codes!Single(u, 0)
    BY <1>1, <1>3 DEF IsTable, RunOne
  <2>2. Codes!Single(u, z) \notin Codes!Opcodes
    BY <1>2, <1>3, NoSingle
  <2>3. c + 1 \in 1 .. 256
    BY <2>1
  <2>4. table[c + 1] = Codes!Single(u, 0)
    BY <2>1
  <2>. QED BY <2>2, <2>3, <2>4 DEF c, u, z
<1>4. CASE u = 1 /\ z <= 17
  <2>1. z \in 0 .. 17 /\ c + 1 = z + 2
    BY <1>1, <1>2, <1>4
  <2>2. table[z + 2] = Codes!Single(u, z)
    BY <1>4, <2>1 DEF IsTable, AddOne
  <2>3. c + 1 \in 1 .. 256
    BY <2>1
  <2>4. table[c + 1] = Codes!Single(u, z)
    BY <2>1, <2>2
  <2>. QED BY <2>3, <2>4 DEF c, u, z
<1>5. CASE u = 1 /\ z > 17
  <2>1. c + 1 = 0 + 2
    BY <1>1, <1>2, <1>5
  <2>2. 0 \in 0 .. 17 /\ table[0 + 2] = Codes!Single(u, 0)
    BY <1>5 DEF IsTable, AddOne
  <2>3. Codes!Single(u, z) \notin Codes!Opcodes
    BY <1>2, <1>5, NoSingle
  <2>4. c + 1 \in 1 .. 256
    BY <2>1
  <2>5. table[c + 1] = Codes!Single(u, 0)
    BY <2>1, <2>2
  <2>. QED BY <2>3, <2>4, <2>5 DEF c, u, z
<1>6. CASE u >= 3 /\ z \in 4 .. 18
  <2>. DEFINE k == z - 2
  <2>1. /\ m \in 0 .. 8 /\ k \in 1 .. 16 /\ k # 1 /\ k + 2 = z /\ 3 + m = u
        /\ c + 1 = 19 + 16 * m + k /\ c + 1 \in 1 .. 256
    BY <1>1, <1>2, <1>6
  <2>. HIDE DEF k, m
  <2>2. table[19 + 16 * m + k] = CopyOne(m, k)
    BY <2>1 DEF IsTable
  <2>3. CopyOne(m, k) = Codes!Single(u, z)
    BY <2>1 DEF CopyOne
  <2>4. table[c + 1] = Codes!Single(u, z)
    BY <2>1, <2>2, <2>3
  <2>. QED BY <2>1, <2>4 DEF c, u, z
<1>7. CASE u >= 3 /\ z \notin 4 .. 18
  <2>1. m \in 0 .. 8 /\ 3 + m = u /\ c + 1 = 19 + 16 * m + 1 /\ c + 1 \in 1 .. 256
    BY <1>1, <1>2, <1>7
  <2>. HIDE DEF m
  <2>2. 1 \in 1 .. 16 /\ table[19 + 16 * m + 1] = CopyOne(m, 1)
    BY <2>1 DEF IsTable
  <2>3. CopyOne(m, 1) = Codes!Single(u, 0)
    BY <2>1 DEF CopyOne
  <2>4. table[c + 1] = Codes!Single(u, 0)
    BY <2>1, <2>2, <2>3
  <2>5. Codes!Single(u, z) \notin Codes!Opcodes
    BY <1>2, <1>7, NoSingle
  <2>. QED BY <2>1, <2>4, <2>5 DEF c, u, z
<1>. QED BY <1>2, <1>3, <1>4, <1>5, <1>6, <1>7

\* The opcode of a pair.
LEMMA PairFound ==
  ASSUME IsTable(table), NEW p, NEW i, Inst(p), Inst(i), p.code2 = 0,
         Codes!PairCode(p, i) # 0
  PROVE  /\ Codes!PairCode(p, i) + 1 \in 1 .. 256
         /\ table[Codes!PairCode(p, i) + 1] = Codes!Double(p.type, p.size, i.type, i.size)
<1>. DEFINE c == Codes!PairCode(p, i)
            u == p.type
            y == p.size
            v == i.type
            z == i.size
<1>1. /\ v = 1 => c = IF z = 1 /\ y = 4 /\ u >= 3 THEN 247 + u - 3 ELSE 0
      /\ v # 1 => c = IF v = 2 \/ u # 1 \/ y > 4 THEN 0
                     ELSE IF z \in 4 .. 6 /\ v - 3 <= 5
                     THEN 163 + (v - 3) * 12 + 3 * (y - 1) + z - 4
                     ELSE IF z = 4 /\ v - 3 >= 6 THEN 235 + ((v - 3) - 6) * 4 + y - 1 ELSE 0
  BY DEF Codes!PairCode, Codes!RUN, Codes!ADD, Codes!CPY
<1>2. u \in 1 .. 11 /\ y \in Nat \ {0} /\ v \in 1 .. 11 /\ z \in Nat \ {0} /\ c # 0
  BY DEF Inst
<1>. HIDE DEF c, u, y, v, z
<1>3. CASE v = 1
  <2>. DEFINE m == u - 3
  <2>1. /\ z = 1 /\ y = 4 /\ m \in 0 .. 8 /\ 3 + m = u /\ c + 1 = 248 + m
        /\ c + 1 \in 1 .. 256
    BY <1>1, <1>2, <1>3
  <2>. HIDE DEF m
  <2>2. table[248 + m] = CopyAdd(m)
    BY <2>1 DEF IsTable
  <2>3. CopyAdd(m) = Codes!Double(u, y, v, z)
    BY <1>3, <2>1 DEF CopyAdd
  <2>4. table[c + 1] = Codes!Double(u, y, v, z)
    BY <2>1, <2>2, <2>3
  <2>. QED BY <2>1, <2>4 DEF c, u, y, v, z
<1>4. CASE v # 1 /\ v - 3 <= 5
  <2>. DEFINE m == v - 3
              k == z - 3
  <2>1. /\ u = 1 /\ y \in 1 .. 4 /\ m \in 0 .. 5 /\ k \in 1 .. 3
        /\ 3 + m = v /\ 3 + k = z
        /\ c + 1 = 163 + 12 * m + 3 * (y - 1) + k /\ c + 1 \in 1 .. 256
    BY <1>1, <1>2, <1>4
  <2>. HIDE DEF m, k
  <2>2. table[163 + 12 * m + 3 * (y - 1) + k] = AddCopy(y, m, k)
    BY <2>1 DEF IsTable
  <2>3. AddCopy(y, m, k) = Codes!Double(u, y, v, z)
    BY <2>1 DEF AddCopy
  <2>4. table[c + 1] = Codes!Double(u, y, v, z)
    BY <2>1, <2>2, <2>3
  <2>. QED BY <2>1, <2>4 DEF c, u, y, v, z
<1>5. CASE v # 1 /\ ~ (v - 3 <= 5)
  <2>. DEFINE m == v - 3
  <2>1. /\ u = 1 /\ y \in 1 .. 4 /\ m \in 6 .. 8 /\ z = 4 /\ 3 + m = v
        /\ c + 1 = 235 + 4 * (m - 6) + y /\ c + 1 \in 1 .. 256
    BY <1>1, <1>2, <1>5
  <2>. HIDE DEF m
  <2>2. table[235 + 4 * (m - 6) + y] = AddCopy(y, m, 1)
    BY <2>1 DEF IsTable
  <2>3. AddCopy(y, m, 1) = Codes!Double(u, y, v, z)
    <3>1. 3 + 1 = z
      BY <2>1
    <3>. QED BY <2>1, <3>1 DEF AddCopy
  <2>4. table[c + 1] = Codes!Double(u, y, v, z)
    BY <2>1, <2>2, <2>3
  <2>. QED BY <2>1, <2>4 DEF c, u, y, v, z
<1>. QED BY <1>3, <1>4, <1>5

\* Where xd3_choose_instruction finds no opcode for a pair, there is none.
LEMMA PairMissed ==
  ASSUME IsTable(table), NEW p, NEW i, Inst(p), Inst(i), p.code2 = 0,
         Codes!PairCode(p, i) = 0
  PROVE  Codes!Double(p.type, p.size, i.type, i.size) \notin Codes!Opcodes
<1>. DEFINE e == Codes!Double(p.type, p.size, i.type, i.size)
            u == p.type
            y == p.size
            v == i.type
            z == i.size
<1>. SUFFICES ASSUME e \in Codes!Opcodes PROVE FALSE
  OBVIOUS
<1>1. /\ ~ (v = 1 /\ z = 1 /\ y = 4 /\ u >= 3)
      /\ ~ (v >= 3 /\ u = 1 /\ y <= 4 /\ z \in 4 .. 6 /\ v - 3 <= 5)
      /\ ~ (v >= 3 /\ u = 1 /\ y <= 4 /\ z = 4 /\ v - 3 >= 6)
  <2>. DEFINE c == Codes!PairCode(p, i)
  <2>1. /\ v = 1 => c = IF z = 1 /\ y = 4 /\ u >= 3 THEN 247 + u - 3 ELSE 0
        /\ v # 1 => c = IF v = 2 \/ u # 1 \/ y > 4 THEN 0
                       ELSE IF z \in 4 .. 6 /\ v - 3 <= 5
                       THEN 163 + (v - 3) * 12 + 3 * (y - 1) + z - 4
                       ELSE IF z = 4 /\ v - 3 >= 6 THEN 235 + ((v - 3) - 6) * 4 + y - 1 ELSE 0
    BY DEF Codes!PairCode, Codes!RUN, Codes!ADD, Codes!CPY
  <2>2. /\ u \in 1 .. 11 /\ y \in Nat \ {0} /\ v \in 1 .. 11 /\ z \in Nat \ {0}
        /\ c = 0
    BY DEF Inst
  <2>. HIDE DEF c, u, y, v, z
  <2>. QED BY <2>1, <2>2
<1>2. u \in 1 .. 11 /\ y \in Nat \ {0} /\ v \in 1 .. 11 /\ z \in Nat \ {0}
  BY DEF Inst
<1>3. e.type1 = u /\ e.size1 = y /\ e.type2 = v /\ e.size2 = z
  BY Forms
<1>. HIDE DEF e, u, y, v, z
<1>4. e # RunOne
  BY <1>2, <1>3 DEF RunOne, Codes!Single, Codes!NOOP
<1>5. ASSUME NEW s \in 0 .. 17, e = AddOne(s) PROVE FALSE
  <2>1. e.type2 = 0
    BY <1>5 DEF AddOne, Codes!Single, Codes!NOOP
  <2>. QED BY <1>2, <1>3, <2>1
<1>6. ASSUME NEW m \in 0 .. 8, NEW k \in 1 .. 16, e = CopyOne(m, k) PROVE FALSE
  <2>1. e.type2 = 0
    BY <1>6 DEF CopyOne, Codes!Single, Codes!NOOP
  <2>. QED BY <1>2, <1>3, <2>1
<1>7. ASSUME NEW m \in 0 .. 8, NEW a \in 1 .. 4, NEW k \in 1 .. 3, m < 6 \/ k = 1,
             e = AddCopy(a, m, k)
      PROVE  FALSE
  <2>1. e.type1 = 1 /\ e.size1 = a /\ e.type2 = 3 + m /\ e.size2 = 3 + k
    BY <1>7 DEF AddCopy, Codes!Double
  <2>. QED BY <1>1, <1>2, <1>3, <1>7, <2>1
<1>8. ASSUME NEW m \in 0 .. 8, e = CopyAdd(m) PROVE FALSE
  <2>1. e.type1 = 3 + m /\ e.size1 = 4 /\ e.type2 = 1 /\ e.size2 = 1
    BY <1>8 DEF CopyAdd, Codes!Double
  <2>. QED BY <1>1, <1>2, <1>3, <2>1
<1>. QED BY <1>4, <1>5, <1>6, <1>7, <1>8, OpcodesAre

-----------------------------------------------------------------------------
(* The instructions of a window.                                           *)

\* What an instruction means to a decoder, what can be written of one, what an
\* instruction kept back is, and that no opcode holds two instructions.
Half(i) == [type |-> i.type, size |-> i.size]
Emit == [code : 0 .. 255, size : Int]
Kept(i) ==
  /\ Inst(i)
  /\ i = [type |-> i.type, size |-> i.size, code1 |-> Codes!SingleCode(i), code2 |-> 0]
Apart(h, i) == Codes!Double(h.type, h.size, i.type, i.size) \notin Codes!Opcodes

\* What is known of a code in the section.
GoodCode(e) ==
  /\ e \in Emit
  /\ Codes!Halves(e) \in Seq(Kinds) /\ Len(Codes!Halves(e)) \in {1, 2}
  /\ e.size # -1 =>
       Codes!Single(Codes!Halves(e)[1].type, Codes!Halves(e)[1].size) \notin Codes!Opcodes

LEMMA KindFacts ==
  /\ \A a \in Kinds : Inst(a) /\ Half(a) = a
  /\ \A i : Inst(i) => Half(i) \in Kinds
BY DEF Kinds, Inst, Half

\* The code of an instruction alone is read as that instruction.
LEMMA SingleReads ==
  ASSUME IsTable(table), NEW i, Kept(i), NEW e, Codes!EmitSingle(i) = <<e>>
  PROVE  GoodCode(e) /\ Codes!Halves(e) = <<Half(i)>>
<1>. DEFINE n == i.code1 + 1
            c == table[n]
<1>1. i.code1 = Codes!SingleCode(i) /\ Inst(i)
  BY DEF Kept
<1>2. /\ n \in 1 .. 256
      /\ \/ c = Codes!Single(i.type, i.size)
         \/ /\ c = Codes!Single(i.type, 0)
            /\ Codes!Single(i.type, i.size) \notin Codes!Opcodes
  BY <1>1, SingleFound
<1>3. i.type \in 1 .. 11 /\ i.size \in Nat \ {0}
  BY <1>1 DEF Inst
<1>4. e = [code |-> i.code1, size |-> IF c.size1 = 0 THEN i.size ELSE -1]
  BY DEF Codes!EmitSingle
<1>. HIDE DEF c
<1>5. /\ c.type1 = i.type /\ c.type2 = 0
      /\ \/ c.size1 = i.size
         \/ c.size1 = 0 /\ Codes!Single(i.type, i.size) \notin Codes!Opcodes
  <2>1. ASSUME NEW z, c = Codes!Single(i.type, z)
        PROVE  c.type1 = i.type /\ c.size1 = z /\ c.type2 = 0
    BY <2>1, Forms
  <2>2. CASE c = Codes!Single(i.type, i.size)
    BY <2>1, <2>2
  <2>3. CASE /\ c = Codes!Single(i.type, 0)
             /\ Codes!Single(i.type, i.size) \notin Codes!Opcodes
    BY <2>1, <2>3
  <2>. QED BY <1>2, <2>2, <2>3
<1>6. i.code1 \in 0 .. 255
  <2>1. i.code1 + 1 \in 1 .. 256 /\ i.code1 \in Int
    <3>1. Codes!SingleCode(i) \in Int
      BY <1>3 DEF Codes!SingleCode, Codes!RUN, Codes!ADD, Codes!CPY
    <3>. QED BY <1>1, <1>2, <3>1
  <2>. QED BY <2>1
<1>7. e.code = i.code1 /\ e.size = (IF c.size1 = 0 THEN i.size ELSE -1)
  BY <1>4
<1>8. e \in Emit
  <2>1. (IF c.size1 = 0 THEN i.size ELSE -1) \in Int
    BY <1>3
  <2>. QED BY <1>4, <1>6, <2>1 DEF Emit
<1>9. Codes!Halves(e) = <<Half(i)>>
  <2>1. table[e.code + 1] = c
    BY <1>7 DEF c
  <2>2. (IF c.size1 = 0 THEN e.size ELSE c.size1) = i.size
    BY <1>3, <1>5, <1>7
  <2>. QED BY <1>5, <2>1, <2>2 DEF Codes!Halves, Codes!NOOP, Half
<1>10. e.size # -1 => Codes!Single(Half(i).type, Half(i).size) \notin Codes!Opcodes
  <2>1. Half(i).type = i.type /\ Half(i).size = i.size
    BY DEF Half
  <2>2. e.size # -1 => c.size1 = 0
    BY <1>7
  <2>. QED BY <1>3, <1>5, <2>1, <2>2
<1>11. <<Half(i)>> \in Seq(Kinds) /\ Len(<<Half(i)>>) = 1 /\ <<Half(i)>>[1] = Half(i)
  BY <1>1, KindFacts
<1>. QED BY <1>8, <1>9, <1>10, <1>11 DEF GoodCode

\* The code of a pair is read as the two.
LEMMA PairReads ==
  ASSUME IsTable(table), NEW p, NEW i, Kept(p), Kept(i), Codes!PairCode(p, i) # 0,
         NEW e, Codes!EmitDouble(Codes!PairCode(p, i)) = <<e>>
  PROVE  GoodCode(e) /\ Codes!Halves(e) = <<Half(p), Half(i)>>
<1>. DEFINE c == Codes!PairCode(p, i)
            x == table[c + 1]
<1>1. Inst(p) /\ Inst(i) /\ p.code2 = 0
  BY DEF Kept
<1>2. c + 1 \in 1 .. 256 /\ x = Codes!Double(p.type, p.size, i.type, i.size)
  BY <1>1, PairFound
<1>3. e = [code |-> c, size |-> -1]
  BY DEF Codes!EmitDouble
<1>4. /\ p.type \in 1 .. 11 /\ p.size \in Nat \ {0}
      /\ i.type \in 1 .. 11 /\ i.size \in Nat \ {0}
  BY <1>1 DEF Inst
<1>5. c \in Int
  BY <1>1, <1>4 DEF Codes!PairCode, Codes!RUN, Codes!ADD, Codes!CPY
<1>. HIDE DEF c, x
<1>6. c \in 0 .. 255
  BY <1>2, <1>5
<1>7. e \in Emit /\ e.code = c /\ e.size = -1
  BY <1>3, <1>6 DEF Emit
<1>8. x.type1 = p.type /\ x.size1 = p.size /\ x.type2 = i.type /\ x.size2 = i.size
  BY <1>2, Forms
<1>9. Codes!Halves(e) = <<Half(p), Half(i)>>
  <2>1. table[e.code + 1] = x
    BY <1>7 DEF x
  <2>2. x.size1 # 0 /\ x.type2 # 0
    BY <1>4, <1>8
  <2>3. Codes!Halves(e) = <<Half(p)>> \o <<Half(i)>>
    BY <1>8, <2>1, <2>2 DEF Codes!Halves, Codes!NOOP, Half
  <2>. QED BY <2>3, TwoJoined
<1>10. /\ <<Half(p), Half(i)>> \in Seq(Kinds) /\ Len(<<Half(p), Half(i)>>) = 2
  BY <1>1, KindFacts
<1>. QED BY <1>7, <1>9, <1>10 DEF GoodCode

\* The instructions that a decoder reads in the INST section.
Hs == [k \in 1 .. Len(inst_sect) |-> Codes!Halves(inst_sect[k])]
Read == Codes!FlattenSeq(Hs)

\* The section: every code is read, and no two of them had one opcode.
Section ==
  /\ IsTable(table) /\ inst_sect \in Seq(Emit)
  /\ \A k \in 1 .. Len(inst_sect) : GoodCode(inst_sect[k])
  /\ \A k \in 1 .. Len(inst_sect) - 1 :
       Len(Codes!Halves(inst_sect[k])) = 1 =>
         Apart(Codes!Halves(inst_sect[k])[1], Codes!Halves(inst_sect[k + 1])[1])

\* Nor has the last of them with the instruction kept back, and what follows
\* a pair is kept back alone.
LastApart ==
  Len(inst_sect) > 0 =>
    LET h == Codes!Halves(inst_sect[Len(inst_sect)])
    IN  IF iout = Codes!NoInst THEN Len(h) = 2 ELSE Len(h) = 1 => Apart(h[1], iout)

\* The inductive invariant.
CInv ==
  /\ Section
  /\ iout # Codes!NoInst => Kept(iout)
  /\ given \in Seq(Kinds)
  /\ Read \o Codes!Pending = given
  /\ ~ done => LastApart

LEMMA HsType ==
  ASSUME Section
  PROVE  Hs \in Seq(Seq(Kinds)) /\ Read \in Seq(Kinds)
<1>1. Hs \in Seq(Seq(Kinds))
  <2>1. \A k \in 1 .. Len(inst_sect) : Codes!Halves(inst_sect[k]) \in Seq(Kinds)
    BY DEF Section, GoodCode
  <2>2. Len(inst_sect) \in Nat
    BY DEF Section
  <2>3. Hs \in [1 .. Len(inst_sect) -> Seq(Kinds)]
    BY <2>1 DEF Hs
  <2>. QED BY <2>2, <2>3, FunctionIsSeq
<1>2. Read \in Seq(Kinds)
  <2>1. <<>> \in Seq(Kinds)
    OBVIOUS
  <2>. QED BY <1>1, <2>1, FlattenAppend DEF Read
<1>. QED BY <1>1, <1>2

\* One code more.
LEMMA Written ==
  ASSUME Section, iout # Codes!NoInst, ~ done, LastApart,
         NEW e, GoodCode(e), Codes!Halves(e)[1] = Half(iout),
         inst_sect' = inst_sect \o <<e>>, UNCHANGED table
  PROVE  /\ Section' /\ Read' = Read \o Codes!Halves(e)
         /\ Len(inst_sect)' > 0 /\ inst_sect'[Len(inst_sect')] = e
<1>. DEFINE n == Len(inst_sect)
            s == inst_sect'
<1>1. /\ inst_sect \in Seq(Emit) /\ n \in Nat /\ e \in Emit
  BY DEF Section, GoodCode
<1>2. /\ s \in Seq(Emit) /\ Len(s) = n + 1 /\ s[n + 1] = e
      /\ \A k \in 1 .. n : s[k] = inst_sect[k]
  BY <1>1
<1>3. (\A x : Codes!Halves(x)' = Codes!Halves(x)) /\ Codes!Opcodes' = Codes!Opcodes
  BY DEF Codes!Halves, Codes!Opcodes
<1>4. /\ IsTable(table)' /\ (\A x : GoodCode(x)' <=> GoodCode(x))
      /\ \A h, x : Apart(h, x)' <=> Apart(h, x)
  <2>1. IsTable(table)'
    BY DEF Section, IsTable
  <2>. QED BY <1>3, <2>1 DEF GoodCode, Apart
<1>. HIDE DEF s
<1>5. \A k \in 1 .. n + 1 : k \in 1 .. n \/ k = n + 1
  BY <1>1
<1>6. Section'
  <2>1. ASSUME NEW k \in 1 .. n + 1 PROVE GoodCode(s[k])
    BY <1>2, <1>5 DEF Section
  <2>2. ASSUME NEW k \in 1 .. n, Len(Codes!Halves(s[k])) = 1
        PROVE  Apart(Codes!Halves(s[k])[1], Codes!Halves(s[k + 1])[1])
    <3>1. s[k] = inst_sect[k]
      BY <1>2
    <3>2. CASE k = n
      <4>1. n > 0 /\ s[k + 1] = e
        BY <1>1, <1>2, <3>2
      <4>2. Apart(Codes!Halves(inst_sect[n])[1], iout)
        BY <2>2, <3>1, <3>2, <4>1 DEF LastApart
      <4>3. Half(iout).type = iout.type /\ Half(iout).size = iout.size
        BY DEF Half
      <4>. QED BY <3>1, <3>2, <4>1, <4>2, <4>3 DEF Apart
    <3>3. CASE k # n
      <4>1. k \in 1 .. n - 1 /\ k + 1 \in 1 .. n
        BY <1>1, <3>3
      <4>. QED BY <1>2, <2>2, <3>1, <4>1 DEF Section
    <3>. QED BY <3>2, <3>3
  <2>3. \A k \in 1 .. n + 1 : GoodCode(inst_sect[k])'
    <3>1. ASSUME NEW k \in 1 .. n + 1 PROVE GoodCode(inst_sect[k])'
      <4>1. GoodCode(s[k])
        BY <2>1
      <4>. QED BY <1>3, <4>1 DEF GoodCode, s
    <3>. QED BY <3>1
  <2>4. \A k \in 1 .. n :
          Len(Codes!Halves(inst_sect[k])') = 1 =>
            Apart(Codes!Halves(inst_sect[k])[1], Codes!Halves(inst_sect[k + 1])[1])'
    <3>1. ASSUME NEW k \in 1 .. n, Len(Codes!Halves(inst_sect[k])') = 1
          PROVE  Apart(Codes!Halves(inst_sect[k])[1], Codes!Halves(inst_sect[k + 1])[1])'
      <4>1. /\ Codes!Halves(inst_sect[k])' = Codes!Halves(s[k])
            /\ Codes!Halves(inst_sect[k + 1])' = Codes!Halves(s[k + 1])
        BY DEF Codes!Halves, s
      <4>2. Apart(Codes!Halves(s[k])[1], Codes!Halves(s[k + 1])[1])
        BY <2>2, <3>1, <4>1
      <4>. QED BY <1>3, <4>1, <4>2 DEF Apart
    <3>. QED BY <3>1
  <2>5. Len(inst_sect') = n + 1 /\ Len(inst_sect') - 1 = n /\ inst_sect' \in Seq(Emit)
    BY <1>1, <1>2 DEF s
  <2>. QED BY <1>4, <2>3, <2>4, <2>5 DEF Section
<1>7. Hs' = Append(Hs, Codes!Halves(e))
  <2>. DEFINE H == [k \in 1 .. n + 1 |-> Codes!Halves(s[k])]
              A == Append(Hs, Codes!Halves(e))
  <2>1. Hs' = H
    BY <1>2, <1>3 DEF Hs, s
  <2>2. /\ Hs \in Seq(Seq(Kinds)) /\ Codes!Halves(e) \in Seq(Kinds) /\ Len(Hs) = n
        /\ \A k \in 1 .. n : Hs[k] = Codes!Halves(inst_sect[k])
    BY <1>1, HsType DEF Hs, GoodCode
  <2>3. /\ A \in Seq(Seq(Kinds)) /\ Len(A) = n + 1 /\ A[n + 1] = Codes!Halves(e)
        /\ \A k \in 1 .. n : A[k] = Hs[k]
    BY <2>2
  <2>. HIDE DEF A
  <2>4. \A k \in 1 .. n + 1 : A[k] = H[k]
    BY <1>2, <1>5, <2>2, <2>3
  <2>5. H \in Seq(Seq(Kinds)) /\ Len(H) = n + 1
    <3>1. \A k \in 1 .. n + 1 : A[k] \in Seq(Kinds)
      BY <2>3
    <3>2. H = [k \in 1 .. n + 1 |-> A[k]]
      BY <2>4
    <3>3. H \in [1 .. n + 1 -> Seq(Kinds)]
      BY <3>1, <3>2
    <3>4. Len(H) = n + 1 /\ n + 1 \in Nat
      BY <1>1
    <3>. HIDE DEF H
    <3>. QED BY <3>3, <3>4, FunctionIsSeq
  <2>. HIDE DEF H
  <2>6. H = A
    BY <2>3, <2>4, <2>5, SeqEqual
  <2>. QED BY <2>1, <2>6 DEF A
<1>8. Read' = Read \o Codes!Halves(e)
  <2>1. Read' = Codes!FlattenSeq(Hs')
    BY DEF Read
  <2>2. Hs \in Seq(Seq(Kinds)) /\ Codes!Halves(e) \in Seq(Kinds)
    BY HsType DEF GoodCode
  <2>3. Codes!FlattenSeq(Append(Hs, Codes!Halves(e))) = Codes!FlattenSeq(Hs) \o Codes!Halves(e)
    BY <2>2, FlattenAppend
  <2>. QED BY <1>7, <2>1, <2>3 DEF Read
<1>. QED BY <1>1, <1>2, <1>6, <1>8 DEF s

\* What an instruction kept back is made of.
LEMMA KeptFacts ==
  ASSUME NEW i, Kept(i)
  PROVE  i # Codes!NoInst /\ Half(i) \in Kinds
<1>1. i.type \in 1 .. 11 /\ Inst(i)
  BY DEF Kept, Inst
<1>2. Codes!NoInst.type = 0
  BY DEF Codes!NoInst, Codes!NOOP
<1>. QED BY <1>1, <1>2, KindFacts

\* The instruction kept back is what a decoder has still to read.
LEMMA PendingIs ==
  /\ iout = Codes!NoInst => Codes!Pending = <<>>
  /\ iout # Codes!NoInst => Codes!Pending = <<Half(iout)>>
BY DEF Codes!Pending, Half

\* The instruction that arrives, as it would be kept back.
Arrived(a) == [type |-> a.type, size |-> a.size, code1 |-> Codes!SingleCode(a), code2 |-> 0]

LEMMA ArrivedKept ==
  ASSUME NEW a \in Kinds
  PROVE  Kept(Arrived(a)) /\ Half(Arrived(a)) = a
<1>. DEFINE i == Arrived(a)
<1>1. i.type = a.type /\ i.size = a.size /\ i.code1 = Codes!SingleCode(a) /\ i.code2 = 0
  BY DEF Arrived
<1>2. Inst(i) /\ Half(i) = a
  BY <1>1, KindFacts DEF Inst, Half
<1>3. Codes!SingleCode(i) = Codes!SingleCode(a)
  BY <1>1 DEF Codes!SingleCode
<1>4. i = [type |-> i.type, size |-> i.size, code1 |-> Codes!SingleCode(i), code2 |-> 0]
  BY <1>1, <1>3 DEF Arrived
<1>. QED BY <1>2, <1>4 DEF Kept

\* The three ways of FinishEncoding.
LEMMA FinishIs ==
  ASSUME NEW a, Codes!FinishEncoding(a)
  PROVE  LET i == Arrived(a)
             pair == Codes!PairCode(iout, i)
         IN  /\ ~ done /\ UNCHANGED <<table, done>> /\ given' = Append(given, a)
             /\ \/ iout = Codes!NoInst /\ iout' = i /\ inst_sect' = inst_sect
                \/ /\ iout # Codes!NoInst /\ pair # 0 /\ iout' = Codes!NoInst
                   /\ inst_sect' = inst_sect \o Codes!EmitDouble(pair)
                \/ /\ iout # Codes!NoInst /\ pair = 0 /\ iout' = i
                   /\ inst_sect' = inst_sect \o Codes!EmitSingle(iout)
BY DEF Codes!FinishEncoding, Arrived, Codes!NoCode

\* Nothing of the invariant changes when nothing is written.
LEMMA SectionStays ==
  ASSUME UNCHANGED <<table, inst_sect>>
  PROVE  (Section' <=> Section) /\ Read' = Read
BY DEF Section, Read, Hs, GoodCode, Apart, IsTable, Codes!Halves, Codes!Opcodes

LEMMA InitCInv == Codes!Init => CInv
<1>. SUFFICES ASSUME Codes!Init PROVE CInv
  OBVIOUS
<1>1. /\ table = Codes!CodeTableSeq /\ iout = Codes!NoInst /\ inst_sect = <<>>
      /\ given = <<>> /\ done = FALSE
  BY DEF Codes!Init
<1>2. IsTable(table)
  BY <1>1, TableAt
<1>3. inst_sect \in Seq(Emit) /\ Len(inst_sect) = 0
  BY <1>1
<1>4. Section
  BY <1>2, <1>3 DEF Section
<1>5. Read = <<>>
  <2>1. Hs = <<>> /\ Len(Hs) = 0
    BY <1>3 DEF Hs
  <2>2. Codes!FlattenSeq(<<>>) = <<>>
    BY DEF Codes!FlattenSeq
  <2>. QED BY <2>1, <2>2 DEF Read
<1>6. Read \o Codes!Pending = given
  <2>1. <<>> \o <<>> = <<>>
    OBVIOUS
  <2>. QED BY <1>1, <1>5, <2>1, PendingIs
<1>7. given \in Seq(Kinds)
  BY <1>1
<1>8. LastApart
  BY <1>3 DEF LastApart
<1>. QED BY <1>1, <1>4, <1>6, <1>7, <1>8 DEF CInv

LEMMA FinishCInv ==
  ASSUME CInv, NEW a \in Kinds, Codes!FinishEncoding(a)
  PROVE  CInv'
<1>. DEFINE i == Arrived(a)
            pair == Codes!PairCode(iout, i)
            P == Half(iout)
<1>1. ~ done /\ UNCHANGED <<table, done>> /\ given' = Append(given, a)
  BY FinishIs
<1>2. Kept(i) /\ i # Codes!NoInst /\ Half(i) = a
  BY ArrivedKept, KeptFacts
<1>3. /\ Section /\ given \in Seq(Kinds) /\ Read \o Codes!Pending = given /\ LastApart
      /\ Read \in Seq(Kinds)
  BY <1>1, HsType DEF CInv
<1>4. given' = given \o <<a>> /\ given' \in Seq(Kinds)
  BY <1>1, <1>3
<1>5. iout' # Codes!NoInst => Codes!Pending' = <<Half(iout')>>
  BY DEF Codes!Pending, Half
<1>6. iout' = Codes!NoInst => Codes!Pending' = <<>>
  BY DEF Codes!Pending
<1>7. IsTable(table)
  BY <1>3 DEF Section
<1>8. CASE iout = Codes!NoInst /\ iout' = i /\ inst_sect' = inst_sect
  <2>1. Section' /\ Read' = Read
    BY <1>1, <1>3, <1>8, SectionStays
  <2>2. Codes!Pending = <<>> /\ Codes!Pending' = <<a>>
    BY <1>2, <1>5, <1>8, PendingIs
  <2>3. Read = given
    BY <1>3, <2>2
  <2>4. Read' \o Codes!Pending' = given'
    BY <1>4, <2>1, <2>2, <2>3
  <2>5. LastApart'
    <3>1. ASSUME Len(inst_sect) > 0
          PROVE  Len(Codes!Halves(inst_sect[Len(inst_sect)])) = 2
      BY <1>3, <1>8, <3>1 DEF LastApart
    <3>2. \A x : Codes!Halves(x)' = Codes!Halves(x)
      BY <1>1 DEF Codes!Halves
    <3>3. Len(inst_sect') > 0 => Len(Codes!Halves(inst_sect[Len(inst_sect)])') = 2
      BY <1>1, <1>8, <3>1 DEF Codes!Halves
    <3>. QED BY <1>2, <1>8, <3>3 DEF LastApart
  <2>. QED BY <1>2, <1>4, <1>8, <2>1, <2>4, <2>5 DEF CInv
<1>9. ASSUME NEW x, Kept(iout), GoodCode(x), inst_sect' = inst_sect \o <<x>>,
             NEW r \in Seq(Kinds), Codes!Halves(x) = <<P>> \o r
      PROVE  /\ Section' /\ Read' = given \o r
             /\ Len(inst_sect') > 0 /\ Codes!Halves(inst_sect[Len(inst_sect)])' = <<P>> \o r
  <2>1. iout # Codes!NoInst /\ P \in Kinds
    BY <1>9, KeptFacts
  <2>2. Codes!Halves(x)[1] = P
    <3>1. <<P>> \in Seq(Kinds) /\ Len(<<P>>) = 1 /\ <<P>>[1] = P /\ 1 \in 1 .. 1
      BY <2>1
    <3>2. (<<P>> \o r)[1] = P
      BY <3>1, ConcatFacts
    <3>. QED BY <1>9, <3>2
  <2>3. /\ Section' /\ Read' = Read \o Codes!Halves(x)
        /\ Len(inst_sect)' > 0 /\ inst_sect'[Len(inst_sect')] = x
    BY <1>1, <1>3, <1>9, <2>1, <2>2, Written
  <2>4. Read \o <<P>> = given
    BY <1>3, <2>1, PendingIs
  <2>5. Read \o (<<P>> \o r) = (Read \o <<P>>) \o r
    <3>1. <<P>> \in Seq(Kinds)
      BY <2>1
    <3>. QED BY <1>3, <3>1, ConcatAssociative
  <2>6. Codes!Halves(inst_sect[Len(inst_sect)])' = Codes!Halves(x)
    BY <1>1, <2>3 DEF Codes!Halves
  <2>. QED BY <1>9, <2>3, <2>4, <2>5, <2>6
<1>10. CASE /\ iout # Codes!NoInst /\ pair # 0 /\ iout' = Codes!NoInst
            /\ inst_sect' = inst_sect \o Codes!EmitDouble(pair)
  <2>1. Kept(iout)
    BY <1>10 DEF CInv
  <2>2. PICK x : Codes!EmitDouble(pair) = <<x>>
    BY DEF Codes!EmitDouble
  <2>3. GoodCode(x) /\ Codes!Halves(x) = <<P, a>>
    BY <1>2, <1>7, <1>10, <2>1, <2>2, PairReads
  <2>4. Codes!Halves(x) = <<P>> \o <<a>> /\ <<a>> \in Seq(Kinds)
    BY <2>3, TwoJoined
  <2>5. /\ Section' /\ Read' = given \o <<a>>
        /\ Codes!Halves(inst_sect[Len(inst_sect)])' = <<P>> \o <<a>>
    BY <1>9, <1>10, <2>1, <2>2, <2>3, <2>4
  <2>6. Read' \o Codes!Pending' = given'
    <3>1. given' \o <<>> = given'
      BY <1>4, ConcatEmptySeq
    <3>. QED BY <1>4, <1>6, <1>10, <2>5, <3>1
  <2>7. LastApart'
    <3>1. <<P>> \o <<a>> = <<P, a>> /\ Len(<<P, a>>) = 2
      BY TwoJoined
    <3>. QED BY <1>10, <2>5, <3>1 DEF LastApart
  <2>. QED BY <1>4, <1>10, <2>5, <2>6, <2>7 DEF CInv
<1>11. CASE /\ iout # Codes!NoInst /\ pair = 0 /\ iout' = i
            /\ inst_sect' = inst_sect \o Codes!EmitSingle(iout)
  <2>1. Kept(iout) /\ P \in Kinds
    BY <1>11, KeptFacts DEF CInv
  <2>2. PICK x : Codes!EmitSingle(iout) = <<x>>
    BY DEF Codes!EmitSingle
  <2>3. GoodCode(x) /\ Codes!Halves(x) = <<P>>
    BY <1>7, <2>1, <2>2, SingleReads
  <2>4. /\ <<P>> \in Seq(Kinds) /\ <<>> \in Seq(Kinds) /\ <<P>> \o <<>> = <<P>>
        /\ given \o <<>> = given
    BY <1>3, <2>1, ConcatEmptySeq
  <2>5. /\ Section' /\ Read' = given
        /\ Codes!Halves(inst_sect[Len(inst_sect)])' = <<P>>
    BY <1>9, <1>11, <2>1, <2>2, <2>3, <2>4
  <2>6. Read' \o Codes!Pending' = given'
    BY <1>2, <1>4, <1>5, <1>11, <2>5
  <2>7. Apart(P, i)
    <3>1. Inst(iout) /\ Inst(i) /\ iout.code2 = 0
      BY <1>2, <2>1 DEF Kept
    <3>2. P.type = iout.type /\ P.size = iout.size
      BY DEF Half
    <3>. QED BY <1>7, <1>11, <3>1, <3>2, PairMissed DEF Apart
  <2>8. LastApart'
    <3>1. Codes!Opcodes' = Codes!Opcodes
      BY <1>1 DEF Codes!Opcodes
    <3>2. <<P>>[1] = P
      OBVIOUS
    <3>3. Codes!Double(P.type, P.size, iout'.type, iout'.size) \notin Codes!Opcodes'
      BY <1>11, <2>7, <3>1 DEF Apart
    <3>. QED BY <1>2, <1>11, <2>5, <3>2, <3>3 DEF LastApart, Apart
  <2>. QED BY <1>2, <1>4, <1>11, <2>5, <2>6, <2>8 DEF CInv
<1>. QED BY <1>8, <1>10, <1>11, FinishIs

LEMMA FinalizeCInv ==
  ASSUME CInv, Codes!AddFinalize
  PROVE  CInv'
<1>1. ~ done /\ done' /\ iout' = Codes!NoInst /\ UNCHANGED <<table, given>>
  BY DEF Codes!AddFinalize
<1>2. /\ Section /\ given \in Seq(Kinds) /\ Read \o Codes!Pending = given /\ LastApart
      /\ Read \in Seq(Kinds)
  BY <1>1, HsType DEF CInv
<1>3. Section' /\ Read' = given
  <2>1. CASE iout = Codes!NoInst
    <3>1. inst_sect' = inst_sect
      BY <2>1 DEF Codes!AddFinalize
    <3>2. Section' /\ Read' = Read
      BY <1>1, <1>2, <3>1, SectionStays
    <3>3. Read \o <<>> = given /\ Read \o <<>> = Read
      BY <1>2, <2>1, PendingIs, ConcatEmptySeq
    <3>. QED BY <3>2, <3>3
  <2>2. CASE iout # Codes!NoInst
    <3>1. inst_sect' = inst_sect \o Codes!EmitSingle(iout)
      BY <2>2 DEF Codes!AddFinalize
    <3>2. PICK x : Codes!EmitSingle(iout) = <<x>>
      BY DEF Codes!EmitSingle
    <3>3. Kept(iout) /\ IsTable(table)
      BY <1>2, <2>2 DEF CInv, Section
    <3>4. GoodCode(x) /\ Codes!Halves(x) = <<Half(iout)>>
      BY <3>2, <3>3, SingleReads
    <3>5. Codes!Halves(x)[1] = Half(iout)
      BY <3>4
    <3>6. Section' /\ Read' = Read \o Codes!Halves(x)
      BY <1>1, <1>2, <2>2, <3>1, <3>2, <3>4, <3>5, Written
    <3>7. Read \o <<Half(iout)>> = given
      BY <1>2, <2>2, PendingIs
    <3>. QED BY <3>4, <3>6, <3>7
  <2>. QED BY <2>1, <2>2
<1>4. Codes!Pending' = <<>>
  BY <1>1 DEF Codes!Pending
<1>5. given \o <<>> = given
  BY <1>2, ConcatEmptySeq
<1>. QED BY <1>1, <1>2, <1>3, <1>4, <1>5 DEF CInv

LEMMA CodesCInv == CInv /\ [Codes!Next]_Codes!vars => CInv'
<1>. SUFFICES ASSUME CInv, [Codes!Next]_Codes!vars PROVE CInv'
  OBVIOUS
<1>1. ASSUME NEW a \in Arrivals, Codes!FinishEncoding(a) PROVE CInv'
  BY <1>1, FinishCInv, WireAssumption
<1>2. CASE Codes!AddFinalize
  BY <1>2, FinalizeCInv
<1>3. CASE UNCHANGED Codes!vars
  <2>1. UNCHANGED <<table, iout, inst_sect, given, done>>
    BY <1>3 DEF Codes!vars
  <2>2. Section' /\ Read' = Read
    BY <2>1, SectionStays DEF CInv
  <2>3. Codes!Pending' = Codes!Pending
    BY <2>1 DEF Codes!Pending
  <2>4. LastApart' <=> LastApart
    BY <2>1 DEF LastApart, Apart, Codes!Halves, Codes!Opcodes
  <2>5. (iout # Codes!NoInst => Kept(iout))'
    BY <2>1 DEF CInv, Kept
  <2>. QED BY <2>1, <2>2, <2>3, <2>4, <2>5 DEF CInv
<1>. QED BY <1>1, <1>2, <1>3 DEF Codes!Next

LEMMA CInvAlways == Codes!Spec => []CInv
BY InitCInv, CodesCInv, PTL DEF Codes!Spec

\* What a decoder reads with the code table is what the encoder meant, in
\* order and each instruction once, for every sequence of instructions of
\* every type, mode and size.
THEOREM ReadAsMeant == Codes!Spec => []DecodesAsMeant
<1>1. CInv => DecodesAsMeant
  BY DEF CInv, Section, IsTable, Read, Hs, DecodesAsMeant, Codes!DecodesAsMeant
<1>. QED BY <1>1, CInvAlways, PTL

\* No size is written where the table has an opcode with it, and no two
\* instructions take two opcodes where it has one for both.
THEOREM NoOpcodeMissed == Codes!Spec => []NoMissedOpcode
<1>1. ASSUME CInv PROVE NoMissedOpcode
  <2>. SUFFICES ASSUME NEW k \in 1 .. Len(inst_sect)
       PROVE  LET h == Codes!Halves(inst_sect[k])
                  next == Codes!Halves(inst_sect[k + 1])
              IN  /\ inst_sect[k].size # -1 =>
                       Codes!Single(h[1].type, h[1].size) \notin Codes!Opcodes
                  /\ (k < Len(inst_sect) /\ Len(h) = 1) =>
                       Codes!Double(h[1].type, h[1].size, next[1].type, next[1].size)
                         \notin Codes!Opcodes
    BY DEF NoMissedOpcode, Codes!NoMissedOpcode
  <2>1. GoodCode(inst_sect[k])
    BY <1>1 DEF CInv, Section
  <2>2. k < Len(inst_sect) => k \in 1 .. Len(inst_sect) - 1
    BY <1>1 DEF CInv, Section
  <2>3. (k < Len(inst_sect) /\ Len(Codes!Halves(inst_sect[k])) = 1) =>
          Apart(Codes!Halves(inst_sect[k])[1], Codes!Halves(inst_sect[k + 1])[1])
    BY <1>1, <2>2 DEF CInv, Section
  <2>. QED BY <2>1, <2>3 DEF GoodCode, Apart
<1>. QED BY <1>1, CInvAlways, PTL
===============================================================================

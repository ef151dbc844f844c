--------------------------- MODULE XD3DataProofs ---------------------------
(***************************************************************************)
(* What the operators on integers, addresses and source blocks return, for *)
(* every value of their parameters: the lemmas that the proofs about the   *)
(* state machines rest on, and the results about the operators themselves. *)
(***************************************************************************)
EXTENDS XD3AddrCache, XD3Source, SequenceTheorems, WellFoundedInduction,
  TLAPS

-----------------------------------------------------------------------------
(* Induction.                                                              *)

\* Induction, for a set: the library's theorems of induction take a predicate,
\* its theorem of the least element takes a set.
LEMMA NatSets ==
  ASSUME NEW S, 0 \in S, \A n \in Nat : n \in S => n + 1 \in S
  PROVE  Nat \subseteq S
<1>. DEFINE Less == OpToRel(<, Nat)
            T    == Nat \ S
<1>1. \A x, y \in Nat : <<x, y>> \in Less <=> x < y
  BY DEF OpToRel
<1>2. IsWellFoundedOn(Less, Nat)
  BY NatLessThanWellFounded
<1>. HIDE DEF Less
<1>. SUFFICES ASSUME T # {} PROVE FALSE
  OBVIOUS
<1>3. PICK x \in T : \A y \in T : ~ (<<y, x>> \in Less)
  BY <1>2, WFMin
<1>4. x \in Nat /\ x # 0
  OBVIOUS
<1>5. x - 1 \in Nat /\ x = (x - 1) + 1
  BY <1>4
<1>6. x - 1 \notin S
  BY <1>5
<1>7. <<x - 1, x>> \in Less
  BY <1>1, <1>4, <1>5
<1>. QED BY <1>3, <1>5, <1>6, <1>7

\* The same for every smaller number.
LEMMA NatSetsBelow ==
  ASSUME NEW S, \A n \in Nat : 0 .. n - 1 \subseteq S => n \in S
  PROVE  Nat \subseteq S
<1>. DEFINE B == {n \in Nat : 0 .. n \subseteq S}
<1>1. 0 \in B
  <2>1. 0 .. 0 - 1 \subseteq S
    OBVIOUS
  <2>2. 0 \in S
    BY <2>1
  <2>. QED BY <2>2
<1>2. ASSUME NEW n \in Nat, n \in B PROVE n + 1 \in B
  <2>1. 0 .. (n + 1) - 1 \subseteq S
    BY <1>2
  <2>2. n + 1 \in S
    BY <2>1
  <2>3. 0 .. n + 1 \subseteq S
    BY <1>2, <2>2
  <2>. QED BY <2>3
<1>. HIDE DEF B
<1>3. Nat \subseteq B
  BY <1>1, <1>2, NatSets
<1>. QED BY <1>3 DEF B

\* A set of naturals that is not empty has a least element.
LEMMA LeastExists ==
  ASSUME NEW S \in SUBSET Nat, S # {}
  PROVE  \E m \in S : \A n \in S : m <= n
<1>. DEFINE Less == OpToRel(<, Nat)
<1>1. \A x, y \in Nat : <<x, y>> \in Less <=> x < y
  BY DEF OpToRel
<1>2. IsWellFoundedOn(Less, Nat)
  BY NatLessThanWellFounded
<1>. HIDE DEF Less
<1>3. PICK m \in S : \A n \in S : ~ (<<n, m>> \in Less)
  BY <1>2, WFMin
<1>4. \A n \in S : ~ (n < m)
  BY <1>1, <1>3
<1>5. \A n \in S : m <= n
  BY <1>4
<1>. QED BY <1>5

-----------------------------------------------------------------------------
(* Integers.                                                               *)

LEMMA ModSmall ==
  ASSUME NEW m \in Nat, NEW n \in 0 .. m - 1
  PROVE  n % m = n
OBVIOUS

\* One digit times the radix covers exactly the multiples of the radix.
LEMMA RadixMultiple ==
  ASSUME NEW m \in Nat, m % Radix = 0
  PROVE  m = Radix * (m \div Radix) /\ m \div Radix \in Nat
<1>1. Radix \in Nat /\ Radix > 0
  BY IntAssumption
<1>2. m = Radix * (m \div Radix) + (m % Radix)
  BY <1>1
<1>. QED BY <1>1, <1>2

LEMMA DigitType ==
  ASSUME NEW byte \in Byte
  PROVE  Digit(byte) \in 0 .. Radix - 1
BY IntAssumption DEF Digit, Byte

\* The test that xd3_decode_size makes before it takes another byte is exact:
\* it lets a byte through if and only if the value with that byte still fits,
\* although it never looks at the byte.
THEOREM PartFullExact ==
  ASSUME NEW m \in Nat, m % Radix = 0, NEW part \in Nat, NEW byte \in Byte
  PROVE  ~ PartFull(part, m) <=> Shift(part, byte) < m
<1>. DEFINE q == m \div Radix
            d == Digit(byte)
<1>1. Radix \in Nat /\ Radix > 0 /\ d \in 0 .. Radix - 1
  BY IntAssumption, DigitType
<1>2. m = Radix * q /\ q \in Nat
  BY RadixMultiple
<1>3. ASSUME part < q PROVE part * Radix + d < Radix * q
  <2>. HIDE DEF q, d
  <2>1. part + 1 <= q
    BY <1>2, <1>3
  <2>2. (part + 1) * Radix <= q * Radix
    BY <2>1, <1>1, <1>2
  <2>3. (part + 1) * Radix = part * Radix + Radix
    BY <1>1
  <2>. QED BY <2>2, <2>3, <1>1, <1>2
<1>4. ASSUME part >= q PROVE part * Radix + d >= Radix * q
  <2>. HIDE DEF q, d
  <2>1. part * Radix >= q * Radix
    BY <1>4, <1>1, <1>2
  <2>. QED BY <2>1, <1>1, <1>2
<1>5. part * Radix + d < Radix * q <=> part < q
  <2>. HIDE DEF q, d
  <2>. QED BY <1>1, <1>2, <1>3, <1>4
<1>. QED BY <1>1, <1>2, <1>5 DEF PartFull, Shift

LEMMA ShiftType ==
  ASSUME NEW m \in Nat, m % Radix = 0, NEW part \in Nat, NEW byte \in Byte,
         ~ PartFull(part, m)
  PROVE  Shift(part, byte) \in 0 .. m - 1
<1>1. Shift(part, byte) < m
  BY PartFullExact
<1>2. Shift(part, byte) \in Nat
  BY DigitType, IntAssumption DEF Shift
<1>. QED BY <1>1, <1>2

LEMMA UAddType ==
  ASSUME NEW a \in Usize, NEW b \in Usize
  PROVE  UAdd(a, b) \in Usize /\ UAdd(a, b) <= a + b
BY IntAssumption DEF UAdd, Usize

\* A sum on usize_t does not depend on where it is cut, also when it wraps.
LEMMA UAddSplit ==
  ASSUME NEW a \in Usize, NEW b \in Usize, NEW n \in 0 .. b
  PROVE  UAdd(UAdd(a, n), b - n) = UAdd(a, b)
<1>1. a \in Nat /\ b \in Nat /\ n \in Nat /\ UsizeMod \in Nat /\ b - n \in Nat
      /\ a < UsizeMod /\ b < UsizeMod /\ n <= b
  BY IntAssumption DEF Usize
<1>2. CASE a + n < UsizeMod
  BY <1>1, <1>2 DEF UAdd
<1>3. CASE a + n >= UsizeMod
  BY <1>1, <1>3 DEF UAdd
<1>. QED BY <1>1, <1>2, <1>3

LEMMA USubType ==
  ASSUME NEW a \in Usize, NEW b \in Usize
  PROVE  USub(a, b) \in Usize
BY IntAssumption DEF USub, Usize

\* A number read from a section is a usize_t, and the reading stays inside
\* the section.
LEMMA ReadIntType ==
  ASSUME NEW buf \in Seq(Byte), NEW i \in 0 .. Len(buf)
  PROVE  /\ ReadInt(buf, i).ok \in BOOLEAN
         /\ ReadInt(buf, i).val \in Usize
         /\ ReadInt(buf, i).next \in i .. Len(buf)
<1>. DEFINE Ends == {j \in i + 1 .. Len(buf) :
                       /\ ~ More(buf[j]) /\ \A k \in i + 1 .. j - 1 : More(buf[k])
                       /\ Value(SubSeq(buf, i + 1, j)) \in Usize}
            end  == CHOOSE j \in Ends : TRUE
<1>1. CASE Ends = {}
  <2>1. ReadInt(buf, i) = [ok |-> FALSE, val |-> 0, next |-> i]
    BY <1>1 DEF ReadInt
  <2>. QED BY <2>1, IntAssumption DEF Usize
<1>2. CASE Ends # {}
  <2>1. end \in Ends
    BY <1>2
  <2>2. ReadInt(buf, i)
          = [ok |-> TRUE, val |-> Value(SubSeq(buf, i + 1, end)), next |-> end]
    BY <1>2 DEF ReadInt
  <2>3. end \in i + 1 .. Len(buf) /\ Value(SubSeq(buf, i + 1, end)) \in Usize
    BY <2>1
  <2>. HIDE DEF end
  <2>. QED BY <2>2, <2>3
<1>. QED BY <1>1, <1>2

LEMMA SubSeqType ==
  ASSUME NEW T, NEW s \in Seq(T), NEW i \in Nat, NEW n \in Nat, i + n <= Len(s)
  PROVE  SubSeq(s, i + 1, i + n) \in Seq(T) /\ Len(SubSeq(s, i + 1, i + n)) = n
<1>1. Len(s) \in Nat /\ \A k \in 1 .. Len(s) : s[k] \in T
  OBVIOUS
<1>2. SubSeq(s, i + 1, i + n) = [k \in 1 .. n |-> s[i + k]]
  OBVIOUS
<1>3. \A k \in 1 .. n : s[i + k] \in T
  BY <1>1
<1>4. [k \in 1 .. n |-> s[i + k]] \in Seq(T)
  BY <1>3
<1>5. Len([k \in 1 .. n |-> s[i + k]]) = n
  OBVIOUS
<1>. QED BY <1>2, <1>4, <1>5

\* Two pieces of a sequence that follow one another.
LEMMA SubSeqJoin ==
  ASSUME NEW T, NEW s \in Seq(T), NEW i \in Nat, NEW m \in Nat, NEW n \in Nat,
         i + m + n <= Len(s)
  PROVE  SubSeq(s, i + 1, i + m) \o SubSeq(s, i + m + 1, i + m + n)
           = SubSeq(s, i + 1, i + m + n)
<1>1. /\ Len(s) \in Nat /\ i + 1 \in 1 .. Len(s) + 1 /\ i + m \in (i + 1) - 1 .. Len(s)
      /\ i + m + n \in i + m .. Len(s)
  OBVIOUS
<1>. QED BY <1>1, ConcatAdjacentSubSeq

\* A piece of a piece of a sequence.
LEMMA SubSeqOfPiece ==
  ASSUME NEW T, NEW s \in Seq(T), NEW i \in Nat, NEW n \in Nat, i + n <= Len(s),
         NEW j \in Nat, NEW k \in Nat, j + k <= n
  PROVE  SubSeq(SubSeq(s, i + 1, i + n), j + 1, j + k) = SubSeq(s, i + j + 1, i + j + k)
<1>1. CASE k = 0
  <2>1. j + k < j + 1 /\ i + j + k < i + j + 1
    BY <1>1
  <2>2. SubSeq(SubSeq(s, i + 1, i + n), j + 1, j + k) = <<>>
    BY <2>1, SubSeqEmpty
  <2>3. SubSeq(s, i + j + 1, i + j + k) = <<>>
    BY <2>1, SubSeqEmpty
  <2>. QED BY <2>2, <2>3
<1>2. CASE k # 0
  <2>. DEFINE a == i + 1
              b == i + n
              c == j + 1
              e == j + k
  <2>1. /\ a \in 1 .. Len(s) /\ b \in 1 .. Len(s)
        /\ c \in 1 .. b - a + 1 /\ e \in 1 .. b - a + 1
        /\ a + c - 1 = i + j + 1 /\ a + e - 1 = i + j + k
    BY <1>2
  <2>. HIDE DEF a, b, c, e
  <2>2. SubSeq(SubSeq(s, a, b), c, e) = SubSeq(s, a + c - 1, a + e - 1)
    BY <2>1, SubSeqOfSubSeq
  <2>3. SubSeq(SubSeq(s, a, b), c, e) = SubSeq(s, i + j + 1, i + j + k)
    BY <2>1, <2>2
  <2>. QED BY <2>3 DEF a, b, c, e
<1>. QED BY <1>1, <1>2

-----------------------------------------------------------------------------
(* Integers as they are written and read.                                  *)

LEMMA QuotientSplit ==
  ASSUME NEW n \in Nat, n # 0
  PROVE  \E q \in 0 .. n - 1, r \in 0 .. Radix - 1 :
           n \div Radix = q /\ n % Radix = r /\ n = q * Radix + r
<1>. DEFINE q == n \div Radix
            r == n % Radix
<1>. SUFFICES q \in 0 .. n - 1 /\ r \in 0 .. Radix - 1 /\ n = q * Radix + r
  OBVIOUS
<1>1. Radix \in Nat /\ Radix > 1
  BY IntAssumption
<1>2. q \in Nat /\ r \in 0 .. Radix - 1 /\ n = Radix * q + r
  BY <1>1
<1>. HIDE DEF q, r
<1>3. Radix * q >= q + q
  BY <1>1, <1>2
<1>4. q < n /\ Radix * q = q * Radix
  BY <1>1, <1>2, <1>3
<1>. QED BY <1>1, <1>2, <1>4

LEMMA QuotientLess ==
  ASSUME NEW n \in Nat, n # 0
  PROVE  n \div Radix \in 0 .. n - 1
BY QuotientSplit

\* The bytes before the last, for every number up to num.
BytesBefore(num, f) ==
  f = [n \in 0 .. num |-> IF n = 0 THEN <<>>
                          ELSE Append(f[n \div Radix], Radix + (n % Radix))]

LEMMA BytesBeforeExists ==
  ASSUME NEW num \in Nat
  PROVE  \E f : BytesBefore(num, f)
<1>. DEFINE S == {m \in Nat : \E f : BytesBefore(m, f)}
            zero == [n \in 0 .. 0 |-> <<>>]
<1>1. 0 \in S
  <2>1. BytesBefore(0, zero)
    BY DEF BytesBefore
  <2>. QED BY <2>1
<1>2. ASSUME NEW m \in Nat, m \in S PROVE m + 1 \in S
  <2>1. PICK f : BytesBefore(m, f)
    BY <1>2
  <2>. DEFINE e(n, g) == IF n = 0 THEN <<>> ELSE Append(g[n \div Radix], Radix + (n % Radix))
              h == [n \in 0 .. m + 1 |-> e(n, f)]
  <2>2. \A n \in 0 .. m : f[n] = e(n, f)
    BY <2>1 DEF BytesBefore
  <2>3. \A n \in 0 .. m : h[n] = f[n]
    BY <2>2
  <2>4. \A n \in 0 .. m + 1 : n # 0 => n \div Radix \in 0 .. m
    BY QuotientLess
  <2>5. \A n \in 0 .. m + 1 : e(n, f) = e(n, h)
    <3>. HIDE DEF h
    <3>. QED BY <2>3, <2>4
  <2>6. h = [n \in 0 .. m + 1 |-> e(n, h)]
    <3>1. h = [n \in 0 .. m + 1 |-> e(n, f)]
      OBVIOUS
    <3>. HIDE DEF h, e
    <3>. QED BY <3>1, <2>5
  <2>7. BytesBefore(m + 1, h)
    BY <2>6 DEF BytesBefore
  <2>. QED BY <2>7
<1>. HIDE DEF S
<1>3. num \in S
  BY <1>1, <1>2, NatSets
<1>. QED BY <1>3 DEF S

\* What EmitInt writes: the bytes of the quotient, and the digit.
LEMMA EmitIntIs ==
  ASSUME NEW num \in Nat
  PROVE  \E f : BytesBefore(num, f) /\ EmitInt(num) = Append(f[num \div Radix], num % Radix)
<1>. DEFINE f == CHOOSE g : BytesBefore(num, g)
<1>1. BytesBefore(num, f)
  BY BytesBeforeExists
<1>2. EmitInt(num) = Append(f[num \div Radix], num % Radix)
  BY DEF EmitInt, BytesBefore
<1>. QED BY <1>1, <1>2

\* The values of the first k bytes of s, for k up to m.
ValuesTo(s, m, v) == v = [k \in 0 .. m |-> IF k = 0 THEN 0 ELSE Shift(v[k - 1], s[k])]

LEMMA ValuesExist ==
  ASSUME NEW s, NEW m \in Nat
  PROVE  \E v : ValuesTo(s, m, v)
<1>. DEFINE S == {n \in Nat : \E v : ValuesTo(s, n, v)}
            zero == [k \in 0 .. 0 |-> 0]
<1>1. 0 \in S
  <2>1. ValuesTo(s, 0, zero)
    BY DEF ValuesTo
  <2>. QED BY <2>1
<1>2. ASSUME NEW n \in Nat, n \in S PROVE n + 1 \in S
  <2>1. PICK v : ValuesTo(s, n, v)
    BY <1>2
  <2>. DEFINE e(k, g) == IF k = 0 THEN 0 ELSE Shift(g[k - 1], s[k])
              h == [k \in 0 .. n + 1 |-> e(k, v)]
  <2>2. \A k \in 0 .. n : v[k] = e(k, v)
    BY <2>1 DEF ValuesTo
  <2>3. \A k \in 0 .. n : h[k] = v[k]
    BY <2>2
  <2>4. \A k \in 0 .. n + 1 : e(k, v) = e(k, h)
    <3>1. \A k \in 0 .. n + 1 : k # 0 => k - 1 \in 0 .. n
      OBVIOUS
    <3>. HIDE DEF h
    <3>. QED BY <2>3, <3>1
  <2>5. h = [k \in 0 .. n + 1 |-> e(k, h)]
    <3>1. h = [k \in 0 .. n + 1 |-> e(k, v)]
      OBVIOUS
    <3>. HIDE DEF h, e
    <3>. QED BY <3>1, <2>4
  <2>6. ValuesTo(s, n + 1, h)
    BY <2>5 DEF ValuesTo
  <2>. QED BY <2>6
<1>. HIDE DEF S
<1>3. m \in S
  BY <1>1, <1>2, NatSets
<1>. QED BY <1>3 DEF S

LEMMA ValuesToStep ==
  ASSUME NEW s, NEW m \in Nat, NEW v, ValuesTo(s, m, v)
  PROVE  v[0] = 0 /\ \A k \in 1 .. m : v[k] = Shift(v[k - 1], s[k])
BY DEF ValuesTo

LEMMA ValueIs ==
  ASSUME NEW T, NEW s \in Seq(T)
  PROVE  \E v : ValuesTo(s, Len(s), v) /\ Value(s) = v[Len(s)]
<1>. DEFINE v == CHOOSE g : ValuesTo(s, Len(s), g)
<1>1. ValuesTo(s, Len(s), v)
  <2>1. Len(s) \in Nat
    OBVIOUS
  <2>. QED BY <2>1, ValuesExist
<1>2. Value(s) = v[Len(s)]
  BY DEF Value, ValuesTo
<1>. QED BY <1>1, <1>2

LEMMA ValuesToAgree ==
  ASSUME NEW s, NEW t, NEW m \in Nat, NEW n \in Nat, m <= n, NEW v, NEW w,
         ValuesTo(s, m, v), ValuesTo(t, n, w), \A k \in 1 .. m : s[k] = t[k]
  PROVE  \A k \in 0 .. m : v[k] = w[k]
<1>. DEFINE S == {k \in Nat : k <= m => v[k] = w[k]}
<1>1. 0 \in S
  BY ValuesToStep
<1>2. ASSUME NEW k \in Nat, k \in S PROVE k + 1 \in S
  <2>. SUFFICES ASSUME k + 1 <= m PROVE v[k + 1] = w[k + 1]
    OBVIOUS
  <2>1. v[k] = w[k]
    BY <1>2
  <2>2. k + 1 \in 1 .. m /\ k + 1 \in 1 .. n /\ (k + 1) - 1 = k
    OBVIOUS
  <2>3. v[k + 1] = Shift(v[(k + 1) - 1], s[k + 1])
    BY <2>2, ValuesToStep
  <2>4. w[k + 1] = Shift(w[(k + 1) - 1], t[k + 1])
    BY <2>2, ValuesToStep
  <2>. QED BY <2>1, <2>2, <2>3, <2>4
<1>. HIDE DEF S
<1>3. Nat \subseteq S
  BY <1>1, <1>2, NatSets
<1>. QED BY <1>3 DEF S

LEMMA ValueEmpty == Value(<<>>) = 0
<1>1. <<>> \in Seq({}) /\ Len(<<>>) = 0
  OBVIOUS
<1>2. PICK v : ValuesTo(<<>>, 0, v) /\ Value(<<>>) = v[0]
  BY <1>1, ValueIs
<1>. QED BY <1>2, ValuesToStep

LEMMA ValueAppend ==
  ASSUME NEW T, NEW s \in Seq(T), NEW b \in T
  PROVE  Value(Append(s, b)) = Shift(Value(s), b)
<1>. DEFINE t == Append(s, b)
            n == Len(s)
<1>1. t \in Seq(T) /\ Len(t) = n + 1 /\ n \in Nat /\ t[n + 1] = b
      /\ \A k \in 1 .. n : s[k] = t[k]
  OBVIOUS
<1>2. PICK v : ValuesTo(s, n, v) /\ Value(s) = v[n]
  BY ValueIs
<1>. HIDE DEF t
<1>3. PICK w : ValuesTo(t, n + 1, w) /\ Value(t) = w[n + 1]
  BY <1>1, ValueIs
<1>. HIDE DEF n
<1>4. v[n] = w[n]
  BY <1>1, <1>2, <1>3, ValuesToAgree
<1>5. w[n + 1] = Shift(w[n], t[n + 1])
  <2>1. w[n + 1] = Shift(w[(n + 1) - 1], t[n + 1])
    BY <1>1, <1>3, ValuesToStep
  <2>2. (n + 1) - 1 = n
    BY <1>1
  <2>. QED BY <2>1, <2>2
<1>. QED BY <1>1, <1>2, <1>3, <1>4, <1>5 DEF t

HighByte == Radix .. 2 * Radix - 1

LEMMA BytesBeforeStep ==
  ASSUME NEW num \in Nat, NEW f, BytesBefore(num, f)
  PROVE  /\ f[0] = <<>>
         /\ \A n \in 1 .. num : f[n] = Append(f[n \div Radix], Radix + (n % Radix))
<1>. DEFINE e(n) == Append(f[n \div Radix], Radix + (n % Radix))
<1>1. f = [n \in 0 .. num |-> IF n = 0 THEN <<>> ELSE e(n)]
  BY DEF BytesBefore
<1>2. \A n \in 1 .. num : n \in 0 .. num /\ n # 0
  OBVIOUS
<1>. HIDE DEF e
<1>3. f[0] = <<>> /\ \A n \in 1 .. num : f[n] = e(n)
  BY <1>1, <1>2
<1>. QED BY <1>3 DEF e

LEMMA BytesBeforeFacts ==
  ASSUME NEW num \in Nat, NEW f, BytesBefore(num, f)
  PROVE  \A n \in 0 .. num : f[n] \in Seq(HighByte) /\ Value(f[n]) = n
<1>. DEFINE S == {n \in Nat : n <= num => f[n] \in Seq(HighByte) /\ Value(f[n]) = n}
<1>1. ASSUME NEW n \in Nat, 0 .. n - 1 \subseteq S PROVE n \in S
  <2>. SUFFICES ASSUME n <= num PROVE f[n] \in Seq(HighByte) /\ Value(f[n]) = n
    OBVIOUS
  <2>. HIDE DEF S
  <2>1. CASE n = 0
    <3>1. f[0] = <<>>
      BY BytesBeforeStep
    <3>. QED BY <2>1, <3>1, ValueEmpty
  <2>2. CASE n # 0
    <3>. DEFINE q == n \div Radix
                d == Radix + (n % Radix)
    <3>1. PICK p \in 0 .. n - 1, r \in 0 .. Radix - 1 :
                 n \div Radix = p /\ n % Radix = r /\ n = p * Radix + r
      BY <2>2, QuotientSplit
    <3>0. q = p /\ d = Radix + r
      BY <3>1
    <3>. HIDE DEF q
    <3>2. f[q] \in Seq(HighByte) /\ Value(f[q]) = q
      <4>1. q \in S /\ q \in Nat /\ q <= num
        BY <1>1, <3>0, <3>1
      <4>. QED BY <4>1 DEF S
    <3>3. d \in HighByte /\ Digit(d) = r
      <4>1. (Radix + r) % Radix = r
        BY IntAssumption
      <4>2. Radix + r \in HighByte
        BY IntAssumption DEF HighByte
      <4>. QED BY <3>0, <4>1, <4>2 DEF Digit
    <3>4. f[n] = Append(f[q], d)
      <4>1. n \in 1 .. num
        BY <2>2
      <4>. QED BY <4>1, BytesBeforeStep DEF q
    <3>. HIDE DEF d
    <3>5. f[n] \in Seq(HighByte)
      BY <3>2, <3>3, <3>4
    <3>6. Value(f[n]) = Shift(q, d)
      BY <3>2, <3>3, <3>4, ValueAppend
    <3>. QED BY <3>0, <3>1, <3>3, <3>5, <3>6 DEF Shift
  <2>. QED BY <2>1, <2>2
<1>. HIDE DEF S
<1>2. Nat \subseteq S
  BY <1>1, NatSetsBelow
<1>. QED BY <1>2 DEF S

\* The bytes of a number: all but the last have the continuation bit.
LEMMA EmitIntFacts ==
  ASSUME NEW num \in Nat
  PROVE  /\ EmitInt(num) \in Seq(Byte) /\ Len(EmitInt(num)) \in Nat \ {0}
         /\ ~ More(EmitInt(num)[Len(EmitInt(num))])
         /\ \A k \in 1 .. Len(EmitInt(num)) - 1 : More(EmitInt(num)[k])
         /\ Value(EmitInt(num)) = num
<1>. DEFINE q == num \div Radix
            d == num % Radix
<1>1. PICK f : BytesBefore(num, f) /\ EmitInt(num) = Append(f[q], d)
  BY EmitIntIs
<1>2. q \in 0 .. num /\ d \in 0 .. Radix - 1 /\ num = q * Radix + d
  <2>1. CASE num = 0
    <3>1. 0 \div Radix = 0 /\ 0 % Radix = 0 /\ 0 * Radix = 0 /\ Radix \in Nat /\ Radix > 1
      BY IntAssumption
    <3>. QED BY <2>1, <3>1
  <2>2. CASE num # 0
    <3>1. PICK p \in 0 .. num - 1, r \in 0 .. Radix - 1 :
                 num \div Radix = p /\ num % Radix = r /\ num = p * Radix + r
      BY <2>2, QuotientSplit
    <3>2. q = p /\ d = r
      BY <3>1
    <3>. HIDE DEF q, d
    <3>. QED BY <3>1, <3>2
  <2>. QED BY <2>1, <2>2
<1>3. f[q] \in Seq(HighByte) /\ Value(f[q]) = q
  BY <1>1, <1>2, BytesBeforeFacts
<1>4. HighByte \subseteq Byte /\ d \in Byte /\ Digit(d) = d /\ ~ More(d)
      /\ \A b \in HighByte : More(b)
  <2>1. \A r \in 0 .. Radix - 1 : r % Radix = r
    BY IntAssumption
  <2>. QED BY <1>2, <2>1, IntAssumption DEF HighByte, Byte, Digit, More
<1>. HIDE DEF q, d
<1>5. f[q] \in Seq(Byte)
  BY <1>3, <1>4
<1>6. Value(EmitInt(num)) = num
  BY <1>1, <1>2, <1>3, <1>4, <1>5, ValueAppend DEF Shift
<1>. DEFINE e == Append(f[q], d)
<1>7. /\ e \in Seq(Byte) /\ Len(e) \in Nat \ {0} /\ e[Len(e)] = d
      /\ \A k \in 1 .. Len(e) - 1 : e[k] \in HighByte
  BY <1>3, <1>4, <1>5
<1>. HIDE DEF e
<1>8. EmitInt(num) = e
  BY <1>1 DEF e
<1>. QED BY <1>4, <1>6, <1>7, <1>8

\* A number that was written is read back, wherever it stands in a section.
THEOREM WrittenIsRead ==
  ASSUME NEW num \in Usize, NEW buf \in Seq(Byte), NEW i \in Nat,
         i + Len(EmitInt(num)) <= Len(buf),
         \A k \in 1 .. Len(EmitInt(num)) : buf[i + k] = EmitInt(num)[k]
  PROVE  ReadInt(buf, i) = [ok |-> TRUE, val |-> num, next |-> i + Len(EmitInt(num))]
<1>. DEFINE b    == EmitInt(num)
            n    == Len(b)
            e    == i + n
            Ends == {j \in i + 1 .. Len(buf) :
                       /\ ~ More(buf[j]) /\ \A k \in i + 1 .. j - 1 : More(buf[k])
                       /\ Value(SubSeq(buf, i + 1, j)) \in Usize}
            end  == CHOOSE j \in Ends : TRUE
<1>1. num \in Nat
  BY IntAssumption DEF Usize
<1>2. /\ b \in Seq(Byte) /\ n \in Nat \ {0} /\ ~ More(b[n]) /\ Value(b) = num
      /\ \A k \in 1 .. n - 1 : More(b[k])
  BY <1>1, EmitIntFacts
<1>3. i + n <= Len(buf) /\ \A k \in 1 .. n : buf[i + k] = b[k]
  OBVIOUS
<1>4. ReadInt(buf, i) = IF Ends = {} THEN [ok |-> FALSE, val |-> 0, next |-> i]
                        ELSE [ok |-> TRUE, val |-> Value(SubSeq(buf, i + 1, end)), next |-> end]
  BY DEF ReadInt
<1>. HIDE DEF b, n
<1>5. SubSeq(buf, i + 1, e) = b
  <2>1. SubSeq(buf, i + 1, i + n) = [k \in 1 .. n |-> buf[i + k]]
    BY <1>2, <1>3
  <2>2. b = [k \in 1 .. n |-> b[k]]
    BY <1>2 DEF n
  <2>. QED BY <1>3, <2>1, <2>2
<1>6. ~ More(buf[e])
  BY <1>2, <1>3
<1>7. \A k \in i + 1 .. e - 1 : More(buf[k])
  <2>. SUFFICES ASSUME NEW k \in i + 1 .. e - 1 PROVE More(buf[k])
    OBVIOUS
  <2>1. k - i \in 1 .. n - 1 /\ k - i \in 1 .. n /\ k = i + (k - i)
    BY <1>2
  <2>2. buf[i + (k - i)] = b[k - i] /\ More(b[k - i])
    BY <2>1, <1>2, <1>3
  <2>. QED BY <2>1, <2>2
<1>8. e \in Ends
  <2>1. e \in i + 1 .. Len(buf)
    BY <1>2, <1>3
  <2>. QED BY <1>2, <1>5, <1>6, <1>7, <2>1
<1>9. \A j \in Ends : j = e
  <2>. SUFFICES ASSUME NEW j \in Ends PROVE j = e
    OBVIOUS
  <2>1. j \in i + 1 .. Len(buf) /\ ~ More(buf[j]) /\ \A k \in i + 1 .. j - 1 : More(buf[k])
    OBVIOUS
  <2>2. ~ (j < e)
    <3>1. j < e => j \in i + 1 .. e - 1
      BY <2>1, <1>2
    <3>. QED BY <3>1, <2>1, <1>7
  <2>3. ~ (j > e)
    <3>1. j > e => e \in i + 1 .. j - 1
      BY <2>1, <1>2
    <3>. QED BY <3>1, <2>1, <1>6
  <2>. QED BY <2>1, <2>2, <2>3, <1>2
<1>10. end = e
  BY <1>8, <1>9
<1>. HIDE DEF Ends, e, end
<1>11. ReadInt(buf, i) = [ok |-> TRUE, val |-> num, next |-> e]
  BY <1>2, <1>4, <1>5, <1>8, <1>10
<1>. QED BY <1>11 DEF e, n, b

DigitsTo(num, d) == d = [n \in 0 .. num |-> IF n < Radix THEN 1 ELSE 1 + d[n \div Radix]]

LEMMA DigitsToExists ==
  ASSUME NEW num \in Nat
  PROVE  \E d : DigitsTo(num, d)
<1>. DEFINE S == {m \in Nat : \E d : DigitsTo(m, d)}
            zero == [n \in 0 .. 0 |-> 1]
<1>1. 0 \in S
  <2>1. DigitsTo(0, zero)
    BY IntAssumption DEF DigitsTo
  <2>. QED BY <2>1
<1>2. ASSUME NEW m \in Nat, m \in S PROVE m + 1 \in S
  <2>1. PICK d : DigitsTo(m, d)
    BY <1>2
  <2>. DEFINE e(n, g) == IF n < Radix THEN 1 ELSE 1 + g[n \div Radix]
              h == [n \in 0 .. m + 1 |-> e(n, d)]
  <2>2. \A n \in 0 .. m : d[n] = e(n, d)
    BY <2>1 DEF DigitsTo
  <2>3. \A n \in 0 .. m : h[n] = d[n]
    BY <2>2
  <2>4. \A n \in 0 .. m + 1 : ~ (n < Radix) => n \div Radix \in 0 .. m
    BY QuotientLess, IntAssumption
  <2>5. \A n \in 0 .. m + 1 : e(n, d) = e(n, h)
    <3>. HIDE DEF h
    <3>. QED BY <2>3, <2>4
  <2>6. h = [n \in 0 .. m + 1 |-> e(n, h)]
    <3>1. h = [n \in 0 .. m + 1 |-> e(n, d)]
      OBVIOUS
    <3>. HIDE DEF h, e
    <3>. QED BY <3>1, <2>5
  <2>7. DigitsTo(m + 1, h)
    BY <2>6 DEF DigitsTo
  <2>. QED BY <2>7
<1>. HIDE DEF S
<1>3. num \in S
  BY <1>1, <1>2, NatSets
<1>. QED BY <1>3 DEF S

LEMMA DigitsToStep ==
  ASSUME NEW num \in Nat, NEW d, DigitsTo(num, d), NEW n \in 0 .. num
  PROVE  /\ n < Radix => d[n] = 1
         /\ ~ (n < Radix) => d[n] = 1 + d[n \div Radix]
<1>. DEFINE e(k) == 1 + d[k \div Radix]
<1>1. d = [k \in 0 .. num |-> IF k < Radix THEN 1 ELSE e(k)]
  BY DEF DigitsTo
<1>. HIDE DEF e
<1>2. d[n] = IF n < Radix THEN 1 ELSE e(n)
  BY <1>1
<1>. QED BY <1>2 DEF e

\* A number of one digit, and only that, has no quotient.
LEMMA OneDigit ==
  ASSUME NEW n \in Nat
  PROVE  n < Radix <=> n \div Radix = 0
<1>1. Radix \in Nat /\ Radix > 1
  BY IntAssumption
<1>. QED BY <1>1

\* The size announced for a number is the number of bytes that are written.
THEOREM SizeIsLength ==
  ASSUME NEW num \in Nat
  PROVE  SizeofSize(num) = Len(EmitInt(num))
<1>1. PICK f : BytesBefore(num, f) /\ EmitInt(num) = Append(f[num \div Radix], num % Radix)
  BY EmitIntIs
<1>. DEFINE d == CHOOSE g : DigitsTo(num, g)
<1>2. DigitsTo(num, d)
  BY DigitsToExists
<1>3. SizeofSize(num) = d[num]
  BY DEF SizeofSize, DigitsTo
<1>. HIDE DEF d
<1>. DEFINE S == {n \in Nat : n <= num => d[n] = 1 + Len(f[n \div Radix])}
<1>4. ASSUME NEW n \in Nat, 0 .. n - 1 \subseteq S PROVE n \in S
  <2>. SUFFICES ASSUME n <= num PROVE d[n] = 1 + Len(f[n \div Radix])
    OBVIOUS
  <2>. HIDE DEF S
  <2>. DEFINE q == n \div Radix
  <2>1. CASE n < Radix
    <3>1. q = 0
      BY <2>1, OneDigit
    <3>2. d[n] = 1
      BY <2>1, <1>2, DigitsToStep
    <3>3. f[0] = <<>>
      BY <1>1, BytesBeforeStep
    <3>. QED BY <3>1, <3>2, <3>3
  <2>2. CASE ~ (n < Radix)
    <3>1. q # 0 /\ n # 0
      BY <2>2, OneDigit, IntAssumption
    <3>2. q \in 0 .. n - 1
      BY <3>1, QuotientLess
    <3>3. d[n] = 1 + d[q]
      BY <2>2, <1>2, DigitsToStep
    <3>. HIDE DEF q
    <3>4. q \in S /\ q \in Nat /\ q \in 1 .. num
      BY <1>4, <3>1, <3>2
    <3>5. d[q] = 1 + Len(f[q \div Radix])
      BY <3>4 DEF S
    <3>6. f[q] = Append(f[q \div Radix], Radix + (q % Radix))
      BY <1>1, <3>4, BytesBeforeStep
    <3>7. f[q \div Radix] \in Seq(HighByte)
      <4>1. q \div Radix \in 0 .. q - 1
        BY <3>4, QuotientLess
      <4>2. q \div Radix \in 0 .. num
        BY <3>4, <4>1
      <4>. QED BY <4>2, <1>1, BytesBeforeFacts
    <3>. DEFINE p == q \div Radix
                b == Radix + (q % Radix)
    <3>8. f[q] = Append(f[p], b) /\ f[p] \in Seq(HighByte) /\ d[q] = 1 + Len(f[p])
      BY <3>5, <3>6, <3>7
    <3>. HIDE DEF p, b
    <3>9. Len(f[q]) = 1 + Len(f[p])
      BY <3>8
    <3>. QED BY <3>3, <3>8, <3>9 DEF q
  <2>. QED BY <2>1, <2>2
<1>. HIDE DEF S
<1>5. Nat \subseteq S
  BY <1>4, NatSetsBelow
<1>6. d[num] = 1 + Len(f[num \div Radix])
  BY <1>5 DEF S
<1>. DEFINE q == num \div Radix
            l == num % Radix
<1>7. q \in 0 .. num
  <2>1. CASE num = 0
    <3>1. 0 \div Radix = 0
      BY IntAssumption
    <3>. QED BY <2>1, <3>1
  <2>2. CASE num # 0
    <3>1. q \in 0 .. num - 1
      BY <2>2, QuotientLess
    <3>. HIDE DEF q
    <3>. QED BY <3>1
  <2>. QED BY <2>1, <2>2
<1>8. d[num] = 1 + Len(f[q]) /\ EmitInt(num) = Append(f[q], l)
  BY <1>1, <1>6
<1>. HIDE DEF q, l
<1>9. f[q] \in Seq(HighByte)
  BY <1>1, <1>7, BytesBeforeFacts
<1>10. Len(Append(f[q], l)) = 1 + Len(f[q])
  BY <1>9
<1>. QED BY <1>3, <1>8, <1>10

LEMMA DigitsToAgree ==
  ASSUME NEW m \in Nat, NEW n \in Nat, m <= n, NEW d, NEW g,
         DigitsTo(m, d), DigitsTo(n, g)
  PROVE  \A k \in 0 .. m : d[k] = g[k]
<1>. DEFINE S == {k \in Nat : k <= m => d[k] = g[k]}
<1>1. ASSUME NEW k \in Nat, 0 .. k - 1 \subseteq S PROVE k \in S
  <2>. SUFFICES ASSUME k <= m PROVE d[k] = g[k]
    OBVIOUS
  <2>. HIDE DEF S
  <2>1. k \in 0 .. m /\ k \in 0 .. n
    OBVIOUS
  <2>2. CASE k < Radix
    BY <2>1, <2>2, DigitsToStep
  <2>3. CASE ~ (k < Radix)
    <3>1. k # 0
      BY <2>3, IntAssumption
    <3>2. k \div Radix \in 0 .. k - 1
      BY <3>1, QuotientLess
    <3>3. d[k] = 1 + d[k \div Radix] /\ g[k] = 1 + g[k \div Radix]
      BY <2>1, <2>3, DigitsToStep
    <3>. DEFINE q == k \div Radix
    <3>4. q \in 0 .. k - 1 /\ d[k] = 1 + d[q] /\ g[k] = 1 + g[q]
      BY <3>2, <3>3
    <3>. HIDE DEF q
    <3>5. q \in S /\ q \in Nat /\ q <= m
      BY <1>1, <3>4
    <3>6. d[q] = g[q]
      BY <3>5 DEF S
    <3>. QED BY <3>4, <3>6
  <2>. QED BY <2>2, <2>3
<1>. HIDE DEF S
<1>2. Nat \subseteq S
  BY <1>1, NatSetsBelow
<1>. QED BY <1>2 DEF S

LEMMA QuotientMonotone ==
  ASSUME NEW x \in Nat, NEW y \in Nat, x <= y, x # 0
  PROVE  x \div Radix <= y \div Radix
<1>1. PICK p \in 0 .. x - 1, r \in 0 .. Radix - 1 :
        x \div Radix = p /\ x % Radix = r /\ x = p * Radix + r
  BY QuotientSplit
<1>2. PICK q \in 0 .. y - 1, t \in 0 .. Radix - 1 :
        y \div Radix = q /\ y % Radix = t /\ y = q * Radix + t
  BY QuotientSplit
<1>3. Radix \in Nat /\ p \in Nat /\ q \in Nat /\ r \in Nat /\ t \in Nat
      /\ p * Radix \in Nat /\ q * Radix \in Nat
  BY IntAssumption
<1>4. p >= q + 1 => p * Radix >= (q + 1) * Radix
  BY <1>3
<1>5. (q + 1) * Radix = q * Radix + Radix
  BY <1>3
<1>6. ~ (p >= q + 1)
  BY <1>1, <1>2, <1>3, <1>4, <1>5
<1>7. p <= q
  BY <1>3, <1>6
<1>. QED BY <1>1, <1>2, <1>7

\* A larger number takes no fewer bytes, and every number takes one.
LEMMA DigitsToMonotone ==
  ASSUME NEW num \in Nat, NEW d, DigitsTo(num, d)
  PROVE  \A n \in 0 .. num : d[n] \in Nat \ {0} /\ \A x \in 0 .. n : d[x] <= d[n]
<1>. DEFINE S == {n \in Nat : n <= num =>
                    d[n] \in Nat \ {0} /\ \A x \in 0 .. n : d[x] <= d[n]}
<1>1. ASSUME NEW n \in Nat, 0 .. n - 1 \subseteq S PROVE n \in S
  <2>. SUFFICES ASSUME n <= num
                PROVE  d[n] \in Nat \ {0} /\ \A x \in 0 .. n : d[x] <= d[n]
    OBVIOUS
  <2>. HIDE DEF S
  <2>1. CASE n < Radix
    <3>1. \A x \in 0 .. n : x \in 0 .. num /\ x < Radix
      BY <2>1, IntAssumption
    <3>2. \A x \in 0 .. n : d[x] = 1
      BY <3>1, DigitsToStep
    <3>. QED BY <3>2
  <2>2. CASE ~ (n < Radix)
    <3>. DEFINE q == n \div Radix
    <3>1. n # 0 /\ n \in 0 .. num
      BY <2>2, IntAssumption
    <3>2. q \in 0 .. n - 1 /\ d[n] = 1 + d[q]
      BY <2>2, <3>1, QuotientLess, DigitsToStep
    <3>3. \A x \in 0 .. n : x # 0 => x \div Radix <= q
      BY QuotientMonotone
    <3>. HIDE DEF q
    <3>4. q \in S /\ q \in Nat /\ q <= num
      BY <1>1, <3>2
    <3>5. d[q] \in Nat \ {0} /\ \A x \in 0 .. q : d[x] <= d[q]
      BY <3>4 DEF S
    <3>6. ASSUME NEW x \in 0 .. n PROVE d[x] <= d[n]
      <4>0. x \in 0 .. num
        BY <3>1
      <4>1. CASE x < Radix
        <5>1. d[x] = 1
          BY <4>0, <4>1, DigitsToStep
        <5>. QED BY <5>1, <3>2, <3>5
      <4>2. CASE ~ (x < Radix)
        <5>. DEFINE p == x \div Radix
        <5>1. x # 0
          BY <4>2, IntAssumption
        <5>2. p \in 0 .. x - 1 /\ d[x] = 1 + d[p] /\ p <= q
          BY <4>0, <4>2, <5>1, <3>3, QuotientLess, DigitsToStep
        <5>. HIDE DEF p
        <5>3. p \in 0 .. q /\ p \in 0 .. n - 1 /\ p \in Nat /\ p <= num
          BY <5>2, <3>4, <3>1
        <5>4. d[p] <= d[q] /\ p \in S
          BY <5>3, <3>5, <1>1
        <5>5. d[p] \in Nat
          BY <5>3, <5>4 DEF S
        <5>. QED BY <5>2, <5>4, <5>5, <3>2, <3>5
      <4>. QED BY <4>1, <4>2
    <3>. QED BY <3>2, <3>5, <3>6
  <2>. QED BY <2>1, <2>2
<1>. HIDE DEF S
<1>2. Nat \subseteq S
  BY <1>1, NatSetsBelow
<1>. QED BY <1>2 DEF S

LEMMA SizeIs ==
  ASSUME NEW num \in Nat
  PROVE  \E d : DigitsTo(num, d) /\ SizeofSize(num) = d[num]
<1>. DEFINE d == CHOOSE g : DigitsTo(num, g)
<1>1. DigitsTo(num, d)
  BY DigitsToExists
<1>2. SizeofSize(num) = d[num]
  BY DEF SizeofSize, DigitsTo
<1>. QED BY <1>1, <1>2

LEMMA SizeFacts ==
  ASSUME NEW x \in Nat, NEW y \in Nat, x <= y
  PROVE  /\ SizeofSize(x) \in Nat \ {0} /\ SizeofSize(x) <= SizeofSize(y)
         /\ x < Radix => SizeofSize(x) = 1
<1>1. PICK d : DigitsTo(x, d) /\ SizeofSize(x) = d[x]
  BY SizeIs
<1>2. PICK g : DigitsTo(y, g) /\ SizeofSize(y) = g[y]
  BY SizeIs
<1>3. x \in 0 .. x /\ x \in 0 .. y /\ y \in 0 .. y
  OBVIOUS
<1>4. d[x] = g[x]
  BY <1>1, <1>2, <1>3, DigitsToAgree
<1>5. g[x] <= g[y]
  BY <1>2, <1>3, DigitsToMonotone
<1>6. d[x] \in Nat \ {0}
  BY <1>1, <1>3, DigitsToMonotone
<1>7. x < Radix => d[x] = 1
  BY <1>1, <1>3, DigitsToStep
<1>. QED BY <1>1, <1>2, <1>4, <1>5, <1>6, <1>7

-----------------------------------------------------------------------------
(* The address cache.                                                      *)

\* Every byte of every SAME mode names a slot of the cache.
LEMMA SameSlotType ==
  ASSUME NEW mode \in Modes, mode >= SameStart, NEW byte \in Byte
  PROVE  (mode - SameStart) * SameBlock + byte \in SameSlots
<1>. DEFINE m == mode - SameStart
<1>1. SSame \in Nat /\ Radix \in Nat /\ Radix > 0 /\ SNear \in Nat
  BY CacheAssumption, IntAssumption
<1>2. m \in Nat /\ m + 1 <= SSame
  BY <1>1 DEF Modes, SameStart
<1>3. SameBlock \in Nat /\ byte \in Nat /\ byte < SameBlock
  BY <1>1 DEF SameBlock, Byte
<1>. HIDE DEF m
<1>4. m * SameBlock \in Nat /\ SSame * SameBlock \in Nat
  BY <1>1, <1>2, <1>3
<1>5. (m + 1) * SameBlock <= SSame * SameBlock
  BY <1>1, <1>2, <1>3
<1>6. (m + 1) * SameBlock = m * SameBlock + SameBlock
  BY <1>2, <1>3
<1>7. m * SameBlock + byte \in SameSlots
  BY <1>3, <1>4, <1>5, <1>6 DEF SameSlots
<1>. QED BY <1>7 DEF m

LEMMA InitCacheType == InitCache \in Cache
BY IntAssumption, CacheAssumption DEF InitCache, Cache, Usize

LEMMA UpdateCacheType ==
  ASSUME NEW c \in Cache, NEW addr \in Usize
  PROVE  UpdateCache(c, addr) \in Cache
<1>1. SNear \in Nat /\ SNear > 0
  BY CacheAssumption
<1>2. (c.next_slot + 1) % SNear \in 0 .. SNear - 1
  BY <1>1 DEF Cache
<1>3. [c.near EXCEPT ![c.next_slot] = addr] \in [0 .. SNear - 1 -> Usize]
  BY DEF Cache
<1>4. [c.same EXCEPT ![addr % (SSame * SameBlock)] = addr] \in [SameSlots -> Usize]
  BY DEF Cache
<1>. QED BY <1>2, <1>3, <1>4 DEF UpdateCache, Cache

\* A decoded address is a usize_t, whatever the bytes and the cache, and the
\* reading stays inside the section.
LEMMA DecodeAddressType ==
  ASSUME NEW c \in Cache, NEW here \in Usize, NEW mode \in Modes,
         NEW buf \in Seq(Byte), NEW i \in 0 .. Len(buf)
  PROVE  LET d == DecodeAddress(c, here, mode, buf, i)
         IN  /\ d.ok \in BOOLEAN /\ d.addr \in Usize
             /\ d.next \in i .. Len(buf) /\ d.cache \in Cache
<1>. DEFINE d == DecodeAddress(c, here, mode, buf, i)
<1>1. CASE mode < SameStart
  <2>. DEFINE r    == ReadInt(buf, i)
              addr == CASE mode = VCD_SELF -> r.val
                        [] mode = VCD_HERE -> USub(here, r.val)
                        [] OTHER           -> UAdd(r.val, c.near[mode - 2])
  <2>1. r.ok \in BOOLEAN /\ r.val \in Usize /\ r.next \in i .. Len(buf)
    BY ReadIntType
  <2>2. d = [ok |-> r.ok, addr |-> addr, next |-> r.next,
             cache |-> IF r.ok THEN UpdateCache(c, addr) ELSE c]
    BY <1>1 DEF DecodeAddress
  <2>3. (mode # VCD_SELF /\ mode # VCD_HERE) => mode - 2 \in 0 .. SNear - 1
    BY <1>1, CacheAssumption DEF Modes, SameStart, VCD_SELF, VCD_HERE
  <2>4. (mode # VCD_SELF /\ mode # VCD_HERE) => c.near[mode - 2] \in Usize
    BY <2>3 DEF Cache
  <2>. HIDE DEF r
  <2>5. addr \in Usize
    BY <2>1, <2>4, USubType, UAddType
  <2>6. UpdateCache(c, addr) \in Cache
    BY <2>5, UpdateCacheType
  <2>. HIDE DEF addr
  <2>. QED BY <2>1, <2>2, <2>5, <2>6
<1>2. CASE mode >= SameStart /\ i >= Len(buf)
  <2>1. ~ (mode < SameStart)
    BY <1>2, CacheAssumption DEF SameStart, Modes
  <2>2. d = [ok |-> FALSE, addr |-> 0, next |-> i, cache |-> c]
    BY <1>2, <2>1 DEF DecodeAddress
  <2>. QED BY <2>2, IntAssumption DEF Usize
<1>3. CASE mode >= SameStart /\ i < Len(buf)
  <2>. DEFINE addr == c.same[(mode - SameStart) * SameBlock + buf[i + 1]]
  <2>1. buf[i + 1] \in Byte
    BY <1>3
  <2>2. (mode - SameStart) * SameBlock + buf[i + 1] \in SameSlots
    BY <1>3, <2>1, SameSlotType
  <2>3. addr \in Usize
    BY <2>2 DEF Cache
  <2>. HIDE DEF addr
  <2>4. UpdateCache(c, addr) \in Cache
    BY <2>3, UpdateCacheType
  <2>5. ~ (mode < SameStart) /\ ~ (i >= Len(buf))
    BY <1>3, CacheAssumption DEF SameStart, Modes
  <2>6. d = [ok |-> TRUE, addr |-> addr, next |-> i + 1,
             cache |-> UpdateCache(c, addr)]
    BY <2>5 DEF DecodeAddress, addr
  <2>. QED BY <2>3, <2>4, <2>6, <1>3
<1>. QED BY <1>1, <1>2, <1>3, CacheAssumption DEF SameStart, Modes

\* The number of slots of the SAME cache is a number of addresses.
LEMMA SlotsType ==
  /\ SameBlock \in Nat \ {0} /\ SSame * SameBlock \in Nat \ {0}
  /\ SNear \in Nat \ {0} /\ SameStart \in Nat /\ SameStart = SNear + 2
  /\ UintMod \in Nat \ {0}
<1>1. SSame \in Nat \ {0} /\ Radix \in Nat /\ Radix > 1 /\ SNear \in Nat \ {0}
      /\ UintMod \in Nat \ {0}
  BY CacheAssumption, IntAssumption
<1>2. SameBlock \in Nat \ {0}
  BY <1>1 DEF SameBlock
<1>3. SSame * SameBlock \in Nat \ {0}
  BY <1>1, <1>2
<1>. QED BY <1>1, <1>2, <1>3 DEF SameStart

LEMMA SlotType ==
  ASSUME NEW a \in Nat
  PROVE  /\ a % (SSame * SameBlock) \in SameSlots
         /\ \A b \in SameSlots : b % (SSame * SameBlock) = b
<1>. DEFINE n == SSame * SameBlock
<1>1. n \in Nat \ {0} /\ SameSlots = 0 .. n - 1
  BY SlotsType DEF SameSlots
<1>. HIDE DEF n
<1>2. a % n \in 0 .. n - 1 /\ \A b \in 0 .. n - 1 : b % n = b
  BY <1>1
<1>. QED BY <1>1, <1>2 DEF n

\* What a mode can say of an address: the number that it writes.
LEMMA DeltaType ==
  ASSUME NEW c \in Cache, NEW a \in Nat, NEW h \in Usize, a < h,
         NEW m \in Candidates(c, a)
  PROVE  /\ m \in 0 .. SameStart - 1 /\ Delta(c, m, a, h) \in Usize
         /\ m # VCD_SELF /\ m # VCD_HERE => c.near[m - 2] \in Usize /\ a >= c.near[m - 2]
<1>1. m \in 0 .. SameStart - 1 /\ (m < 2 \/ a >= c.near[m - 2])
  BY DEF Candidates
<1>2. h \in Nat /\ h < UsizeMod /\ UsizeMod \in Nat
  BY IntAssumption DEF Usize
<1>3. a \in Usize /\ h - a \in Usize
  BY <1>2 DEF Usize
<1>4. ASSUME m # VCD_SELF, m # VCD_HERE
      PROVE  c.near[m - 2] \in Usize /\ a >= c.near[m - 2] /\ a - c.near[m - 2] \in Usize
  <2>1. m - 2 \in 0 .. SNear - 1 /\ ~ (m < 2)
    BY <1>1, <1>4, SlotsType DEF VCD_SELF, VCD_HERE
  <2>2. c.near[m - 2] \in Usize
    BY <2>1 DEF Cache
  <2>3. a >= c.near[m - 2]
    BY <1>1, <2>1
  <2>. QED BY <1>2, <2>2, <2>3 DEF Usize
<1>. QED BY <1>1, <1>3, <1>4 DEF Delta, VCD_SELF, VCD_HERE

\* The three ways in which xd3_encode_address ends: with a number of one byte
\* (so far as its lower half shows), with a hit in the SAME cache, or with a
\* smallest number.
LEMMA ModeChosen ==
  ASSUME NEW c \in Cache, NEW a \in Nat, NEW h \in Usize, a < h
  PROVE  LET e    == EncodeAddress(c, a, h)
             slot == a % (SSame * SameBlock)
         IN  /\ e.cache = UpdateCache(c, a)
             /\ \/ \E m \in Candidates(c, a) :
                     /\ e.mode = m /\ e.bytes = EmitInt(Delta(c, m, a, h))
                     /\ \/ Delta(c, m, a, h) % UintMod < Radix
                        \/ /\ a # 0 /\ c.same[slot] # a
                           /\ \A n \in Candidates(c, a) : Delta(c, m, a, h) <= Delta(c, n, a, h)
                \/ /\ c.same[slot] = a
                   /\ e.mode = SameStart + slot \div SameBlock
                   /\ e.bytes = <<slot % SameBlock>>
<1>. DEFINE e     == EncodeAddress(c, a, h)
            slot  == a % (SSame * SameBlock)
            D(m)  == Delta(c, m, a, h)
            cand  == Candidates(c, a)
            Best(m) == \A n \in cand : n < m => D(m) < D(n)
            Small == {m \in cand : Best(m) /\ D(m) % UintMod < Radix}
            least == {m \in cand : \A n \in cand : D(m) <= D(n)}
            First(S) == CHOOSE m \in S : \A n \in S : m <= n
            byInt(m) == [mode |-> m, bytes |-> EmitInt(D(m)),
                         cache |-> UpdateCache(c, a)]
            hit   == [mode  |-> SameStart + slot \div SameBlock,
                      bytes |-> <<slot % SameBlock>>,
                      cache |-> UpdateCache(c, a)]
<1>1. e = IF Small # {} THEN byInt(First(Small))
          ELSE IF c.same[slot] = a THEN hit ELSE byInt(First(least))
  BY DEF EncodeAddress
<1>2. /\ \A m \in cand : m \in Nat /\ D(m) \in Nat
      /\ 0 \in cand /\ D(0) = a
  <2>1. \A m \in cand : m \in 0 .. SameStart - 1 /\ D(m) \in Usize
    BY DeltaType
  <2>2. 0 \in cand
    BY SlotsType DEF Candidates
  <2>3. D(0) = a
    BY DEF Delta, VCD_SELF, VCD_HERE
  <2>. QED BY <2>1, <2>2, <2>3, IntAssumption, SlotsType DEF Usize
<1>3. ASSUME Small # {}
      PROVE  First(Small) \in cand /\ D(First(Small)) % UintMod < Radix
  <2>1. Small \in SUBSET Nat
    BY <1>2
  <2>2. \E m \in Small : \A n \in Small : m <= n
    <3>. HIDE DEF Small
    <3>. QED BY <1>3, <2>1, LeastExists
  <2>3. First(Small) \in Small
    <3>. HIDE DEF Small
    <3>. QED BY <2>2
  <2>. HIDE DEF First
  <2>. QED BY <2>3
<1>4. First(least) \in least
  <2>. DEFINE T == {D(m) : m \in cand}
  <2>1. T \in SUBSET Nat /\ T # {}
    BY <1>2
  <2>. HIDE DEF D, cand
  <2>2. PICK d \in T : \A n \in T : d <= n
    <3>. HIDE DEF T
    <3>. QED BY <2>1, LeastExists
  <2>3. PICK m \in cand : d = D(m)
    BY <2>2
  <2>4. \A n \in cand : D(m) <= D(n)
    BY <2>2, <2>3
  <2>5. m \in least
    BY <2>3, <2>4
  <2>6. least \in SUBSET Nat /\ least # {}
    BY <2>5, <1>2
  <2>. HIDE DEF least
  <2>7. \E k \in least : \A n \in least : k <= n
    BY <2>6, LeastExists
  <2>. QED BY <2>7
<1>5. ASSUME Small = {} PROVE a # 0
  <2>1. Best(0)
    BY <1>2
  <2>2. D(0) % UintMod = a % UintMod
    BY <1>2
  <2>3. ~ (a % UintMod < Radix)
    BY <1>2, <1>5, <2>1, <2>2
  <2>4. 0 % UintMod = 0 /\ 0 < Radix
    BY SlotsType, IntAssumption
  <2>. QED BY <2>3, <2>4
<1>6. First(least) \in cand /\ \A n \in cand : D(First(least)) <= D(n)
  <2>. HIDE DEF First
  <2>. QED BY <1>4
<1>. HIDE DEF First, Small, least, cand, D, slot
<1>7. CASE Small # {}
  <2>. DEFINE m == First(Small)
  <2>1. e = byInt(m)
    BY <1>1, <1>7
  <2>2. m \in cand /\ D(m) % UintMod < Radix
    BY <1>3, <1>7
  <2>. HIDE DEF m
  <2>3. e.cache = UpdateCache(c, a) /\ e.mode = m /\ e.bytes = EmitInt(D(m))
    BY <2>1
  <2>. HIDE DEF e
  <2>. QED BY <2>2, <2>3 DEF D, cand, slot, e
<1>8. CASE Small = {} /\ c.same[slot] = a
  <2>1. e = hit
    BY <1>1, <1>8
  <2>2. /\ e.cache = UpdateCache(c, a)
        /\ e.mode = SameStart + slot \div SameBlock /\ e.bytes = <<slot % SameBlock>>
    BY <2>1
  <2>. HIDE DEF e
  <2>. QED BY <1>8, <2>2 DEF D, cand, slot, e
<1>9. CASE Small = {} /\ c.same[slot] # a
  <2>. DEFINE m == First(least)
  <2>1. e = byInt(m)
    BY <1>1, <1>9
  <2>2. m \in cand /\ \A n \in cand : D(m) <= D(n)
    BY <1>6
  <2>. HIDE DEF m
  <2>3. e.cache = UpdateCache(c, a) /\ e.mode = m /\ e.bytes = EmitInt(D(m))
    BY <2>1
  <2>. HIDE DEF e
  <2>. QED BY <1>5, <1>9, <2>2, <2>3 DEF D, cand, slot, e
<1>. QED BY <1>7, <1>8, <1>9

\* The byte of a hit in the SAME cache names the slot again.
LEMMA SlotOfByte ==
  ASSUME NEW slot \in SameSlots
  PROVE  \E q \in Nat, r \in Byte :
           /\ slot \div SameBlock = q /\ slot % SameBlock = r
           /\ SameStart + q \in Modes /\ (SameStart + q) - SameStart = q
           /\ q * SameBlock + r = slot
<1>1. SameBlock \in Nat \ {0} /\ SSame \in Nat /\ SameStart \in Nat
      /\ SSame * SameBlock \in Nat
  BY SlotsType, CacheAssumption
<1>2. slot \in Nat /\ slot < SSame * SameBlock
  BY <1>1 DEF SameSlots
<1>. DEFINE q == slot \div SameBlock
            r == slot % SameBlock
<1>. SUFFICES /\ q \in Nat /\ r \in Byte
              /\ SameStart + q \in Modes /\ (SameStart + q) - SameStart = q
              /\ q * SameBlock + r = slot
  OBVIOUS
<1>3. q \in Nat /\ r \in 0 .. SameBlock - 1 /\ slot = SameBlock * q + r
  BY <1>1, <1>2
<1>4. r \in Byte
  <2>. HIDE DEF r
  <2>. QED BY <1>3 DEF Byte, SameBlock
<1>. HIDE DEF q, r
<1>5. q < SSame
  <2>1. q >= SSame => SameBlock * q >= SameBlock * SSame
    BY <1>1, <1>3
  <2>2. SameBlock * SSame = SSame * SameBlock
    BY <1>1
  <2>. QED BY <1>1, <1>2, <1>3, <2>1, <2>2
<1>6. SameStart + q \in Modes /\ (SameStart + q) - SameStart = q
  BY <1>1, <1>3, <1>5 DEF Modes
<1>7. q * SameBlock + r = slot
  BY <1>1, <1>3
<1>. QED BY <1>3, <1>4, <1>6, <1>7

\* Whatever is in the two caches, as long as it is the same: the decoder reads
\* the address that xd3_encode_address coded, uses up its bytes, and has the
\* cache that the encoder has now.
THEOREM EncodedIsDecoded ==
  ASSUME NEW c \in Cache, NEW a \in Nat, NEW h \in Usize, a < h
  PROVE  LET e == EncodeAddress(c, a, h)
         IN  /\ e.mode \in Modes /\ e.bytes \in Seq(Byte)
             /\ e.cache = UpdateCache(c, a)
             /\ DecodeAddress(c, h, e.mode, e.bytes, 0)
                  = [ok |-> TRUE, addr |-> a, next |-> Len(e.bytes), cache |-> e.cache]
<1>. DEFINE e    == EncodeAddress(c, a, h)
            slot == a % (SSame * SameBlock)
            Same == /\ c.same[slot] = a
                    /\ e.mode = SameStart + slot \div SameBlock
                    /\ e.bytes = <<slot % SameBlock>>
<1>0. h \in Nat /\ h < UsizeMod /\ UsizeMod \in Nat
  BY IntAssumption DEF Usize
<1>1. /\ e.cache = UpdateCache(c, a)
      /\ \/ \E m \in Candidates(c, a) : e.mode = m /\ e.bytes = EmitInt(Delta(c, m, a, h))
         \/ Same
  BY ModeChosen
<1>. HIDE DEF e
<1>2. ASSUME NEW m \in Candidates(c, a), e.mode = m, e.bytes = EmitInt(Delta(c, m, a, h))
      PROVE  /\ e.mode \in Modes /\ e.bytes \in Seq(Byte)
             /\ DecodeAddress(c, h, e.mode, e.bytes, 0)
                  = [ok |-> TRUE, addr |-> a, next |-> Len(e.bytes), cache |-> e.cache]
  <2>. DEFINE d   == Delta(c, m, a, h)
              buf == EmitInt(d)
              r   == ReadInt(buf, 0)
              got_ == CASE m = VCD_SELF -> r.val
                        [] m = VCD_HERE -> USub(h, r.val)
                        [] OTHER        -> UAdd(r.val, c.near[m - 2])
  <2>1. /\ m \in 0 .. SameStart - 1 /\ d \in Usize
        /\ m # VCD_SELF /\ m # VCD_HERE => c.near[m - 2] \in Usize /\ a >= c.near[m - 2]
    BY DeltaType
  <2>2. m \in Modes /\ m < SameStart
    BY <2>1, SlotsType, CacheAssumption DEF Modes
  <2>3. d = CASE m = VCD_SELF -> a [] m = VCD_HERE -> h - a [] OTHER -> a - c.near[m - 2]
    BY DEF Delta
  <2>. HIDE DEF d
  <2>4. buf \in Seq(Byte)
    BY <2>1, EmitIntFacts, IntAssumption DEF Usize
  <2>5. r = [ok |-> TRUE, val |-> d, next |-> Len(buf)]
    <3>. HIDE DEF buf
    <3>1. Len(buf) \in Nat /\ 0 + Len(buf) = Len(buf)
      BY <2>4
    <3>2. \A k \in 1 .. Len(buf) : buf[0 + k] = buf[k]
      BY <3>1
    <3>3. ReadInt(buf, 0) = [ok |-> TRUE, val |-> d, next |-> 0 + Len(buf)]
      BY <2>1, <2>4, <3>1, <3>2, WrittenIsRead DEF buf
    <3>. QED BY <3>1, <3>3
  <2>6. DecodeAddress(c, h, m, buf, 0)
          = [ok |-> r.ok, addr |-> got_, next |-> r.next,
             cache |-> IF r.ok THEN UpdateCache(c, got_) ELSE c]
    BY <2>2 DEF DecodeAddress
  <2>. HIDE DEF buf, r
  <2>7. got_ = a
    <3>1. r.val = d
      BY <2>5
    <3>2. CASE m = VCD_SELF
      BY <3>1, <3>2, <2>3 DEF VCD_SELF, VCD_HERE
    <3>3. CASE m = VCD_HERE
      <4>1. d = h - a /\ got_ = USub(h, d)
        BY <3>1, <3>3, <2>3 DEF VCD_SELF, VCD_HERE
      <4>2. USub(h, h - a) = a
        BY <1>0 DEF USub
      <4>. QED BY <4>1, <4>2
    <3>4. CASE m # VCD_SELF /\ m # VCD_HERE
      <4>. DEFINE n == c.near[m - 2]
      <4>1. d = a - n /\ got_ = UAdd(d, n)
        BY <3>1, <3>4, <2>3
      <4>2. n \in Nat /\ a >= n
        BY <3>4, <2>1, IntAssumption DEF Usize
      <4>. HIDE DEF n
      <4>3. UAdd(a - n, n) = a
        BY <1>0, <4>2 DEF UAdd
      <4>. QED BY <4>1, <4>3
    <3>. QED BY <3>2, <3>3, <3>4
  <2>. HIDE DEF got_
  <2>8. r.ok = TRUE /\ r.next = Len(buf)
    BY <2>5
  <2>9. DecodeAddress(c, h, m, buf, 0)
          = [ok |-> TRUE, addr |-> a, next |-> Len(buf), cache |-> UpdateCache(c, a)]
    BY <2>6, <2>7, <2>8
  <2>10. e.bytes = buf
    BY <1>2 DEF buf, d
  <2>. QED BY <1>1, <1>2, <2>2, <2>4, <2>9, <2>10
<1>3. ASSUME Same
      PROVE  /\ e.mode \in Modes /\ e.bytes \in Seq(Byte)
             /\ DecodeAddress(c, h, e.mode, e.bytes, 0)
                  = [ok |-> TRUE, addr |-> a, next |-> Len(e.bytes), cache |-> e.cache]
  <2>1. slot \in SameSlots
    BY SlotType
  <2>. HIDE DEF slot
  <2>2. PICK q \in Nat, r \in Byte :
          /\ slot \div SameBlock = q /\ slot % SameBlock = r
          /\ SameStart + q \in Modes /\ (SameStart + q) - SameStart = q
          /\ q * SameBlock + r = slot
    BY <2>1, SlotOfByte
  <2>3. e.mode = SameStart + q /\ e.bytes = <<r>> /\ c.same[slot] = a
    BY <1>3, <2>2
  <2>5. <<r>> \in Seq(Byte) /\ Len(<<r>>) = 1 /\ <<r>>[0 + 1] = r
    BY <2>2
  <2>6. ~ (SameStart + q < SameStart) /\ ~ (0 >= Len(<<r>>))
    BY <2>5, SlotsType
  <2>7. DecodeAddress(c, h, SameStart + q, <<r>>, 0)
          = [ok |-> TRUE, addr |-> c.same[((SameStart + q) - SameStart) * SameBlock + <<r>>[0 + 1]],
             next |-> 0 + 1,
             cache |-> UpdateCache(c, c.same[((SameStart + q) - SameStart) * SameBlock + <<r>>[0 + 1]])]
    BY <2>6 DEF DecodeAddress
  <2>8. c.same[((SameStart + q) - SameStart) * SameBlock + <<r>>[0 + 1]] = a
    BY <2>2, <2>3, <2>5
  <2>9. DecodeAddress(c, h, SameStart + q, <<r>>, 0)
          = [ok |-> TRUE, addr |-> a, next |-> Len(<<r>>), cache |-> UpdateCache(c, a)]
    BY <2>5, <2>7, <2>8
  <2>. QED BY <1>1, <2>2, <2>3, <2>5, <2>9
<1>. QED BY <1>1, <1>2, <1>3 DEF e

-----------------------------------------------------------------------------
(* Source blocks.                                                          *)

LEMMA BlockLenType ==
  ASSUME NEW b \in Xoff
  PROVE  /\ BlockLen(b) \in 0 .. BlkSize
         /\ BlockLen(b) > 0 => b * BlkSize + BlockLen(b) <= Len(Source)
<1>1. b * BlkSize \in Nat
  BY SourceAssumption, IntAssumption DEF Xoff
<1>2. Len(Source) \in Nat
  BY SourceAssumption
<1>. QED BY <1>1, <1>2, SourceAssumption DEF BlockLen

LEMMA DivBound ==
  ASSUME NEW n \in Nat, NEW k \in Nat \ {0}
  PROVE  n \div k \in 0 .. n /\ n % k \in 0 .. k - 1
OBVIOUS
=============================================================================

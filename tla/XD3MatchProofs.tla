---------------------------- MODULE XD3MatchProofs ----------------------------
(***************************************************************************)
(* Proofs about XD3Match, for a buffer that grows: what is known of the    *)
(* source and its end, the tables, and the match that is extended block by *)
(* block, while the search starts again and again.                         *)
(***************************************************************************)
EXTENDS XD3Match, XD3IoptProofs

-----------------------------------------------------------------------------
(* Multiples.                                                              *)

LEMMA Multiples ==
  ASSUME NEW n \in Nat \ {0}, NEW a \in Int, NEW b \in Int
  PROVE  /\ a * n \in Int /\ (a + 1) * n = a * n + n
         /\ a < b => a * n < b * n
         /\ a <= b => a * n <= b * n
         /\ a \in Nat => a * n \in Nat
<1>1. ASSUME a < b PROVE a * n < b * n
  <2>1. b - a \in Nat \ {0}
    BY <1>1
  <2>2. (b - a) * n > 0
    BY <2>1
  <2>3. b * n = a * n + (b - a) * n
    OBVIOUS
  <2>. QED BY <2>2, <2>3
<1>2. a \in Nat => a * n \in Nat
  OBVIOUS
<1>3. a <= b => a * n <= b * n
  <2>1. a <= b => a = b \/ a < b
    OBVIOUS
  <2>2. a = b => a * n <= b * n
    OBVIOUS
  <2>. QED BY <1>1, <2>1, <2>2
<1>4. a * n \in Int /\ (a + 1) * n = a * n + n
  OBVIOUS
<1>. QED BY <1>1, <1>2, <1>3, <1>4

LEMMA Division ==
  ASSUME NEW n \in Nat \ {0}, NEW a \in Nat
  PROVE  /\ a \div n \in Nat /\ a % n \in 0 .. n - 1
         /\ a = (a \div n) * n + (a % n)
<1>1. a \div n \in Int /\ a % n \in 0 .. n - 1 /\ a = n * (a \div n) + (a % n)
  OBVIOUS
<1>2. a \div n \in Nat
  <2>1. SUFFICES ASSUME a \div n < 0 PROVE FALSE
    BY <1>1
  <2>2. (a \div n + 1) * n <= 0 * n
    BY <1>1, <2>1, Multiples
  <2>. QED BY <1>1, <2>2, Multiples
<1>. QED BY <1>1, <1>2

\* A number below the multiple after b's is in a block up to b.
LEMMA DivisionBelow ==
  ASSUME NEW n \in Nat \ {0}, NEW a \in Nat, NEW b \in Nat, a < b * n + n
  PROVE  a \div n \in 0 .. b
<1>. DEFINE q == a \div n
<1>1. q \in Nat /\ q * n <= a
  BY Division
<1>. HIDE DEF q
<1>2. SUFFICES ASSUME b < q PROVE FALSE
  BY <1>1
<1>3. b + 1 <= q /\ b + 1 \in Int
  BY <1>1, <1>2
<1>4. (b + 1) * n <= q * n /\ (b + 1) * n = b * n + n
  BY <1>1, <1>3, Multiples
<1>5. b * n \in Int /\ q * n \in Int
  BY <1>1, Multiples
<1>. QED BY <1>1, <1>4, <1>5

-----------------------------------------------------------------------------
(* The blocks of the source.  A source shorter than a block, whose size is *)
(* not known from the start, is found to end only by asking for block 1.   *)

Small == Len(input.src) < blksize /\ ~ input.eof_known
LastBlock == IF Small THEN 1 ELSE Len(input.src) \div blksize
SrcEnd == LastBlock * blksize + BlockLen(LastBlock)

LEMMA InputFacts ==
  ASSUME input \in Inputs
  PROVE  /\ blksize \in Nat \ {0} /\ lru_size \in Nat /\ lru_size >= 2
         /\ input.max_winsize = lru_size * blksize
         /\ Len(input.src) \in Nat /\ Len(input.tgt) \in Nat
         /\ input.src \in Seq(Nat) /\ input.tgt \in Seq(Nat)
         /\ input.fifo \in BOOLEAN /\ input.eof_known \in BOOLEAN
         /\ input.max_lazy \in Nat
<1>1. /\ blksize \in Nat \ {0} /\ input.fifo \in BOOLEAN
      /\ input.max_winsize \in {k * blksize : k \in 2 .. 32}
  BY MatchAssumption DEF blksize
<1>2. PICK k \in 2 .. 32 : input.max_winsize = k * blksize
  BY <1>1
<1>3. lru_size = k
  <2>. DEFINE n == blksize
              a == k * n
  <2>1. n \in Nat \ {0} /\ k \in Nat /\ a \in Nat
    BY <1>1, Multiples
  <2>2. lru_size = a \div n
    BY <1>2 DEF lru_size
  <2>. HIDE DEF n
  <2>3. a \div n \in Nat /\ a = (a \div n) * n + (a % n) /\ a % n \in 0 .. n - 1
    BY <2>1, Division
  <2>. DEFINE q == a \div n
  <2>. HIDE DEF q
  <2>4. q \in Nat /\ a = q * n + (a % n) /\ a % n \in 0 .. n - 1
    BY <2>3 DEF q
  <2>5. ~ (q < k)
    <3>. SUFFICES ASSUME q < k PROVE FALSE
      OBVIOUS
    <3>1. q + 1 <= k /\ q + 1 \in Int /\ k \in Int /\ q \in Int
      BY <2>1, <2>4
    <3>2. (q + 1) * n <= k * n /\ (q + 1) * n = q * n + n /\ q * n \in Int
      BY <2>1, <3>1, Multiples
    <3>. QED BY <2>1, <2>4, <3>2
  <2>6. ~ (k < q)
    <3>. SUFFICES ASSUME k < q PROVE FALSE
      OBVIOUS
    <3>1. k * n < q * n /\ q * n \in Int
      BY <2>1, <2>4, Multiples
    <3>. QED BY <2>1, <2>4, <3>1
  <2>. QED BY <2>1, <2>2, <2>4, <2>5, <2>6 DEF q
<1>4. /\ input.src \in Seq(Nat) /\ input.tgt \in Seq(Nat)
      /\ input.eof_known \in BOOLEAN /\ input.max_lazy \in Nat
  BY IoptAssumption
<1>5. Len(input.src) \in Nat /\ Len(input.tgt) \in Nat
  BY <1>4, LenProperties
<1>. QED BY <1>1, <1>2, <1>3, <1>4, <1>5

LEMMA LastBlockFacts ==
  ASSUME input \in Inputs
  PROVE  /\ LastBlock \in Nat /\ LastBlock * blksize \in Nat
         /\ Small => LastBlock = 1 /\ BlockLen(1) = 0 /\ BlockLen(0) = Len(input.src)
                     /\ SrcEnd = blksize
         /\ ~ Small => /\ LastBlock * blksize + BlockLen(LastBlock) = Len(input.src)
                       /\ SrcEnd = Len(input.src)
         /\ BlockLen(LastBlock) \in 0 .. blksize - 1
         /\ SrcEnd \in Nat /\ Len(input.src) <= SrcEnd
<1>. DEFINE n == blksize
            len == Len(input.src)
<1>1. n \in Nat \ {0} /\ len \in Nat
  BY InputFacts
<1>2. CASE Small
  <2>1. LastBlock = 1 /\ len < n
    BY <1>2 DEF Small, LastBlock
  <2>2. 1 * n = n /\ 0 * n = 0
    BY <1>1
  <2>3. BlockLen(1) = 0 /\ BlockLen(0) = len
    <3>. HIDE DEF n, len
    <3>1. BlockLen(1) = Greater(0, Lesser(n, len - 1 * n))
          /\ BlockLen(0) = Greater(0, Lesser(n, len - 0 * n))
      BY DEF BlockLen, n, len
    <3>. QED BY <1>1, <2>1, <2>2, <3>1 DEF Greater, Lesser
  <2>4. SrcEnd = n
    BY <1>1, <2>1, <2>2, <2>3 DEF SrcEnd
  <2>. HIDE DEF n, len
  <2>5. n \in Nat /\ 0 \in 0 .. n - 1 /\ len <= n /\ LastBlock * n \in Nat
    BY <1>1, <2>1, <2>2
  <2>. QED BY <1>2, <2>1, <2>3, <2>4, <2>5 DEF n, len
<1>3. CASE ~ Small
  <2>. DEFINE b == len \div n
  <2>1. LastBlock = b
    BY <1>3 DEF LastBlock
  <2>2. b \in Nat /\ len % n \in 0 .. n - 1 /\ len = b * n + (len % n)
    <3>. HIDE DEF n, len
    <3>. QED BY <1>1, Division
  <2>3. b * n \in Nat
    <3>. HIDE DEF n, len
    <3>. QED BY <1>1, <2>2, Multiples
  <2>4. BlockLen(b) = Greater(0, Lesser(n, len - b * n))
    BY DEF BlockLen
  <2>. DEFINE r == len % n
  <2>. HIDE DEF b, r
  <2>5. r \in 0 .. n - 1 /\ len = b * n + r
    BY <2>2 DEF r
  <2>. DEFINE m == b * n
  <2>6. m \in Nat /\ len - m = r
    BY <1>1, <2>3, <2>5
  <2>7. BlockLen(b) = r
    <3>. HIDE DEF m, n, len
    <3>1. BlockLen(b) = Greater(0, Lesser(n, r))
      BY <2>4, <2>6 DEF m
    <3>. QED BY <1>1, <2>5, <3>1 DEF Greater, Lesser
  <2>8. SrcEnd = len
    BY <2>1, <2>5, <2>7 DEF SrcEnd
  <2>. QED BY <1>1, <1>3, <2>1, <2>2, <2>3, <2>5, <2>7, <2>8
<1>. QED BY <1>2, <1>3

LEMMA BlockLens ==
  ASSUME input \in Inputs, NEW b \in 0 .. LastBlock
  PROVE  /\ b \in Nat /\ b * blksize \in Nat /\ BlockLen(b) \in 0 .. blksize
         /\ b * blksize <= SrcEnd
         /\ Small /\ b = 1 => BlockLen(b) = 0
         /\ ~ (Small /\ b = 1) => b * blksize + BlockLen(b) <= Len(input.src)
         /\ ~ Small /\ b < LastBlock =>
              BlockLen(b) = blksize /\ b * blksize + blksize <= SrcEnd
<1>. DEFINE n == blksize
            len == Len(input.src)
            m == b * n
            last == LastBlock * n
<1>1. n \in Nat \ {0} /\ len \in Nat
  BY InputFacts
<1>2. LastBlock \in Nat /\ last \in Nat /\ b \in Nat /\ SrcEnd \in Nat
  BY LastBlockFacts
<1>3. m \in Nat
  <2>. HIDE DEF n
  <2>. QED BY <1>1, <1>2, Multiples
<1>4. BlockLen(b) = Greater(0, Lesser(n, len - m))
  BY DEF BlockLen
<1>5. CASE Small
  <2>1. LastBlock = 1 /\ BlockLen(1) = 0 /\ BlockLen(0) = len /\ SrcEnd = n /\ len < n
    BY <1>5, LastBlockFacts DEF Small
  <2>2. b = 0 \/ b = 1
    BY <1>2, <2>1
  <2>3. 0 * n = 0 /\ 1 * n = n
    BY <1>1
  <2>4. CASE b = 0
    <3>1. m = 0 /\ BlockLen(b) = len
      BY <2>1, <2>3, <2>4
    <3>. HIDE DEF m, n, len
    <3>. QED BY <1>1, <1>5, <2>1, <2>4, <3>1 DEF m, n, len
  <2>5. CASE b = 1
    <3>1. m = n /\ BlockLen(b) = 0
      BY <2>1, <2>3, <2>5
    <3>. HIDE DEF m, n, len
    <3>. QED BY <1>1, <1>5, <2>1, <2>5, <3>1 DEF m, n, len
  <2>. QED BY <2>2, <2>4, <2>5
<1>6. CASE ~ Small
  <2>1. /\ last + BlockLen(LastBlock) = len /\ SrcEnd = len
        /\ BlockLen(LastBlock) \in 0 .. n - 1
    BY <1>6, LastBlockFacts
  <2>2. CASE b = LastBlock
    <3>. HIDE DEF n, len
    <3>. QED BY <1>1, <1>2, <1>6, <2>1, <2>2 DEF n, len
  <2>3. CASE b # LastBlock
    <3>1. b < LastBlock /\ b + 1 <= LastBlock /\ b + 1 \in Int /\ LastBlock \in Int
      BY <1>2, <2>3
    <3>2. m + n <= last
      <4>. HIDE DEF n
      <4>. QED BY <1>1, <1>2, <3>1, Multiples
    <3>. HIDE DEF m, n, len, last
    <3>3. BlockLen(b) = n
      BY <1>1, <1>2, <1>3, <1>4, <2>1, <3>2 DEF Greater, Lesser
    <3>4. m + n <= len
      BY <1>1, <1>2, <1>3, <2>1, <3>2
    <3>5. m <= len
      BY <1>1, <1>3, <3>4
    <3>. QED BY <1>1, <1>2, <1>3, <1>6, <2>1, <3>3, <3>4, <3>5 DEF m, n, len
  <2>. QED BY <2>2, <2>3
<1>. QED BY <1>5, <1>6

\* The block in which a position is.
LEMMA BlockOf ==
  ASSUME input \in Inputs, NEW p \in Nat, p <= SrcEnd
  PROVE  /\ p \div blksize \in 0 .. LastBlock
         /\ p % blksize \in 0 .. blksize - 1
         /\ (p \div blksize) * blksize + (p % blksize) = p
         /\ (p \div blksize) * blksize \in Nat
<1>. DEFINE n == blksize
            q == p \div n
<1>1. n \in Nat \ {0}
  BY InputFacts
<1>2. q \in Nat /\ p % n \in 0 .. n - 1 /\ p = q * n + (p % n)
  <2>. HIDE DEF n
  <2>. QED BY <1>1, Division
<1>3. /\ LastBlock \in Nat /\ LastBlock * n \in Nat /\ BlockLen(LastBlock) \in 0 .. n - 1
      /\ SrcEnd = LastBlock * n + BlockLen(LastBlock)
  BY LastBlockFacts DEF SrcEnd
<1>4. p < LastBlock * n + n
  <2>. DEFINE m == LastBlock * n
  <2>. HIDE DEF n, m
  <2>. QED BY <1>1, <1>3 DEF m
<1>5. q \in 0 .. LastBlock
  <2>. HIDE DEF n
  <2>. QED BY <1>1, <1>3, <1>4, DivisionBelow
<1>6. q * n \in Nat
  <2>. HIDE DEF q, n
  <2>. QED BY <1>1, <1>2, Multiples
<1>. QED BY <1>2, <1>5, <1>6

-----------------------------------------------------------------------------
(* xd3_getblk                                                              *)

SourceType == [curblkno : Int, onblk : Nat, getblkno : Nat, max_blkno : Nat,
               onlastblk : Nat, eof_known : BOOLEAN]

\* What is known of the source is true: the current block, the last block seen
\* and its size, and the end.
SourceOk(s) ==
  /\ s \in SourceType
  /\ s.max_blkno \in 0 .. LastBlock /\ s.getblkno \in 0 .. LastBlock
  /\ s.eof_known <=> s.max_blkno = LastBlock
  /\ \/ s.onlastblk = BlockLen(s.max_blkno)
     \/ s.max_blkno = 0 /\ s.onlastblk = 0 /\ ~ s.eof_known
  /\ s.curblkno # None => s.curblkno \in 0 .. LastBlock /\ s.onblk = BlockLen(s.curblkno)

\* Block 1 of a source shorter than that is asked for after block 0 was indexed.
SmallOk(s, n) ==
  Small /\ (s.max_blkno = 1 \/ s.curblkno = 1 \/ s.getblkno = 1) => n >= blksize

LEMMA AccountFacts ==
  ASSUME input \in Inputs, NEW s, SourceOk(s), NEW b \in 0 .. LastBlock, s.curblkno = b
  PROVE  LET r == Account(s, b)
         IN  /\ SourceOk(r) /\ r.curblkno = b /\ r.onblk = BlockLen(b)
             /\ r.getblkno = s.getblkno
             /\ r.max_blkno = Greater(s.max_blkno, b)
             /\ s.eof_known => r.eof_known
             /\ b = LastBlock => r.eof_known
             /\ ~ (Small /\ b = 0 /\ s.max_blkno = 1) => bytes_on_srcblk(r, b) = BlockLen(b)
<1>. DEFINE r == Account(s, b)
            top == IF b > s.max_blkno
                   THEN [s EXCEPT !.max_blkno = b, !.eof_known = @ \/ s.onblk # blksize]
                   ELSE s
<1>1. /\ s \in SourceType /\ s.max_blkno \in 0 .. LastBlock /\ s.getblkno \in 0 .. LastBlock
      /\ s.eof_known <=> s.max_blkno = LastBlock
      /\ s.onblk = BlockLen(b) /\ s.onblk \in Nat /\ s.eof_known \in BOOLEAN
      /\ \/ s.onlastblk = BlockLen(s.max_blkno)
         \/ s.max_blkno = 0 /\ s.onlastblk = 0 /\ ~ s.eof_known
  <2>1. b # None
    BY DEF None
  <2>. QED BY <2>1 DEF SourceOk, SourceType
<1>2. b \in Nat /\ LastBlock \in Nat /\ s.max_blkno \in Nat
  BY <1>1, LastBlockFacts
<1>3. /\ BlockLen(LastBlock) \in 0 .. blksize - 1 /\ (Small => LastBlock = 1)
      /\ blksize \in Nat
  BY LastBlockFacts, InputFacts
<1>4. ~ Small /\ b < LastBlock => BlockLen(b) = blksize
  BY BlockLens
<1>5. r = IF b = top.max_blkno THEN [top EXCEPT !.onlastblk = s.onblk] ELSE top
  BY DEF Account
<1>. HIDE DEF r
<1>6. CASE b > s.max_blkno
  <2>. DEFINE eof == s.eof_known \/ s.onblk # blksize
  <2>1. eof \in BOOLEAN
    OBVIOUS
  <2>2. eof <=> b = LastBlock
    <3>1. ~ s.eof_known /\ b >= 1
      BY <1>1, <1>2, <1>6
    <3>2. CASE b = LastBlock
      BY <1>1, <1>3, <3>2
    <3>3. CASE b # LastBlock
      <4>1. b < LastBlock /\ ~ Small
        BY <1>2, <1>3, <3>1, <3>3
      <4>. QED BY <1>1, <1>4, <3>1, <3>3, <4>1
    <3>. QED BY <3>2, <3>3
  <2>3. top = [s EXCEPT !.max_blkno = b, !.eof_known = eof]
    BY <1>6
  <2>. HIDE DEF eof, top
  <2>4. r = [s EXCEPT !.max_blkno = b, !.eof_known = eof, !.onlastblk = s.onblk]
    BY <1>1, <1>5, <2>3 DEF SourceType
  <2>5. /\ r \in SourceType /\ r.max_blkno = b /\ r.eof_known = eof
        /\ r.onlastblk = BlockLen(b) /\ r.curblkno = s.curblkno /\ r.onblk = s.onblk
        /\ r.getblkno = s.getblkno
    BY <1>1, <1>2, <2>1, <2>4 DEF SourceType
  <2>6. SourceOk(r)
    BY <1>1, <2>2, <2>5 DEF SourceOk
  <2>7. bytes_on_srcblk(r, b) = BlockLen(b)
    BY <2>5 DEF bytes_on_srcblk
  <2>8. Greater(s.max_blkno, b) = b
    BY <1>2, <1>6 DEF Greater
  <2>9. s.eof_known => r.eof_known
    BY <2>5 DEF eof
  <2>. QED BY <1>1, <2>2, <2>5, <2>6, <2>7, <2>8, <2>9 DEF r
<1>7. CASE b = s.max_blkno
  <2>1. top = s
    BY <1>2, <1>7
  <2>. HIDE DEF top
  <2>2. r = [s EXCEPT !.onlastblk = s.onblk]
    BY <1>5, <1>7, <2>1
  <2>3. /\ r \in SourceType /\ r.max_blkno = b /\ r.eof_known = s.eof_known
        /\ r.onlastblk = BlockLen(b) /\ r.curblkno = s.curblkno /\ r.onblk = s.onblk
        /\ r.getblkno = s.getblkno
    BY <1>1, <1>7, <2>2 DEF SourceType
  <2>4. SourceOk(r)
    BY <1>1, <1>7, <2>3 DEF SourceOk
  <2>5. bytes_on_srcblk(r, b) = BlockLen(b)
    BY <2>3 DEF bytes_on_srcblk
  <2>6. Greater(s.max_blkno, b) = b
    BY <1>2, <1>7 DEF Greater
  <2>. QED BY <1>1, <1>7, <2>3, <2>4, <2>5, <2>6 DEF r
<1>8. CASE b < s.max_blkno
  <2>1. top = s
    BY <1>2, <1>8
  <2>. HIDE DEF top
  <2>2. r = s
    BY <1>2, <1>5, <1>8, <2>1
  <2>3. bytes_on_srcblk(r, b) = blksize /\ b < LastBlock
    BY <1>1, <1>2, <1>8, <2>2 DEF bytes_on_srcblk
  <2>4. Greater(s.max_blkno, b) = s.max_blkno
    BY <1>2, <1>8 DEF Greater
  <2>5. Small => b = 0 /\ s.max_blkno = 1
    BY <1>1, <1>2, <1>3, <1>8
  <2>. QED BY <1>1, <1>4, <2>2, <2>3, <2>4, <2>5 DEF r
<1>. QED BY <1>2, <1>6, <1>7, <1>8

LEMMA GetblkFacts ==
  ASSUME input \in Inputs, SourceOk(source), NEW b \in 0 .. LastBlock
  PROVE  LET g == Getblk(b)
         IN  /\ g.ret \in {"ok", "XD3_GETSRCBLK", "XD3_TOOFARBACK"}
             /\ SourceOk(g.source)
             /\ g.ret = "ok" =>
                  /\ g.source.curblkno = b /\ g.source.onblk = BlockLen(b)
                  /\ g.source.max_blkno = Greater(source.max_blkno, b)
                  /\ source.eof_known => g.source.eof_known
                  /\ b = LastBlock => g.source.eof_known
                  /\ ~ (Small /\ b = 0 /\ source.max_blkno = 1) =>
                       bytes_on_srcblk(g.source, b) = BlockLen(b)
             /\ g.ret # "ok" => g.source = [source EXCEPT !.getblkno = b]
             /\ g.ret = "XD3_GETSRCBLK" => ~ input.fifo
             /\ g.ret = "XD3_TOOFARBACK" => input.fifo /\ slots[b % lru_size] > b
             /\ g.slots = slots \/ g.slots = [slots EXCEPT ![b % lru_size] = b]
             /\ \A n \in Nat : SmallOk(source, n) /\ (Small /\ b = 1 => n >= blksize)
                  => SmallOk(g.source, n)
<1>. DEFINE g == Getblk(b)
            slot == b % lru_size
            asked == [source EXCEPT !.getblkno = b]
            cur == Current(b)
            held == [cur EXCEPT !.getblkno = b]
<1>1. source \in SourceType /\ b \in Nat /\ BlockLen(b) \in Nat /\ b # None
  <2>1. LastBlock \in Nat /\ BlockLen(b) \in 0 .. blksize /\ blksize \in Nat
    BY LastBlockFacts, BlockLens, InputFacts
  <2>. QED BY <2>1 DEF SourceOk, None
<1>2. /\ source.max_blkno \in 0 .. LastBlock
      /\ source.eof_known <=> source.max_blkno = LastBlock
      /\ \/ source.onlastblk = BlockLen(source.max_blkno)
         \/ source.max_blkno = 0 /\ source.onlastblk = 0 /\ ~ source.eof_known
      /\ source.curblkno # None =>
           source.curblkno \in 0 .. LastBlock /\ source.onblk = BlockLen(source.curblkno)
  BY DEF SourceOk
<1>3. \A n \in Nat : SmallOk(source, n) /\ (Small /\ b = 1 => n >= blksize) /\ Small
                       /\ (source.max_blkno = 1 \/ source.curblkno = 1
                           \/ source.getblkno = 1 \/ b = 1) => n >= blksize
  BY DEF SmallOk
<1>4. CASE b = source.curblkno
  <2>. DEFINE r == Account(source, b)
  <2>1. /\ SourceOk(r) /\ r.curblkno = b /\ r.onblk = BlockLen(b)
        /\ r.getblkno = source.getblkno
        /\ r.max_blkno = Greater(source.max_blkno, b)
        /\ source.eof_known => r.eof_known
        /\ b = LastBlock => r.eof_known
        /\ ~ (Small /\ b = 0 /\ source.max_blkno = 1) => bytes_on_srcblk(r, b) = BlockLen(b)
    BY <1>4, AccountFacts
  <2>2. g = [ret |-> "ok", source |-> r, slots |-> slots]
    BY <1>4 DEF Getblk
  <2>. HIDE DEF r, g
  <2>3. g.ret = "ok" /\ g.source = r /\ g.slots = slots
    BY <2>2
  <2>4. r.max_blkno = 1 => source.max_blkno = 1 \/ b = 1
    BY <2>1 DEF Greater
  <2>5. ASSUME NEW n \in Nat, SmallOk(source, n), Small /\ b = 1 => n >= blksize
        PROVE  SmallOk(r, n)
    BY <1>3, <2>1, <2>4, <2>5 DEF SmallOk
  <2>. QED BY <2>1, <2>3, <2>5 DEF g
<1>5. CASE b # source.curblkno /\ ~ input.fifo
  <2>1. g = [ret |-> "XD3_GETSRCBLK", source |-> asked, slots |-> slots]
    BY <1>5 DEF Getblk
  <2>2. /\ asked \in SourceType /\ asked.getblkno = b
        /\ asked.curblkno = source.curblkno /\ asked.onblk = source.onblk
        /\ asked.max_blkno = source.max_blkno /\ asked.onlastblk = source.onlastblk
        /\ asked.eof_known = source.eof_known
    BY <1>1 DEF SourceType
  <2>. HIDE DEF asked, g
  <2>3. SourceOk(asked)
    BY <1>2, <2>2 DEF SourceOk
  <2>4. ASSUME NEW n \in Nat, SmallOk(source, n), Small /\ b = 1 => n >= blksize
        PROVE  SmallOk(asked, n)
    BY <1>3, <2>2, <2>4 DEF SmallOk
  <2>5. g.ret = "XD3_GETSRCBLK" /\ g.source = asked /\ g.slots = slots
    BY <2>1
  <2>6. g.ret # "ok" /\ g.ret # "XD3_TOOFARBACK"
    BY <2>5
  <2>7. \A n \in Nat : SmallOk(source, n) /\ (Small /\ b = 1 => n >= blksize)
                         => SmallOk(g.source, n)
    BY <2>4, <2>5
  <2>8. SourceOk(g.source) /\ g.source = [source EXCEPT !.getblkno = b]
    BY <2>3, <2>5 DEF asked
  <2>. HIDE DEF asked
  <2>. QED BY <1>5, <2>5, <2>6, <2>7, <2>8 DEF g
<1>6. CASE b # source.curblkno /\ input.fifo /\ slots[slot] > b
  <2>1. g = [ret |-> "XD3_TOOFARBACK", source |-> asked, slots |-> slots]
    BY <1>6 DEF Getblk
  <2>2. /\ asked \in SourceType /\ asked.getblkno = b
        /\ asked.curblkno = source.curblkno /\ asked.onblk = source.onblk
        /\ asked.max_blkno = source.max_blkno /\ asked.onlastblk = source.onlastblk
        /\ asked.eof_known = source.eof_known
    BY <1>1 DEF SourceType
  <2>. HIDE DEF asked, g
  <2>3. SourceOk(asked)
    BY <1>2, <2>2 DEF SourceOk
  <2>4. ASSUME NEW n \in Nat, SmallOk(source, n), Small /\ b = 1 => n >= blksize
        PROVE  SmallOk(asked, n)
    BY <1>3, <2>2, <2>4 DEF SmallOk
  <2>5. g.ret = "XD3_TOOFARBACK" /\ g.source = asked /\ g.slots = slots
    BY <2>1
  <2>. QED BY <1>6, <2>3, <2>4, <2>5 DEF g, asked
<1>7. CASE b # source.curblkno /\ input.fifo /\ ~ (slots[slot] > b)
  <2>. DEFINE r == Account(held, b)
  <2>1. cur = [source EXCEPT !.curblkno = b, !.onblk = BlockLen(b)]
    BY DEF Current
  <2>2. /\ held \in SourceType /\ held.getblkno = b
        /\ held.curblkno = b /\ held.onblk = BlockLen(b)
        /\ held.max_blkno = source.max_blkno /\ held.onlastblk = source.onlastblk
        /\ held.eof_known = source.eof_known
    <3>. DEFINE len == BlockLen(b)
    <3>1. len \in Nat
      BY <1>1
    <3>. HIDE DEF cur, len
    <3>2. cur = [source EXCEPT !.curblkno = b, !.onblk = len]
      BY <2>1 DEF len
    <3>3. /\ cur \in SourceType /\ cur.curblkno = b /\ cur.onblk = len
          /\ cur.max_blkno = source.max_blkno /\ cur.onlastblk = source.onlastblk
          /\ cur.eof_known = source.eof_known
      <4>1. source \in SourceType /\ b \in Int
        BY <1>1
      <4>2. [source EXCEPT !.curblkno = b] \in SourceType
        BY <4>1 DEF SourceType
      <4>. QED BY <4>1, <4>2, <3>1, <3>2 DEF SourceType
    <3>4. held = [cur EXCEPT !.getblkno = b]
      OBVIOUS
    <3>. HIDE DEF held
    <3>5. /\ held \in SourceType /\ held.getblkno = b
          /\ held.curblkno = b /\ held.onblk = len
          /\ held.max_blkno = source.max_blkno /\ held.onlastblk = source.onlastblk
          /\ held.eof_known = source.eof_known
      BY <1>1, <3>3, <3>4 DEF SourceType
    <3>. QED BY <3>5 DEF len
  <2>. HIDE DEF held, cur
  <2>3. SourceOk(held)
    BY <1>2, <2>2 DEF SourceOk
  <2>4. /\ SourceOk(r) /\ r.curblkno = b /\ r.onblk = BlockLen(b)
        /\ r.getblkno = held.getblkno
        /\ r.max_blkno = Greater(held.max_blkno, b)
        /\ held.eof_known => r.eof_known
        /\ b = LastBlock => r.eof_known
        /\ ~ (Small /\ b = 0 /\ held.max_blkno = 1) => bytes_on_srcblk(r, b) = BlockLen(b)
    BY <2>2, <2>3, AccountFacts
  <2>5. g = [ret |-> "ok", source |-> r, slots |-> [slots EXCEPT ![slot] = b]]
    BY <1>7 DEF Getblk, held, cur
  <2>. HIDE DEF r, g, slot
  <2>6. g.ret = "ok" /\ g.source = r /\ g.slots = [slots EXCEPT ![slot] = b]
    BY <2>5
  <2>7. r.max_blkno = 1 => source.max_blkno = 1 \/ b = 1
    BY <2>2, <2>4 DEF Greater
  <2>8. ASSUME NEW n \in Nat, SmallOk(source, n), Small /\ b = 1 => n >= blksize
        PROVE  SmallOk(r, n)
    BY <1>3, <2>2, <2>4, <2>7, <2>8 DEF SmallOk
  <2>. QED BY <2>2, <2>4, <2>6, <2>8 DEF g, slot
<1>. QED BY <1>4, <1>5, <1>6, <1>7 DEF g, slot

-----------------------------------------------------------------------------
(* What is known while the search goes on: in ENC_SEARCH, where nothing is *)
(* held yet, or in the loop.                                               *)

Looks == enc_state \in {"ENC_SEARCH", "LOOP"}

LEMMA LooksFacts ==
  ASSUME BufferInv, Looks
  PROVE  /\ Setting /\ Gathering(iopt) /\ Behind(iopt, input_position)
         /\ input_position \in Nat /\ input_position <= avail_in /\ avail_in \in Nat
         /\ min_match \in Nat /\ min_match >= MIN_MATCH
         /\ LastMatched(iopt) \in Nat /\ LastMatched(iopt) < input_position + min_match
         /\ input.greedy => LastMatched(iopt) <= input_position
         /\ BackLimit \in Nat /\ BackLimit <= input_position
         /\ iopt.unencoded_offset = 0 /\ SrcFrom = 0 /\ ~ iopt.srcwin.decided
<1>1. Setting
  BY WindowFits DEF BufferInv
<1>2. avail_in \in Nat
  BY <1>1, SettingTypes
<1>3. Gathering(iopt)
  BY DEF BufferInv, Looks
<1>4. iopt.unencoded_offset = 0 /\ ~ iopt.srcwin.decided /\ SrcFrom = 0
  BY <1>3 DEF Gathering, Open, SrcFrom
<1>5. LastMatched(iopt) \in Nat
  BY <1>3, LastMatchedFacts
<1>6. CASE enc_state = "ENC_SEARCH"
  <2>1. iopt.used = <<>> /\ input_position = 0 /\ min_match = MIN_MATCH
    BY <1>6 DEF BufferInv
  <2>2. LastMatched(iopt) = 0 /\ Behind(iopt, input_position)
    BY <2>1 DEF LastMatched, Behind
  <2>3. BackLimit = 0
    BY <1>4, <2>2 DEF BackLimit
  <2>. QED BY <1>1, <1>2, <1>3, <1>4, <2>1, <2>2, <2>3 DEF MIN_MATCH
<1>7. CASE enc_state = "LOOP"
  <2>1. /\ Looking(iopt, input_position, min_match, run)
        /\ BackLimit \in Nat /\ BackLimit <= input_position
    BY <1>7, LoopFacts
  <2>2. /\ input_position \in Nat /\ input_position + SmallLook <= avail_in
        /\ min_match \in Nat /\ min_match >= MIN_MATCH
        /\ input_position + min_match >= 1 + LastMatched(iopt)
        /\ Behind(iopt, input_position)
        /\ input.greedy => LastMatched(iopt) <= input_position
    BY <2>1 DEF Looking
  <2>3. input_position <= avail_in /\ LastMatched(iopt) < input_position + min_match
    BY <1>2, <1>5, <2>2 DEF SmallLook
  <2>. QED BY <1>1, <1>2, <1>3, <1>4, <1>5, <2>1, <2>2, <2>3
<1>. QED BY <1>6, <1>7 DEF Looks

-----------------------------------------------------------------------------
(* The invariant, by parts.                                                *)

Extending == match.state \in {"MATCH_BACKWARD", "MATCH_FORWARD"}

MatchStates == [state : {"MATCH_TARGET", "MATCH_BACKWARD", "MATCH_FORWARD", "MATCH_SEARCHING"},
                srcpos : Nat, last : Nat]
ExtentType == [maxback : Nat, maxfwd : Nat, back : Nat, fwd : Nat,
               caller : {"string_match", "encode_input"}]
IndexWith(T) == [large_table : T, srcwin_cksum_pos : Nat, maxsrcaddr : Nat, target : Int,
                 then : {"top", "large"}, next_move_point : Int]
SmallWith(T) == [table : T, prev : [0 .. SprevSize - 1 -> Nat \cup {None}],
                 allocated : BOOLEAN, reset : BOOLEAN]

\* Where the search is, and what state it is in.
ControlInv ==
  /\ match \in MatchStates /\ match.srcpos <= Len(input.src) /\ extent \in ExtentType
  /\ enc_state \in {"ENC_INSTR", "ENC_FLUSH"} => at = "top"
  /\ at \in {"restart", "move", "indexing", "large", "small", "XD3_INTERNAL"} =>
       enc_state = "LOOP"
  /\ at \in {"extend", "extended"} => Extending
  /\ Extending => HasSource /\ at \in {"extend", "extended", "asks", "enter"}
  /\ HasSource /\ enc_state = "LOOP" => match.state # "MATCH_TARGET"
  /\ Extending /\ extent.caller = "string_match" => enc_state = "LOOP"

SourceInv == SourceOk(source) /\ SmallOk(source, index.srcwin_cksum_pos)

\* The table holds positions below n, each under its checksum.
TableTrue(t, n) ==
  \A h \in DOMAIN t :
    /\ t[h] \in Nat /\ t[h] + LargeLook <= Len(input.src) /\ t[h] < n
    /\ LargeHash(Bytes(input.src, t[h], LargeLook)) = h

IndexInv ==
  /\ index \in IndexWith({index.large_table})
  /\ index.maxsrcaddr <= Len(input.src)
  /\ TableTrue(index.large_table, index.srcwin_cksum_pos)
  /\ index.srcwin_cksum_pos <= SrcEnd \/ (at = "indexing" /\ source.eof_known)
  /\ at = "indexing" => index.maxsrcaddr <= index.srcwin_cksum_pos

SmallInv ==
  /\ small \in SmallWith({small.table})
  /\ ~ small.allocated => DOMAIN small.table = {}
  /\ \A h \in DOMAIN small.table : small.table[h] \in Nat
  /\ enc_state = "ENC_SEARCH" => DOMAIN small.table = {} \/ (small.allocated /\ small.reset)
  /\ enc_state = "LOOP" =>
       small.allocated /\ \A h \in DOMAIN small.table : small.table[h] < input_position

\* The match that is extended is true as far as it has been followed.
ExtentInv ==
  Extending =>
    /\ SourceMatch(Extension)
    /\ extent.back <= extent.maxback /\ extent.fwd <= extent.maxfwd
    /\ extent.maxback <= input_position /\ extent.maxback <= match.srcpos
    /\ extent.maxfwd <= avail_in - input_position

Whole ==
  /\ extent.maxback = Lesser(input_position, match.srcpos)
  /\ extent.maxfwd \in {avail_in - input_position,
                        Lesser(avail_in - input_position, SrcEnd - match.srcpos)}
BackDone ==
  \/ extent.back = extent.maxback
  \/ Src(match.srcpos - extent.back - 1) # Tgt(input_position - extent.back - 1)
FwdDone ==
  \/ input_position + extent.fwd = avail_in
  \/ match.srcpos + extent.fwd = Len(input.src)
  \/ Src(match.srcpos + extent.fwd) # Tgt(input_position + extent.fwd)

\* No block is refused, and a match may reach back as far as it can.
Free == ~ input.fifo /\ ~ input.greedy
MaximalExtent ==
  Extending /\ Free /\ extent.maxfwd > 0 =>
    /\ Whole
    /\ match.state = "MATCH_FORWARD" => BackDone
    /\ at = "extended" => match.state = "MATCH_FORWARD" /\ FwdDone

MaximalCopy(i) ==
  i.xtra = 1 /\ i.type = CPY =>
    /\ \/ EndOf(i) = avail_in \/ i.addr + i.size = Len(input.src)
       \/ Src(i.addr + i.size) # Tgt(EndOf(i))
    /\ \/ i.pos = 0 \/ i.addr = 0 \/ Src(i.addr - 1) # Tgt(i.pos - 1)
MaximalUsed == Free => \A k \in 1 .. Len(iopt.used) : MaximalCopy(iopt.used[k])

\* The blocks the FIFO holds are not far ahead of what is indexed or matched.
Slack == Greater(MIN_MATCH, input.max_lazy)
Frontier == Greater(index.srcwin_cksum_pos, index.maxsrcaddr)
Reach == Greater(Frontier + Slack, IF Extending THEN match.srcpos + extent.fwd ELSE 0)
SlotsWithin(n) ==
  \A k \in 0 .. lru_size - 1 :
    slots[k] # None => /\ slots[k] \in 0 .. LastBlock /\ slots[k] % lru_size = k
                       /\ slots[k] * blksize <= n
FifoInv ==
  /\ DOMAIN slots = 0 .. lru_size - 1
  /\ enc_state = "LOOP" => min_match <= Slack
  /\ match.state # "MATCH_SEARCHING" => match.srcpos <= Frontier
  /\ input.fifo => at # "asks" /\ SlotsWithin(Reach)

FindInv ==
  /\ BufferInv /\ ControlInv /\ SourceInv /\ IndexInv /\ SmallInv
  /\ ExtentInv /\ MaximalExtent /\ MaximalUsed /\ FifoInv

-----------------------------------------------------------------------------
(* The search starts again, at the position where it is.                   *)

LEMMA StartsAgain ==
  ASSUME BufferInv, Looks, UNCHANGED <<input, total_in, avail_in, iopt>>,
         Restart(input_position, iopt)
  PROVE  /\ BufferInv' /\ Onward(iopt') /\ input_position' = input_position
         /\ enc_state' = "LOOP" => min_match' <= Greater(MIN_MATCH, min_match)
<1>1. /\ Setting /\ Gathering(iopt) /\ Behind(iopt, input_position)
      /\ input_position \in Nat
      /\ min_match \in Nat /\ min_match >= MIN_MATCH
      /\ LastMatched(iopt) \in Nat /\ LastMatched(iopt) < input_position + min_match
      /\ input.greedy => LastMatched(iopt) <= input_position
  BY LooksFacts
<1>2. Onward(iopt)
  BY <1>1, RestartKeeps
<1>3. Onward(iopt') /\ Gathering(iopt')
  BY <1>1, <1>2
<1>4. BufferInv'
  BY <1>3, OnwardBuffer
<1>5. input_position' = input_position
  BY DEF Restart
<1>6. ASSUME enc_state' = "LOOP" PROVE min_match' <= Greater(MIN_MATCH, min_match)
  <2>1. min_match' = Greater(MIN_MATCH, 1 + LastMatched(iopt) - input_position)
    BY <1>6 DEF Restart
  <2>. QED BY <1>1, <2>1 DEF Greater, MIN_MATCH
<1>. QED BY <1>3, <1>4, <1>5, <1>6

\* After a match of length mlen that ends at the last byte matched.
LEMMA LazyBound ==
  ASSUME NEW r, NEW mlen \in Nat, NEW e, LastMatched(e) = input_position + mlen,
         mlen >= MIN_MATCH, input_position \in Nat, input.max_lazy \in Nat,
         avail_in \in Nat, HandleLazy(r, mlen, e), enc_state' \in {"LOOP", "ENC_INSTR"}
  PROVE  /\ enc_state' = "LOOP" => min_match' <= Slack /\ input_position < input_position'
         /\ input_position <= input_position'
         /\ input_position + mlen = avail_in => enc_state' = "ENC_INSTR"
<1>1. CASE Lazy(mlen)
  <2>1. UpdateOne(r, mlen) /\ mlen < input.max_lazy
    BY <1>1 DEF HandleLazy, Lazy
  <2>2. enc_state' = "LOOP" =>
          input_position' = input_position + 1 /\ min_match' = mlen
    BY <2>1 DEF UpdateOne
  <2>3. input_position' = input_position + 1 \/ input_position' = input_position
    BY <2>1 DEF UpdateOne
  <2>4. input_position + mlen # avail_in
    BY <1>1 DEF Lazy
  <2>. QED BY <2>1, <2>2, <2>3, <2>4 DEF Slack, Greater, MIN_MATCH
<1>2. CASE ~ Lazy(mlen)
  <2>1. Restart(input_position + mlen, e)
    BY <1>2 DEF HandleLazy, Lazy
  <2>2. input_position' = input_position + mlen
    BY <2>1 DEF Restart
  <2>3. enc_state' = "LOOP" =>
          /\ min_match' = Greater(MIN_MATCH, 1 + LastMatched(e) - (input_position + mlen))
          /\ ~ (input_position + mlen + SmallLook > avail_in)
    BY <2>1 DEF Restart
  <2>4. enc_state' = "LOOP" => min_match' = MIN_MATCH
    BY <2>3 DEF Greater, MIN_MATCH
  <2>5. input_position + mlen = avail_in => enc_state' # "LOOP"
    BY <2>3 DEF SmallLook
  <2>. QED BY <2>2, <2>4, <2>5 DEF Slack, Greater, MIN_MATCH
<1>. QED BY <1>1, <1>2

-----------------------------------------------------------------------------
(* xd3_smatch                                                              *)

\* What every step keeps in T is in T after n steps.
LEMMA StaysIn ==
  ASSUME NEW T, NEW n \in Nat, NEW g, g[0] \in T,
         \A k \in 1 .. n : g[k - 1] \in T => g[k] \in T
  PROVE  \A k \in 0 .. n : g[k] \in T
<1>. DEFINE S == {k \in Nat : k <= n => g[k] \in T}
<1>1. 0 \in S
  OBVIOUS
<1>2. ASSUME NEW k \in Nat, k \in S PROVE k + 1 \in S
  <2>. SUFFICES ASSUME k + 1 <= n PROVE g[k + 1] \in T
    OBVIOUS
  <2>1. k + 1 \in 1 .. n /\ (k + 1) - 1 = k /\ k <= n
    OBVIOUS
  <2>. QED BY <1>2, <2>1
<1>. HIDE DEF S
<1>3. Nat \subseteq S
  BY <1>1, <1>2, NatSets
<1>. QED BY <1>3 DEF S

\* A candidate, and the best match so far.
CopyLength(base) == Forward(input.tgt, total_in + base, input_position,
                            avail_in - input_position)
Chain == {q \in [base : 0 .. input_position - 1, len : Nat,
                 offset : 0 .. input_position - 1, done : BOOLEAN] :
            q.len = 0 \/ q.len = CopyLength(q.offset)}

LEMMA TryBaseKeeps ==
  ASSUME BufferInv, enc_state = "LOOP", small \in SmallWith({small.table}), NEW q \in Chain
  PROVE  TryBase(q) \in Chain
<1>. DEFINE len == CopyLength(q.base)
            best == IF len > q.len THEN [q EXCEPT !.len = len, !.offset = q.base] ELSE q
            full == len > q.len /\ (input_position + len = avail_in \/ len >= LongEnough)
            prev == small.prev[q.base % SprevSize]
            stop == full \/ prev = None \/ prev > q.base \/ input_position - prev >= SprevSize
            Fields == [base : 0 .. input_position - 1, len : Nat,
                       offset : 0 .. input_position - 1, done : BOOLEAN]
<1>1. input_position \in Nat /\ input_position <= avail_in /\ avail_in \in Nat
  BY LooksFacts DEF Looks
<1>2. q \in Fields /\ (q.len = 0 \/ q.len = CopyLength(q.offset))
  BY DEF Chain
<1>3. len \in Nat
  <2>. DEFINE max == avail_in - input_position
  <2>1. max \in Nat
    BY <1>1
  <2>. HIDE DEF max
  <2>2. Agrees(input.tgt, total_in + q.base, input_position, max,
               Forward(input.tgt, total_in + q.base, input_position, max))
    BY <2>1, ForwardAgrees
  <2>3. Forward(input.tgt, total_in + q.base, input_position, max) \in Nat
    BY <2>1, <2>2 DEF Agrees
  <2>. QED BY <2>3 DEF max, CopyLength
<1>4. prev \in Nat \cup {None}
  <2>1. q.base % SprevSize \in 0 .. SprevSize - 1
    BY <1>1, <1>2, MatchAssumption
  <2>. HIDE DEF prev
  <2>2. small.prev \in [0 .. SprevSize - 1 -> Nat \cup {None}]
    BY DEF SmallWith
  <2>. QED BY <2>1, <2>2 DEF prev
<1>5. TryBase(q) = IF q.done THEN q
                   ELSE IF stop THEN [best EXCEPT !.done = TRUE]
                   ELSE [best EXCEPT !.base = prev]
  BY DEF TryBase, CopyLength
<1>6. best \in Fields /\ (best.len = 0 \/ best.len = CopyLength(best.offset))
      /\ best.base = q.base
  <2>1. CASE len > q.len
    <3>1. best = [q EXCEPT !.len = len, !.offset = q.base]
      BY <2>1
    <3>. HIDE DEF best, len
    <3>2. best \in Fields /\ best.len = len /\ best.offset = q.base /\ best.base = q.base
      BY <1>2, <1>3, <3>1
    <3>. QED BY <3>2 DEF len
  <2>2. CASE ~ (len > q.len)
    BY <1>2, <2>2
  <2>. QED BY <2>1, <2>2
<1>. HIDE DEF best, len, full
<1>7. CASE ~ stop /\ ~ q.done
  <2>1. prev \in 0 .. input_position - 1
    <3>1. prev # None /\ ~ (prev > q.base)
      BY <1>7
    <3>. HIDE DEF prev
    <3>. QED BY <1>1, <1>2, <1>4, <3>1
  <2>2. TryBase(q) = [best EXCEPT !.base = prev]
    BY <1>5, <1>7
  <2>. HIDE DEF prev
  <2>3. [best EXCEPT !.base = prev] \in Chain
    BY <1>6, <2>1 DEF Chain
  <2>. QED BY <2>2, <2>3
<1>8. CASE stop /\ ~ q.done
  <2>1. TryBase(q) = [best EXCEPT !.done = TRUE]
    BY <1>5, <1>8
  <2>. HIDE DEF prev
  <2>2. [best EXCEPT !.done = TRUE] \in Chain
    BY <1>6 DEF Chain
  <2>. QED BY <2>1, <2>2
<1>9. CASE q.done
  BY <1>5, <1>9
<1>. QED BY <1>7, <1>8, <1>9

LEMMA SmatchFacts ==
  ASSUME BufferInv, enc_state = "LOOP", small \in SmallWith({small.table}),
         NEW base \in 0 .. input_position - 1
  PROVE  LET q == Smatch(base)
         IN  q.len = 0 \/ (q.offset \in 0 .. input_position - 1
                           /\ q.len = CopyLength(q.offset))
<1>. DEFINE chain == IF min_match = MIN_MATCH THEN SmallChain ELSE SmallLChain
            b == [base |-> base, len |-> 0, offset |-> base, done |-> FALSE]
            step == [q \in Chain |-> TryBase(q)]
            Is(g) == g = [k \in 0 .. chain |-> IF k = 0 THEN b ELSE TryBase(g[k - 1])]
            g == CHOOSE f : Is(f)
<1>1. chain \in Nat
  BY MatchAssumption
<1>2. b \in Chain
  BY DEF Chain
<1>3. step \in [Chain -> Chain]
  BY TryBaseKeeps
<1>. HIDE DEF chain, b
<1>4. Is(g)
  <2>1. PICK f \in [0 .. chain -> Chain] : Repeats(f, b, step, chain)
    <3>. HIDE DEF step
    <3>. QED BY <1>1, <1>2, <1>3, Repeated
  <2>2. f[0] = b /\ \A k \in 1 .. chain : f[k] = step[f[k - 1]]
    BY <2>1 DEF Repeats
  <2>3. ASSUME NEW k \in 0 .. chain
        PROVE  f[k] = IF k = 0 THEN b ELSE TryBase(f[k - 1])
    <3>1. CASE k = 0
      BY <2>2, <3>1
    <3>2. CASE k # 0
      <4>1. k \in 1 .. chain /\ k - 1 \in 0 .. chain
        BY <1>1, <3>2
      <4>2. f[k - 1] \in Chain
        BY <4>1
      <4>. QED BY <2>2, <3>2, <4>1, <4>2
    <3>. QED BY <3>1, <3>2
  <2>4. Is(f)
    BY <2>3
  <2>. HIDE DEF Is
  <2>. QED BY <2>4
<1>. DEFINE q == g[chain]
            far == input_position - q.offset
<1>5. Smatch(base) = IF (q.len = 4 /\ far >= Far4) \/ (q.len = 5 /\ far >= Far5)
                     THEN [q EXCEPT !.len = 0] ELSE q
  BY DEF Smatch, chain, b
<1>. HIDE DEF g
<1>6. g[0] = b /\ \A k \in 1 .. chain : g[k] = TryBase(g[k - 1])
  BY <1>1, <1>4
<1>7. q \in Chain
  <2>. HIDE DEF Is
  <2>1. ASSUME NEW k \in 1 .. chain, g[k - 1] \in Chain PROVE g[k] \in Chain
    BY <1>6, <2>1, TryBaseKeeps
  <2>2. \A k \in 0 .. chain : g[k] \in Chain
    BY <1>1, <1>2, <1>6, <2>1, StaysIn
  <2>. QED BY <1>1, <2>2
<1>. HIDE DEF q
<1>8. [q EXCEPT !.len = 0].len = 0
  BY <1>7 DEF Chain
<1>9. q.len = 0 \/ (q.offset \in 0 .. input_position - 1 /\ q.len = CopyLength(q.offset))
  BY <1>7 DEF Chain
<1>. QED BY <1>5, <1>8, <1>9

-----------------------------------------------------------------------------
(* A match is entered, or nothing is found.                                *)

\* The search goes on, not before the position where it was.
MovesOn ==
  /\ BufferInv' /\ Onward(iopt') /\ input_position <= input_position'
  /\ enc_state' = "LOOP" => min_match' <= Greater(Slack, min_match)

LEMMA RunTaken ==
  ASSUME BufferInv, Unlimited, TakeRun
  PROVE  /\ MovesOn
         /\ \E i : i.type = RUN /\ AddsOnly(iopt'.used, iopt.used, i)
<1>1. RunFound /\ enc_state = "LOOP"
  BY DEF TakeRun, RunFound
<1>2. /\ BufferInv' /\ Onward(iopt')
      /\ RunLength \in Nat /\ RunLength >= MIN_MATCH
      /\ LastMatched(iopt') = input_position + RunLength
      /\ \E i : i.type = RUN /\ AddsOnly(iopt'.used, iopt.used, i)
  BY <1>1, RunFoundBuffer
<1>3. HandleLazy([run EXCEPT !.l = RunLength], RunLength, iopt')
  BY <1>1 DEF RunFound
<1>4. input_position \in Nat /\ avail_in \in Nat /\ min_match \in Nat
  BY <1>1, LooksFacts DEF Looks
<1>5. input.max_lazy \in Nat /\ enc_state' \in {"LOOP", "ENC_INSTR"}
  BY <1>2, InputFacts DEF BufferInv, Onward
<1>6. /\ enc_state' = "LOOP" => min_match' <= Slack
      /\ input_position <= input_position'
  <2>. DEFINE r == [run EXCEPT !.l = RunLength]
              n == RunLength
  <2>. HIDE DEF r, n
  <2>1. n \in Nat /\ n >= MIN_MATCH /\ LastMatched(iopt') = input_position + n
        /\ HandleLazy(r, n, iopt')
    BY <1>2, <1>3 DEF r, n
  <2>. QED BY <2>1, <1>4, <1>5, LazyBound
<1>7. enc_state' = "LOOP" => min_match' \in Nat
  BY <1>2 DEF Onward, Looking
<1>8. enc_state' = "LOOP" => min_match' <= Greater(Slack, min_match)
  BY <1>4, <1>5, <1>6, <1>7 DEF Greater, Slack, MIN_MATCH
<1>. QED BY <1>2, <1>6, <1>8 DEF MovesOn

LEMMA SmallTaken ==
  ASSUME BufferInv, Unlimited, SmallInv, enc_state = "LOOP", TrySmall
  PROVE  /\ MovesOn
         /\ enc_state' = "LOOP" => input_position < input_position'
         /\ iopt' = iopt \/ \E i : i.xtra = 0 /\ AddsOnly(iopt'.used, iopt.used, i)
<1>. DEFINE q == IF SmallBase = None THEN [len |-> 0] ELSE Smatch(SmallBase)
            r == [run EXCEPT !.l = RunLength]
<1>1. /\ UNCHANGED <<input, total_in, avail_in, match>>
      /\ IF q.len >= min_match
         THEN /\ iopt' = FoundMatch(iopt, [type |-> CPY, pos |-> input_position,
                                           size |-> q.len, addr |-> q.offset, xtra |-> 0])
              /\ HandleLazy(r, q.len, iopt')
         ELSE UpdateOne(r, Greater(MIN_MATCH, min_match - 1)) /\ iopt' = iopt
  BY DEF TrySmall
<1>2. /\ input_position \in Nat /\ avail_in \in Nat /\ min_match \in Nat
      /\ min_match >= MIN_MATCH
  BY LooksFacts DEF Looks
<1>3. input.max_lazy \in Nat
  BY InputFacts DEF BufferInv
<1>. HIDE DEF r
<1>4. CASE q.len >= min_match
  <2>1. SmallBase # None
    <3>. SUFFICES ASSUME SmallBase = None PROVE FALSE
      OBVIOUS
    <3>1. q.len = 0
      OBVIOUS
    <3>. HIDE DEF q
    <3>. QED BY <1>2, <1>4, <3>1 DEF MIN_MATCH
  <2>2. SmallBase \in 0 .. input_position - 1
    <3>1. sinx \in DOMAIN small.table /\ SmallBase = small.table[sinx]
      BY <2>1 DEF SmallBase
    <3>2. small.table[sinx] \in Nat /\ small.table[sinx] < input_position
      BY <3>1 DEF SmallInv
    <3>. QED BY <1>2, <3>1, <3>2
  <2>3. q = Smatch(SmallBase)
    BY <2>1
  <2>. HIDE DEF q
  <2>4. q.len = 0 \/ (q.offset \in 0 .. input_position - 1
                      /\ q.len = CopyLength(q.offset))
    <3>1. small \in SmallWith({small.table})
      BY DEF SmallInv
    <3>. DEFINE b == SmallBase
    <3>. HIDE DEF b
    <3>2. b \in 0 .. input_position - 1 /\ q = Smatch(b)
      BY <2>2, <2>3 DEF b
    <3>. QED BY <3>1, <3>2, SmatchFacts
  <2>5. q.len # 0
    BY <1>2, <1>4 DEF MIN_MATCH
  <2>. DEFINE base == q.offset
              n == CopyLength(base)
  <2>6. base \in 0 .. input_position - 1 /\ q.len = n
    BY <2>4, <2>5
  <2>. HIDE DEF base
  <2>7. /\ n >= min_match
        /\ iopt' = FoundMatch(iopt, [type |-> CPY, pos |-> input_position,
                                     size |-> n, addr |-> base, xtra |-> 0])
        /\ HandleLazy(r, n, iopt')
    BY <1>1, <1>4, <2>6 DEF base
  <2>8. /\ BufferInv' /\ Onward(iopt')
        /\ n \in Nat /\ n >= MIN_MATCH /\ LastMatched(iopt') = input_position + n
        /\ \E i : i.xtra = 0 /\ AddsOnly(iopt'.used, iopt.used, i)
    BY <1>1, <2>6, <2>7, TargetTaken DEF CopyLength, r
  <2>. HIDE DEF n
  <2>9. enc_state' \in {"LOOP", "ENC_INSTR"} /\ (enc_state' = "LOOP" => min_match' \in Nat)
    BY <2>8 DEF Onward, Looking
  <2>10. /\ enc_state' = "LOOP" => min_match' <= Slack /\ input_position < input_position'
         /\ input_position <= input_position'
    BY <1>2, <1>3, <2>7, <2>8, <2>9, LazyBound
  <2>11. enc_state' = "LOOP" => min_match' <= Greater(Slack, min_match)
    BY <1>2, <1>3, <2>9, <2>10 DEF Greater, Slack, MIN_MATCH
  <2>. QED BY <2>8, <2>10, <2>11 DEF MovesOn
<1>5. CASE ~ (q.len >= min_match)
  <2>. DEFINE min == Greater(MIN_MATCH, min_match - 1)
  <2>. HIDE DEF q
  <2>1. UpdateOne(r, min) /\ iopt' = iopt
    BY <1>1, <1>5
  <2>2. BufferInv' /\ Onward(iopt')
    BY <1>1, <2>1, NothingTaken DEF r
  <2>. HIDE DEF min
  <2>3. \/ enc_state' = "ENC_INSTR" /\ input_position' = input_position
        \/ input_position' = input_position + 1 /\ min_match' = min
    BY <2>1 DEF UpdateOne
  <2>4. min <= Greater(Slack, min_match) /\ min \in Nat
    BY <1>2, <1>3 DEF Greater, Slack, MIN_MATCH, min
  <2>. QED BY <1>2, <2>1, <2>2, <2>3, <2>4 DEF MovesOn
<1>. QED BY <1>4, <1>5

\* The match that was extended is long enough.
LEMMA SourceEntered ==
  ASSUME BufferInv, Unlimited, Looks, SourceMatch(Extension), TakeSource,
         ~ Reentered => enc_state = "LOOP"
  PROVE  /\ MovesOn
         /\ match' = AfterMatch(Extension)
         /\ input_position + extent.fwd = avail_in => enc_state' = "ENC_INSTR"
         /\ AddsOnly(iopt'.used, iopt.used, CopyOf(Extension))
<1>. DEFINE m == Extension
            r == [run EXCEPT !.l = RunLength]
<1>1. m.srcpos = match.srcpos /\ m.back = extent.back /\ m.fwd = extent.fwd
  BY DEF Extension
<1>2. /\ Setting /\ Gathering(iopt) /\ Behind(iopt, input_position)
      /\ input_position \in Nat /\ input_position <= avail_in /\ avail_in \in Nat
      /\ min_match \in Nat /\ min_match >= MIN_MATCH
      /\ LastMatched(iopt) \in Nat /\ LastMatched(iopt) < input_position + min_match
  BY LooksFacts
<1>3. /\ SourceTaken(m) /\ ~ (m.fwd < min_match)
      /\ UNCHANGED <<input, total_in, avail_in>>
      /\ IF Reentered THEN Restart(input_position + m.fwd, iopt')
         ELSE HandleLazy(r, m.fwd, iopt')
  BY <1>1 DEF TakeSource, TooShort
<1>4. SourceMatch(m)
  OBVIOUS
<1>. HIDE DEF m, r
<1>5. m.fwd \in Nat /\ m.fwd >= MIN_MATCH /\ LastMatched(iopt) < input_position + m.fwd
  BY <1>2, <1>3, <1>4 DEF SourceMatch, MIN_MATCH
<1>6. /\ Gathering(iopt') /\ Behind(iopt', input_position + 1)
      /\ LastMatched(iopt') = input_position + m.fwd
      /\ match' = AfterMatch(m)
      /\ AddsOnly(iopt'.used, iopt.used, CopyOf(m))
  BY <1>2, <1>3, <1>4, <1>5, SourceTakenKeeps DEF Unlimited
<1>7. input.max_lazy \in Nat
  BY InputFacts DEF BufferInv
<1>8. CASE Reentered
  <2>. DEFINE p == input_position + m.fwd
              q == input_position + 1
  <2>1. p \in Nat /\ q \in Nat /\ q <= p
    BY <1>2, <1>5 DEF MIN_MATCH
  <2>2. Restart(p, iopt')
    BY <1>3, <1>8
  <2>3. Behind(iopt', p)
    <3>1. Behind(iopt', q)
      BY <1>6
    <3>. HIDE DEF p, q
    <3>. QED BY <1>6, <2>1, <3>1, BehindMore
  <2>4. LastMatched(iopt') = p
    BY <1>6
  <2>5. LastMatched(iopt') <= p
    BY <2>1, <2>4
  <2>. HIDE DEF p
  <2>6. Onward(iopt')
    BY <1>2, <1>6, <2>1, <2>2, <2>3, <2>5, RestartKeeps
  <2>7. input_position' = p
    BY <2>2 DEF Restart
  <2>8. enc_state' = "LOOP" => min_match' = Greater(MIN_MATCH, 1 + p - p)
                               /\ ~ (p + SmallLook > avail_in)
    BY <2>2, <2>4 DEF Restart
  <2>9. enc_state' = "LOOP" => min_match' <= Greater(Slack, min_match)
    BY <1>2, <1>7, <2>1, <2>8 DEF Greater, Slack, MIN_MATCH
  <2>10. p = avail_in => enc_state' = "ENC_INSTR"
    BY <1>2, <2>6, <2>8 DEF SmallLook, Onward
  <2>11. input_position <= input_position'
    BY <1>2, <1>5, <2>7 DEF p
  <2>12. BufferInv'
    BY <1>3, <1>6, <2>6, OnwardBuffer
  <2>. QED BY <1>1, <1>6, <2>6, <2>9, <2>10, <2>11, <2>12 DEF MovesOn, p, m
<1>9. CASE ~ Reentered
  <2>1. enc_state = "LOOP" /\ HandleLazy(r, m.fwd, iopt')
    BY <1>3, <1>9
  <2>2. /\ input_position + SmallLook <= avail_in
        /\ RunsTo(r, input_position + SmallLook, SmallLook)
    BY <2>1, LoopFacts DEF r
  <2>3. Onward(iopt')
    BY <1>2, <1>5, <1>6, <2>1, <2>2, HandleLazyKeeps DEF Unlimited
  <2>4. BufferInv'
    BY <1>3, <1>6, <2>3, OnwardBuffer
  <2>5. enc_state' \in {"LOOP", "ENC_INSTR"} /\ (enc_state' = "LOOP" => min_match' \in Nat)
    BY <2>3 DEF Onward, Looking
  <2>. DEFINE n == m.fwd
  <2>. HIDE DEF n
  <2>6. n \in Nat /\ n >= MIN_MATCH /\ LastMatched(iopt') = input_position + n
        /\ HandleLazy(r, n, iopt')
    BY <1>5, <1>6, <2>1 DEF n
  <2>7. /\ enc_state' = "LOOP" => min_match' <= Slack /\ input_position < input_position'
        /\ input_position <= input_position'
        /\ input_position + n = avail_in => enc_state' = "ENC_INSTR"
    BY <1>2, <1>7, <2>5, <2>6, LazyBound
  <2>8. enc_state' = "LOOP" => min_match' <= Greater(Slack, min_match)
    BY <1>2, <1>7, <2>5, <2>7 DEF Greater, Slack, MIN_MATCH
  <2>. QED BY <1>1, <1>6, <2>3, <2>4, <2>7, <2>8 DEF MovesOn, n, m
<1>. QED BY <1>8, <1>9

-----------------------------------------------------------------------------
(* Where the search is.                                                    *)

Inside == {"restart", "move", "indexing", "large", "small", "XD3_INTERNAL"}

\* While no match is extended.
LEMMA ControlApart ==
  ASSUME ControlInv, UNCHANGED <<input, extent>>, match' \in MatchStates,
         match'.srcpos <= Len(input.src),
         match'.state \notin {"MATCH_BACKWARD", "MATCH_FORWARD"},
         HasSource /\ enc_state' = "LOOP" => match'.state # "MATCH_TARGET",
         enc_state' \in {"ENC_INSTR", "ENC_FLUSH"} => at' = "top",
         at' \in Inside => enc_state' = "LOOP", at' \notin {"extend", "extended"}
  PROVE  ControlInv'
<1>1. input' = input /\ extent' = extent
  OBVIOUS
<1>2. extent \in ExtentType
  BY DEF ControlInv
<1>3. HasSource' <=> HasSource
  BY <1>1 DEF HasSource
<1>4. ~ Extending'
  BY DEF Extending
<1>. QED BY <1>1, <1>2, <1>3, <1>4 DEF ControlInv, Inside

LEMMA AfterRestart ==
  ASSUME Restarted
  PROVE  at' \in {"restart", "top"} /\ (at' = "restart" => enc_state' = "LOOP")
BY DEF Restarted

LEMMA AfterHandled ==
  ASSUME NEW n, Handled(n)
  PROVE  at' \in {"restart", "top"} /\ (at' = "restart" => enc_state' = "LOOP")
<1>1. at' = "top" \/ Restarted
  BY DEF Handled
<1>. QED BY <1>1, AfterRestart

LEMMA ControlProvide ==
  ASSUME FindInv, Provide
  PROVE  BufferInv' /\ ControlInv'
<1>1. at = "asks" /\ at' = "enter" /\ UNCHANGED <<vars, slots, matcher>>
  BY DEF Provide
<1>2. /\ input' = input /\ enc_state' = enc_state /\ match' = match /\ extent' = extent
      /\ UNCHANGED <<input, enc_state, total_in, avail_in, input_position, min_match,
                     run, iopt>>
  BY <1>1 DEF vars, matcher
<1>3. BufferInv'
  BY <1>2, SameBuffer DEF FindInv
<1>4. ControlInv
  BY DEF FindInv
<1>5. (Extending' <=> Extending) /\ (HasSource' <=> HasSource)
  BY <1>2 DEF Extending, HasSource
<1>6. ControlInv'
  BY <1>1, <1>2, <1>4, <1>5 DEF ControlInv
<1>. QED BY <1>3, <1>6

LEMMA ControlSame ==
  ASSUME FindInv, ~ Extending, UNCHANGED <<vars, extent>>,
         at' \in Inside => enc_state = "LOOP", at' \notin {"extend", "extended"},
         enc_state \in {"ENC_INSTR", "ENC_FLUSH"} => at' = "top"
  PROVE  BufferInv' /\ ControlInv'
<1>1. /\ input' = input /\ enc_state' = enc_state /\ match' = match /\ extent' = extent
      /\ UNCHANGED <<input, enc_state, total_in, avail_in, input_position, min_match,
                     run, iopt>>
  BY DEF vars
<1>2. BufferInv'
  BY <1>1, SameBuffer DEF FindInv
<1>3. ControlInv
  BY DEF FindInv
<1>4. /\ match' \in MatchStates /\ match'.srcpos <= Len(input.src)
      /\ HasSource /\ enc_state' = "LOOP" => match'.state # "MATCH_TARGET"
  BY <1>1, <1>3 DEF ControlInv
<1>5. match'.state \notin {"MATCH_BACKWARD", "MATCH_FORWARD"}
  BY <1>1 DEF Extending
<1>. QED BY <1>1, <1>2, <1>3, <1>4, <1>5, ControlApart

LEMMA ControlTakeRun ==
  ASSUME FindInv, Unlimited, TakeRun
  PROVE  BufferInv' /\ ControlInv'
<1>1. /\ at = "top" /\ enc_state = "LOOP" /\ Handled(RunLength)
      /\ UNCHANGED <<input, match>> /\ extent' = extent
  BY DEF TakeRun, RunFound, matcher
<1>2. BufferInv' /\ Onward(iopt')
  BY RunTaken DEF FindInv, MovesOn
<1>3. /\ at' \in {"restart", "top"} /\ (at' = "restart" => enc_state' = "LOOP")
  BY <1>1, AfterHandled
<1>4. enc_state' \in {"LOOP", "ENC_INSTR"}
  BY <1>2 DEF Onward
<1>5. ControlInv
  BY DEF FindInv
<1>6. /\ match' \in MatchStates /\ match'.srcpos <= Len(input.src)
      /\ HasSource /\ enc_state' = "LOOP" => match'.state # "MATCH_TARGET"
      /\ match'.state \notin {"MATCH_BACKWARD", "MATCH_FORWARD"}
  BY <1>1, <1>5 DEF ControlInv, Extending
<1>7. at' \in Inside => enc_state' = "LOOP"
  BY <1>3 DEF Inside
<1>8. enc_state' \in {"ENC_INSTR", "ENC_FLUSH"} => at' = "top"
  BY <1>3, <1>4
<1>. QED BY <1>1, <1>2, <1>3, <1>5, <1>6, <1>7, <1>8, ControlApart

LEMMA ControlTrySmall ==
  ASSUME FindInv, Unlimited, TrySmall
  PROVE  BufferInv' /\ ControlInv'
<1>1. /\ at = "small" /\ UNCHANGED <<input, match>> /\ extent' = extent
      /\ at' = "top" \/ \E n : Handled(n)
  BY DEF TrySmall
<1>2. ControlInv
  BY DEF FindInv
<1>3. enc_state = "LOOP" /\ ~ Extending
  BY <1>1, <1>2 DEF ControlInv
<1>4. BufferInv' /\ Onward(iopt')
  BY <1>3, SmallTaken DEF FindInv, MovesOn
<1>5. /\ at' \in {"restart", "top"} /\ (at' = "restart" => enc_state' = "LOOP")
  BY <1>1, AfterHandled
<1>6. enc_state' \in {"LOOP", "ENC_INSTR"}
  BY <1>4 DEF Onward
<1>7. /\ match' \in MatchStates /\ match'.srcpos <= Len(input.src)
      /\ HasSource /\ enc_state' = "LOOP" => match'.state # "MATCH_TARGET"
      /\ match'.state \notin {"MATCH_BACKWARD", "MATCH_FORWARD"}
  BY <1>1, <1>2, <1>3 DEF ControlInv, Extending
<1>8. at' \in Inside => enc_state' = "LOOP"
  BY <1>5 DEF Inside
<1>9. enc_state' \in {"ENC_INSTR", "ENC_FLUSH"} => at' = "top"
  BY <1>5, <1>6
<1>. QED BY <1>1, <1>2, <1>4, <1>5, <1>7, <1>8, <1>9, ControlApart

LEMMA ControlNoRun ==
  ASSUME FindInv, NoRun
  PROVE  BufferInv' /\ ControlInv'
<1>1. /\ at = "top" /\ enc_state = "LOOP" /\ UNCHANGED <<vars, extent>>
      /\ at' \in {"small", "move", "large"}
  BY DEF NoRun, matcher
<1>2. ~ Extending
  BY <1>1 DEF FindInv, ControlInv
<1>. QED BY <1>1, <1>2, ControlSame

LEMMA ControlIndexing ==
  ASSUME FindInv, MoveStart \/ IndexBlock \/ MoveEnd
  PROVE  BufferInv' /\ ControlInv'
<1>1. ControlInv /\ index.then \in {"top", "large"}
  BY DEF FindInv, IndexInv, IndexWith
<1>2. UNCHANGED <<vars, extent>> /\ at \in {"restart", "move", "indexing"}
  BY DEF MoveStart, IndexBlock, MoveEnd
<1>3. at' \in {"top", "large", "indexing", "asks", "XD3_INTERNAL"}
  <2>1. CASE MoveStart
    BY <2>1 DEF MoveStart, Then
  <2>2. CASE IndexBlock
    BY <2>2 DEF IndexBlock, Asks
  <2>3. CASE MoveEnd
    BY <2>3, <1>1 DEF MoveEnd
  <2>. QED BY <2>1, <2>2, <2>3
<1>4. enc_state = "LOOP" /\ ~ Extending
  BY <1>1, <1>2 DEF ControlInv
<1>. QED BY <1>2, <1>3, <1>4, ControlSame

LEMMA ControlEnd ==
  ASSUME FindInv, MatchEnd \/ MatchNextWindow
  PROVE  BufferInv' /\ ControlInv'
<1>1. ControlInv /\ BufferInv
  BY DEF FindInv
<1>2. /\ UNCHANGED <<input, match, extent>> /\ at' \in {"top", "enter"}
      /\ (enc_state' = "ENC_FLUSH" /\ at' = "top") \/ enc_state' = "ENC_SEARCH"
      /\ at = "top"
  <2>1. CASE MatchEnd
    BY <2>1 DEF MatchEnd, Instr, matcher
  <2>2. CASE MatchNextWindow
    BY <2>2, <1>1 DEF MatchNextWindow, NextWindow, ControlInv
  <2>. QED BY <2>1, <2>2
<1>3. ~ Extending
  BY <1>1, <1>2 DEF ControlInv
<1>4. /\ match' \in MatchStates /\ match'.srcpos <= Len(input.src)
      /\ match'.state \notin {"MATCH_BACKWARD", "MATCH_FORWARD"}
  BY <1>1, <1>2, <1>3 DEF ControlInv, Extending
<1>5. BufferInv'
  BY <1>1, InstrBuffer, NextWindowBuffer DEF MatchEnd, MatchNextWindow
<1>6. ControlInv'
  BY <1>1, <1>2, <1>4, ControlApart DEF Inside
<1>. QED BY <1>5, <1>6

-----------------------------------------------------------------------------
(* The match that is extended.                                             *)

\* The end of the source, once it is known.
LEMMA SourceEofFacts ==
  ASSUME input \in Inputs, SourceOk(source), source.eof_known
  PROVE  source_eof(source) = SrcEnd
<1>1. source.max_blkno = LastBlock /\ source.onlastblk = BlockLen(source.max_blkno)
  BY DEF SourceOk
<1>. QED BY <1>1 DEF source_eof, SrcEnd

LEMMA NoExtentFacts ==
  ASSUME NEW caller \in {"string_match", "encode_input"}
  PROVE  LET e == NoExtent(caller)
         IN  /\ e \in ExtentType /\ e.caller = caller
             /\ e.back = 0 /\ e.fwd = 0 /\ e.maxback = 0 /\ e.maxfwd = 0
BY DEF NoExtent, ExtentType

LEMMA SetupFacts ==
  ASSUME BufferInv, Looks, SourceOk(source), NEW srcpos \in Nat, srcpos <= Len(input.src),
         NEW caller \in {"string_match", "encode_input"}
  PROVE  LET e == Extent(srcpos, caller)
         IN  /\ e \in ExtentType /\ e.caller = caller /\ e.back = 0 /\ e.fwd = 0
             /\ e.maxback <= input_position /\ e.maxback <= srcpos
             /\ e.maxfwd <= avail_in - input_position
             /\ ~ input.greedy => e.maxback = Lesser(input_position, srcpos)
             /\ e.maxfwd \in {avail_in - input_position,
                              Lesser(avail_in - input_position, SrcEnd - srcpos)}
<1>. DEFINE back == BackRoom
            fwd == avail_in - input_position
            maxback == Lesser(back, srcpos)
            maxfwd == IF source.eof_known THEN Lesser(fwd, SrcEnd - srcpos) ELSE fwd
            none == NoExtent(caller)
            half == [none EXCEPT !.maxback = maxback]
            e == [half EXCEPT !.maxfwd = maxfwd]
<1>1. /\ input_position \in Nat /\ input_position <= avail_in /\ avail_in \in Nat
      /\ BackLimit \in Nat /\ BackLimit <= input_position
      /\ iopt.unencoded_offset = 0 /\ SrcFrom = 0 /\ ~ iopt.srcwin.decided
  BY LooksFacts
<1>2. input \in Inputs /\ SrcEnd \in Nat /\ Len(input.src) <= SrcEnd
  BY LastBlockFacts DEF BufferInv
<1>3. Len(input.src) \in Nat
  BY <1>2, InputFacts
<1>0. back = input_position - BackLimit
  BY <1>1 DEF BackRoom
<1>4. back \in Nat /\ fwd \in Nat /\ srcpos <= SrcEnd /\ srcpos - 0 = srcpos
  BY <1>0, <1>1, <1>2, <1>3
<1>5. source.eof_known => source_eof(source) = SrcEnd
  BY <1>2, SourceEofFacts
<1>6. Extent(srcpos, caller) = e
  <2>1. Extent(srcpos, caller) =
          [none EXCEPT !.maxback = Lesser(back, srcpos - 0),
             !.maxfwd = IF source.eof_known THEN Lesser(fwd, source_eof(source) - srcpos)
                        ELSE fwd]
    BY <1>1 DEF Extent
  <2>. QED BY <1>4, <1>5, <2>1
<1>7. /\ none \in ExtentType /\ none.caller = caller /\ none.back = 0 /\ none.fwd = 0
  BY NoExtentFacts
<1>. HIDE DEF back, fwd, none
<1>8. /\ maxback \in Nat /\ maxback <= back /\ maxback <= srcpos
      /\ maxfwd \in Nat /\ maxfwd <= fwd /\ maxfwd \in {fwd, Lesser(fwd, SrcEnd - srcpos)}
  BY <1>2, <1>4 DEF Lesser
<1>. HIDE DEF maxback, maxfwd
<1>9. /\ half \in ExtentType /\ half.maxback = maxback /\ half.caller = caller
      /\ half.back = 0 /\ half.fwd = 0
  BY <1>7, <1>8 DEF ExtentType
<1>. HIDE DEF half
<1>10. /\ e \in ExtentType /\ e.maxback = maxback /\ e.maxfwd = maxfwd /\ e.caller = caller
       /\ e.back = 0 /\ e.fwd = 0
  BY <1>8, <1>9 DEF ExtentType
<1>. HIDE DEF e
<1>11. back <= input_position
  BY <1>0, <1>1
<1>12. ~ input.greedy => back = input_position
  BY <1>0, <1>1 DEF BackLimit
<1>13. maxback <= input_position
  BY <1>1, <1>4, <1>8, <1>11
<1>14. ~ input.greedy => maxback = Lesser(input_position, srcpos)
  BY <1>12 DEF maxback
<1>. QED BY <1>6, <1>8, <1>10, <1>13, <1>14 DEF fwd

LEMMA ControlExtends ==
  ASSUME match' \in MatchStates, match'.srcpos <= Len(input.src), extent' \in ExtentType,
         input' = input, HasSource, match'.state \in {"MATCH_BACKWARD", "MATCH_FORWARD"},
         at' \in {"extend", "extended", "asks"}, enc_state' \in {"ENC_SEARCH", "LOOP"},
         extent'.caller = "string_match" => enc_state' = "LOOP"
  PROVE  ControlInv'
<1>1. HasSource'
  BY DEF HasSource
<1>2. Extending'
  BY DEF Extending
<1>. QED BY <1>1, <1>2 DEF ControlInv

LEMMA ControlEnter ==
  ASSUME FindInv, Enter
  PROVE  BufferInv' /\ ControlInv'
<1>1. /\ at = "enter" /\ enc_state \in {"ENC_SEARCH", "LOOP"}
      /\ UNCHANGED <<input, total_in, avail_in, iopt>>
  BY DEF Enter
<1>2. BufferInv /\ ControlInv /\ SourceOk(source) /\ Looks
  BY <1>1 DEF FindInv, SourceInv, Looks
<1>3. /\ match \in MatchStates /\ match.srcpos <= Len(input.src) /\ extent \in ExtentType
      /\ Extending => HasSource
  BY <1>2 DEF ControlInv
<1>4. CASE ~ HasSource \/ match.state = "MATCH_SEARCHING"
  <2>1. /\ Restart(input_position, iopt) /\ Restarted /\ UNCHANGED <<match, extent>>
    BY <1>4 DEF Enter, StringMatch
  <2>2. BufferInv' /\ Onward(iopt')
    BY <1>1, <1>2, <2>1, StartsAgain
  <2>3. at' \in {"restart", "top"} /\ (at' = "restart" => enc_state' = "LOOP")
    BY <2>1, AfterRestart
  <2>4. enc_state' \in {"LOOP", "ENC_INSTR"}
    BY <2>2 DEF Onward
  <2>5. ~ Extending
    BY <1>3, <1>4 DEF Extending
  <2>6. /\ match' \in MatchStates /\ match'.srcpos <= Len(input.src)
        /\ HasSource /\ enc_state' = "LOOP" => match'.state # "MATCH_TARGET"
        /\ match'.state \notin {"MATCH_BACKWARD", "MATCH_FORWARD"}
    <3>1. HasSource => match.state # "MATCH_TARGET"
      BY <1>4
    <3>. HIDE DEF HasSource
    <3>. QED BY <1>3, <2>1, <2>5, <3>1 DEF Extending
  <2>7. at' \in Inside => enc_state' = "LOOP"
    BY <2>3 DEF Inside
  <2>8. enc_state' \in {"ENC_INSTR", "ENC_FLUSH"} => at' = "top"
    BY <2>3, <2>4
  <2>9. UNCHANGED <<input, extent>> /\ at' \notin {"extend", "extended"}
    BY <1>1, <2>1, <2>3
  <2>10. ControlInv'
    BY <1>2, <2>6, <2>7, <2>8, <2>9, ControlApart
  <2>. QED BY <2>2, <2>10
<1>5. CASE HasSource /\ match.state # "MATCH_SEARCHING"
  <2>1. /\ at' = "extend" /\ UNCHANGED <<enc_state, input_position, min_match, run>>
        /\ IF match.state = "MATCH_TARGET"
           THEN /\ extent' = IF SetupFails(match.srcpos) THEN NoExtent("encode_input")
                             ELSE Extent(match.srcpos, "encode_input")
                /\ match' = [match EXCEPT !.state = "MATCH_FORWARD", !.last = match.srcpos]
           ELSE extent' = [extent EXCEPT !.caller = "encode_input"] /\ UNCHANGED match
    <3>. HIDE DEF HasSource
    <3>. QED BY <1>5 DEF Enter
  <2>2. BufferInv'
    BY <1>1, <1>2, <2>1, SameBuffer
  <2>3. /\ match' \in MatchStates /\ match'.srcpos <= Len(input.src)
        /\ match'.state \in {"MATCH_BACKWARD", "MATCH_FORWARD"}
        /\ extent' \in ExtentType /\ extent'.caller = "encode_input"
    <3>1. CASE match.state = "MATCH_TARGET"
      <4>. DEFINE p == match.srcpos
      <4>1. p \in Nat /\ p <= Len(input.src)
        BY <1>3 DEF MatchStates
      <4>2. match' = [match EXCEPT !.state = "MATCH_FORWARD", !.last = p]
        BY <2>1, <3>1
      <4>3. extent' = NoExtent("encode_input") \/ extent' = Extent(p, "encode_input")
        BY <2>1, <3>1
      <4>. HIDE DEF p
      <4>4. extent' \in ExtentType /\ extent'.caller = "encode_input"
        BY <1>2, <4>1, <4>3, SetupFacts, NoExtentFacts
      <4>5. match' \in MatchStates /\ match'.srcpos = p /\ match'.state = "MATCH_FORWARD"
        BY <1>3, <4>1, <4>2 DEF MatchStates, p
      <4>. QED BY <4>1, <4>4, <4>5
    <3>2. CASE match.state # "MATCH_TARGET"
      <4>1. match' = match /\ extent' = [extent EXCEPT !.caller = "encode_input"]
        BY <2>1, <3>2
      <4>2. extent' \in ExtentType /\ extent'.caller = "encode_input"
        BY <1>3, <4>1 DEF ExtentType
      <4>3. match.state \in {"MATCH_BACKWARD", "MATCH_FORWARD"}
        BY <1>3, <1>5, <3>2 DEF MatchStates
      <4>. QED BY <1>3, <4>1, <4>2, <4>3
    <3>. QED BY <3>1, <3>2
  <2>4. input' = input /\ enc_state' \in {"ENC_SEARCH", "LOOP"}
        /\ at' \in {"extend", "extended", "asks"}
    BY <1>1, <2>1
  <2>5. ControlInv'
    BY <1>5, <2>3, <2>4, ControlExtends
  <2>. QED BY <2>2, <2>5
<1>. QED BY <1>4, <1>5

LEMMA ControlLookUp ==
  ASSUME FindInv, LookUp
  PROVE  BufferInv' /\ ControlInv'
<1>. DEFINE h == LargeHash(Bytes(input.tgt, absolute_input_pos, LargeLook))
            p == index.large_table[h]
<1>1. /\ at = "large"
      /\ UNCHANGED <<input, enc_state, total_in, avail_in, input_position, min_match, run,
                     iopt>>
      /\ \/ at' = "small" /\ UNCHANGED <<match, extent>>
         \/ /\ h \in DOMAIN index.large_table
            /\ match' = Searching(p) /\ at' = "small" /\ extent' = NoExtent("string_match")
         \/ /\ h \in DOMAIN index.large_table
            /\ match' = [state |-> "MATCH_BACKWARD", srcpos |-> p, last |-> p]
            /\ extent' = Extent(p, "string_match") /\ at' = "extend"
  BY DEF LookUp
<1>2. BufferInv /\ ControlInv /\ SourceOk(source)
  BY DEF FindInv, SourceInv
<1>3. /\ match \in MatchStates /\ match.srcpos <= Len(input.src) /\ extent \in ExtentType
      /\ enc_state = "LOOP" /\ ~ Extending /\ (HasSource => match.state # "MATCH_TARGET")
  BY <1>1, <1>2 DEF ControlInv
<1>4. BufferInv'
  BY <1>1, <1>2, SameBuffer
<1>5. Len(input.src) \in Nat /\ LargeLook \in Nat /\ LargeLook >= MIN_MATCH
  BY <1>2, InputFacts, IoptAssumption DEF BufferInv
<1>6. h \in DOMAIN index.large_table => p \in Nat /\ p <= Len(input.src) /\ HasSource
  <2>. SUFFICES ASSUME h \in DOMAIN index.large_table
                PROVE  p \in Nat /\ p <= Len(input.src) /\ HasSource
    OBVIOUS
  <2>1. p \in Nat /\ p + LargeLook <= Len(input.src)
    BY DEF FindInv, IndexInv, TableTrue
  <2>2. p <= Len(input.src) /\ Len(input.src) # 0
    <3>. HIDE DEF p
    <3>. QED BY <1>5, <2>1 DEF MIN_MATCH
  <2>3. HasSource
    BY <2>2 DEF HasSource
  <2>. QED BY <2>1, <2>2, <2>3
<1>. HIDE DEF h
<1>7. CASE match' = match /\ at' = "small" /\ extent' = extent
  <2>1. match'.state \notin {"MATCH_BACKWARD", "MATCH_FORWARD"}
    BY <1>3, <1>7 DEF Extending
  <2>. HIDE DEF HasSource
  <2>2. ControlInv'
    BY <1>1, <1>2, <1>3, <1>7, <2>1, ControlApart
  <2>. QED BY <1>4, <2>2
<1>8. CASE h \in DOMAIN index.large_table /\ match' = Searching(p) /\ at' = "small"
           /\ extent' = NoExtent("string_match")
  <2>. HIDE DEF p
  <2>1. /\ match' \in MatchStates /\ match'.srcpos = 0 /\ match'.state = "MATCH_SEARCHING"
    BY <1>6, <1>8 DEF Searching, MatchStates
  <2>2. extent' \in ExtentType /\ 0 <= Len(input.src)
    BY <1>5, <1>8, NoExtentFacts
  <2>3. ~ Extending'
    BY <2>1 DEF Extending
  <2>4. ControlInv'
    BY <1>1, <1>3, <1>8, <2>1, <2>2, <2>3 DEF ControlInv
  <2>. QED BY <1>4, <2>4
<1>9. CASE h \in DOMAIN index.large_table
           /\ match' = [state |-> "MATCH_BACKWARD", srcpos |-> p, last |-> p]
           /\ extent' = Extent(p, "string_match") /\ at' = "extend"
  <2>1. p \in Nat /\ p <= Len(input.src) /\ HasSource
    BY <1>6, <1>9
  <2>. HIDE DEF p
  <2>2. /\ match' \in MatchStates /\ match'.srcpos = p /\ match'.state = "MATCH_BACKWARD"
    BY <1>9, <2>1 DEF MatchStates
  <2>3. extent' \in ExtentType
    BY <1>2, <1>3, <1>9, <2>1, SetupFacts DEF Looks
  <2>4. input' = input /\ enc_state' = "LOOP"
    BY <1>1, <1>3
  <2>5. ControlInv'
    BY <1>9, <2>1, <2>2, <2>3, <2>4, ControlExtends
  <2>. QED BY <1>4, <2>5
<1>. QED BY <1>1, <1>7, <1>8, <1>9

-----------------------------------------------------------------------------
(* One turn of the loops of xd3_source_extend_match.                       *)

\* The search is within a window while a match is extended.
LEMMA ExtendingLooks ==
  ASSUME FindInv, at \in {"extend", "extended"}
  PROVE  /\ Looks /\ Extending /\ HasSource /\ match \in MatchStates /\ extent \in ExtentType
         /\ match.srcpos <= Len(input.src)
         /\ extent.caller = "string_match" => enc_state = "LOOP"
         /\ SourceMatch(Extension)
         /\ extent.back <= extent.maxback /\ extent.fwd <= extent.maxfwd
         /\ extent.maxback <= input_position /\ extent.maxback <= match.srcpos
         /\ extent.maxfwd <= avail_in - input_position
         /\ {input_position, avail_in, Len(input.src), match.srcpos, extent.back,
             extent.fwd, extent.maxback, extent.maxfwd} \subseteq Nat
<1>1. ControlInv /\ BufferInv /\ ExtentInv
  BY DEF FindInv
<1>2. Extending /\ HasSource /\ match \in MatchStates /\ extent \in ExtentType
      /\ match.srcpos <= Len(input.src)
      /\ (extent.caller = "string_match" => enc_state = "LOOP")
  BY <1>1 DEF ControlInv
<1>3. enc_state \notin {"ENC_INSTR", "ENC_FLUSH"}
  BY <1>1 DEF ControlInv
<1>4. Looks
  BY <1>1, <1>3 DEF BufferInv, Looks
<1>5. input_position \in Nat /\ avail_in \in Nat
  BY <1>1, <1>4, LooksFacts
<1>6. Len(input.src) \in Nat
  BY <1>1, InputFacts DEF BufferInv
<1>7. match.srcpos \in Nat /\ extent.back \in Nat /\ extent.fwd \in Nat
      /\ extent.maxback \in Nat /\ extent.maxfwd \in Nat
  BY <1>2 DEF MatchStates, ExtentType
<1>. HIDE DEF HasSource
<1>. QED BY <1>1, <1>2, <1>4, <1>5, <1>6, <1>7 DEF ExtentInv

LEMMA ForwardStops ==
  ASSUME NEW s, NEW a, NEW p, NEW max \in Nat
  PROVE  LET f == Forward(s, a, p, max)
         IN  f \in 0 .. max /\ (f # max => s[a + f + 1] # Tgt(p + f))
<1>. DEFINE D == {k \in 0 .. max - 1 : s[a + k + 1] # Tgt(p + k)}
            f == Forward(s, a, p, max)
<1>1. f = IF D = {} THEN max ELSE Min(D)
  BY DEF Forward
<1>2. f \in 0 .. max
  BY ForwardAgrees DEF Agrees
<1>3. D # {} => f \in D
  <2>1. D \subseteq Nat
    OBVIOUS
  <2>. HIDE DEF D, f
  <2>. QED BY <1>1, <2>1, NatMin
<1>. HIDE DEF f
<1>4. f # max => s[a + f + 1] # Tgt(p + f)
  BY <1>1, <1>3
<1>. QED BY <1>2, <1>4 DEF f

LEMMA BackwardStops ==
  ASSUME NEW s, NEW a, NEW p, NEW max \in Nat
  PROVE  LET f == Backward(s, a, p, max)
         IN  f \in 0 .. max /\ (f # max => s[a - f] # Tgt(p - f - 1))
<1>. DEFINE D == {k \in 0 .. max - 1 : s[a - k] # Tgt(p - k - 1)}
            f == Backward(s, a, p, max)
<1>1. f = IF D = {} THEN max ELSE Min(D)
  BY DEF Backward
<1>2. f \in 0 .. max
  BY BackwardAgrees DEF AgreesBack
<1>3. D # {} => f \in D
  <2>1. D \subseteq Nat
    OBVIOUS
  <2>. HIDE DEF D, f
  <2>. QED BY <1>1, <2>1, NatMin
<1>. HIDE DEF f
<1>4. f # max => s[a - f] # Tgt(p - f - 1)
  BY <1>1, <1>3
<1>. QED BY <1>2, <1>4 DEF f

\* A position of the source, in its block.
LEMMA PositionFacts ==
  ASSUME input \in Inputs, NEW p \in Nat, p <= Len(input.src)
  PROVE  LET b == p \div blksize
             off == p % blksize
         IN  /\ b \in 0 .. LastBlock /\ off \in Nat /\ b * blksize \in Nat
             /\ b * blksize + off = p
             /\ BlockLen(b) \in Nat /\ off <= BlockLen(b)
             /\ b * blksize + BlockLen(b) <= Len(input.src)
             /\ off = BlockLen(b) => p = Len(input.src)
<1>. DEFINE n == blksize
            len == Len(input.src)
            b == p \div n
            off == p % n
            m == b * n
<1>1. n \in Nat \ {0} /\ len \in Nat
  BY InputFacts
<1>2. SrcEnd \in Nat /\ len <= SrcEnd
  BY LastBlockFacts
<1>3. p <= SrcEnd
  <2>. HIDE DEF len
  <2>. QED BY <1>1, <1>2 DEF len
<1>4. b \in 0 .. LastBlock /\ off \in 0 .. n - 1 /\ m + off = p /\ m \in Nat
  BY <1>3, BlockOf
<1>5. BlockLen(b) = Greater(0, Lesser(n, len - m))
  BY DEF BlockLen
<1>. HIDE DEF m, off, b, n, len
<1>6. p <= len
  BY DEF len
<1>7. BlockLen(b) \in Nat /\ off <= BlockLen(b) /\ m + BlockLen(b) <= len
      /\ (off = BlockLen(b) => p = len)
  BY <1>1, <1>4, <1>5, <1>6 DEF Greater, Lesser
<1>8. off \in Nat
  BY <1>1, <1>4
<1>. QED BY <1>4, <1>7, <1>8 DEF m, off, b, n, len

LEMMA ForwardStep ==
  ASSUME FindInv, ExtendForward
  PROVE  LET right == match.srcpos + extent.fwd
             b == right \div blksize
             g == Getblk(b)
         IN  /\ b \in 0 .. LastBlock /\ b * blksize <= right /\ b * blksize \in Nat
             /\ right < blksize => b = 0
             /\ \/ /\ extent.fwd >= extent.maxfwd
                   /\ at' = "extended" /\ UNCHANGED <<extent, blocks>>
                \/ /\ g.ret # "ok" /\ Use(g) /\ UNCHANGED extent
                   /\ \/ ~ input.fifo /\ at' = "asks"
                      \/ input.fifo /\ at' = "extended"
                \/ /\ g.ret = "ok" /\ Use(g)
                   /\ \E n \in Nat :
                        /\ extent' = [extent EXCEPT !.fwd = extent.fwd + n]
                        /\ extent.fwd + n <= extent.maxfwd
                        /\ right + n <= Len(input.src)
                        /\ \A k \in 0 .. n - 1 :
                             Src(right + k) = Tgt(input_position + extent.fwd + k)
                        /\ \/ at' = "extend"
                           \/ /\ at' = "extended"
                              /\ \/ right + n = Len(input.src)
                                 \/ Src(right + n) # Tgt(input_position + extent.fwd + n)
<1>. DEFINE right == match.srcpos + extent.fwd
            b == right \div blksize
            off == right % blksize
            g == Getblk(b)
            p == input_position + extent.fwd
            rem == Lesser(extent.maxfwd - extent.fwd, g.source.onblk - off)
            a == g.source.curblkno * blksize + off
            n == Forward(input.src, a, p, rem)
<1>1. /\ at = "extend" /\ match.state = "MATCH_FORWARD"
      /\ IF extent.fwd >= extent.maxfwd
         THEN at' = "extended" /\ UNCHANGED <<extent, blocks>>
         ELSE /\ Use(g)
              /\ \/ Asks(g) /\ UNCHANGED extent
                 \/ g.ret = "XD3_TOOFARBACK" /\ at' = "extended" /\ UNCHANGED extent
                 \/ /\ g.ret = "ok" /\ extent' = [extent EXCEPT !.fwd = ForwardCount(n)]
                    /\ at' = IF StopsHere(n, rem) THEN "extended" ELSE "extend"
  BY DEF ExtendForward
<1>2. /\ SourceMatch(Extension) /\ extent.fwd <= extent.maxfwd
      /\ {input_position, Len(input.src), match.srcpos, extent.fwd, extent.maxfwd}
           \subseteq Nat
  BY <1>1, ExtendingLooks
<1>3. right \in Nat /\ right <= Len(input.src)
  BY <1>2 DEF SourceMatch, Extension
<1>4. input \in Inputs /\ SourceOk(source)
  BY DEF FindInv, BufferInv, SourceInv
<1>. HIDE DEF right
<1>5. /\ b \in 0 .. LastBlock /\ off \in Nat /\ b * blksize \in Nat
      /\ b * blksize + off = right
      /\ BlockLen(b) \in Nat /\ off <= BlockLen(b)
      /\ b * blksize + BlockLen(b) <= Len(input.src)
      /\ off = BlockLen(b) => right = Len(input.src)
  BY <1>3, <1>4, PositionFacts
<1>6. b * blksize <= right
  <2>. DEFINE m == b * blksize
  <2>. HIDE DEF m, off
  <2>. QED BY <1>3, <1>5 DEF m
<1>7. right < blksize => b = 0
  <2>. SUFFICES ASSUME right < blksize PROVE b = 0
    OBVIOUS
  <2>1. blksize \in Nat \ {0} /\ 0 \in Nat
    BY <1>4, InputFacts
  <2>2. right < 0 * blksize + blksize
    BY <1>3, <2>1
  <2>3. right \div blksize \in 0 .. 0
    <3>. DEFINE m == blksize
    <3>. HIDE DEF m
    <3>1. m \in Nat \ {0} /\ right < 0 * m + m
      BY <2>1, <2>2 DEF m
    <3>2. right \div m \in 0 .. 0
      BY <1>3, <2>1, <3>1, DivisionBelow
    <3>. QED BY <3>2 DEF m
  <2>. QED BY <2>3
<1>. HIDE DEF b, off, g
<1>8. CASE extent.fwd >= extent.maxfwd
  BY <1>1, <1>5, <1>6, <1>7, <1>8 DEF right, b
<1>9. CASE ~ (extent.fwd >= extent.maxfwd)
  <2>1. /\ g.ret = "ok" => g.source.curblkno = b /\ g.source.onblk = BlockLen(b)
        /\ g.ret = "XD3_GETSRCBLK" => ~ input.fifo
        /\ g.ret = "XD3_TOOFARBACK" => input.fifo
    BY <1>4, <1>5, GetblkFacts DEF g
  <2>2. CASE Asks(g) /\ UNCHANGED extent
    <3>1. g.ret # "ok" /\ ~ input.fifo /\ at' = "asks" /\ Use(g)
      BY <1>1, <1>9, <2>1, <2>2 DEF Asks
    <3>. QED BY <1>5, <1>6, <1>7, <2>2, <3>1 DEF right, b, g
  <2>3. CASE g.ret = "XD3_TOOFARBACK" /\ at' = "extended" /\ UNCHANGED extent
    <3>1. g.ret # "ok" /\ input.fifo /\ Use(g)
      BY <1>1, <1>9, <2>1, <2>3
    <3>. QED BY <1>5, <1>6, <1>7, <2>3, <3>1 DEF right, b, g
  <2>4. CASE /\ g.ret = "ok" /\ extent' = [extent EXCEPT !.fwd = ForwardCount(n)]
             /\ at' = IF StopsHere(n, rem) THEN "extended" ELSE "extend"
    <3>1. Use(g)
      BY <1>1, <1>9
    <3>2. a = right
      BY <1>5, <2>1, <2>4
    <3>3. rem = Lesser(extent.maxfwd - extent.fwd, BlockLen(b) - off)
      BY <2>1, <2>4
    <3>4. rem \in Nat /\ rem <= extent.maxfwd - extent.fwd /\ rem <= BlockLen(b) - off
      <4>. HIDE DEF rem
      <4>. QED BY <1>2, <1>5, <3>3 DEF Lesser
    <3>5. p \in Nat
      BY <1>2
    <3>6. Agrees(input.src, right, p, rem, n) /\ (n # rem => input.src[right + n + 1] # Tgt(p + n))
      <4>. DEFINE f == Forward(input.src, right, p, rem)
      <4>1. n = f
        BY <3>2
      <4>. HIDE DEF n, rem
      <4>2. Agrees(input.src, right, p, rem, f) /\ (f # rem => input.src[right + f + 1] # Tgt(p + f))
        BY <3>4, ForwardAgrees, ForwardStops
      <4>. QED BY <4>1, <4>2
    <3>. HIDE DEF n, rem
    <3>7. n \in Nat /\ n <= rem /\ \A k \in 0 .. n - 1 : Src(right + k) = Tgt(p + k)
      BY <3>4, <3>6 DEF Agrees, Src
    <3>8. extent' = [extent EXCEPT !.fwd = extent.fwd + n] /\ extent.fwd + n <= extent.maxfwd
      BY <1>2, <2>4, <3>4, <3>7 DEF ForwardCount
    <3>9. right + n <= Len(input.src)
      <4>. DEFINE m == b * blksize
                  l == BlockLen(b)
      <4>. HIDE DEF m, l
      <4>1. m \in Nat /\ l \in Nat /\ m + off = right /\ m + l <= Len(input.src)
            /\ rem <= l - off
        BY <1>5, <3>4 DEF m, l
      <4>. QED BY <1>2, <1>5, <3>4, <3>7, <4>1
    <3>10. \/ at' = "extend"
           \/ /\ at' = "extended"
              /\ right + n = Len(input.src) \/ Src(right + n) # Tgt(p + n)
      <4>1. CASE n < rem
        <5>1. n # rem /\ at' = "extended"
          BY <2>4, <3>4, <3>7, <4>1 DEF StopsHere
        <5>. QED BY <3>6, <5>1 DEF Src
      <4>2. CASE rem = 0
        <5>1. n = 0 /\ at' = "extended"
          BY <2>4, <3>7, <4>2 DEF StopsHere
        <5>2. BlockLen(b) = off
          BY <1>2, <1>5, <1>9, <3>3, <4>2 DEF Lesser
        <5>. QED BY <1>3, <1>5, <5>1, <5>2
      <4>3. CASE ~ (n < rem) /\ rem # 0
        BY <2>4, <4>3 DEF StopsHere
      <4>. QED BY <4>1, <4>2, <4>3
    <3>11. /\ \A k \in 0 .. n - 1 : Src(right + k) = Tgt(input_position + extent.fwd + k)
           /\ \/ at' = "extend"
              \/ /\ at' = "extended"
                 /\ \/ right + n = Len(input.src)
                    \/ Src(right + n) # Tgt(input_position + extent.fwd + n)
      BY <3>7, <3>10
    <3>. HIDE DEF p
    <3>. QED BY <1>5, <1>6, <1>7, <2>4, <3>1, <3>7, <3>8, <3>9, <3>11 DEF right, b, g
  <2>. QED BY <1>1, <1>9, <2>2, <2>3, <2>4
<1>. QED BY <1>8, <1>9

LEMMA BackwardFromFacts ==
  ASSUME input \in Inputs, NEW p \in Nat, p <= Len(input.src), p > 0
  PROVE  LET try == BackwardFrom(p)
         IN  /\ try.blk \in 0 .. LastBlock /\ try.off \in Nat \ {0}
             /\ try.blk * blksize \in Nat /\ try.blk * blksize + try.off = p
             /\ p < blksize => try.blk = 0
<1>. DEFINE n == blksize
            b == p \div n
            off == p % n
            try == BackwardFrom(p)
            m == b * n
<1>1. n \in Nat \ {0} /\ LastBlock \in Nat
  BY InputFacts, LastBlockFacts
<1>2. b \in 0 .. LastBlock /\ off \in Nat /\ m \in Nat /\ m + off = p
  BY PositionFacts
<1>3. p < n => b = 0
  <2>. SUFFICES ASSUME p < n PROVE b = 0
    OBVIOUS
  <2>1. 0 \in Nat /\ p < 0 * n + n
    BY <1>1
  <2>2. b \in 0 .. 0
    <3>. HIDE DEF n
    <3>. QED BY <1>1, <2>1, DivisionBelow
  <2>. QED BY <2>2
<1>4. try = IF off = 0 THEN [blk |-> b - 1, off |-> n] ELSE [blk |-> b, off |-> off]
  BY DEF BackwardFrom
<1>5. CASE off = 0
  <2>1. try.blk = b - 1 /\ try.off = n
    BY <1>4, <1>5
  <2>2. b # 0
    <3>1. 0 * n = 0
      BY <1>1
    <3>. HIDE DEF b, n, off
    <3>. QED BY <1>2, <1>5, <3>1
  <2>. HIDE DEF b, n, off, try
  <2>3. b - 1 \in Nat /\ b - 1 \in 0 .. LastBlock /\ (b - 1) + 1 = b /\ b \in Nat
    BY <1>1, <1>2, <2>2
  <2>4. (b - 1) * n \in Nat /\ ((b - 1) + 1) * n = (b - 1) * n + n
    BY <1>1, <2>3, Multiples
  <2>5. (b - 1) * n + n = p
    BY <1>2, <1>5, <2>3, <2>4
  <2>6. p < n => FALSE
    BY <1>3, <2>2
  <2>. QED BY <1>1, <2>1, <2>3, <2>4, <2>5, <2>6 DEF n, try
<1>6. CASE off # 0
  <2>1. try.blk = b /\ try.off = off
    BY <1>4, <1>6
  <2>. HIDE DEF b, off, try
  <2>. QED BY <1>2, <1>3, <1>6, <2>1 DEF try
<1>. QED BY <1>5, <1>6

LEMMA BackwardStep ==
  ASSUME FindInv, ExtendBackward
  PROVE  \/ /\ extent.back >= extent.maxback
            /\ match' = Forwards(match) /\ UNCHANGED <<at, extent, blocks>>
         \/ \E b \in 0 .. LastBlock :
              LET g == Getblk(b)
                  left == match.srcpos - extent.back
              IN  /\ b * blksize <= match.srcpos /\ b * blksize \in Nat
                  /\ match.srcpos < blksize => b = 0
                  /\ Use(g)
                  /\ \/ /\ g.ret # "ok" /\ ~ input.fifo /\ at' = "asks"
                        /\ UNCHANGED <<match, extent>>
                     \/ /\ g.ret # "ok" /\ input.fifo /\ UNCHANGED extent
                        /\ \/ at' = "extended" /\ UNCHANGED match
                           \/ match' = Forwards(match) /\ UNCHANGED at
                     \/ /\ g.ret = "ok" /\ UNCHANGED at
                        /\ \E n \in Nat :
                             /\ extent' = [extent EXCEPT !.back = extent.back + n]
                             /\ extent.back + n <= extent.maxback
                             /\ \A k \in 0 .. n - 1 :
                                  Src(left - k - 1) = Tgt(input_position - extent.back - k - 1)
                             /\ \/ match' = match
                                \/ /\ match' = Forwards(match)
                                   /\ Src(left - n - 1)
                                        # Tgt(input_position - extent.back - n - 1)
<1>. DEFINE left == match.srcpos - extent.back
            try == BackwardFrom(left)
            b == try.blk
            g == Getblk(b)
            p == input_position - extent.back
            rem == Lesser(try.off, extent.maxback - extent.back)
            a == g.source.curblkno * blksize + try.off
            n == Backward(input.src, a, p, rem)
<1>1. /\ at = "extend" /\ match.state = "MATCH_BACKWARD"
      /\ IF extent.back >= extent.maxback
         THEN match' = Forwards(match) /\ UNCHANGED <<at, extent, blocks>>
         ELSE /\ Use(g)
              /\ \/ Asks(g) /\ UNCHANGED <<match, extent>>
                 \/ /\ g.ret = "XD3_TOOFARBACK" /\ UNCHANGED extent
                    /\ IF extent.back = 0 THEN at' = "extended" /\ UNCHANGED match
                       ELSE match' = Forwards(match) /\ UNCHANGED at
                 \/ /\ g.ret = "ok" /\ UNCHANGED at
                    /\ extent' = [extent EXCEPT !.back = @ + n]
                    /\ match' = IF n < rem THEN Forwards(match) ELSE match
  BY DEF ExtendBackward
<1>2. /\ match.srcpos <= Len(input.src) /\ extent.back <= extent.maxback
      /\ extent.maxback <= input_position /\ extent.maxback <= match.srcpos
      /\ {input_position, Len(input.src), match.srcpos, extent.back, extent.maxback}
           \subseteq Nat
      /\ extent \in ExtentType
  BY <1>1, ExtendingLooks
<1>3. input \in Inputs /\ SourceOk(source)
  BY DEF FindInv, BufferInv, SourceInv
<1>4. CASE extent.back >= extent.maxback
  BY <1>1, <1>4
<1>5. CASE ~ (extent.back >= extent.maxback)
  <2>1. left \in Nat /\ left > 0 /\ left <= Len(input.src) /\ left <= match.srcpos
    BY <1>2, <1>5
  <2>. HIDE DEF left
  <2>2. /\ b \in 0 .. LastBlock /\ try.off \in Nat \ {0}
        /\ b * blksize \in Nat /\ b * blksize + try.off = left
        /\ left < blksize => b = 0
    BY <1>3, <2>1, BackwardFromFacts
  <2>3. blksize \in Nat
    BY <1>3, InputFacts
  <2>. HIDE DEF b
  <2>4. b * blksize <= match.srcpos /\ (match.srcpos < blksize => b = 0)
    <3>. DEFINE m == b * blksize
                o == try.off
                s == blksize
    <3>1. m \in Nat /\ o \in Nat /\ m + o = left /\ s \in Nat /\ (left < s => b = 0)
      BY <2>2, <2>3
    <3>. HIDE DEF m, o, s
    <3>2. m <= match.srcpos /\ (match.srcpos < s => b = 0)
      BY <1>2, <2>1, <3>1
    <3>. QED BY <3>2 DEF m, s
  <2>. HIDE DEF g, try
  <2>5. /\ g.ret = "ok" => g.source.curblkno = b
        /\ g.ret = "XD3_GETSRCBLK" => ~ input.fifo
        /\ g.ret = "XD3_TOOFARBACK" => input.fifo
    BY <1>3, <2>2, GetblkFacts DEF g
  <2>6. Use(g)
    BY <1>1, <1>5
  <2>7. CASE Asks(g) /\ UNCHANGED <<match, extent>>
    <3>1. g.ret # "ok" /\ ~ input.fifo /\ at' = "asks"
      BY <2>5, <2>7 DEF Asks
    <3>. QED BY <2>2, <2>4, <2>6, <2>7, <3>1 DEF g
  <2>8. CASE /\ g.ret = "XD3_TOOFARBACK" /\ UNCHANGED extent
             /\ IF extent.back = 0 THEN at' = "extended" /\ UNCHANGED match
                ELSE match' = Forwards(match) /\ UNCHANGED at
    <3>1. g.ret # "ok" /\ input.fifo
      BY <2>5, <2>8
    <3>. QED BY <2>2, <2>4, <2>6, <2>8, <3>1 DEF g
  <2>9. CASE /\ g.ret = "ok" /\ UNCHANGED at
             /\ extent' = [extent EXCEPT !.back = @ + n]
             /\ match' = IF n < rem THEN Forwards(match) ELSE match
    <3>1. a = left
      BY <2>2, <2>5, <2>9
    <3>2. rem \in Nat /\ rem <= extent.maxback - extent.back
      BY <1>2, <2>2 DEF Lesser
    <3>3. AgreesBack(input.src, left, p, rem, n)
          /\ (n # rem => input.src[left - n] # Tgt(p - n - 1))
      <4>. DEFINE f == Backward(input.src, left, p, rem)
      <4>1. n = f
        BY <3>1
      <4>. HIDE DEF n, rem
      <4>2. AgreesBack(input.src, left, p, rem, f)
            /\ (f # rem => input.src[left - f] # Tgt(p - f - 1))
        BY <3>2, BackwardAgrees, BackwardStops
      <4>. QED BY <4>1, <4>2
    <3>. HIDE DEF n, rem, p
    <3>4. n \in Nat /\ n <= rem /\ \A k \in 0 .. n - 1 : input.src[left - k] = Tgt(p - k - 1)
      BY <3>2, <3>3 DEF AgreesBack
    <3>5. extent' = [extent EXCEPT !.back = extent.back + n] /\ extent.back + n <= extent.maxback
      BY <1>2, <2>9, <3>2, <3>4
    <3>6. \A k \in Nat : Src(left - k - 1) = input.src[left - k]
      <4>. SUFFICES ASSUME NEW k \in Nat PROVE Src(left - k - 1) = input.src[left - k]
        OBVIOUS
      <4>1. left - k - 1 + 1 = left - k
        BY <2>1
      <4>. QED BY <4>1 DEF Src
    <3>7. \A k \in 0 .. n - 1 : Src(left - k - 1) = Tgt(p - k - 1)
      BY <3>4, <3>6
    <3>8. match' = match \/ (match' = Forwards(match) /\ Src(left - n - 1) # Tgt(p - n - 1))
      <4>1. CASE n < rem
        <5>1. n # rem
          BY <3>2, <3>4, <4>1
        <5>2. Src(left - n - 1) # Tgt(p - n - 1)
          BY <3>3, <3>4, <3>6, <5>1
        <5>. QED BY <2>9, <4>1, <5>2
      <4>2. CASE ~ (n < rem)
        BY <2>9, <4>2
      <4>. QED BY <4>1, <4>2
    <3>9. g.ret = "ok" /\ UNCHANGED at
      BY <2>9
    <3>. QED BY <2>2, <2>4, <2>6, <3>4, <3>5, <3>7, <3>8, <3>9 DEF g, p, left
  <2>. QED BY <1>1, <1>5, <2>7, <2>8, <2>9
<1>. QED BY <1>4, <1>5

LEMMA ForwardsFacts ==
  ASSUME match \in MatchStates
  PROVE  LET m == Forwards(match)
         IN  /\ m \in MatchStates /\ m.state = "MATCH_FORWARD"
             /\ m.srcpos = match.srcpos /\ m.last = match.last
BY DEF Forwards, MatchStates

LEMMA ControlExtendBackward ==
  ASSUME FindInv, ExtendBackward
  PROVE  BufferInv' /\ ControlInv'
<1>1. at = "extend" /\ UNCHANGED <<searchState, index, small>>
  BY DEF ExtendBackward
<1>2. /\ Looks /\ Extending /\ HasSource /\ match \in MatchStates /\ extent \in ExtentType
      /\ match.srcpos <= Len(input.src)
      /\ extent.caller = "string_match" => enc_state = "LOOP"
  BY <1>1, ExtendingLooks
<1>3. BufferInv'
  BY <1>1, SameBuffer DEF searchState, FindInv
<1>4. /\ match' \in MatchStates /\ match'.srcpos = match.srcpos
      /\ match'.state \in {"MATCH_BACKWARD", "MATCH_FORWARD"}
  <2>1. match' = match \/ match' = Forwards(match)
    BY BackwardStep
  <2>. QED BY <1>2, <2>1, ForwardsFacts DEF Extending
<1>5. extent' \in ExtentType /\ extent'.caller = extent.caller
  <2>1. extent' = extent \/ \E n \in Nat : extent' = [extent EXCEPT !.back = extent.back + n]
    BY BackwardStep
  <2>. QED BY <1>2, <2>1 DEF ExtentType
<1>6. at' \in {"extend", "extended", "asks"}
  BY <1>1, BackwardStep
<1>7. input' = input /\ enc_state' = enc_state
  BY <1>1 DEF searchState
<1>8. enc_state' \in {"ENC_SEARCH", "LOOP"}
  BY <1>2, <1>7 DEF Looks
<1>9. match'.srcpos <= Len(input.src) /\ (extent'.caller = "string_match" => enc_state' = "LOOP")
  BY <1>2, <1>4, <1>5, <1>7
<1>. HIDE DEF HasSource
<1>10. ControlInv'
  BY <1>2, <1>4, <1>5, <1>6, <1>7, <1>8, <1>9, ControlExtends
<1>. QED BY <1>3, <1>10

LEMMA ControlExtendForward ==
  ASSUME FindInv, ExtendForward
  PROVE  BufferInv' /\ ControlInv'
<1>1. at = "extend" /\ UNCHANGED <<searchState, match, index, small>>
  BY DEF ExtendForward
<1>2. /\ Looks /\ Extending /\ HasSource /\ match \in MatchStates /\ extent \in ExtentType
      /\ match.srcpos <= Len(input.src)
      /\ extent.caller = "string_match" => enc_state = "LOOP"
  BY <1>1, ExtendingLooks
<1>3. BufferInv'
  BY <1>1, SameBuffer DEF searchState, FindInv
<1>4. extent' \in ExtentType /\ extent'.caller = extent.caller
  <2>1. extent' = extent \/ \E n \in Nat : extent' = [extent EXCEPT !.fwd = extent.fwd + n]
    BY ForwardStep
  <2>. QED BY <1>2, <2>1 DEF ExtentType
<1>5. at' \in {"extend", "extended", "asks"}
  BY ForwardStep
<1>6. input' = input /\ enc_state' = enc_state /\ match' = match
  BY <1>1 DEF searchState
<1>7. enc_state' \in {"ENC_SEARCH", "LOOP"} /\ match'.state \in {"MATCH_BACKWARD", "MATCH_FORWARD"}
  BY <1>2, <1>6 DEF Looks, Extending
<1>8. match'.srcpos <= Len(input.src) /\ match' \in MatchStates
      /\ (extent'.caller = "string_match" => enc_state' = "LOOP")
  BY <1>2, <1>4, <1>6
<1>. HIDE DEF HasSource
<1>9. ControlInv'
  BY <1>2, <1>4, <1>5, <1>6, <1>7, <1>8, ControlExtends
<1>. QED BY <1>3, <1>9

\* A search that goes on, with no match.
LEMMA ControlOnward ==
  ASSUME Onward(iopt'), extent' \in ExtentType, match' \in MatchStates,
         match'.srcpos <= Len(input.src), input' = input,
         match'.state \notin {"MATCH_BACKWARD", "MATCH_FORWARD"},
         enc_state' = "LOOP" => match'.state # "MATCH_TARGET",
         at' \in {"restart", "top"}, at' = "restart" => enc_state' = "LOOP"
  PROVE  ControlInv'
<1>1. ~ Extending'
  BY DEF Extending
<1>2. enc_state' \in {"LOOP", "ENC_INSTR"}
  BY DEF Onward
<1>3. HasSource' <=> HasSource
  BY DEF HasSource
<1>. HIDE DEF HasSource
<1>. QED BY <1>1, <1>2, <1>3 DEF ControlInv

LEMMA SearchingFacts ==
  ASSUME NEW s \in Nat
  PROVE  /\ Searching(s) \in MatchStates /\ Searching(s).state = "MATCH_SEARCHING"
         /\ Searching(s).srcpos = 0 /\ Searching(s).last = s
BY DEF Searching, MatchStates

LEMMA ControlExtend ==
  ASSUME FindInv, Extend
  PROVE  /\ BufferInv' /\ ControlInv' /\ input_position' = input_position
         /\ enc_state' \in {"LOOP", "ENC_INSTR"}
         /\ enc_state' = "LOOP" => min_match' <= Greater(MIN_MATCH, min_match)
<1>1. /\ at = "extended" /\ match' = Searching(match.last)
      /\ extent' = [extent EXCEPT !.fwd = 0]
      /\ UNCHANGED <<input, total_in, avail_in, iopt, blocks>>
      /\ IF Reentered THEN StringMatch(input_position, iopt)
         ELSE at' = "small" /\ UNCHANGED <<enc_state, input_position, min_match, run, index, small>>
  BY DEF Extend
<1>2. /\ Looks /\ Extending /\ HasSource /\ match \in MatchStates /\ extent \in ExtentType
      /\ extent.caller = "string_match" => enc_state = "LOOP"
      /\ Len(input.src) \in Nat
  BY <1>1, ExtendingLooks
<1>3. /\ match' \in MatchStates /\ match'.state = "MATCH_SEARCHING" /\ match'.srcpos = 0
  BY <1>1, <1>2, SearchingFacts DEF MatchStates
<1>4. extent' \in ExtentType
  BY <1>1, <1>2 DEF ExtentType
<1>5. 0 <= Len(input.src) /\ BufferInv /\ ControlInv
  BY <1>2 DEF FindInv
<1>6. CASE Reentered
  <2>1. Restart(input_position, iopt) /\ Restarted
    BY <1>1, <1>6 DEF StringMatch
  <2>2. /\ BufferInv' /\ Onward(iopt') /\ input_position' = input_position
        /\ enc_state' = "LOOP" => min_match' <= Greater(MIN_MATCH, min_match)
    BY <1>1, <1>2, <1>5, <2>1, StartsAgain
  <2>3. at' \in {"restart", "top"} /\ (at' = "restart" => enc_state' = "LOOP")
    BY <2>1, AfterRestart
  <2>4. ControlInv'
    BY <1>1, <1>3, <1>4, <1>5, <2>2, <2>3, ControlOnward
  <2>5. enc_state' \in {"LOOP", "ENC_INSTR"}
    BY <2>2 DEF Onward
  <2>. QED BY <2>2, <2>4, <2>5
<1>7. CASE ~ Reentered
  <2>1. /\ at' = "small" /\ UNCHANGED <<enc_state, input_position, min_match, run, index, small>>
    BY <1>1, <1>7
  <2>2. extent.caller = "string_match"
    BY <1>2, <1>7 DEF Reentered, ExtentType
  <2>3. enc_state = "LOOP"
    BY <1>2, <2>2
  <2>4. BufferInv'
    BY <1>1, <1>5, <2>1, SameBuffer
  <2>5. ~ Extending'
    BY <1>3 DEF Extending
  <2>. HIDE DEF HasSource
  <2>6. ControlInv'
    BY <1>1, <1>3, <1>4, <1>5, <2>1, <2>3, <2>5 DEF ControlInv
  <2>7. min_match \in Nat /\ min_match <= Greater(MIN_MATCH, min_match)
    BY <1>2, <1>5, LooksFacts DEF Greater, MIN_MATCH
  <2>. QED BY <2>1, <2>3, <2>4, <2>6, <2>7
<1>. QED BY <1>6, <1>7

LEMMA AfterMatchFacts ==
  ASSUME input_position \in Nat, SourceMatch(Extension)
  PROVE  LET a == AfterMatch(Extension)
         IN  /\ a \in MatchStates
             /\ a.srcpos <= Len(input.src) \/ a.srcpos = 0
             /\ \/ /\ a.state = "MATCH_TARGET" /\ a.srcpos = match.srcpos + extent.fwd
                   /\ input_position + extent.fwd = avail_in
                \/ a.state = "MATCH_SEARCHING" /\ a.srcpos = 0
<1>1. /\ match.srcpos \in Nat /\ extent.fwd \in Nat
      /\ match.srcpos + extent.fwd <= Len(input.src)
  BY DEF SourceMatch, Extension
<1>2. CASE input_position + extent.fwd = avail_in
  <2>. DEFINE s == match.srcpos + extent.fwd
  <2>1. AfterMatch(Extension) = [state |-> "MATCH_TARGET", srcpos |-> s, last |-> match.srcpos]
    BY <1>2 DEF AfterMatch, Extension
  <2>2. s \in Nat /\ s <= Len(input.src)
    BY <1>1
  <2>. HIDE DEF s
  <2>3. /\ AfterMatch(Extension) \in MatchStates
        /\ AfterMatch(Extension).state = "MATCH_TARGET" /\ AfterMatch(Extension).srcpos = s
    BY <1>1, <2>1, <2>2 DEF MatchStates
  <2>. QED BY <1>2, <2>2, <2>3 DEF s
<1>3. CASE ~ (input_position + extent.fwd = avail_in)
  <2>1. AfterMatch(Extension) = Searching(match.srcpos)
    BY <1>3 DEF AfterMatch, Extension
  <2>. QED BY <1>1, <2>1, SearchingFacts
<1>. QED BY <1>2, <1>3

LEMMA TakeSourceFacts ==
  ASSUME FindInv, Unlimited, TakeSource
  PROVE  /\ MovesOn
         /\ match' = AfterMatch(Extension) /\ match' \in MatchStates
         /\ \/ /\ match'.state = "MATCH_TARGET" /\ match'.srcpos = match.srcpos + extent.fwd
               /\ enc_state' = "ENC_INSTR"
            \/ match'.state = "MATCH_SEARCHING" /\ match'.srcpos = 0
         /\ match'.srcpos <= Len(input.src)
         /\ AddsOnly(iopt'.used, iopt.used, CopyOf(Extension))
<1>1. at = "extended"
  BY DEF TakeSource
<1>2. /\ Looks /\ Extending /\ SourceMatch(Extension) /\ extent \in ExtentType
      /\ extent.caller = "string_match" => enc_state = "LOOP"
      /\ input_position \in Nat /\ Len(input.src) \in Nat
  BY <1>1, ExtendingLooks
<1>3. BufferInv
  BY DEF FindInv
<1>4. ~ Reentered => enc_state = "LOOP"
  BY <1>2 DEF Reentered, ExtentType
<1>5. /\ MovesOn /\ match' = AfterMatch(Extension)
      /\ input_position + extent.fwd = avail_in => enc_state' = "ENC_INSTR"
      /\ AddsOnly(iopt'.used, iopt.used, CopyOf(Extension))
  BY <1>2, <1>3, <1>4, SourceEntered
<1>6. 0 <= Len(input.src)
  BY <1>2
<1>7. /\ match' \in MatchStates
      /\ match'.srcpos <= Len(input.src) \/ match'.srcpos = 0
      /\ \/ /\ match'.state = "MATCH_TARGET" /\ match'.srcpos = match.srcpos + extent.fwd
            /\ input_position + extent.fwd = avail_in
         \/ match'.state = "MATCH_SEARCHING" /\ match'.srcpos = 0
  BY <1>2, <1>5, AfterMatchFacts
<1>. QED BY <1>5, <1>6, <1>7

LEMMA ControlTakeSource ==
  ASSUME FindInv, Unlimited, TakeSource
  PROVE  BufferInv' /\ ControlInv'
<1>1. /\ at = "extended" /\ UNCHANGED <<input, total_in, avail_in, blocks>>
      /\ extent' = [extent EXCEPT !.back = 0]
      /\ Restarted \/ \E n : Handled(n)
  BY DEF TakeSource
<1>2. extent' \in ExtentType
  BY <1>1, ExtendingLooks DEF ExtentType
<1>3. BufferInv' /\ Onward(iopt')
  BY TakeSourceFacts DEF MovesOn
<1>4. at' \in {"restart", "top"} /\ (at' = "restart" => enc_state' = "LOOP")
  BY <1>1, AfterRestart, AfterHandled
<1>5. /\ match' \in MatchStates /\ match'.srcpos <= Len(input.src)
      /\ match'.state \notin {"MATCH_BACKWARD", "MATCH_FORWARD"}
      /\ enc_state' = "LOOP" => match'.state # "MATCH_TARGET"
  BY TakeSourceFacts
<1>. QED BY <1>1, <1>2, <1>3, <1>4, <1>5, ControlOnward

\* A step leaves the window encoded so far, and the state of the search, sound.
LEMMA ControlStep ==
  ASSUME FindInv, Unlimited, [MatchNext]_allVars
  PROVE  BufferInv' /\ ControlInv'
<1>1. CASE Provide
  BY <1>1, ControlProvide
<1>2. CASE Enter
  BY <1>2, ControlEnter
<1>3. CASE TakeRun
  BY <1>3, ControlTakeRun
<1>4. CASE NoRun
  BY <1>4, ControlNoRun
<1>5. CASE MoveStart \/ IndexBlock \/ MoveEnd
  BY <1>5, ControlIndexing
<1>6. CASE LookUp
  BY <1>6, ControlLookUp
<1>7. CASE ExtendBackward
  BY <1>7, ControlExtendBackward
<1>8. CASE ExtendForward
  BY <1>8, ControlExtendForward
<1>9. CASE Extend
  BY <1>9, ControlExtend
<1>10. CASE TakeSource
  BY <1>10, ControlTakeSource
<1>11. CASE TrySmall
  BY <1>11, ControlTrySmall
<1>12. CASE MatchEnd \/ MatchNextWindow
  BY <1>12, ControlEnd
<1>13. CASE UNCHANGED allVars
  <2>1. UNCHANGED <<input, enc_state, total_in, avail_in, input_position, min_match, run,
                    iopt>>
    BY <1>13 DEF allVars, vars
  <2>2. BufferInv'
    BY <2>1, SameBuffer DEF FindInv
  <2>3. /\ match' = match /\ extent' = extent /\ enc_state' = enc_state /\ at' = at
        /\ input' = input
    BY <1>13 DEF allVars, vars
  <2>4. (Extending' <=> Extending) /\ (HasSource' <=> HasSource)
    BY <2>3 DEF Extending, HasSource
  <2>. HIDE DEF HasSource
  <2>5. ControlInv'
    BY <2>3, <2>4 DEF ControlInv, FindInv
  <2>. QED BY <2>2, <2>5
<1>. QED BY <1>1, <1>2, <1>3, <1>4, <1>5, <1>6, <1>7, <1>8, <1>9, <1>10, <1>11, <1>12,
            <1>13 DEF MatchNext

-----------------------------------------------------------------------------
(* What is known of the source.                                            *)

LEMMA SameInput ==
  ASSUME [MatchNext]_allVars
  PROVE  input' = input
<1>1. CASE Provide
  BY <1>1 DEF Provide, vars
<1>2. CASE Enter \/ TakeRun
  BY <1>2 DEF Enter, TakeRun, RunFound
<1>3. CASE NoRun \/ MoveStart \/ IndexBlock \/ MoveEnd
  BY <1>3 DEF NoRun, MoveStart, IndexBlock, MoveEnd, vars
<1>4. CASE LookUp
  BY <1>4 DEF LookUp
<1>5. CASE ExtendBackward \/ ExtendForward
  BY <1>5 DEF ExtendBackward, ExtendForward, searchState
<1>6. CASE Extend \/ TakeSource \/ TrySmall
  BY <1>6 DEF Extend, TakeSource, TrySmall
<1>7. CASE MatchEnd \/ MatchNextWindow
  BY <1>7 DEF MatchEnd, MatchNextWindow, Instr, NextWindow
<1>8. CASE UNCHANGED allVars
  BY <1>8 DEF allVars, vars
<1>. QED BY <1>1, <1>2, <1>3, <1>4, <1>5, <1>6, <1>7, <1>8 DEF MatchNext

LEMMA SameBlocks ==
  ASSUME input' = input
  PROVE  /\ blksize' = blksize /\ lru_size' = lru_size /\ (Small' <=> Small)
         /\ LastBlock' = LastBlock /\ SrcEnd' = SrcEnd
         /\ SourceOk(source') => SourceOk(source)'
         /\ SmallOk(source', index'.srcwin_cksum_pos)
              => SmallOk(source, index.srcwin_cksum_pos)'
         /\ (Free' <=> Free) /\ Slack' = Slack
         /\ (source_eof(source))' = source_eof(source')
<1>1. blksize' = blksize /\ lru_size' = lru_size
  BY DEF blksize, lru_size
<1>2. Small' <=> Small
  BY DEF Small, blksize
<1>3. \A b : BlockLen(b)' = BlockLen(b)
  BY DEF BlockLen, blksize, Greater, Lesser
<1>4. LastBlock' = LastBlock
  BY <1>1, <1>2 DEF LastBlock
<1>5. SrcEnd' = SrcEnd
  BY <1>1, <1>3, <1>4 DEF SrcEnd, BlockLen, Greater, Lesser, blksize
<1>6. SourceOk(source') => SourceOk(source)'
  BY <1>4 DEF SourceOk, SourceType, BlockLen, blksize, Greater, Lesser
<1>7. SmallOk(source', index'.srcwin_cksum_pos) => SmallOk(source, index.srcwin_cksum_pos)'
  BY <1>1, <1>2 DEF SmallOk
<1>8. (Free' <=> Free) /\ Slack' = Slack
  BY DEF Free, Slack, Greater
<1>9. (source_eof(source))' = source_eof(source')
  BY <1>1 DEF source_eof
<1>. QED BY <1>1, <1>2, <1>4, <1>5, <1>6, <1>7, <1>8, <1>9

LEMMA SmallOkMore ==
  ASSUME NEW s, NEW n \in Nat, NEW m \in Nat, n <= m, input \in Inputs, SmallOk(s, n)
  PROVE  SmallOk(s, m)
<1>1. blksize \in Nat
  BY InputFacts
<1>. QED BY <1>1 DEF SmallOk

LEMMA SourceProvide ==
  ASSUME FindInv, Provide
  PROVE  SourceInv'
<1>. DEFINE b == source.getblkno
            s == Current(b)
<1>1. /\ source' = s /\ index' = index /\ input' = input
  BY DEF Provide, vars, matcher
<1>2. SourceOk(source) /\ SmallOk(source, index.srcwin_cksum_pos) /\ input \in Inputs
  BY DEF FindInv, SourceInv, BufferInv
<1>3. b \in 0 .. LastBlock /\ source \in SourceType
  BY <1>2 DEF SourceOk
<1>4. b \in Nat /\ BlockLen(b) \in Nat
  <2>1. BlockLen(b) \in 0 .. blksize /\ blksize \in Nat
    BY <1>2, <1>3, BlockLens, InputFacts
  <2>. QED BY <1>3, <2>1 DEF SourceType
<1>5. /\ s \in SourceType /\ s.curblkno = b /\ s.onblk = BlockLen(b) /\ s.getblkno = b
      /\ s.max_blkno = source.max_blkno /\ s.onlastblk = source.onlastblk
      /\ s.eof_known = source.eof_known
  <2>. DEFINE len == BlockLen(b)
              half == [source EXCEPT !.curblkno = b]
  <2>1. len \in Nat /\ b \in Int
    BY <1>4
  <2>2. s = [half EXCEPT !.onblk = len]
    BY <1>3 DEF Current, SourceType
  <2>. HIDE DEF len
  <2>3. /\ half \in SourceType /\ half.curblkno = b /\ half.getblkno = b
        /\ half.max_blkno = source.max_blkno /\ half.onlastblk = source.onlastblk
        /\ half.eof_known = source.eof_known
    BY <1>3, <2>1 DEF SourceType
  <2>. HIDE DEF half, s
  <2>4. /\ s \in SourceType /\ s.curblkno = b /\ s.onblk = len /\ s.getblkno = b
        /\ s.max_blkno = source.max_blkno /\ s.onlastblk = source.onlastblk
        /\ s.eof_known = source.eof_known
    BY <2>1, <2>2, <2>3 DEF SourceType
  <2>. QED BY <2>4 DEF len
<1>. HIDE DEF s
<1>6. SourceOk(s)
  BY <1>2, <1>3, <1>5 DEF SourceOk
<1>7. SmallOk(s, index.srcwin_cksum_pos)
  BY <1>2, <1>5 DEF SmallOk
<1>. QED BY <1>1, <1>6, <1>7, SameBlocks DEF SourceInv

\* Block b is asked for, which is block 1 of a short source only after block 0.
LEMMA SourceUsed ==
  ASSUME FindInv, NEW b \in 0 .. LastBlock, Use(Getblk(b)), input' = input,
         Small /\ b = 1 => index.srcwin_cksum_pos >= blksize,
         index'.srcwin_cksum_pos \in Nat, index.srcwin_cksum_pos <= index'.srcwin_cksum_pos
  PROVE  SourceInv'
<1>. DEFINE n == index.srcwin_cksum_pos
            g == Getblk(b)
<1>1. SourceOk(source) /\ SmallOk(source, n) /\ input \in Inputs
  BY DEF FindInv, SourceInv, BufferInv
<1>2. n \in Nat
  BY DEF FindInv, IndexInv, IndexWith
<1>. HIDE DEF n
<1>3. SourceOk(g.source) /\ SmallOk(g.source, n)
  <2>1. Small /\ b = 1 => n >= blksize
    BY DEF n
  <2>. QED BY <1>1, <1>2, <2>1, GetblkFacts
<1>. HIDE DEF g
<1>4. source' = g.source
  BY DEF Use, g
<1>5. SmallOk(source', index'.srcwin_cksum_pos)
  <2>. DEFINE m == index'.srcwin_cksum_pos
  <2>1. m \in Nat /\ n <= m
    BY DEF n
  <2>. HIDE DEF m
  <2>2. SmallOk(g.source, m)
    BY <1>1, <1>2, <1>3, <2>1, SmallOkMore
  <2>. QED BY <1>4, <2>2 DEF m
<1>6. SourceOk(source')
  BY <1>3, <1>4
<1>. QED BY <1>5, <1>6, SameBlocks DEF SourceInv

LEMMA SourceSame ==
  ASSUME FindInv, source' = source, input' = input,
         index'.srcwin_cksum_pos \in Nat, index.srcwin_cksum_pos <= index'.srcwin_cksum_pos
  PROVE  SourceInv'
<1>. DEFINE n == index.srcwin_cksum_pos
            m == index'.srcwin_cksum_pos
<1>1. SourceOk(source) /\ SmallOk(source, n) /\ input \in Inputs
  BY DEF FindInv, SourceInv, BufferInv
<1>2. n \in Nat /\ m \in Nat /\ n <= m
  BY DEF FindInv, IndexInv, IndexWith
<1>. HIDE DEF n, m
<1>3. SmallOk(source, m)
  BY <1>1, <1>2, SmallOkMore
<1>4. SourceOk(source') /\ SmallOk(source', m)
  BY <1>1, <1>3
<1>. QED BY <1>4, SameBlocks DEF SourceInv, m

-----------------------------------------------------------------------------
(* The large table.                                                        *)

LEMMA IndexPrimed ==
  ASSUME input' = input, index' \in IndexWith({index'.large_table}),
         index'.maxsrcaddr <= Len(input.src),
         TableTrue(index'.large_table, index'.srcwin_cksum_pos),
         index'.srcwin_cksum_pos <= SrcEnd \/ (at' = "indexing" /\ source'.eof_known),
         at' = "indexing" => index'.maxsrcaddr <= index'.srcwin_cksum_pos
  PROVE  IndexInv'
<1>1. SrcEnd' = SrcEnd
  BY SameBlocks
<1>2. TableTrue(index.large_table, index.srcwin_cksum_pos)'
  BY DEF TableTrue, Bytes
<1>3. (index \in IndexWith({index.large_table}))'
  BY DEF IndexWith
<1>. QED BY <1>1, <1>2, <1>3 DEF IndexInv

LEMMA TableMore ==
  ASSUME NEW t, NEW n \in Nat, NEW m \in Nat, n <= m, TableTrue(t, n)
  PROVE  TableTrue(t, m)
BY DEF TableTrue

LEMMA IndexFacts ==
  ASSUME FindInv
  PROVE  /\ index \in IndexWith({index.large_table})
         /\ {index.srcwin_cksum_pos, index.maxsrcaddr, SrcEnd, Len(input.src), total_in,
             input_position, input.max_winsize} \subseteq Nat
         /\ index.target \in Int /\ index.next_move_point \in Int
         /\ index.then \in {"top", "large"} /\ blksize \in Nat \ {0}
         /\ index.maxsrcaddr <= Len(input.src) /\ Len(input.src) <= SrcEnd
         /\ TableTrue(index.large_table, index.srcwin_cksum_pos)
         /\ input \in Inputs /\ SourceOk(source)
         /\ source.eof_known \in BOOLEAN
         /\ SmallOk(source, index.srcwin_cksum_pos)
<1>1. index \in IndexWith({index.large_table}) /\ input \in Inputs /\ SourceOk(source)
      /\ SmallOk(source, index.srcwin_cksum_pos) /\ total_in \in Nat
      /\ index.maxsrcaddr <= Len(input.src) /\ input_position \in Nat
      /\ TableTrue(index.large_table, index.srcwin_cksum_pos)
  BY DEF FindInv, IndexInv, SourceInv, BufferInv
<1>2. SrcEnd \in Nat /\ Len(input.src) <= SrcEnd
  BY <1>1, LastBlockFacts
<1>3. /\ Len(input.src) \in Nat /\ blksize \in Nat \ {0} /\ lru_size \in Nat
      /\ input.max_winsize = lru_size * blksize
  BY <1>1, InputFacts
<1>4. input.max_winsize \in Nat
  <2>. DEFINE n == blksize
  <2>. HIDE DEF n
  <2>1. lru_size * n \in Nat
    BY <1>3, Multiples DEF n
  <2>. QED BY <1>3, <2>1 DEF n
<1>5. source.eof_known \in BOOLEAN
  BY <1>1 DEF SourceOk, SourceType
<1>. QED BY <1>1, <1>2, <1>3, <1>4, <1>5 DEF IndexWith

LEMMA WindowEndInt ==
  ASSUME FindInv
  PROVE  WindowEnd \in Int
<1>. DEFINE w == input.max_winsize
            p == total_in + input_position
            n == blksize
            ahead == p + w \div 2 + 2 * n
<1>1. w \in Nat /\ p \in Nat /\ n \in Nat \ {0}
  BY IndexFacts
<1>2. WindowEnd = IF p < w \div 2 THEN w ELSE ahead - (ahead % n)
  BY DEF WindowEnd, absolute_input_pos
<1>. HIDE DEF w, p, n
<1>3. ahead \in Int
  BY <1>1
<1>. HIDE DEF ahead
<1>4. ahead % n \in Int
  BY <1>1, <1>3
<1>. QED BY <1>1, <1>2, <1>3, <1>4

LEMMA MoveStartKeeps ==
  ASSUME FindInv, MoveStart
  PROVE  /\ SourceInv' /\ IndexInv'
         /\ index'.srcwin_cksum_pos \in {index.srcwin_cksum_pos, IndexFrom}
         /\ index'.maxsrcaddr = index.maxsrcaddr
<1>1. /\ at \in {"restart", "move"}
      /\ \/ index' = [index EXCEPT !.next_move_point = Never] /\ at' = Then
         \/ /\ index' = [index EXCEPT !.srcwin_cksum_pos = IndexFrom, !.then = Then,
                                      !.target = Greater(WindowEnd, IndexFrom)]
            /\ at' = "indexing"
      /\ source' = source /\ input' = input
  BY DEF MoveStart, vars, blocks
<1>2. /\ index \in IndexWith({index.large_table})
      /\ {index.srcwin_cksum_pos, index.maxsrcaddr, SrcEnd, Len(input.src)} \subseteq Nat
      /\ index.maxsrcaddr <= Len(input.src) /\ Len(input.src) <= SrcEnd
      /\ TableTrue(index.large_table, index.srcwin_cksum_pos)
  BY IndexFacts
<1>3. index.srcwin_cksum_pos <= SrcEnd
  BY <1>1 DEF FindInv, IndexInv
<1>4. Then \in {"top", "large"}
  BY DEF Then
<1>5. CASE index' = [index EXCEPT !.next_move_point = Never] /\ at' = Then
  <2>1. Never \in Int
    BY DEF Never
  <2>2. /\ index' \in IndexWith({index.large_table}) /\ index'.large_table = index.large_table
        /\ index'.srcwin_cksum_pos = index.srcwin_cksum_pos
        /\ index'.maxsrcaddr = index.maxsrcaddr
    BY <1>2, <1>5, <2>1 DEF IndexWith
  <2>3. IndexInv'
    BY <1>1, <1>2, <1>3, <1>4, <1>5, <2>2, IndexPrimed
  <2>4. index'.srcwin_cksum_pos \in Nat /\ index.srcwin_cksum_pos <= index'.srcwin_cksum_pos
    BY <1>2, <2>2
  <2>5. SourceInv'
    BY <1>1, <2>4, SourceSame
  <2>. QED BY <2>2, <2>3, <2>5
<1>6. CASE /\ index' = [index EXCEPT !.srcwin_cksum_pos = IndexFrom, !.then = Then,
                                     !.target = Greater(WindowEnd, IndexFrom)]
           /\ at' = "indexing"
  <2>. DEFINE from == IndexFrom
              end == Greater(WindowEnd, from)
              then == Then
              t == index.large_table
  <2>1. /\ from \in Nat /\ index.srcwin_cksum_pos <= from /\ index.maxsrcaddr <= from
        /\ from <= SrcEnd
    BY <1>2, <1>3 DEF IndexFrom, Greater
  <2>. HIDE DEF from
  <2>2. end \in Int
    BY <2>1, WindowEndInt DEF Greater
  <2>3. then \in {"top", "large"}
    BY <1>4
  <2>4. index' = [index EXCEPT !.srcwin_cksum_pos = from, !.then = then, !.target = end]
    BY <1>6 DEF from
  <2>. HIDE DEF then, end, t
  <2>5. index \in IndexWith({t}) /\ TableTrue(t, index.srcwin_cksum_pos)
    BY <1>2 DEF t
  <2>6. /\ index' \in IndexWith({t}) /\ index'.large_table = t
        /\ index'.srcwin_cksum_pos = from /\ index'.maxsrcaddr = index.maxsrcaddr
    BY <2>1, <2>2, <2>3, <2>4, <2>5 DEF IndexWith
  <2>7. TableTrue(t, from)
    BY <1>2, <2>1, <2>5, TableMore
  <2>8. IndexInv'
    BY <1>1, <1>2, <2>1, <2>6, <2>7, IndexPrimed
  <2>9. SourceInv'
    BY <1>1, <2>1, <2>6, SourceSame
  <2>. QED BY <2>6, <2>8, <2>9 DEF from
<1>. QED BY <1>1, <1>5, <1>6

LEMMA MoveEndKeeps ==
  ASSUME FindInv, MoveEnd
  PROVE  /\ SourceInv' /\ IndexInv'
         /\ index'.srcwin_cksum_pos \in {index.srcwin_cksum_pos, SrcEnd}
         /\ index'.maxsrcaddr = index.maxsrcaddr
<1>. DEFINE size == source_eof(source)
            next == input_position + blksize
                      - ((index.srcwin_cksum_pos - index.target) % blksize)
            t == index.large_table
<1>1. /\ at = "indexing" /\ at' = index.then /\ source' = source /\ input' = input
      /\ \/ /\ source.eof_known /\ index.srcwin_cksum_pos >= size
            /\ index' = [index EXCEPT !.srcwin_cksum_pos = size, !.next_move_point = Never]
         \/ /\ ~ (source.eof_known /\ index.srcwin_cksum_pos >= size)
            /\ index' = [index EXCEPT !.next_move_point = next]
  BY DEF MoveEnd, vars, blocks, EndOfIndex
<1>2. /\ index \in IndexWith({t})
      /\ {index.srcwin_cksum_pos, index.maxsrcaddr, SrcEnd, Len(input.src), input_position}
           \subseteq Nat
      /\ index.target \in Int /\ index.then \in {"top", "large"} /\ blksize \in Nat \ {0}
      /\ index.maxsrcaddr <= Len(input.src) /\ Len(input.src) <= SrcEnd
      /\ TableTrue(t, index.srcwin_cksum_pos)
      /\ input \in Inputs /\ SourceOk(source) /\ SmallOk(source, index.srcwin_cksum_pos)
  BY IndexFacts
<1>3. source.eof_known => size = SrcEnd
  BY <1>2, SourceEofFacts
<1>. HIDE DEF t, size, next
<1>4. CASE /\ source.eof_known /\ index.srcwin_cksum_pos >= size
           /\ index' = [index EXCEPT !.srcwin_cksum_pos = size, !.next_move_point = Never]
  <2>1. size = SrcEnd /\ size \in Nat /\ Never \in Int
    BY <1>2, <1>3, <1>4 DEF Never
  <2>2. /\ index' \in IndexWith({t}) /\ index'.large_table = t
        /\ index'.srcwin_cksum_pos = size /\ index'.maxsrcaddr = index.maxsrcaddr
    BY <1>2, <1>4, <2>1 DEF IndexWith
  <2>3. TableTrue(t, size)
    <3>. SUFFICES ASSUME NEW h \in DOMAIN t PROVE t[h] < size
      BY <1>2 DEF TableTrue
    <3>1. t[h] \in Nat /\ t[h] + LargeLook <= Len(input.src)
      BY <1>2 DEF TableTrue
    <3>2. LargeLook \in Nat /\ LargeLook >= 1
      BY IoptAssumption DEF MIN_MATCH
    <3>. QED BY <1>2, <2>1, <3>1, <3>2
  <2>4. IndexInv'
    BY <1>1, <1>2, <2>1, <2>2, <2>3, IndexPrimed
  <2>5. SmallOk(source', size)
    <3>1. Small => SrcEnd = blksize
      BY <1>2, LastBlockFacts
    <3>. QED BY <1>1, <1>2, <2>1, <3>1 DEF SmallOk
  <2>6. SourceInv'
    <3>1. SourceOk(source') /\ SmallOk(source', index'.srcwin_cksum_pos)
      BY <1>1, <1>2, <2>2, <2>5
    <3>. QED BY <1>1, <3>1, SameBlocks DEF SourceInv
  <2>. QED BY <2>1, <2>2, <2>4, <2>6
<1>5. CASE /\ ~ (source.eof_known /\ index.srcwin_cksum_pos >= size)
           /\ index' = [index EXCEPT !.next_move_point = next]
  <2>1. next \in Int
    <3>. DEFINE n == blksize
                d == index.srcwin_cksum_pos - index.target
    <3>1. d \in Int /\ n \in Nat \ {0}
      BY <1>2
    <3>. HIDE DEF n, d
    <3>2. d % n \in Int
      BY <3>1
    <3>3. next = input_position + n - (d % n)
      BY DEF next, n, d
    <3>. QED BY <1>2, <3>1, <3>2, <3>3
  <2>2. /\ index' \in IndexWith({t}) /\ index'.large_table = t
        /\ index'.srcwin_cksum_pos = index.srcwin_cksum_pos
        /\ index'.maxsrcaddr = index.maxsrcaddr
    BY <1>2, <1>5, <2>1 DEF IndexWith
  <2>3. index.srcwin_cksum_pos <= SrcEnd
    <3>1. CASE source.eof_known
      BY <1>2, <1>3, <1>5, <3>1
    <3>2. CASE ~ source.eof_known
      BY <3>2 DEF FindInv, IndexInv
    <3>. QED BY <3>1, <3>2
  <2>4. at' # "indexing"
    BY <1>1, <1>2
  <2>5. IndexInv'
    BY <1>1, <1>2, <2>2, <2>3, <2>4, IndexPrimed
  <2>6. index'.srcwin_cksum_pos \in Nat /\ index.srcwin_cksum_pos <= index'.srcwin_cksum_pos
    BY <1>2, <2>2
  <2>7. SourceInv'
    BY <1>1, <2>6, SourceSame
  <2>. QED BY <2>2, <2>5, <2>7
<1>. QED BY <1>1, <1>4, <1>5

\* A function defined by recursion, the step of which depends on the turn.
Iterates(f, b, F, n) == f[0] = b /\ \A k \in 1 .. n : f[k] = F[k, f[k - 1]]

LEMMA Iterated ==
  ASSUME NEW T, NEW b \in T, NEW n \in Nat, NEW F \in [(1 .. n) \X T -> T]
  PROVE  \E g \in [0 .. n -> T] : Iterates(g, b, F, n)
<1>. DEFINE Is(f, m) == Iterates(f, b, F, m)
            Has(m) == \E f \in [0 .. m -> T] : Is(f, m)
            S == {m \in Nat : m <= n => Has(m)}
<1>1. 0 \in S
  <2>. DEFINE f == [k \in 0 .. 0 |-> b]
  <2>1. f \in [0 .. 0 -> T] /\ f[0] = b
    OBVIOUS
  <2>2. Is(f, 0)
    BY <2>1 DEF Iterates
  <2>3. Has(0)
    BY <2>1, <2>2
  <2>. QED BY <2>3
<1>2. ASSUME NEW m \in Nat, m \in S PROVE m + 1 \in S
  <2>. SUFFICES ASSUME m + 1 <= n PROVE Has(m + 1)
    <3>. HIDE DEF Has
    <3>. QED OBVIOUS
  <2>1. Has(m)
    <3>. HIDE DEF Has
    <3>. QED BY <1>2
  <2>2. PICK f \in [0 .. m -> T] : Is(f, m)
    BY <2>1
  <2>3. f[0] = b /\ \A k \in 1 .. m : f[k] = F[k, f[k - 1]]
    BY <2>2 DEF Iterates
  <2>. DEFINE v == F[m + 1, f[m]]
              g == [k \in 0 .. m + 1 |-> IF k = m + 1 THEN v ELSE f[k]]
  <2>4. v \in T
    <3>1. m + 1 \in 1 .. n /\ f[m] \in T
      OBVIOUS
    <3>. QED BY <3>1
  <2>. HIDE DEF v, Is, Has
  <2>5. g \in [0 .. m + 1 -> T]
    BY <2>4
  <2>6. (\A k \in 0 .. m : g[k] = f[k]) /\ g[m + 1] = v
    OBVIOUS
  <2>. HIDE DEF g
  <2>7. g[0] = b
    <3>1. 0 \in 0 .. m
      OBVIOUS
    <3>. QED BY <2>3, <2>6, <3>1
  <2>8. ASSUME NEW k \in 1 .. m + 1 PROVE g[k] = F[k, g[k - 1]]
    <3>1. CASE k = m + 1
      <4>1. k - 1 = m /\ m \in 0 .. m
        BY <3>1
      <4>. QED BY <3>1, <4>1, <2>6 DEF v
    <3>2. CASE k # m + 1
      <4>1. k \in 1 .. m /\ k \in 0 .. m /\ k - 1 \in 0 .. m
        BY <3>2
      <4>. QED BY <4>1, <2>3, <2>6
    <3>. QED BY <3>1, <3>2
  <2>9. Is(g, m + 1)
    BY <2>7, <2>8 DEF Is, Iterates
  <2>. QED BY <2>5, <2>9 DEF Has
<1>. HIDE DEF S, Has
<1>3. n \in S
  BY <1>1, <1>2, NatSets
<1>4. Has(n)
  BY <1>3 DEF S
<1>. QED BY <1>4 DEF Has

\* One position is noted.
LEMMA TableWith ==
  ASSUME NEW t, NEW N \in Nat, TableTrue(t, N),
         NEW p \in Nat, p + LargeLook <= Len(input.src), p < N,
         NEW h, h = LargeHash(Bytes(input.src, p, LargeLook))
  PROVE  TableTrue(Put(t, h, p), N)
<1>. DEFINE r == Put(t, h, p)
<1>1. DOMAIN r = DOMAIN t \cup {h} /\ \A x \in DOMAIN r : r[x] = IF x = h THEN p ELSE t[x]
  BY DEF Put
<1>. HIDE DEF r
<1>2. ASSUME NEW x \in DOMAIN r
      PROVE  /\ r[x] \in Nat /\ r[x] + LargeLook <= Len(input.src) /\ r[x] < N
             /\ LargeHash(Bytes(input.src, r[x], LargeLook)) = x
  <2>1. CASE x = h
    BY <1>1, <2>1
  <2>2. CASE x # h
    BY <1>1, <2>2 DEF TableTrue
  <2>. QED BY <2>1, <2>2
<1>3. TableTrue(r, N)
  BY <1>2 DEF TableTrue
<1>. QED BY <1>3 DEF r

LEMMA InsertFacts ==
  ASSUME input \in Inputs, NEW t, NEW N \in Nat, TableTrue(t, N), NEW s, NEW b \in Nat,
         NEW bytes \in Nat, bytes_on_srcblk(s, b) = bytes, bytes >= LargeLook,
         NEW m \in Nat, m = b * blksize, m + bytes <= Len(input.src), m + bytes <= N,
         NEW oldpos \in Nat
  PROVE  TableTrue(Insert(t, s, b, oldpos), N)
<1>. DEFINE last == bytes - LargeLook
            n == IF last < oldpos THEN 1 ELSE 1 + (last - oldpos) \div LargeStep
            P(k) == m + last - (k - 1) * LargeStep
            H(p) == LargeHash(Bytes(input.src, p, LargeLook))
            U == DOMAIN t \cup {H(p) : p \in Nat}
            T == {t} \cup {f \in UNION {[D -> Nat] : D \in SUBSET U} : TableTrue(f, N)}
            F == [q \in (1 .. n) \X T |-> Put(q[2], H(P(q[1])), P(q[1]))]
            Is(g) == g = [k \in 0 .. n |-> IF k = 0 THEN t ELSE Put(g[k - 1], H(P(k)), P(k))]
            g == CHOOSE f : Is(f)
<1>1. LargeLook \in Nat /\ LargeLook >= 1 /\ LargeStep \in Nat \ {0} /\ Len(input.src) \in Nat
  BY IoptAssumption, MatchAssumption, InputFacts DEF MIN_MATCH
<1>2. last \in Nat
  BY <1>1
<1>3. n \in Nat /\ \A k \in 1 .. n : (k - 1) * LargeStep \in Nat /\ (k - 1) * LargeStep <= last
  <2>1. CASE last < oldpos
    <3>1. n = 1 /\ 0 * LargeStep = 0
      BY <1>1, <2>1
    <3>2. \A k \in 1 .. n : k - 1 = 0
      BY <3>1
    <3>. HIDE DEF n, last
    <3>. QED BY <1>2, <3>1, <3>2
  <2>2. CASE ~ (last < oldpos)
    <3>. DEFINE d == last - oldpos
                q == d \div LargeStep
    <3>1. d \in Nat /\ d <= last
      <4>. HIDE DEF last
      <4>. QED BY <1>2, <2>2
    <3>2. q \in Nat /\ q * LargeStep <= d
      <4>. HIDE DEF d
      <4>. DEFINE e == q * LargeStep
                  left == d % LargeStep
      <4>1. q \in Nat /\ left \in 0 .. LargeStep - 1 /\ d = e + left
        BY <1>1, <3>1, Division
      <4>2. e \in Nat
        <5>. HIDE DEF q
        <5>. QED BY <1>1, <4>1, Multiples
      <4>. HIDE DEF q, e, left
      <4>3. e <= d
        BY <1>1, <3>1, <4>1, <4>2
      <4>. QED BY <4>1, <4>3 DEF e
    <3>3. n = 1 + q
      BY <2>2
    <3>. HIDE DEF q, d, n, last
    <3>4. ASSUME NEW k \in 1 .. n
          PROVE  (k - 1) * LargeStep \in Nat /\ (k - 1) * LargeStep <= last
      <4>1. k - 1 \in Nat /\ k - 1 <= q
        BY <3>2, <3>3
      <4>2. (k - 1) * LargeStep <= q * LargeStep /\ (k - 1) * LargeStep \in Nat
        BY <1>1, <3>2, <4>1, Multiples
      <4>3. q * LargeStep \in Nat
        BY <1>1, <3>2, Multiples
      <4>. QED BY <1>2, <3>1, <3>2, <4>2, <4>3
    <3>5. n \in Nat
      BY <3>2, <3>3
    <3>. QED BY <3>4, <3>5
  <2>. QED BY <2>1, <2>2
<1>4. Insert(t, s, b, oldpos) = g[n]
  <2>1. bytes_on_srcblk(s, b) - LargeLook = last
    OBVIOUS
  <2>2. b * blksize = m
    OBVIOUS
  <2>. QED BY <2>1, <2>2 DEF Insert
<1>. HIDE DEF n
<1>5. ASSUME NEW k \in 1 .. n
      PROVE  P(k) \in Nat /\ P(k) + LargeLook <= Len(input.src) /\ P(k) < N
  <2>. DEFINE d == (k - 1) * LargeStep
  <2>1. d \in Nat /\ d <= last
    BY <1>3
  <2>. HIDE DEF d
  <2>2. /\ m + last - d \in Nat /\ m + last - d + LargeLook <= Len(input.src)
        /\ m + last - d < N
    BY <1>1, <1>2, <2>1
  <2>. QED BY <2>2 DEF d
<1>. HIDE DEF last, P
<1>6. ASSUME NEW f \in T, NEW k \in 1 .. n PROVE Put(f, H(P(k)), P(k)) \in T
  <2>. DEFINE p == P(k)
              h == H(p)
              r == Put(f, h, p)
  <2>1. p \in Nat /\ p + LargeLook <= Len(input.src) /\ p < N
    BY <1>5
  <2>2. TableTrue(f, N) /\ DOMAIN f \subseteq U
    <3>1. CASE f = t
      BY <3>1
    <3>2. CASE f # t
      <4>1. PICK D \in SUBSET U : f \in [D -> Nat] /\ TableTrue(f, N)
        BY <3>2
      <4>. QED BY <4>1
    <3>. QED BY <3>1, <3>2
  <2>3. \A x \in DOMAIN f : f[x] \in Nat
    BY <2>2 DEF TableTrue
  <2>4. h \in U
    BY <2>1
  <2>. HIDE DEF p
  <2>5a. TableTrue(r, N)
    <3>1. h = LargeHash(Bytes(input.src, p, LargeLook))
      OBVIOUS
    <3>. HIDE DEF h
    <3>. QED BY <2>1, <2>2, <3>1, TableWith
  <2>5. /\ TableTrue(r, N)
        /\ DOMAIN r = {h} \cup DOMAIN f
        /\ \A x \in {h} \cup DOMAIN f : r[x] = p \/ (x \in DOMAIN f /\ r[x] = f[x])
        /\ r = [x \in {h} \cup DOMAIN f |-> r[x]]
    <3>. HIDE DEF h
    <3>. QED BY <2>5a DEF Put
  <2>. HIDE DEF r, h, U
  <2>6. DOMAIN r \in SUBSET U
    BY <2>2, <2>4, <2>5
  <2>7. r \in [DOMAIN r -> Nat]
    BY <2>1, <2>3, <2>5
  <2>8. r \in T
    BY <2>5, <2>6, <2>7
  <2>. QED BY <2>8 DEF r, h, p
<1>7. t \in T
  OBVIOUS
<1>8. F \in [(1 .. n) \X T -> T]
  <2>1. ASSUME NEW q \in (1 .. n) \X T PROVE Put(q[2], H(P(q[1])), P(q[1])) \in T
    <3>1. q[1] \in 1 .. n /\ q[2] \in T
      OBVIOUS
    <3>. HIDE DEF T, H
    <3>. QED BY <1>6, <3>1
  <2>. HIDE DEF T, H
  <2>. QED BY <2>1
<1>. HIDE DEF T
<1>9. \A k \in 1 .. n, f \in T : F[k, f] = Put(f, H(P(k)), P(k))
  OBVIOUS
<1>. HIDE DEF F, H
<1>10a. PICK f \in [0 .. n -> T] : Iterates(f, t, F, n)
  BY <1>3, <1>7, <1>8, Iterated
<1>10. f[0] = t /\ \A k \in 1 .. n : f[k] = F[k, f[k - 1]]
  BY <1>10a DEF Iterates
<1>11. ASSUME NEW k \in 0 .. n
       PROVE  f[k] = IF k = 0 THEN t ELSE Put(f[k - 1], H(P(k)), P(k))
  <2>1. CASE k = 0
    BY <1>10, <2>1
  <2>2. CASE k # 0
    <3>1. k \in 1 .. n /\ k - 1 \in 0 .. n
      BY <1>3, <2>2
    <3>2. f[k - 1] \in T
      BY <3>1
    <3>. QED BY <1>9, <1>10, <2>2, <3>1, <3>2
  <2>. QED BY <2>1, <2>2
<1>12. Is(f)
  BY <1>11
<1>13. Is(g)
  <2>. HIDE DEF Is
  <2>. QED BY <1>12
<1>. HIDE DEF g
<1>14. g[0] = t /\ \A k \in 1 .. n : g[k] = Put(g[k - 1], H(P(k)), P(k))
  <2>. DEFINE Body(k) == IF k = 0 THEN t ELSE Put(g[k - 1], H(P(k)), P(k))
  <2>1. g = [k \in 0 .. n |-> Body(k)]
    BY <1>13
  <2>. HIDE DEF Body
  <2>2. \A k \in 0 .. n : g[k] = Body(k)
    BY <2>1
  <2>3. 0 \in 0 .. n /\ \A k \in 1 .. n : k \in 0 .. n /\ k # 0
    BY <1>3
  <2>. QED BY <2>2, <2>3 DEF Body
<1>. HIDE DEF Is
<1>15. ASSUME NEW k \in 1 .. n, g[k - 1] \in T PROVE g[k] \in T
  BY <1>6, <1>14, <1>15
<1>16. \A k \in 0 .. n : g[k] \in T
  BY <1>3, <1>7, <1>14, <1>15, StaysIn
<1>17. g[n] \in T
  BY <1>3, <1>16
<1>18. \A v \in T : TableTrue(v, N)
  BY DEF T
<1>. QED BY <1>4, <1>17, <1>18

LEMMA IndexBlockKeeps ==
  ASSUME FindInv, IndexBlock
  PROVE  LET b == index.srcwin_cksum_pos \div blksize
         IN  /\ SourceInv' /\ IndexInv'
             /\ b \in 0 .. LastBlock /\ b * blksize \in Nat
             /\ b * blksize <= index.srcwin_cksum_pos
             /\ index.srcwin_cksum_pos < b * blksize + blksize
             /\ Use(Getblk(b)) /\ index'.maxsrcaddr = index.maxsrcaddr
             /\ index.srcwin_cksum_pos <= index'.srcwin_cksum_pos
             /\ index'.srcwin_cksum_pos \in Nat
             /\ index.srcwin_cksum_pos <= SrcEnd
             /\ at' \in {"asks", "XD3_INTERNAL", "indexing"}
             /\ at' = "asks" => Getblk(b).ret = "XD3_GETSRCBLK"
             /\ at' = "XD3_INTERNAL" => Getblk(b).ret = "XD3_TOOFARBACK"
<1>. DEFINE c == index.srcwin_cksum_pos
            N0 == blksize
            b == c \div N0
            off == c % N0
            m == b * N0
            N == (b + 1) * N0
            g == Getblk(b)
            t == index.large_table
            size == bytes_on_srcblk(g.source, b)
            table == IF size < LargeLook THEN t ELSE Insert(t, g.source, b, off)
<1>1. /\ at = "indexing" /\ c < index.target
      /\ source.eof_known => c < source_eof(source)
      /\ Use(g) /\ input' = input
      /\ \/ g.ret = "XD3_GETSRCBLK" /\ at' = "asks" /\ index' = index
         \/ g.ret = "XD3_TOOFARBACK" /\ at' = "XD3_INTERNAL" /\ index' = index
         \/ /\ g.ret = "ok" /\ at' = at
            /\ index' = [index EXCEPT !.large_table = table, !.srcwin_cksum_pos = N]
  BY DEF IndexBlock, MoreToIndex, Asks, vars
<1>2. /\ index \in IndexWith({t})
      /\ {c, index.maxsrcaddr, SrcEnd, Len(input.src), input_position} \subseteq Nat
      /\ index.target \in Int /\ index.then \in {"top", "large"} /\ N0 \in Nat \ {0}
      /\ index.maxsrcaddr <= Len(input.src) /\ Len(input.src) <= SrcEnd
      /\ TableTrue(t, c)
      /\ input \in Inputs /\ SourceOk(source) /\ SmallOk(source, c)
  BY IndexFacts
<1>3. c <= SrcEnd
  <2>1. CASE source.eof_known
    <3>1. source_eof(source) = SrcEnd
      BY <1>2, <2>1, SourceEofFacts
    <3>. HIDE DEF c
    <3>. QED BY <1>1, <1>2, <2>1, <3>1
  <2>2. CASE ~ source.eof_known
    BY <2>2 DEF FindInv, IndexInv
  <2>. QED BY <2>1, <2>2
<1>4. index.maxsrcaddr <= c
  BY <1>1 DEF FindInv, IndexInv
<1>5. b \in 0 .. LastBlock /\ off \in 0 .. N0 - 1 /\ m + off = c /\ m \in Nat
  <2>. HIDE DEF c
  <2>. QED BY <1>2, <1>3, BlockOf
<1>6. /\ LastBlock \in Nat /\ BlockLen(b) \in 0 .. N0
      /\ (Small /\ b = 1 => BlockLen(b) = 0)
      /\ (~ (Small /\ b = 1) => m + BlockLen(b) <= Len(input.src))
      /\ (~ Small /\ b < LastBlock => m + N0 <= SrcEnd)
      /\ (Small => LastBlock = 1 /\ SrcEnd = N0)
  <2>. HIDE DEF b
  <2>. QED BY <1>2, <1>5, BlockLens, LastBlockFacts
<1>. HIDE DEF c, N0
<1>7. b \in Nat /\ N \in Nat /\ N = m + N0 /\ m <= c /\ c < m + N0
  <2>1. b \in Nat
    BY <1>5, <1>6
  <2>2. (b + 1) * N0 = b * N0 + N0 /\ N \in Nat
    <3>. HIDE DEF b
    <3>. QED BY <1>2, <2>1, Multiples
  <2>3. m + N0 = N
    BY <2>2
  <2>. HIDE DEF m, off, b, N
  <2>. QED BY <1>2, <1>5, <2>1, <2>2, <2>3
<1>8. Small /\ b = 1 => c >= N0
  <2>1. 1 * N0 = N0
    BY <1>2
  <2>2. b = 1 => m = N0
    BY <2>1
  <2>. HIDE DEF m, b
  <2>. QED BY <1>2, <1>5, <1>7, <2>2
<1>9. ~ (Small /\ b = 0 /\ source.max_blkno = 1)
  <2>1. 0 * N0 = 0
    BY <1>2
  <2>2. b = 0 => m = 0
    BY <2>1
  <2>3. Small /\ source.max_blkno = 1 => c >= N0
    BY <1>2 DEF SmallOk, N0
  <2>. HIDE DEF m, b
  <2>. QED BY <1>2, <1>7, <2>2, <2>3
<1>. HIDE DEF m, off, N
<1>10. g.ret = "ok" => size = BlockLen(b) /\ (b = LastBlock => g.source.eof_known)
  <2>. HIDE DEF b
  <2>. QED BY <1>2, <1>5, <1>9, GetblkFacts
<1>11. Use(Getblk(b)) /\ (Small /\ b = 1 => index.srcwin_cksum_pos >= blksize)
  BY <1>1, <1>8 DEF c, N0
<1>12. CASE index' = index
  <2>1. /\ at' \in {"asks", "XD3_INTERNAL"}
        /\ at' = "asks" => g.ret = "XD3_GETSRCBLK"
        /\ at' = "XD3_INTERNAL" => g.ret = "XD3_TOOFARBACK"
    <3>1. CASE g.ret = "ok"
      <4>1. index' = [index EXCEPT !.large_table = table, !.srcwin_cksum_pos = N]
        BY <1>1, <3>1
      <4>2. index'.srcwin_cksum_pos = N
        BY <1>2, <4>1 DEF IndexWith
      <4>3. N = c
        BY <1>12, <4>2 DEF c
      <4>. HIDE DEF b
      <4>. QED BY <1>2, <1>5, <1>7, <4>3
    <3>2. CASE g.ret # "ok"
      BY <1>1, <3>2
    <3>. QED BY <3>1, <3>2
  <2>2. index'.srcwin_cksum_pos = c /\ index'.srcwin_cksum_pos \in Nat
        /\ index.srcwin_cksum_pos <= index'.srcwin_cksum_pos
    BY <1>2, <1>12 DEF c
  <2>3. SourceInv'
    <3>. HIDE DEF b
    <3>. QED BY <1>1, <1>5, <1>11, <2>2, SourceUsed
  <2>4. IndexInv'
    <3>1. /\ index' \in IndexWith({index'.large_table})
          /\ index'.maxsrcaddr <= Len(input.src)
          /\ TableTrue(index'.large_table, index'.srcwin_cksum_pos)
          /\ index'.srcwin_cksum_pos <= SrcEnd
          /\ at' # "indexing"
      BY <1>2, <1>3, <1>12, <2>1 DEF c
    <3>. QED BY <1>1, <3>1, IndexPrimed
  <2>5. index'.maxsrcaddr = index.maxsrcaddr
    BY <1>12
  <2>. HIDE DEF b
  <2>. QED BY <1>1, <1>3, <1>5, <1>7, <2>1, <2>2, <2>3, <2>4, <2>5 DEF c, N0, m, b
<1>13. CASE index' # index
  <2>1. /\ g.ret = "ok" /\ at' = "indexing"
        /\ index' = [index EXCEPT !.large_table = table, !.srcwin_cksum_pos = N]
    BY <1>1, <1>13
  <2>2. TableTrue(t, N)
    <3>1. c <= N
      <4>. HIDE DEF b
      <4>. QED BY <1>2, <1>5, <1>7
    <3>. HIDE DEF b
    <3>. QED BY <1>2, <1>7, <3>1, TableMore
  <2>3. size = BlockLen(b) /\ (b = LastBlock => g.source.eof_known)
    BY <1>10, <2>1
  <2>4. TableTrue(table, N)
    <3>1. CASE size < LargeLook
      BY <2>2, <3>1
    <3>2. CASE ~ (size < LargeLook)
      <4>. DEFINE bytes == BlockLen(b)
                  s == g.source
      <4>1. bytes \in Nat /\ bytes <= N0 /\ bytes >= LargeLook /\ bytes_on_srcblk(s, b) = bytes
        <5>1. LargeLook \in Nat
          BY IoptAssumption DEF MIN_MATCH
        <5>2. bytes \in Nat /\ bytes <= N0
          <6>. HIDE DEF b
          <6>. QED BY <1>2, <1>6
        <5>. HIDE DEF g, s, size
        <5>3. size = bytes
          BY <2>3
        <5>. HIDE DEF bytes
        <5>. QED BY <3>2, <5>1, <5>2, <5>3 DEF size, s
      <4>2. ~ (Small /\ b = 1)
        <5>1. LargeLook \in Nat /\ LargeLook >= 1
          BY IoptAssumption DEF MIN_MATCH
        <5>. QED BY <1>6, <4>1, <5>1
      <4>3. m + bytes <= Len(input.src)
        BY <1>6, <4>2
      <4>4. m + bytes <= N
        <5>. HIDE DEF b, bytes
        <5>. QED BY <1>2, <1>5, <1>7, <4>1
      <4>5. off \in Nat /\ m = b * blksize
        BY <1>2, <1>5 DEF m, N0
      <4>. HIDE DEF b, bytes, s
      <4>6. TableTrue(Insert(t, s, b, off), N)
        BY <1>2, <1>5, <1>7, <2>2, <4>1, <4>3, <4>4, <4>5, InsertFacts
      <4>. QED BY <3>2, <4>6 DEF s
    <3>. QED BY <3>1, <3>2
  <2>. HIDE DEF table, size
  <2>5. /\ index' \in IndexWith({table}) /\ index'.large_table = table
        /\ index'.srcwin_cksum_pos = N /\ index'.maxsrcaddr = index.maxsrcaddr
    <3>. DEFINE T == {t, table}
    <3>1. index \in IndexWith(T) /\ table \in T /\ index.large_table = t
      BY <1>2 DEF IndexWith
    <3>. HIDE DEF T, t, table, b, g
    <3>2. /\ index' \in IndexWith(T) /\ index'.large_table = table
          /\ index'.srcwin_cksum_pos = N /\ index'.maxsrcaddr = index.maxsrcaddr
      BY <1>7, <2>1, <3>1 DEF IndexWith
    <3>. QED BY <3>2 DEF IndexWith
  <2>6. index'.srcwin_cksum_pos \in Nat /\ index.srcwin_cksum_pos <= index'.srcwin_cksum_pos
        /\ index.maxsrcaddr <= N
    <3>1. c <= N
      <4>. HIDE DEF b
      <4>. QED BY <1>2, <1>5, <1>7
    <3>. HIDE DEF b
    <3>. QED BY <1>2, <1>4, <1>7, <2>5, <3>1 DEF c
  <2>7. N <= SrcEnd \/ source'.eof_known
    <3>1. CASE b = LastBlock
      BY <1>1, <2>3, <3>1 DEF Use
    <3>2. CASE b # LastBlock /\ Small
      <4>1. b = 0
        <5>. HIDE DEF b
        <5>. QED BY <1>5, <1>6, <3>2
      <4>2. 0 * N0 = 0
        BY <1>2
      <4>3. m = 0
        BY <4>1, <4>2 DEF m
      <4>4. N <= SrcEnd
        <5>. HIDE DEF b
        <5>. QED BY <1>2, <1>6, <1>7, <3>2, <4>3
      <4>. QED BY <4>4
    <3>3. CASE b # LastBlock /\ ~ Small
      <4>1. b < LastBlock
        <5>. HIDE DEF b
        <5>. QED BY <1>5, <1>6, <3>3
      <4>. QED BY <1>6, <1>7, <3>3, <4>1
    <3>. QED BY <3>1, <3>2, <3>3
  <2>8. IndexInv'
    <3>1. TableTrue(index'.large_table, index'.srcwin_cksum_pos)
      BY <2>4, <2>5
    <3>2. index'.maxsrcaddr <= Len(input.src)
      BY <1>2, <2>5
    <3>3. index'.srcwin_cksum_pos <= SrcEnd \/ (at' = "indexing" /\ source'.eof_known)
      BY <2>1, <2>5, <2>7
    <3>4. index'.maxsrcaddr <= index'.srcwin_cksum_pos
      BY <2>5, <2>6
    <3>5. index' \in IndexWith({index'.large_table})
      BY <2>5
    <3>. QED BY <1>1, <3>1, <3>2, <3>3, <3>4, <3>5, IndexPrimed
  <2>9. SourceInv'
    <3>. HIDE DEF b
    <3>. QED BY <1>1, <1>5, <1>11, <2>6, SourceUsed
  <2>. HIDE DEF b
  <2>. QED BY <1>1, <1>3, <1>5, <1>7, <2>1, <2>5, <2>6, <2>8, <2>9 DEF c, N0, m, b
<1>. QED BY <1>12, <1>13 DEF c, N0, b

\* Outside of srcwin_move_point no more of the source is indexed.
IndexKept(far, next) == index' = [index EXCEPT !.maxsrcaddr = far, !.next_move_point = next]

LEMMA IndexSame ==
  ASSUME FindInv, input' = input, at # "indexing", at' # "indexing",
         NEW far \in Nat, far <= Len(input.src), index.maxsrcaddr <= far,
         NEW next \in Int, IndexKept(far, next)
  PROVE  /\ IndexInv'
         /\ index'.srcwin_cksum_pos = index.srcwin_cksum_pos
         /\ index'.maxsrcaddr = far
<1>. DEFINE t == index.large_table
<1>1. /\ index \in IndexWith({t}) /\ TableTrue(t, index.srcwin_cksum_pos)
  BY IndexFacts
<1>2. index.srcwin_cksum_pos <= SrcEnd
  BY DEF FindInv, IndexInv
<1>. HIDE DEF t
<1>3. /\ index' \in IndexWith({t}) /\ index'.large_table = t
      /\ index'.srcwin_cksum_pos = index.srcwin_cksum_pos
      /\ index'.maxsrcaddr = far
  BY <1>1 DEF IndexWith, IndexKept
<1>4. IndexInv'
  BY <1>1, <1>2, <1>3, IndexPrimed
<1>. QED BY <1>3, <1>4

LEMMA IndexUnchanged ==
  ASSUME FindInv, index' = index
  PROVE  IndexKept(index.maxsrcaddr, index.next_move_point)
<1>. DEFINE t == index.large_table
<1>1. index \in IndexWith({t})
  BY IndexFacts
<1>. HIDE DEF t
<1>. QED BY <1>1 DEF IndexWith, IndexKept

\* The steps that do not index, and what they do to the index.
LEMMA OtherSteps ==
  ASSUME FindInv, MatchNext, ~ (MoveStart \/ IndexBlock \/ MoveEnd)
  PROVE  /\ at # "indexing" /\ at' # "indexing"
         /\ \/ \E next \in Int : IndexKept(index.maxsrcaddr, next)
            \/ /\ TakeSource
               /\ \E next \in Int : IndexKept(Greater(index.maxsrcaddr,
                                                      match.srcpos + extent.fwd), next)
<1>0. index.maxsrcaddr \in Nat /\ index.next_move_point \in Int /\ 0 \in Int
  BY IndexFacts
<1>1. ASSUME index' = index
      PROVE  \E next \in Int : IndexKept(index.maxsrcaddr, next)
  BY <1>0, <1>1, IndexUnchanged
<1>2. ASSUME NEW p, NEW e, StringMatch(p, e)
      PROVE  /\ at' # "indexing"
             /\ \E next \in Int : IndexKept(index.maxsrcaddr, next)
  <2>1. index' = [index EXCEPT !.next_move_point = 0] /\ Restarted
    BY <1>2 DEF StringMatch
  <2>2. IndexKept(index.maxsrcaddr, 0)
    <3>. DEFINE t == index.large_table
    <3>1. index \in IndexWith({t})
      BY IndexFacts
    <3>. HIDE DEF t
    <3>. QED BY <2>1, <3>1 DEF IndexWith, IndexKept
  <2>. QED BY <1>0, <2>1, <2>2, AfterRestart
<1>3. CASE Provide \/ TakeRun \/ NoRun \/ LookUp \/ TrySmall \/ MatchEnd
  <2>1. /\ index' = index /\ at \in {"asks", "top", "large", "small"}
    BY <1>3 DEF Provide, TakeRun, NoRun, LookUp, TrySmall, MatchEnd, matcher
  <2>2. at' # "indexing"
    <3>1. (\E n : Handled(n)) \/ at' \in {"enter", "small", "move", "large", "extend", "top"}
      BY <1>3 DEF Provide, TakeRun, NoRun, LookUp, TrySmall, MatchEnd
    <3>. QED BY <3>1, AfterHandled
  <2>. QED BY <1>1, <2>1, <2>2
<1>4. CASE MatchNextWindow
  <2>1. index' = index /\ enc_state = "ENC_FLUSH" /\ at' = "enter"
    BY <1>4 DEF MatchNextWindow, NextWindow
  <2>2. at = "top"
    BY <2>1 DEF FindInv, ControlInv
  <2>. QED BY <1>1, <2>1, <2>2
<1>5. CASE ExtendBackward \/ ExtendForward
  <2>1. at = "extend" /\ index' = index
    BY <1>5 DEF ExtendBackward, ExtendForward
  <2>2. at' # "indexing"
    BY <1>5, <2>1, BackwardStep, ForwardStep
  <2>. QED BY <1>1, <2>1, <2>2
<1>6. CASE Enter
  <2>1. at = "enter"
    BY <1>6 DEF Enter
  <2>2. (\E p, e : StringMatch(p, e)) \/ (at' = "extend" /\ index' = index)
    BY <1>6 DEF Enter
  <2>. QED BY <1>1, <1>2, <2>1, <2>2
<1>7. CASE Extend
  <2>1. at = "extended"
    BY <1>7 DEF Extend
  <2>2. (\E p, e : StringMatch(p, e)) \/ (at' = "small" /\ index' = index)
    BY <1>7 DEF Extend
  <2>. QED BY <1>1, <1>2, <2>1, <2>2
<1>8. CASE TakeSource
  <2>. DEFINE far == Greater(index.maxsrcaddr, match.srcpos + extent.fwd)
  <2>1. at = "extended" /\ (Restarted \/ \E n : Handled(n))
    BY <1>8 DEF TakeSource
  <2>2. \/ index' = [index EXCEPT !.maxsrcaddr = far, !.next_move_point = 0]
        \/ index' = [index EXCEPT !.maxsrcaddr = far]
    BY <1>8 DEF TakeSource
  <2>. HIDE DEF far
  <2>3. IndexKept(far, 0) \/ IndexKept(far, index.next_move_point)
    <3>. DEFINE t == index.large_table
    <3>1. index \in IndexWith({t})
      BY IndexFacts
    <3>. HIDE DEF t
    <3>. QED BY <2>2, <3>1 DEF IndexWith, IndexKept
  <2>4. at' # "indexing"
    BY <2>1, AfterRestart, AfterHandled
  <2>5. \E next \in Int : IndexKept(far, next)
    BY <1>0, <2>3
  <2>. QED BY <1>8, <2>1, <2>4, <2>5 DEF far
<1>. QED BY <1>3, <1>4, <1>5, <1>6, <1>7, <1>8 DEF MatchNext

\* The index is true after a step, and no less of the source is behind it, but for
\* what was passed beyond the end of the source.
LEMMA IndexStep ==
  ASSUME FindInv, [MatchNext]_allVars
  PROVE  /\ IndexInv'
         /\ index'.srcwin_cksum_pos \in Nat /\ index'.maxsrcaddr \in Nat
         /\ index.maxsrcaddr <= index'.maxsrcaddr
         /\ \/ index.srcwin_cksum_pos <= index'.srcwin_cksum_pos
            \/ MoveEnd /\ index'.srcwin_cksum_pos = SrcEnd
         /\ ~ (MoveStart \/ IndexBlock \/ MoveEnd)
              => index'.srcwin_cksum_pos = index.srcwin_cksum_pos
         /\ TakeSource => match.srcpos + extent.fwd <= index'.maxsrcaddr
<1>1. /\ {index.srcwin_cksum_pos, index.maxsrcaddr, SrcEnd} \subseteq Nat
      /\ index.maxsrcaddr <= Len(input.src)
  BY IndexFacts
<1>2. input' = input
  BY SameInput
<1>3. CASE MoveStart
  <2>1. IndexFrom >= index.srcwin_cksum_pos /\ IndexFrom \in Nat
    BY <1>1 DEF IndexFrom, Greater
  <2>2. ~ TakeSource
    BY <1>3 DEF MoveStart, TakeSource
  <2>3. index'.srcwin_cksum_pos \in {index.srcwin_cksum_pos, IndexFrom}
        /\ index'.maxsrcaddr = index.maxsrcaddr /\ IndexInv'
    BY <1>3, MoveStartKeeps
  <2>. QED BY <1>1, <1>3, <2>1, <2>2, <2>3
<1>4. CASE IndexBlock
  <2>1. ~ TakeSource
    BY <1>4 DEF IndexBlock, TakeSource
  <2>2. /\ IndexInv' /\ index'.maxsrcaddr = index.maxsrcaddr
        /\ index.srcwin_cksum_pos <= index'.srcwin_cksum_pos
        /\ index'.srcwin_cksum_pos \in Nat
    BY <1>4, IndexBlockKeeps
  <2>. QED BY <1>1, <1>4, <2>1, <2>2
<1>5. CASE MoveEnd
  <2>1. ~ TakeSource
    BY <1>5 DEF MoveEnd, TakeSource
  <2>2. /\ IndexInv' /\ index'.maxsrcaddr = index.maxsrcaddr
        /\ index'.srcwin_cksum_pos \in {index.srcwin_cksum_pos, SrcEnd}
    BY <1>5, MoveEndKeeps
  <2>. QED BY <1>1, <1>5, <2>1, <2>2
<1>6. CASE MatchNext /\ ~ (MoveStart \/ IndexBlock \/ MoveEnd)
  <2>1. /\ at # "indexing" /\ at' # "indexing"
        /\ \/ \E next \in Int : IndexKept(index.maxsrcaddr, next)
           \/ /\ TakeSource
              /\ \E next \in Int : IndexKept(Greater(index.maxsrcaddr,
                                                     match.srcpos + extent.fwd), next)
    BY <1>6, OtherSteps
  <2>2. CASE TakeSource
    <3>. DEFINE far == Greater(index.maxsrcaddr, match.srcpos + extent.fwd)
    <3>1. at = "extended"
      BY <2>2 DEF TakeSource
    <3>2. /\ match.srcpos \in Nat /\ extent.fwd \in Nat
          /\ match.srcpos + extent.fwd <= Len(input.src) /\ Len(input.src) \in Nat
      BY <3>1, ExtendingLooks DEF SourceMatch, Extension
    <3>3. far \in Nat /\ far <= Len(input.src) /\ index.maxsrcaddr <= far
          /\ match.srcpos + extent.fwd <= far
      BY <1>1, <3>2 DEF Greater
    <3>. HIDE DEF far
    <3>4. \E next \in Int : IndexKept(far, next)
      <4>1. ASSUME NEW next \in Int, IndexKept(index.maxsrcaddr, next)
            PROVE  IndexKept(far, next)
        <5>. DEFINE t == index.large_table
        <5>1. index \in IndexWith({t})
          BY IndexFacts
        <5>. HIDE DEF t
        <5>2. index'.maxsrcaddr = index.maxsrcaddr
          BY <4>1, <5>1 DEF IndexWith, IndexKept
        <5>3. index' = [index EXCEPT !.maxsrcaddr = far]
              \/ index' = [index EXCEPT !.maxsrcaddr = far, !.next_move_point = 0]
          BY <2>2 DEF TakeSource, far
        <5>4. index'.maxsrcaddr = far
          BY <5>1, <5>3 DEF IndexWith
        <5>. QED BY <4>1, <5>2, <5>4
      <4>. QED BY <2>1, <4>1 DEF far
    <3>5. PICK next \in Int : IndexKept(far, next)
      BY <3>4
    <3>6. /\ IndexInv' /\ index'.srcwin_cksum_pos = index.srcwin_cksum_pos
          /\ index'.maxsrcaddr = far
      BY <1>2, <2>1, <3>3, <3>5, IndexSame
    <3>. QED BY <1>1, <3>3, <3>6
  <2>3. CASE ~ TakeSource
    <3>1. PICK next \in Int : IndexKept(index.maxsrcaddr, next)
      BY <2>1, <2>3
    <3>2. /\ IndexInv' /\ index'.srcwin_cksum_pos = index.srcwin_cksum_pos
          /\ index'.maxsrcaddr = index.maxsrcaddr
      BY <1>1, <1>2, <2>1, <3>1, IndexSame
    <3>. QED BY <1>1, <2>3, <3>2
  <2>. QED BY <2>2, <2>3
<1>7. CASE UNCHANGED allVars /\ ~ MatchNext
  <2>1. index' = index /\ at' = at /\ source' = source
    BY <1>7 DEF allVars
  <2>2. IndexInv
    BY DEF FindInv
  <2>3. IndexInv'
    <3>1. /\ index' \in IndexWith({index'.large_table})
          /\ index'.maxsrcaddr <= Len(input.src)
          /\ TableTrue(index'.large_table, index'.srcwin_cksum_pos)
          /\ index'.srcwin_cksum_pos <= SrcEnd \/ (at' = "indexing" /\ source'.eof_known)
          /\ at' = "indexing" => index'.maxsrcaddr <= index'.srcwin_cksum_pos
      BY <2>1, <2>2 DEF IndexInv
    <3>. QED BY <1>2, <3>1, IndexPrimed
  <2>4. ~ TakeSource
    BY <1>7 DEF MatchNext
  <2>. QED BY <1>1, <2>1, <2>3, <2>4
<1>. QED BY <1>3, <1>4, <1>5, <1>6, <1>7

-----------------------------------------------------------------------------
(* The source, and the blocks held, after a step.                          *)

\* At most one block is read, and it is not beyond what is indexed or matched.
HoldsMore == \E b \in 0 .. LastBlock :
               b * blksize <= Reach /\ slots' = [slots EXCEPT ![b % lru_size] = b]

LEMMA UseHolds ==
  ASSUME input \in Inputs, SourceOk(source), NEW b \in 0 .. LastBlock, Use(Getblk(b)),
         b * blksize <= Reach
  PROVE  slots' = slots \/ HoldsMore
<1>1. slots' = slots \/ slots' = [slots EXCEPT ![b % lru_size] = b]
  BY GetblkFacts DEF Use
<1>. QED BY <1>1 DEF HoldsMore

LEMMA ReachFacts ==
  ASSUME FindInv
  PROVE  /\ Reach \in Nat /\ index.srcwin_cksum_pos <= Reach
         /\ Extending => match.srcpos + extent.fwd <= Reach
         /\ Frontier \in Nat /\ Slack \in Nat /\ Frontier + Slack <= Reach
<1>1. index.srcwin_cksum_pos \in Nat /\ index.maxsrcaddr \in Nat
  BY IndexFacts
<1>2. match.srcpos \in Nat /\ extent.fwd \in Nat
  BY DEF FindInv, ControlInv, MatchStates, ExtentType
<1>3. input.max_lazy \in Nat
  BY InputFacts DEF FindInv, BufferInv
<1>4. Slack \in Nat
  BY <1>3 DEF Slack, Greater, MIN_MATCH
<1>5. Frontier \in Nat /\ index.srcwin_cksum_pos <= Frontier
  BY <1>1 DEF Frontier, Greater
<1>. HIDE DEF Slack, Frontier
<1>6. Reach \in Nat /\ Frontier + Slack <= Reach
      /\ (Extending => match.srcpos + extent.fwd <= Reach)
  <2>1. CASE Extending
    BY <1>2, <1>4, <1>5, <2>1 DEF Reach, Greater
  <2>2. CASE ~ Extending
    BY <1>4, <1>5, <2>2 DEF Reach, Greater
  <2>. QED BY <2>1, <2>2
<1>. QED BY <1>1, <1>4, <1>5, <1>6

LEMMA ExtendingUses ==
  ASSUME FindInv, ExtendBackward \/ ExtendForward
  PROVE  SourceInv' /\ (slots' = slots \/ HoldsMore)
<1>1. at = "extend" /\ index' = index /\ input' = input
  BY DEF ExtendBackward, ExtendForward, searchState
<1>2. /\ Extending /\ SourceMatch(Extension)
      /\ {Len(input.src), match.srcpos, extent.fwd} \subseteq Nat
      /\ match.srcpos <= Len(input.src)
  BY <1>1, ExtendingLooks
<1>3. match.srcpos + extent.fwd <= Len(input.src)
  BY <1>2 DEF SourceMatch, Extension
<1>4. input \in Inputs /\ SourceOk(source) /\ index.srcwin_cksum_pos \in Nat
      /\ blksize \in Nat \ {0} /\ Reach \in Nat /\ match.srcpos + extent.fwd <= Reach
  BY <1>2, IndexFacts, ReachFacts
<1>5. index'.srcwin_cksum_pos \in Nat /\ index.srcwin_cksum_pos <= index'.srcwin_cksum_pos
  BY <1>1, <1>4
<1>6. ASSUME source' = source, slots' = slots PROVE SourceInv'
  BY <1>1, <1>5, <1>6, SourceSame
<1>7. ASSUME NEW p \in {match.srcpos, match.srcpos + extent.fwd},
             NEW b \in 0 .. LastBlock, b * blksize <= p, b * blksize \in Nat,
             p < blksize => b = 0, Use(Getblk(b))
      PROVE  SourceInv' /\ (slots' = slots \/ HoldsMore)
  <2>1. p \in Nat /\ p <= Len(input.src) /\ p <= Reach
    BY <1>2, <1>3, <1>4
  <2>2. ~ (Small /\ b = 1)
    BY <1>2, <1>4, <1>7, <2>1 DEF Small
  <2>3. SourceInv'
    BY <1>1, <1>5, <1>7, <2>2, SourceUsed
  <2>4. b * blksize <= Reach
    <3>. DEFINE m == b * blksize
    <3>. HIDE DEF m
    <3>1. m <= p /\ m \in Nat
      BY <1>7 DEF m
    <3>2. m <= Reach
      BY <1>4, <2>1, <3>1
    <3>. QED BY <3>2 DEF m
  <2>. QED BY <1>4, <1>7, <2>3, <2>4, UseHolds
<1>8. CASE ExtendBackward
  <2>1. UNCHANGED <<source, slots>>
        \/ \E b \in 0 .. LastBlock :
             /\ b * blksize <= match.srcpos /\ b * blksize \in Nat
             /\ match.srcpos < blksize => b = 0
             /\ Use(Getblk(b))
    BY <1>8, BackwardStep DEF blocks
  <2>. QED BY <1>6, <1>7, <2>1
<1>9. CASE ExtendForward
  <2>. DEFINE right == match.srcpos + extent.fwd
              b == right \div blksize
  <2>1. /\ b \in 0 .. LastBlock /\ b * blksize <= right /\ b * blksize \in Nat
        /\ right < blksize => b = 0
        /\ UNCHANGED <<source, slots>> \/ Use(Getblk(b))
    BY <1>9, ForwardStep DEF blocks
  <2>. HIDE DEF b
  <2>. QED BY <1>6, <1>7, <2>1
<1>. QED BY <1>8, <1>9

LEMMA SourceStep ==
  ASSUME FindInv, [MatchNext]_allVars
  PROVE  SourceInv' /\ (slots' = slots \/ HoldsMore)
<1>1. input' = input
  BY SameInput
<1>2. CASE Provide
  BY <1>2, SourceProvide DEF Provide
<1>3. CASE IndexBlock
  <2>. DEFINE b == index.srcwin_cksum_pos \div blksize
  <2>1. /\ SourceInv' /\ b \in 0 .. LastBlock /\ b * blksize \in Nat
        /\ b * blksize <= index.srcwin_cksum_pos /\ Use(Getblk(b))
    BY <1>3, IndexBlockKeeps
  <2>. HIDE DEF b
  <2>2. input \in Inputs /\ SourceOk(source) /\ index.srcwin_cksum_pos \in Nat
        /\ Reach \in Nat /\ index.srcwin_cksum_pos <= Reach
    BY IndexFacts, ReachFacts
  <2>3. b * blksize <= Reach
    <3>. DEFINE m == b * blksize
    <3>. HIDE DEF m
    <3>1. m <= index.srcwin_cksum_pos /\ m \in Nat
      BY <2>1 DEF m
    <3>2. m <= Reach
      BY <2>2, <3>1
    <3>. QED BY <3>2 DEF m
  <2>. QED BY <2>1, <2>2, <2>3, UseHolds
<1>4. CASE MoveEnd
  <2>1. slots' = slots
    BY <1>4 DEF MoveEnd, blocks
  <2>. QED BY <1>4, <2>1, MoveEndKeeps
<1>5. CASE ExtendBackward \/ ExtendForward
  BY <1>5, ExtendingUses
<1>6. CASE [MatchNext]_allVars /\ ~ (Provide \/ IndexBlock \/ MoveEnd \/ ExtendBackward
                                     \/ ExtendForward)
  <2>1. source' = source /\ slots' = slots
    <3>1. CASE Enter \/ TakeRun \/ NoRun \/ MoveStart
      BY <3>1 DEF Enter, TakeRun, NoRun, MoveStart, blocks
    <3>2. CASE LookUp \/ Extend \/ TakeSource \/ TrySmall
      BY <3>2 DEF LookUp, Extend, TakeSource, TrySmall, blocks
    <3>3. CASE MatchEnd \/ MatchNextWindow
      BY <3>3 DEF MatchEnd, MatchNextWindow, blocks
    <3>4. CASE UNCHANGED allVars
      BY <3>4 DEF allVars, blocks
    <3>. QED BY <1>6, <3>1, <3>2, <3>3, <3>4 DEF MatchNext
  <2>2. /\ index'.srcwin_cksum_pos \in Nat
        /\ index.srcwin_cksum_pos <= index'.srcwin_cksum_pos
    BY <1>6, IndexStep
  <2>3. SourceInv'
    BY <1>1, <2>1, <2>2, SourceSame
  <2>. QED BY <2>1, <2>3
<1>. QED BY <1>2, <1>3, <1>4, <1>5, <1>6

-----------------------------------------------------------------------------
(* The small table after a step.                                           *)

LEMMA SmallFacts ==
  ASSUME FindInv
  PROVE  /\ small \in SmallWith({small.table}) /\ small.allocated \in BOOLEAN
         /\ ~ small.allocated => DOMAIN small.table = {}
         /\ \A h \in DOMAIN small.table : small.table[h] \in Nat
         /\ enc_state = "ENC_SEARCH" =>
              DOMAIN small.table = {} \/ (small.allocated /\ small.reset)
         /\ enc_state = "LOOP" =>
              small.allocated /\ \A h \in DOMAIN small.table : small.table[h] < input_position
<1>1. SmallInv
  BY DEF FindInv
<1>. QED BY <1>1 DEF SmallInv, SmallWith

LEMMA SmallKept ==
  ASSUME FindInv, small' = small,
         enc_state' = "ENC_SEARCH" => enc_state = "ENC_SEARCH",
         enc_state' = "LOOP" => enc_state = "LOOP" /\ input_position <= input_position',
         input_position \in Nat, enc_state' = "LOOP" => input_position' \in Nat
  PROVE  SmallInv'
<1>1. /\ small' \in SmallWith({small'.table})
      /\ ~ small'.allocated => DOMAIN small'.table = {}
      /\ \A h \in DOMAIN small'.table : small'.table[h] \in Nat
      /\ enc_state' = "ENC_SEARCH" =>
           DOMAIN small'.table = {} \/ (small'.allocated /\ small'.reset)
  BY SmallFacts
<1>2. ASSUME enc_state' = "LOOP"
      PROVE  small'.allocated /\ \A h \in DOMAIN small'.table : small'.table[h] < input_position'
  <2>1. small.allocated /\ \A h \in DOMAIN small.table :
                             small.table[h] \in Nat /\ small.table[h] < input_position
    BY <1>2, SmallFacts
  <2>. QED BY <1>2, <2>1
<1>3. (small \in SmallWith({small.table}))'
  BY <1>1 DEF SmallWith
<1>. QED BY <1>1, <1>2, <1>3 DEF SmallInv

\* Every search begins with the tables, or has too little input to look up.
LEMMA SmallSearched ==
  ASSUME FindInv, Looks, NEW p \in Nat, input_position <= p, NEW e, Restart(p, e),
         small' = IF p + SmallLook <= avail_in THEN MatchInit(small) ELSE small
  PROVE  SmallInv'
<1>1. input_position \in Nat /\ avail_in \in Nat
  BY LooksFacts DEF FindInv
<1>2. CASE p + SmallLook <= avail_in
  <2>1. input_position' = p /\ enc_state' = "LOOP"
    BY <1>1, <1>2 DEF Restart, SmallLook
  <2>2. small' = MatchInit(small)
    BY <1>2
  <2>. DEFINE t == small.table
              T == {t, NoTable}
  <2>3. small \in SmallWith(T) /\ DOMAIN NoTable = {} /\ small.table = t
    BY SmallFacts DEF SmallWith, NoTable
  <2>4. /\ ~ small.allocated => DOMAIN t = {}
        /\ \A h \in DOMAIN t : t[h] \in Nat
        /\ enc_state = "ENC_SEARCH" => DOMAIN t = {} \/ (small.allocated /\ small.reset)
        /\ enc_state = "LOOP" => \A h \in DOMAIN t : t[h] < input_position
    BY SmallFacts
  <2>. HIDE DEF T, t
  <2>5. /\ small' \in SmallWith(T) /\ small'.allocated
        /\ \/ small'.table = NoTable
           \/ small'.table = t /\ (~ small.allocated \/ ~ small.reset)
    <3>1. CASE ~ small.allocated
      BY <2>2, <2>3, <3>1 DEF MatchInit, SmallWith
    <3>2. CASE small.allocated /\ small.reset
      <4>1. small' = [small EXCEPT !.reset = FALSE, !.table = NoTable]
        BY <2>2, <3>2 DEF MatchInit
      <4>2. NoTable \in T
        BY DEF T
      <4>. QED BY <2>3, <3>2, <4>1, <4>2 DEF SmallWith
    <3>3. CASE small.allocated /\ ~ small.reset
      BY <2>2, <2>3, <3>3 DEF MatchInit
    <3>. QED BY <3>1, <3>2, <3>3
  <2>6. \A h \in DOMAIN small'.table : small'.table[h] \in Nat /\ small'.table[h] < p
    <3>1. CASE small'.table = NoTable
      BY <2>3, <3>1
    <3>2. CASE small'.table = t /\ (~ small.allocated \/ ~ small.reset)
      <4>1. enc_state = "LOOP" \/ DOMAIN t = {}
        BY <2>4, <3>2 DEF Looks
      <4>2. \A h \in DOMAIN t : t[h] \in Nat /\ t[h] < p
        BY <1>1, <2>4, <4>1
      <4>. QED BY <3>2, <4>2
    <3>. QED BY <2>5, <3>1, <3>2
  <2>7. (small \in SmallWith({small.table}))'
    BY <2>5 DEF SmallWith
  <2>. QED BY <2>1, <2>5, <2>6, <2>7 DEF SmallInv
<1>3. CASE ~ (p + SmallLook <= avail_in)
  <2>1. enc_state' = "ENC_INSTR"
    BY <1>1, <1>3 DEF Restart, SmallLook
  <2>. QED BY <1>1, <1>3, <2>1, SmallKept
<1>. QED BY <1>2, <1>3

LEMMA SmallInserted ==
  ASSUME FindInv, TrySmall, Unlimited
  PROVE  SmallInv'
<1>. DEFINE p == input_position
            k == p % SprevSize
            base == SmallBase
            h == sinx
            t == small.table
            u == Put(t, h, p)
            T == {t, u}
            v == [small.prev EXCEPT ![k] = base]
<1>1. enc_state = "LOOP"
  <2>1. at = "small"
    BY DEF TrySmall
  <2>. QED BY <2>1 DEF FindInv, ControlInv
<1>2. small' = SmallInsert(small)
  BY DEF TrySmall
<1>3. p \in Nat
  BY <1>1, LooksFacts DEF FindInv, Looks
<1>4. k \in 0 .. SprevSize - 1
  BY <1>3, MatchAssumption
<1>5. small \in SmallWith(T) /\ small.allocated /\ small.table = t
      /\ \A x \in DOMAIN t : t[x] \in Nat /\ t[x] < p
  BY <1>1, SmallFacts DEF SmallWith
<1>6. base \in Nat \cup {None}
  BY SmallFacts DEF SmallBase
<1>7. small' = [small EXCEPT !.prev = v, !.table = u]
  <2>1. small' = [small EXCEPT !.prev[k] = base, !.table = Put(@, h, p)]
    BY <1>2 DEF SmallInsert
  <2>. HIDE DEF k, base, h, p, T
  <2>. QED BY <1>5, <2>1 DEF SmallWith
<1>8. v \in [0 .. SprevSize - 1 -> Nat \cup {None}]
  <2>. HIDE DEF k, base
  <2>. QED BY <1>4, <1>5, <1>6 DEF SmallWith
<1>9. u \in T /\ DOMAIN u = DOMAIN t \cup {h}
      /\ \A x \in DOMAIN u : u[x] = IF x = h THEN p ELSE t[x]
  BY DEF Put
<1>. HIDE DEF v, u, T, t, h, k, base
<1>10. small' \in SmallWith(T) /\ small'.table = u /\ small'.allocated
  BY <1>5, <1>7, <1>8, <1>9 DEF SmallWith
<1>11. \A x \in DOMAIN u : u[x] \in Nat /\ u[x] <= p
  <2>. HIDE DEF p
  <2>1. \A x \in DOMAIN t : t[x] \in Nat /\ t[x] <= p
    BY <1>3, <1>5
  <2>. QED BY <1>3, <1>9, <2>1
<1>12. /\ MovesOn
       /\ enc_state' = "LOOP" => input_position < input_position'
  BY <1>1, SmallTaken DEF FindInv
<1>13. enc_state' \in {"LOOP", "ENC_INSTR"} /\ input_position' \in Nat
  BY <1>12 DEF MovesOn, Onward
<1>14. enc_state' = "LOOP" => \A x \in DOMAIN u : u[x] < input_position'
  BY <1>3, <1>11, <1>12, <1>13
<1>15. (small \in SmallWith({small.table}))'
  BY <1>10 DEF SmallWith
<1>. QED BY <1>10, <1>11, <1>13, <1>14, <1>15 DEF SmallInv

LEMMA SmallStep ==
  ASSUME FindInv, Unlimited, [MatchNext]_allVars
  PROVE  SmallInv'
<1>1. input_position \in Nat
  BY IndexFacts
<1>2. CASE Provide \/ NoRun \/ MoveStart \/ IndexBlock \/ MoveEnd \/ LookUp
           \/ ExtendBackward \/ ExtendForward \/ UNCHANGED allVars
  <2>1. small' = small /\ enc_state' = enc_state /\ input_position' = input_position
    <3>1. CASE Provide \/ NoRun \/ MoveStart
      BY <3>1 DEF Provide, NoRun, MoveStart, vars, matcher
    <3>2. CASE IndexBlock \/ MoveEnd
      BY <3>2 DEF IndexBlock, MoveEnd, vars
    <3>3. CASE LookUp \/ ExtendBackward \/ ExtendForward
      BY <3>3 DEF LookUp, ExtendBackward, ExtendForward, searchState
    <3>4. CASE UNCHANGED allVars
      BY <3>4 DEF allVars, vars
    <3>. QED BY <1>2, <3>1, <3>2, <3>3, <3>4
  <2>. QED BY <1>1, <2>1, SmallKept
<1>3. CASE Enter
  <2>1. Looks /\ UNCHANGED avail_in
    BY <1>3 DEF Enter, Looks
  <2>2. CASE StringMatch(input_position, iopt)
    <3>1. /\ Restart(input_position, iopt) /\ input_position <= input_position
          /\ small' = IF input_position + SmallLook <= avail_in THEN MatchInit(small) ELSE small
      BY <1>1, <2>2 DEF StringMatch
    <3>. QED BY <1>1, <2>1, <3>1, SmallSearched
  <2>3. CASE ~ StringMatch(input_position, iopt)
    <3>1. UNCHANGED <<enc_state, input_position, small>>
      BY <1>3, <2>3 DEF Enter
    <3>. QED BY <1>1, <3>1, SmallKept
  <2>. QED BY <2>2, <2>3
<1>4. CASE Extend
  <2>1. Looks
    BY <1>4, ExtendingLooks DEF Extend
  <2>2. CASE StringMatch(input_position, iopt)
    <3>1. /\ Restart(input_position, iopt) /\ input_position <= input_position
          /\ small' = IF input_position + SmallLook <= avail_in THEN MatchInit(small) ELSE small
      BY <1>1, <2>2 DEF StringMatch
    <3>. QED BY <1>1, <2>1, <3>1, SmallSearched
  <2>3. CASE ~ StringMatch(input_position, iopt)
    <3>1. UNCHANGED <<enc_state, input_position, small>>
      BY <1>4, <2>3 DEF Extend
    <3>. QED BY <1>1, <3>1, SmallKept
  <2>. QED BY <2>2, <2>3
<1>5. CASE TakeSource
  <2>1. /\ Looks /\ extent.fwd \in Nat /\ extent \in ExtentType
        /\ (extent.caller = "string_match" => enc_state = "LOOP")
    BY <1>5, ExtendingLooks DEF TakeSource
  <2>2. CASE Reentered
    <3>. DEFINE p == input_position + extent.fwd
    <3>1. /\ Restart(p, iopt')
          /\ small' = IF p + SmallLook <= avail_in THEN MatchInit(small) ELSE small
      BY <1>5, <2>2 DEF TakeSource
    <3>2. p \in Nat /\ input_position <= p
      BY <1>1, <2>1
    <3>. HIDE DEF p
    <3>. QED BY <2>1, <3>1, <3>2, SmallSearched
  <2>3. CASE ~ Reentered
    <3>1. small' = small
      BY <1>5, <2>3 DEF TakeSource
    <3>2. enc_state = "LOOP"
      BY <2>1, <2>3 DEF Reentered, ExtentType
    <3>3. MovesOn
      BY <1>5, TakeSourceFacts
    <3>4. /\ enc_state' \in {"LOOP", "ENC_INSTR"} /\ input_position' \in Nat
          /\ input_position <= input_position'
      BY <3>3 DEF MovesOn, Onward
    <3>. QED BY <1>1, <3>1, <3>2, <3>4, SmallKept
  <2>. QED BY <2>2, <2>3
<1>6. CASE TakeRun
  <2>1. small' = small /\ enc_state = "LOOP"
    BY <1>6 DEF TakeRun, RunFound, matcher
  <2>2. MovesOn
    BY <1>6, RunTaken DEF FindInv
  <2>3. /\ enc_state' \in {"LOOP", "ENC_INSTR"} /\ input_position' \in Nat
        /\ input_position <= input_position'
    BY <2>2 DEF MovesOn, Onward
  <2>. QED BY <1>1, <2>1, <2>3, SmallKept
<1>7. CASE TrySmall
  BY <1>7, SmallInserted
<1>8. CASE MatchEnd
  <2>1. small' = small /\ enc_state' = "ENC_FLUSH"
    BY <1>8 DEF MatchEnd, Instr, matcher
  <2>. QED BY <1>1, <2>1, SmallKept
<1>9. CASE MatchNextWindow
  <2>1. small' = [small EXCEPT !.reset = TRUE] /\ enc_state' = "ENC_SEARCH"
    BY <1>9 DEF MatchNextWindow, NextWindow
  <2>. DEFINE t == small.table
  <2>2. small \in SmallWith({t}) /\ (~ small.allocated => DOMAIN t = {})
        /\ (\A x \in DOMAIN t : t[x] \in Nat) /\ small.allocated \in BOOLEAN
    BY SmallFacts
  <2>. HIDE DEF t
  <2>3. /\ small' \in SmallWith({t}) /\ small'.table = t /\ small'.reset
        /\ small'.allocated = small.allocated
    BY <2>1, <2>2 DEF SmallWith
  <2>4. (small \in SmallWith({small.table}))'
    BY <2>3 DEF SmallWith
  <2>. QED BY <2>1, <2>2, <2>3, <2>4 DEF SmallInv
<1>. QED BY <1>2, <1>3, <1>4, <1>5, <1>6, <1>7, <1>8, <1>9 DEF MatchNext

-----------------------------------------------------------------------------
(* The match that is extended, after a step.                               *)

Followed(m, e) ==
  /\ SourceMatch([srcpos |-> m.srcpos, back |-> e.back, fwd |-> e.fwd])
  /\ e.back <= e.maxback /\ e.fwd <= e.maxfwd
  /\ e.maxback <= input_position /\ e.maxback <= m.srcpos
  /\ e.maxfwd <= avail_in - input_position

AllBack(m, e) ==
  \/ e.back = e.maxback
  \/ Src(m.srcpos - e.back - 1) # Tgt(input_position - e.back - 1)
AllForward(m, e) ==
  \/ input_position + e.fwd = avail_in
  \/ m.srcpos + e.fwd = Len(input.src)
  \/ Src(m.srcpos + e.fwd) # Tgt(input_position + e.fwd)
Maximal(m, e, a) ==
  Free /\ e.maxfwd > 0 =>
    /\ e.maxback = Lesser(input_position, m.srcpos)
    /\ e.maxfwd \in {avail_in - input_position,
                     Lesser(avail_in - input_position, SrcEnd - m.srcpos)}
    /\ m.state = "MATCH_FORWARD" => AllBack(m, e)
    /\ a = "extended" => m.state = "MATCH_FORWARD" /\ AllForward(m, e)

LEMMA FollowedNow ==
  ASSUME FindInv, Extending
  PROVE  Followed(match, extent) /\ Maximal(match, extent, at)
<1>1. ExtentInv /\ MaximalExtent
  BY DEF FindInv
<1>2. Followed(match, extent)
  BY <1>1 DEF ExtentInv, Followed, Extension
<1>3. Maximal(match, extent, at)
  BY <1>1 DEF MaximalExtent, Maximal, Whole, BackDone, FwdDone, AllBack, AllForward
<1>. QED BY <1>2, <1>3

LEMMA FollowedNext ==
  ASSUME UNCHANGED <<input, total_in, avail_in, input_position>>,
         Followed(match', extent'), Maximal(match', extent', at')
  PROVE  ExtentInv' /\ MaximalExtent'
<1>1. SrcEnd' = SrcEnd /\ (Free' <=> Free)
  BY SameBlocks
<1>2. SourceMatch(Extension)'
  BY DEF Followed, SourceMatch, Extension, Src, Tgt
<1>3. ExtentInv'
  BY <1>2 DEF ExtentInv, Followed
<1>4. (AllBack(match', extent') => BackDone') /\ (AllForward(match', extent') => FwdDone')
  BY DEF AllBack, BackDone, AllForward, FwdDone, Src, Tgt
<1>5. MaximalExtent'
  BY <1>1, <1>4 DEF MaximalExtent, Maximal, Whole, Lesser
<1>. QED BY <1>3, <1>5

LEMMA NotExtending ==
  ASSUME ~ Extending'
  PROVE  ExtentInv' /\ MaximalExtent'
BY DEF ExtentInv, MaximalExtent

\* The extent only, without what the match may go on to.
LEMMA MaximalElsewhere ==
  ASSUME NEW m, NEW e, NEW f, NEW a, NEW b, Maximal(m, e, a), b # "extended",
         f.back = e.back, f.maxback = e.maxback, f.maxfwd = e.maxfwd
  PROVE  Maximal(m, f, b)
BY DEF Maximal, AllBack

LEMMA ForwardFollows ==
  ASSUME FindInv, ExtendForward
  PROVE  ExtentInv' /\ MaximalExtent'
<1>. DEFINE s == match.srcpos
            f == extent.fwd
            b == extent.back
            p == input_position
            right == s + f
<1>1. at = "extend" /\ match.state = "MATCH_FORWARD"
      /\ UNCHANGED <<input, total_in, avail_in, input_position>> /\ match' = match
  BY DEF ExtendForward, searchState
<1>2. /\ Extending /\ extent \in ExtentType
      /\ {p, avail_in, Len(input.src), s, b, f, extent.maxback, extent.maxfwd} \subseteq Nat
  BY <1>1, ExtendingLooks
<1>3. Followed(match, extent) /\ Maximal(match, extent, at)
  BY <1>2, FollowedNow
<1>4. SourceMatch([srcpos |-> s, back |-> b, fwd |-> f])
      /\ f <= extent.maxfwd /\ b <= extent.maxback /\ extent.maxback <= p
      /\ extent.maxback <= s /\ extent.maxfwd <= avail_in - p
  BY <1>3 DEF Followed
<1>4a. /\ s + f <= Len(input.src) /\ p + f <= avail_in
       /\ \A k \in 0 .. f - 1 : Src(s + k) = Tgt(p + k)
       /\ \A k \in 0 .. b - 1 : Src(s - k - 1) = Tgt(p - k - 1)
  BY <1>4 DEF SourceMatch
<1>5. SrcEnd \in Nat /\ Len(input.src) <= SrcEnd
  BY IndexFacts
<1>6. CASE f >= extent.maxfwd /\ UNCHANGED extent
  <2>1. f = extent.maxfwd
    BY <1>2, <1>4, <1>6
  <2>2. ASSUME Free, extent.maxfwd > 0 PROVE AllForward(match, extent)
    <3>1. extent.maxfwd \in {avail_in - p, Lesser(avail_in - p, SrcEnd - s)}
      BY <1>3, <2>2 DEF Maximal
    <3>2. CASE extent.maxfwd = avail_in - p
      <4>1. p + f = avail_in
        BY <1>2, <2>1, <3>2
      <4>. QED BY <4>1 DEF AllForward
    <3>3. CASE extent.maxfwd # avail_in - p
      <4>1. extent.maxfwd = SrcEnd - s
        BY <3>1, <3>3 DEF Lesser
      <4>2. s + f = Len(input.src)
        BY <1>2, <1>4a, <1>5, <2>1, <4>1
      <4>. QED BY <4>2 DEF AllForward
    <3>. QED BY <3>2, <3>3
  <2>3. Maximal(match, extent, at')
    BY <1>1, <1>3, <2>2 DEF Maximal
  <2>. QED BY <1>1, <1>3, <1>6, <2>3, FollowedNext
<1>7. CASE UNCHANGED extent /\ (at' = "asks" \/ input.fifo)
  <2>1. Maximal(match, extent, at')
    BY <1>3, <1>7 DEF Maximal, Free
  <2>. QED BY <1>1, <1>3, <1>7, <2>1, FollowedNext
<1>8. ASSUME NEW n \in Nat, extent' = [extent EXCEPT !.fwd = extent.fwd + n],
             extent.fwd + n <= extent.maxfwd, right + n <= Len(input.src),
             \A k \in 0 .. n - 1 : Src(right + k) = Tgt(input_position + extent.fwd + k),
             \/ at' = "extend"
             \/ /\ at' = "extended"
                /\ \/ right + n = Len(input.src)
                   \/ Src(right + n) # Tgt(input_position + extent.fwd + n)
      PROVE  ExtentInv' /\ MaximalExtent'
  <2>1. /\ extent'.fwd = f + n /\ extent'.back = b /\ extent'.maxback = extent.maxback
        /\ extent'.maxfwd = extent.maxfwd
    BY <1>2, <1>8 DEF ExtentType
  <2>2. \A k \in 0 .. f + n - 1 : Src(s + k) = Tgt(p + k)
    <3>. SUFFICES ASSUME NEW k \in 0 .. f + n - 1 PROVE Src(s + k) = Tgt(p + k)
      OBVIOUS
    <3>1. CASE k < f
      <4>1. k \in 0 .. f - 1
        BY <1>2, <3>1
      <4>. QED BY <1>4a, <4>1
    <3>2. CASE ~ (k < f)
      <4>. DEFINE j == k - f
      <4>1. j \in 0 .. n - 1 /\ right + j = s + k /\ p + f + j = p + k
        BY <1>2, <3>2
      <4>2. Src(right + j) = Tgt(p + f + j)
        <5>. HIDE DEF j
        <5>. QED BY <1>8, <4>1
      <4>. QED BY <4>1, <4>2
    <3>. QED BY <3>1, <3>2
  <2>3. /\ f + n \in Nat /\ s + (f + n) <= Len(input.src) /\ p + (f + n) <= avail_in
        /\ s + (f + n) = right + n /\ p + (f + n) = p + f + n
    <3>. DEFINE max == extent.maxfwd
                len == Len(input.src)
    <3>1. f + n <= max /\ s + f + n <= len
      BY <1>8
    <3>2. f \in Nat /\ s \in Nat /\ p \in Nat /\ max \in Nat /\ len \in Nat /\ avail_in \in Nat
      BY <1>2
    <3>3. max <= avail_in - p
      BY <1>4
    <3>. HIDE DEF s, f, b, p, max, len
    <3>. QED BY <3>1, <3>2, <3>3 DEF len
  <2>. HIDE DEF s, f, b, p
  <2>4. SourceMatch([srcpos |-> s, back |-> b, fwd |-> f + n])
    BY <1>2, <1>4, <1>4a, <2>2, <2>3 DEF SourceMatch, p
  <2>5. Followed(match', extent')
    BY <1>1, <1>4, <1>8, <2>1, <2>4 DEF Followed, s, p, f
  <2>6. at' = "extended" => AllForward(match', extent')
    <3>1. at' = "extended" => \/ s + (f + n) = Len(input.src)
                              \/ Src(s + (f + n)) # Tgt(p + (f + n))
      BY <1>8, <2>3 DEF s, f, p
    <3>. QED BY <1>1, <2>1, <3>1 DEF AllForward, s, p
  <2>7. AllBack(match, extent) => AllBack(match', extent')
    BY <1>1, <2>1 DEF AllBack, b
  <2>8. Maximal(match', extent', at')
    BY <1>1, <1>3, <2>1, <2>6, <2>7 DEF Maximal
  <2>. QED BY <1>1, <2>5, <2>8, FollowedNext
<1>9. \/ extent.fwd >= extent.maxfwd /\ UNCHANGED extent
      \/ UNCHANGED extent /\ (at' = "asks" \/ input.fifo)
      \/ \E n \in Nat :
           /\ extent' = [extent EXCEPT !.fwd = extent.fwd + n]
           /\ extent.fwd + n <= extent.maxfwd
           /\ right + n <= Len(input.src)
           /\ \A k \in 0 .. n - 1 : Src(right + k) = Tgt(input_position + extent.fwd + k)
           /\ \/ at' = "extend"
              \/ /\ at' = "extended"
                 /\ \/ right + n = Len(input.src)
                    \/ Src(right + n) # Tgt(input_position + extent.fwd + n)
  BY ForwardStep
<1>. QED BY <1>6, <1>7, <1>8, <1>9

LEMMA BackwardFollows ==
  ASSUME FindInv, ExtendBackward
  PROVE  ExtentInv' /\ MaximalExtent'
<1>. DEFINE s == match.srcpos
            f == extent.fwd
            b == extent.back
            p == input_position
            left == s - b
<1>1. at = "extend" /\ UNCHANGED <<input, total_in, avail_in, input_position>>
  BY DEF ExtendBackward, searchState
<1>2. /\ Extending /\ extent \in ExtentType /\ match \in MatchStates
      /\ {p, avail_in, Len(input.src), s, b, f, extent.maxback, extent.maxfwd} \subseteq Nat
  BY <1>1, ExtendingLooks
<1>3. Followed(match, extent) /\ Maximal(match, extent, at)
  BY <1>2, FollowedNow
<1>4. SourceMatch([srcpos |-> s, back |-> b, fwd |-> f])
      /\ f <= extent.maxfwd /\ b <= extent.maxback /\ extent.maxback <= p
      /\ extent.maxback <= s /\ extent.maxfwd <= avail_in - p
  BY <1>3 DEF Followed
<1>4a. /\ s + f <= Len(input.src) /\ p + f <= avail_in
       /\ \A k \in 0 .. f - 1 : Src(s + k) = Tgt(p + k)
       /\ \A k \in 0 .. b - 1 : Src(s - k - 1) = Tgt(p - k - 1)
  BY <1>4 DEF SourceMatch
<1>5. Forwards(match).srcpos = s /\ Forwards(match).state = "MATCH_FORWARD"
  BY <1>2, ForwardsFacts
<1>6. Followed(Forwards(match), extent)
  BY <1>3, <1>5 DEF Followed
<1>7. CASE b >= extent.maxback /\ match' = Forwards(match) /\ UNCHANGED <<at, extent>>
  <2>1. AllBack(match', extent')
    BY <1>2, <1>4, <1>7 DEF AllBack
  <2>2. Maximal(match', extent', at')
    BY <1>1, <1>3, <1>5, <1>7, <2>1 DEF Maximal
  <2>. QED BY <1>1, <1>6, <1>7, <2>2, FollowedNext
<1>8. CASE at' = "asks" /\ UNCHANGED <<match, extent>>
  <2>1. Maximal(match', extent', at')
    BY <1>3, <1>8 DEF Maximal
  <2>. QED BY <1>1, <1>3, <1>8, <2>1, FollowedNext
<1>9. CASE input.fifo /\ UNCHANGED extent /\ (match' = match \/ match' = Forwards(match))
  <2>1. Maximal(match', extent', at')
    BY <1>9 DEF Maximal, Free
  <2>2. Followed(match', extent')
    BY <1>3, <1>6, <1>9
  <2>. QED BY <1>1, <2>1, <2>2, FollowedNext
<1>10. ASSUME NEW n \in Nat, at' = at, extent' = [extent EXCEPT !.back = extent.back + n],
              extent.back + n <= extent.maxback,
              \A k \in 0 .. n - 1 :
                Src(left - k - 1) = Tgt(input_position - extent.back - k - 1),
              \/ match' = match
              \/ /\ match' = Forwards(match)
                 /\ Src(left - n - 1) # Tgt(input_position - extent.back - n - 1)
       PROVE  ExtentInv' /\ MaximalExtent'
  <2>1. /\ extent'.back = b + n /\ extent'.fwd = f /\ extent'.maxback = extent.maxback
        /\ extent'.maxfwd = extent.maxfwd
    BY <1>2, <1>10 DEF ExtentType
  <2>2. \A k \in 0 .. b + n - 1 : Src(s - k - 1) = Tgt(p - k - 1)
    <3>. SUFFICES ASSUME NEW k \in 0 .. b + n - 1 PROVE Src(s - k - 1) = Tgt(p - k - 1)
      OBVIOUS
    <3>1. CASE k < b
      <4>1. k \in 0 .. b - 1
        BY <1>2, <3>1
      <4>. QED BY <1>4a, <4>1
    <3>2. CASE ~ (k < b)
      <4>. DEFINE j == k - b
      <4>1. j \in 0 .. n - 1 /\ left - j - 1 = s - k - 1 /\ p - b - j - 1 = p - k - 1
        <5>1. b \in Nat /\ s \in Nat /\ p \in Nat /\ ~ (k < b)
          BY <1>2, <3>2
        <5>. HIDE DEF s, b, p
        <5>. QED BY <5>1
      <4>2. Src(left - j - 1) = Tgt(p - b - j - 1)
        <5>1. \A i \in 0 .. n - 1 : Src(left - i - 1) = Tgt(p - b - i - 1)
          BY <1>10
        <5>2. j \in 0 .. n - 1
          BY <4>1
        <5>. HIDE DEF j, left, p, b
        <5>. QED BY <5>1, <5>2
      <4>. QED BY <4>1, <4>2
    <3>. QED BY <3>1, <3>2
  <2>3. /\ b + n \in Nat /\ b + n <= p /\ b + n <= s
        /\ s - (b + n) - 1 = left - n - 1 /\ p - (b + n) - 1 = p - b - n - 1
    <3>. DEFINE max == extent.maxback
    <3>1. b + n <= max /\ max <= p /\ max <= s
      BY <1>4, <1>10
    <3>2. b \in Nat /\ s \in Nat /\ p \in Nat /\ max \in Nat
      BY <1>2
    <3>. HIDE DEF s, f, b, p, max
    <3>. QED BY <3>1, <3>2
  <2>4. match'.srcpos = s
    BY <1>5, <1>10
  <2>5. match.state = "MATCH_BACKWARD"
    BY DEF ExtendBackward
  <2>. HIDE DEF s, f, b, p
  <2>6. SourceMatch([srcpos |-> s, back |-> b + n, fwd |-> f])
    BY <1>2, <1>4, <1>4a, <2>2, <2>3 DEF SourceMatch, p
  <2>7. Followed(match', extent')
    BY <1>4, <1>10, <2>1, <2>4, <2>6 DEF Followed, p, b
  <2>8. match'.state = "MATCH_FORWARD" => AllBack(match', extent')
    <3>1. match'.state = "MATCH_FORWARD" => Src(s - (b + n) - 1) # Tgt(p - (b + n) - 1)
      BY <1>10, <2>3, <2>5 DEF s, b, p
    <3>. QED BY <2>1, <2>4, <3>1 DEF AllBack, p
  <2>9. Maximal(match', extent', at')
    BY <1>1, <1>3, <1>10, <2>1, <2>4, <2>8 DEF Maximal, s
  <2>. QED BY <1>1, <2>7, <2>9, FollowedNext
<1>11. \/ b >= extent.maxback /\ match' = Forwards(match) /\ UNCHANGED <<at, extent>>
       \/ at' = "asks" /\ UNCHANGED <<match, extent>>
       \/ input.fifo /\ UNCHANGED extent /\ (match' = match \/ match' = Forwards(match))
       \/ \E n \in Nat :
            /\ at' = at /\ extent' = [extent EXCEPT !.back = extent.back + n]
            /\ extent.back + n <= extent.maxback
            /\ \A k \in 0 .. n - 1 :
                 Src(left - k - 1) = Tgt(input_position - extent.back - k - 1)
            /\ \/ match' = match
               \/ /\ match' = Forwards(match)
                  /\ Src(left - n - 1) # Tgt(input_position - extent.back - n - 1)
  BY BackwardStep
<1>. QED BY <1>7, <1>8, <1>9, <1>10, <1>11

\* A match that is set up: nothing of it is known yet.
LEMMA NewExtent ==
  ASSUME BufferInv, Looks, SourceOk(source), NEW m, m.srcpos \in Nat,
         m.srcpos <= Len(input.src),
         NEW caller \in {"string_match", "encode_input"},
         m.state = "MATCH_FORWARD" => input_position = 0
  PROVE  LET e == Extent(m.srcpos, caller)
         IN  Followed(m, e) /\ Maximal(m, e, "extend")
<1>. DEFINE s == m.srcpos
            e == Extent(s, caller)
            p == input_position
<1>1. /\ e \in ExtentType /\ e.back = 0 /\ e.fwd = 0
      /\ e.maxback <= input_position /\ e.maxback <= s
      /\ e.maxfwd <= avail_in - input_position
      /\ ~ input.greedy => e.maxback = Lesser(input_position, s)
      /\ e.maxfwd \in {avail_in - input_position,
                       Lesser(avail_in - input_position, SrcEnd - s)}
  BY SetupFacts
<1>2. p \in Nat /\ p <= avail_in /\ avail_in \in Nat /\ Len(input.src) \in Nat
  BY LooksFacts, InputFacts DEF BufferInv
<1>3. e.maxback \in Nat /\ e.maxfwd \in Nat
  BY <1>1 DEF ExtentType
<1>. HIDE DEF e
<1>4. SourceMatch([srcpos |-> s, back |-> 0, fwd |-> 0])
  BY <1>2 DEF SourceMatch
<1>5. Followed(m, e)
  BY <1>1, <1>3, <1>4 DEF Followed
<1>6. m.state = "MATCH_FORWARD" /\ ~ input.greedy => AllBack(m, e)
  BY <1>1, <1>2 DEF AllBack, Lesser
<1>7. Maximal(m, e, "extend")
  BY <1>1, <1>6 DEF Maximal, Free
<1>. QED BY <1>5, <1>7 DEF e

LEMMA NoExtentFollows ==
  ASSUME BufferInv, Looks, NEW m, m.srcpos \in Nat, m.srcpos <= Len(input.src),
         NEW caller \in {"string_match", "encode_input"}, NEW a
  PROVE  LET e == NoExtent(caller)
         IN  Followed(m, e) /\ Maximal(m, e, a)
<1>. DEFINE e == NoExtent(caller)
            s == m.srcpos
<1>1. e.back = 0 /\ e.fwd = 0 /\ e.maxback = 0 /\ e.maxfwd = 0
  BY NoExtentFacts
<1>2. input_position \in Nat /\ input_position <= avail_in /\ avail_in \in Nat
      /\ Len(input.src) \in Nat
  BY LooksFacts, InputFacts DEF BufferInv
<1>. HIDE DEF e
<1>3. SourceMatch([srcpos |-> s, back |-> 0, fwd |-> 0])
  BY <1>2 DEF SourceMatch
<1>4. Followed(m, e)
  BY <1>1, <1>2, <1>3 DEF Followed
<1>5. Maximal(m, e, a)
  BY <1>1 DEF Maximal
<1>. QED BY <1>4, <1>5 DEF e

LEMMA EnterFollows ==
  ASSUME FindInv, Enter
  PROVE  ExtentInv' /\ MaximalExtent'
<1>1. /\ at = "enter" /\ Looks /\ UNCHANGED <<input, total_in, avail_in>>
      /\ BufferInv /\ SourceOk(source)
  BY DEF Enter, Looks, FindInv, SourceInv
<1>2. /\ match \in MatchStates /\ match.srcpos <= Len(input.src) /\ extent \in ExtentType
  BY DEF FindInv, ControlInv
<1>3. CASE ~ HasSource \/ match.state = "MATCH_SEARCHING"
  <2>1. match' = match
    BY <1>3 DEF Enter
  <2>2. Extending => HasSource
    BY DEF FindInv, ControlInv
  <2>3. ~ Extending
    BY <1>3, <2>2 DEF Extending
  <2>4. ~ Extending'
    BY <2>1, <2>3 DEF Extending
  <2>. QED BY <2>4, NotExtending
<1>4. CASE HasSource /\ match.state = "MATCH_TARGET"
  <2>1. /\ at' = "extend" /\ input_position' = input_position
        /\ extent' \in {NoExtent("encode_input"), Extent(match.srcpos, "encode_input")}
        /\ match' = [match EXCEPT !.state = "MATCH_FORWARD", !.last = match.srcpos]
    BY <1>4 DEF Enter
  <2>2. match'.srcpos = match.srcpos /\ match.srcpos \in Nat
    BY <1>2, <2>1 DEF MatchStates
  <2>3. input_position = 0
    <3>1. enc_state # "LOOP"
      <4>1. HasSource /\ enc_state = "LOOP" => match.state # "MATCH_TARGET"
        BY DEF FindInv, ControlInv
      <4>. HIDE DEF HasSource
      <4>. QED BY <1>4, <4>1
    <3>2. enc_state = "ENC_SEARCH"
      BY <1>1, <3>1 DEF Looks
    <3>. QED BY <1>1, <3>2 DEF BufferInv
  <2>4. Followed(match', extent') /\ Maximal(match', extent', "extend")
    <3>1. CASE extent' = NoExtent("encode_input")
      BY <1>1, <1>2, <2>2, <3>1, NoExtentFollows
    <3>2. CASE extent' = Extent(match.srcpos, "encode_input")
      BY <1>1, <1>2, <2>2, <2>3, <3>2, NewExtent
    <3>. QED BY <2>1, <3>1, <3>2
  <2>. QED BY <1>1, <2>1, <2>4, FollowedNext
<1>5. CASE HasSource /\ match.state \notin {"MATCH_SEARCHING", "MATCH_TARGET"}
  <2>1. /\ at' = "extend" /\ input_position' = input_position /\ match' = match
        /\ extent' = [extent EXCEPT !.caller = "encode_input"]
    BY <1>5 DEF Enter
  <2>2. Extending
    BY <1>2, <1>5 DEF Extending, MatchStates
  <2>3. Followed(match, extent) /\ Maximal(match, extent, at)
    BY <2>2, FollowedNow
  <2>4. /\ extent'.back = extent.back /\ extent'.fwd = extent.fwd
        /\ extent'.maxback = extent.maxback /\ extent'.maxfwd = extent.maxfwd
    BY <1>2, <2>1 DEF ExtentType
  <2>5. Followed(match', extent')
    BY <2>1, <2>3, <2>4 DEF Followed
  <2>6. Maximal(match', extent', at')
    BY <2>1, <2>3, <2>4, MaximalElsewhere
  <2>. QED BY <1>1, <2>1, <2>5, <2>6, FollowedNext
<1>. QED BY <1>3, <1>4, <1>5

LEMMA LookUpFollows ==
  ASSUME FindInv, LookUp
  PROVE  ExtentInv' /\ MaximalExtent'
<1>. DEFINE h == LargeHash(Bytes(input.tgt, absolute_input_pos, LargeLook))
            p == index.large_table[h]
<1>1. /\ at = "large" /\ UNCHANGED <<input, total_in, avail_in, input_position>>
      /\ \/ match' = match
         \/ match' = Searching(p)
         \/ /\ h \in DOMAIN index.large_table
            /\ match' = [state |-> "MATCH_BACKWARD", srcpos |-> p, last |-> p]
            /\ extent' = Extent(p, "string_match") /\ at' = "extend"
  BY DEF LookUp
<1>2. /\ enc_state = "LOOP" /\ ~ Extending
  BY <1>1 DEF FindInv, ControlInv
<1>3. CASE match' = match \/ match' = Searching(p)
  <2>1. ~ Extending'
    BY <1>2, <1>3 DEF Extending, Searching
  <2>. QED BY <2>1, NotExtending
<1>4. CASE /\ h \in DOMAIN index.large_table
           /\ match' = [state |-> "MATCH_BACKWARD", srcpos |-> p, last |-> p]
           /\ extent' = Extent(p, "string_match") /\ at' = "extend"
  <2>1. p \in Nat /\ p + LargeLook <= Len(input.src)
    BY <1>4 DEF FindInv, IndexInv, TableTrue
  <2>2. LargeLook \in Nat /\ Len(input.src) \in Nat
    BY IoptAssumption, IndexFacts DEF MIN_MATCH
  <2>. HIDE DEF p, h
  <2>3. p <= Len(input.src)
    BY <2>1, <2>2
  <2>4. match'.srcpos = p /\ match'.state = "MATCH_BACKWARD"
    BY <1>4
  <2>5. BufferInv /\ Looks /\ SourceOk(source)
    BY <1>2 DEF FindInv, SourceInv, Looks
  <2>6. Followed(match', extent') /\ Maximal(match', extent', "extend")
    BY <1>4, <2>1, <2>3, <2>4, <2>5, NewExtent
  <2>. QED BY <1>1, <1>4, <2>6, FollowedNext
<1>. QED BY <1>1, <1>3, <1>4

LEMMA ExtentStep ==
  ASSUME FindInv, Unlimited, [MatchNext]_allVars
  PROVE  ExtentInv' /\ MaximalExtent'
<1>1. CASE Provide \/ UNCHANGED allVars
  <2>1. /\ UNCHANGED <<input, total_in, avail_in, input_position, match, extent>>
        /\ at' = "enter" \/ at' = at
    BY <1>1 DEF Provide, vars, matcher, allVars
  <2>2. CASE Extending
    <3>1. Followed(match, extent) /\ Maximal(match, extent, at)
      BY <2>2, FollowedNow
    <3>2. Maximal(match', extent', at')
      BY <2>1, <3>1, MaximalElsewhere
    <3>. QED BY <2>1, <3>1, <3>2, FollowedNext
  <2>3. CASE ~ Extending
    <3>1. ~ Extending'
      BY <2>1, <2>3 DEF Extending
    <3>. QED BY <3>1, NotExtending
  <2>. QED BY <2>2, <2>3
<1>2. CASE ExtendBackward \/ ExtendForward
  BY <1>2, BackwardFollows, ForwardFollows
<1>3. CASE Enter \/ LookUp
  BY <1>3, EnterFollows, LookUpFollows
<1>4. CASE NoRun \/ MoveStart \/ IndexBlock \/ MoveEnd \/ TakeRun \/ TrySmall \/ MatchEnd
           \/ MatchNextWindow
  <2>1. match' = match
    <3>1. CASE NoRun \/ MoveStart \/ IndexBlock \/ MoveEnd
      BY <3>1 DEF NoRun, MoveStart, IndexBlock, MoveEnd, vars
    <3>2. CASE TakeRun \/ TrySmall
      BY <3>2 DEF TakeRun, RunFound, TrySmall
    <3>3. CASE MatchEnd \/ MatchNextWindow
      BY <3>3 DEF MatchEnd, MatchNextWindow, Instr, NextWindow
    <3>. QED BY <1>4, <3>1, <3>2, <3>3
  <2>2. at \in {"top", "restart", "move", "indexing", "small"} \/ enc_state = "ENC_FLUSH"
    <3>1. CASE NoRun \/ MoveStart \/ IndexBlock \/ MoveEnd
      BY <3>1 DEF NoRun, MoveStart, IndexBlock, MoveEnd
    <3>2. CASE TakeRun \/ TrySmall
      BY <3>2 DEF TakeRun, TrySmall
    <3>3. CASE MatchEnd \/ MatchNextWindow
      BY <3>3 DEF MatchEnd, MatchNextWindow, NextWindow
    <3>. QED BY <1>4, <3>1, <3>2, <3>3
  <2>3. ~ Extending
    BY <2>2 DEF FindInv, ControlInv
  <2>4. ~ Extending'
    BY <2>1, <2>3 DEF Extending
  <2>. QED BY <2>4, NotExtending
<1>5. CASE Extend
  <2>1. ~ Extending'
    BY <1>5 DEF Extend, Extending, Searching
  <2>. QED BY <2>1, NotExtending
<1>6. CASE TakeSource
  <2>1. ~ Extending'
    BY <1>6, TakeSourceFacts DEF Extending
  <2>. QED BY <2>1, NotExtending
<1>. QED BY <1>1, <1>2, <1>3, <1>4, <1>5, <1>6 DEF MatchNext

-----------------------------------------------------------------------------
(* What the buffer holds, after a step.                                    *)

LEMMA UsedPrimed ==
  ASSUME UNCHANGED <<input, total_in, avail_in>>,
         Free => \A k \in 1 .. Len(iopt'.used) : MaximalCopy(iopt'.used[k])
  PROVE  MaximalUsed'
<1>1. Free' <=> Free
  BY SameBlocks
<1>2. ASSUME NEW i, MaximalCopy(i) PROVE MaximalCopy(i)'
  BY <1>2 DEF MaximalCopy, EndOf, Src, Tgt
<1>. QED BY <1>1, <1>2 DEF MaximalUsed, MaximalCopy, EndOf, Src, Tgt

LEMMA UsedAdded ==
  ASSUME FindInv, UNCHANGED <<input, total_in, avail_in>>, NEW i,
         AddsOnly(iopt'.used, iopt.used, i), Free => MaximalCopy(i)
  PROVE  MaximalUsed'
<1>1. MaximalUsed
  BY DEF FindInv
<1>2. ASSUME Free, NEW k \in 1 .. Len(iopt'.used) PROVE MaximalCopy(iopt'.used[k])
  <2>1. iopt'.used[k] = i \/ \E j \in 1 .. Len(iopt.used) : iopt'.used[k] = iopt.used[j]
    BY DEF AddsOnly
  <2>2. \A j \in 1 .. Len(iopt.used) : MaximalCopy(iopt.used[j])
    BY <1>1, <1>2 DEF MaximalUsed
  <2>. QED BY <1>2, <2>1, <2>2
<1>. QED BY <1>2, UsedPrimed

LEMMA NothingUsed ==
  ASSUME iopt'.used = <<>>
  PROVE  MaximalUsed'
<1>1. Len(iopt'.used) = 0
  OBVIOUS
<1>. QED BY <1>1 DEF MaximalUsed

\* The match that was extended as far as it goes.
LEMMA CopyIsMaximal ==
  ASSUME FindInv, at = "extended", ~ TooShort, Free
  PROVE  MaximalCopy(CopyOf(Extension))
<1>. DEFINE s == match.srcpos
            f == extent.fwd
            b == extent.back
            p == input_position
            i == CopyOf(Extension)
<1>1. /\ Looks /\ Extending /\ extent \in ExtentType
      /\ {p, avail_in, Len(input.src), s, b, f, extent.maxback, extent.maxfwd} \subseteq Nat
      /\ f <= extent.maxfwd /\ b <= extent.maxback
      /\ extent.maxback <= p /\ extent.maxback <= s
  BY ExtendingLooks
<1>2. f > 0 /\ extent.maxfwd > 0
  <2>1. min_match \in Nat /\ min_match >= MIN_MATCH
    BY <1>1, LooksFacts DEF FindInv
  <2>2. f >= min_match
    BY <1>1, <2>1 DEF TooShort
  <2>. QED BY <1>1, <2>1, <2>2 DEF MIN_MATCH
<1>3. /\ extent.maxback = Lesser(p, s)
      /\ AllBack(match, extent) /\ AllForward(match, extent)
  BY <1>1, <1>2, FollowedNow DEF Maximal
<1>4. /\ i.pos = p - b /\ i.addr = s - b /\ i.size = b + f
  BY DEF CopyOf, Extension
<1>5. EndOf(i) = p + f /\ i.addr + i.size = s + f
  <2>1. EndOf(i) = (p - b) + (b + f) /\ i.addr + i.size = (s - b) + (b + f)
    BY <1>4 DEF EndOf
  <2>2. p \in Nat /\ s \in Nat /\ b \in Nat /\ f \in Nat
    BY <1>1
  <2>. HIDE DEF p, s, b, f, i
  <2>. QED BY <2>1, <2>2
<1>6. \/ EndOf(i) = avail_in \/ i.addr + i.size = Len(input.src)
      \/ Src(i.addr + i.size) # Tgt(EndOf(i))
  BY <1>3, <1>5 DEF AllForward
<1>7. \/ i.pos = 0 \/ i.addr = 0 \/ Src(i.addr - 1) # Tgt(i.pos - 1)
  <2>1. CASE b = extent.maxback
    <3>1. b = p \/ b = s
      BY <1>3, <2>1 DEF Lesser
    <3>. QED BY <1>1, <1>4, <3>1
  <2>2. CASE b # extent.maxback
    BY <1>3, <1>4, <2>2 DEF AllBack
  <2>. QED BY <2>1, <2>2
<1>. HIDE DEF i
<1>8. MaximalCopy(i)
  BY <1>6, <1>7 DEF MaximalCopy
<1>. QED BY <1>8 DEF i

LEMMA UsedStep ==
  ASSUME FindInv, Unlimited, BufferInv', [MatchNext]_allVars
  PROVE  MaximalUsed'
<1>0. MaximalUsed
  BY DEF FindInv
<1>1. CASE Provide \/ NoRun \/ MoveStart \/ IndexBlock \/ MoveEnd \/ LookUp
           \/ ExtendBackward \/ ExtendForward \/ Enter \/ Extend \/ UNCHANGED allVars
  <2>1. UNCHANGED <<input, total_in, avail_in, iopt>>
    <3>1. CASE Provide \/ NoRun \/ MoveStart
      BY <3>1 DEF Provide, NoRun, MoveStart, vars, matcher
    <3>2. CASE IndexBlock \/ MoveEnd
      BY <3>2 DEF IndexBlock, MoveEnd, vars
    <3>3. CASE LookUp \/ ExtendBackward \/ ExtendForward
      BY <3>3 DEF LookUp, ExtendBackward, ExtendForward, searchState
    <3>4. CASE Enter \/ Extend \/ UNCHANGED allVars
      BY <3>4 DEF Enter, Extend, allVars, vars
    <3>. QED BY <1>1, <3>1, <3>2, <3>3, <3>4
  <2>. QED BY <1>0, <2>1, UsedPrimed DEF MaximalUsed
<1>2. CASE TakeRun
  <2>1. UNCHANGED <<input, total_in, avail_in>>
    BY <1>2 DEF TakeRun, RunFound
  <2>2. PICK i : i.type = RUN /\ AddsOnly(iopt'.used, iopt.used, i)
    BY <1>2, RunTaken DEF FindInv
  <2>3. MaximalCopy(i)
    BY <2>2 DEF MaximalCopy, RUN, CPY
  <2>. QED BY <2>1, <2>2, <2>3, UsedAdded
<1>3. CASE TrySmall
  <2>1. UNCHANGED <<input, total_in, avail_in>> /\ enc_state = "LOOP"
    <3>1. at = "small" /\ UNCHANGED <<input, total_in, avail_in>>
      BY <1>3 DEF TrySmall
    <3>. QED BY <3>1 DEF FindInv, ControlInv
  <2>2. iopt' = iopt \/ \E i : i.xtra = 0 /\ AddsOnly(iopt'.used, iopt.used, i)
    BY <1>3, <2>1, SmallTaken DEF FindInv
  <2>3. CASE iopt' = iopt
    BY <1>0, <2>1, <2>3, UsedPrimed DEF MaximalUsed
  <2>4. ASSUME NEW i, i.xtra = 0, AddsOnly(iopt'.used, iopt.used, i) PROVE MaximalUsed'
    <3>1. MaximalCopy(i)
      BY <2>4 DEF MaximalCopy
    <3>. QED BY <2>1, <2>4, <3>1, UsedAdded
  <2>. QED BY <2>2, <2>3, <2>4
<1>4. CASE TakeSource
  <2>1. UNCHANGED <<input, total_in, avail_in>> /\ at = "extended" /\ ~ TooShort
    BY <1>4 DEF TakeSource
  <2>2. AddsOnly(iopt'.used, iopt.used, CopyOf(Extension))
    BY <1>4, TakeSourceFacts
  <2>. QED BY <2>1, <2>2, CopyIsMaximal, UsedAdded
<1>5. CASE MatchEnd
  <2>1. enc_state' = "ENC_FLUSH"
    BY <1>5 DEF MatchEnd, Instr
  <2>. QED BY <2>1, NothingUsed DEF BufferInv, Written
<1>6. CASE MatchNextWindow
  <2>1. enc_state' = "ENC_SEARCH"
    BY <1>6 DEF MatchNextWindow, NextWindow
  <2>. QED BY <2>1, NothingUsed DEF BufferInv
<1>. QED BY <1>1, <1>2, <1>3, <1>4, <1>5, <1>6 DEF MatchNext

-----------------------------------------------------------------------------
(* How far the blocks that the FIFO holds may be ahead, after a step.      *)

LEMMA MinMatchBound ==
  ASSUME FindInv, Looks
  PROVE  min_match \in Nat /\ min_match <= Slack /\ Slack \in Nat /\ Slack >= MIN_MATCH
<1>1. min_match \in Nat /\ Slack \in Nat
  BY LooksFacts, ReachFacts DEF FindInv
<1>2. MIN_MATCH <= Slack
  <2>1. input.max_lazy \in Nat
    BY InputFacts DEF FindInv, BufferInv
  <2>. QED BY <2>1 DEF Slack, Greater, MIN_MATCH
<1>3. enc_state = "ENC_SEARCH" => min_match = MIN_MATCH
  BY DEF FindInv, BufferInv
<1>4. enc_state = "LOOP" => min_match <= Slack
  BY DEF FindInv, FifoInv
<1>. HIDE DEF Slack
<1>. QED BY <1>1, <1>2, <1>3, <1>4 DEF Looks, MIN_MATCH

LEMMA MinMatchStep ==
  ASSUME FindInv, Unlimited, [MatchNext]_allVars, enc_state' = "LOOP"
  PROVE  min_match' <= Slack
<1>1. CASE enc_state = "LOOP" /\ min_match' = min_match
  BY <1>1, MinMatchBound DEF Looks
<1>2. ASSUME Looks, MovesOn PROVE min_match' <= Slack
  <2>1. min_match' <= Greater(Slack, min_match)
    BY <1>2 DEF MovesOn
  <2>2. min_match \in Nat /\ min_match <= Slack /\ Slack \in Nat
    BY <1>2, MinMatchBound
  <2>3. Greater(Slack, min_match) = Slack
    BY <2>2 DEF Greater
  <2>. QED BY <2>1, <2>3
<1>3. ASSUME Looks, min_match' <= Greater(MIN_MATCH, min_match) PROVE min_match' <= Slack
  <2>1. /\ min_match \in Nat /\ min_match <= Slack /\ Slack \in Nat /\ Slack >= MIN_MATCH
        /\ min_match >= MIN_MATCH
    BY <1>3, MinMatchBound, LooksFacts DEF FindInv
  <2>2. Greater(MIN_MATCH, min_match) = min_match
    BY <2>1 DEF Greater, MIN_MATCH
  <2>3. min_match' <= min_match
    BY <1>3, <2>2
  <2>4. min_match' \in Int
    <3>1. BufferInv'
      BY ControlStep
    <3>. QED BY <3>1 DEF BufferInv, Looking
  <2>. QED BY <2>1, <2>3, <2>4
<1>4. CASE Provide \/ NoRun \/ MoveStart \/ IndexBlock \/ MoveEnd \/ LookUp
           \/ ExtendBackward \/ ExtendForward \/ UNCHANGED allVars
  <2>1. UNCHANGED <<enc_state, min_match>>
    <3>1. CASE Provide \/ NoRun \/ MoveStart
      BY <3>1 DEF Provide, NoRun, MoveStart, vars
    <3>2. CASE IndexBlock \/ MoveEnd
      BY <3>2 DEF IndexBlock, MoveEnd, vars
    <3>3. CASE LookUp \/ ExtendBackward \/ ExtendForward
      BY <3>3 DEF LookUp, ExtendBackward, ExtendForward, searchState
    <3>4. CASE UNCHANGED allVars
      BY <3>4 DEF allVars, vars
    <3>. QED BY <1>4, <3>1, <3>2, <3>3, <3>4
  <2>. QED BY <1>1, <2>1
<1>5. CASE Enter
  <2>1. Looks /\ UNCHANGED <<input, total_in, avail_in, iopt>>
    BY <1>5 DEF Enter, Looks
  <2>2. CASE StringMatch(input_position, iopt)
    <3>1. Restart(input_position, iopt)
      BY <2>2 DEF StringMatch
    <3>2. min_match' <= Greater(MIN_MATCH, min_match)
      BY <2>1, <3>1, StartsAgain DEF FindInv
    <3>. QED BY <2>1, <3>2, <1>3
  <2>3. CASE ~ StringMatch(input_position, iopt)
    <3>1. UNCHANGED <<enc_state, min_match>>
      BY <1>5, <2>3 DEF Enter
    <3>. QED BY <1>1, <3>1
  <2>. QED BY <2>2, <2>3
<1>6. CASE Extend
  <2>1. Looks
    BY <1>6, ExtendingLooks DEF Extend
  <2>2. min_match' <= Greater(MIN_MATCH, min_match)
    BY <1>6, ControlExtend
  <2>. QED BY <2>1, <2>2, <1>3
<1>7. CASE TakeRun
  <2>1. Looks
    BY <1>7 DEF TakeRun, RunFound, Looks
  <2>. QED BY <1>2, <1>7, <2>1, RunTaken DEF FindInv
<1>8. CASE TrySmall
  <2>1. at = "small"
    BY <1>8 DEF TrySmall
  <2>2. enc_state = "LOOP" /\ Looks
    BY <2>1 DEF FindInv, ControlInv, Looks
  <2>. QED BY <1>2, <1>8, <2>2, SmallTaken DEF FindInv
<1>9. CASE TakeSource
  <2>1. Looks
    BY <1>9, ExtendingLooks DEF TakeSource
  <2>. QED BY <1>2, <1>9, <2>1, TakeSourceFacts
<1>10. CASE MatchEnd \/ MatchNextWindow
  BY <1>10 DEF MatchEnd, MatchNextWindow, Instr, NextWindow
<1>. QED BY <1>4, <1>5, <1>6, <1>7, <1>8, <1>9, <1>10 DEF MatchNext

\* Nothing is asked of the client when the blocks are held in a FIFO.
LEMMA AsksStep ==
  ASSUME FindInv, [MatchNext]_allVars, input.fifo
  PROVE  at' # "asks"
<1>0. at # "asks"
  BY DEF FindInv, FifoInv
<1>1. CASE IndexBlock
  <2>. DEFINE b == index.srcwin_cksum_pos \div blksize
  <2>1. b \in 0 .. LastBlock /\ (at' = "asks" => Getblk(b).ret = "XD3_GETSRCBLK")
    BY <1>1, IndexBlockKeeps
  <2>2. input \in Inputs /\ SourceOk(source)
    BY IndexFacts
  <2>. HIDE DEF b
  <2>. QED BY <2>1, <2>2, GetblkFacts
<1>2. CASE ExtendBackward
  BY <1>0, <1>2, BackwardStep DEF ExtendBackward
<1>3. CASE ExtendForward
  BY <1>3, ForwardStep
<1>4. CASE Provide \/ NoRun \/ MoveStart \/ LookUp \/ UNCHANGED allVars
  BY <1>0, <1>4 DEF Provide, NoRun, MoveStart, Then, LookUp, allVars
<1>5. CASE MoveEnd
  <2>1. index.then \in {"top", "large"}
    BY IndexFacts
  <2>. QED BY <1>5, <2>1 DEF MoveEnd
<1>6. CASE Enter \/ Extend \/ TakeRun \/ TrySmall \/ TakeSource
  <2>1. \/ Restarted \/ \E n : Handled(n)
        \/ at' \in {"extend", "small", "top"}
    <3>1. CASE Enter \/ Extend
      BY <3>1 DEF Enter, Extend, StringMatch
    <3>2. CASE TakeRun \/ TrySmall
      BY <3>2 DEF TakeRun, TrySmall
    <3>3. CASE TakeSource
      BY <3>3 DEF TakeSource
    <3>. QED BY <1>6, <3>1, <3>2, <3>3
  <2>. QED BY <2>1, AfterRestart, AfterHandled
<1>7. CASE MatchEnd \/ MatchNextWindow
  BY <1>0, <1>7 DEF MatchEnd, MatchNextWindow
<1>. QED BY <1>1, <1>2, <1>3, <1>4, <1>5, <1>6, <1>7 DEF MatchNext

\* What is indexed or matched does not go back, or is all of the source.
LEMMA FrontierStep ==
  ASSUME FindInv, [MatchNext]_allVars
  PROVE  /\ Frontier \in Nat /\ Frontier' \in Nat
         /\ Frontier <= Frontier' \/ (MoveEnd /\ SrcEnd <= Frontier')
         /\ index'.maxsrcaddr \in Nat /\ index'.maxsrcaddr <= Frontier'
         /\ ~ MoveEnd => Frontier <= Frontier'
<1>. DEFINE c == index.srcwin_cksum_pos
            a == index.maxsrcaddr
            d == index'.srcwin_cksum_pos
            e == index'.maxsrcaddr
<1>1. /\ c \in Nat /\ a \in Nat /\ d \in Nat /\ e \in Nat /\ a <= e
      /\ c <= d \/ (MoveEnd /\ d = SrcEnd)
  BY IndexFacts, IndexStep
<1>2. Frontier = Greater(c, a) /\ Frontier' = Greater(d, e)
  BY DEF Frontier, Greater
<1>. HIDE DEF a, c, d, e
<1>3. /\ Greater(c, a) \in Nat /\ Greater(d, e) \in Nat /\ e <= Greater(d, e)
      /\ d <= Greater(d, e) /\ (c <= d => Greater(c, a) <= Greater(d, e))
  BY <1>1 DEF Greater
<1>4. SrcEnd \in Nat
  BY IndexFacts
<1>. QED BY <1>1, <1>2, <1>3, <1>4 DEF e

\* The steps that leave the match and its extent alone, when nothing is extended.
LEMMA MatchSame ==
  ASSUME FindInv, NoRun \/ MoveStart \/ IndexBlock \/ MoveEnd \/ TakeRun \/ TrySmall
                  \/ MatchEnd \/ MatchNextWindow
  PROVE  match' = match /\ ~ Extending
<1>1. match' = match
  <2>1. CASE NoRun \/ MoveStart \/ IndexBlock \/ MoveEnd
    BY <2>1 DEF NoRun, MoveStart, IndexBlock, MoveEnd, vars
  <2>2. CASE TakeRun \/ TrySmall
    BY <2>2 DEF TakeRun, RunFound, TrySmall
  <2>3. CASE MatchEnd \/ MatchNextWindow
    BY <2>3 DEF MatchEnd, MatchNextWindow, Instr, NextWindow
  <2>. QED BY <2>1, <2>2, <2>3
<1>2. at \in {"top", "restart", "move", "indexing", "small"} \/ enc_state = "ENC_FLUSH"
  <2>1. CASE NoRun \/ MoveStart \/ IndexBlock \/ MoveEnd
    BY <2>1 DEF NoRun, MoveStart, IndexBlock, MoveEnd
  <2>2. CASE TakeRun \/ TrySmall
    BY <2>2 DEF TakeRun, TrySmall
  <2>3. CASE MatchEnd \/ MatchNextWindow
    BY <2>3 DEF MatchEnd, MatchNextWindow, NextWindow
  <2>. QED BY <2>1, <2>2, <2>3
<1>3. ~ Extending
  BY <1>2 DEF FindInv, ControlInv
<1>. QED BY <1>1, <1>3

\* Where the source match is after a step: where it was, or where the table says, or
\* at the end of what was matched.
LEMMA MatchMoves ==
  ASSUME FindInv, Unlimited, [MatchNext]_allVars
  PROVE  \/ match'.state = "MATCH_SEARCHING"
         \/ match'.srcpos = match.srcpos /\ match.state # "MATCH_SEARCHING"
         \/ match'.srcpos \in Nat /\ match'.srcpos < index.srcwin_cksum_pos /\ ~ MoveEnd
         \/ TakeSource /\ match'.srcpos = match.srcpos + extent.fwd
<1>0. match \in MatchStates
  BY DEF FindInv, ControlInv
<1>1. CASE match' = match
  BY <1>1
<1>2. CASE Enter
  BY <1>0, <1>2 DEF Enter, MatchStates
<1>3. CASE LookUp
  <2>. DEFINE h == LargeHash(Bytes(input.tgt, absolute_input_pos, LargeLook))
              p == index.large_table[h]
  <2>1. \/ match' = match
        \/ match' = Searching(p)
        \/ h \in DOMAIN index.large_table /\ match'.srcpos = p
    BY <1>3 DEF LookUp
  <2>2. h \in DOMAIN index.large_table => p \in Nat /\ p < index.srcwin_cksum_pos
    BY IndexFacts DEF TableTrue
  <2>3. Searching(p).state = "MATCH_SEARCHING"
    BY DEF Searching
  <2>4. ~ MoveEnd
    BY <1>3 DEF LookUp, MoveEnd
  <2>. HIDE DEF h, p
  <2>. QED BY <1>1, <2>1, <2>2, <2>3, <2>4
<1>4. CASE Extend
  BY <1>4 DEF Extend, Searching
<1>5. CASE TakeSource
  BY <1>5, TakeSourceFacts
<1>6. CASE ExtendBackward
  <2>1. match' = match \/ match' = Forwards(match)
    BY <1>6, BackwardStep
  <2>2. match.state = "MATCH_BACKWARD"
    BY <1>6 DEF ExtendBackward
  <2>. QED BY <1>0, <2>1, <2>2 DEF Forwards, MatchStates
<1>7. CASE Provide \/ ExtendForward \/ UNCHANGED allVars
  <2>1. match' = match
    BY <1>7 DEF Provide, ExtendForward, allVars, vars
  <2>. QED BY <1>1, <2>1
<1>8. CASE NoRun \/ MoveStart \/ IndexBlock \/ MoveEnd \/ TakeRun \/ TrySmall \/ MatchEnd
           \/ MatchNextWindow
  BY <1>1, <1>8, MatchSame
<1>. QED BY <1>2, <1>3, <1>4, <1>5, <1>6, <1>7, <1>8 DEF MatchNext

\* A match that can be gone on with is at a position that has been indexed or
\* matched.
LEMMA MatchPosStep ==
  ASSUME FindInv, Unlimited, [MatchNext]_allVars, match'.state # "MATCH_SEARCHING"
  PROVE  match'.srcpos <= Frontier'
<1>1. /\ Frontier \in Nat /\ Frontier' \in Nat
      /\ Frontier <= Frontier' \/ (MoveEnd /\ SrcEnd <= Frontier')
      /\ index'.maxsrcaddr \in Nat /\ index'.maxsrcaddr <= Frontier'
      /\ ~ MoveEnd => Frontier <= Frontier'
  BY FrontierStep
<1>2. /\ match.srcpos \in Nat /\ extent.fwd \in Nat /\ match.srcpos <= Len(input.src)
      /\ match.state # "MATCH_SEARCHING" => match.srcpos <= Frontier
  BY DEF FindInv, ControlInv, FifoInv, MatchStates, ExtentType
<1>3. /\ Len(input.src) \in Nat /\ SrcEnd \in Nat /\ Len(input.src) <= SrcEnd
      /\ index.srcwin_cksum_pos \in Nat
  BY IndexFacts
<1>4. index.srcwin_cksum_pos <= Frontier
  BY IndexFacts DEF Frontier, Greater
<1>5. TakeSource => match.srcpos + extent.fwd <= index'.maxsrcaddr
  BY IndexStep
<1>. HIDE DEF Frontier
<1>6. CASE match'.srcpos = match.srcpos /\ match.state # "MATCH_SEARCHING"
  BY <1>1, <1>2, <1>3, <1>6
<1>7. CASE match'.srcpos \in Nat /\ match'.srcpos < index.srcwin_cksum_pos /\ ~ MoveEnd
  BY <1>1, <1>3, <1>4, <1>7
<1>8. CASE TakeSource /\ match'.srcpos = match.srcpos + extent.fwd
  BY <1>1, <1>2, <1>5, <1>8
<1>. QED BY MatchMoves, <1>6, <1>7, <1>8

\* A match that is being extended stays where it is and does not get shorter, until
\* it is entered or is found to be too short.
LEMMA ExtendingMoves ==
  ASSUME FindInv, Unlimited, [MatchNext]_allVars, Extending
  PROVE  \/ Extending' /\ match'.srcpos = match.srcpos /\ extent.fwd <= extent'.fwd
         \/ Extend /\ match.srcpos + extent.fwd <= Frontier + Slack
         \/ TakeSource
<1>0. /\ match \in MatchStates /\ extent \in ExtentType /\ HasSource
      /\ at \in {"extend", "extended", "asks", "enter"}
      /\ match.srcpos <= Frontier
  BY DEF FindInv, ControlInv, FifoInv, Extending
<1>1. extent.fwd \in Nat /\ match.srcpos \in Nat
  BY <1>0 DEF MatchStates, ExtentType
<1>2. CASE Provide \/ UNCHANGED allVars
  <2>1. match' = match /\ extent' = extent
    BY <1>2 DEF Provide, allVars, vars, matcher
  <2>. QED BY <1>1, <2>1 DEF Extending
<1>3. CASE Enter
  <2>1. match.state \in {"MATCH_BACKWARD", "MATCH_FORWARD"}
    BY DEF Extending
  <2>2. match' = match /\ extent' = [extent EXCEPT !.caller = "encode_input"]
    BY <1>0, <1>3, <2>1 DEF Enter
  <2>3. extent'.fwd = extent.fwd
    BY <1>0, <2>2 DEF ExtentType
  <2>. QED BY <1>1, <2>2, <2>3 DEF Extending
<1>4. CASE ExtendForward
  <2>1. match' = match
    BY <1>4 DEF ExtendForward
  <2>2. extent' = extent \/ \E n \in Nat : extent' = [extent EXCEPT !.fwd = extent.fwd + n]
    BY <1>4, ForwardStep
  <2>3. extent.fwd <= extent'.fwd
    BY <1>0, <1>1, <2>2 DEF ExtentType
  <2>. QED BY <2>1, <2>3 DEF Extending
<1>5. CASE ExtendBackward
  <2>1. /\ match' = match \/ match' = Forwards(match)
        /\ extent' = extent \/ \E n : extent' = [extent EXCEPT !.back = n]
    BY <1>5, BackwardStep
  <2>2. extent'.fwd = extent.fwd
    BY <1>0, <2>1 DEF ExtentType
  <2>3. match'.srcpos = match.srcpos
        /\ match'.state \in {"MATCH_BACKWARD", "MATCH_FORWARD"}
    BY <1>0, <2>1 DEF Forwards, MatchStates, Extending
  <2>. QED BY <1>1, <2>2, <2>3 DEF Extending
<1>6. CASE Extend
  <2>1. at = "extended" /\ extent.fwd < min_match
    BY <1>6 DEF Extend, TooShort
  <2>2. min_match \in Nat /\ min_match <= Slack /\ Slack \in Nat /\ Frontier \in Nat
    BY <2>1, ExtendingLooks, MinMatchBound, ReachFacts
  <2>3. match.srcpos + extent.fwd <= Frontier + Slack
    <3>. HIDE DEF Frontier, Slack
    <3>. QED BY <1>0, <1>1, <2>1, <2>2
  <2>. QED BY <1>6, <2>3
<1>7. CASE LookUp
  BY <1>0, <1>7 DEF LookUp
<1>8. CASE NoRun \/ MoveStart \/ IndexBlock \/ MoveEnd \/ TakeRun \/ TrySmall \/ MatchEnd
           \/ MatchNextWindow
  BY <1>8, MatchSame
<1>. QED BY <1>2, <1>3, <1>4, <1>5, <1>6, <1>7, <1>8 DEF MatchNext

\* How far ahead the blocks may be does not go back, or is all of the source.
LEMMA ReachStep ==
  ASSUME FindInv, Unlimited, [MatchNext]_allVars
  PROVE  Reach' \in Nat /\ (Reach <= Reach' \/ SrcEnd <= Reach')
<1>. DEFINE x  == match.srcpos + extent.fwd
            x2 == match'.srcpos + extent'.fwd
            n  == Frontier
            n2 == Frontier'
            d  == Slack
            y  == n + d
            y2 == n2 + d
<1>1. /\ n \in Nat /\ n2 \in Nat
      /\ n <= n2 \/ (MoveEnd /\ SrcEnd <= n2)
      /\ index'.maxsrcaddr \in Nat /\ index'.maxsrcaddr <= n2
      /\ ~ MoveEnd => n <= n2
  BY FrontierStep
<1>2. d \in Nat /\ Slack' = d /\ SrcEnd \in Nat
  BY SameInput, SameBlocks, ReachFacts, IndexFacts
<1>3. /\ match.srcpos \in Nat /\ extent.fwd \in Nat
      /\ match'.srcpos \in Nat /\ extent'.fwd \in Nat
  <2>1. match \in MatchStates /\ extent \in ExtentType
    BY DEF FindInv, ControlInv
  <2>2. match' \in MatchStates /\ extent' \in ExtentType
    BY ControlStep DEF ControlInv, MatchStates, ExtentType
  <2>. QED BY <2>1, <2>2 DEF MatchStates, ExtentType
<1>4. x \in Nat /\ x2 \in Nat /\ y \in Nat /\ y2 \in Nat
  <2>. HIDE DEF n, n2, d
  <2>. QED BY <1>1, <1>2, <1>3
<1>5. Reach = Greater(y, IF Extending THEN x ELSE 0)
  BY DEF Reach
<1>6. Reach' = Greater(y2, IF Extending' THEN x2 ELSE 0)
  BY <1>2 DEF Reach, Greater
<1>7. MoveEnd => ~ Extending
  BY MatchSame
<1>8. y <= y2 \/ (MoveEnd /\ SrcEnd <= y2)
  <2>. HIDE DEF n, n2, d
  <2>. QED BY <1>1, <1>2
<1>9. Extending => x <= y2 \/ (Extending' /\ x <= x2)
  <2>. SUFFICES ASSUME Extending PROVE x <= y2 \/ (Extending' /\ x <= x2)
    OBVIOUS
  <2>1. CASE Extending' /\ match'.srcpos = match.srcpos /\ extent.fwd <= extent'.fwd
    BY <1>3, <2>1
  <2>2. CASE Extend /\ x <= y
    BY <1>4, <1>7, <1>8, <2>2
  <2>3. CASE TakeSource
    <3>1. x <= index'.maxsrcaddr
      BY <2>3, IndexStep
    <3>. HIDE DEF n, n2, d, x
    <3>2. x <= n2 + d
      BY <1>1, <1>2, <1>4, <3>1
    <3>. QED BY <3>2
  <2>. QED BY <2>1, <2>2, <2>3, ExtendingMoves
<1>. HIDE DEF x, x2, y, y2, Extending
<1>10. CASE Extending
  BY <1>2, <1>4, <1>5, <1>6, <1>7, <1>8, <1>9, <1>10 DEF Greater
<1>11. CASE ~ Extending
  BY <1>2, <1>4, <1>5, <1>6, <1>8, <1>11 DEF Greater
<1>. QED BY <1>10, <1>11

\* The blocks in the FIFO after a step.
LEMMA FifoStep ==
  ASSUME FindInv, Unlimited, [MatchNext]_allVars
  PROVE  FifoInv'
<1>1. /\ input' = input /\ lru_size' = lru_size /\ blksize' = blksize /\ Slack' = Slack
      /\ LastBlock' = LastBlock
  BY SameInput, SameBlocks
<1>2. input \in Inputs /\ DOMAIN slots = 0 .. lru_size - 1
  BY IndexFacts DEF FindInv, FifoInv
<1>3. blksize \in Nat \ {0} /\ lru_size \in Nat /\ lru_size >= 2
  BY <1>2, InputFacts
<1>4. slots' = slots \/ HoldsMore
  BY SourceStep
<1>5. DOMAIN slots' = 0 .. lru_size - 1
  BY <1>2, <1>4 DEF HoldsMore
<1>6. enc_state' = "LOOP" => min_match' <= Slack'
  BY <1>1, MinMatchStep
<1>7. match'.state # "MATCH_SEARCHING" => match'.srcpos <= Frontier'
  BY MatchPosStep
<1>8. ASSUME input.fifo PROVE at' # "asks"
  BY <1>8, AsksStep
<1>9. ASSUME input.fifo, NEW k \in 0 .. lru_size - 1, slots'[k] # None
      PROVE  /\ slots'[k] \in 0 .. LastBlock /\ slots'[k] % lru_size = k
             /\ slots'[k] * blksize <= Reach'
  <2>. DEFINE m == slots'[k] * blksize
  <2>1. SlotsWithin(Reach)
    BY <1>9 DEF FindInv, FifoInv
  <2>2. /\ slots'[k] \in 0 .. LastBlock /\ slots'[k] % lru_size = k
        /\ m <= Reach
    <3>1. CASE slots'[k] = slots[k]
      BY <1>9, <2>1, <3>1 DEF SlotsWithin
    <3>2. CASE slots'[k] # slots[k]
      <4>1. PICK b \in 0 .. LastBlock :
              b * blksize <= Reach /\ slots' = [slots EXCEPT ![b % lru_size] = b]
        BY <1>4, <3>2 DEF HoldsMore
      <4>2. k = b % lru_size /\ slots'[k] = b
        BY <1>2, <1>9, <3>2, <4>1
      <4>. QED BY <4>1, <4>2
    <3>. QED BY <3>1, <3>2
  <2>3. m \in Nat /\ m <= SrcEnd
    BY <1>2, <2>2, BlockLens
  <2>4. Reach \in Nat /\ SrcEnd \in Nat /\ Reach' \in Nat
        /\ (Reach <= Reach' \/ SrcEnd <= Reach')
    BY ReachFacts, IndexFacts, ReachStep
  <2>. HIDE DEF m, Reach
  <2>5. m <= Reach'
    BY <2>2, <2>3, <2>4
  <2>. QED BY <2>2, <2>5 DEF m
<1>10. input.fifo => SlotsWithin(Reach)'
  <2>. HIDE DEF Reach
  <2>. QED BY <1>1, <1>9 DEF SlotsWithin
<1>. HIDE DEF Reach, Frontier, Slack
<1>. QED BY <1>1, <1>5, <1>6, <1>7, <1>8, <1>10 DEF FifoInv

-----------------------------------------------------------------------------
(* The invariant holds at first, and after every step.                     *)

LEMMA FindStep ==
  ASSUME FindInv, Unlimited, [MatchNext]_allVars
  PROVE  FindInv' /\ Unlimited'
<1>1. BufferInv' /\ ControlInv'
  BY ControlStep
<1>2. SourceInv'
  BY SourceStep
<1>3. IndexInv'
  BY IndexStep
<1>4. SmallInv'
  BY SmallStep
<1>5. ExtentInv' /\ MaximalExtent'
  BY ExtentStep
<1>6. MaximalUsed'
  BY <1>1, UsedStep
<1>7. FifoInv'
  BY FifoStep
<1>8. Unlimited'
  BY SameInput DEF Unlimited
<1>. QED BY <1>1, <1>2, <1>3, <1>4, <1>5, <1>6, <1>7, <1>8 DEF FindInv

LEMMA SourceInit ==
  ASSUME MatchInitState, input \in Inputs
  PROVE  SourceInv
<1>. DEFINE len == Len(input.src)
            n == blksize
            q == len \div n
            r == len % n
<1>1. source = [curblkno |-> None, onblk |-> 0, getblkno |-> 0,
                max_blkno |-> IF input.eof_known THEN q ELSE 0,
                onlastblk |-> IF input.eof_known THEN r ELSE 0,
                eof_known |-> input.eof_known]
      /\ index.srcwin_cksum_pos = 0
  BY DEF MatchInitState
<1>2. len \in Nat /\ n \in Nat \ {0} /\ input.eof_known \in BOOLEAN
  BY InputFacts
<1>3. q \in Nat /\ r \in 0 .. n - 1 /\ len = q * n + r
  <2>. HIDE DEF len, n
  <2>. QED BY <1>2, Division
<1>4. LastBlock \in Nat
  BY LastBlockFacts
<1>5. CASE input.eof_known
  <2>1. ~ Small /\ LastBlock = q
    BY <1>5 DEF Small, LastBlock
  <2>2. BlockLen(q) = r
    <3>1. q * n + BlockLen(q) = len /\ BlockLen(q) \in 0 .. n - 1
      BY <2>1, LastBlockFacts
    <3>. DEFINE m == q * n
                b == BlockLen(q)
    <3>2. m \in Nat
      <4>. HIDE DEF n, q
      <4>. QED BY <1>2, <1>3, Multiples
    <3>. HIDE DEF m, b, r, len, n
    <3>3. m + b = m + r /\ b \in Int /\ r \in Int
      BY <1>3, <3>1 DEF m, b
    <3>4. b = r
      BY <3>2, <3>3
    <3>. QED BY <3>4 DEF b
  <2>. HIDE DEF q, r
  <2>3. /\ source \in SourceType /\ source.max_blkno = q /\ source.getblkno = 0
        /\ source.onlastblk = r /\ source.curblkno = None /\ source.eof_known
    BY <1>1, <1>2, <1>3, <1>5 DEF SourceType, None
  <2>4. SourceOk(source)
    BY <1>3, <1>4, <2>1, <2>2, <2>3 DEF SourceOk
  <2>. QED BY <2>1, <2>4 DEF SourceInv, SmallOk
<1>6. CASE ~ input.eof_known
  <2>1. LastBlock # 0
    <3>1. CASE Small
      BY <3>1, LastBlockFacts
    <3>2. CASE ~ Small
      <4>0. LastBlock = q /\ ~ (len < n)
        BY <1>6, <3>2 DEF Small, LastBlock
      <4>2. 0 * n = 0
        BY <1>2
      <4>. HIDE DEF len, n, q, r
      <4>1. len >= n
        BY <1>2, <4>0
      <4>3. q # 0
        BY <1>2, <1>3, <4>1, <4>2
      <4>. QED BY <4>0, <4>3
    <3>. QED BY <3>1, <3>2
  <2>. HIDE DEF q, r
  <2>2. /\ source \in SourceType /\ source.max_blkno = 0 /\ source.getblkno = 0
        /\ source.onlastblk = 0 /\ source.curblkno = None /\ ~ source.eof_known
    BY <1>1, <1>2, <1>6 DEF SourceType, None
  <2>3. SourceOk(source)
    BY <1>4, <2>1, <2>2 DEF SourceOk
  <2>4. SmallOk(source, index.srcwin_cksum_pos)
    BY <2>2 DEF SmallOk, None
  <2>. QED BY <2>3, <2>4 DEF SourceInv
<1>. QED BY <1>5, <1>6

LEMMA FindInit ==
  ASSUME MatchInitState
  PROVE  FindInv
<1>0. Init
  BY DEF MatchInitState
<1>1. BufferInv /\ input \in Inputs
  BY <1>0, InitInv DEF IoptInv, BufferInv
<1>2. /\ match = [state |-> "MATCH_TARGET", srcpos |-> 0, last |-> 0]
      /\ enc_state = "ENC_SEARCH" /\ iopt.used = <<>> /\ at = "enter"
      /\ slots = [k \in 0 .. lru_size - 1 |-> None]
      /\ index = [large_table |-> NoTable, srcwin_cksum_pos |-> 0, maxsrcaddr |-> 0,
                  target |-> 0, then |-> "top", next_move_point |-> 0]
      /\ extent = NoExtent("encode_input")
      /\ small = [table |-> NoTable, prev |-> [k \in 0 .. SprevSize - 1 |-> None],
                  allocated |-> FALSE, reset |-> FALSE]
  BY <1>0 DEF MatchInitState, Init
<1>3. Len(input.src) \in Nat /\ SrcEnd \in Nat
  BY <1>1, InputFacts, LastBlockFacts
<1>4. DOMAIN NoTable = {}
  BY DEF NoTable
<1>5. ~ Extending
  BY <1>2 DEF Extending
<1>6. ControlInv
  <2>1. match \in MatchStates /\ match.srcpos <= Len(input.src)
    BY <1>2, <1>3 DEF MatchStates
  <2>2. extent \in ExtentType
    BY <1>2 DEF NoExtent, ExtentType
  <2>. QED BY <1>2, <1>5, <2>1, <2>2 DEF ControlInv
<1>7. SourceInv
  BY <1>1, SourceInit
<1>8. IndexInv
  <2>. DEFINE t == NoTable
  <2>. HIDE DEF t
  <2>1. /\ index.large_table = t /\ index.srcwin_cksum_pos = 0 /\ index.maxsrcaddr = 0
        /\ index \in IndexWith({t})
    BY <1>2 DEF IndexWith, t
  <2>2. TableTrue(t, 0)
    BY <1>4 DEF TableTrue, t
  <2>. QED BY <1>2, <1>3, <2>1, <2>2 DEF IndexInv
<1>9. SmallInv
  <2>. DEFINE t == NoTable
              v == [k \in 0 .. SprevSize - 1 |-> None]
  <2>1. v \in [0 .. SprevSize - 1 -> Nat \cup {None}]
    OBVIOUS
  <2>. HIDE DEF t, v
  <2>2. small = [table |-> t, prev |-> v, allocated |-> FALSE, reset |-> FALSE]
    BY <1>2 DEF t, v
  <2>3. small.table = t /\ ~ small.allocated /\ small \in SmallWith({t})
    BY <2>1, <2>2 DEF SmallWith
  <2>4. DOMAIN t = {}
    BY <1>4 DEF t
  <2>. QED BY <1>2, <2>3, <2>4 DEF SmallInv
<1>10. ExtentInv /\ MaximalExtent
  BY <1>5 DEF ExtentInv, MaximalExtent
<1>11. MaximalUsed
  <2>1. Len(iopt.used) = 0
    BY <1>2
  <2>. QED BY <2>1 DEF MaximalUsed
<1>12. FifoInv
  <2>1. Frontier = 0 /\ match.srcpos = 0
    BY <1>2 DEF Frontier, Greater
  <2>2. SlotsWithin(Reach)
    BY <1>2 DEF SlotsWithin
  <2>3. DOMAIN slots = 0 .. lru_size - 1
    BY <1>2
  <2>. QED BY <1>2, <2>1, <2>2, <2>3 DEF FifoInv
<1>. QED BY <1>1, <1>6, <1>7, <1>8, <1>9, <1>10, <1>11, <1>12 DEF FindInv

-----------------------------------------------------------------------------
(* The index asks for no block that the FIFO has given up.                 *)

\* Two blocks that share a slot are as far apart as the FIFO is long.
LEMMA NextInSlot ==
  ASSUME NEW n \in Nat \ {0}, NEW a \in Nat, NEW b \in Nat, a % n = b % n, b < a
  PROVE  b + n <= a
<1>. DEFINE p == a \div n
            q == b \div n
            r == a % n
<1>1. p \in Nat /\ q \in Nat /\ r \in 0 .. n - 1 /\ a = p * n + r /\ b = q * n + r
  BY Division
<1>. HIDE DEF p, q, r
<1>2. p * n \in Nat /\ q * n \in Nat
  BY <1>1, Multiples
<1>3. q < p
  <2>. SUFFICES ASSUME p <= q PROVE FALSE
    BY <1>1
  <2>1. p * n <= q * n
    BY <1>1, Multiples
  <2>. QED BY <1>1, <1>2, <2>1
<1>4. (q + 1) * n <= p * n /\ (q + 1) * n = q * n + n
  BY <1>1, <1>3, Multiples
<1>. QED BY <1>1, <1>2, <1>4

\* The FIFO is at least a block longer than a match has to be.
LongFifo == Slack + blksize <= input.max_winsize

LEMMA IndexedBlockHeld ==
  ASSUME FindInv, IndexBlock, LongFifo
  PROVE  at' # "XD3_INTERNAL"
<1>. DEFINE c == index.srcwin_cksum_pos
            b == c \div blksize
            k == b % lru_size
            s == slots[k]
            n == blksize
<1>1. /\ b \in 0 .. LastBlock /\ b * blksize \in Nat /\ c < b * blksize + blksize
      /\ at' = "XD3_INTERNAL" => Getblk(b).ret = "XD3_TOOFARBACK"
  BY IndexBlockKeeps
<1>2. input \in Inputs /\ SourceOk(source) /\ LastBlock \in Nat
      /\ c \in Nat /\ index.maxsrcaddr \in Nat
  BY IndexFacts, LastBlockFacts
<1>3. n \in Nat \ {0} /\ lru_size \in Nat /\ lru_size >= 2
      /\ input.max_winsize = lru_size * n
  BY <1>2, InputFacts
<1>. HIDE DEF b, c
<1>4. SUFFICES ASSUME input.fifo, s > b PROVE FALSE
  <2>1. Getblk(b).ret = "XD3_TOOFARBACK" => input.fifo /\ slots[b % lru_size] > b
    BY <1>1, <1>2, GetblkFacts
  <2>. QED BY <1>1, <2>1
<1>5. b \in Nat /\ k \in 0 .. lru_size - 1
  BY <1>1, <1>2, <1>3, Division
<1>6. s # None
  BY <1>4, <1>5 DEF None
<1>7. s \in 0 .. LastBlock /\ s % lru_size = b % lru_size /\ s * n <= Reach
  BY <1>4, <1>5, <1>6 DEF FindInv, FifoInv, SlotsWithin
<1>. HIDE DEF k, s
<1>8. b + lru_size <= s /\ s \in Nat
  <2>. DEFINE z == lru_size
  <2>. HIDE DEF z
  <2>1. z \in Nat \ {0} /\ s % z = b % z
    BY <1>3, <1>7 DEF z
  <2>2. s \in Nat
    BY <1>2, <1>7
  <2>3. b + z <= s
    BY <1>4, <1>5, <2>1, <2>2, NextInSlot
  <2>. QED BY <2>2, <2>3 DEF z
<1>9. (b + lru_size) * n <= s * n /\ (b + lru_size) * n = b * n + lru_size * n
      /\ s * n \in Int /\ lru_size * n \in Int
  <2>1. (b + lru_size) * n <= s * n /\ s * n \in Int /\ lru_size * n \in Int
    <3>. HIDE DEF n
    <3>. QED BY <1>3, <1>5, <1>8, Multiples
  <2>2. (b + lru_size) * n = b * n + lru_size * n
    <3>. HIDE DEF n
    <3>. QED BY <1>3, <1>5
  <2>. QED BY <2>1, <2>2
<1>10. Reach = c + Slack
  <2>1. at = "indexing"
    BY DEF IndexBlock
  <2>2. ~ Extending /\ index.maxsrcaddr <= c
    BY <2>1 DEF FindInv, ControlInv, IndexInv, c
  <2>3. Frontier = c
    BY <1>2, <2>2 DEF Frontier, Greater, c
  <2>4. Slack \in Nat
    BY ReachFacts
  <2>. HIDE DEF Slack, Frontier, Extending
  <2>. QED BY <1>2, <2>2, <2>3, <2>4 DEF Reach, Greater
<1>. DEFINE u == b * n
            v == s * n
            w == lru_size * n
            d == Slack
<1>11. /\ u \in Nat /\ c \in Nat /\ c < u + n /\ n \in Nat /\ d \in Nat
       /\ v \in Int /\ w \in Int
  BY <1>1, <1>2, <1>3, <1>9, ReachFacts
<1>12. v <= c + d /\ u + w <= v /\ d + n <= w
  <2>1. u + w <= v
    BY <1>9
  <2>2. d + n <= w
    BY <1>3 DEF LongFifo
  <2>3. v <= c + d
    BY <1>7, <1>10
  <2>. QED BY <2>1, <2>2, <2>3
<1>. HIDE DEF n, u, v, w, d
<1>. QED BY <1>11, <1>12

LEMMA NeverInternalStep ==
  ASSUME FindInv, NeverInternal, LongFifo, [MatchNext]_allVars
  PROVE  NeverInternal'
<1>0. at # "XD3_INTERNAL"
  BY DEF NeverInternal
<1>1. CASE IndexBlock
  BY <1>1, IndexedBlockHeld DEF NeverInternal
<1>2. CASE ExtendBackward \/ ExtendForward
  <2>1. at = "extend"
    BY <1>2 DEF ExtendBackward, ExtendForward
  <2>. QED BY <1>2, <2>1, BackwardStep, ForwardStep DEF NeverInternal
<1>3. CASE Provide \/ NoRun \/ MoveStart \/ LookUp \/ UNCHANGED allVars
  BY <1>0, <1>3 DEF Provide, NoRun, MoveStart, Then, LookUp, allVars, NeverInternal
<1>4. CASE MoveEnd
  <2>1. index.then \in {"top", "large"}
    BY IndexFacts
  <2>. QED BY <1>4, <2>1 DEF MoveEnd, NeverInternal
<1>5. CASE Enter \/ Extend \/ TakeRun \/ TrySmall \/ TakeSource
  <2>1. \/ Restarted \/ \E n : Handled(n)
        \/ at' \in {"extend", "small", "top"}
    <3>1. CASE Enter \/ Extend
      BY <3>1 DEF Enter, Extend, StringMatch
    <3>2. CASE TakeRun \/ TrySmall
      BY <3>2 DEF TakeRun, TrySmall
    <3>3. CASE TakeSource
      BY <3>3 DEF TakeSource
    <3>. QED BY <1>5, <3>1, <3>2, <3>3
  <2>. QED BY <2>1, AfterRestart, AfterHandled DEF NeverInternal
<1>6. CASE MatchEnd \/ MatchNextWindow
  BY <1>0, <1>6 DEF MatchEnd, MatchNextWindow, NeverInternal
<1>. QED BY <1>1, <1>2, <1>3, <1>4, <1>5, <1>6 DEF MatchNext

-----------------------------------------------------------------------------
(* In every state.                                                         *)

FoundInv == Unlimited => FindInv /\ (LongFifo => NeverInternal)

LEMMA FoundStep ==
  ASSUME FoundInv, [MatchNext]_allVars
  PROVE  FoundInv'
<1>1. input' = input
  BY SameInput
<1>2. (Unlimited' <=> Unlimited) /\ (LongFifo' <=> LongFifo)
  BY <1>1, SameBlocks DEF Unlimited, LongFifo
<1>. SUFFICES ASSUME Unlimited, FindInv, LongFifo => NeverInternal
              PROVE  FindInv' /\ (LongFifo => NeverInternal')
  BY <1>2 DEF FoundInv
<1>. QED BY FindStep, NeverInternalStep

\* With a buffer that grows, in every state: the buffer, the tables, the blocks
\* held and the match that is followed are sound.
THEOREM Finding == MatchSpec => []FoundInv
<1>1. MatchInitState => FoundInv
  BY FindInit DEF FoundInv, NeverInternal, MatchInitState
<1>2. FoundInv /\ [MatchNext]_allVars => FoundInv'
  BY FoundStep
<1>. QED BY <1>1, <1>2, PTL DEF MatchSpec

-----------------------------------------------------------------------------
(* The properties that TLC checks.                                         *)

LEMMA IndexTrueFact ==
  ASSUME FindInv
  PROVE  IndexTrue
<1>1. \A h \in DOMAIN index.large_table :
        LET p == index.large_table[h]
        IN  /\ p >= 0 /\ p + LargeLook <= Len(input.src)
            /\ LargeHash(Bytes(input.src, p, LargeLook)) = h
  BY IndexFacts DEF TableTrue
<1>2. at \in {"restart", "move"} /\ source.eof_known =>
        index.srcwin_cksum_pos <= source_eof(source)
  <2>. SUFFICES ASSUME at \in {"restart", "move"}, source.eof_known
                PROVE  index.srcwin_cksum_pos <= source_eof(source)
    OBVIOUS
  <2>1. source_eof(source) = SrcEnd
    BY IndexFacts, SourceEofFacts
  <2>. QED BY <2>1 DEF FindInv, IndexInv
<1>3. at = "small" => \A h \in DOMAIN small.table : small.table[h] < input_position
  BY DEF FindInv, ControlInv, SmallInv
<1>. QED BY <1>1, <1>2, <1>3 DEF IndexTrue

LEMMA MaximalFact ==
  ASSUME FindInv, ~ input.greedy
  PROVE  SourceMatchMaximal
<1>1. ASSUME at \in {"extend", "asks", "extended"}, Extending
      PROVE  /\ \A k \in 1 .. extent.back : Src(match.srcpos - k) = Tgt(input_position - k)
             /\ \A k \in 0 .. extent.fwd - 1 :
                  match.srcpos + k < Len(input.src)
                  /\ Src(match.srcpos + k) = Tgt(input_position + k)
             /\ extent.back <= input_position - iopt.unencoded_offset
  <2>. DEFINE s == match.srcpos
              f == extent.fwd
              b == extent.back
              p == input_position
              len == Len(input.src)
  <2>1. /\ s \in Nat /\ f \in Nat /\ b \in Nat /\ b <= p /\ b <= s /\ s + f <= len
        /\ \A k \in 0 .. f - 1 : Src(s + k) = Tgt(p + k)
        /\ \A k \in 0 .. b - 1 : Src(s - k - 1) = Tgt(p - k - 1)
    BY <1>1 DEF FindInv, ExtentInv, SourceMatch, Extension
  <2>2. Looks
    BY <1>1 DEF FindInv, BufferInv, ControlInv, Looks
  <2>3. p \in Nat /\ iopt.unencoded_offset = 0 /\ len \in Nat
    BY <2>2, LooksFacts, IndexFacts DEF FindInv
  <2>. HIDE DEF s, f, b, p, len
  <2>4. ASSUME NEW k \in 1 .. b PROVE Src(s - k) = Tgt(p - k)
    <3>1. k - 1 \in 0 .. b - 1 /\ s - (k - 1) - 1 = s - k /\ p - (k - 1) - 1 = p - k
      BY <2>1, <2>3
    <3>2. Src(s - (k - 1) - 1) = Tgt(p - (k - 1) - 1)
      BY <2>1, <3>1
    <3>. QED BY <3>1, <3>2
  <2>5. ASSUME NEW k \in 0 .. f - 1 PROVE s + k < len /\ Src(s + k) = Tgt(p + k)
    <3>1. s + k < len
      BY <2>1, <2>3
    <3>. QED BY <2>1, <3>1
  <2>6. b <= p - iopt.unencoded_offset
    BY <2>1, <2>3
  <2>. QED BY <2>4, <2>5, <2>6 DEF s, f, b, p, len
<1>2. ~ input.fifo => \A k \in 1 .. Len(iopt.used) : MaximalCopy(iopt.used[k])
  BY DEF FindInv, MaximalUsed, Free
<1>3. ASSUME ~ input.fifo, NEW k \in 1 .. Len(iopt.used),
             iopt.used[k].xtra = 1, iopt.used[k].type = CPY
      PROVE  LET i == iopt.used[k]
             IN  /\ \/ EndOf(i) = avail_in \/ i.addr + i.size = Len(input.src)
                    \/ Src(i.addr + i.size) # Tgt(EndOf(i))
                 /\ \/ i.pos = 0 \/ i.addr = 0 \/ Src(i.addr - 1) # Tgt(i.pos - 1)
  BY <1>2, <1>3 DEF MaximalCopy
<1>. QED BY <1>1, <1>3 DEF SourceMatchMaximal, Extending

\* xd3_source_cksum, xd3_srcwin_move_point, xd3_scksum_insert: for any source and any
\* size of its blocks, held in a FIFO or asked for one by one in the middle of the
\* search, the large table holds only positions where its checksum is true, the
\* source is not indexed beyond its end, and the small table holds positions before
\* the input.
THEOREM AlwaysIndexTrue == MatchSpec => [](Unlimited => IndexTrue)
<1>1. FoundInv => (Unlimited => IndexTrue)
  BY IndexTrueFact DEF FoundInv
<1>. QED BY <1>1, Finding, PTL

\* xd3_source_extend_match: a match is true as far as it has been followed, whatever
\* returns to the client for a block lie between, and where no block can be refused
\* the copies in the buffer cannot be made longer on either side.  A greedy search
\* does not extend matches backward.
THEOREM AlwaysMaximal ==
  MatchSpec => [](Unlimited /\ ~ input.greedy => SourceMatchMaximal)
<1>1. FoundInv => (Unlimited /\ ~ input.greedy => SourceMatchMaximal)
  BY MaximalFact DEF FoundInv
<1>. QED BY <1>1, Finding, PTL

\* xd3_srcwin_move_point never needs a block that main_getblk_lru has given up, when
\* the FIFO is longer than a block and the shortest match that the lazy search will
\* look for.
THEOREM AlwaysHeld == MatchSpec => [](Unlimited /\ LongFifo => NeverInternal)
<1>1. FoundInv => (Unlimited /\ LongFifo => NeverInternal)
  BY DEF FoundInv
<1>. QED BY <1>1, Finding, PTL

\* The matches that the tables find encode the window: a decoder that is given the
\* instructions and the source window rebuilds it, byte for byte.
THEOREM FoundEncodesWindow == MatchSpec => [](Unlimited => EncodesWindow)
<1>1. FoundInv => (Unlimited => EncodesWindow)
  BY EncodesFact DEF FoundInv, FindInv
<1>. QED BY <1>1, Finding, PTL
=============================================================================

------------------------- MODULE XD3BlkCacheProofs -------------------------
(***************************************************************************)
(* Theorems about XD3BlkCache, for every kind of source, every number of   *)
(* slots and every size of the blocks.                                     *)
(*                                                                         *)
(* The invariants of XD3BlkCache speak of one place each: a slot, the      *)
(* current block, the end of the file.  What carries them from one call to *)
(* the next is CacheInv: where the descriptor stands, that a FIFO holds    *)
(* block b only in slot b % lru_size, that in front of the descriptor of a *)
(* source that cannot seek is exactly a window, and that the list of slots *)
(* is in the order in which their blocks were last asked for.              *)
(***************************************************************************)
EXTENDS XD3BlkCache, FiniteSetTheorems, SequenceTheorems, TLAPS

-----------------------------------------------------------------------------
(* The inductive invariant.                                                *)

Open      == call.pc = "open"
InCall    == call.pc \in {"skip", "read"}
Served    == Alive /\ ~ Open
Windowed  == do_src_fifo /\ file.seek = "never"
Recently  == ~ do_src_fifo /\ file.seek = "always"

\* Block b of a file of len bytes in blocks of n.
LenOf(b, n, len) == IF b * n >= len THEN 0 ELSE Lesser(n, len - b * n)
BytesOf(b, n, len) == Span(b * n, LenOf(b, n, len))

Sources(n) ==
  [blksize : Nat \ {0}, curblkno : Nat \cup {INVALID},
   curblk : (0 .. n - 1) \cup {Nowhere}, onblk : Nat,
   max_blkno : Nat, onlastblk : Nat, eof_known : BOOLEAN]
Slots == [blkno : Nat \cup {INVALID}, size : Nat, blk : Seq(Nat)]

TypeOK ==
  /\ file \in Files
  /\ sfile \in [source_position : Nat, offset : Nat, seek_failed : BOOLEAN,
                size_known : BOOLEAN]
  /\ lru_size \in Nat \ {0} /\ lru \in [0 .. lru_size - 1 -> Slots]
  /\ do_src_fifo \in BOOLEAN
  /\ src \in Sources(lru_size)
  /\ call \in [pc : {"open", "idle", "skip", "read"}, blkno : Nat,
               slot : (0 .. lru_size - 1) \cup {Nowhere}]
  /\ InCall => call.slot # Nowhere /\ Alive

\* The list links every slot once.
Links(list, n) ==
  /\ list \in [1 .. n -> 0 .. n - 1]
  /\ \A i, j \in 1 .. n : list[i] = list[j] => i = j
  /\ \A s \in 0 .. n - 1 : \E i \in 1 .. n : list[i] = s
Linked == Links(lru_list, lru_size)

\* Before main_set_source.
Opening ==
  Open => /\ file.srcwinsz = src.blksize /\ ret = "ok" /\ do_src_fifo = file.encode
          /\ lru_size = 1 /\ lru[0].blkno = INVALID
          /\ sfile.source_position = 0 /\ sfile.offset = 0 /\ ~ sfile.seek_failed
          /\ ~ src.eof_known /\ src.onlastblk = 0

\* The descriptor stands at a block or at the end, and a read stands at the
\* block that was asked for.
Descriptor ==
  Alive =>
    /\ sfile.offset = sfile.source_position
    /\ \/ \E k \in Nat : sfile.source_position = k * src.blksize
       \/ sfile.source_position >= file.len
    /\ call.pc = "read" => sfile.source_position = pos
    /\ call.pc = "skip" => sfile.source_position < pos
    /\ file.seek = "always" => ~ sfile.seek_failed /\ call.pc # "skip"

\* A slot with a number holds that block; nothing else holds the one that is
\* about to be read.
Labels ==
  Alive =>
    /\ \A s \in 0 .. lru_size - 1 :
         lru[s].blkno # INVALID => /\ lru[s].size = LenOf(lru[s].blkno, src.blksize, file.len)
                                   /\ lru[s].blk = BytesOf(lru[s].blkno, src.blksize, file.len)
    /\ \A s, t \in 0 .. lru_size - 1 :
         s # t /\ lru[s].blkno # INVALID => lru[s].blkno # lru[t].blkno
    /\ InCall => \A s \in 0 .. lru_size - 1 : lru[s].blkno # call.blkno

Placed ==
  do_src_fifo =>
    /\ \A s \in 0 .. lru_size - 1 :
         lru[s].blkno # INVALID => lru[s].blkno % lru_size = s
    /\ InCall => call.slot = call.blkno % lru_size

Current ==
  Served =>
    /\ src.curblkno \in Nat /\ src.onblk = LenOf(src.curblkno, src.blksize, file.len)
    /\ src.curblk # Nowhere
    /\ (call.pc = "idle" /\ ~ (do_src_fifo /\ file.seek = "maybe")) =>
         lru[src.curblk].blk = BytesOf(src.curblkno, src.blksize, file.len)

\* All blocks from n - lru_size up to the one before n, apart from that in
\* the slot that was taken, and the descriptor behind them.
WindowUpTo(n) ==
  /\ n >= lru_size
  /\ \/ sfile.source_position = n * src.blksize
     \/ /\ sfile.source_position >= file.len
        /\ (n - 1) * src.blksize <= sfile.source_position
        /\ sfile.source_position < n * src.blksize
  /\ InCall => n <= call.blkno
  /\ \A s \in 0 .. lru_size - 1 :
       \/ lru[s].blkno \in n - lru_size .. n - 1
       \/ InCall /\ s = call.slot /\ lru[s].blkno = INVALID
Window == Served /\ Windowed => \E n \in Nat : WindowUpTo(n)

\* The slots, in the order of the list, hold the blocks that were last asked
\* for, in the order they were.
Order ==
  Served /\ Recently =>
    /\ recent \in [1 .. lru_size -> Nat]
    /\ call.pc = "idle" =>
         \A j \in 1 .. lru_size : lru[lru_list[j]].blkno = recent[j]
    /\ call.pc = "read" =>
         /\ \A j \in 1 .. lru_size - 1 : lru[lru_list[j]].blkno = recent[j + 1]
         /\ \A j \in 1 .. lru_size : recent[j] # call.blkno
         /\ lru_list[lru_size] = call.slot

End == Alive => EofTrue /\ src.onlastblk <= src.blksize

CacheInv == /\ TypeOK /\ Linked /\ Opening /\ Descriptor /\ Labels /\ Placed
            /\ Current /\ Window /\ Order /\ End

-----------------------------------------------------------------------------
(* Integers and sequences.                                                 *)

LEMMA Multiples ==
  ASSUME NEW n \in Nat \ {0}, NEW a \in Int, NEW b \in Int
  PROVE  /\ a * n \in Int /\ (a + 1) * n = a * n + n
         /\ a < b <=> a * n < b * n
         /\ a <= b <=> a * n <= b * n
         /\ a = b <=> a * n = b * n
         /\ a \in Nat => a * n \in Nat
<1>1. ASSUME NEW x \in Int, NEW y \in Int, x < y PROVE x * n < y * n
  <2>1. y - x \in Nat \ {0}
    BY <1>1
  <2>2. (y - x) * n > 0
    BY <2>1
  <2>3. y * n = x * n + (y - x) * n
    BY <1>1
  <2>. QED BY <2>2, <2>3, <1>1
<1>2. (a + 1) * n = a * n + n
  OBVIOUS
<1>3. a * n \in Int /\ b * n \in Int /\ (a \in Nat => a * n \in Nat)
  OBVIOUS
<1>4. CASE a < b
  BY <1>1, <1>2, <1>3, <1>4
<1>5. CASE a = b
  BY <1>2, <1>3, <1>5
<1>6. CASE b < a
  BY <1>1, <1>2, <1>3, <1>6
<1>. QED BY <1>4, <1>5, <1>6

LEMMA NextMultiple ==
  ASSUME NEW n \in Nat \ {0}, NEW a \in Nat, NEW b \in Nat, a < b
  PROVE  (a + 1) * n = a * n + n /\ a * n + n <= b * n
<1>1. PICK c \in Nat : c = a + 1 /\ c <= b
  OBVIOUS
<1>2. c * n <= b * n
  BY <1>1, Multiples
<1>. QED BY <1>1, <1>2, Multiples

LEMMA SameMultiple ==
  ASSUME NEW n \in Nat \ {0}, NEW a \in Nat, NEW b \in Nat, a * n = b * n
  PROVE  a = b
BY Multiples

LEMMA Division ==
  ASSUME NEW n \in Nat \ {0}, NEW a \in Nat
  PROVE  /\ a \div n \in Nat /\ a % n \in 0 .. n - 1
         /\ a = (a \div n) * n + (a % n)
         /\ \A k \in Nat : a = k * n => a \div n = k
<1>1. a \div n \in Int /\ a % n \in 0 .. n - 1 /\ a = n * (a \div n) + (a % n)
  OBVIOUS
<1>2. a \div n \in Nat
  <2>1. SUFFICES ASSUME a \div n < 0 PROVE FALSE
    BY <1>1
  <2>2. (a \div n + 1) * n <= 0 * n
    BY <1>1, <2>1, Multiples
  <2>. QED BY <1>1, <2>2, Multiples
<1>3. ASSUME NEW k \in Nat, a = k * n PROVE a \div n = k
  <2>. DEFINE q == a \div n
  <2>1. q * n <= k * n /\ k * n < (q + 1) * n
    BY <1>1, <1>2, <1>3, Multiples
  <2>2. q <= k /\ k < q + 1
    <3>. HIDE DEF q
    <3>1. q \in Nat
      BY <1>2 DEF q
    <3>. QED BY <2>1, <3>1, Multiples
  <2>. QED BY <1>2, <2>2
<1>. QED BY <1>1, <1>2, <1>3

\* A window of n numbers has one of each residue.
LEMMA OneOfEachResidue ==
  ASSUME NEW n \in Nat \ {0}, NEW a \in Nat, NEW b \in Nat,
         a % n = b % n, a < b + n, b < a + n
  PROVE  a = b
<1>. DEFINE p == a \div n
            q == b \div n
<1>1. p \in Nat /\ q \in Nat /\ a = p * n + (a % n) /\ b = q * n + (b % n)
      /\ a % n \in 0 .. n - 1
  BY Division
<1>2. p * n < q * n + n /\ q * n < p * n + n
  <2>. HIDE DEF p, q
  <2>. QED BY <1>1, Multiples
<1>3. p < q + 1 /\ q < p + 1
  <2>. HIDE DEF p, q
  <2>. QED BY <1>1, <1>2, Multiples
<1>4. p = q
  BY <1>1, <1>3
<1>. HIDE DEF p, q
<1>. QED BY <1>1, <1>4

\* Two numbers one window apart have the same residue.
LEMMA SameResidue ==
  ASSUME NEW n \in Nat \ {0}, NEW a \in Nat
  PROVE  (a + n) % n = a % n
<1>. DEFINE p == a \div n
            q == (a + n) \div n
            r == a % n
            t == (a + n) % n
<1>1. /\ p \in Nat /\ q \in Nat /\ r \in 0 .. n - 1 /\ t \in 0 .. n - 1
      /\ a = p * n + r /\ a + n = q * n + t
  <2>1. a + n \in Nat
    OBVIOUS
  <2>. QED BY <2>1, Division
<1>. HIDE DEF p, q, r, t
<1>2. (p + 1) * n = p * n + n /\ p * n \in Nat /\ q * n \in Nat
      /\ (p + 2) * n = p * n + n + n
  <2>1. (p + 1 + 1) * n = (p + 1) * n + n
    BY <1>1, Multiples
  <2>. QED BY <2>1, <1>1, Multiples
<1>3. p * n < q * n /\ q * n < (p + 2) * n
  BY <1>1, <1>2
<1>4. p < q /\ q < p + 2
  BY <1>1, <1>3, Multiples
<1>5. q = p + 1
  BY <1>1, <1>4
<1>. QED BY <1>1, <1>2, <1>5 DEF r, t

\* A sequence without the one place where it has x.
LEMMA RemoveFirstAt ==
  ASSUME NEW S, NEW seq \in Seq(S), NEW p \in 1 .. Len(seq),
         \A i \in 1 .. Len(seq) : seq[i] = seq[p] => i = p
  PROVE  /\ RemoveFirst(seq, seq[p]) \in Seq(S)
         /\ Len(RemoveFirst(seq, seq[p])) = Len(seq) - 1
         /\ \A i \in 1 .. Len(seq) - 1 :
              RemoveFirst(seq, seq[p])[i] = IF i < p THEN seq[i] ELSE seq[i + 1]
<1>. DEFINE I == {i \in 1 .. Len(seq) : seq[i] = seq[p]}
            front == SubSeq(seq, 1, p - 1)
            back  == SubSeq(seq, p + 1, Len(seq))
<1>1. I = {p}
  OBVIOUS
<1>2. Min(I) = p
  BY <1>1 DEF Min
<1>3. RemoveFirst(seq, seq[p]) = front \o back
  BY <1>1, <1>2 DEF RemoveFirst, RemoveAt, SelectInSeq
<1>4. front \in Seq(S) /\ Len(front) = p - 1
      /\ \A i \in 1 .. p - 1 : front[i] = seq[i]
  BY SubSeqProperties, ElementOfSeq, LenProperties
<1>5. back \in Seq(S) /\ Len(back) = Len(seq) - p
      /\ \A i \in 1 .. Len(seq) - p : back[i] = seq[p + i]
  <2>1. \A i \in p + 1 .. Len(seq) : seq[i] \in S
    BY ElementOfSeq, LenProperties
  <2>. QED BY <2>1, SubSeqProperties, LenProperties
<1>. HIDE DEF front, back
<1>6. front \o back \in Seq(S) /\ Len(front \o back) = Len(seq) - 1
      /\ \A i \in 1 .. Len(seq) - 1 :
           (front \o back)[i] = IF i <= p - 1 THEN front[i] ELSE back[i - (p - 1)]
  BY <1>4, <1>5, ConcatProperties, LenProperties
<1>. QED BY <1>3, <1>4, <1>5, <1>6, LenProperties

LEMMA RemoveFirstAbsent ==
  ASSUME NEW S, NEW seq \in Seq(S), NEW x, \A i \in 1 .. Len(seq) : seq[i] # x
  PROVE  RemoveFirst(seq, x) = seq
BY DEF RemoveFirst

-----------------------------------------------------------------------------
(* Blocks.                                                                 *)

LEMMA FileFacts ==
  ASSUME file \in Files
  PROVE  /\ file.len \in Nat /\ file.stat \in Nat \cup {NoSize}
         /\ file.compressed \in BOOLEAN /\ file.encode \in BOOLEAN
         /\ file.srcwinsz \in Nat \ {0} /\ file.srcwinsz % MaxLruSize = 0
         /\ file.stat # NoSize /\ ~ file.compressed => file.stat = file.len
BY BlkCacheAssumption DEF Kinds

LEMMA SpanType ==
  ASSUME NEW from \in Nat, NEW n \in Nat
  PROVE  /\ Span(from, n) \in Seq(Nat) /\ Len(Span(from, n)) = n
         /\ SubSeq(Span(from, n), 1, n) = Span(from, n)
<1>1. Span(from, n) \in [1 .. n -> Nat]
  BY DEF Span
<1>2. Span(from, n) \in Seq(Nat)
  BY <1>1, SeqDef
<1>3. Len(Span(from, n)) = n
  BY <1>1, <1>2, LenProperties DEF Span
<1>. QED BY <1>2, <1>3, SubSeqFull

LEMMA BlockFacts ==
  ASSUME NEW b \in Nat, NEW n \in Nat \ {0}, NEW len \in Nat
  PROVE  /\ b * n \in Nat /\ LenOf(b, n, len) \in 0 .. n
         /\ BytesOf(b, n, len) \in Seq(Nat)
         /\ SubSeq(BytesOf(b, n, len), 1, LenOf(b, n, len)) = BytesOf(b, n, len)
<1>1. b * n \in Nat
  BY Multiples
<1>2. LenOf(b, n, len) \in 0 .. n
  BY <1>1 DEF LenOf, Lesser
<1>3. LET l == LenOf(b, n, len) IN
      /\ Span(b * n, l) \in Seq(Nat) /\ SubSeq(Span(b * n, l), 1, l) = Span(b * n, l)
  <2>1. LenOf(b, n, len) \in Nat
    BY <1>2
  <2>. QED BY <1>1, <2>1, SpanType
<1>. QED BY <1>1, <1>2, <1>3 DEF BytesOf

LEMMA BlockBytesIs ==
  ASSUME NEW b
  PROVE  BlockBytes(b) = BytesOf(b, src.blksize, file.len)
BY DEF BlockBytes, BytesOf, LenOf

\* A read where block b begins gives block b.
LEMMA ReadGivesBlock ==
  ASSUME TypeOK, NEW b \in Nat, sfile.offset = b * src.blksize
  PROVE  /\ Got = LenOf(b, src.blksize, file.len)
         /\ ReadIn = BytesOf(b, src.blksize, file.len)
<1>1. src.blksize \in Nat \ {0} /\ file.len \in Nat /\ b * src.blksize \in Nat
  BY FileFacts, Multiples DEF TypeOK, Sources
<1>2. Got = LenOf(b, src.blksize, file.len)
  BY <1>1 DEF Got, LenOf, Lesser
<1>. QED BY <1>2 DEF ReadIn, BytesOf

LEMMA ReadType ==
  ASSUME TypeOK
  PROVE  /\ Got \in 0 .. src.blksize /\ ReadIn \in Seq(Nat)
         /\ sfile.offset >= file.len => Got = 0
<1>1. src.blksize \in Nat \ {0} /\ file.len \in Nat /\ sfile.offset \in Nat
  BY FileFacts DEF TypeOK, Sources
<1>2. Got \in 0 .. src.blksize /\ (sfile.offset >= file.len => Got = 0)
  BY <1>1 DEF Got, Lesser
<1>3. Got \in Nat
  BY <1>1, <1>2
<1>4. Span(sfile.offset, Got) \in Seq(Nat)
  BY <1>1, <1>3, SpanType
<1>. QED BY <1>2, <1>4 DEF ReadIn

-----------------------------------------------------------------------------
(* The list and the slots.                                                 *)

LEMMA ListIsSeq ==
  ASSUME NEW n \in Nat \ {0}, NEW S, NEW q \in [1 .. n -> S]
  PROVE  q \in Seq(S) /\ Len(q) = n /\ q # <<>>
<1>1. q \in Seq(S)
  BY SeqDef
<1>2. Len(q) = n
  BY <1>1, LenProperties
<1>. QED BY <1>1, <1>2

\* The first slot moved to the end.
LEMMA Rotated ==
  ASSUME NEW n \in Nat \ {0}, NEW q, Links(q, n)
  PROVE  LET r == Append(Tail(q), Head(q)) IN
         /\ Links(r, n) /\ r[n] = q[1] /\ Head(q) = q[1]
         /\ \A j \in 1 .. n - 1 : r[j] = q[j + 1]
<1>. DEFINE r == Append(Tail(q), Head(q))
            S == 0 .. n - 1
<1>1. q \in Seq(S) /\ Len(q) = n /\ q # <<>>
  BY ListIsSeq DEF Links
<1>2. Head(q) = q[1] /\ Head(q) \in S
  BY <1>1, HeadTailProperties
<1>3. Tail(q) \in Seq(S) /\ Len(Tail(q)) = n - 1
      /\ \A j \in 1 .. n - 1 : Tail(q)[j] = q[j + 1]
  BY <1>1, HeadTailProperties
<1>4. r \in Seq(S) /\ Len(r) = n
      /\ (\A j \in 1 .. n - 1 : r[j] = q[j + 1]) /\ r[n] = q[1]
  <2>. HIDE DEF S
  <2>. QED BY <1>2, <1>3, AppendProperties
<1>5. r \in [1 .. n -> S]
  BY <1>4, LenProperties
<1>6. Links(r, n)
  <2>. HIDE DEF r
  <2>. DEFINE from(i) == IF i = n THEN 1 ELSE i + 1
  <2>0. \A i \in 1 .. n : from(i) \in 1 .. n /\ r[i] = q[from(i)]
    BY <1>4
  <2>1. ASSUME NEW i \in 1 .. n, NEW j \in 1 .. n, r[i] = r[j] PROVE i = j
    <3>1. from(i) = from(j)
      <4>. HIDE DEF from
      <4>. QED BY <2>0, <2>1 DEF Links
    <3>. QED BY <3>1
  <2>2. ASSUME NEW s \in S PROVE \E i \in 1 .. n : r[i] = s
    <3>1. PICK i \in 1 .. n : q[i] = s
      BY DEF Links
    <3>2. CASE i = 1
      BY <3>1, <3>2, <1>4
    <3>3. CASE i # 1
      <4>1. i - 1 \in 1 .. n - 1 /\ r[i - 1] = s
        BY <3>1, <3>3, <1>4
      <4>. QED BY <4>1
    <3>. QED BY <3>2, <3>3
  <2>. QED BY <1>5, <2>1, <2>2 DEF Links
<1>. QED BY <1>2, <1>4, <1>6

\* A slot moved to the end from where it is.
LEMMA Touched ==
  ASSUME NEW n \in Nat \ {0}, NEW q, Links(q, n), NEW p \in 1 .. n
  PROVE  LET r == Append(RemoveFirst(q, q[p]), q[p]) IN
         /\ Links(r, n) /\ r[n] = q[p]
         /\ \A j \in 1 .. n - 1 : r[j] = IF j < p THEN q[j] ELSE q[j + 1]
<1>. DEFINE f == RemoveFirst(q, q[p])
            r == Append(f, q[p])
            S == 0 .. n - 1
<1>1. q \in Seq(S) /\ Len(q) = n /\ q[p] \in S
  BY ListIsSeq DEF Links
<1>2. \A i \in 1 .. n : q[i] = q[p] => i = p
  BY DEF Links
<1>3. f \in Seq(S) /\ Len(f) = n - 1
      /\ \A j \in 1 .. n - 1 : f[j] = IF j < p THEN q[j] ELSE q[j + 1]
  <2>. HIDE DEF S
  <2>. QED BY <1>1, <1>2, RemoveFirstAt
<1>. HIDE DEF f
<1>4. r \in Seq(S) /\ Len(r) = n
      /\ (\A j \in 1 .. n - 1 : r[j] = IF j < p THEN q[j] ELSE q[j + 1]) /\ r[n] = q[p]
  <2>. HIDE DEF S
  <2>. QED BY <1>1, <1>3, AppendProperties
<1>5. r \in [1 .. n -> S]
  BY <1>4, LenProperties
<1>6. Links(r, n)
  <2>. HIDE DEF r
  <2>. DEFINE from(i) == IF i = n THEN p ELSE IF i < p THEN i ELSE i + 1
  <2>0. \A i \in 1 .. n : from(i) \in 1 .. n /\ r[i] = q[from(i)]
    BY <1>4
  <2>1. ASSUME NEW i \in 1 .. n, NEW j \in 1 .. n, r[i] = r[j] PROVE i = j
    <3>1. from(i) = from(j)
      <4>. HIDE DEF from
      <4>. QED BY <2>0, <2>1 DEF Links
    <3>. QED BY <3>1
  <2>2. ASSUME NEW s \in S PROVE \E i \in 1 .. n : r[i] = s
    <3>1. PICK i \in 1 .. n : q[i] = s
      BY DEF Links
    <3>2. CASE i = p
      BY <3>1, <3>2, <1>4
    <3>3. CASE i < p
      BY <3>1, <3>3, <1>4
    <3>4. CASE i > p
      <4>1. i - 1 \in 1 .. n - 1 /\ r[i - 1] = s
        BY <3>1, <3>4, <1>4
      <4>. QED BY <4>1
    <3>. QED BY <3>2, <3>3, <3>4
  <2>. QED BY <1>5, <2>1, <2>2 DEF Links
<1>. QED BY <1>4, <1>6 DEF f

LEMMA SlotFacts ==
  ASSUME TypeOK, Linked, NEW b \in Nat
  PROVE  /\ DOMAIN lru = 0 .. lru_size - 1
         /\ b % lru_size \in 0 .. lru_size - 1
         /\ Hit(b) => HitSlot(b) \in 0 .. lru_size - 1 /\ lru[HitSlot(b)].blkno = b
         /\ NewSlot(b) \in 0 .. lru_size - 1
         /\ do_src_fifo => NewSlot(b) = b % lru_size /\ (Hit(b) => HitSlot(b) = b % lru_size)
         /\ ~ do_src_fifo => NewSlot(b) = lru_list[1]
<1>1. DOMAIN lru = 0 .. lru_size - 1 /\ lru_size \in Nat \ {0}
  BY DEF TypeOK
<1>2. b % lru_size \in 0 .. lru_size - 1
  BY <1>1
<1>3. Head(lru_list) = lru_list[1] /\ lru_list[1] \in 0 .. lru_size - 1
  BY <1>1, Rotated DEF Linked, Links
<1>4. ASSUME Hit(b) PROVE HitSlot(b) \in 0 .. lru_size - 1 /\ lru[HitSlot(b)].blkno = b
  BY <1>1, <1>2, <1>4 DEF Hit, HitSlot, Holding, FifoSlot
<1>5. do_src_fifo => NewSlot(b) = b % lru_size /\ HitSlot(b) = b % lru_size
  BY DEF NewSlot, HitSlot, FifoSlot
<1>6. ~ do_src_fifo => NewSlot(b) = lru_list[1]
  BY <1>3 DEF NewSlot
<1>7. NewSlot(b) \in 0 .. lru_size - 1
  BY <1>2, <1>3, <1>5, <1>6
<1>. QED BY <1>1, <1>2, <1>4, <1>5, <1>6, <1>7

\* A block that is not hit is nowhere.
LEMMA Missed ==
  ASSUME TypeOK, Linked, Placed, NEW b \in Nat, ~ Hit(b)
  PROVE  \A s \in 0 .. lru_size - 1 : lru[s].blkno # b
<1>. SUFFICES ASSUME NEW s \in 0 .. lru_size - 1, lru[s].blkno = b PROVE FALSE
  OBVIOUS
<1>1. DOMAIN lru = 0 .. lru_size - 1
  BY SlotFacts
<1>2. CASE do_src_fifo
  BY <1>2 DEF Placed, Hit, FifoSlot, INVALID
<1>3. CASE ~ do_src_fifo
  BY <1>1, <1>3 DEF Hit, Holding
<1>. QED BY <1>2, <1>3

LEMMA NewListFacts ==
  ASSUME TypeOK, Linked
  PROVE  /\ Links(NewList, lru_size)
         /\ ~ do_src_fifo => /\ NewList[lru_size] = lru_list[1]
                             /\ \A j \in 1 .. lru_size - 1 : NewList[j] = lru_list[j + 1]
<1>. DEFINE r == Append(Tail(lru_list), Head(lru_list))
<1>1. /\ Links(r, lru_size) /\ r[lru_size] = lru_list[1]
      /\ \A j \in 1 .. lru_size - 1 : r[j] = lru_list[j + 1]
  BY Rotated DEF TypeOK, Linked
<1>. QED BY <1>1 DEF NewList, Linked

LEMMA HitListFacts ==
  ASSUME TypeOK, Linked, NEW s \in 0 .. lru_size - 1
  PROVE  Links(HitList(s), lru_size)
<1>1. PICK p \in 1 .. lru_size : lru_list[p] = s
  BY DEF Linked, Links
<1>2. Links(Append(RemoveFirst(lru_list, lru_list[p]), lru_list[p]), lru_size)
  BY Touched DEF TypeOK, Linked
<1>. QED BY <1>1, <1>2 DEF HitList, Touch, Linked

LEMMA SkipListFacts ==
  ASSUME TypeOK, Linked
  PROVE  Links(SkipList, lru_size) /\ SkipSlot \in 0 .. lru_size - 1 /\ skip_blkno \in Nat
<1>1. skip_blkno \in Nat
  BY Division DEF skip_blkno, TypeOK, Sources
<1>2. SkipSlot \in 0 .. lru_size - 1
  BY <1>1, SlotFacts DEF SkipSlot
<1>3. Links(SkipList, lru_size)
  BY <1>1, <1>2, SlotFacts, HitListFacts, NewListFacts DEF SkipList, SkipSlot
<1>. QED BY <1>1, <1>2, <1>3

LEMMA Types ==
  ASSUME TypeOK
  PROVE  /\ file.len \in Nat /\ src.blksize \in Nat \ {0} /\ lru_size \in Nat \ {0}
         /\ sfile.source_position \in Nat /\ sfile.offset \in Nat
         /\ call.blkno \in Nat /\ pos \in Nat /\ do_src_fifo \in BOOLEAN
         /\ src.max_blkno \in Nat /\ src.onlastblk \in Nat /\ src.onblk \in Nat
         /\ InCall => call.slot \in 0 .. lru_size - 1 /\ Alive
<1>1. file.len \in Nat
  BY FileFacts DEF TypeOK, Sources
<1>2. src.blksize \in Nat \ {0} /\ call.blkno \in Nat /\ pos \in Nat
  BY Multiples DEF TypeOK, Sources, pos
<1>. QED BY <1>1, <1>2 DEF TypeOK, Sources

-----------------------------------------------------------------------------
(* Steps.                                                                  *)

\* What no step but that of main_set_source changes.
Kept == /\ file' = file /\ do_src_fifo' = do_src_fifo /\ lru_size' = lru_size
        /\ src'.blksize = src.blksize

\* A call that fails for good.
LEMMA GaveUp ==
  ASSUME TypeOK', Linked', Placed', ~ Open', ~ Alive'
  PROVE  CacheInv'
BY DEF CacheInv, Opening, Descriptor, Labels, Current, Window, Order, End, Served

LEMMA Stuttering ==
  ASSUME CacheInv, UNCHANGED vars
  PROVE  CacheInv'
BY DEF CacheInv, vars, TypeOK, Linked, Opening, Descriptor, Labels, Placed, Current,
       Window, WindowUpTo, Order, End, EofTrue, Served, Alive, Open, InCall, Windowed,
       Recently, pos, lru_size

\* The bookkeeping of a block, with the length that the block has in the file,
\* keeps what is known of the end true.
LEMMA AccountStep ==
  ASSUME TypeOK, End, Alive, NEW b \in Nat, NEW slot \in 0 .. lru_size - 1, NEW n,
         n = LenOf(b, src.blksize, file.len), file' = file, lru_size' = lru_size,
         src' = Account([src EXCEPT !.curblkno = b, !.curblk = slot, !.onblk = n], b)
  PROVE  /\ src' \in Sources(lru_size)
         /\ src'.blksize = src.blksize /\ src'.curblkno = b /\ src'.curblk = slot
         /\ src'.onblk = n /\ End'
<1>. DEFINE bs  == src.blksize
            max == src.max_blkno
<1>1. /\ bs \in Nat \ {0} /\ max \in Nat /\ file.len \in Nat /\ n \in 0 .. bs
      /\ b * bs \in Nat /\ max * bs \in Nat /\ src.onlastblk \in 0 .. bs
      /\ src.eof_known \in BOOLEAN
  <2>1. /\ bs \in Nat \ {0} /\ max \in Nat /\ file.len \in Nat
        /\ src.onlastblk \in 0 .. bs /\ src.eof_known \in BOOLEAN
    BY Types DEF TypeOK, End, Sources
  <2>2. b * bs \in Nat /\ max * bs \in Nat
    BY <2>1, Multiples
  <2>3. n \in 0 .. bs
    BY <2>1, BlockFacts
  <2>. QED BY <2>1, <2>2, <2>3
<1>2. /\ src'.blksize = bs /\ src'.curblkno = b /\ src'.curblk = slot /\ src'.onblk = n
      /\ src'.max_blkno = IF b > max THEN b ELSE max
      /\ src'.eof_known = (src.eof_known \/ (b > max /\ n # bs))
      /\ src'.onlastblk = IF b >= max THEN n ELSE src.onlastblk
  BY <1>1 DEF Account, TypeOK, Sources
<1>3. src' \in Sources(lru_size)
  <2>. DEFINE s1 == [src EXCEPT !.curblkno = b, !.curblk = slot, !.onblk = n]
              s2 == [s1 EXCEPT !.max_blkno = b,
                               !.eof_known = s1.eof_known \/ s1.onblk # s1.blksize]
              s3 == IF b > s1.max_blkno THEN s2 ELSE s1
  <2>0. src \in Sources(lru_size) /\ n \in Nat
    BY <1>1 DEF TypeOK
  <2>1. s1 \in Sources(lru_size)
    BY <2>0 DEF Sources
  <2>2. s2 \in Sources(lru_size)
    <3>. HIDE DEF s1
    <3>. QED BY <2>1 DEF Sources
  <2>3. s3 \in Sources(lru_size) /\ s1.onblk \in Nat
    BY <2>1, <2>2 DEF Sources
  <2>4. [s3 EXCEPT !.onlastblk = s1.onblk] \in Sources(lru_size)
    <3>. HIDE DEF s1, s2, s3
    <3>. QED BY <2>3 DEF Sources
  <2>5. src' = IF b = s3.max_blkno THEN [s3 EXCEPT !.onlastblk = s1.onblk] ELSE s3
    BY DEF Account
  <2>. HIDE DEF s1, s2, s3
  <2>. QED BY <2>3, <2>4, <2>5
<1>4. src'.onlastblk \in 0 .. bs
  BY <1>1, <1>2
<1>5. src.eof_known /\ max * bs <= file.len => max * bs + src.onlastblk = file.len
  BY DEF End, EofTrue
<1>6. ASSUME src'.eof_known, src'.max_blkno * bs <= file.len
      PROVE  src'.max_blkno * bs + src'.onlastblk = file.len
  <2>1. CASE b > max
    <3>1. src'.max_blkno = b /\ src'.onlastblk = n /\ b * bs <= file.len
      BY <2>1, <1>1, <1>2, <1>6
    <3>2. CASE n # bs
      BY <3>1, <3>2, <1>1 DEF LenOf, Lesser
    <3>3. CASE src.eof_known
      <4>1. max * bs + bs <= b * bs /\ max * bs < b * bs
        <5>1. max + 1 <= b
          BY <2>1, <1>1
        <5>2. (max + 1) * bs <= b * bs /\ (max + 1) * bs = max * bs + bs
          BY <5>1, <1>1, Multiples
        <5>. QED BY <5>2, <1>1
      <4>2. max * bs + src.onlastblk = file.len
        BY <4>1, <3>1, <3>3, <1>1, <1>5
      <4>. QED BY <4>1, <4>2, <3>1, <1>1 DEF LenOf
    <3>. QED BY <3>2, <3>3, <1>2, <1>6
  <2>2. CASE b = max
    <3>1. src'.max_blkno = b /\ src'.onlastblk = n /\ src.eof_known
      BY <2>2, <1>1, <1>2, <1>6
    <3>2. b * bs + src.onlastblk = file.len
      BY <3>1, <2>2, <1>5, <1>6
    <3>. QED BY <3>1, <3>2, <1>1 DEF LenOf, Lesser
  <2>3. CASE b < max
    BY <2>3, <1>1, <1>2, <1>5, <1>6
  <2>. QED BY <2>1, <2>2, <2>3, <1>1
<1>. QED BY <1>2, <1>3, <1>4, <1>6 DEF End, EofTrue

\* A call that reads nothing leaves the slots and the descriptor as they are.
LEMMA Unread ==
  ASSUME CacheInv, Kept, UNCHANGED <<sfile, lru>>, Alive, Alive',
         call.pc = "idle", call'.pc = "idle"
  PROVE  Opening' /\ Descriptor' /\ Labels' /\ Placed' /\ Window'
<1>1. ~ InCall /\ ~ InCall' /\ ~ Open /\ ~ Open' /\ Served
  BY DEF InCall, Open, Served
<1>2. Descriptor'
  BY DEF CacheInv, Descriptor, Kept
<1>3. Labels'
  BY <1>1 DEF CacheInv, Labels, Kept
<1>4. Placed'
  BY <1>1 DEF CacheInv, Placed, Kept
<1>5. Window'
  <2>1. Windowed' = Windowed
    BY DEF Windowed, Kept
  <2>2. ASSUME NEW n \in Nat, WindowUpTo(n) PROVE WindowUpTo(n)'
    BY <1>1, <2>2 DEF WindowUpTo, Kept
  <2>. QED BY <1>1, <2>1, <2>2 DEF CacheInv, Window
<1>. QED BY <1>1, <1>2, <1>3, <1>4, <1>5 DEF Opening

LEMMA InMemoryStep ==
  ASSUME CacheInv, NEW b \in 0 .. MaxBlkno, InMemory(b)
  PROVE  CacheInv'
<1>1. /\ call.pc = "idle" /\ Alive /\ Served /\ b = src.curblkno /\ TypeOK /\ End
      /\ Linked /\ Current /\ Order
      /\ src' = Account(src, b) /\ ret' = "ok" /\ Alive'
      /\ UNCHANGED <<call, recent, file, sfile, lru, lru_list, do_src_fifo>>
      /\ lru_size' = lru_size
  BY DEF InMemory, Ready, CacheInv, Served, Alive, Open, lru_size
<1>2. /\ src.curblkno \in Nat /\ src.onblk = LenOf(b, src.blksize, file.len)
      /\ src.curblk \in 0 .. lru_size - 1
  <2>1. src.curblk # Nowhere /\ src.curblk \in (0 .. lru_size - 1) \cup {Nowhere}
    BY <1>1 DEF Current, TypeOK, Sources
  <2>. QED BY <1>1, <2>1 DEF Current
<1>3. src = [src EXCEPT !.curblkno = b, !.curblk = src.curblk, !.onblk = src.onblk]
  BY <1>1 DEF TypeOK, Sources
<1>4. /\ src' \in Sources(lru_size)
      /\ src'.blksize = src.blksize /\ src'.curblkno = b /\ src'.curblk = src.curblk
      /\ src'.onblk = src.onblk /\ End'
  <2>1. src' = Account([src EXCEPT !.curblkno = b, !.curblk = src.curblk,
                                   !.onblk = src.onblk], b)
    BY <1>1, <1>3
  <2>. QED BY <1>1, <1>2, <2>1, AccountStep
<1>5. TypeOK'
  BY <1>1, <1>4 DEF TypeOK, InCall
<1>6. Opening' /\ Descriptor' /\ Labels' /\ Placed' /\ Window'
  BY <1>1, <1>4, Unread DEF Kept
<1>7. Current'
  BY <1>1, <1>2, <1>4 DEF Current
<1>8. Linked' /\ Order'
  BY <1>1 DEF Linked, Order, Served, Open, Recently
<1>. QED BY <1>4, <1>5, <1>6, <1>7, <1>8 DEF CacheInv

LEMMA GetblkRefusedStep ==
  ASSUME CacheInv, NEW b \in 0 .. MaxBlkno, GetblkRefused(b)
  PROVE  CacheInv'
<1>1. /\ call.pc = "idle" /\ Alive /\ call' = Idle /\ Alive' /\ call'.pc = "idle"
      /\ UNCHANGED <<src, recent, file, sfile, lru, lru_list, do_src_fifo>>
      /\ lru_size' = lru_size
  BY DEF GetblkRefused, Ready, Fail, Alive, Idle, lru_size
<1>2. TypeOK'
  BY <1>1 DEF CacheInv, TypeOK, InCall, Idle
<1>3. Opening' /\ Descriptor' /\ Labels' /\ Placed' /\ Window'
  BY <1>1, Unread DEF Kept
<1>4. Current'
  BY <1>1 DEF CacheInv, Current, Served, Open
<1>5. Linked' /\ Order' /\ End'
  BY <1>1 DEF CacheInv, Linked, Order, Served, Open, Recently, End, EofTrue
<1>. QED BY <1>2, <1>3, <1>4, <1>5 DEF CacheInv

\* What a hit leaves of the history of requests, with LRU replacement.
LEMMA HitOrder ==
  ASSUME TypeOK, Linked, Labels, Order, Served, Recently, call.pc = "idle",
         NEW b \in Nat, Hit(b),
         lru_list' = HitList(HitSlot(b)), recent' = Remembered(b), lru' = lru
  PROVE  /\ recent' \in [1 .. lru_size -> Nat]
         /\ \A j \in 1 .. lru_size : lru[lru_list'[j]].blkno = recent'[j]
<1>. DEFINE s == HitSlot(b)
            n == lru_size
<1>1. n \in Nat \ {0} /\ s \in 0 .. n - 1 /\ lru[s].blkno = b
  BY SlotFacts, Types
<1>2. PICK p \in 1 .. n : lru_list[p] = s
  BY <1>1 DEF Linked, Links
<1>3. recent \in [1 .. n -> Nat] /\ \A j \in 1 .. n : lru[lru_list[j]].blkno = recent[j]
  BY DEF Order
<1>4. recent[p] = b
  BY <1>1, <1>2, <1>3
<1>5. \A i \in 1 .. n : recent[i] = recent[p] => i = p
  <2>. SUFFICES ASSUME NEW i \in 1 .. n, recent[i] = b PROVE i = p
    BY <1>4
  <2>1. lru_list[i] \in 0 .. n - 1 /\ lru[lru_list[i]].blkno = b
    BY <1>3 DEF Linked, Links
  <2>2. lru_list[i] = s
    BY <2>1, <1>1 DEF Labels, Served, INVALID
  <2>. QED BY <2>2, <1>2 DEF Linked, Links
<1>6. recent \in Seq(Nat) /\ Len(recent) = n
  BY <1>1, <1>3, ListIsSeq
<1>. DEFINE r   == RemoveFirst(recent, recent[p])
            all == Append(r, b)
<1>7. r \in Seq(Nat) /\ Len(r) = n - 1
      /\ \A j \in 1 .. n - 1 : r[j] = IF j < p THEN recent[j] ELSE recent[j + 1]
  BY <1>5, <1>6, RemoveFirstAt
<1>. HIDE DEF r
<1>8. all \in Seq(Nat) /\ Len(all) = n /\ all[n] = b
      /\ \A j \in 1 .. n - 1 : all[j] = IF j < p THEN recent[j] ELSE recent[j + 1]
  BY <1>1, <1>7, AppendProperties
<1>9. recent' = all
  <2>1. recent' = SubSeq(all, Greater(1, Len(all) - n + 1), Len(all))
    BY <1>4 DEF Remembered, Recently, r
  <2>2. Greater(1, Len(all) - n + 1) = 1
    BY <1>1, <1>8 DEF Greater
  <2>. HIDE DEF all
  <2>. QED BY <2>1, <2>2, <1>8, SubSeqFull
<1>10. /\ lru_list'[n] = s
       /\ \A j \in 1 .. n - 1 :
            lru_list'[j] = IF j < p THEN lru_list[j] ELSE lru_list[j + 1]
  <2>1. lru_list' = Append(RemoveFirst(lru_list, lru_list[p]), lru_list[p])
    BY <1>2 DEF HitList, Touch, Recently
  <2>2. LET t == Append(RemoveFirst(lru_list, lru_list[p]), lru_list[p]) IN
        /\ t[n] = lru_list[p]
        /\ \A j \in 1 .. n - 1 : t[j] = IF j < p THEN lru_list[j] ELSE lru_list[j + 1]
    BY <1>1, Touched DEF Linked
  <2>. QED BY <2>1, <2>2, <1>2
<1>11. recent' \in [1 .. n -> Nat]
  BY <1>8, <1>9, LenProperties
<1>12. ASSUME NEW j \in 1 .. n PROVE lru[lru_list'[j]].blkno = recent'[j]
  <2>. HIDE DEF all
  <2>1. CASE j = n
    BY <2>1, <1>1, <1>8, <1>9, <1>10
  <2>2. CASE j < p /\ j # n
    <3>1. j \in 1 .. n - 1 /\ lru_list'[j] = lru_list[j] /\ recent'[j] = recent[j]
      BY <2>2, <1>1, <1>8, <1>9, <1>10
    <3>. QED BY <3>1, <1>3
  <2>3. CASE ~ j < p /\ j # n
    <3>1. /\ j \in 1 .. n - 1 /\ j + 1 \in 1 .. n
          /\ lru_list'[j] = lru_list[j + 1] /\ recent'[j] = recent[j + 1]
      BY <2>3, <1>1, <1>8, <1>9, <1>10
    <3>. QED BY <3>1, <1>3
  <2>. QED BY <2>1, <2>2, <2>3
<1>. QED BY <1>11, <1>12

LEMMA GetblkHitStep ==
  ASSUME CacheInv, NEW b \in 0 .. MaxBlkno, GetblkHit(b)
  PROVE  CacheInv'
<1>. DEFINE s == HitSlot(b)
            n == LenOf(b, src.blksize, file.len)
<1>1. /\ call.pc = "idle" /\ Alive /\ Served /\ Hit(b) /\ call' = Idle /\ ret' = "ok"
      /\ Alive' /\ call'.pc = "idle" /\ ~ InCall'
      /\ src' = Account([src EXCEPT !.curblkno = b, !.curblk = s, !.onblk = lru[s].size], b)
      /\ lru_list' = HitList(s) /\ recent' = Remembered(b)
      /\ UNCHANGED <<file, sfile, lru, do_src_fifo>> /\ lru_size' = lru_size /\ b \in Nat
  BY DEF GetblkHit, GotBlock, HitSize, Ready, Served, Alive, Open, InCall, Idle, lru_size
<1>2. TypeOK /\ Linked /\ Labels /\ Order /\ End
  BY DEF CacheInv
<1>3. s \in 0 .. lru_size - 1 /\ lru[s].blkno = b
  BY <1>1, <1>2, SlotFacts
<1>4. lru[s].size = n /\ lru[s].blk = BytesOf(b, src.blksize, file.len)
  BY <1>1, <1>2, <1>3 DEF Labels, INVALID
<1>5. /\ src' \in Sources(lru_size)
      /\ src'.blksize = src.blksize /\ src'.curblkno = b /\ src'.curblk = s
      /\ src'.onblk = n /\ End'
  BY <1>1, <1>2, <1>3, <1>4, AccountStep
<1>6. Opening' /\ Descriptor' /\ Labels' /\ Placed' /\ Window'
  BY <1>1, <1>5, Unread DEF Kept
<1>7. Linked'
  BY <1>1, <1>2, <1>3, HitListFacts DEF Linked
<1>8. Current'
  BY <1>1, <1>3, <1>4, <1>5 DEF Current, Nowhere
<1>9. Order'
  <2>1. CASE Recently
    <3>1. /\ recent' \in [1 .. lru_size -> Nat]
          /\ \A j \in 1 .. lru_size : lru[lru_list'[j]].blkno = recent'[j]
      BY <1>1, <1>2, <2>1, HitOrder
    <3>. QED BY <3>1, <1>1 DEF Order
  <2>2. CASE ~ Recently
    BY <2>2, <1>1 DEF Order, Recently
  <2>. QED BY <2>1, <2>2
<1>10. TypeOK'
  BY <1>1, <1>2, <1>5 DEF TypeOK, Idle
<1>. QED BY <1>5, <1>6, <1>7, <1>8, <1>9, <1>10 DEF CacheInv

LEMMA NotInWindow ==
  ASSUME TypeOK, Linked, Placed, do_src_fifo, ~ InCall, NEW n \in Nat, WindowUpTo(n),
         NEW b \in Nat, ~ Hit(b), ~ Refused(b)
  PROVE  n <= b
<1>. DEFINE s == b % lru_size
            x == lru[s].blkno
<1>1. s \in 0 .. lru_size - 1 /\ lru_size \in Nat \ {0} /\ n >= lru_size
  BY SlotFacts, Types DEF WindowUpTo
<1>2. x \in n - lru_size .. n - 1
  BY <1>1 DEF WindowUpTo
<1>3. x \in Nat /\ x # INVALID
  BY <1>1, <1>2 DEF INVALID
<1>4. x % lru_size = b % lru_size
  BY <1>1, <1>3 DEF Placed
<1>5. x < b
  BY <1>3 DEF Hit, Refused, FifoRefused, FifoSlot
<1>. HIDE DEF s, x
<1>. SUFFICES ASSUME b < n PROVE FALSE
  BY <1>1
<1>6. x < b + lru_size /\ b < x + lru_size
  BY <1>1, <1>2, <1>3, <1>5
<1>7. x = b
  BY <1>1, <1>3, <1>4, <1>6, OneOfEachResidue
<1>. QED BY <1>3, <1>5, <1>7

\* A slot that is taken loses its number, and the block was nowhere.
LEMMA Taken ==
  ASSUME CacheInv, NEW b \in Nat, TakeSlot(b)
  PROVE  /\ call.pc = "idle" /\ Alive /\ Served /\ ~ InCall
         /\ file' = file /\ do_src_fifo' = do_src_fifo /\ lru_size' = lru_size
         /\ lru' \in [0 .. lru_size - 1 -> Slots]
         /\ Links(lru_list', lru_size)
         /\ NewSlot(b) \in 0 .. lru_size - 1
         /\ do_src_fifo => NewSlot(b) = b % lru_size
         /\ \A s \in 0 .. lru_size - 1 :
              /\ lru'[s].blkno = IF s = NewSlot(b) THEN INVALID ELSE lru[s].blkno
              /\ lru'[s].size = lru[s].size /\ lru'[s].blk = lru[s].blk
              /\ lru[s].blkno # b
         /\ ~ do_src_fifo => /\ lru_list'[lru_size] = NewSlot(b)
                             /\ \A j \in 1 .. lru_size - 1 : lru_list'[j] = lru_list[j + 1]
         /\ Windowed => \E n \in Nat : WindowUpTo(n) /\ n <= b
<1>1. /\ call.pc = "idle" /\ Alive /\ Served /\ ~ InCall /\ ~ Hit(b) /\ ~ Refused(b)
      /\ lru' = [lru EXCEPT ![NewSlot(b)].blkno = INVALID] /\ lru_list' = NewList
      /\ file' = file /\ do_src_fifo' = do_src_fifo
  BY DEF TakeSlot, NewLabel, Ready, Served, Alive, Open, InCall
<1>2. TypeOK /\ Linked /\ Placed /\ Window
  BY DEF CacheInv
<1>3. /\ NewSlot(b) \in 0 .. lru_size - 1 /\ (do_src_fifo => NewSlot(b) = b % lru_size)
      /\ (~ do_src_fifo => NewSlot(b) = lru_list[1])
  BY <1>2, SlotFacts
<1>4. DOMAIN lru' = DOMAIN lru /\ lru_size' = lru_size
  BY <1>1 DEF lru_size
<1>5. /\ Links(NewList, lru_size)
      /\ ~ do_src_fifo => /\ NewList[lru_size] = lru_list[1]
                          /\ \A j \in 1 .. lru_size - 1 : NewList[j] = lru_list[j + 1]
  BY <1>2, NewListFacts
<1>6. lru \in [0 .. lru_size - 1 -> Slots]
  BY <1>2 DEF TypeOK
<1>7. /\ lru' \in [0 .. lru_size - 1 -> Slots]
      /\ \A s \in 0 .. lru_size - 1 :
           /\ lru'[s].blkno = IF s = NewSlot(b) THEN INVALID ELSE lru[s].blkno
           /\ lru'[s].size = lru[s].size /\ lru'[s].blk = lru[s].blk
  BY <1>1, <1>3, <1>6 DEF Slots
<1>8. \A s \in 0 .. lru_size - 1 : lru[s].blkno # b
  BY <1>1, <1>2, Missed
<1>9. Windowed => \E n \in Nat : WindowUpTo(n) /\ n <= b
  BY <1>1, <1>2, NotInWindow DEF Window, Windowed
<1>. QED BY <1>1, <1>3, <1>4, <1>5, <1>7, <1>8, <1>9

\* A call that goes on to read, apart from the descriptor and the window.
LEMMA Started ==
  ASSUME CacheInv, NEW b \in Nat, TakeSlot(b), NEW pc \in {"skip", "read"},
         Reading(pc, b),
         sfile' \in [source_position : Nat, offset : Nat, seek_failed : BOOLEAN,
                    size_known : BOOLEAN]
  PROVE  /\ TypeOK' /\ Linked' /\ Opening' /\ Labels' /\ Placed' /\ Current' /\ End'
         /\ pc = "read" => Order'
<1>1. /\ call' = [pc |-> pc, blkno |-> b, slot |-> NewSlot(b)]
      /\ call'.pc = pc /\ call'.blkno = b /\ call'.slot = NewSlot(b)
      /\ UNCHANGED <<src, ret, recent>>
  BY DEF Reading
<1>2. /\ call.pc = "idle" /\ Alive /\ Served /\ ~ InCall
      /\ file' = file /\ do_src_fifo' = do_src_fifo /\ lru_size' = lru_size
      /\ lru' \in [0 .. lru_size - 1 -> Slots]
      /\ Links(lru_list', lru_size)
      /\ NewSlot(b) \in 0 .. lru_size - 1
      /\ do_src_fifo => NewSlot(b) = b % lru_size
      /\ \A s \in 0 .. lru_size - 1 :
           /\ lru'[s].blkno = IF s = NewSlot(b) THEN INVALID ELSE lru[s].blkno
           /\ lru'[s].size = lru[s].size /\ lru'[s].blk = lru[s].blk
           /\ lru[s].blkno # b
      /\ ~ do_src_fifo => /\ lru_list'[lru_size] = NewSlot(b)
                          /\ \A j \in 1 .. lru_size - 1 : lru_list'[j] = lru_list[j + 1]
  BY Taken
<1>3. TypeOK /\ Linked /\ Labels /\ Placed /\ Current /\ Order /\ End
  BY DEF CacheInv
<1>4. Alive' /\ InCall' /\ Served' /\ ~ Open'
  BY <1>1, <1>2 DEF Alive, InCall, Served, Open
<1>5. TypeOK'
  BY <1>1, <1>2, <1>3, <1>4 DEF TypeOK, Nowhere
<1>6. Linked' /\ Opening'
  BY <1>2, <1>4 DEF Linked, Opening
<1>7. Labels'
  BY <1>1, <1>2, <1>3, <1>4 DEF Labels, INVALID
<1>8. Placed'
  BY <1>1, <1>2, <1>3, <1>4 DEF Placed
<1>9. Current'
  BY <1>1, <1>2, <1>3 DEF Current
<1>10. End'
  BY <1>1, <1>2, <1>3 DEF End, EofTrue, Alive
<1>11. ASSUME pc = "read", Recently PROVE Order'
  <2>. DEFINE n == lru_size
  <2>1. n \in Nat \ {0} /\ ~ do_src_fifo
    BY <1>3, <1>11, Types DEF Recently
  <2>2. recent' = recent /\ recent \in [1 .. n -> Nat]
        /\ \A j \in 1 .. n : lru[lru_list[j]].blkno = recent[j]
    BY <1>1, <1>2, <1>3, <1>11 DEF Order
  <2>3. lru_list[1] = NewSlot(b) /\ \A j \in 1 .. n : lru_list[j] \in 0 .. n - 1
    BY <1>3, <2>1, SlotFacts DEF Linked, Links
  <2>4. ASSUME NEW j \in 1 .. n - 1 PROVE lru'[lru_list'[j]].blkno = recent[j + 1]
    <3>1. j + 1 \in 1 .. n /\ 1 \in 1 .. n /\ j + 1 # 1
      BY <2>1
    <3>2. lru_list[j + 1] # NewSlot(b) /\ lru_list[j + 1] \in 0 .. n - 1
      BY <3>1, <2>3, <1>3 DEF Linked, Links
    <3>. QED BY <3>1, <3>2, <2>1, <2>2, <1>2
  <2>5. ASSUME NEW j \in 1 .. n PROVE recent[j] # b
    BY <2>2, <2>3, <1>2
  <2>. QED BY <1>1, <1>2, <1>11, <2>1, <2>2, <2>4, <2>5 DEF Order
<1>12. ~ Recently => Order'
  BY <1>2 DEF Order, Recently
<1>. QED BY <1>5, <1>6, <1>7, <1>8, <1>9, <1>10, <1>11, <1>12

\* The window stays as it is while a slot is taken.
LEMMA WindowTaken ==
  ASSUME CacheInv, NEW b \in Nat, TakeSlot(b), NEW pc \in {"skip", "read"},
         Reading(pc, b), sfile'.source_position = sfile.source_position
  PROVE  Window'
<1>1. /\ call'.blkno = b /\ call'.slot = NewSlot(b) /\ UNCHANGED <<src, ret, recent>>
      /\ InCall'
  BY DEF Reading, InCall
<1>2. /\ Served /\ ~ InCall /\ lru_size' = lru_size
      /\ file' = file /\ do_src_fifo' = do_src_fifo
      /\ NewSlot(b) \in 0 .. lru_size - 1
      /\ \A s \in 0 .. lru_size - 1 :
           lru'[s].blkno = IF s = NewSlot(b) THEN INVALID ELSE lru[s].blkno
      /\ Windowed => \E n \in Nat : WindowUpTo(n) /\ n <= b
  BY Taken
<1>. SUFFICES ASSUME Served', Windowed' PROVE \E n \in Nat : WindowUpTo(n)'
  BY DEF Window
<1>3. PICK n \in Nat : WindowUpTo(n) /\ n <= b
  BY <1>2 DEF Windowed
<1>4. WindowUpTo(n)'
  BY <1>1, <1>2, <1>3 DEF WindowUpTo
<1>. QED BY <1>4

LEMMA GetblkNextStep ==
  ASSUME CacheInv, NEW b \in 0 .. MaxBlkno, GetblkNext(b)
  PROVE  CacheInv'
<1>1. /\ b \in Nat /\ TakeSlot(b) /\ Reading("read", b) /\ sfile' = sfile
      /\ b * src.blksize = sfile.source_position /\ TypeOK /\ Descriptor
  BY DEF GetblkNext, CacheInv
<1>2. /\ TypeOK' /\ Linked' /\ Opening' /\ Labels' /\ Placed' /\ Current' /\ End' /\ Order'
  BY <1>1, Started DEF TypeOK
<1>3. Window'
  BY <1>1, WindowTaken
<1>4. /\ Alive /\ file' = file /\ src' = src /\ call'.pc = "read" /\ call'.blkno = b
  BY <1>1, Taken DEF Reading
<1>5. Descriptor'
  BY <1>1, <1>4 DEF Descriptor, pos
<1>. QED BY <1>2, <1>3, <1>5 DEF CacheInv

LEMMA GetblkSeekStep ==
  ASSUME CacheInv, NEW b \in 0 .. MaxBlkno, GetblkSeek(b)
  PROVE  CacheInv'
<1>1. /\ b \in Nat /\ TakeSlot(b) /\ Reading("read", b) /\ CanSeek /\ TypeOK /\ Descriptor
      /\ sfile' = [sfile EXCEPT !.source_position = b * src.blksize,
                                !.offset = b * src.blksize]
  BY DEF GetblkSeek, CacheInv
<1>2. b * src.blksize \in Nat
  BY <1>1, Types, Multiples
<1>3. /\ sfile' \in [source_position : Nat, offset : Nat, seek_failed : BOOLEAN,
                     size_known : BOOLEAN]
      /\ sfile'.source_position = b * src.blksize /\ sfile'.offset = b * src.blksize
      /\ sfile'.seek_failed = sfile.seek_failed
  BY <1>1, <1>2 DEF TypeOK
<1>4. /\ TypeOK' /\ Linked' /\ Opening' /\ Labels' /\ Placed' /\ Current' /\ End' /\ Order'
  BY <1>1, <1>3, Started
<1>5. /\ Alive /\ file' = file /\ src' = src /\ call'.pc = "read" /\ call'.blkno = b
  BY <1>1, Taken DEF Reading
<1>6. Window'
  BY <1>1, <1>5 DEF Window, Windowed, CanSeek
<1>7. Descriptor'
  BY <1>1, <1>3, <1>5 DEF Descriptor, pos
<1>. QED BY <1>4, <1>6, <1>7 DEF CacheInv

LEMMA GetblkForwardStep ==
  ASSUME CacheInv, NEW b \in 0 .. MaxBlkno, GetblkForward(b)
  PROVE  CacheInv'
<1>1. /\ b \in Nat /\ TakeSlot(b) /\ Reading("skip", b) /\ SeekFails /\ TypeOK /\ Descriptor
      /\ sfile' = [sfile EXCEPT !.seek_failed = TRUE]
      /\ b * src.blksize > sfile.source_position
  BY DEF GetblkForward, CacheInv
<1>2. /\ sfile' \in [source_position : Nat, offset : Nat, seek_failed : BOOLEAN,
                     size_known : BOOLEAN]
      /\ sfile'.source_position = sfile.source_position /\ sfile'.offset = sfile.offset
  BY <1>1 DEF TypeOK
<1>3. /\ TypeOK' /\ Linked' /\ Opening' /\ Labels' /\ Placed' /\ Current' /\ End'
  BY <1>1, <1>2, Started
<1>4. Window'
  BY <1>1, <1>2, WindowTaken
<1>5. /\ Alive /\ file' = file /\ src' = src /\ call'.pc = "skip" /\ call'.blkno = b
      /\ do_src_fifo' = do_src_fifo
  BY <1>1, Taken DEF Reading
<1>6. file.seek # "always"
  BY <1>1, <1>5 DEF Descriptor, SeekFails
<1>7. Descriptor'
  <2>1. b * src.blksize \in Nat /\ sfile.source_position \in Nat
    BY <1>1, Types, Multiples
  <2>. QED BY <2>1, <1>1, <1>2, <1>5, <1>6 DEF Descriptor, pos
<1>8. Order'
  BY <1>5, <1>6 DEF Order, Recently
<1>. QED BY <1>3, <1>4, <1>7, <1>8 DEF CacheInv

LEMMA GetblkTooFarBackStep ==
  ASSUME CacheInv, NEW b \in 0 .. MaxBlkno, GetblkTooFarBack(b)
  PROVE  CacheInv'
<1>1. /\ b \in Nat /\ TakeSlot(b) /\ SeekFails
      /\ TypeOK /\ Descriptor /\ Labels /\ Placed /\ Current /\ End
      /\ sfile' = [sfile EXCEPT !.seek_failed = TRUE]
      /\ b * src.blksize < sfile.source_position
      /\ call' = Idle /\ call'.pc = "idle" /\ ret' = "XD3_TOOFARBACK"
      /\ UNCHANGED <<src, recent>>
  BY DEF GetblkTooFarBack, CacheInv, Fail, Idle
<1>2. /\ sfile' \in [source_position : Nat, offset : Nat, seek_failed : BOOLEAN,
                     size_known : BOOLEAN]
      /\ sfile'.source_position = sfile.source_position /\ sfile'.offset = sfile.offset
  BY <1>1 DEF TypeOK
<1>3. /\ call.pc = "idle" /\ Alive /\ Served /\ ~ InCall
      /\ file' = file /\ do_src_fifo' = do_src_fifo /\ lru_size' = lru_size
      /\ lru' \in [0 .. lru_size - 1 -> Slots]
      /\ Links(lru_list', lru_size)
      /\ NewSlot(b) \in 0 .. lru_size - 1
      /\ \A s \in 0 .. lru_size - 1 :
           /\ lru'[s].blkno = IF s = NewSlot(b) THEN INVALID ELSE lru[s].blkno
           /\ lru'[s].size = lru[s].size /\ lru'[s].blk = lru[s].blk
      /\ Windowed => \E n \in Nat : WindowUpTo(n) /\ n <= b
  BY <1>1, Taken
<1>4. Alive' /\ ~ InCall' /\ ~ Open' /\ Served'
  BY <1>1 DEF Alive, InCall, Open, Served
<1>5. TypeOK' /\ Linked' /\ Opening'
  BY <1>1, <1>2, <1>3, <1>4 DEF TypeOK, Idle, Nowhere, Linked, Opening
<1>6. file.seek # "always"
  BY <1>1, <1>3 DEF Descriptor, SeekFails
<1>7. Descriptor' /\ Order'
  BY <1>1, <1>2, <1>3, <1>6 DEF Descriptor, Order, Recently
<1>8. Labels' /\ Placed'
  BY <1>1, <1>3, <1>4 DEF Labels, Placed, INVALID
<1>9. Current'
  <2>1. /\ src.curblk # Nowhere /\ src.curblk \in (0 .. lru_size - 1) \cup {Nowhere}
    BY <1>1, <1>3 DEF Current, TypeOK, Sources
  <2>. QED BY <2>1, <1>1, <1>3 DEF Current
<1>10. Window'
  <2>1. SUFFICES ASSUME Windowed PROVE FALSE
    BY <1>1, <1>3 DEF Window, Windowed
  <2>2. PICK n \in Nat : WindowUpTo(n) /\ n <= b
    BY <2>1, <1>3
  <2>3. /\ n * src.blksize <= b * src.blksize
        /\ n * src.blksize \in Nat /\ b * src.blksize \in Nat
        /\ sfile.source_position \in Nat
    BY <2>2, <1>1, Types, Multiples
  <2>. QED BY <2>2, <2>3, <1>1 DEF WindowUpTo
<1>11. End'
  BY <1>1, <1>3 DEF End, EofTrue
<1>. QED BY <1>5, <1>7, <1>8, <1>9, <1>10, <1>11 DEF CacheInv

\* A slot that is given a block.
LEMMA SlotWritten ==
  ASSUME TypeOK, NEW s \in 0 .. lru_size - 1, NEW b \in Nat, NEW n \in Nat, NEW bytes \in Seq(Nat),
         lru' = [lru EXCEPT ![s] = [blkno |-> b, size |-> n, blk |-> bytes]]
  PROVE  /\ lru_size' = lru_size /\ lru' \in [0 .. lru_size - 1 -> Slots]
         /\ lru'[s].blkno = b /\ lru'[s].size = n /\ lru'[s].blk = bytes
         /\ \A t \in 0 .. lru_size - 1 : t # s => lru'[t] = lru[t]
<1>1. lru \in [0 .. lru_size - 1 -> Slots]
  BY DEF TypeOK
<1>2. [blkno |-> b, size |-> n, blk |-> bytes] \in Slots
  BY DEF Slots
<1>3. DOMAIN lru' = DOMAIN lru
  OBVIOUS
<1>. QED BY <1>1, <1>2, <1>3 DEF lru_size

\* Where a skip reads, it is at the start of a block before the one asked for.
LEMMA SkipPlace ==
  ASSUME CacheInv, call.pc = "skip", Got = src.blksize
  PROVE  /\ skip_blkno \in Nat /\ sfile.offset = skip_blkno * src.blksize
         /\ sfile.source_position = sfile.offset
         /\ skip_blkno < call.blkno /\ sfile.offset < file.len
<1>1. TypeOK /\ Descriptor /\ Alive /\ InCall
  BY DEF CacheInv, TypeOK, InCall
<1>2. sfile.offset < file.len
  BY <1>1, ReadType, Types
<1>3. PICK k \in Nat : sfile.source_position = k * src.blksize
  BY <1>1, <1>2, Types DEF Descriptor
<1>4. skip_blkno = k
  <2>1. sfile.source_position \in Nat /\ src.blksize \in Nat \ {0}
    BY <1>1, Types
  <2>2. \A j \in Nat : sfile.source_position = j * src.blksize
                      => sfile.source_position \div src.blksize = j
    BY <2>1, Division
  <2>. QED BY <2>2, <1>3 DEF skip_blkno
<1>5. k * src.blksize < call.blkno * src.blksize
  BY <1>1, <1>3 DEF Descriptor, pos
<1>6. k < call.blkno
  BY <1>1, <1>5, Types, Multiples
<1>. QED BY <1>1, <1>2, <1>3, <1>4, <1>6 DEF Descriptor

\* The slot for a skipped block is the only one that may hold it.
LEMMA SkipSlotFacts ==
  ASSUME TypeOK, Linked, Placed, Labels, Alive
  PROVE  /\ SkipSlot \in 0 .. lru_size - 1 /\ skip_blkno \in Nat
         /\ do_src_fifo => SkipSlot = skip_blkno % lru_size
         /\ \A t \in 0 .. lru_size - 1 : t # SkipSlot => lru[t].blkno # skip_blkno
<1>1. SkipSlot \in 0 .. lru_size - 1 /\ skip_blkno \in Nat
  BY SkipListFacts
<1>2. CASE Hit(skip_blkno)
  <2>1. SkipSlot = HitSlot(skip_blkno) /\ lru[SkipSlot].blkno = skip_blkno
    BY <1>1, <1>2, SlotFacts DEF SkipSlot
  <2>2. do_src_fifo => SkipSlot = skip_blkno % lru_size
    BY <2>1, <1>1, <1>2, SlotFacts
  <2>. QED BY <1>1, <2>1, <2>2 DEF Labels, INVALID
<1>3. CASE ~ Hit(skip_blkno)
  BY <1>1, <1>3, SlotFacts, Missed DEF SkipSlot
<1>. QED BY <1>2, <1>3

LEMMA SkipBlockStep ==
  ASSUME CacheInv, SkipBlock
  PROVE  CacheInv'
<1>. DEFINE bs == src.blksize
            s  == SkipSlot
            L  == lru_size
<1>1. /\ TypeOK /\ Linked /\ Descriptor /\ Labels /\ Placed /\ Current /\ Window /\ End
      /\ call.pc = "skip" /\ Alive /\ InCall /\ Served
  BY DEF SkipBlock, CacheInv, TypeOK, InCall, Served, Open
<1>2. /\ Got = bs
      /\ lru' = [lru EXCEPT ![s] = [blkno |-> skip_blkno, size |-> Got, blk |-> ReadIn]]
      /\ lru_list' = SkipList
      /\ sfile' = [sfile EXCEPT !.source_position = @ + Got, !.offset = @ + Got]
      /\ call' = [call EXCEPT !.pc = IF sfile'.source_position < pos THEN "skip" ELSE "read"]
      /\ UNCHANGED <<file, do_src_fifo, src, ret, recent>>
  BY DEF SkipBlock
<1>3. PICK k \in Nat :
      /\ k = skip_blkno /\ sfile.offset = k * bs /\ sfile.source_position = k * bs
      /\ k < call.blkno /\ sfile.offset < file.len
  BY <1>1, <1>2, SkipPlace
<1>4. Got = LenOf(k, bs, file.len) /\ ReadIn = BytesOf(k, bs, file.len)
  BY <1>1, <1>3, ReadGivesBlock
<1>5. /\ bs \in Nat \ {0} /\ L \in Nat \ {0} /\ call.blkno \in Nat
      /\ call.slot \in 0 .. L - 1 /\ ReadIn \in Seq(Nat)
  BY <1>1, Types, ReadType
<1>6. /\ s \in 0 .. L - 1 /\ (do_src_fifo => s = k % L) /\ Links(SkipList, L)
      /\ \A t \in 0 .. L - 1 : t # s => lru[t].blkno # k
  BY <1>1, <1>3, SkipSlotFacts, SkipListFacts
<1>7. /\ lru_size' = L /\ lru' \in [0 .. L - 1 -> Slots]
      /\ lru'[s].blkno = k /\ lru'[s].size = Got /\ lru'[s].blk = ReadIn
      /\ \A t \in 0 .. L - 1 : t # s => lru'[t] = lru[t]
  BY <1>1, <1>2, <1>3, <1>5, <1>6, SlotWritten
<1>8. /\ (k + 1) * bs = k * bs + bs /\ (k + 1) * bs <= call.blkno * bs
      /\ k * bs \in Nat /\ (k + 1) * bs \in Nat /\ call.blkno * bs \in Nat
  <2>1. (k + 1) * bs = k * bs + bs /\ k * bs + bs <= call.blkno * bs
    BY <1>3, <1>5, NextMultiple
  <2>2. k * bs \in Nat /\ call.blkno * bs \in Nat
    BY <1>3, <1>5, Multiples
  <2>. QED BY <2>1, <2>2, <1>5
<1>9. /\ sfile' \in [source_position : Nat, offset : Nat, seek_failed : BOOLEAN,
                     size_known : BOOLEAN]
      /\ sfile'.source_position = (k + 1) * bs /\ sfile'.offset = (k + 1) * bs
      /\ sfile'.seek_failed = sfile.seek_failed
  BY <1>1, <1>2, <1>3, <1>5, <1>8 DEF TypeOK
<1>10. /\ call' \in [pc : {"open", "idle", "skip", "read"}, blkno : Nat,
                     slot : (0 .. L - 1) \cup {Nowhere}]
       /\ call'.pc = IF (k + 1) * bs < pos THEN "skip" ELSE "read"
       /\ call'.blkno = call.blkno /\ call'.slot = call.slot
  BY <1>1, <1>2, <1>9 DEF TypeOK
<1>11. Alive' /\ InCall' /\ Served' /\ ~ Open' /\ call'.pc # "idle"
  BY <1>1, <1>2, <1>10 DEF Alive, InCall, Served, Open
<1>12. TypeOK'
  BY <1>1, <1>2, <1>5, <1>7, <1>9, <1>10, <1>11 DEF TypeOK, Nowhere
<1>13. Linked' /\ Opening'
  BY <1>2, <1>6, <1>7, <1>11 DEF Linked, Opening
<1>14. Descriptor'
  <2>1. pos = call.blkno * bs /\ pos' = pos
    BY <1>2, <1>10 DEF pos
  <2>2. call'.pc = "read" => (k + 1) * bs = pos
    BY <2>1, <1>8, <1>10
  <2>3. call'.pc = "skip" => (k + 1) * bs < pos
    BY <1>10
  <2>4. k + 1 \in Nat /\ src' = src /\ file' = file
    BY <1>2, <1>3
  <2>5. file.seek # "always"
    BY <1>1 DEF Descriptor
  <2>. QED BY <2>1, <2>2, <2>3, <2>4, <2>5, <1>9 DEF Descriptor
<1>15. Labels'
  <2>1. ASSUME NEW t \in 0 .. L - 1, lru'[t].blkno # INVALID
        PROVE  /\ lru'[t].size = LenOf(lru'[t].blkno, bs, file.len)
               /\ lru'[t].blk = BytesOf(lru'[t].blkno, bs, file.len)
    BY <2>1, <1>1, <1>4, <1>7 DEF Labels
  <2>2. ASSUME NEW t \in 0 .. L - 1, NEW u \in 0 .. L - 1, t # u,
               lru'[t].blkno # INVALID
        PROVE  lru'[t].blkno # lru'[u].blkno
    BY <2>2, <1>1, <1>6, <1>7 DEF Labels
  <2>3. ASSUME NEW t \in 0 .. L - 1 PROVE lru'[t].blkno # call.blkno
    BY <1>1, <1>3, <1>5, <1>7 DEF Labels
  <2>. QED BY <2>1, <2>2, <2>3, <1>2, <1>7, <1>10 DEF Labels
<1>16. Placed'
  BY <1>1, <1>2, <1>6, <1>7, <1>10 DEF Placed
<1>17. Current'
  BY <1>1, <1>2, <1>11 DEF Current
<1>18. Window'
  <2>. SUFFICES ASSUME Windowed PROVE WindowUpTo(k + 1)'
    BY <1>1, <1>2, <1>3 DEF Window, Windowed
  <2>1. PICK n \in Nat : WindowUpTo(n)
    BY <1>1 DEF Window
  <2>2. n = k
    <3>1. n * bs = k * bs
      <4>1. ~ sfile.source_position >= file.len
        BY <1>1, <1>3, Types
      <4>. QED BY <4>1, <2>1, <1>3 DEF WindowUpTo
    <3>. QED BY <3>1, <1>3, <1>5, SameMultiple
  <2>3. k >= L
    BY <2>1, <2>2 DEF WindowUpTo
  <2>4. ASSUME NEW t \in 0 .. L - 1
        PROVE  \/ lru'[t].blkno \in k + 1 - L .. k
               \/ t = call.slot /\ lru'[t].blkno = INVALID
    <3>1. CASE t = s
      BY <3>1, <2>3, <1>3, <1>5, <1>7
    <3>2. CASE t # s /\ lru[t].blkno = INVALID
      <4>1. lru[t].blkno \notin k - L .. k - 1
        BY <3>2, <2>3, <1>3, <1>5 DEF INVALID
      <4>. QED BY <4>1, <3>2, <2>1, <2>2, <1>7 DEF WindowUpTo
    <3>3. CASE t # s /\ lru[t].blkno # INVALID
      <4>1. lru[t].blkno \in k - L .. k - 1
        BY <3>3, <2>1, <2>2 DEF WindowUpTo
      <4>2. lru[t].blkno % L = t
        BY <3>3, <1>1 DEF Placed, Windowed
      <4>3. lru[t].blkno # k - L
        <5>1. k - L \in Nat /\ (k - L) + L = k
          BY <2>3, <1>3, <1>5
        <5>2. (k - L) % L = k % L
          BY <5>1, <1>5, SameResidue
        <5>. QED BY <5>2, <4>2, <3>3, <1>6 DEF Windowed
      <4>4. ASSUME NEW x \in k - L .. k - 1, x # k - L PROVE x \in k + 1 - L .. k
        BY <4>4, <2>3, <1>3, <1>5
      <4>5. lru[t].blkno \in k + 1 - L .. k
        BY <4>1, <4>3, <4>4
      <4>. QED BY <4>5, <3>3, <1>7
    <3>. QED BY <3>1, <3>2, <3>3
  <2>5. k + 1 >= L /\ k + 1 <= call.blkno /\ (k + 1) - 1 = k /\ (k + 1) - L = k + 1 - L
    BY <2>3, <1>3, <1>5
  <2>. QED BY <2>4, <2>5, <1>2, <1>7, <1>9, <1>10, <1>11 DEF WindowUpTo
<1>19. Order'
  BY <1>1, <1>2 DEF Order, Recently, Descriptor
<1>20. End'
  BY <1>1, <1>2, <1>11 DEF End, EofTrue
<1>. QED BY <1>12, <1>13, <1>14, <1>15, <1>16, <1>17, <1>18, <1>19, <1>20 DEF CacheInv

\* A read that fails for good may have numbered the slot it was for.
LEMMA SkipShortStep ==
  ASSUME CacheInv, SkipShort
  PROVE  CacheInv'
<1>1. /\ TypeOK /\ Linked /\ Placed /\ Labels /\ call.pc = "skip" /\ Alive
  BY DEF SkipShort, CacheInv, TypeOK, InCall
<1>2. /\ UNCHANGED <<file, do_src_fifo, src>> /\ call' = Idle /\ lru_list' = SkipList
      /\ ret' \in {"XD3_INVALID_INPUT", "EIO"}
  BY DEF SkipShort, Fail
<1>3. ~ Alive' /\ ~ Open' /\ ~ InCall'
  BY <1>2 DEF Alive, Open, InCall, Idle
<1>4. PICK k \in Nat : k = skip_blkno
  BY <1>1, SkipSlotFacts
<1>5. PICK s \in 0 .. lru_size - 1 : s = SkipSlot /\ (do_src_fifo => s = k % lru_size)
  BY <1>1, <1>4, SkipSlotFacts
<1>6. \/ /\ lru' = [lru EXCEPT ![s].blkno = k, ![s].blk = ReadIn]
         /\ sfile' = [sfile EXCEPT !.offset = @ + Got]
      \/ /\ lru' = [lru EXCEPT ![s].blkno = k] /\ sfile' = sfile
  BY <1>4, <1>5 DEF SkipShort
<1>7. lru \in [0 .. lru_size - 1 -> Slots] /\ ReadIn \in Seq(Nat) /\ Got \in Nat
  BY <1>1, ReadType, Types DEF TypeOK
<1>8. DOMAIN lru' = DOMAIN lru /\ lru_size' = lru_size
  <2>1. DOMAIN lru' = DOMAIN lru
    BY <1>6
  <2>. QED BY <2>1 DEF lru_size
<1>9. /\ lru' \in [0 .. lru_size - 1 -> Slots] /\ lru'[s].blkno = k
      /\ \A t \in 0 .. lru_size - 1 : t # s => lru'[t] = lru[t]
  <2>1. CASE lru' = [lru EXCEPT ![s].blkno = k]
    BY <2>1, <1>7 DEF Slots
  <2>2. CASE lru' = [lru EXCEPT ![s].blkno = k, ![s].blk = ReadIn]
    <3>. DEFINE numbered == [lru EXCEPT ![s].blkno = k]
    <3>1. numbered \in [0 .. lru_size - 1 -> Slots]
      BY <1>7 DEF Slots
    <3>2. lru' = [numbered EXCEPT ![s].blk = ReadIn]
      BY <2>2
    <3>3. numbered[s].blkno = k /\ \A t \in 0 .. lru_size - 1 : t # s => numbered[t] = lru[t]
      BY <1>7 DEF Slots
    <3>. HIDE DEF numbered
    <3>. QED BY <3>1, <3>2, <3>3, <1>7 DEF Slots
  <2>. QED BY <1>6, <2>1, <2>2
<1>10. sfile' \in [source_position : Nat, offset : Nat, seek_failed : BOOLEAN,
                  size_known : BOOLEAN]
  <2>1. CASE sfile' = sfile
    BY <2>1, <1>1 DEF TypeOK
  <2>2. CASE sfile' = [sfile EXCEPT !.offset = @ + Got]
    <3>a. sfile.offset \in Nat
      BY <1>1, Types
    <3>1. sfile.offset + Got \in Nat
      BY <3>a, <1>7
    <3>2. sfile \in [source_position : Nat, offset : Nat, seek_failed : BOOLEAN,
                     size_known : BOOLEAN]
      BY <1>1 DEF TypeOK
    <3>. QED BY <2>2, <3>1, <3>2
  <2>. QED BY <1>6, <2>1, <2>2
<1>11. TypeOK'
  BY <1>1, <1>2, <1>3, <1>8, <1>9, <1>10 DEF TypeOK, Idle
<1>12. Linked'
  BY <1>1, <1>2, <1>8, SkipListFacts DEF Linked
<1>13. Placed'
  BY <1>1, <1>2, <1>3, <1>5, <1>8, <1>9 DEF Placed
<1>. QED BY <1>3, <1>11, <1>12, <1>13, GaveUp

\* In a window that moves forward nothing that is skipped is refused.
LEMMA NotRefused ==
  ASSUME TypeOK, Linked, do_src_fifo, NEW n \in Nat, WindowUpTo(n)
  PROVE  ~ Refused(skip_blkno)
<1>. DEFINE k  == skip_blkno
            bs == src.blksize
            x  == lru[k % lru_size].blkno
<1>1. /\ bs \in Nat \ {0} /\ sfile.source_position \in Nat /\ lru_size \in Nat \ {0}
  BY Types
<1>2. /\ k \in Nat /\ sfile.source_position % bs \in 0 .. bs - 1
      /\ sfile.source_position = k * bs + (sfile.source_position % bs)
  BY <1>1, Division DEF skip_blkno
<1>3. n >= lru_size /\ n - 1 \in Nat
  BY <1>1 DEF WindowUpTo
<1>4. (n - 1) * bs <= sfile.source_position
  <2>1. n * bs = (n - 1) * bs + bs /\ (n - 1) * bs \in Nat
    <3>1. PICK m \in Nat : m = n - 1 /\ n = m + 1
      BY <1>3
    <3>. QED BY <3>1, <1>1, Multiples
  <2>. QED BY <2>1, <1>1 DEF WindowUpTo
<1>5. n - 1 <= k
  <2>. SUFFICES ASSUME k < n - 1 PROVE FALSE
    BY <1>2, <1>3
  <2>1. k * bs + bs <= (n - 1) * bs /\ k * bs \in Nat /\ (n - 1) * bs \in Nat
    <3>. HIDE DEF k
    <3>1. PICK m \in Nat : m = n - 1 /\ k < m
      BY <1>2, <1>3
    <3>2. k * bs + bs <= m * bs /\ k * bs \in Nat /\ m * bs \in Nat
      BY <1>1, <1>2, <3>1, NextMultiple, Multiples
    <3>. QED BY <3>1, <3>2
  <2>. QED BY <2>1, <1>1, <1>2, <1>4
<1>6. k % lru_size \in 0 .. lru_size - 1
  BY <1>2, SlotFacts
<1>7. x = INVALID \/ x \in n - lru_size .. n - 1
  BY <1>6 DEF WindowUpTo
<1>8. ~ (x # INVALID /\ x > k)
  <2>. HIDE DEF k, x
  <2>. QED BY <1>1, <1>2, <1>3, <1>5, <1>7
<1>. QED BY <1>8 DEF Refused, FifoRefused, FifoSlot

LEMMA SkipRefusedStep ==
  ASSUME CacheInv, SkipRefused
  PROVE  CacheInv'
<1>1. /\ TypeOK /\ Linked /\ Descriptor /\ Labels /\ Placed /\ Current /\ Window /\ End
      /\ call.pc = "skip" /\ Alive /\ Served
  BY DEF SkipRefused, CacheInv, TypeOK, InCall, Served, Open
<1>2. /\ Refused(skip_blkno) /\ do_src_fifo /\ call' = Idle /\ call'.pc = "idle"
      /\ ret' = "XD3_TOOFARBACK"
      /\ UNCHANGED <<file, sfile, lru, lru_list, do_src_fifo, src, recent>> /\ lru_size' = lru_size
  BY DEF SkipRefused, Fail, Idle, Refused, lru_size
<1>3. Alive' /\ ~ Open' /\ ~ InCall'
  BY <1>2 DEF Alive, Open, InCall
<1>4. ~ Windowed
  BY <1>1, <1>2, NotRefused DEF Window
<1>5. file.seek = "maybe"
  <2>1. file.seek \in {"always", "never", "maybe"}
    BY <1>1, BlkCacheAssumption DEF TypeOK, Kinds
  <2>. QED BY <2>1, <1>1, <1>2, <1>4 DEF Windowed, Descriptor
<1>6. TypeOK' /\ Linked' /\ Opening'
  BY <1>1, <1>2, <1>3 DEF TypeOK, Linked, Opening, Idle
<1>7. Descriptor' /\ Labels' /\ Placed'
  BY <1>1, <1>2, <1>3 DEF Descriptor, Labels, Placed
<1>8. Current'
  BY <1>1, <1>2, <1>5 DEF Current
<1>9. Window' /\ Order' /\ End'
  BY <1>1, <1>2, <1>5 DEF Window, Windowed, Order, Recently, End, EofTrue
<1>. QED BY <1>6, <1>7, <1>8, <1>9 DEF CacheInv

LEMMA ReadErrorStep ==
  ASSUME CacheInv, ReadError
  PROVE  CacheInv'
<1>1. /\ TypeOK /\ Linked /\ Placed /\ call' = Idle /\ ret' = "EIO"
      /\ UNCHANGED <<file, sfile, lru, lru_list, do_src_fifo, src>> /\ lru_size' = lru_size
  BY DEF ReadError, Fail, CacheInv, lru_size
<1>2. ~ Alive' /\ ~ Open' /\ ~ InCall'
  BY <1>1 DEF Alive, Open, InCall, Idle
<1>3. TypeOK' /\ Linked' /\ Placed'
  BY <1>1, <1>2 DEF TypeOK, Idle, Linked, Placed
<1>. QED BY <1>2, <1>3, GaveUp

LEMMA SetSourceErrorStep ==
  ASSUME CacheInv, SetSourceError
  PROVE  CacheInv'
<1>1. /\ TypeOK /\ Linked /\ Placed /\ call' = Idle /\ ret' = "EIO"
      /\ UNCHANGED <<file, sfile, lru, lru_list, do_src_fifo, src>> /\ lru_size' = lru_size
  BY DEF SetSourceError, Fail, CacheInv, lru_size
<1>2. ~ Alive' /\ ~ Open' /\ ~ InCall'
  BY <1>1 DEF Alive, Open, InCall, Idle
<1>3. TypeOK' /\ Linked' /\ Placed'
  BY <1>1, <1>2 DEF TypeOK, Idle, Linked, Placed
<1>. QED BY <1>2, <1>3, GaveUp

\* What a block that was read leaves of the history of requests.
LEMMA ReadOrder ==
  ASSUME TypeOK, Order, Served, Recently, call.pc = "read", recent' = Remembered(call.blkno)
  PROVE  /\ recent' \in [1 .. lru_size -> Nat]
         /\ \A j \in 1 .. lru_size - 1 : recent'[j] = recent[j + 1]
         /\ recent'[lru_size] = call.blkno
<1>. DEFINE n   == lru_size
            b   == call.blkno
            all == Append(recent, b)
<1>1. n \in Nat \ {0} /\ b \in Nat
  BY Types
<1>2. recent \in [1 .. n -> Nat] /\ \A j \in 1 .. n : recent[j] # b
  BY DEF Order
<1>3. recent \in Seq(Nat) /\ Len(recent) = n
  BY <1>1, <1>2, ListIsSeq
<1>4. RemoveFirst(recent, b) = recent
  BY <1>2, <1>3, RemoveFirstAbsent
<1>5. /\ all \in Seq(Nat) /\ Len(all) = n + 1 /\ all[n + 1] = b
      /\ \A j \in 1 .. n : all[j] = recent[j]
  BY <1>1, <1>3, AppendProperties
<1>6. recent' = SubSeq(all, 2, n + 1)
  <2>1. recent' = SubSeq(all, Greater(1, Len(all) - n + 1), Len(all))
    BY <1>4 DEF Remembered, Recently
  <2>2. Greater(1, Len(all) - n + 1) = 2
    BY <1>1, <1>5 DEF Greater
  <2>. HIDE DEF all
  <2>. QED BY <2>1, <2>2, <1>5
<1>. HIDE DEF all
<1>7. \A j \in 2 .. n + 1 : all[j] \in Nat
  BY <1>1, <1>5, ElementOfSeq
<1>8. /\ recent' \in Seq(Nat) /\ Len(recent') = n
      /\ \A j \in 1 .. n : recent'[j] = all[j + 1]
  <2>1. /\ recent' \in Seq(Nat)
        /\ Len(recent') = IF 2 <= n + 1 THEN n + 1 - 2 + 1 ELSE 0
        /\ \A j \in 1 .. n + 1 - 2 + 1 : recent'[j] = all[2 + j - 1]
    BY <1>1, <1>6, <1>7, SubSeqProperties
  <2>2. n + 1 - 2 + 1 = n /\ 2 <= n + 1
    BY <1>1
  <2>3. Len(recent') = n
    BY <2>1, <2>2
  <2>4. ASSUME NEW j \in 1 .. n PROVE recent'[j] = all[j + 1]
    <3>1. 2 + j - 1 = j + 1 /\ j \in 1 .. n + 1 - 2 + 1
      BY <1>1, <2>2
    <3>. QED BY <3>1, <2>1
  <2>. QED BY <2>1, <2>3, <2>4
<1>9. recent' \in [1 .. n -> Nat]
  BY <1>8, LenProperties
<1>10. recent'[n] = b
  <2>1. n \in 1 .. n
    BY <1>1
  <2>. QED BY <2>1, <1>5, <1>8
<1>11. ASSUME NEW j \in 1 .. n - 1 PROVE recent'[j] = recent[j + 1]
  <2>1. j \in 1 .. n /\ j + 1 \in 1 .. n
    BY <1>1
  <2>. QED BY <2>1, <1>5, <1>8
<1>. QED BY <1>9, <1>10, <1>11

LEMMA ReadBlockStep ==
  ASSUME CacheInv, ReadBlock
  PROVE  CacheInv'
<1>. DEFINE bs == src.blksize
            L  == lru_size
<1>1. /\ TypeOK /\ Linked /\ Descriptor /\ Labels /\ Placed /\ Window /\ Order /\ End
      /\ call.pc = "read" /\ Alive /\ InCall /\ Served
  BY DEF ReadBlock, CacheInv, TypeOK, InCall, Served, Open
<1>2. PICK b \in Nat : b = call.blkno
  BY <1>1, Types
<1>3. PICK s \in 0 .. L - 1 : s = call.slot
  BY <1>1, Types
<1>4. PICK n \in Nat : n = Got
  BY <1>1, ReadType, Types
<1>5. /\ lru' = [lru EXCEPT ![s] = [blkno |-> b, size |-> n, blk |-> ReadIn]]
      /\ sfile' = [sfile EXCEPT !.source_position = pos + n, !.offset = @ + n]
      /\ src' = Account([src EXCEPT !.curblkno = b, !.curblk = s, !.onblk = n], b)
      /\ recent' = Remembered(b) /\ ret' = "ok" /\ call' = Idle
      /\ UNCHANGED <<file, lru_list, do_src_fifo>>
  BY <1>2, <1>3, <1>4 DEF ReadBlock, GotBlock
<1>6. /\ bs \in Nat \ {0} /\ L \in Nat \ {0} /\ file.len \in Nat /\ pos = b * bs
      /\ sfile.source_position = b * bs /\ sfile.offset = b * bs /\ b * bs \in Nat
  BY <1>1, <1>2, Types DEF Descriptor, pos
<1>7. /\ n = LenOf(b, bs, file.len) /\ ReadIn = BytesOf(b, bs, file.len)
      /\ ReadIn \in Seq(Nat) /\ n \in 0 .. bs
  BY <1>1, <1>4, <1>6, ReadGivesBlock, ReadType
<1>8. /\ lru_size' = L /\ lru' \in [0 .. L - 1 -> Slots]
      /\ lru'[s].blkno = b /\ lru'[s].size = n /\ lru'[s].blk = ReadIn
      /\ \A t \in 0 .. L - 1 : t # s => lru'[t] = lru[t]
  BY <1>1, <1>5, <1>7, SlotWritten
<1>9. /\ src' \in Sources(L) /\ src'.blksize = bs /\ src'.curblkno = b
      /\ src'.curblk = s /\ src'.onblk = n /\ End'
  BY <1>1, <1>5, <1>7, <1>8, AccountStep
<1>10. /\ sfile' \in [source_position : Nat, offset : Nat, seek_failed : BOOLEAN,
                      size_known : BOOLEAN]
       /\ sfile'.source_position = b * bs + n /\ sfile'.offset = b * bs + n
       /\ sfile'.seek_failed = sfile.seek_failed
  <2>1. b * bs + n \in Nat
    BY <1>6
  <2>. QED BY <2>1, <1>1, <1>5, <1>6 DEF TypeOK
<1>11. Alive' /\ ~ InCall' /\ Served' /\ ~ Open' /\ call'.pc = "idle"
  BY <1>5 DEF Alive, InCall, Served, Open, Idle
<1>12. TypeOK'
  BY <1>1, <1>5, <1>8, <1>9, <1>10, <1>11 DEF TypeOK, Idle
<1>13. Linked' /\ Opening'
  BY <1>1, <1>5, <1>8, <1>11 DEF Linked, Opening
<1>14. \/ sfile'.source_position = (b + 1) * bs
       \/ sfile'.source_position >= file.len /\ n < bs
  <2>1. (b + 1) * bs = b * bs + bs
    BY <1>6, Multiples
  <2>2. n = bs \/ b * bs + n >= file.len
    BY <1>6, <1>7 DEF LenOf, Lesser
  <2>. QED BY <2>1, <2>2, <1>6, <1>7, <1>10
<1>15. Descriptor'
  BY <1>1, <1>5, <1>9, <1>10, <1>11, <1>14 DEF Descriptor
<1>16. Labels'
  <2>1. ASSUME NEW t \in 0 .. L - 1, lru'[t].blkno # INVALID
        PROVE  /\ lru'[t].size = LenOf(lru'[t].blkno, bs, file.len)
               /\ lru'[t].blk = BytesOf(lru'[t].blkno, bs, file.len)
    BY <2>1, <1>1, <1>7, <1>8 DEF Labels
  <2>2. ASSUME NEW t \in 0 .. L - 1, NEW u \in 0 .. L - 1, t # u,
               lru'[t].blkno # INVALID
        PROVE  lru'[t].blkno # lru'[u].blkno
    BY <2>2, <1>1, <1>2, <1>8 DEF Labels
  <2>. QED BY <2>1, <2>2, <1>5, <1>8, <1>9, <1>11 DEF Labels
<1>17. Placed'
  BY <1>1, <1>2, <1>3, <1>5, <1>8, <1>11 DEF Placed
<1>18. Current'
  BY <1>5, <1>7, <1>8, <1>9 DEF Current, Nowhere
<1>19. Window'
  <2>. SUFFICES ASSUME Windowed PROVE WindowUpTo(b + 1)'
    BY <1>1, <1>5 DEF Window, Windowed
  <2>1. PICK m \in Nat : WindowUpTo(m)
    BY <1>1 DEF Window
  <2>2. m <= b /\ m >= L
    BY <2>1, <1>1, <1>2 DEF WindowUpTo
  <2>3. m = b
    <3>1. SUFFICES ASSUME m < b PROVE FALSE
      BY <2>2
    <3>2. m * bs + bs <= b * bs /\ m * bs \in Nat
      BY <3>1, <1>6, NextMultiple, Multiples
    <3>. QED BY <3>2, <2>1, <1>6 DEF WindowUpTo
  <2>4. ASSUME NEW t \in 0 .. L - 1 PROVE lru'[t].blkno \in b + 1 - L .. b
    <3>1. CASE t = s
      BY <3>1, <2>2, <1>6, <1>8
    <3>2. CASE t # s
      <4>1. lru[t].blkno \in b - L .. b - 1
        BY <3>2, <2>1, <2>3, <1>3 DEF WindowUpTo
      <4>2. b - L \in Nat /\ (b - L) + L = b
        BY <2>2, <2>3, <1>6
      <4>3. lru[t].blkno # INVALID
        BY <4>1, <4>2 DEF INVALID
      <4>4. lru[t].blkno % L = t /\ b % L = s
        BY <4>3, <1>1, <1>2, <1>3 DEF Placed, Windowed
      <4>5. (b - L) % L = b % L
        BY <4>2, <1>6, SameResidue
      <4>6. lru[t].blkno # b - L
        BY <4>4, <4>5, <3>2
      <4>7. ASSUME NEW x \in b - L .. b - 1, x # b - L PROVE x \in b + 1 - L .. b
        BY <4>7, <4>2, <1>6
      <4>. QED BY <4>1, <4>6, <4>7, <3>2, <1>8
    <3>. QED BY <3>1, <3>2
  <2>5. b + 1 >= L /\ (b + 1) - 1 = b /\ (b + 1) - L = b + 1 - L
    BY <2>2, <2>3, <1>6
  <2>6. \/ sfile'.source_position = (b + 1) * bs
        \/ /\ sfile'.source_position >= file.len
           /\ b * bs <= sfile'.source_position /\ sfile'.source_position < (b + 1) * bs
    <3>1. (b + 1) * bs = b * bs + bs
      BY <1>6, Multiples
    <3>. QED BY <3>1, <1>6, <1>7, <1>10, <1>14
  <2>. QED BY <2>4, <2>5, <2>6, <1>5, <1>8, <1>9, <1>11 DEF WindowUpTo
<1>20. Order'
  <2>. SUFFICES ASSUME Recently PROVE Order'
    BY <1>5 DEF Order, Recently
  <2>1. /\ recent' \in [1 .. L -> Nat] /\ recent'[L] = b
        /\ \A j \in 1 .. L - 1 : recent'[j] = recent[j + 1]
    BY <1>1, <1>2, <1>5, ReadOrder
  <2>2. /\ \A j \in 1 .. L - 1 : lru[lru_list[j]].blkno = recent[j + 1]
        /\ lru_list[L] = s
    BY <1>1, <1>3 DEF Order
  <2>3. ASSUME NEW j \in 1 .. L PROVE lru'[lru_list[j]].blkno = recent'[j]
    <3>1. CASE j = L
      BY <3>1, <2>1, <2>2, <1>8
    <3>2. CASE j # L
      <4>1. j \in 1 .. L - 1 /\ L \in 1 .. L
        BY <3>2, <1>6
      <4>2. lru_list[j] \in 0 .. L - 1 /\ lru_list[j] # s
        BY <4>1, <3>2, <2>2, <1>1 DEF Linked, Links
      <4>. QED BY <4>1, <4>2, <2>1, <2>2, <1>8
    <3>. QED BY <3>1, <3>2
  <2>. QED BY <2>1, <2>3, <1>5, <1>8, <1>11 DEF Order
<1>. QED BY <1>9, <1>12, <1>13, <1>15, <1>16, <1>17, <1>18, <1>19, <1>20 DEF CacheInv

-----------------------------------------------------------------------------
(* main_set_source.                                                        *)

LEMMA FirstN ==
  ASSUME NEW n \in Nat \ {0}
  PROVE  Links(Span(0, n), n) /\ \A j \in 1 .. n : Span(0, n)[j] = j - 1
<1>. DEFINE q == Span(0, n)
<1>1. q \in [1 .. n -> 0 .. n - 1] /\ \A j \in 1 .. n : q[j] = j - 1
  BY DEF Span
<1>. HIDE DEF q
<1>2. ASSUME NEW s \in 0 .. n - 1 PROVE \E i \in 1 .. n : q[i] = s
  <2>1. s + 1 \in 1 .. n /\ q[s + 1] = s
    BY <1>1
  <2>. QED BY <2>1
<1>3. ASSUME NEW i \in 1 .. n, NEW j \in 1 .. n, q[i] = q[j] PROVE i = j
  BY <1>1, <1>3
<1>4. Links(q, n)
  BY <1>1, <1>2, <1>3 DEF Links
<1>. QED BY <1>1, <1>4 DEF q

\* The buffer is divided into blocks that fill it.
LEMMA Divided ==
  ASSUME file \in Files
  PROVE  /\ MaxLruSize \in Nat \ {0} /\ file.srcwinsz \div MaxLruSize \in Nat \ {0}
         /\ file.srcwinsz = MaxLruSize * (file.srcwinsz \div MaxLruSize)
<1>. DEFINE w == file.srcwinsz
            m == MaxLruSize
<1>1. m \in Nat \ {0} /\ w \in Nat \ {0} /\ w % m = 0
  BY FileFacts, BlkCacheAssumption
<1>2. w \div m \in Nat /\ w = (w \div m) * m + (w % m)
  BY <1>1, Division
<1>. DEFINE d == w \div m
<1>3. d \in Nat /\ w = d * m
  <2>. HIDE DEF w, m
  <2>. QED BY <1>1, <1>2
<1>4. d # 0
  <2>. HIDE DEF w, m, d
  <2>. QED BY <1>1, <1>3
<1>5. d * m = m * d
  <2>. HIDE DEF w, m, d
  <2>. QED BY <1>1, <1>3
<1>. QED BY <1>1, <1>3, <1>4, <1>5

\* What the first read says of the source.
LEMMA FirstRead ==
  ASSUME file \in Files, NEW n, n = Lesser(file.srcwinsz, file.len),
         NEW stat, stat = (file.stat # NoSize /\ ~ file.compressed),
         NEW known, known = (stat \/ n < file.srcwinsz),
         NEW size, size = (IF stat THEN file.stat ELSE n),
         NEW split, split = (~ known \/ size > file.srcwinsz)
  PROVE  /\ n \in Nat /\ stat \in BOOLEAN /\ known \in BOOLEAN /\ split \in BOOLEAN
         /\ known => size = file.len
         /\ split => n = file.srcwinsz /\ n <= file.len
         /\ ~ split => known /\ n = file.len /\ file.len <= file.srcwinsz
<1>1. /\ file.len \in Nat /\ file.srcwinsz \in Nat \ {0} /\ file.stat \in Int
      /\ file.stat # NoSize /\ ~ file.compressed => file.stat = file.len
  BY FileFacts DEF NoSize
<1>2. n \in Nat /\ n <= file.srcwinsz /\ n <= file.len
      /\ (n = file.srcwinsz \/ n = file.len)
  BY <1>1 DEF Lesser
<1>3. stat \in BOOLEAN /\ (stat => file.stat = file.len) /\ (known <=> stat \/ n < file.srcwinsz)
      /\ (split <=> ~ known \/ size > file.srcwinsz) /\ known \in BOOLEAN /\ split \in BOOLEAN
  BY <1>1
<1>4. (stat => size = file.stat) /\ (~ stat => size = n)
  OBVIOUS
<1>5. known => size = file.len
  <2>1. CASE stat
    BY <2>1, <1>3, <1>4
  <2>2. CASE ~ stat
    BY <2>2, <1>1, <1>2, <1>3, <1>4
  <2>. QED BY <2>1, <2>2
<1>6. split => n = file.srcwinsz
  <2>1. CASE ~ known
    BY <2>1, <1>1, <1>2, <1>3
  <2>2. CASE known /\ split
    BY <2>2, <1>1, <1>2, <1>3, <1>5
  <2>. QED BY <2>1, <2>2
<1>7. ~ split => known /\ n = file.len /\ file.len <= file.srcwinsz
  <2>. SUFFICES ASSUME ~ split PROVE known /\ n = file.len /\ file.len <= file.srcwinsz
    OBVIOUS
  <2>1. known /\ size = file.len /\ ~ (file.len > file.srcwinsz)
    BY <1>3, <1>5
  <2>. QED BY <2>1, <1>1, <1>2
<1>. QED BY <1>2, <1>3, <1>5, <1>6, <1>7

LEMMA OneSlot == Links(<<0>>, 1)
<1>1. <<0>> \in [1 .. 1 -> 0 .. 1 - 1] /\ <<0>>[1] = 0
  OBVIOUS
<1>. QED BY <1>1 DEF Links

\* main_set_source, with names for what it computes: the blocks 0 .. m - 1 of
\* size bs are in the slots of the same number.
LEMMA SetSourceIs ==
  ASSUME CacheInv, SetSource
  PROVE  \E n \in Nat, known, split \in BOOLEAN, bs, m \in Nat \ {0} :
           /\ split => n = m * bs /\ n <= file.len
           /\ ~ split => known /\ m = 1 /\ n = file.len /\ n <= bs
           /\ sfile'.source_position = n /\ sfile'.offset = n
           /\ sfile' \in [source_position : Nat, offset : Nat, seek_failed : BOOLEAN,
                          size_known : BOOLEAN]
           /\ sfile'.seek_failed = sfile.seek_failed
           /\ lru' = [i \in 0 .. m - 1 |->
                       [blkno |-> i, size |-> IF split THEN bs ELSE n,
                        blk |-> IF split THEN Span(i * bs, bs) ELSE Span(0, n)]]
           /\ lru_list' = IF split THEN Span(0, m) ELSE <<0>>
           /\ src' \in Sources(m) /\ src'.blksize = bs /\ src'.curblkno = 0
           /\ src'.curblk = 0 /\ src'.onblk = IF split THEN bs ELSE n
           /\ src'.eof_known = known
           /\ known => /\ src'.max_blkno = file.len \div bs
                       /\ src'.onlastblk = file.len % bs
           /\ ~ known => src'.onlastblk <= bs
<1>. DEFINE w     == file.srcwinsz
            n     == Lesser(w, file.len)
            stat  == file.stat # NoSize /\ ~ file.compressed
            known == stat \/ n < w
            size  == IF stat THEN file.stat ELSE n
            split == ~ known \/ size > w
            bs    == IF split THEN w \div MaxLruSize ELSE w
            m     == IF split THEN MaxLruSize ELSE 1
<1>1. /\ TypeOK /\ Open /\ file \in Files /\ w \in Nat \ {0} /\ src.blksize = w
      /\ src \in Sources(lru_size) /\ ~ src.eof_known /\ src.onlastblk = 0
  BY FileFacts DEF SetSource, CacheInv, Opening, Open, TypeOK
<1>2. /\ n \in Nat /\ stat \in BOOLEAN /\ known \in BOOLEAN /\ split \in BOOLEAN
      /\ known => size = file.len
      /\ split => n = w /\ n <= file.len
      /\ ~ split => known /\ n = file.len /\ file.len <= w
  BY <1>1, FirstRead
<1>3. MaxLruSize \in Nat \ {0} /\ w \div MaxLruSize \in Nat \ {0}
      /\ w = MaxLruSize * (w \div MaxLruSize)
  BY <1>1, Divided
<1>. DEFINE whole == [src EXCEPT !.curblkno = 0, !.curblk = 0, !.onblk = n]
            cut   == [whole EXCEPT !.blksize = w \div MaxLruSize,
                                   !.onblk = w \div MaxLruSize,
                                   !.onlastblk = w \div MaxLruSize,
                                   !.max_blkno = MaxLruSize - 1]
            first == IF split THEN cut ELSE whole
<1>4. /\ sfile' = [sfile EXCEPT !.source_position = n, !.offset = n, !.size_known = known]
      /\ lru' = IF split THEN SplitBlocks(first.blksize) ELSE OneBlock(n)
      /\ lru_list' = IF split THEN Span(0, MaxLruSize) ELSE <<0>>
      /\ src' = IF known THEN WithSize(first, size) ELSE first
  BY DEF SetSource
<1>5. /\ whole \in Sources(1) /\ whole.curblkno = 0 /\ whole.curblk = 0
      /\ whole.onblk = n /\ whole.blksize = w /\ whole.onlastblk = 0
      /\ ~ whole.eof_known
  <2>. HIDE DEF n
  <2>1. 0 \in (0 .. 1 - 1) \cup {Nowhere} /\ 0 \in Nat \cup {INVALID} /\ n \in Nat
    BY <1>2
  <2>2. whole \in Sources(1)
    BY <2>1, <1>1 DEF Sources
  <2>3. /\ whole.curblkno = 0 /\ whole.curblk = 0 /\ whole.onblk = n
        /\ whole.blksize = src.blksize /\ whole.onlastblk = src.onlastblk
        /\ whole.eof_known = src.eof_known
    BY <1>1 DEF Sources
  <2>. QED BY <2>2, <2>3, <1>1
<1>6. /\ cut \in Sources(MaxLruSize) /\ cut.curblkno = 0 /\ cut.curblk = 0
      /\ cut.onblk = w \div MaxLruSize /\ cut.blksize = w \div MaxLruSize
      /\ cut.onlastblk = w \div MaxLruSize /\ ~ cut.eof_known
  <2>. DEFINE d == w \div MaxLruSize
  <2>. HIDE DEF whole, d
  <2>1. /\ d \in Nat \ {0} /\ d \in Nat /\ MaxLruSize - 1 \in Nat
        /\ 0 \in (0 .. MaxLruSize - 1) \cup {Nowhere}
    BY <1>3 DEF d
  <2>2. cut = [whole EXCEPT !.blksize = d, !.onblk = d, !.onlastblk = d,
                            !.max_blkno = MaxLruSize - 1]
    BY DEF d
  <2>. HIDE DEF cut
  <2>3. /\ cut.curblkno = 0 /\ cut.curblk = 0 /\ cut.onblk = d /\ cut.blksize = d
        /\ cut.onlastblk = d /\ cut.eof_known = whole.eof_known
    BY <2>2, <1>5 DEF Sources
  <2>4. cut \in Sources(MaxLruSize)
    <3>1. whole \in Sources(MaxLruSize)
      BY <2>1, <1>5 DEF Sources
    <3>. QED BY <3>1, <2>1, <2>2 DEF Sources
  <2>. QED BY <2>3, <2>4, <1>5 DEF d
<1>7. bs \in Nat \ {0} /\ m \in Nat \ {0} /\ (split => n = m * bs)
  <2>. HIDE DEF n, w, known, size
  <2>. QED BY <1>1, <1>2, <1>3
<1>8. /\ first \in Sources(m) /\ first.curblkno = 0 /\ first.curblk = 0
      /\ first.onblk = (IF split THEN bs ELSE n) /\ first.blksize = bs
      /\ ~ first.eof_known /\ first.onlastblk \in {0, bs}
  <2>. HIDE DEF whole, cut, split, n, w
  <2>. QED BY <1>5, <1>6
<1>. HIDE DEF whole, cut, first
<1>9. /\ src' \in Sources(m) /\ src'.blksize = bs /\ src'.curblkno = 0
      /\ src'.curblk = 0 /\ src'.onblk = (IF split THEN bs ELSE n)
      /\ src'.eof_known = known
      /\ known => src'.max_blkno = file.len \div bs /\ src'.onlastblk = file.len % bs
      /\ ~ known => src'.onlastblk <= bs
  <2>. HIDE DEF n, w, split, size, known, bs, m
  <2>1. CASE known
    <3>1. src' = [first EXCEPT !.eof_known = TRUE, !.max_blkno = file.len \div bs,
                               !.onlastblk = file.len % bs]
      BY <2>1, <1>2, <1>4, <1>8 DEF WithSize
    <3>2. file.len \div bs \in Nat /\ file.len % bs \in Nat
      <4>1. file.len \in Nat
        BY <1>1, FileFacts
      <4>. QED BY <4>1, <1>7, Division
    <3>. QED BY <3>1, <3>2, <2>1, <1>8 DEF Sources
  <2>2. CASE ~ known
    BY <2>2, <1>2, <1>4, <1>7, <1>8 DEF Sources
  <2>. QED BY <2>1, <2>2
<1>10. lru' = [i \in 0 .. m - 1 |->
                 [blkno |-> i, size |-> IF split THEN bs ELSE n,
                  blk |-> IF split THEN Span(i * bs, bs) ELSE Span(0, n)]]
  <2>. HIDE DEF n, w, size, known
  <2>1. CASE split
    <3>1. lru' = SplitBlocks(bs) /\ m = MaxLruSize
      BY <2>1, <1>4, <1>8
    <3>. HIDE DEF split, m, bs
    <3>. QED BY <3>1, <2>1 DEF SplitBlocks
  <2>2. CASE ~ split
    <3>1. lru' = OneBlock(n) /\ m = 1 /\ 0 .. 1 - 1 = {0}
      BY <2>2, <1>4
    <3>. HIDE DEF split, m, bs
    <3>. QED BY <3>1, <2>2 DEF OneBlock
  <2>. QED BY <2>1, <2>2
<1>11. lru_list' = IF split THEN Span(0, m) ELSE <<0>>
  <2>. HIDE DEF w, size, known
  <2>. QED BY <1>4
<1>12. /\ sfile'.source_position = n /\ sfile'.offset = n
       /\ sfile' \in [source_position : Nat, offset : Nat, seek_failed : BOOLEAN,
                      size_known : BOOLEAN]
       /\ sfile'.seek_failed = sfile.seek_failed
  <2>. HIDE DEF n, known
  <2>. QED BY <1>1, <1>2, <1>4 DEF TypeOK
<1>13. ~ split => known /\ m = 1 /\ n = file.len /\ n <= bs
  <2>. HIDE DEF n, w, size, known
  <2>. QED BY <1>1, <1>2
<1>. HIDE DEF n, w, stat, size, known, split, bs, m
<1>. QED BY <1>2, <1>7, <1>9, <1>10, <1>11, <1>12, <1>13

LEMMA SetSourceStep ==
  ASSUME CacheInv, SetSource
  PROVE  CacheInv'
<1>1. PICK n \in Nat, known, split \in BOOLEAN, bs, m \in Nat \ {0} :
        /\ split => n = m * bs /\ n <= file.len
        /\ ~ split => known /\ m = 1 /\ n = file.len /\ n <= bs
        /\ sfile'.source_position = n /\ sfile'.offset = n
        /\ sfile' \in [source_position : Nat, offset : Nat, seek_failed : BOOLEAN,
                       size_known : BOOLEAN]
        /\ sfile'.seek_failed = sfile.seek_failed
        /\ lru' = [i \in 0 .. m - 1 |->
                     [blkno |-> i, size |-> IF split THEN bs ELSE n,
                      blk |-> IF split THEN Span(i * bs, bs) ELSE Span(0, n)]]
        /\ lru_list' = IF split THEN Span(0, m) ELSE <<0>>
        /\ src' \in Sources(m) /\ src'.blksize = bs /\ src'.curblkno = 0
        /\ src'.curblk = 0 /\ src'.onblk = IF split THEN bs ELSE n
        /\ src'.eof_known = known
        /\ known => src'.max_blkno = file.len \div bs /\ src'.onlastblk = file.len % bs
        /\ ~ known => src'.onlastblk <= bs
  BY SetSourceIs
<1>2. /\ TypeOK /\ Opening /\ Open /\ ret = "ok" /\ file.len \in Nat
      /\ ~ sfile.seek_failed
      /\ file' = file /\ ret' = ret /\ call' = Idle /\ do_src_fifo' \in BOOLEAN
      /\ (~ do_src_fifo' => recent' = lru_list')
  <2>1. TypeOK /\ Opening /\ Open
    BY DEF SetSource, CacheInv, Open
  <2>2. do_src_fifo' \in BOOLEAN
    BY <2>1 DEF SetSource, TypeOK
  <2>. QED BY <2>1, <2>2, Types DEF SetSource, Opening
<1>3. /\ Alive' /\ ~ Open' /\ Served' /\ ~ InCall' /\ call'.pc = "idle"
      /\ call' \in [pc : {"open", "idle", "skip", "read"}, blkno : Nat,
                    slot : (0 .. m - 1) \cup {Nowhere}]
  BY <1>2 DEF Alive, Open, Served, InCall, Idle
<1>4. lru_size' = m
  <2>1. DOMAIN lru' = 0 .. m - 1
    BY <1>1
  <2>2. Cardinality(0 .. m - 1) = m
    <3>1. m - 1 \in Int /\ m - 1 - 0 + 1 = m
      OBVIOUS
    <3>2. Cardinality(0 .. m - 1) = IF 0 > m - 1 THEN 0 ELSE m - 1 - 0 + 1
      BY <3>1, FS_Interval
    <3>. QED BY <3>1, <3>2
  <2>. QED BY <2>1, <2>2 DEF lru_size
<1>5. Links(lru_list', m)
  <2>1. CASE split
    BY <2>1, <1>1, FirstN
  <2>2. CASE ~ split
    BY <2>2, <1>1, OneSlot
  <2>. QED BY <2>1, <2>2
<1>6. ASSUME NEW i \in 0 .. m - 1
      PROVE  /\ lru'[i] \in Slots /\ lru'[i].blkno = i
             /\ lru'[i].size = LenOf(i, bs, file.len)
             /\ lru'[i].blk = BytesOf(i, bs, file.len)
  <2>1. CASE split
    <3>1. lru'[i] = [blkno |-> i, size |-> bs, blk |-> Span(i * bs, bs)]
      BY <2>1, <1>1
    <3>2. i * bs \in Nat /\ i * bs + bs <= m * bs /\ m * bs <= file.len
      BY <2>1, <1>1, NextMultiple, Multiples
    <3>3. LenOf(i, bs, file.len) = bs
      BY <3>2, <1>2 DEF LenOf, Lesser
    <3>4. Span(i * bs, bs) \in Seq(Nat)
      BY <3>2, SpanType
    <3>. QED BY <3>1, <3>3, <3>4 DEF BytesOf, Slots
  <2>2. CASE ~ split
    <3>1. i = 0 /\ n = file.len /\ n <= bs
      BY <2>2, <1>1
    <3>2. lru'[i] = [blkno |-> 0, size |-> n, blk |-> Span(0, n)]
      BY <2>2, <3>1, <1>1
    <3>3. LenOf(0, bs, file.len) = n
      BY <3>1, <1>2 DEF LenOf, Lesser
    <3>4. BytesOf(0, bs, file.len) = Span(0, n)
      BY <3>3 DEF BytesOf
    <3>5. Span(0, n) \in Seq(Nat)
      BY SpanType
    <3>. QED BY <3>1, <3>2, <3>3, <3>4, <3>5 DEF Slots
  <2>. QED BY <2>1, <2>2
<1>7. lru' \in [0 .. m - 1 -> Slots]
  BY <1>1, <1>6
<1>8. TypeOK'
  BY <1>1, <1>2, <1>3, <1>4, <1>7 DEF TypeOK
<1>9. Linked' /\ Opening'
  BY <1>3, <1>4, <1>5 DEF Linked, Opening
<1>10. Descriptor'
  <2>1. \/ \E k \in Nat : sfile'.source_position = k * src'.blksize
        \/ sfile'.source_position >= file'.len
    <3>1. CASE split
      <4>1. m \in Nat /\ sfile'.source_position = m * src'.blksize
        BY <3>1, <1>1
      <4>. QED BY <4>1
    <3>2. CASE ~ split
      BY <3>2, <1>1, <1>2
    <3>. QED BY <3>1, <3>2
  <2>. QED BY <2>1, <1>1, <1>2, <1>3 DEF Descriptor
<1>11. Labels'
  BY <1>1, <1>2, <1>3, <1>4, <1>6 DEF Labels
<1>12. Placed'
  <2>1. \A i \in 0 .. m - 1 : i % m = i
    OBVIOUS
  <2>. QED BY <2>1, <1>3, <1>4, <1>6 DEF Placed
<1>13. Current'
  <2>1. 0 \in 0 .. m - 1
    OBVIOUS
  <2>2. lru'[0].size = LenOf(0, bs, file.len) /\ lru'[0].blk = BytesOf(0, bs, file.len)
    BY <2>1, <1>6
  <2>3. src'.onblk = lru'[0].size
    BY <2>1, <1>1
  <2>. QED BY <2>2, <2>3, <1>1, <1>2 DEF Current, Nowhere
<1>14. Window'
  <2>1. \/ n = m * bs
        \/ n >= file.len /\ (m - 1) * bs <= n /\ n < m * bs
    BY <1>1
  <2>2. m - m = 0
    OBVIOUS
  <2>3. \A i \in 0 .. m - 1 : lru'[i].blkno \in m - m .. m - 1
    BY <2>2, <1>6
  <2>4. WindowUpTo(m)'
    BY <2>1, <2>3, <1>1, <1>2, <1>3, <1>4 DEF WindowUpTo
  <2>. QED BY <2>4 DEF Window
<1>15. Order'
  <2>. SUFFICES ASSUME ~ do_src_fifo' PROVE Order'
    BY DEF Order, Recently
  <2>1. recent' = lru_list' /\ lru_list' \in [1 .. m -> 0 .. m - 1]
    BY <1>2, <1>5 DEF Links
  <2>2. recent' \in [1 .. m -> Nat]
    BY <2>1
  <2>3. \A j \in 1 .. m : lru'[lru_list'[j]].blkno = recent'[j]
    BY <2>1, <1>6
  <2>. QED BY <2>2, <2>3, <1>3, <1>4 DEF Order
<1>16. End'
  <2>1. CASE known
    <3>1. file.len \div bs \in Nat /\ file.len % bs \in 0 .. bs - 1
          /\ file.len = (file.len \div bs) * bs + (file.len % bs)
      BY <1>2, Division
    <3>2. /\ src'.blksize = bs /\ src'.max_blkno = file.len \div bs
          /\ src'.onlastblk = file.len % bs
      BY <2>1, <1>1
    <3>3. src'.onlastblk <= src'.blksize
      BY <3>1, <3>2
    <3>4. src'.max_blkno * src'.blksize + src'.onlastblk = file'.len
      BY <3>1, <3>2, <1>2
    <3>. QED BY <3>3, <3>4 DEF End, EofTrue
  <2>2. CASE ~ known
    BY <2>2, <1>1 DEF End, EofTrue
  <2>. QED BY <2>1, <2>2
<1>. QED BY <1>8, <1>9, <1>10, <1>11, <1>12, <1>13, <1>14, <1>15, <1>16 DEF CacheInv

-----------------------------------------------------------------------------
(* The invariant.                                                          *)

LEMMA InitInv ==
  ASSUME Init
  PROVE  CacheInv
<1>1. /\ file \in Files /\ file.srcwinsz \in Nat \ {0} /\ file.encode \in BOOLEAN
      /\ call = [pc |-> "open", blkno |-> 0, slot |-> Nowhere] /\ ret = "ok"
      /\ lru = [i \in {0} |-> [blkno |-> INVALID, size |-> 0, blk |-> <<>>]]
      /\ lru_list = <<0>> /\ do_src_fifo = file.encode /\ recent = <<>>
      /\ sfile = [source_position |-> 0, offset |-> 0, seek_failed |-> FALSE,
                  size_known |-> FALSE]
      /\ src = [blksize |-> file.srcwinsz, curblkno |-> INVALID, curblk |-> Nowhere,
                onblk |-> 0, max_blkno |-> 0, onlastblk |-> 0, eof_known |-> FALSE]
  BY FileFacts DEF Init, Idle
<1>2. lru_size = 1
  <2>1. DOMAIN lru = {0} /\ Cardinality({0}) = 1
    BY <1>1, FS_Singleton
  <2>. QED BY <2>1 DEF lru_size
<1>3. Open /\ Alive /\ ~ Served /\ ~ InCall
  BY <1>1 DEF Open, Alive, Served, InCall
<1>4. TypeOK
  <2>1. lru \in [0 .. 0 -> Slots] /\ 0 .. 1 - 1 = 0 .. 0
    <3>1. 0 .. 0 = {0} /\ <<>> \in Seq(Nat)
      OBVIOUS
    <3>2. [blkno |-> INVALID, size |-> 0, blk |-> <<>>] \in Slots
      BY <3>1 DEF Slots
    <3>. QED BY <3>1, <3>2, <1>1
  <2>2. src \in Sources(1)
    BY <1>1 DEF Sources
  <2>3. call \in [pc : {"open", "idle", "skip", "read"}, blkno : Nat,
                  slot : (0 .. 1 - 1) \cup {Nowhere}]
    BY <1>1
  <2>4. sfile \in [source_position : Nat, offset : Nat, seek_failed : BOOLEAN,
                   size_known : BOOLEAN]
    BY <1>1
  <2>. QED BY <2>1, <2>2, <2>3, <2>4, <1>1, <1>2, <1>3 DEF TypeOK
<1>5. Linked
  BY <1>1, <1>2, OneSlot DEF Linked
<1>6. Opening
  BY <1>1, <1>2 DEF Opening
<1>7. Descriptor
  <2>1. 0 = 0 * file.srcwinsz
    BY <1>1
  <2>. QED BY <2>1, <1>1 DEF Descriptor
<1>8. Labels /\ Placed
  <2>1. \A s \in 0 .. lru_size - 1 : lru[s].blkno = INVALID
    BY <1>1, <1>2
  <2>. QED BY <2>1, <1>3 DEF Labels, Placed
<1>9. Current /\ Window /\ Order
  BY <1>3 DEF Current, Window, Order
<1>10. End
  BY <1>1 DEF End, EofTrue
<1>. QED BY <1>4, <1>5, <1>6, <1>7, <1>8, <1>9, <1>10 DEF CacheInv

LEMMA NextStep ==
  ASSUME CacheInv, [Next]_vars
  PROVE  CacheInv'
<1>1. CASE SetSource
  BY <1>1, SetSourceStep
<1>2. CASE SetSourceError
  BY <1>2, SetSourceErrorStep
<1>3. CASE Reads
  BY <1>3, SkipBlockStep, SkipShortStep, SkipRefusedStep, ReadBlockStep, ReadErrorStep
     DEF Reads
<1>4. ASSUME NEW b \in 0 .. MaxBlkno, Getblk(b)
      PROVE  CacheInv'
  BY <1>4, InMemoryStep, GetblkHitStep, GetblkRefusedStep, GetblkNextStep, GetblkSeekStep,
     GetblkTooFarBackStep, GetblkForwardStep DEF Getblk
<1>5. CASE UNCHANGED vars
  BY <1>5, Stuttering
<1>. QED BY <1>1, <1>2, <1>3, <1>4, <1>5 DEF Next, Stopped

\* CacheInv is an invariant of the cache.
THEOREM CacheInvariant == Spec => []CacheInv
<1>1. Init => CacheInv
  BY InitInv
<1>2. CacheInv /\ [Next]_vars => CacheInv'
  BY NextStep
<1>. QED BY <1>1, <1>2, PTL DEF Spec

-----------------------------------------------------------------------------
(* What it implies.                                                        *)

LEMMA ImpliesLabelsTrue ==
  ASSUME CacheInv
  PROVE  LabelsTrue
<1>. SUFFICES ASSUME Alive, NEW s \in DOMAIN lru, NEW b, b = lru[s].blkno, b # INVALID
              PROVE  /\ SubSeq(lru[s].blk, 1, lru[s].size) = BlockBytes(b)
                     /\ \A t \in DOMAIN lru \ {s} : lru[t].blkno # b
  BY DEF LabelsTrue
<1>1. /\ TypeOK /\ Labels /\ DOMAIN lru = 0 .. lru_size - 1
      /\ src.blksize \in Nat \ {0} /\ file.len \in Nat
  BY Types DEF CacheInv, TypeOK
<1>2. b \in Nat
  BY <1>1 DEF TypeOK, Slots
<1>3. lru[s].size = LenOf(b, src.blksize, file.len)
      /\ lru[s].blk = BytesOf(b, src.blksize, file.len)
  BY <1>1 DEF Labels
<1>4. SubSeq(lru[s].blk, 1, lru[s].size) = BlockBytes(b)
  <2>. DEFINE n == LenOf(b, src.blksize, file.len)
              q == BytesOf(b, src.blksize, file.len)
  <2>1. SubSeq(q, 1, n) = q
    BY <1>1, <1>2, BlockFacts
  <2>2. BlockBytes(b) = q
    BY BlockBytesIs
  <2>. HIDE DEF n, q
  <2>. QED BY <2>1, <2>2, <1>3 DEF n, q
<1>5. \A t \in DOMAIN lru \ {s} : lru[t].blkno # b
  BY <1>1 DEF Labels
<1>. QED BY <1>4, <1>5

LEMMA ImpliesCurrentBlockHolds ==
  ASSUME CacheInv
  PROVE  CurrentBlockHolds
<1>. SUFFICES ASSUME Alive, call.pc = "idle", ~ (do_src_fifo /\ file.seek = "maybe")
              PROVE  SubSeq(lru[src.curblk].blk, 1, src.onblk) = BlockBytes(src.curblkno)
  BY DEF CurrentBlockHolds
<1>1. src.blksize \in Nat \ {0} /\ file.len \in Nat
  BY Types DEF CacheInv
<1>2. /\ src.curblkno \in Nat /\ src.onblk = LenOf(src.curblkno, src.blksize, file.len)
      /\ lru[src.curblk].blk = BytesOf(src.curblkno, src.blksize, file.len)
  BY DEF CacheInv, Current, Served, Open
<1>. DEFINE b == src.curblkno
            n == LenOf(b, src.blksize, file.len)
            q == BytesOf(b, src.blksize, file.len)
<1>3. SubSeq(q, 1, n) = q
  BY <1>1, <1>2, BlockFacts
<1>4. BlockBytes(b) = q
  BY BlockBytesIs
<1>. HIDE DEF n, q
<1>. QED BY <1>2, <1>3, <1>4 DEF n, q

LEMMA ImpliesWindowKept ==
  ASSUME CacheInv
  PROVE  WindowKept
<1>. DEFINE L      == lru_size
            labels == {lru[s].blkno : s \in DOMAIN lru}
<1>. SUFFICES ASSUME Alive, call.pc = "idle", do_src_fifo, file.seek = "never"
              PROVE  \A b \in Max(labels) - L + 1 .. Max(labels) :
                       b >= 0 => Holding(b) # {}
  BY DEF WindowKept
<1>1. /\ DOMAIN lru = 0 .. L - 1 /\ L \in Nat \ {0} /\ Placed /\ Window
      /\ Served /\ Windowed /\ ~ InCall
  BY DEF CacheInv, TypeOK, Served, Windowed, Open, InCall
<1>2. PICK n \in Nat : WindowUpTo(n)
  BY <1>1 DEF Window
<1>3. /\ n >= L /\ n - L \in Nat
      /\ \A s \in 0 .. L - 1 : lru[s].blkno \in n - L .. n - 1
  BY <1>1, <1>2 DEF WindowUpTo
<1>4. ASSUME NEW b \in n - L .. n - 1
      PROVE  b % L \in DOMAIN lru /\ lru[b % L].blkno = b
  <2>1. b \in Nat /\ b % L \in 0 .. L - 1
    BY <1>1, <1>3
  <2>2. PICK x \in n - L .. n - 1 : x = lru[b % L].blkno
    BY <2>1, <1>3
  <2>3. x \in Nat /\ x < b + L /\ b < x + L
    BY <2>1, <1>1, <1>3
  <2>4. x % L = b % L
    BY <2>1, <2>2, <2>3, <1>1 DEF Placed, INVALID
  <2>5. x = b
    BY <2>1, <2>3, <2>4, <1>1, OneOfEachResidue
  <2>. QED BY <2>1, <2>2, <2>5, <1>1
<1>5. n - 1 \in labels /\ \A x \in labels : x \in Int /\ x <= n - 1
  <2>1. n - 1 \in n - L .. n - 1
    BY <1>1, <1>3
  <2>2. n - 1 \in labels
    BY <2>1, <1>4
  <2>3. ASSUME NEW s \in DOMAIN lru PROVE lru[s].blkno \in Int /\ lru[s].blkno <= n - 1
    BY <1>1, <1>3
  <2>. QED BY <2>2, <2>3
<1>. HIDE DEF labels
<1>6. Max(labels) = n - 1
  BY <1>5 DEF Max
<1>7. n - 1 - L + 1 = n - L
  BY <1>1, <1>3
<1>8. \A b \in n - L .. n - 1 : Holding(b) # {}
  BY <1>4 DEF Holding
<1>. QED BY <1>6, <1>7, <1>8

LEMMA ImpliesKeepsRecent ==
  ASSUME CacheInv
  PROVE  KeepsRecent
<1>1. /\ lru_size \in Nat \ {0} /\ DOMAIN lru = 0 .. lru_size - 1
      /\ Links(lru_list, lru_size) /\ Order
  BY DEF CacheInv, TypeOK, Linked
<1>2. lru_list \in [1 .. lru_size -> 0 .. lru_size - 1] /\ Len(lru_list) = lru_size
  BY <1>1, ListIsSeq DEF Links
<1>3. Range(lru_list) = DOMAIN lru
  BY <1>1, <1>2 DEF Range, Links
<1>4. ASSUME Alive, call.pc = "idle", ~ do_src_fifo, file.seek = "always",
             NEW k \in 1 .. Len(recent)
      PROVE  Holding(recent[k]) # {}
  <2>1. /\ recent \in [1 .. lru_size -> Nat]
        /\ \A j \in 1 .. lru_size : lru[lru_list[j]].blkno = recent[j]
    BY <1>1, <1>4 DEF Order, Served, Recently, Open
  <2>2. k \in 1 .. lru_size
    BY <2>1, <1>1, ListIsSeq
  <2>3. lru_list[k] \in DOMAIN lru /\ lru[lru_list[k]].blkno = recent[k]
    BY <2>1, <2>2, <1>1, <1>2
  <2>. QED BY <2>3 DEF Holding
<1>. QED BY <1>2, <1>3, <1>4 DEF KeepsRecent

LEMMA ImpliesEofTrue ==
  ASSUME CacheInv
  PROVE  EofTrue
BY DEF CacheInv, End, EofTrue

\* Whatever is asked for, in whichever order, and whatever fails: a slot that carries
\* a number holds that block of the file, and no two slots carry the same.
THEOREM LabelsAreTrue == Spec => []LabelsTrue
BY CacheInvariant, ImpliesLabelsTrue, PTL

\* Between two calls the block that the library has as its current one is in
\* memory, whole (except with a FIFO over a source that may turn out not to seek).
THEOREM CurrentBlockIsHeld == Spec => []CurrentBlockHolds
BY CacheInvariant, ImpliesCurrentBlockHolds, PTL

\* A FIFO over a source that cannot seek always has the last lru_size blocks it
\* passed, whatever was skipped and refused.
THEOREM WindowIsKept == Spec => []WindowKept
BY CacheInvariant, ImpliesWindowKept, PTL

\* The list links every slot once, and LRU replacement keeps the lru_size blocks
\* that were asked for last.
THEOREM RecentBlocksAreKept == Spec => []KeepsRecent
BY CacheInvariant, ImpliesKeepsRecent, PTL

\* Once the end of the source is known, it is where the file ends.
THEOREM EndIsTrue == Spec => []EofTrue
BY CacheInvariant, ImpliesEofTrue, PTL

=============================================================================

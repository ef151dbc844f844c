--------------------------------- MODULE XD3Fgk -------------------------------
(***************************************************************************)
(* The adaptive Huffman coder (xdelta3-fgk.h): the encoder and the decoder *)
(* each keep a tree that grows and is reordered by every symbol; neither   *)
(* is ever transmitted, and both live as long as the stream, over all      *)
(* sections that pass through them.                                        *)
(*                                                                         *)
(* A tree is the record of fgk_stream: per node the weight, the links of   *)
(* the tree, the links of the sequence ordered by weight, and its block;   *)
(* per block its leader.  The first AlphabetSize nodes are the symbols;    *)
(* those not seen yet are a list, linked by their child pointers, of which *)
(* the head stands in the tree for all.                                    *)
(***************************************************************************)
EXTENDS XD3Second, FiniteSets, SequencesExt

CONSTANTS AlphabetSize,          \* ALPHABET_SIZE, 256 in the code
          MaxSymbols             \* bound: how many symbols are sent

ASSUME FgkAssumption == AlphabetSize \in Nat \ {0, 1}

Null   == -1
Sym    == 0 .. AlphabetSize - 1
Node   == 0 .. 2 * AlphabetSize - 2
Block  == 0 .. 4 * AlphabetSize - 3

VARIABLES enc, dec,    \* the two trees
          ptr, coded,  \* decode_ptr and the coded_bits of the decoder
          sec,         \* the section being compressed, as symbols
          wire, used,  \* its bits, and how many of them the decoder has read
          got,         \* what the decoder has written of the section
          mode,        \* "encode", "decode", "garbage" or "idle"
          done,        \* the symbols of the sections before
          lost         \* a section was encoded and not sent

fgkVars == <<enc, dec, ptr, coded, sec, wire, used, got, mode, done, lost>>

-----------------------------------------------------------------------------
(* The tree.                                                               *)

\* zero_freq_exp and zero_freq_rem, from the number of symbols not seen yet, and
\* the bits a symbol among them takes.
Exp(n) == CHOOSE x \in 0 .. n : 2 ^ x <= n /\ n < 2 ^ (x + 1)
ZeroBits(h) == IF h.zeros = 2 ^ Exp(h.zeros) THEN Exp(h.zeros) ELSE Exp(h.zeros) + 1

FgkTree ==
  LET none == [n \in Node |-> Null]
  IN  [weight |-> [n \in Node |-> 0], parent |-> none,
       left_child  |-> [n \in Node |-> IF n \in Sym THEN n - 1 ELSE Null],
       right_child |-> [n \in Node |-> IF n \in Sym /\ n + 1 \in Sym THEN n + 1 ELSE Null],
       left |-> none, right |-> none, my_block |-> none,
       leader |-> [b \in Block |-> Null], free |-> [k \in 1 .. Cardinality(Block) |-> k - 1],
       root |-> 0, remaining |-> 0, free_node |-> AlphabetSize, zeros |-> AlphabetSize]

Put(f, n, v) == IF n = Null THEN f ELSE [f EXCEPT ![n] = v]

\* fgk_make_block and fgk_free_block: the free blocks are a stack.
MakeBlock(h, n) ==
  LET b == Head(h.free)
  IN  [h EXCEPT !.free = Tail(@), !.leader[b] = n, !.my_block[n] = b]
FreeBlock(h, b) == [h EXCEPT !.free = <<b>> \o @]

\* fgk_eliminate_zero: a symbol leaves the list of those not seen.
EliminateZero(h, n) ==
  LET l == h.left_child[n]  r == h.right_child[n]
      t == [h EXCEPT !.zeros = @ - 1]
  IN  IF h.zeros = 1 THEN h
      ELSE IF l = Null
      THEN [t EXCEPT !.remaining = h.right_child[h.remaining],
                     !.left_child[h.right_child[h.remaining]] = Null]
      ELSE IF r = Null THEN [t EXCEPT !.right_child[l] = Null]
      ELSE [t EXCEPT !.left_child[r] = l, !.right_child[l] = r]

\* The block of a node that enters the sequence with weight 1 to the left of
\* right: that of its neighbour, or one of its own.
JoinOrMake(h, n, right) ==
  IF h.weight[right] = 1 THEN [h EXCEPT !.my_block[n] = h.my_block[right]]
  ELSE MakeBlock(h, n)

\* fgk_increase_zero_weight: an inner node takes the place of the list of zeros,
\* with the symbol to the right and the list to the left; the last symbol takes
\* the place itself.
IncreaseZeroWeight(h, n) ==
  IF h.zeros = 1
  THEN LET t == JoinOrMake([h EXCEPT !.right_child[n] = Null], n, h.right[n])
       IN  [t EXCEPT !.remaining = Null]
  ELSE
    LET z == h.remaining
        i == h.free_node
        up == h.parent[z]
        a == [h EXCEPT !.free_node = @ + 1, !.parent[i] = up, !.right[i] = h.right[z],
                       !.weight[i] = 0, !.right_child[i] = n, !.left[i] = n]
        b == IF z = h.root
             THEN MakeBlock(MakeBlock([a EXCEPT !.root = i], n), i)
             ELSE LET c == [a EXCEPT !.left[h.right[z]] = i,
                              !.right_child[up] = IF @ = z THEN i ELSE @,
                              !.left_child[up] =
                                IF a.right_child[up] = z THEN @ ELSE i]
                      d == JoinOrMake(c, i, h.right[z])
                  IN  [d EXCEPT !.my_block[n] = d.my_block[i]]
        e == EliminateZero(b, n)
        y == e.remaining
    IN  [e EXCEPT !.left_child[i] = y, !.left_child[n] = Null, !.right_child[n] = Null,
                  !.right[n] = i, !.left[n] = y, !.parent[n] = i,
                  !.parent[y] = i, !.right[y] = n]

\* fgk_move_right: a node changes places with the leader of its block, in the
\* sequence and in the tree, unless that is its parent.
MoveRight(h, f) ==
  LET b == h.leader[h.my_block[f]]
      L == h.left  R == h.right
      next == R[f] = b
      swap(n) == CASE n = f -> b [] n = b -> f [] OTHER -> n
      r1 == [Put(R, L[f], b) EXCEPT ![f] = R[b]]
      l1 == [L EXCEPT ![R[b]] = f, ![b] = L[f]]
  IN  IF f = b \/ h.parent[f] = b \/ h.weight[f] = 0 THEN h
      ELSE [h EXCEPT
        !.right = IF next THEN [r1 EXCEPT ![b] = f]
                  ELSE [r1 EXCEPT ![b] = R[f], ![L[b]] = f],
        !.left  = IF next THEN [l1 EXCEPT ![f] = b]
                  ELSE [l1 EXCEPT ![R[f]] = b, ![f] = L[b]],
        !.right_child = [n \in Node |-> swap(@[n])],
        !.left_child  = [n \in Node |-> swap(@[n])],
        !.parent = [@ EXCEPT ![f] = h.parent[b], ![b] = h.parent[f]],
        !.leader[h.my_block[f]] = f]

\* fgk_promote: the leader of a block goes over to the next one, together with
\* its child if that is the symbol next to the zeros.
\* A slip: the node goes over even if its neighbour weighs more.
JoinsRightHeavier(h, n) == h.right[n] # h.root
JoinsRight(h, n) ==
  h.weight[n] = h.weight[h.right[n]] - 1 /\ h.right[n] # h.root
Promote(h, n) ==
  LET l == h.left[n]  r == h.right[n]  cur == h.my_block[n]
      besideZeros == /\ l = h.right_child[n] /\ h.left_child[n] # Null
                     /\ h.weight[h.left_child[n]] = 0
      left == IF h.my_block[l] = cur THEN [h EXCEPT !.leader[cur] = l]
              ELSE FreeBlock(h, cur)
  IN  IF h.weight[n] = 0 THEN h
      ELSE IF besideZeros
      THEN IF JoinsRight(h, n)
           THEN [FreeBlock(h, cur) EXCEPT !.my_block[n] = h.my_block[r],
                                          !.my_block[l] = h.my_block[r]]
           ELSE h
      ELSE IF l = h.remaining THEN h
      ELSE IF JoinsRight(h, n) THEN [left EXCEPT !.my_block[n] = left.my_block[r]]
      ELSE MakeBlock(left, n)

RECURSIVE Climb(_, _)
Climb(h, n) ==
  IF n = h.root THEN [h EXCEPT !.weight[n] = @ + 1]
  ELSE LET t == Promote(MoveRight(h, n), n)
       IN  Climb([t EXCEPT !.weight[n] = @ + 1], t.parent[n])

UpdateTree(h, n) ==
  Climb(IF h.weight[n] = 0 THEN IncreaseZeroWeight(h, n) ELSE h, n)

-----------------------------------------------------------------------------
(* Encoding a symbol and decoding a bit.                                   *)

RECURSIVE NthZero(_, _, _), Path(_, _)
\* fgk_nth_zero: the list may be shorter than a number read from the input.
NthZero(h, z, k) ==
  IF k = 0 \/ h.right_child[z] = Null THEN z ELSE NthZero(h, h.right_child[z], k - 1)
FindNthZero(h, n) == CHOOSE k \in 0 .. h.zeros - 1 : NthZero(h, h.remaining, k) = n

Path(h, n) ==
  IF n = h.root THEN <<>>
  ELSE Append(Path(h, h.parent[n]), IF h.right_child[h.parent[n]] = n THEN 1 ELSE 0)

\* The bits of fgk_encode_data, in the order of fgk_get_encoded_bit.
EncodedBits(h, n) ==
  IF h.weight[n] = 0
  THEN Path(h, h.remaining) \o EncodeBits(ZeroBits(h), FindNthZero(h, n))
  ELSE Path(h, n)

AmongZeros(h, p) == h.weight[p] = 0
Child(h, n, bit) == IF bit = 1 THEN h.right_child[n] ELSE h.left_child[n]
\* fgk_decode_bit: whether the bit completes a symbol.  (A slip: the last symbol
\* not seen yet would take a bit.)
CompletesSeen(h, p, bits, bit) ==
  IF AmongZeros(h, p) THEN Len(bits) + 1 >= ZeroBits(h)
  ELSE h.left_child[Child(h, p, bit)] = Null /\ h.weight[Child(h, p, bit)] # 0
Completes(h, p, bits, bit) ==
  IF AmongZeros(h, p) THEN Len(bits) + 1 >= ZeroBits(h)
  ELSE LET c == Child(h, p, bit)
       IN  h.left_child[c] = Null /\ (h.weight[c] # 0 \/ h.zeros = 1)
\* fgk_decode_data.
Element(h, p, bits) == IF h.weight[p] = 0 THEN NthZero(h, h.remaining, ValueOf(bits)) ELSE p

-----------------------------------------------------------------------------
(* Sections: xd3_encode_fgk, xd3_decode_fgk.                               *)

FgkIdle ==
  /\ enc = FgkTree /\ dec = FgkTree /\ ptr = 0 /\ coded = <<>> /\ sec = <<>>
  /\ wire = <<>> /\ used = 0 /\ got = <<>> /\ done = 0 /\ lost = FALSE
  /\ mode = "idle"
FgkInit ==
  /\ enc = FgkTree /\ dec = FgkTree /\ ptr = 0 /\ coded = <<>> /\ sec = <<>>
  /\ wire = <<>> /\ used = 0 /\ got = <<>> /\ done = 0 /\ lost = FALSE
  /\ mode \in {"encode", "garbage"}

EncodeByte(n) ==
  /\ mode = "encode" /\ done + Len(sec) < MaxSymbols
  /\ sec' = Append(sec, n) /\ wire' = wire \o EncodedBits(enc, n)
  /\ enc' = UpdateTree(enc, n)
  /\ UNCHANGED <<dec, ptr, coded, used, got, mode, done, lost>>

\* The section is complete.  One that is not kept is sent as it is; the tree of
\* the encoder has learnt it all the same.
Encoded(inefficient) ==
  /\ mode = "encode" /\ Len(sec) >= SECONDARY_MIN_INPUT
  /\ IF Keeps(Len(sec), wire, inefficient)
     THEN /\ wire' = Flushed(wire) /\ mode' = "decode"
          /\ UNCHANGED <<sec, done, lost>>
     ELSE /\ done' = done + Len(sec) /\ lost' = TRUE
          /\ sec' = <<>> /\ wire' = <<>> /\ UNCHANGED mode
  /\ UNCHANGED <<enc, dec, ptr, coded, used, got>>

\* One bit into the decoder's tree, and the symbol it completes.
TakeBit(bit) ==
  IF Completes(dec, ptr, coded, bit)
  THEN LET c == AmongZeros(dec, ptr)
           n == IF c THEN Element(dec, ptr, Append(coded, bit))
                ELSE Element(dec, Child(dec, ptr, bit), <<0>>)
           t == UpdateTree(dec, n)
       IN  /\ got' = Append(got, n) /\ dec' = t /\ ptr' = t.root /\ coded' = <<>>
  ELSE /\ IF AmongZeros(dec, ptr)
          THEN coded' = Append(coded, bit) /\ UNCHANGED ptr
          ELSE ptr' = Child(dec, ptr, bit) /\ UNCHANGED coded
       /\ UNCHANGED <<got, dec>>

DecodeBit ==
  /\ mode = "decode" /\ Len(got) < Len(sec) /\ used < Len(wire)
  /\ used' = used + 1 /\ TakeBit(wire[used + 1])
  /\ UNCHANGED <<enc, sec, wire, mode, done, lost>>

Decoded ==
  /\ mode = "decode" /\ Len(got) = Len(sec) /\ UsedUp(wire, used)
  /\ mode' = "encode" /\ done' = done + Len(sec)
  /\ sec' = <<>> /\ wire' = <<>> /\ used' = 0 /\ got' = <<>>
  /\ UNCHANGED <<enc, dec, ptr, coded, lost>>

\* Bits no encoder has written: a delta that was damaged on its way.
GarbageBit(bit) ==
  /\ mode = "garbage" /\ Len(got) < MaxSymbols + 1
  /\ TakeBit(bit)
  /\ UNCHANGED <<enc, sec, wire, used, mode, done, lost>>

-----------------------------------------------------------------------------
(* Properties.                                                             *)

\* What the encoder has sent the decoder understands, symbol by symbol, over
\* sections, to the last byte of each: the trees agree when a section is done.
\* (A section that was encoded and not sent is the exception, which see.)
SameSymbols ==
  mode \in {"encode", "decode"} /\ ~ lost =>
    /\ got = SubSeq(sec, 1, Len(got))
    /\ mode = "decode" => used < Len(wire) \/ (Len(got) = Len(sec) /\ UsedUp(wire, used))
    /\ (mode = "encode" /\ sec = <<>>) \/ (mode = "decode" /\ Len(got) = Len(sec)) => dec = enc

\* The tree is a Huffman tree, whatever it was fed: inner nodes weigh what their
\* children do, the sequence links every node in the tree once, the code of any
\* symbol fits into coded_bits, and there are blocks left.
InTree(h) == {h.root} \cup {n \in Node : h.parent[n] # Null}
RECURSIVE Sequence(_, _)
Sequence(h, n) == IF h.left[n] = Null THEN <<n>> ELSE Append(Sequence(h, h.left[n]), n)
TreeSound(h) ==
  LET s == Sequence(h, h.root)
      inner == {n \in InTree(h) : n >= AlphabetSize}
  IN  /\ Range(s) = InTree(h) /\ Len(s) = Cardinality(InTree(h))
      /\ \A k \in 1 .. Len(s) - 1 : h.right[s[k]] = s[k + 1]
      /\ \A n \in inner :
           /\ h.parent[h.left_child[n]] = n /\ h.parent[h.right_child[n]] = n
           /\ h.weight[n] = h.weight[h.left_child[n]] + h.weight[h.right_child[n]]
      /\ \A n \in Sym : Len(EncodedBits(h, n)) <= AlphabetSize
      /\ h.free # <<>>

\* "The left child of a node is always guaranteed to have weight not greater than
\* its sibling"; and weights grow along the sequence.
WeightsOrdered(h) ==
  LET s == Sequence(h, h.root)
  IN  \A k \in 1 .. Len(s) - 1 : h.weight[s[k]] <= h.weight[s[k + 1]]

TreesSound ==
  \A h \in {enc, dec} : TreeSound(h) /\ (h.remaining # Null => WeightsOrdered(h))
=============================================================================

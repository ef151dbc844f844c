------------------------------- MODULE XD3Second ------------------------------
(***************************************************************************)
(* What the secondary compressors share (xdelta3-second.h): bits packed    *)
(* into bytes, the least significant bit of a byte first, and the decision *)
(* of xd3_encode_secondary whether a compressed section is worth keeping.  *)
(* A byte has ByteBits bits; the size that precedes the compressed data is *)
(* taken for one byte (xd3_emit_size is modelled in XD3Int).               *)
(***************************************************************************)
EXTENDS Integers, Sequences

CONSTANTS ByteBits,              \* bits of a byte, 8 in the code
          SECONDARY_MIN_SAVINGS, SECONDARY_MIN_INPUT

ASSUME SecondAssumption ==
  /\ ByteBits \in Nat \ {0}
  /\ SECONDARY_MIN_SAVINGS \in Nat /\ SECONDARY_MIN_INPUT \in Nat

\* The bits of a value, the most significant first.
EncodeBits(nbits, value) == [k \in 1 .. nbits |-> (value \div 2 ^ (nbits - k)) % 2]

RECURSIVE ValueOf(_)
ValueOf(bits) ==
  IF bits = <<>> THEN 0
  ELSE 2 * ValueOf(SubSeq(bits, 1, Len(bits) - 1)) + bits[Len(bits)]

\* xd3_flush_bits: the byte that is begun is written out, filled up with zeros.
BytesOf(bits) == (Len(bits) + ByteBits - 1) \div ByteBits
Flushed(bits) == bits \o [k \in 1 .. ByteBits * BytesOf(bits) - Len(bits) |-> 0]

SizeBytes == 1
CompSize(bits) == SizeBytes + BytesOf(bits)

\* A section is replaced by its compressed form if that is small enough; or in
\* any case, if the compressor is not to be judged.
Keeps(orig, bits, inefficient) ==
  CompSize(bits) < orig - SECONDARY_MIN_SAVINGS \/ inefficient

\* xd3_decode_secondary, once the announced number of bytes is there: nothing of
\* the section may be left over, but bits that fill up the last byte.
UsedUp(bits, used) == (used + ByteBits - 1) \div ByteBits = BytesOf(bits)
=============================================================================

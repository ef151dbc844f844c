---------------------------- MODULE XD3AddrCache ----------------------------
(***************************************************************************)
(* The VCDIFF address cache: xd3_init_cache, xd3_update_cache,             *)
(* xd3_encode_address and xd3_decode_address (xdelta3.c).  Encoder and     *)
(* decoder each keep one; neither ever transmits it, so a copy address is  *)
(* right only while the two caches are equal.                              *)
(***************************************************************************)
EXTENDS XD3Int

CONSTANTS
  SNear,      \* s_near: 4 in the RFC 3284 code table
  SSame,      \* s_same: 3
  UintMod     \* 2^32: the number of values of an unsigned int

ASSUME CacheAssumption ==
  /\ SNear \in Nat \ {0} /\ SSame \in Nat \ {0} /\ UintMod \in Nat \ {0}
  /\ SSame * 2 * Radix <= UsizeMod

VCD_SELF  == 0
VCD_HERE  == 1
SameStart == 2 + SNear
SameBlock == 2 * Radix    \* 256: the addresses one byte tells apart
Modes     == 0 .. SameStart + SSame - 1
SameSlots == 0 .. SSame * SameBlock - 1

Cache == [near : [0 .. SNear - 1 -> Usize], next_slot : 0 .. SNear - 1,
          same : [SameSlots -> Usize]]

\* xd3_init_cache
InitCache == [near |-> [i \in 0 .. SNear - 1 |-> 0], next_slot |-> 0,
              same |-> [s \in SameSlots |-> 0]]

\* xd3_update_cache
UpdateCache(c, addr) ==
  [near      |-> [c.near EXCEPT ![c.next_slot] = addr],
   next_slot |-> (c.next_slot + 1) % SNear,
   same      |-> [c.same EXCEPT ![addr % (SSame * SameBlock)] = addr]]

-----------------------------------------------------------------------------
(* xd3_encode_address: the mode and bytes for copy address addr < here.    *)
(* The candidates are tried in the order SELF, HERE, NEAR 0, NEAR 1, ...;  *)
(* one displaces the best so far only when it is strictly smaller, and the *)
(* search stops at the first best that SMALLEST_INT finds to fit one byte. *)
(* Only when none does is the SAME cache looked at, and a hit there wins.  *)
(* SMALLEST_INT masks with ~127U, an unsigned int: the upper half of a     *)
(* 64-bit usize_t is not looked at.                                        *)

Delta(c, m, addr, here) ==
  CASE m = VCD_SELF -> addr
    [] m = VCD_HERE -> here - addr
    [] OTHER        -> addr - c.near[m - 2]

\* The modes the loop of xd3_encode_address can choose for addr.
CandidatesButLast(c, addr) ==
  {m \in 0 .. SameStart - 2 : m < 2 \/ addr >= c.near[m - 2]}
Candidates(c, addr) ==
  {m \in 0 .. SameStart - 1 : m < 2 \/ addr >= c.near[m - 2]}

EncodeAddress(c, addr, here) ==
  LET D(m)  == Delta(c, m, addr, here)
      cand  == Candidates(c, addr)
      Best(m) == \A n \in cand : n < m => D(m) < D(n)
      Small == {m \in cand : Best(m) /\ D(m) % UintMod < Radix}
      least == {m \in cand : \A n \in cand : D(m) <= D(n)}
      First(S) == CHOOSE m \in S : \A n \in S : m <= n
      slot  == addr % (SSame * SameBlock)
      byInt(m) == [mode |-> m, bytes |-> EmitInt(D(m)),
                   cache |-> UpdateCache(c, addr)]
  IN  IF Small # {} THEN byInt(First(Small))
      ELSE IF c.same[slot] = addr
           THEN [mode  |-> SameStart + slot \div SameBlock,
                 bytes |-> <<slot % SameBlock>>,
                 cache |-> UpdateCache(c, addr)]
           ELSE byInt(First(least))

-----------------------------------------------------------------------------
(* xd3_decode_address: the address that starts after the first i bytes of  *)
(* the section.  The additions are those of usize_t: a HERE or NEAR        *)
(* address may wrap, and it is the caller's bounds check that rejects it.  *)

DecodeAddress(c, here, mode, buf, i) ==
  IF mode < SameStart
  THEN LET r    == ReadInt(buf, i)
           addr == CASE mode = VCD_SELF -> r.val
                     [] mode = VCD_HERE -> USub(here, r.val)
                     [] OTHER           -> UAdd(r.val, c.near[mode - 2])
       IN  [ok |-> r.ok, addr |-> addr, next |-> r.next,
            cache |-> IF r.ok THEN UpdateCache(c, addr) ELSE c]
  ELSE IF i >= Len(buf)
  THEN [ok |-> FALSE, addr |-> 0, next |-> i, cache |-> c]
  ELSE LET addr == c.same[(mode - SameStart) * SameBlock + buf[i + 1]]
       IN  [ok |-> TRUE, addr |-> addr, next |-> i + 1,
            cache |-> UpdateCache(c, addr)]
=============================================================================

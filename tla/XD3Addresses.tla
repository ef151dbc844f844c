---------------------------- MODULE XD3Addresses ----------------------------
(***************************************************************************)
(* The copy addresses of a delta, from one end to the other: the encoder   *)
(* codes an address with its cache (xd3_encode_address, called by          *)
(* xd3_iopt_finish_encoding), the decoder reads it with its own            *)
(* (xd3_decode_address, called by xd3_decode_parse_halfinst), and each     *)
(* starts a window with an empty cache (xd3_encode_reset and               *)
(* xd3_decode_init_window).  Only the mode and the bytes pass between.     *)
(***************************************************************************)
EXTENDS XD3AddrCache

CONSTANTS
  MaxHere,     \* bound: the longest copy window and target
  CopySizes    \* the sizes of the copies

ASSUME AddressesAssumption ==
  /\ MaxHere \in Usize /\ CopySizes \subseteq Nat \ {0}

VARIABLES
  enc, dec,    \* the two caches
  here,        \* the encoder's position: copy window and target so far
  sent,        \* what the encoder wrote for the last copy: mode and bytes
  addr, got    \* the address it meant, and what the decoder made of it

vars == <<enc, dec, here, sent, addr, got>>

StartStale(h) ==
  /\ enc' = InitCache /\ dec' = dec /\ here' = h
  /\ sent' = [mode |-> VCD_SELF, bytes |-> <<0>>] /\ addr' = 0
  /\ got' = [ok |-> TRUE, addr |-> 0, next |-> 1]
Start(h) ==
  /\ enc' = InitCache /\ dec' = InitCache /\ here' = h
  /\ sent' = [mode |-> VCD_SELF, bytes |-> <<0>>] /\ addr' = 0
  /\ got' = [ok |-> TRUE, addr |-> 0, next |-> 1]

Init ==
  /\ enc = InitCache /\ dec = InitCache /\ here \in 0 .. MaxHere
  /\ sent = [mode |-> VCD_SELF, bytes |-> <<0>>] /\ addr = 0
  /\ got = [ok |-> TRUE, addr |-> 0, next |-> 1]

\* A copy of n bytes from a.
Copy(a, n) ==
  /\ a < here
  /\ LET e == EncodeAddress(enc, a, here)
         d == DecodeAddress(dec, here, e.mode, e.bytes, 0)
     IN  /\ enc' = e.cache /\ dec' = d.cache
         /\ sent' = [mode |-> e.mode, bytes |-> e.bytes]
         /\ got' = [ok |-> d.ok, addr |-> d.addr, next |-> d.next]
  /\ addr' = a
  /\ here' = here + n /\ here' <= MaxHere

\* An ADD or a RUN: both ends advance.
Literal(n) ==
  /\ here' = here + n /\ here' <= MaxHere
  /\ UNCHANGED <<enc, dec, sent, addr, got>>

\* The next window, with a copy window of h bytes.
NextWindow(h) == here > 0 /\ Start(h)

Next == \/ \E a \in 0 .. MaxHere, n \in CopySizes : Copy(a, n)
        \/ \E n \in CopySizes : Literal(n)
        \/ \E h \in 0 .. MaxHere : NextWindow(h)

Spec == Init /\ [][Next]_vars

-----------------------------------------------------------------------------
\* The decoder reads the address that the encoder meant, uses up its bytes to
\* the last one, and the two caches stay equal although neither is ever sent:
\* one difference, in any slot, would turn a later address into another.
Lockstep == enc = dec /\ got = [ok |-> TRUE, addr |-> addr, next |-> Len(sent.bytes)]

\* Whether a decoder with cache c can be told the address a in mode m, and the
\* number of bytes that this takes at position h.
Reaches(c, m, a) ==
  CASE m < 2         -> TRUE
    [] m \in 2 .. SameStart - 1 -> c.near[m - 2] <= a
    [] OTHER -> \E b \in 0 .. SameBlock - 1 : c.same[(m - SameStart) * SameBlock + b] = a
ByteCount(c, m, a, h) ==
  IF m >= SameStart THEN 1 ELSE SizeofSize(Delta(c, m, a, h))

\* What the encoder would write for address a now is as short as any mode
\* that the cache holds for it could make it.
ShortestFor(a) == \A m \in Modes :
  Reaches(enc, m, a) =>
    Len(EncodeAddress(enc, a, here).bytes) <= ByteCount(enc, m, a, here)

\* SMALLEST_INT takes the distance of mode m for one byte, and it is longer.
Masked(m, a) ==
  /\ m < SameStart
  /\ Delta(enc, m, a, here) % UintMod < Radix /\ Delta(enc, m, a, here) >= Radix

\* The mode chosen takes the fewest bytes (the comment in xd3_encode_address:
\* "thereby minimizing the encoded size of the address").
Shortest == \A a \in 0 .. here - 1 : ShortestFor(a)

\* Nothing but the mask of SMALLEST_INT stands in the way: an address that
\* could be shorter is one whose own distance was taken for a byte.  The search
\* that stops at the first one-byte distance, and that prefers a hit in the
\* SAME cache, misses no shorter mode.
ShortestUnlessMasked == \A a \in 0 .. here - 1 :
  ShortestFor(a) \/ Masked(EncodeAddress(enc, a, here).mode, a)
=============================================================================

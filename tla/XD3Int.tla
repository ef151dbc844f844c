------------------------------- MODULE XD3Int -------------------------------
(***************************************************************************)
(* The integers of the VCDIFF format (xdelta3-internal.h).  A number is    *)
(* written as base-Radix digits, most significant first, and every byte    *)
(* but the last carries a continuation bit: the byte is the digit plus     *)
(* Radix.  The code has Radix = 128, usize_t = 64 bits and, in the Swift   *)
(* package's build, xoff_t = 32 bits; here the three are parameters, so    *)
(* that a small instance meets every overflow.                             *)
(***************************************************************************)
EXTENDS Integers, Sequences

CONSTANTS
  Radix,      \* 128: a byte is a 7-bit digit and a continuation bit
  UsizeMod,   \* 2^64: the number of values of usize_t
  XoffMod     \* 2^32 in this build, 2^64 with XD3_USE_LARGEFILE64

ASSUME IntAssumption ==
  /\ Radix \in Nat \ {0, 1}
  /\ UsizeMod \in Nat /\ XoffMod \in Nat
  /\ UsizeMod >= Radix * Radix   /\ UsizeMod % Radix = 0
  /\ XoffMod >= Radix            /\ XoffMod % Radix = 0
  /\ XoffMod <= UsizeMod

Byte  == 0 .. 2 * Radix - 1
Usize == 0 .. UsizeMod - 1
Xoff  == 0 .. XoffMod - 1

-----------------------------------------------------------------------------
(* Unsigned arithmetic of the C code.                                      *)

\* a + b and a - b on usize_t, for a and b that are usize_t values.
UAdd(a, b) == IF a + b < UsizeMod THEN a + b ELSE (a + b) - UsizeMod
USub(a, b) == IF b <= a THEN a - b ELSE (a + UsizeMod) - b

\* USIZE_T_OVERFLOW and XOFF_T_OVERFLOW.  The second casts its arguments to
\* xoff_t before it compares them: a usize_t loses its upper bits there.
UsizeOverflow(a, b) == (UsizeMod - 1) - a < b
XoffOverflow(a, b)  == (XoffMod - 1) - (a % XoffMod) < b % XoffMod

-----------------------------------------------------------------------------
(* The byte-at-a-time decoder (DECODE_INTEGER_TYPE): `part' is the value   *)
(* accumulated so far, dec_64part or dec_32part, which outlives the call   *)
(* when the input ends inside a number.                                    *)

More(byte)        == byte >= Radix
Digit(byte)       == byte % Radix
PartFullLate(part, m) == part > m \div Radix   \* a slip
PartFull(part, m)     == part >= m \div Radix
Shift(part, byte) == part * Radix + Digit(byte)

-----------------------------------------------------------------------------
(* The decoder of a section buffer (READ_INTEGER_TYPE): the number that    *)
(* starts after the first i bytes of buf.  It fails when the buffer ends   *)
(* inside the number, and when the number does not fit a usize_t.          *)

Value(bytes) ==
  LET val[k \in 0 .. Len(bytes)] ==
        IF k = 0 THEN 0 ELSE Shift(val[k - 1], bytes[k])
  IN  val[Len(bytes)]

ReadInt(buf, i) ==
  LET Ends == {j \in i + 1 .. Len(buf) :
                 /\ ~ More(buf[j]) /\ \A k \in i + 1 .. j - 1 : More(buf[k])
                 /\ Value(SubSeq(buf, i + 1, j)) \in Usize}
      end  == CHOOSE j \in Ends : TRUE
  IN  IF Ends = {} THEN [ok |-> FALSE, val |-> 0, next |-> i]
      ELSE [ok |-> TRUE, val |-> Value(SubSeq(buf, i + 1, end)), next |-> end]

-----------------------------------------------------------------------------
(* The encoder (EMIT_INTEGER_TYPE) and the size it is going to take.       *)

\* xd3_sizeof_size: the number of base-Radix digits.
SizeofSize(num) ==
  LET digits[n \in 0 .. num] == IF n < Radix THEN 1 ELSE 1 + digits[n \div Radix]
  IN  digits[num]

\* The loop divides; only the last byte has no continuation bit.
EmitInt(num) ==
  LET before[n \in 0 .. num] ==
        IF n = 0 THEN <<>> ELSE Append(before[n \div Radix], Radix + (n % Radix))
  IN  Append(before[num \div Radix], num % Radix)
=============================================================================

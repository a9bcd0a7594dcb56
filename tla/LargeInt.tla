------------------------------ MODULE LargeInt ------------------------------
(* Integers of 128 and 256 bits as sequences of unsigned 64 bit integers,  *)
(* the lowest first (proton_driver/columns/largeint.c). Each function is   *)
(* given for one item; its loop does the same for all of them.             *)
EXTENDS Integers

CONSTANT Quad   \* 2^64

ASSUME QuadAssumption == Quad \in Nat /\ Quad > 0 /\ Quad % 2 = 0

MaxUInt64 == Quad - 1
MaxInt64  == Quad \div 2 - 1

\* x >> 64, x & MAX_UINT64. Python shifts and masks negative numbers as if they
\* had infinitely many bits, which is what \div and % do.
High(x) == x \div Quad
Low(x)  == x % Quad

UInt128ToQuads(x) == <<Low(x), Low(High(x))>>

UInt128FromQuads(q) == q[2] * Quad + q[1]

Int128ToQuads(x) ==
  IF x < 0
    THEN LET y == -x - 1 IN <<Low(MaxUInt64 - y), Low(MaxUInt64 - High(y))>>
    ELSE <<Low(x), Low(High(x))>>

\* Mutant: the largest negative number is taken for a positive one.
Int128FromQuadsAbove(q) ==
  IF q[2] > MaxInt64 + 1
    THEN -((MaxUInt64 - q[2]) * Quad) - (MaxUInt64 - q[1]) - 1
    ELSE q[2] * Quad + q[1]

Int128FromQuads(q) ==
  IF q[2] > MaxInt64
    THEN -((MaxUInt64 - q[2]) * Quad) - (MaxUInt64 - q[1]) - 1
    ELSE q[2] * Quad + q[1]

UInt256ToQuads(x) ==
  <<Low(x), Low(High(x)), Low(High(High(x))), Low(High(High(High(x))))>>

UInt256FromQuads(q) ==
  ((q[4] * Quad + q[3]) * Quad + q[2]) * Quad + q[1]

Int256ToQuads(x) ==
  IF x < 0
    THEN LET y == -x - 1
         IN  <<Low(MaxUInt64 - y), Low(MaxUInt64 - High(y)),
               Low(MaxUInt64 - High(High(y))), Low(MaxUInt64 - High(High(High(y))))>>
    ELSE UInt256ToQuads(x)

Int256FromQuads(q) ==
  IF q[4] > MaxInt64
    THEN -((((MaxUInt64 - q[4]) * Quad + (MaxUInt64 - q[3])) * Quad
             + (MaxUInt64 - q[2])) * Quad) - (MaxUInt64 - q[1]) - 1
    ELSE UInt256FromQuads(q)
=============================================================================

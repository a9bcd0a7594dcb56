------------------------------- MODULE Varint -------------------------------
(* Integers of variable length (proton_driver/varint.c): groups of seven   *)
(* bits from the lowest, all but the last with the high bit set, in an     *)
(* unsigned integer of 64 bits.                                            *)
EXTENDS Integers, Sequences

CONSTANTS Base,      \* 2^7: what a group can hold
          WordSize   \* 2^64: what unsigned PY_LONG_LONG can hold

ASSUME VarintBaseAssumption == Base \in Nat /\ Base > 1
ASSUME WordSizeAssumption   == WordSize \in Nat /\ WordSize > Base

\* make_varint, and what write_varint writes.
MakeVarint[n \in Nat] ==
  IF n < Base THEN <<n>> ELSE <<(n % Base) + Base>> \o MakeVarint[n \div Base]

\* The first group without the high bit, if there is one.
IsLast(bytes, i) == bytes[i] < Base /\ \A j \in 1..i - 1: bytes[j] >= Base
HasVarint(bytes) == \E i \in DOMAIN bytes: IsLast(bytes, i)
EndOf(bytes)     == CHOOSE i \in DOMAIN bytes: IsLast(bytes, i)

\* A shift by n groups multiplies by this.
Shift[n \in Nat] == IF n = 0 THEN 1 ELSE Base * Shift[n - 1]

\* Mutant: the high bit is not masked.
ShiftedUnmasked(bytes) ==
  LET Result[n \in 0..Len(bytes)] ==
        IF n = 0 THEN 0 ELSE (Result[n - 1] + bytes[n] * Shift[n - 1]) % WordSize
  IN  Result

\* result |= (i & 0x7f) << shift, for the first n groups; bits behind the 64th
\* are lost.
Shifted(bytes) ==
  LET Result[n \in 0..Len(bytes)] ==
        IF n = 0 THEN 0
        ELSE (Result[n - 1] + (bytes[n] % Base) * Shift[n - 1]) % WordSize
  IN  Result

\* A shift by 64 or more is undefined: the result may be anything.
ReadVarint(bytes) ==
  LET n == EndOf(bytes)
  IN  IF Shift[n - 1] < WordSize THEN {Shifted(bytes)[n]} ELSE 0..WordSize - 1
=============================================================================

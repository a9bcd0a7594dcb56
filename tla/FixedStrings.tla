---------------------------- MODULE FixedStrings ----------------------------
(* Strings of a fixed length: write_fixed_strings (bufferedwriter.c) and   *)
(* read_fixed_strings (bufferedreader.c).                                  *)
EXTENDS Integers, SequencesExt

CONSTANT Undecodable   \* bytes no string of the column's encoding contains

\* memset to zero, then memcpy of the value: the rest of its place is zeros.
Padded(value, length) ==
  [i \in 1..length |-> IF i <= Len(value) THEN value[i] ELSE 0]

\* TooLargeStringSize is raised before anything is written.
TooLarge(items, length) == \E i \in DOMAIN items: Len(items[i]) > length

FixedStringsBytes(items, length) ==
  FlattenSeq([i \in DOMAIN items |-> Padded(items[i], length)])

\* read_fixed_strings_as_bytes
FixedStringsAsBytes(n, length, data) ==
  [i \in 1..n |-> SubSeq(data, (i - 1) * length + 1, i * length)]

\* Mutant: the string ends at its first zero, like one of C.
StrippedAtFirst(s) ==
  SubSeq(s, 1, CHOOSE j \in 0..Len(s): /\ j < Len(s) => s[j + 1] = 0
                                       /\ \A i \in 1..j: s[i] # 0)

\* Up to the last byte that is not zero.
Stripped(s) ==
  SubSeq(s, 1, CHOOSE j \in 0..Len(s): /\ j > 0 => s[j] # 0
                                       /\ \A i \in j + 1..Len(s): s[i] = 0)

\* read_fixed_strings with an encoding: what cannot be decoded stays as it is,
\* with its zeros.
FixedStrings(n, length, data) ==
  LET raw == FixedStringsAsBytes(n, length, data)
  IN  [i \in 1..n |-> IF ToSet(Stripped(raw[i])) \cap Undecodable = {}
                        THEN Stripped(raw[i]) ELSE raw[i]]
=============================================================================

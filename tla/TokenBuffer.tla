----------------------------- MODULE TokenBuffer -----------------------------
(***************************************************************************)
(* A buffer of written columns: a sequence of tokens that know which part  *)
(* of a column they are. Nothing in the stream itself says so, and a       *)
(* reader that takes a token too many or too few has lost its place.       *)
(***************************************************************************)
EXTENDS Lists, SequencesExt

\* Values are numbers, or lists or dicts of values.
Null      == -1   \* None
NullValue == 0    \* null_value: what is written in the place of a null

Token(part, v)       == [part |-> part, v |-> v]
Tokens(part, values) == [i \in DOMAIN values |-> Token(part, values[i])]

\* An exception: nothing that is written, or read, after it counts.
Raised      == Token("raised", 0)
Failed(buf) == Raised \in ToSet(buf)
=============================================================================

-------------------------------- MODULE Lists --------------------------------
(* What the modules of the columns take for a list: of any length, of anything. *)
EXTENDS Integers, Sequences

\* A list or a tuple.
IsList(s) == Len(s) \in Nat /\ s = [i \in 1..Len(s) |-> s[i]]
=============================================================================

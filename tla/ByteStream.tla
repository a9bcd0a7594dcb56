----------------------------- MODULE ByteStream -----------------------------
(***************************************************************************)
(* What a buffered writer, a socket and a buffered reader promise together:*)
(* the bytes that come out are those that went in, in order, none twice    *)
(* and none left out.                                                      *)
(*                                                                         *)
(*   accepted    bytes the writing side has been given                     *)
(*   delivered   bytes the reading side has handed out                     *)
(***************************************************************************)
EXTENDS Integers, Sequences

VARIABLES accepted, delivered

Init == accepted = <<>> /\ delivered = <<>>

Prefix(s, t) == Len(s) <= Len(t) /\ s = SubSeq(t, 1, Len(s))

Accept == Prefix(accepted, accepted') /\ UNCHANGED delivered

Deliver == /\ Prefix(delivered, delivered') /\ Prefix(delivered', accepted)
           /\ UNCHANGED accepted

Spec == Init /\ [][Accept \/ Deliver]_<<accepted, delivered>>
=============================================================================

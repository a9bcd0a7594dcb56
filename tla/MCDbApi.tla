------------------------------ MODULE MCDbApi ------------------------------
(* DbApi for TLC.                                                          *)
EXTENDS DbApi, TLC

\* Cursors are interchangeable.
CursorSymmetry == Permutations(Cursors)
=============================================================================

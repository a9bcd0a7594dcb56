---------------------------- MODULE MCBufferedLink ----------------------------
(* BufferedLink for TLC: varints with digits 0 and 1, a buffer of three     *)
(* bytes, and items that end before, at and behind its end.                 *)
EXTENDS BufferedLink

ItemsOfAllKinds ==
  { [kind |-> "read",    values |-> << <<>> >>],
    [kind |-> "read",    values |-> << <<1, 2, 3, 0>> >>],
    [kind |-> "read",    values |-> << <<3, 1>> >>],
    [kind |-> "one",     values |-> << <<2>> >>],
    [kind |-> "strings", values |-> << <<>>, <<3, 1>> >>],
    [kind |-> "strings", values |-> << <<0, 1, 2, 3, 2>> >>] }
=============================================================================

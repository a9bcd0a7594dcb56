-------------------------------- MODULE Socket --------------------------------
(***************************************************************************)
(* One direction of a TCP connection, and what the two buffers at its ends *)
(* (bufferedwriter.pyx, bufferedreader.pyx) have in common.                *)
(*                                                                         *)
(*   socket   the bytes sent on it so far; TCP keeps their order           *)
(***************************************************************************)
EXTENDS Integers, Sequences

CONSTANTS BufSize,   \* defines.BUFFER_SIZE
          Flag       \* 128: a byte of a varint carries a digit, and a flag
                     \* that says whether more digits follow

ASSUME BufSizeAssumption == BufSize \in Nat \ {0}
ASSUME FlagAssumption == Flag \in Nat \ {0, 1}

VARIABLE socket

Byte == 0..(2 * Flag - 1)

Least(a, b) == IF a < b THEN a ELSE b
=============================================================================

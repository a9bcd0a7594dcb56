---------------------------- MODULE BufferedReader ----------------------------
(***************************************************************************)
(* BufferedReader and BufferedSocketReader (bufferedreader.pyx).  A call   *)
(* is interrupted where it waits for the socket; what it keeps in local    *)
(* variables is state here.  CompressedBufferedReader differs only in that *)
(* each block is a buffer of its own: no byte past current_buffer_size is  *)
(* ever looked at, so that makes no difference to the others.              *)
(*                                                                         *)
(*   buffer, position, size   the reader's own (size: current_buffer_size) *)
(*   received   bytes recv_into has given it                               *)
(*   op         what the running call does                                 *)
(*   left       read: bytes still unread                                   *)
(*   items      read_strings: strings still to be read                     *)
(*   need, scale   read_strings: `size', and 1 << `shift'                  *)
(*   rv         the bytes collected so far                                 *)
(*   taken, results   history: the bytes of the stream that calls have     *)
(*              used up, and the values they returned                      *)
(***************************************************************************)
EXTENDS Socket

VARIABLES buffer, position, size, received, op, left, items, need, scale, rv,
          taken, results

readerVars == <<buffer, position, size, received, op, left, items, need, scale,
                rv, taken, results>>

Op == {"none", "read", "one", "length", "string", "rest", "failed"}

ReaderTypeOK ==
  /\ socket \in Seq(Byte)
  /\ buffer \in [1..BufSize -> Byte]
  /\ position \in Nat /\ size \in 0..BufSize
  /\ received \in 0..Len(socket)
  /\ op \in Op
  /\ left \in Nat /\ items \in Nat /\ need \in Nat /\ scale \in Nat
  /\ rv \in Seq(Byte)
  /\ taken \in Seq(Byte)
  /\ results \in Seq(Seq(Byte))

ReaderInit ==
  /\ buffer = [o \in 1..BufSize |-> 0]
  /\ position = 0 /\ size = 0
  /\ received = 0
  /\ op = "none"
  /\ left = 0 /\ items = 0 /\ need = 0 /\ scale = 1
  /\ rv = <<>>
  /\ taken = <<>>
  /\ results = <<>>

\* A value is returned, or put into the tuple of read_strings.
Return(value) ==
  /\ rv' = <<>>
  /\ taken' = taken \o value
  /\ results' = Append(results, value)

-----------------------------------------------------------------------------
(* read and read_one *)

\* The bytes are in the buffer, and one more: they are cut out of it.
ReadBuffered(n) ==
  /\ op = "none"
  /\ n + position < size
  /\ position' = position + n
  /\ Return(SubSeq(buffer, position + 1, position + n))
  /\ UNCHANGED <<socket, buffer, size, received, op, left, items, need, scale>>

ReadLoop(n) ==
  /\ op = "none"
  /\ n + position >= size
  /\ op' = "read"
  /\ left' = n
  /\ UNCHANGED <<socket, buffer, position, size, received, items, need, scale, rv,
                 taken, results>>

\* One turn of `while unread > 0'.
CopyBytes ==
  /\ op = "read" /\ left > 0 /\ position # size
  /\ LET n == Least(left, size - position) IN
       /\ rv' = rv \o SubSeq(buffer, position + 1, position + n)
       /\ position' = position + n
       /\ left' = left - n
  /\ UNCHANGED <<socket, buffer, size, received, op, items, need, scale, taken, results>>

ReturnBytes ==
  /\ op = "read" /\ left = 0
  /\ op' = "none"
  /\ Return(rv)
  /\ UNCHANGED <<socket, buffer, position, size, received, left, items, need, scale>>

ReadOne ==
  /\ op = "none"
  /\ op' = "one"
  /\ UNCHANGED <<socket, buffer, position, size, received, left, items, need, scale,
                 rv, taken, results>>

TakeOne ==
  /\ op = "one" /\ position # size
  /\ op' = "none"
  /\ Return(<<buffer[position + 1]>>)
  /\ position' = position + 1
  /\ UNCHANGED <<socket, buffer, size, received, left, items, need, scale>>

-----------------------------------------------------------------------------
(* read_strings *)

ReadStrings(n) ==
  /\ op = "none" /\ n > 0
  /\ op' = "length"
  /\ items' = n
  /\ need' = 0 /\ scale' = 1
  /\ UNCHANGED <<socket, buffer, position, size, received, left, rv, taken, results>>

\* A digit of the string's length; the last one has no flag.
LengthByte ==
  /\ op = "length" /\ position # size
  /\ LET b == buffer[position + 1] IN
       /\ need' = need + (b % Flag) * scale
       /\ scale' = scale * Flag
       /\ op' = IF b < Flag THEN "string" ELSE "length"
       /\ taken' = Append(taken, b)
  /\ position' = position + 1
  /\ UNCHANGED <<socket, buffer, size, received, left, items, rv, results>>

\* Mutant: the loop runs for one string too many.
EndStringOnceMore(value) ==
  /\ Return(value)
  /\ items' = items - 1
  /\ need' = 0 /\ scale' = 1
  /\ op' = IF items = 0 THEN "none" ELSE "length"

\* On to the next string, or out of the loop.
EndString(value) ==
  /\ Return(value)
  /\ items' = items - 1
  /\ need' = 0 /\ scale' = 1
  /\ op' = IF items = 1 THEN "none" ELSE "length"

\* right <= current_buffer_size
StringInBuffer ==
  /\ op = "string"
  /\ position + need <= size
  /\ EndString(SubSeq(buffer, position + 1, position + need))
  /\ position' = position + need
  /\ UNCHANGED <<socket, buffer, size, received, left>>

\* right > current_buffer_size: the rest of the buffer is a part of the string.
StringCut ==
  /\ op = "string"
  /\ position + need > size
  /\ op' = "rest"
  /\ rv' = SubSeq(buffer, position + 1, size)
  /\ UNCHANGED <<socket, buffer, position, size, received, left, items, need, scale,
                 taken, results>>

-----------------------------------------------------------------------------
(* read_into_buffer *)

\* recv_into gives n bytes, which overwrite the beginning of the buffer.
ReadIntoBuffer(n) ==
  /\ n \in 1..BufSize
  /\ received + n <= Len(socket)
  /\ buffer' = [o \in 1..BufSize |-> IF o <= n THEN socket[received + o] ELSE buffer[o]]
  /\ size' = n
  /\ received' = received + n

\* The call has used up the buffer and needs more.
Waiting ==
  /\ position = size
  /\ op \in {"one", "length"} \/ (op = "read" /\ left > 0)

\* Mutant: position is not set back to the beginning of the buffer.
RefillKeepingPosition(n) ==
  /\ Waiting
  /\ ReadIntoBuffer(n)
  /\ position' = IF position < n THEN position ELSE 0
  /\ UNCHANGED <<socket, op, left, items, need, scale, rv, taken, results>>

Refill(n) ==
  /\ Waiting
  /\ ReadIntoBuffer(n)
  /\ position' = 0
  /\ UNCHANGED <<socket, op, left, items, need, scale, rv, taken, results>>

\* Mutant: the part of the string that is still missing is not limited to what
\* recv_into gave.
StringRestUnbounded(n) ==
  /\ op = "rest"
  /\ ReadIntoBuffer(n)
  /\ position' = Least(need - Len(rv), BufSize)
  /\ LET part == rv \o SubSeq(buffer', 1, position') IN
       IF Len(part) = need
         THEN EndString(part)
         ELSE rv' = part /\ UNCHANGED <<op, items, need, scale, taken, results>>
  /\ UNCHANGED <<socket, left>>

\* One turn of `while bytes_read != size'.
StringRest(n) ==
  /\ op = "rest"
  /\ ReadIntoBuffer(n)
  /\ position' = Least(need - Len(rv), n)
  /\ LET part == rv \o SubSeq(buffer', 1, position') IN
       IF Len(part) = need
         THEN EndString(part)
         ELSE rv' = part /\ UNCHANGED <<op, items, need, scale, taken, results>>
  /\ UNCHANGED <<socket, left>>

\* recv_into raises, or gives nothing because the other side has closed: the
\* call raises and whoever made it disconnects, so the reader is not used again.
ReadFails ==
  /\ Waiting \/ op = "rest"
  /\ op' = "failed"
  /\ size' \in {size, 0}
  /\ UNCHANGED <<socket, buffer, position, received, left, items, need, scale, rv,
                 taken, results>>

-----------------------------------------------------------------------------

\* The steps that finish a call.
ReaderProceeds ==
  \/ CopyBytes \/ ReturnBytes \/ TakeOne
  \/ LengthByte \/ StringInBuffer \/ StringCut
  \/ \E n \in 1..BufSize: Refill(n) \/ StringRest(n)

ReaderNext ==
  \/ \E n \in Nat: ReadBuffered(n) \/ ReadLoop(n) \/ ReadStrings(n)
  \/ ReadOne \/ ReaderProceeds \/ ReadFails

\* Whoever writes on the socket.
Arrive == /\ \E bytes \in Seq(Byte): socket' = socket \o bytes
          /\ UNCHANGED readerVars

\* A reader by itself, which is asked for anything and gets any bytes.
ReaderSpec == /\ socket = <<>> /\ ReaderInit
              /\ [][ReaderNext \/ Arrive]_<<readerVars, socket>>

-----------------------------------------------------------------------------

\* The reader uses up the stream in order, each byte once, however recv_into
\* cuts it and however reads of all kinds are mixed (bufferedreader.pyx:26-178).
ReadInOrder ==
  /\ Len(taken \o rv) <= Len(socket)
  /\ taken \o rv = SubSeq(socket, 1, Len(taken \o rv))

\* No byte behind what recv_into has given is looked at
\* (bufferedreader.pyx:30-33, 45-49, 144-155).
InBounds == op # "failed" => position <= size

\* Bytes of the buffer that are not used up. A string that is cut has taken all.
Unread == IF op = "rest" THEN 0 ELSE size - position

\* Why: the buffer holds the last bytes received, and what is unread of them
\* follows what is used up.
ReaderInv ==
  /\ ReaderTypeOK
  /\ InBounds
  /\ size <= received
  /\ op # "failed" => /\ \A o \in 1..size: buffer[o] = socket[received - size + o]
                      /\ taken \o rv = SubSeq(socket, 1, received - Unread)
  /\ op \in {"none", "one", "length", "string"} => rv = <<>>
  /\ op = "rest" => Len(rv) < need
  /\ op \in {"length", "string", "rest"} => items > 0
  /\ ReadInOrder
=============================================================================

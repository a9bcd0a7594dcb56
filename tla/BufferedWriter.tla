---------------------------- MODULE BufferedWriter ----------------------------
(***************************************************************************)
(* BufferedWriter and BufferedSocketWriter (bufferedwriter.pyx).           *)
(*                                                                         *)
(*   outBuffer, outPosition   the writer's buffer and position             *)
(*   writing    what the writer does                                       *)
(*   data, done   write: its argument, and `written'                       *)
(*   accepted   history: all bytes write() has been given                  *)
(***************************************************************************)
EXTENDS Socket

VARIABLES outBuffer, outPosition, writing, data, done, accepted

writerVars == <<outBuffer, outPosition, writing, data, done, accepted>>

WriterTypeOK ==
  /\ socket \in Seq(Byte)
  /\ outBuffer \in [1..BufSize -> Byte]
  /\ outPosition \in 0..BufSize
  /\ writing \in {"none", "data", "failed"}
  /\ data \in Seq(Byte)
  /\ done \in 0..Len(data)
  /\ accepted \in Seq(Byte)

WriterInit ==
  /\ outBuffer = [o \in 1..BufSize |-> 0]
  /\ outPosition = 0
  /\ writing = "none"
  /\ data = <<>>
  /\ done = 0
  /\ accepted = <<>>

\* write(bytes)
Write(bytes) ==
  /\ writing = "none"
  /\ writing' = "data"
  /\ data' = bytes
  /\ done' = 0
  /\ accepted' = accepted \o bytes
  /\ UNCHANGED <<socket, outBuffer, outPosition>>

\* A turn of the loop that finds room in the buffer.
CopyIn ==
  /\ writing = "data" /\ done < Len(data)
  /\ outPosition < BufSize
  /\ LET n == Least(Len(data) - done, BufSize - outPosition) IN
       /\ outBuffer' = [o \in 1..BufSize |->
                          IF o \in outPosition + 1 .. outPosition + n
                            THEN data[done + o - outPosition] ELSE outBuffer[o]]
       /\ outPosition' = outPosition + n
       /\ done' = done + n
  /\ UNCHANGED <<socket, writing, data, accepted>>

\* write_into_stream: sendall and position = 0.
WriteIntoStream ==
  /\ socket' = socket \o SubSeq(outBuffer, 1, outPosition)
  /\ outPosition' = 0

\* Mutant: the flush of a full buffer counts the bytes it found no room for.
FlushFullCounting ==
  /\ writing = "data" /\ done < Len(data)
  /\ outPosition = BufSize
  /\ WriteIntoStream
  /\ done' = done + 1
  /\ UNCHANGED <<outBuffer, writing, data, accepted>>

\* A turn that finds none: it copies nothing and empties the buffer.
FlushFull ==
  /\ writing = "data" /\ done < Len(data)
  /\ outPosition = BufSize
  /\ WriteIntoStream
  /\ UNCHANGED <<outBuffer, writing, data, done, accepted>>

EndWrite ==
  /\ writing = "data" /\ done = Len(data)
  /\ writing' = "none"
  /\ UNCHANGED <<socket, outBuffer, outPosition, data, done, accepted>>

Flush ==
  /\ writing = "none"
  /\ WriteIntoStream
  /\ UNCHANGED <<outBuffer, writing, data, done, accepted>>

\* sendall raises when some of the buffer is sent; what it was is not known and
\* the position stays. The connection is closed, the writer not used again.
WriteFails ==
  /\ \/ writing = "none"
     \/ writing = "data" /\ done < Len(data) /\ outPosition = BufSize
  /\ \E n \in 0..outPosition: socket' = socket \o SubSeq(outBuffer, 1, n)
  /\ writing' = "failed"
  /\ UNCHANGED <<outBuffer, outPosition, data, done, accepted>>

-----------------------------------------------------------------------------

WriterProceeds == CopyIn \/ FlushFull \/ EndWrite

WriterNext == \/ \E bytes \in Seq(Byte): Write(bytes)
              \/ WriterProceeds \/ Flush \/ WriteFails

WriterSpec == /\ socket = <<>> /\ WriterInit
              /\ [][WriterNext]_<<writerVars, socket>>

-----------------------------------------------------------------------------

\* What is sent and what waits in the buffer are the bytes taken by write(), in
\* order, up to where the running write() has come (bufferedwriter.pyx:31-47).
SentInOrder ==
  IF writing = "failed"
    THEN /\ Len(socket) <= Len(accepted)
         /\ socket = SubSeq(accepted, 1, Len(socket))
    ELSE socket \o SubSeq(outBuffer, 1, outPosition)
           = SubSeq(accepted, 1, Len(accepted) - (Len(data) - done))

\* Why: the bytes not yet copied are the last ones accepted.
WriterInv ==
  /\ WriterTypeOK
  /\ Len(data) <= Len(accepted)
  /\ \A i \in 1..Len(data): data[i] = accepted[Len(accepted) - Len(data) + i]
  /\ writing = "none" => done = Len(data)
  /\ SentInOrder
=============================================================================

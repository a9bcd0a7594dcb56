--------------------------- MODULE BufferedChannel ---------------------------
(***************************************************************************)
(* A BufferedWriter and a BufferedReader at the two ends of a socket, each *)
(* asked for anything at any time: what the two promise together needs no  *)
(* agreement about what is written and read.  BufferedLink adds that.      *)
(***************************************************************************)
EXTENDS BufferedReader, BufferedWriter

channelVars == <<socket, readerVars, writerVars>>

ChannelInit == socket = <<>> /\ ReaderInit /\ WriterInit

ChannelNext == \/ WriterNext /\ UNCHANGED readerVars
               \/ ReaderNext /\ UNCHANGED writerVars

ChannelSpec == ChannelInit /\ [][ChannelNext]_channelVars

\* Together the three are a reliable stream of bytes.
Stream == INSTANCE ByteStream WITH delivered <- taken

\* Whatever the buffers do, what comes out of the reader is what went into the
\* writer, in order, none twice and none left out (bufferedwriter.pyx:31-47,
\* bufferedreader.pyx:26-178).
ImplementsByteStream == Stream!Spec
=============================================================================

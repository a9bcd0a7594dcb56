----------------------------- MODULE BufferedLink -----------------------------
(***************************************************************************)
(* A BufferedChannel used the way the protocol is written and read: both   *)
(* sides know which item comes next and call the methods that fit it.      *)
(*                                                                         *)
(*   script     history: the items written so far                          *)
(*   pieces     what write_strings has still to write                      *)
(*   reading    items whose reading has begun                              *)
(***************************************************************************)
EXTENDS BufferedChannel, SequencesExt

CONSTANTS Items,     \* [kind, values] with kind "read", "one" or "strings"
          MaxItems   \* bound: items in a behaviour

ASSUME MaxItemsAssumption == MaxItems \in Nat

\* read and read_one have one value, which for read_one is one byte.
ASSUME ItemsAssumption ==
  \A item \in Items:
    /\ item.kind \in {"read", "one", "strings"}
    /\ item.values \in Seq(Seq(Byte)) /\ item.values # <<>>
    /\ item.kind # "strings" => Len(item.values) = 1
    /\ item.kind = "one" => Len(item.values[1]) = 1

VARIABLES script, pieces, reading

linkVars == <<script, pieces, reading>>
vars == <<channelVars, linkVars>>

LinkInit == /\ ChannelInit
            /\ script = <<>> /\ pieces = <<>> /\ reading = 0

-----------------------------------------------------------------------------

\* make_varint: digits from the lowest, all but the last with the flag.
LengthCode[n \in Nat] ==
  IF n < Flag THEN <<n>> ELSE <<(n % Flag) + Flag>> \o LengthCode[n \div Flag]

\* The writes that write an item; write_strings writes length and value in turn.
Pieces(item) ==
  IF item.kind # "strings" THEN item.values
  ELSE [i \in 1..2 * Len(item.values) |->
          LET value == item.values[(i + 1) \div 2]
          IN IF i % 2 = 1 THEN LengthCode[Len(value)] ELSE value]

\* The application writes its next item.
WriteItem(item) ==
  /\ pieces = <<>> /\ Len(script) < MaxItems
  /\ script' = Append(script, item)
  /\ Write(Head(Pieces(item)))
  /\ pieces' = Tail(Pieces(item))
  /\ UNCHANGED <<readerVars, reading>>

\* The loop of write_strings goes on.
WritePiece ==
  /\ pieces # <<>>
  /\ Write(Head(pieces))
  /\ pieces' = Tail(pieces)
  /\ UNCHANGED <<readerVars, script, reading>>

\* The end of a request.
FlushItems == /\ pieces = <<>> /\ Flush
              /\ UNCHANGED <<readerVars, linkVars>>

WriterStep == (WriterProceeds \/ WriteFails) /\ UNCHANGED <<readerVars, linkVars>>

\* The other side begins to read an item, which may not have arrived yet.
ReadItem ==
  /\ reading < Len(script)
  /\ reading' = reading + 1
  /\ LET item == script[reading'] IN
     \/ /\ item.kind = "read"
        /\ LET n == Len(item.values[1]) IN ReadBuffered(n) \/ ReadLoop(n)
     \/ item.kind = "one" /\ ReadOne
     \/ item.kind = "strings" /\ ReadStrings(Len(item.values))
  /\ UNCHANGED <<writerVars, script, pieces>>

ReaderStep == (ReaderProceeds \/ ReadFails) /\ UNCHANGED <<writerVars, linkVars>>

LinkNext ==
  \/ \E item \in Items: WriteItem(item)
  \/ WritePiece \/ FlushItems \/ WriterStep
  \/ ReadItem \/ ReaderStep

LinkSpec == LinkInit /\ [][LinkNext]_vars

\* A call that can go on does: recv_into returns when there are bytes.
LinkFairSpec == LinkSpec /\ WF_vars(ReaderProceeds /\ UNCHANGED <<writerVars, linkVars>>)

-----------------------------------------------------------------------------

\* The values of items, and their bytes on the wire.
ValuesOf(list) == FlattenSeq([i \in DOMAIN list |-> list[i].values])
BytesOf(list)  == FlattenSeq([i \in DOMAIN list |-> FlattenSeq(Pieces(list[i]))])

\* What comes out, item for item, is what went in, empty strings and strings
\* longer than the buffer included (bufferedwriter.pyx:49-60,
\* bufferedreader.pyx:63-178, varint.pyx:5-26).
Prefix(s, t) == Len(s) <= Len(t) /\ s = SubSeq(t, 1, Len(s))

RoundTrip == Prefix(results, ValuesOf(script))

\* The item that is being read, and those behind it.
Current == script[reading]
Later   == SubSeq(script, reading + 1, Len(script))

\* The string of that item that comes next, and the bytes of those behind it.
Place     == Len(Current.values) - items + 1
NextValue == Current.values[Place]
After(item, place) ==
  FlattenSeq(SubSeq(Pieces(item), 2 * place + 1, 2 * Len(item.values)))

\* The bytes, and the values, that the running call has still to take, if these
\* with those of the later items make up the script.
BytesDue(bytes)   == taken \o bytes \o BytesOf(Later) = BytesOf(script)
ValuesDue(values) == results \o values \o ValuesOf(Later) = ValuesOf(script)

\* What is written, and what is still to be written of its last item.
WrittenInv ==
  /\ script \in Seq(Items) /\ pieces \in Seq(Seq(Byte))
  /\ reading \in 0..Len(script)
  /\ accepted \o FlattenSeq(pieces) = BytesOf(script)

\* What a call has still to take is known from where it is; of the length of a
\* string, a number that is smaller with each digit.
DueInv ==
  /\ op = "none" => BytesDue(<<>>) /\ ValuesDue(<<>>)
  /\ op \in {"read", "one"} =>
       /\ reading > 0 /\ Current.kind = op
       /\ BytesDue(Current.values[1]) /\ ValuesDue(Current.values)
       /\ op = "read" => Len(rv) + left = Len(Current.values[1])
  /\ op \in {"length", "string", "rest"} =>
       /\ reading > 0 /\ Current.kind = "strings" /\ items \in 1..Len(Current.values)
       /\ ValuesDue(SubSeq(Current.values, Place, Len(Current.values)))
  /\ op = "length" =>
       \E m \in 0..Len(NextValue):
         /\ need + scale * m = Len(NextValue)
         /\ BytesDue(LengthCode[m] \o (NextValue \o After(Current, Place)))
  /\ op \in {"string", "rest"} =>
       /\ need = Len(NextValue)
       /\ BytesDue(NextValue \o After(Current, Place))

\* Why what comes out is what went in: what has come out and what is due make up
\* the script.
LinkInv == WrittenInv /\ DueInv /\ RoundTrip

\* A call that waits gets what it needs: when all that was written is flushed,
\* it returns (or fails), and asks for no byte more
\* (bufferedreader.pyx:39-50, 137-155).
Flushed == writing = "none" /\ pieces = <<>> /\ outPosition = 0

ReadReturns == Flushed /\ op # "none" ~> op \in {"none", "failed"}
=============================================================================

---------------------------- MODULE ValueCodecs ----------------------------
(***************************************************************************)
(* One value, or one list of values, is written to a stream and read back  *)
(* by the codecs of the compiled modules, or compressed and decompressed.  *)
(* Other data follows on the stream: a reader must stop where its own ends.*)
(*                                                                         *)
(*   codec    which of them                                                *)
(*   value    what is written, or what a server sends                      *)
(*   stream   what is on the way                                           *)
(*   got      what was read                                                *)
(*   state    "given", "written", "read", "raised"                         *)
(***************************************************************************)
EXTENDS Varint, LargeInt, FixedStrings, Frames

CONSTANT Inputs   \* for each codec, what it is given

LargeInts == {"int128", "uint128", "int256", "uint256"}

ASSUME LargeIntsAssumption ==
  \A c \in DOMAIN Inputs: c \in LargeInts => Inputs[c] \subseteq Int
ASSUME VarintsAssumption ==
  \A c \in DOMAIN Inputs:
    /\ c = "varint" => Inputs[c] \subseteq 0..WordSize - 1
    /\ c = "groups" => \A g \in Inputs[c]: /\ g \in Seq(0..2 * Base - 1) /\ g # <<>>
                                          /\ IsLast(g, Len(g))
ASSUME FixedStringsAssumption ==
  \A c \in DOMAIN Inputs: c = "fixed" =>
    \A v \in Inputs[c]: v.length \in Nat /\ v.items \in Seq(Seq(Nat))

\* A block is never nothing: its header is always written (streams/native.py:25-26).
ASSUME FramesAssumption ==
  \A c \in DOMAIN Inputs: c = "frames" => Inputs[c] \subseteq Seq(Seq(Nat) \ {<<>>})

VARIABLES codec, value, stream, got, state

valueVars == <<codec, value, stream, got, state>>

\* Data that is not this codec's.
Following == <<Field("other", <<>>)>>

ValueInit ==
  /\ codec \in DOMAIN Inputs
  /\ value \in Inputs[codec]
  /\ stream = <<>>
  /\ got = <<>>
  /\ state = "given"

Written(name, tokens) ==
  /\ codec = name /\ state = "given"
  /\ stream' = tokens \o Following
  /\ state' = "written"
  /\ UNCHANGED <<codec, value, got>>

Taken(n, result) ==
  /\ stream' = SubSeq(stream, n + 1, Len(stream))
  /\ got' = result
  /\ state' = "read"
  /\ UNCHANGED <<codec, value>>

-----------------------------------------------------------------------------

WriteVarint == Written("varint", MakeVarint[value])

\* A server writes varints of its own.
ServerVarint == Written("groups", value)

DoReadVarint ==
  /\ codec \in {"varint", "groups"} /\ state = "written"
  /\ LET bytes == SubSeq(stream, 1, Len(stream) - 1)
     IN  /\ HasVarint(bytes)
         /\ \E n \in ReadVarint(bytes): Taken(EndOf(bytes), n)

WriteLargeInts ==
  \/ Written("int128",  Int128ToQuads(value))
  \/ Written("uint128", UInt128ToQuads(value))
  \/ Written("int256",  Int256ToQuads(value))
  \/ Written("uint256", UInt256ToQuads(value))

ReadLargeInts ==
  /\ state = "written"
  /\ \/ codec = "int128"  /\ Taken(2, Int128FromQuads(stream))
     \/ codec = "uint128" /\ Taken(2, UInt128FromQuads(stream))
     \/ codec = "int256"  /\ Taken(4, Int256FromQuads(stream))
     \/ codec = "uint256" /\ Taken(4, UInt256FromQuads(stream))

\* value: [items, length]
WriteFixedStrings ==
  \/ /\ codec = "fixed" /\ ~TooLarge(value.items, value.length)
     /\ Written("fixed", FixedStringsBytes(value.items, value.length))
  \/ /\ codec = "fixed" /\ state = "given"
     /\ TooLarge(value.items, value.length)
     /\ state' = "raised"
     /\ UNCHANGED <<codec, value, stream, got>>

ReadFixedStrings ==
  /\ codec = "fixed" /\ state = "written"
  /\ LET n == Len(value.items)
     IN  Taken(n * value.length, FixedStrings(n, value.length, stream))

\* value: the data of each block; every block is a frame of its own.
WriteFrames == Written("frames", FlattenSeq([i \in DOMAIN value |-> Frame(value[i])]))

\* A field of a frame is changed on the way.
Corrupt(i, field) ==
  /\ codec = "frames" /\ state = "written" /\ got = <<>>
  /\ i < Len(stream) /\ stream[i] # field
  /\ stream' = [stream EXCEPT ![i] = field]
  /\ state' = "corrupt"
  /\ UNCHANGED <<codec, value, got>>

\* The next frame is decompressed into the reader's buffer, or raises.
ReadFrame ==
  /\ codec = "frames" /\ state \in {"written", "corrupt"}
  /\ Len(stream) > 1 /\ HasFrame(stream)
  /\ IF Intact(stream)
       THEN /\ stream' = SubSeq(stream, FrameEnd(stream) + 1, Len(stream))
            /\ got' = got \o Decompressed(stream)
            /\ state' = IF Len(stream) = FrameEnd(stream) + 1 THEN "read" ELSE state
       ELSE state' = "raised" /\ UNCHANGED <<stream, got>>
  /\ UNCHANGED <<codec, value>>

ValueNext ==
  \/ WriteVarint \/ ServerVarint \/ DoReadVarint
  \/ WriteLargeInts \/ ReadLargeInts
  \/ WriteFixedStrings \/ ReadFixedStrings
  \/ WriteFrames \/ ReadFrame
  \/ \E i \in DOMAIN stream, t \in {"method", "size", "lost"}, n \in 0..5:
       Corrupt(i, Field(t, <<n>>))

ValueSpec == ValueInit /\ [][ValueNext]_valueVars

-----------------------------------------------------------------------------

OnlyOtherDataLeft == Len(stream) = Len(Following)

\* The number that groups of bits stand for, without a bound.
Denoted(bytes) ==
  LET Sum[n \in 0..Len(bytes)] ==
        IF n = 0 THEN 0 ELSE Sum[n - 1] + (bytes[n] % Base) * Shift[n - 1]
  IN  Sum[Len(bytes)]

\* A varint is read as the number it was made from, and one that a server made,
\* overlong or not, as the number it denotes, cut to 64 bits, whenever it is no
\* longer than ten bytes; no byte behind it is read (varint.pyx:5-68).
VarintsAreRead ==
  state = "read" /\ codec \in {"varint", "groups"} =>
    /\ OnlyOtherDataLeft
    /\ codec = "varint" => got = value
    /\ codec = "groups" /\ Len(value) <= Len(MakeVarint[WordSize - 1])
         => got = Denoted(value) % WordSize

\* 2^128, 2^256
TwoQuads  == Quad * Quad
FourQuads == TwoQuads * TwoQuads

\* m is what a type with so many values, from low on, has room for of x.
Wrapped(m, x, low, modulus) ==
  low <= m /\ m < low + modulus /\ (m - x) % modulus = 0

\* An integer that is read back is in the range of its type and differs from
\* the one written by a multiple of 2^128, or 2^256: it is the same one if that
\* one was in the range, the smallest and the largest included; otherwise it
\* has been wrapped around without an error (largeint.pyx:11-244).
LargeIntsAreRead ==
  LET Is(low, modulus) == OnlyOtherDataLeft /\ Wrapped(got, value, low, modulus)
  IN  state = "read" =>
        /\ codec = "int128"  => Is(-(TwoQuads \div 2), TwoQuads)
        /\ codec = "uint128" => Is(0, TwoQuads)
        /\ codec = "int256"  => Is(-(FourQuads \div 2), FourQuads)
        /\ codec = "uint256" => Is(0, FourQuads)

\* Strings of a fixed length come back one for one, without the zeros at their
\* ends, or, if they cannot be decoded, padded with them; if one of them is too
\* long, none is written (bufferedwriter.pyx:62-114, bufferedreader.pyx:180-229).
FixedStringsAreRead ==
  codec = "fixed" =>
    /\ state = "raised" => stream = <<>>
    /\ state = "read" =>
         /\ OnlyOtherDataLeft
         /\ Len(got) = Len(value.items)
         /\ \A i \in DOMAIN got:
              /\ Padded(got[i], value.length) = Padded(value.items[i], value.length)
              /\ IF ToSet(got[i]) \cap Undecodable # {} THEN Len(got[i]) = value.length
                 ELSE got[i] = <<>> \/ Last(got[i]) # 0

\* What comes out of compressed blocks is a prefix of the data that went in,
\* whatever field of them is changed on the way, and all of it if none is; the
\* check of the hash is the only thing that stands in between
\* (compression/base.py:65-87, streams/compressed.py:32-48, 74-88).
CorruptIsNeverRead ==
  codec = "frames" =>
    LET data == FlattenSeq(value) IN
    /\ Len(got) <= Len(data) /\ got = SubSeq(data, 1, Len(got))
    /\ state = "read" => got = data /\ OnlyOtherDataLeft
    /\ state = "raised" => got # data
=============================================================================

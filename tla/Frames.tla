------------------------------- MODULE Frames -------------------------------
(***************************************************************************)
(* Compressed blocks (proton_driver/compression/base.py,                   *)
(* streams/compressed.py): hash, method, size of what follows the hash,    *)
(* size of the data, and the compressed data. A field is one token here,   *)
(* so the widths of the sizes and of the method are 1.                     *)
(***************************************************************************)
EXTENDS Integers, Sequences

CONSTANT Method   \* compressor.method_byte

ASSUME MethodAssumption == Method \in Nat

SizeWidth  == 1   \* 4 bytes of a size
ExtraWidth == 1   \* extra_header_size: the method

Field(t, v) == [t |-> t, v |-> v]

\* The compression library: what it makes of data is longer for more of it,
\* and tells which data it was.
Compress(data) ==
  <<Field("lz", data)>> \o [i \in 1..Len(data) \div 2 |-> Field("lz", <<i>>)]

\* CityHash128, taken to have no collisions.
CityHash(fields) == Field("hash", fields)

\* get_compressed_data, get_compressed, finalize
Frame(data) ==
  LET compressed == Compress(data)
      size  == ExtraWidth + SizeWidth + SizeWidth + Len(compressed)
      value == <<Field("method", <<Method>>), Field("size", <<size>>),
                 Field("usize", <<Len(data)>>)>> \o compressed
  IN  <<CityHash(value)>> \o value

\* read_block and get_decompressed_data, up to the check of the hash.
CompressedSize(stream) == stream[3].v[1] - ExtraWidth - SizeWidth
FrameEnd(stream)       == 3 + CompressedSize(stream)
HasFrame(stream) ==
  Len(stream) >= 3 /\ (stream[3].t = "size" => Len(stream) >= FrameEnd(stream))

\* Mutant: the checksum is not looked at.
IntactUnchecked(stream) ==
  /\ stream[3].t = "size" /\ CompressedSize(stream) > SizeWidth
  /\ stream[2] = Field("method", <<Method>>)

\* ChecksumDoesntMatchError, or no decompressor for the method.
Intact(stream) ==
  /\ stream[3].t = "size" /\ CompressedSize(stream) > SizeWidth
  /\ stream[2] = Field("method", <<Method>>)
  /\ stream[1] = CityHash(SubSeq(stream, 2, FrameEnd(stream)))

\* decompress_data of what follows the uncompressed size.
Decompressed(stream) == stream[3 + SizeWidth + 1].v
=============================================================================

-------------------------- MODULE BufferedLinkProofs --------------------------
(***************************************************************************)
(* BufferedReader and BufferedWriter proved for every size of the buffers, *)
(* every stream and every sequence of calls: the reader uses up the stream *)
(* in order and never looks behind what recv_into has given it; what is on *)
(* the socket and in the writer's buffer is what write() was given. Then   *)
(* the two and a socket implement a reliable stream of bytes: their        *)
(* invariants meet at the socket. Then BufferedLink, for every base of the *)
(* varints and every script of items: what comes out of the reader's calls *)
(* is, item for item, what went into the writer's.                         *)
(***************************************************************************)
EXTENDS BufferedLink, SliceLemmas, TLAPS

-----------------------------------------------------------------------------
(* The reader *)

\* Nothing read yet.
LEMMA ReaderInitInvariant == socket = <<>> /\ ReaderInit => ReaderInv
<1> SUFFICES ASSUME socket = <<>>, ReaderInit PROVE ReaderInv
  OBVIOUS
<1>1. socket \in Seq(Byte) /\ Len(socket) = 0 /\ rv \in Seq(Byte) /\ taken \in Seq(Byte)
      /\ results \in Seq(Seq(Byte))
  BY DEF ReaderInit
<1>2. buffer \in [1..BufSize -> Byte]
  BY FlagAssumption DEF ReaderInit, Byte
<1>3. taken \o rv = <<>> /\ Len(taken \o rv) = 0 /\ SubSeq(socket, 1, 0) = <<>>
  BY <1>1, SubSeqEmpty DEF ReaderInit
<1>4. received - Unread = 0
  BY DEF ReaderInit, Unread
<1> QED
  BY <1>1, <1>2, <1>3, <1>4, BufSizeAssumption
  DEF ReaderInv, ReaderTypeOK, InBounds, ReadInOrder, ReaderInit, Op

\* No more is used up than was received.
LEMMA Between ==
  ASSUME NEW p \in Nat, NEW s \in Nat, NEW r \in Nat, NEW l \in Nat,
         p <= s, s <= r, r <= l
  PROVE  r - (s - p) \in 0..l /\ r - 0 \in 0..l
OBVIOUS

\* What is used up is within the stream, whichever way the call keeps its place
\* (bufferedreader.pyx:39-50, 125-135).
LEMMA UsedUpIsReceived ==
  ASSUME ReaderTypeOK', position' <= size', size' <= received'
  PROVE  socket' \in Seq(Byte) /\ received' - Unread' \in 0..Len(socket')
<1>1. /\ socket' \in Seq(Byte) /\ Len(socket') \in Nat /\ received' \in 0..Len(socket')
      /\ position' \in Nat /\ size' \in 0..BufSize
  BY DEF ReaderTypeOK
<1>2. size' \in Nat /\ received' \in Nat /\ received' <= Len(socket')
  BY <1>1, BufSizeAssumption
<1>3. Unread' = IF op' = "rest" THEN 0 ELSE size' - position'
  BY DEF Unread
<1>4. /\ received' - (size' - position') \in 0..Len(socket')
      /\ received' - 0 \in 0..Len(socket')
  BY <1>1, <1>2, Between
<1> QED BY <1>1, <1>3, <1>4

\* To keep the invariant is to keep the window and to continue what is used up:
\* that it is a prefix of the stream follows (bufferedreader.pyx:26-178).
LEMMA Assemble ==
  ASSUME ReaderTypeOK', op' # "failed", position' <= size', size' <= received',
         \A o \in 1..size': buffer'[o] = socket'[received' - size' + o],
         taken' \o rv' = SubSeq(socket', 1, received' - Unread'),
         op' \in {"none", "one", "length", "string"} => rv' = <<>>,
         op' = "rest" => Len(rv') < need',
         op' \in {"length", "string", "rest"} => items' > 0
  PROVE  ReaderInv'
<1>1. socket' \in Seq(Byte) /\ received' - Unread' \in 0..Len(socket')
  BY UsedUpIsReceived
<1>2. /\ Len(taken' \o rv') = received' - Unread'
      /\ Len(taken' \o rv') <= Len(socket')
  <2> DEFINE k == received' - Unread'
  <2>1. Len(socket') \in Nat /\ k \in 0..Len(socket')
    BY <1>1
  <2>2. taken' \o rv' = SubSeq(socket', 1, k)
    OBVIOUS
  <2> HIDE DEF k
  <2>3. k <= Len(socket') /\ Len(SubSeq(socket', 1, k)) = k
    BY <1>1, <2>1, PrefixLength
  <2> QED BY <2>2, <2>3 DEF k
<1>3. ReadInOrder'
  BY <1>2 DEF ReadInOrder
<1> QED BY <1>3 DEF ReaderInv, InBounds

\* The next n bytes of the buffer are the next n of the stream
\* (bufferedreader.pyx:33, 46-48, 161-163).
LEMMA Consume ==
  ASSUME ReaderInv, op \notin {"failed", "rest"}, NEW n \in Nat, position + n <= size
  PROVE  LET piece == SubSeq(buffer, position + 1, position + n) IN
         /\ piece \in Seq(Byte) /\ Len(piece) = n
         /\ rv \o piece \in Seq(Byte) /\ Len(rv \o piece) = Len(rv) + n
         /\ taken \o (rv \o piece)
              = SubSeq(socket, 1, received - (size - (position + n)))
<1> DEFINE piece == SubSeq(buffer, position + 1, position + n)
           k == received - size
<1>1. /\ socket \in Seq(Byte) /\ Len(socket) \in Nat /\ k \in Nat
      /\ position \in Nat /\ size \in Nat /\ received \in Nat
      /\ k + position + n <= Len(socket)
      /\ rv \in Seq(Byte) /\ taken \in Seq(Byte)
  BY BufSizeAssumption DEF ReaderInv, ReaderTypeOK
<1>2. \A o \in 1..(position + n): buffer[o] = socket[k + o]
  BY <1>1 DEF ReaderInv
<1>k. /\ k + position = received - (size - position)
      /\ k + position + n = received - (size - (position + n))
  BY <1>1
<1> HIDE DEF k
<1>3. /\ piece \in Seq(Byte) /\ Len(piece) = n
      /\ piece = SubSeq(socket, k + position + 1, k + position + n)
  BY SMTT(20), <1>1, <1>2, SliceOfWindow
<1>4. taken \o rv = SubSeq(socket, 1, k + position)
  BY <1>k DEF ReaderInv, Unread
<1> HIDE DEF piece
<1>5. k + position \in Nat /\ (k + position) + n <= Len(socket)
  BY <1>1
<1>6. SubSeq(socket, 1, k + position) \o SubSeq(socket, k + position + 1, k + position + n)
        = SubSeq(socket, 1, k + position + n)
  BY <1>1, <1>5, PrefixExtends
<1>7. (taken \o rv) \o piece = taken \o (rv \o piece)
  <2>1. taken \in Seq(Byte) /\ rv \in Seq(Byte) /\ piece \in Seq(Byte)
    BY <1>1, <1>3
  <2> QED BY <2>1, ConcatAssociative, SMT
<1>8. rv \o piece \in Seq(Byte) /\ Len(rv \o piece) = Len(rv) + n
  BY <1>1, <1>3, ConcatProperties
<1>9. taken \o (rv \o piece) = SubSeq(socket, 1, received - (size - (position + n)))
  BY <1>3, <1>4, <1>6, <1>7, <1>k
<1> QED BY <1>3, <1>8, <1>9 DEF piece

\* A value that continues what is used up may be returned
\* (bufferedreader.pyx:33, 52, 61, 173).
LEMMA ReturnKeeps ==
  ASSUME ReaderTypeOK, NEW value \in Seq(Byte), Return(value)
  PROVE  /\ rv' = <<>> /\ rv' \in Seq(Byte)
         /\ taken' \in Seq(Byte)
         /\ results' \in Seq(Seq(Byte))
         /\ taken' \o rv' = taken \o value
<1>1. taken \in Seq(Byte) /\ results \in Seq(Seq(Byte))
  BY DEF ReaderTypeOK
<1>2. taken \o value \in Seq(Byte) /\ (taken \o value) \o <<>> = taken \o value
  BY <1>1, ConcatProperties, ConcatEmptySeq
<1>3. Append(results, value) \in Seq(Seq(Byte))
  BY <1>1, AppendProperties
<1> QED BY <1>2, <1>3 DEF Return

-----------------------------------------------------------------------------
(* read and read_one keep the invariant *)

\* What the invariant says of the numbers.
LEMMA ReaderNumbers ==
  ASSUME ReaderInv
  PROVE  /\ position \in Nat /\ size \in Nat /\ received \in Nat
         /\ left \in Nat /\ items \in Nat /\ need \in Nat /\ scale \in Nat
         /\ size <= BufSize /\ size <= received /\ received <= Len(socket)
         /\ Len(socket) \in Nat /\ Len(rv) \in Nat
         /\ op # "failed" => position <= size
BY BufSizeAssumption DEF ReaderInv, ReaderTypeOK, InBounds

\* The same for a value that is cut out of the buffer while nothing is collected
\* (bufferedreader.pyx:33, 59, 161).
LEMMA ConsumeAtOnce ==
  ASSUME ReaderInv, op \in {"none", "one", "length", "string"},
         NEW n \in Nat, position + n <= size
  PROVE  LET piece == SubSeq(buffer, position + 1, position + n) IN
         /\ piece \in Seq(Byte) /\ Len(piece) = n
         /\ taken \o piece = SubSeq(socket, 1, received - (size - (position + n)))
<1> DEFINE piece == SubSeq(buffer, position + 1, position + n)
<1>1. /\ piece \in Seq(Byte) /\ Len(piece) = n
      /\ taken \o (rv \o piece) = SubSeq(socket, 1, received - (size - (position + n)))
  BY Consume
<1>2. rv = <<>>
  BY DEF ReaderInv
<1> HIDE DEF piece
<1>3. rv \o piece = piece
  BY <1>1, <1>2, ConcatEmptySeq
<1> QED BY <1>1, <1>3 DEF piece

\* A read whose bytes are in the buffer cuts them out (bufferedreader.pyx:30-33).
LEMMA ReadBufferedKeeps ==
  ASSUME ReaderInv, NEW n \in Nat, ReadBuffered(n)
  PROVE  ReaderInv'
<1> DEFINE piece == SubSeq(buffer, position + 1, position + n)
<1>1. op = "none" /\ position + n <= size /\ position' = position + n
  BY ReaderNumbers DEF ReadBuffered
<1>2. /\ piece \in Seq(Byte)
      /\ taken \o piece = SubSeq(socket, 1, received - (size - (position + n)))
  BY <1>1, ConsumeAtOnce
<1>3. Return(piece)
  BY DEF ReadBuffered
<1> HIDE DEF piece
<1>4. /\ rv' = <<>> /\ rv' \in Seq(Byte) /\ taken' \in Seq(Byte)
      /\ results' \in Seq(Seq(Byte)) /\ taken' \o rv' = taken \o piece
  BY <1>2, <1>3, ReturnKeeps DEF ReaderInv
<1>5. UNCHANGED <<socket, buffer, size, received, op, left, items, need, scale>>
  BY DEF ReadBuffered
<1>6. ReaderTypeOK'
  BY <1>1, <1>4, <1>5, ReaderNumbers DEF ReaderInv, ReaderTypeOK
<1>7. received' - Unread' = received - (size - (position + n))
  BY <1>1, <1>5, ReaderNumbers DEF Unread
<1>8. \A o \in 1..size': buffer'[o] = socket'[received' - size' + o]
  BY <1>1, <1>5 DEF ReaderInv
<1> QED BY <1>1, <1>2, <1>4, <1>5, <1>6, <1>7, <1>8, ReaderNumbers, Assemble

\* A read that needs more than the buffer has begins with nothing collected
\* (bufferedreader.pyx:35-37).
LEMMA ReadLoopKeeps ==
  ASSUME ReaderInv, NEW n \in Nat, ReadLoop(n)
  PROVE  ReaderInv'
<1>1. ReaderTypeOK'
  BY DEF ReadLoop, ReaderInv, ReaderTypeOK, Op
<1>2. received' - Unread' = received - Unread
  BY DEF ReadLoop, Unread
<1> QED BY <1>1, <1>2, ReaderNumbers, Assemble DEF ReadLoop, ReaderInv

\* A turn of the loop collects what follows (bufferedreader.pyx:45-50).
LEMMA CopyBytesKeeps ==
  ASSUME ReaderInv, CopyBytes
  PROVE  ReaderInv'
<1> DEFINE n == Least(left, size - position)
           piece == SubSeq(buffer, position + 1, position + n)
<1>1. op = "read" /\ n \in Nat /\ n <= left /\ position + n <= size
  <2>1. op = "read"
    BY DEF CopyBytes
  <2>2. size - position \in Nat /\ left \in Nat /\ position \in Nat /\ size \in Nat
    BY <2>1, ReaderNumbers
  <2> QED BY <2>1, <2>2 DEF Least
<1>2. rv' = rv \o piece /\ position' = position + n /\ left' = left - n
  BY DEF CopyBytes
<1> HIDE DEF n
<1>3. /\ rv \o piece \in Seq(Byte)
      /\ taken \o (rv \o piece) = SubSeq(socket, 1, received - (size - (position + n)))
  BY <1>1, Consume
<1> HIDE DEF piece
<1>4. UNCHANGED <<socket, buffer, size, received, op, items, need, scale, taken, results>>
  BY DEF CopyBytes
<1>5. ReaderTypeOK'
  BY <1>1, <1>2, <1>3, <1>4, ReaderNumbers DEF ReaderInv, ReaderTypeOK
<1>6. received' - Unread' = received - (size - (position + n))
  BY <1>1, <1>2, <1>4, ReaderNumbers DEF Unread
<1>7. \A o \in 1..size': buffer'[o] = socket'[received' - size' + o]
  BY <1>1, <1>4 DEF ReaderInv
<1> QED BY <1>1, <1>2, <1>3, <1>4, <1>5, <1>6, <1>7, ReaderNumbers, Assemble

\* The loop returns what it has collected (bufferedreader.pyx:52).
LEMMA ReturnBytesKeeps ==
  ASSUME ReaderInv, ReturnBytes
  PROVE  ReaderInv'
<1>1. op = "read" /\ op' = "none" /\ Return(rv)
      /\ UNCHANGED <<socket, buffer, position, size, received, left, items, need, scale>>
  BY DEF ReturnBytes
<1>2. /\ rv' = <<>> /\ rv' \in Seq(Byte) /\ taken' \in Seq(Byte)
      /\ results' \in Seq(Seq(Byte)) /\ taken' \o rv' = taken \o rv
  BY <1>1, ReturnKeeps DEF ReaderInv, ReaderTypeOK
<1>3. ReaderTypeOK'
  BY <1>1, <1>2 DEF ReaderInv, ReaderTypeOK, Op
<1>4. received' - Unread' = received - Unread
  BY <1>1 DEF Unread
<1>5. \A o \in 1..size': buffer'[o] = socket'[received' - size' + o]
  BY <1>1 DEF ReaderInv
<1>6. taken \o rv = SubSeq(socket, 1, received - Unread)
  BY <1>1 DEF ReaderInv
<1> QED BY <1>1, <1>2, <1>3, <1>4, <1>5, <1>6, ReaderNumbers, Assemble

\* read_one begins (bufferedreader.pyx:54-55).
LEMMA ReadOneKeeps ==
  ASSUME ReaderInv, ReadOne
  PROVE  ReaderInv'
<1>1. ReaderTypeOK'
  BY DEF ReadOne, ReaderInv, ReaderTypeOK, Op
<1>2. received' - Unread' = received - Unread
  BY DEF ReadOne, Unread
<1> QED BY <1>1, <1>2, ReaderNumbers, Assemble DEF ReadOne, ReaderInv

\* read_one takes the next byte (bufferedreader.pyx:59-61).
LEMMA TakeOneKeeps ==
  ASSUME ReaderInv, TakeOne
  PROVE  ReaderInv'
<1> DEFINE piece == SubSeq(buffer, position + 1, position + 1)
<1>1. op = "one" /\ position + 1 <= size
  BY ReaderNumbers DEF TakeOne
<1>2. /\ piece \in Seq(Byte)
      /\ taken \o piece = SubSeq(socket, 1, received - (size - (position + 1)))
  BY <1>1, ConsumeAtOnce
<1>3. piece = <<buffer[position + 1]>>
  BY ReaderNumbers, SingletonSlice
<1>4. Return(piece) /\ position' = position + 1 /\ op' = "none"
      /\ UNCHANGED <<socket, buffer, size, received, left, items, need, scale>>
  BY <1>3 DEF TakeOne
<1> HIDE DEF piece
<1>5. /\ rv' = <<>> /\ rv' \in Seq(Byte) /\ taken' \in Seq(Byte)
      /\ results' \in Seq(Seq(Byte)) /\ taken' \o rv' = taken \o piece
  BY <1>2, <1>4, ReturnKeeps DEF ReaderInv
<1>6. ReaderTypeOK'
  BY <1>4, <1>5, ReaderNumbers DEF ReaderInv, ReaderTypeOK, Op
<1>7. received' - Unread' = received - (size - (position + 1))
  BY <1>1, <1>4, ReaderNumbers DEF Unread
<1>8. \A o \in 1..size': buffer'[o] = socket'[received' - size' + o]
  BY <1>1, <1>4 DEF ReaderInv
<1> QED BY <1>1, <1>2, <1>4, <1>5, <1>6, <1>7, <1>8, ReaderNumbers, Assemble

-----------------------------------------------------------------------------
(* read_strings keeps the invariant while its strings are in the buffer *)

\* read_strings begins with a length of nothing (bufferedreader.pyx:63-92).
LEMMA ReadStringsKeeps ==
  ASSUME ReaderInv, NEW n \in Nat, ReadStrings(n)
  PROVE  ReaderInv'
<1>1. ReaderTypeOK'
  BY DEF ReadStrings, ReaderInv, ReaderTypeOK, Op
<1>2. received' - Unread' = received - Unread
  BY DEF ReadStrings, Unread
<1> QED BY <1>1, <1>2, ReaderNumbers, Assemble DEF ReadStrings, ReaderInv

\* A digit keeps the length and its scale natural numbers
\* (bufferedreader.pyx:104-109).
LEMMA DigitIsNatural ==
  ASSUME NEW b \in Byte, NEW m \in Nat, NEW s \in Nat
  PROVE  m + (b % Flag) * s \in Nat /\ s * Flag \in Nat
<1>1. Flag \in Nat /\ Flag > 0 /\ b \in Int
  BY FlagAssumption DEF Byte
<1>2. b % Flag \in Nat
  BY <1>1
<1>3. (b % Flag) * s \in Nat /\ s * Flag \in Nat
  <2> DEFINE d == b % Flag
  <2>1. d \in Nat
    BY <1>2
  <2> HIDE DEF d
  <2>2. d * s \in Nat /\ s * Flag \in Nat
    BY <1>1, <2>1
  <2> QED BY <2>2 DEF d
<1> QED BY <1>3

\* Every digit is used up once (bufferedreader.pyx:102-109).
LEMMA LengthByteKeeps ==
  ASSUME ReaderInv, LengthByte
  PROVE  ReaderInv'
<1> DEFINE b == buffer[position + 1]
           piece == SubSeq(buffer, position + 1, position + 1)
<1>1. op = "length" /\ position + 1 <= size /\ position + 1 \in 1..BufSize
  BY SMTT(20), ReaderNumbers, BufSizeAssumption DEF LengthByte
<1>2. b \in Byte
  BY <1>1 DEF ReaderInv, ReaderTypeOK
<1>3. /\ need' = need + (b % Flag) * scale /\ scale' = scale * Flag
      /\ op' \in {"string", "length"} /\ position' = position + 1
      /\ taken' = Append(taken, b)
      /\ UNCHANGED <<socket, buffer, size, received, left, items, rv, results>>
  BY DEF LengthByte
<1>4. need' \in Nat /\ scale' \in Nat
  BY <1>2, <1>3, ReaderNumbers, DigitIsNatural
<1>5. rv = <<>> /\ taken \in Seq(Byte)
  BY <1>1 DEF ReaderInv, ReaderTypeOK
<1>6. piece = <<b>>
  BY ReaderNumbers, SingletonSlice
<1>7. /\ piece \in Seq(Byte)
      /\ taken \o piece = SubSeq(socket, 1, received - (size - (position + 1)))
  BY <1>1, ConsumeAtOnce
<1> HIDE DEF piece, b
<1>8. taken' \in Seq(Byte) /\ taken' = taken \o piece /\ taken' \o rv' = taken'
  <2>1. Append(taken, b) \in Seq(Byte) /\ Append(taken, b) = taken \o <<b>>
    BY <1>2, <1>5, AppendProperties, AppendIsConcat
  <2>2. taken' \o <<>> = taken'
    BY <1>3, <2>1, ConcatEmptySeq
  <2> QED BY <1>3, <1>5, <1>6, <2>1, <2>2
<1>9. ReaderTypeOK'
  <2>1. position' \in Nat
    BY SMTT(20), <1>3, ReaderNumbers
  <2> QED BY <1>3, <1>4, <1>8, <2>1 DEF ReaderInv, ReaderTypeOK, Op
<1>10. received' - Unread' = received - (size - (position + 1))
  BY <1>1, <1>3, ReaderNumbers DEF Unread
<1>11. \A o \in 1..size': buffer'[o] = socket'[received' - size' + o]
  BY <1>1, <1>3 DEF ReaderInv
<1>12. taken' \o rv' = SubSeq(socket', 1, received' - Unread')
  BY <1>3, <1>7, <1>8, <1>10
<1>13. rv' = <<>> /\ items' > 0
  BY <1>1, <1>3, <1>5 DEF ReaderInv
<1>14. position' <= size' /\ size' <= received'
  BY <1>1, <1>3, ReaderNumbers
<1> QED BY <1>3, <1>9, <1>11, <1>12, <1>13, <1>14, Assemble

\* A string that is finished leaves the loop where the next begins, or where it
\* ends (bufferedreader.pyx:166-178).
LEMMA EndStringKeeps ==
  ASSUME ReaderTypeOK, items > 0, NEW value \in Seq(Byte), EndString(value)
  PROVE  /\ op' \in {"none", "length"}
         /\ op' = "length" => items' > 0
         /\ items' \in Nat /\ need' \in Nat /\ scale' \in Nat
         /\ rv' = <<>> /\ rv' \in Seq(Byte)
         /\ taken' \in Seq(Byte) /\ results' \in Seq(Seq(Byte))
         /\ taken' \o rv' = taken \o value
<1>1. Return(value) /\ items' = items - 1 /\ need' = 0 /\ scale' = 1
      /\ op' = IF items = 1 THEN "none" ELSE "length"
  BY DEF EndString
<1>2. /\ rv' = <<>> /\ rv' \in Seq(Byte)
      /\ taken' \in Seq(Byte) /\ results' \in Seq(Seq(Byte))
      /\ taken' \o rv' = taken \o value
  BY <1>1, ReturnKeeps
<1>3. items \in Nat
  BY DEF ReaderTypeOK
<1>4. /\ op' \in {"none", "length"} /\ items' \in Nat
      /\ op' = "length" => items' > 0
  BY <1>1, <1>3
<1> QED BY <1>1, <1>2, <1>4

\* A string that is in the buffer is cut out of it (bufferedreader.pyx:157-164).
LEMMA StringInBufferKeeps ==
  ASSUME ReaderInv, StringInBuffer
  PROVE  ReaderInv'
<1> DEFINE piece == SubSeq(buffer, position + 1, position + need)
<1>1. op = "string" /\ position + need <= size /\ position' = position + need
      /\ EndString(piece) /\ UNCHANGED <<socket, buffer, size, received, left>>
  BY DEF StringInBuffer
<1>2. need \in Nat
  BY ReaderNumbers
<1>3. /\ piece \in Seq(Byte)
      /\ taken \o piece = SubSeq(socket, 1, received - (size - (position + need)))
  BY <1>1, <1>2, ConsumeAtOnce
<1> HIDE DEF piece
<1>4. items > 0
  BY <1>1 DEF ReaderInv
<1>5. /\ op' \in {"none", "length"}
      /\ op' = "length" => items' > 0
      /\ items' \in Nat /\ need' \in Nat /\ scale' \in Nat
      /\ rv' = <<>> /\ rv' \in Seq(Byte)
      /\ taken' \in Seq(Byte) /\ results' \in Seq(Seq(Byte))
      /\ taken' \o rv' = taken \o piece
  BY <1>1, <1>3, <1>4, EndStringKeeps DEF ReaderInv
<1>6. ReaderTypeOK'
  <2>1. op' \in Op
    BY <1>5 DEF Op
  <2>2. position \in Nat
    BY ReaderNumbers
  <2>3. position' \in Nat
    BY <1>1, <1>2, <2>2
  <2> QED BY <1>1, <1>5, <2>1, <2>3 DEF ReaderInv, ReaderTypeOK
<1>7. received' - Unread' = received - (size - (position + need))
  BY <1>1, <1>5 DEF Unread
<1>8. \A o \in 1..size': buffer'[o] = socket'[received' - size' + o]
  BY <1>1 DEF ReaderInv
<1>9. position' <= size' /\ size' <= received'
  BY <1>1, ReaderNumbers
<1> QED BY <1>1, <1>3, <1>5, <1>6, <1>7, <1>8, <1>9, Assemble

\* Of a string that is cut the buffer holds a part that is shorter than it is,
\* and nothing after (bufferedreader.pyx:125-135).
LEMMA StringCutKeeps ==
  ASSUME ReaderInv, StringCut
  PROVE  ReaderInv'
<1> DEFINE n == size - position
           piece == SubSeq(buffer, position + 1, size)
<1>1. op = "string" /\ position + need > size /\ op' = "rest" /\ rv' = piece
      /\ UNCHANGED <<socket, buffer, position, size, received, left, items, need,
                     scale, taken, results>>
  BY DEF StringCut
<1>2. n \in Nat /\ position + n = size /\ n < need
  BY <1>1, ReaderNumbers
<1>3. /\ piece \in Seq(Byte) /\ Len(piece) = n
      /\ taken \o piece = SubSeq(socket, 1, received - (size - size))
  <2> DEFINE m == n
  <2>1. m \in Nat /\ position + m = size /\ position + m <= size
        /\ op \in {"none", "one", "length", "string"}
    BY <1>1, <1>2, ReaderNumbers
  <2> HIDE DEF m, piece
  <2>2. LET p == SubSeq(buffer, position + 1, position + m) IN
        /\ p \in Seq(Byte) /\ Len(p) = m
        /\ taken \o p = SubSeq(socket, 1, received - (size - (position + m)))
    BY <2>1, ConsumeAtOnce
  <2> QED BY <2>1, <2>2 DEF m, piece
<1> HIDE DEF piece
<1>4. ReaderTypeOK'
  BY <1>1, <1>3 DEF ReaderInv, ReaderTypeOK, Op
<1>5. received' - Unread' = received - (size - size)
  BY <1>1, ReaderNumbers DEF Unread
<1>6. Len(rv') < need'
  BY <1>1, <1>2, <1>3
<1>7. items' > 0
  BY <1>1 DEF ReaderInv
<1>8. \A o \in 1..size': buffer'[o] = socket'[received' - size' + o]
  BY <1>1 DEF ReaderInv
<1> QED BY <1>1, <1>3, <1>4, <1>5, <1>6, <1>7, <1>8, ReaderNumbers, Assemble

-----------------------------------------------------------------------------
(* the refills keep the invariant *)

\* What recv_into gives is the window of the new buffer
\* (bufferedreader.pyx:237-238).
LEMMA NewWindow ==
  ASSUME ReaderInv, NEW n, ReadIntoBuffer(n), socket' = socket
  PROVE  /\ n \in Nat /\ n <= BufSize /\ received + n <= Len(socket)
         /\ size' = n /\ received' = received + n
         /\ buffer' \in [1..BufSize -> Byte]
         /\ \A o \in 1..n: buffer'[o] = socket[received + o]
<1>1. /\ n \in 1..BufSize /\ received + n <= Len(socket)
      /\ size' = n /\ received' = received + n
      /\ buffer' = [o \in 1..BufSize |-> IF o <= n THEN socket[received + o] ELSE buffer[o]]
  BY DEF ReadIntoBuffer
<1>2. n \in Nat /\ n <= BufSize /\ received \in Nat /\ Len(socket) \in Nat
  BY <1>1, BufSizeAssumption, ReaderNumbers
<1>3. socket \in Seq(Byte) /\ buffer \in [1..BufSize -> Byte]
  BY DEF ReaderInv, ReaderTypeOK
<1>4. ASSUME NEW o \in 1..BufSize
      PROVE  (IF o <= n THEN socket[received + o] ELSE buffer[o]) \in Byte
  <2>1. CASE o <= n
    <3>1. received + o \in 1..Len(socket)
      BY <1>1, <1>2, <2>1
    <3> QED BY <1>3, <2>1, <3>1
  <2>2. CASE ~(o <= n)
    BY <1>3, <2>2
  <2> QED BY <2>1, <2>2
<1>5. buffer' \in [1..BufSize -> Byte]
  BY <1>1, <1>4
<1>6. \A o \in 1..n: o \in 1..BufSize /\ o <= n
  BY <1>1, BufSizeAssumption
<1>7. \A o \in 1..n: buffer'[o] = socket[received + o]
  BY <1>1, <1>6
<1> QED BY <1>1, <1>2, <1>5, <1>7

\* The new buffer is unread from its beginning (bufferedreader.pyx:39-43, 56-58,
\* 95-100).
LEMMA RefillKeeps ==
  ASSUME ReaderInv, NEW n, Refill(n)
  PROVE  ReaderInv'
<1>1. /\ op \in {"one", "length", "read"} /\ position = size /\ position' = 0
      /\ ReadIntoBuffer(n)
      /\ UNCHANGED <<socket, op, left, items, need, scale, rv, taken, results>>
  BY DEF Refill, Waiting
<1>2. /\ n \in Nat /\ n <= BufSize /\ received + n <= Len(socket)
      /\ size' = n /\ received' = received + n
      /\ buffer' \in [1..BufSize -> Byte]
      /\ \A o \in 1..n: buffer'[o] = socket[received + o]
  BY <1>1, NewWindow
<1>3. ReaderTypeOK'
  <2>1. received + n \in 0..Len(socket) /\ n \in 0..BufSize
    BY <1>2, ReaderNumbers, BufSizeAssumption
  <2> QED BY <1>1, <1>2, <2>1 DEF ReaderInv, ReaderTypeOK
<1>4. (received + n) - n = received /\ n <= received + n
  BY <1>2, ReaderNumbers
<1>5. \A o \in 1..size': buffer'[o] = socket'[received' - size' + o]
  BY <1>1, <1>2, <1>4
<1>6. taken \o rv = SubSeq(socket, 1, received)
  <2>1. received - Unread = received
    BY <1>1, ReaderNumbers DEF Unread
  <2> QED BY <1>1, <2>1 DEF ReaderInv
<1>7. received' - Unread' = received
  <2>1. Unread' = n - 0
    BY <1>1, <1>2 DEF Unread
  <2>2. (received + n) - (n - 0) = received
    BY <1>2, ReaderNumbers
  <2> QED BY <1>2, <2>1, <2>2
<1>8. taken' \o rv' = SubSeq(socket', 1, received' - Unread')
  BY <1>1, <1>6, <1>7
<1>9. op' # "failed" /\ position' <= size' /\ size' <= received'
  BY <1>1, <1>2, <1>4
<1>10. /\ op' \in {"none", "one", "length", "string"} => rv' = <<>>
       /\ op' = "rest" => Len(rv') < need'
       /\ op' \in {"length", "string", "rest"} => items' > 0
  BY <1>1 DEF ReaderInv
<1> QED BY <1>3, <1>5, <1>8, <1>9, <1>10, Assemble

\* The part of a string a refill brings: all of it that is missing, or all that
\* was given (bufferedreader.pyx:140-151).
LEMMA LeastPart ==
  ASSUME NEW n \in Nat, NEW l \in Nat, NEW m \in Nat, l < m
  PROVE  LET p == Least(m - l, n) IN
         /\ p \in Nat /\ p <= n /\ l + p <= m
         /\ l + p # m => p = n
BY DEF Least

\* The parts of a string continue what is used up, and a string that is not
\* complete has used up all that was given (bufferedreader.pyx:136-155).
LEMMA StringRestKeeps ==
  ASSUME ReaderInv, NEW n, StringRest(n)
  PROVE  ReaderInv'
<1> DEFINE p == Least(need - Len(rv), n)
           piece == SubSeq(buffer', 1, p)
           part == rv \o piece
<1>1. /\ op = "rest" /\ position' = p /\ ReadIntoBuffer(n)
      /\ IF Len(part) = need
           THEN EndString(part)
           ELSE rv' = part /\ UNCHANGED <<op, items, need, scale, taken, results>>
      /\ socket' = socket /\ left' = left
  BY DEF StringRest
<1>2. /\ n \in Nat /\ n <= BufSize /\ received + n <= Len(socket)
      /\ size' = n /\ received' = received + n
      /\ buffer' \in [1..BufSize -> Byte]
      /\ \A o \in 1..n: buffer'[o] = socket[received + o]
  BY <1>1, NewWindow
<1>3. /\ p \in Nat /\ p <= n /\ Len(rv) + p <= need
      /\ Len(rv) + p # need => p = n
  <2>1. Len(rv) < need /\ Len(rv) \in Nat /\ need \in Nat
    BY <1>1, ReaderNumbers DEF ReaderInv
  <2> QED BY <1>2, <2>1, LeastPart
<1> HIDE DEF p
<1>4. /\ rv \in Seq(Byte) /\ taken \in Seq(Byte) /\ socket \in Seq(Byte)
      /\ received \in Nat /\ Len(socket) \in Nat
      /\ need \in Nat /\ scale \in Nat /\ items \in Nat /\ left \in Nat
      /\ items > 0
  BY <1>1, ReaderNumbers DEF ReaderInv, ReaderTypeOK
<1>5. /\ piece \in Seq(Byte) /\ Len(piece) = p
      /\ piece = SubSeq(socket, received + 1, received + p)
  <2> DEFINE b == buffer'
  <2>1. \A o \in 1..p: b[o] = socket[received + o]
    BY <1>2, <1>3
  <2>2. received + p <= Len(socket)
    BY <1>2, <1>3, <1>4
  <2> HIDE DEF b
  <2>3. /\ SubSeq(b, 1, p) \in Seq(Byte) /\ Len(SubSeq(b, 1, p)) = p
        /\ SubSeq(b, 1, p) = SubSeq(socket, received + 1, received + p)
    <3>1. socket \in Seq(Byte) /\ received \in Nat /\ p \in Nat
      BY <1>3, <1>4
    <3> QED BY <2>1, <2>2, <3>1, FrontOfWindow
  <2> QED BY <2>3 DEF b
<1> HIDE DEF piece
<1>6. part \in Seq(Byte) /\ Len(part) = Len(rv) + p
  BY <1>4, <1>5, ConcatProperties
<1>7. taken \o part = SubSeq(socket, 1, received + p)
  <2>1. received - Unread = received
    BY <1>1, <1>4 DEF Unread
  <2>2. taken \o rv = SubSeq(socket, 1, received)
    BY <1>1, <2>1 DEF ReaderInv
  <2>3. received + p <= Len(socket)
    BY <1>2, <1>3, <1>4
  <2>4. SubSeq(socket, 1, received) \o piece = SubSeq(socket, 1, received + p)
    BY <1>3, <1>4, <1>5, <2>3, PrefixExtends
  <2>5. (taken \o rv) \o piece = taken \o (rv \o piece)
    <3>1. taken \in Seq(Byte) /\ rv \in Seq(Byte) /\ piece \in Seq(Byte)
      BY <1>4, <1>5
    <3> QED BY <3>1, ConcatAssociative, SMT
  <2> QED BY <2>2, <2>4, <2>5
<1> HIDE DEF part
<1>8. received + n \in 0..Len(socket) /\ n \in 0..BufSize /\ n <= received + n
      /\ (received + n) - n = received
      /\ (received + n) - (n - p) = received + p
      /\ (received + n) - 0 = received + n
  BY <1>2, <1>3, <1>4, BufSizeAssumption
<1>9. \A o \in 1..size': buffer'[o] = socket'[received' - size' + o]
  BY <1>1, <1>2, <1>8
<1>10. position' <= size' /\ size' <= received'
  BY <1>1, <1>2, <1>3, <1>8
<1>11. CASE Len(part) = need
  <2>1. /\ op' \in {"none", "length"}
        /\ op' = "length" => items' > 0
        /\ items' \in Nat /\ need' \in Nat /\ scale' \in Nat
        /\ rv' = <<>> /\ rv' \in Seq(Byte)
        /\ taken' \in Seq(Byte) /\ results' \in Seq(Seq(Byte))
        /\ taken' \o rv' = taken \o part
    BY <1>1, <1>4, <1>6, <1>11, EndStringKeeps DEF ReaderInv
  <2>2. ReaderTypeOK'
    BY <1>1, <1>2, <1>3, <1>4, <1>8, <2>1 DEF ReaderTypeOK, Op
  <2>3. received' - Unread' = received + p
    BY <1>1, <1>2, <1>8, <2>1 DEF Unread
  <2> QED BY <1>1, <1>7, <1>9, <1>10, <2>1, <2>2, <2>3, Assemble
<1>12. CASE Len(part) # need
  <2>1. /\ op' = "rest" /\ rv' = part
        /\ UNCHANGED <<items, need, scale, taken, results>>
    BY <1>1, <1>12
  <2>2. p = n /\ Len(rv') < need'
    <3>1. Len(rv) \in Nat /\ Len(part) = Len(rv) + p /\ Len(part) # need
      BY <1>6, <1>12, ReaderNumbers
    <3>2. Len(rv) + p # need
      BY <3>1
    <3>3. p \in Nat /\ p = n /\ Len(rv) + p <= need
      BY <1>3, <3>2
    <3>4. Len(rv) + p < need
      BY <1>4, <3>1, <3>2, <3>3
    <3>5. Len(part) < need
      BY <3>1, <3>4
    <3> QED BY <2>1, <3>3, <3>5
  <2>3. ReaderTypeOK'
    <3>1. results \in Seq(Seq(Byte))
      BY DEF ReaderInv, ReaderTypeOK
    <3> QED BY <1>1, <1>2, <1>3, <1>4, <1>6, <1>8, <2>1, <3>1 DEF ReaderTypeOK, Op
  <2>4. received' - Unread' = received + p
    BY <1>2, <1>8, <2>1, <2>2 DEF Unread
  <2> QED BY <1>1, <1>4, <1>7, <1>9, <1>10, <2>1, <2>2, <2>3, <2>4, Assemble
<1> QED BY <1>11, <1>12

-----------------------------------------------------------------------------
(* failures, arrivals, and the theorem *)

\* A reader that has failed used up nothing more (bufferedreader.pyx:237-241).
LEMMA ReadFailsKeeps ==
  ASSUME ReaderInv, ReadFails
  PROVE  ReaderInv'
<1>1. /\ op' = "failed" /\ size' \in {size, 0}
      /\ UNCHANGED <<socket, buffer, position, received, left, items, need, scale,
                     rv, taken, results>>
  BY DEF ReadFails
<1>2. size' <= received' /\ size' \in 0..BufSize
  BY <1>1, ReaderNumbers, BufSizeAssumption
<1>3. ReaderTypeOK'
  BY <1>1, <1>2 DEF ReaderInv, ReaderTypeOK, Op
<1>4. ReadInOrder'
  BY <1>1 DEF ReaderInv, ReadInOrder
<1> QED BY <1>1, <1>2, <1>3, <1>4 DEF ReaderInv, InBounds

\* The other side may send at any time.
LEMMA ArriveKeeps ==
  ASSUME ReaderInv, Arrive
  PROVE  ReaderInv'
<1>1. PICK bytes \in Seq(Byte): socket' = socket \o bytes
  BY DEF Arrive
<1>2. UNCHANGED <<buffer, position, size, received, op, left, items, need, scale,
                  rv, taken, results>>
  BY DEF Arrive, readerVars
<1>3. socket \in Seq(Byte) /\ Len(socket) \in Nat
  BY DEF ReaderInv, ReaderTypeOK
<1>4. /\ socket' \in Seq(Byte) /\ Len(socket') \in Nat /\ Len(socket) <= Len(socket')
      /\ \A i \in 1..Len(socket): socket'[i] = socket[i]
      /\ \A k \in 0..Len(socket): SubSeq(socket', 1, k) = SubSeq(socket, 1, k)
  BY <1>1, <1>3, LongerStream
<1>5. ReaderTypeOK'
  <2>1. received \in 0..Len(socket')
    BY <1>3, <1>4, ReaderNumbers
  <2> QED BY <1>2, <1>4, <2>1 DEF ReaderInv, ReaderTypeOK
<1>6. CASE op = "failed"
  <2>1. Len(taken \o rv) \in 0..Len(socket)
    <3>1. taken \o rv \in Seq(Byte) /\ Len(taken \o rv) <= Len(socket)
      BY ConcatProperties DEF ReaderInv, ReaderTypeOK, ReadInOrder
    <3>2. Len(taken \o rv) \in Nat
      BY <3>1
    <3> QED BY <1>3, <3>1, <3>2
  <2>2. ReadInOrder'
    BY <1>2, <1>4, <2>1 DEF ReaderInv, ReadInOrder
  <2> QED BY <1>2, <1>5, <1>6, <2>2 DEF ReaderInv, InBounds
<1>7. CASE op # "failed"
  <2>1. /\ position <= size /\ size <= received
        /\ received - Unread \in 0..Len(socket)
    <3>1. Unread = IF op = "rest" THEN 0 ELSE size - position
      BY DEF Unread
    <3>2. received - (size - position) \in 0..Len(socket) /\ received - 0 \in 0..Len(socket)
      BY <1>7, ReaderNumbers, Between
    <3> QED BY <1>7, <3>1, <3>2, ReaderNumbers
  <2>2. taken \o rv = SubSeq(socket', 1, received - Unread)
    BY <1>4, <1>7, <2>1 DEF ReaderInv
  <2>3. received' - Unread' = received - Unread
    BY <1>2 DEF Unread
  <2>4. \A o \in 1..size: buffer[o] = socket'[received - size + o]
    <3> TAKE o \in 1..size
    <3>1. received - size + o \in 1..Len(socket)
      BY ReaderNumbers
    <3> QED BY <1>4, <1>7, <3>1 DEF ReaderInv
  <2> QED BY <1>2, <1>5, <1>7, <2>1, <2>2, <2>3, <2>4, Assemble DEF ReaderInv
<1> QED BY <1>6, <1>7

\* Every step of a reader, and of whoever writes to it, keeps the invariant
\* (bufferedreader.pyx:26-178).
LEMMA ReaderStepKeeps ==
  ASSUME ReaderInv, [ReaderNext \/ Arrive]_<<readerVars, socket>>
  PROVE  ReaderInv'
<1>1. CASE ReaderNext
  <2>1. CASE \E n \in Nat: ReadBuffered(n) \/ ReadLoop(n) \/ ReadStrings(n)
    BY <2>1, ReadBufferedKeeps, ReadLoopKeeps, ReadStringsKeeps
  <2>2. CASE ReadOne
    BY <2>2, ReadOneKeeps
  <2>3. CASE ReaderProceeds
    <3>1. CASE CopyBytes \/ ReturnBytes \/ TakeOne
      BY <3>1, CopyBytesKeeps, ReturnBytesKeeps, TakeOneKeeps
    <3>2. CASE LengthByte \/ StringInBuffer \/ StringCut
      BY <3>2, LengthByteKeeps, StringInBufferKeeps, StringCutKeeps
    <3>3. CASE \E n \in 1..BufSize: Refill(n) \/ StringRest(n)
      BY <3>3, RefillKeeps, StringRestKeeps
    <3> QED BY <2>3, <3>1, <3>2, <3>3 DEF ReaderProceeds
  <2>4. CASE ReadFails
    BY <2>4, ReadFailsKeeps
  <2> QED BY <1>1, <2>1, <2>2, <2>3, <2>4 DEF ReaderNext
<1>2. CASE Arrive
  BY <1>2, ArriveKeeps
<1>3. CASE UNCHANGED <<readerVars, socket>>
  BY <1>3 DEF readerVars, ReaderInv, ReaderTypeOK, InBounds, ReadInOrder, Unread
<1> QED BY <1>1, <1>2, <1>3

\* Whatever is asked of a reader, whatever is sent to it and however recv_into
\* cuts that, its invariant holds (bufferedreader.pyx:15-241).
THEOREM ReaderInvariant == ReaderSpec => []ReaderInv
<1>1. socket = <<>> /\ ReaderInit => ReaderInv
  BY ReaderInitInvariant
<1>2. ReaderInv /\ [ReaderNext \/ Arrive]_<<readerVars, socket>> => ReaderInv'
  BY ReaderStepKeeps
<1> QED BY <1>1, <1>2, PTL DEF ReaderSpec

\* In particular the bytes its calls have used up are a prefix of the stream:
\* none is lost, repeated or out of order; and no byte of the buffer is looked at
\* that recv_into has not given (bufferedreader.pyx:26-178).
THEOREM ReaderInOrder == ReaderSpec => [](ReadInOrder /\ InBounds)
<1>1. ReaderInv => ReadInOrder /\ InBounds
  BY DEF ReaderInv
<1> QED BY <1>1, ReaderInvariant, PTL

-----------------------------------------------------------------------------
(* The writer *)

\* Nothing written yet (bufferedwriter.pyx:15-23).
LEMMA WriterInitInvariant == socket = <<>> /\ WriterInit => WriterInv
<1> SUFFICES ASSUME socket = <<>>, WriterInit PROVE WriterInv
  OBVIOUS
<1>1. /\ socket \in Seq(Byte) /\ data \in Seq(Byte) /\ accepted \in Seq(Byte)
      /\ Len(data) = 0 /\ Len(accepted) = 0 /\ done = 0 /\ outPosition = 0
      /\ writing = "none" /\ socket = <<>> /\ accepted = <<>>
  BY DEF WriterInit
<1>2. outBuffer \in [1..BufSize -> Byte] /\ outPosition \in 0..BufSize
  BY FlagAssumption, BufSizeAssumption DEF WriterInit, Byte
<1>3. SubSeq(outBuffer, 1, 0) = <<>> /\ SubSeq(accepted, 1, 0) = <<>>
  BY SubSeqEmpty
<1>4. SentInOrder
  <2>1. Len(accepted) - (Len(data) - done) = 0
    BY <1>1
  <2>2. socket \o <<>> = <<>>
    BY <1>1
  <2> QED BY <1>1, <1>3, <2>1, <2>2 DEF SentInOrder
<1> QED BY <1>1, <1>2, <1>4 DEF WriterInv, WriterTypeOK

\* What the invariant says of the numbers, and of the bytes that wait in the
\* buffer.
LEMMA WriterNumbers ==
  ASSUME WriterInv
  PROVE  /\ socket \in Seq(Byte) /\ data \in Seq(Byte) /\ accepted \in Seq(Byte)
         /\ Len(socket) \in Nat /\ Len(data) \in Nat /\ Len(accepted) \in Nat
         /\ done \in Nat /\ done <= Len(data) /\ Len(data) <= Len(accepted)
         /\ outPosition \in Nat /\ outPosition <= BufSize /\ BufSize \in Nat
         /\ SubSeq(outBuffer, 1, outPosition) \in Seq(Byte)
         /\ Len(SubSeq(outBuffer, 1, outPosition)) = outPosition
<1>1. /\ outBuffer \in [1..BufSize -> Byte]
      /\ outPosition \in Nat /\ outPosition <= BufSize /\ BufSize \in Nat
  BY BufSizeAssumption DEF WriterInv, WriterTypeOK
<1>2. \A i \in 1..outPosition: outBuffer[i] \in Byte
  BY <1>1
<1>3. /\ SubSeq(outBuffer, 1, outPosition) \in Seq(Byte)
      /\ Len(SubSeq(outBuffer, 1, outPosition))
           = IF 1 <= outPosition THEN outPosition - 1 + 1 ELSE 0
  BY <1>1, <1>2, SubSeqProperties
<1> QED BY <1>1, <1>3 DEF WriterInv, WriterTypeOK

\* write() is called: what was accepted so far is sent or buffered
\* (bufferedwriter.pyx:31-34).
LEMMA WriteKeeps ==
  ASSUME WriterInv, NEW bytes \in Seq(Byte), Write(bytes)
  PROVE  WriterInv'
<1>1. /\ writing = "none" /\ writing' = "data" /\ data' = bytes /\ done' = 0
      /\ accepted' = accepted \o bytes
      /\ UNCHANGED <<socket, outBuffer, outPosition>>
  BY DEF Write
<1>2. /\ accepted \in Seq(Byte) /\ Len(accepted) \in Nat /\ Len(bytes) \in Nat
      /\ Len(data) \in Nat
  BY WriterNumbers
<1>3. /\ accepted \o bytes \in Seq(Byte)
      /\ Len(accepted \o bytes) = Len(accepted) + Len(bytes)
      /\ \A i \in 1..(Len(accepted) + Len(bytes)):
           (accepted \o bytes)[i] = IF i <= Len(accepted) THEN accepted[i]
                                    ELSE bytes[i - Len(accepted)]
  BY <1>2, ConcatProperties
<1>4. WriterTypeOK'
  BY <1>1, <1>2, <1>3 DEF WriterInv, WriterTypeOK
<1>5. \A i \in 1..Len(bytes):
        bytes[i] = (accepted \o bytes)[Len(accepted) + Len(bytes) - Len(bytes) + i]
  <2> TAKE i \in 1..Len(bytes)
  <2>1. /\ Len(accepted) + Len(bytes) - Len(bytes) + i = Len(accepted) + i
        /\ Len(accepted) + i \in 1..(Len(accepted) + Len(bytes))
        /\ ~(Len(accepted) + i <= Len(accepted)) /\ Len(accepted) + i - Len(accepted) = i
    BY <1>2
  <2> QED BY <1>3, <2>1
<1>6. socket \o SubSeq(outBuffer, 1, outPosition) = SubSeq(accepted, 1, Len(accepted))
  <2>1. done = Len(data)
    BY <1>1 DEF WriterInv
  <2>2. Len(accepted) - (Len(data) - done) = Len(accepted)
    BY <1>2, <2>1
  <2> QED BY <1>1, <2>2 DEF WriterInv, SentInOrder
<1>7. SubSeq(accepted \o bytes, 1, Len(accepted)) = SubSeq(accepted, 1, Len(accepted))
  <2>1. Len(accepted) \in 0..Len(accepted)
    BY <1>2
  <2> QED BY <1>2, <2>1, LongerStream
<1>8. SentInOrder'
  <2>1. Len(accepted') - (Len(data') - done') = Len(accepted)
    <3>1. Len(accepted) + Len(bytes) - (Len(bytes) - 0) = Len(accepted)
      BY <1>2
    <3> QED BY <1>1, <1>3, <3>1
  <2> QED BY <1>1, <1>6, <1>7, <2>1 DEF SentInOrder
<1>9. Len(data') <= Len(accepted')
  BY <1>1, <1>2, <1>3
<1>10. \A i \in 1..Len(data'): data'[i] = accepted'[Len(accepted') - Len(data') + i]
  BY <1>1, <1>3, <1>5
<1> QED BY <1>1, <1>4, <1>8, <1>9, <1>10 DEF WriterInv

\* A turn of the loop moves the next bytes of its argument behind those that wait
\* (bufferedwriter.pyx:36-44).
LEMMA CopyInKeeps ==
  ASSUME WriterInv, CopyIn
  PROVE  WriterInv'
<1> DEFINE n == Least(Len(data) - done, BufSize - outPosition)
           piece == SubSeq(data, done + 1, done + n)
           base == Len(accepted) - Len(data)
<1>1. /\ writing = "data" /\ done < Len(data) /\ outPosition < BufSize
      /\ outBuffer' = [o \in 1..BufSize |->
                         IF o \in outPosition + 1 .. outPosition + n
                           THEN data[done + o - outPosition] ELSE outBuffer[o]]
      /\ outPosition' = outPosition + n /\ done' = done + n
      /\ UNCHANGED <<socket, writing, data, accepted>>
  BY DEF CopyIn
<1>2. /\ socket \in Seq(Byte) /\ data \in Seq(Byte) /\ accepted \in Seq(Byte)
      /\ Len(data) \in Nat /\ Len(accepted) \in Nat
      /\ done \in Nat /\ done <= Len(data) /\ Len(data) <= Len(accepted)
      /\ outPosition \in Nat /\ outPosition <= BufSize /\ BufSize \in Nat
      /\ outBuffer \in [1..BufSize -> Byte]
  BY WriterNumbers DEF WriterInv, WriterTypeOK
<1>3. n \in Nat /\ done + n <= Len(data) /\ outPosition + n <= BufSize
  BY <1>1, <1>2 DEF Least
<1>4. base \in Nat /\ base + done = Len(accepted) - (Len(data) - done)
      /\ base + done + n = Len(accepted) - (Len(data) - (done + n))
      /\ base + done + n <= Len(accepted)
  BY <1>2, <1>3
<1> HIDE DEF n
<1>5. /\ outBuffer' \in [1..BufSize -> Byte]
      /\ SubSeq(outBuffer', 1, outPosition + n)
           = SubSeq(outBuffer, 1, outPosition) \o piece
  <2> DEFINE new == outBuffer'
  <2>1. new = [o \in 1..BufSize |->
                 IF o \in outPosition + 1 .. outPosition + n
                   THEN data[done + o - outPosition] ELSE outBuffer[o]]
    BY <1>1
  <2>2. new \in [1..BufSize -> Byte]
    <3> SUFFICES ASSUME NEW o \in 1..BufSize
                 PROVE  (IF o \in outPosition + 1 .. outPosition + n
                           THEN data[done + o - outPosition] ELSE outBuffer[o]) \in Byte
      BY <2>1
    <3>1. o \in outPosition + 1 .. outPosition + n
            => done + o - outPosition \in 1..Len(data)
      BY <1>2, <1>3
    <3> QED BY <1>2, <3>1
  <2>3. \A i \in 1..outPosition: new[i] = outBuffer[i]
    <3> TAKE i \in 1..outPosition
    <3>1. i \in 1..BufSize /\ i \notin outPosition + 1 .. outPosition + n
      BY <1>2, <1>3
    <3> QED BY <2>1, <3>1
  <2>4. \A i \in 1..n: new[outPosition + i] = data[done + i]
    <3> TAKE i \in 1..n
    <3>1. /\ outPosition + i \in 1..BufSize
          /\ outPosition + i \in outPosition + 1 .. outPosition + n
          /\ done + (outPosition + i) - outPosition = done + i
      BY <1>2, <1>3
    <3> QED BY <2>1, <3>1
  <2> HIDE DEF new
  <2>5. /\ new \in Seq(Byte) /\ Len(new) = BufSize
        /\ outBuffer \in Seq(Byte) /\ Len(outBuffer) = BufSize
    BY <1>2, <2>2, BufferIsSequence
  <2>6. SubSeq(new, 1, outPosition) = SubSeq(outBuffer, 1, outPosition)
    BY <1>2, <2>3, <2>5, EqualPrefixes
  <2>7. SubSeq(new, outPosition + 1, outPosition + n) = SubSeq(data, done + 1, done + n)
    <3>1. /\ data \in Seq(Byte) /\ outPosition \in Nat /\ done \in Nat /\ n \in Nat
          /\ done + n <= Len(data)
      BY <1>2, <1>3
    <3>2. outPosition + n <= Len(new)
      BY <1>3, <2>5
    <3>3. new \in Seq(Byte) /\ \A i \in 1..n: new[outPosition + i] = data[done + i]
      BY <2>4, <2>5
    <3> HIDE DEF piece, base
    <3> QED BY <3>1, <3>2, <3>3, EqualSlices
  <2>8. SubSeq(new, 1, outPosition) \o SubSeq(new, outPosition + 1, outPosition + n)
          = SubSeq(new, 1, outPosition + n)
    BY <1>2, <1>3, <2>5, PrefixExtends
  <2> QED BY <2>2, <2>6, <2>7, <2>8 DEF new
<1>6. piece \in Seq(Byte) /\ piece = SubSeq(accepted, base + done + 1, base + done + n)
  <2>1. \A i \in 1..(done + n): data[i] = accepted[base + i]
    BY <1>2, <1>3 DEF WriterInv
  <2> HIDE DEF base
  <2> QED BY SMTT(20), <1>2, <1>3, <1>4, <2>1, SliceOfWindow
<1> HIDE DEF piece
<1>7. socket \o SubSeq(outBuffer, 1, outPosition) = SubSeq(accepted, 1, base + done)
  BY <1>1, <1>4 DEF WriterInv, SentInOrder
<1>8. SubSeq(accepted, 1, base + done) \o piece = SubSeq(accepted, 1, base + done + n)
  <2> DEFINE k == base + done
  <2>1. k \in Nat /\ k + n <= Len(accepted)
    BY <1>2, <1>4
  <2> HIDE DEF k
  <2>2. SubSeq(accepted, 1, k) \o SubSeq(accepted, k + 1, k + n) = SubSeq(accepted, 1, k + n)
    BY <1>2, <1>3, <2>1, PrefixExtends
  <2> QED BY <1>6, <2>2 DEF k
<1>9. socket \o (SubSeq(outBuffer, 1, outPosition) \o piece)
        = (socket \o SubSeq(outBuffer, 1, outPosition)) \o piece
  <2> DEFINE x == SubSeq(outBuffer, 1, outPosition)
  <2>1. socket \in Seq(Byte) /\ x \in Seq(Byte) /\ piece \in Seq(Byte)
    BY <1>2, <1>6, WriterNumbers
  <2> HIDE DEF x
  <2>2. socket \o (x \o piece) = (socket \o x) \o piece
    BY <2>1, ConcatAssociative, SMT
  <2> QED BY <2>2 DEF x
<1>10. SentInOrder'
  <2>1. Len(accepted') - (Len(data') - done') = base + done + n
    BY <1>1, <1>4
  <2> QED BY <1>1, <1>5, <1>7, <1>8, <1>9, <2>1 DEF SentInOrder
<1>11. WriterTypeOK'
  <2>1. outPosition' \in 0..BufSize /\ done' \in 0..Len(data')
    <3>1. outPosition + n \in 0..BufSize /\ done + n \in 0..Len(data)
      BY <1>2, <1>3
    <3> QED BY <1>1, <3>1
  <2> QED BY <1>1, <1>2, <1>5, <2>1 DEF WriterInv, WriterTypeOK
<1> QED BY <1>1, <1>10, <1>11 DEF WriterInv

\* write_into_stream sends what waits and nothing else
\* (bufferedwriter.pyx:46-47, 127-131).
LEMMA SendKeeps ==
  ASSUME WriterInv, writing # "failed", WriteIntoStream,
         UNCHANGED <<outBuffer, writing, data, done, accepted>>
  PROVE  WriterInv'
<1> DEFINE x == SubSeq(outBuffer, 1, outPosition)
<1>1. socket' = socket \o x /\ outPosition' = 0
  BY DEF WriteIntoStream
<1>2. socket \in Seq(Byte) /\ x \in Seq(Byte) /\ 0 \in 0..BufSize
  BY WriterNumbers, BufSizeAssumption
<1>3. socket \o x = SubSeq(accepted, 1, Len(accepted) - (Len(data) - done))
  BY DEF WriterInv, SentInOrder
<1> HIDE DEF x
<1>4. socket' \in Seq(Byte) /\ socket' \o <<>> = socket'
  <2>1. socket \o x \in Seq(Byte)
    BY <1>2, ConcatProperties
  <2> QED BY <1>1, <2>1, ConcatEmptySeq
<1>5. SubSeq(outBuffer', 1, outPosition') = <<>>
  BY <1>1, SubSeqEmpty
<1>6. WriterTypeOK'
  BY <1>1, <1>2, <1>4 DEF WriterInv, WriterTypeOK
<1>7. SentInOrder'
  BY <1>1, <1>3, <1>4, <1>5 DEF SentInOrder
<1> QED BY <1>6, <1>7 DEF WriterInv

\* A write that has copied all its bytes returns (bufferedwriter.pyx:36).
LEMMA EndWriteKeeps ==
  ASSUME WriterInv, EndWrite
  PROVE  WriterInv'
BY DEF EndWrite, WriterInv, WriterTypeOK, SentInOrder

\* sendall that raises has sent a part of what waited (bufferedwriter.pyx:127-131).
LEMMA WriteFailsKeeps ==
  ASSUME WriterInv, WriteFails
  PROVE  WriterInv'
<1> DEFINE x == SubSeq(outBuffer, 1, outPosition)
           m == Len(accepted) - (Len(data) - done)
<1>1. /\ writing # "failed" /\ writing' = "failed"
      /\ UNCHANGED <<outBuffer, outPosition, data, done, accepted>>
  BY DEF WriteFails
<1>2. PICK n \in 0..outPosition: socket' = socket \o SubSeq(outBuffer, 1, n)
  BY DEF WriteFails
<1>3. /\ socket \in Seq(Byte) /\ x \in Seq(Byte) /\ Len(x) = outPosition
      /\ accepted \in Seq(Byte) /\ outPosition \in Nat /\ outPosition <= BufSize
      /\ m \in 0..Len(accepted) /\ BufSize \in Nat /\ Len(socket) \in Nat
      /\ Len(accepted) \in Nat
  BY WriterNumbers
<1>4. socket \o x = SubSeq(accepted, 1, m)
  BY <1>1 DEF WriterInv, SentInOrder
<1>5. SubSeq(outBuffer, 1, n) = SubSeq(x, 1, n)
  <2>1. outBuffer \in [1..BufSize -> Byte]
    BY DEF WriterInv, WriterTypeOK
  <2>2. \A i \in 1..n: outBuffer[i] \in Byte /\ x[i] = outBuffer[i]
    BY <1>3, <2>1
  <2>3. /\ SubSeq(outBuffer, 1, n) \in Seq(Byte)
        /\ Len(SubSeq(outBuffer, 1, n)) = IF 1 <= n THEN n - 1 + 1 ELSE 0
        /\ \A i \in 1..(n - 1 + 1): SubSeq(outBuffer, 1, n)[i] = outBuffer[1 + i - 1]
    BY <1>3, <2>2, SubSeqProperties
  <2>4. n \in 0..Len(x) /\ n \in Nat
    BY <1>3
  <2> HIDE DEF x
  <2>5. SubSeq(x, 1, n) \in Seq(Byte) /\ Len(SubSeq(x, 1, n)) = n
    BY <1>3, <2>4, PrefixLength
  <2>6. \A i \in 1..n: SubSeq(x, 1, n)[i] = x[i] /\ SubSeq(outBuffer, 1, n)[i] = outBuffer[i]
    BY <2>3, <2>4
  <2>7. Len(SubSeq(outBuffer, 1, n)) = n
    BY <2>3, <2>4
  <2> QED BY <2>2, <2>3, <2>5, <2>6, <2>7, SeqEqual
<1> HIDE DEF x, m
<1>6. /\ socket' \in Seq(Byte) /\ Len(socket') = Len(socket) + n
      /\ Len(socket) + n <= Len(socket \o x)
      /\ socket' = SubSeq(socket \o x, 1, Len(socket) + n)
  <2>1. n \in 0..Len(x)
    BY <1>3
  <2>2. /\ socket \o SubSeq(x, 1, n) \in Seq(Byte)
        /\ Len(socket \o SubSeq(x, 1, n)) = Len(socket) + n
        /\ Len(socket) + n <= Len(socket \o x)
        /\ socket \o SubSeq(x, 1, n) = SubSeq(socket \o x, 1, Len(socket) + n)
    BY <1>3, <2>1, PrefixOfConcat
  <2> QED BY <1>2, <1>5, <2>2
<1>7. Len(socket') \in Nat /\ Len(socket') <= m /\ Len(socket') \in 0..m
  <2>1. Len(SubSeq(accepted, 1, m)) = m
    BY <1>3, PrefixLength
  <2>2. Len(socket) + n \in Nat /\ Len(socket) + n <= m
    BY <1>3, <1>4, <1>6, <2>1
  <2>3. Len(socket) + n \in 0..m
    BY <1>3, <2>2
  <2> QED BY <1>6, <2>2, <2>3
<1>8. socket' = SubSeq(accepted, 1, Len(socket'))
  <2> DEFINE k == Len(socket')
  <2>1. k \in 0..m
    BY <1>7
  <2>2. socket' = SubSeq(SubSeq(accepted, 1, m), 1, k)
    BY <1>4, <1>6
  <2> HIDE DEF k
  <2>3. SubSeq(SubSeq(accepted, 1, m), 1, k) = SubSeq(accepted, 1, k)
    BY <1>3, <2>1, PrefixOfPrefix
  <2> QED BY <2>2, <2>3 DEF k
<1>9. Len(socket') <= Len(accepted')
  <2>1. m \in Nat /\ m <= Len(accepted)
    BY <1>3
  <2>2. \A k \in Nat: k <= m => k <= Len(accepted)
    BY <1>3, <2>1
  <2> QED BY <1>1, <1>7, <2>2
<1>10. SentInOrder'
  BY <1>1, <1>8, <1>9 DEF SentInOrder
<1>11. WriterTypeOK'
  BY <1>1, <1>6 DEF WriterInv, WriterTypeOK
<1> QED BY <1>1, <1>10, <1>11 DEF WriterInv

\* Every step of a writer keeps the invariant (bufferedwriter.pyx:31-47).
LEMMA WriterStepKeeps ==
  ASSUME WriterInv, [WriterNext]_<<writerVars, socket>>
  PROVE  WriterInv'
<1>1. CASE \E bytes \in Seq(Byte): Write(bytes)
  BY <1>1, WriteKeeps
<1>2. CASE CopyIn
  BY <1>2, CopyInKeeps
<1>3. CASE FlushFull
  BY <1>3, SendKeeps DEF FlushFull
<1>4. CASE EndWrite
  BY <1>4, EndWriteKeeps
<1>5. CASE Flush
  BY <1>5, SendKeeps DEF Flush
<1>6. CASE WriteFails
  BY <1>6, WriteFailsKeeps
<1>7. CASE UNCHANGED <<writerVars, socket>>
  BY <1>7 DEF writerVars, WriterInv, WriterTypeOK, SentInOrder
<1> QED BY <1>1, <1>2, <1>3, <1>4, <1>5, <1>6, <1>7 DEF WriterNext, WriterProceeds

\* Whatever is written in whatever pieces, its bytes are on the socket and in the
\* buffer in order, none twice and none left out (bufferedwriter.pyx:15-47).
THEOREM WriterInvariant == WriterSpec => []WriterInv
<1>1. WriterInv /\ [WriterNext]_<<writerVars, socket>> => WriterInv'
  BY WriterStepKeeps
<1> QED BY <1>1, WriterInitInvariant, PTL DEF WriterSpec

-----------------------------------------------------------------------------
(* The channel *)

\* To a reader, a writer is whoever sends (bufferedwriter.pyx:127-131).
LEMMA WriterSends ==
  ASSUME WriterInv, WriterNext
  PROVE  \E bytes \in Seq(Byte): socket' = socket \o bytes
<1>1. CASE UNCHANGED socket
  <2>1. socket \o <<>> = socket /\ <<>> \in Seq(Byte)
    BY WriterNumbers, ConcatEmptySeq
  <2> QED BY <1>1, <2>1
<1>2. CASE FlushFull \/ Flush
  BY <1>2, WriterNumbers DEF FlushFull, Flush, WriteIntoStream
<1>3. CASE WriteFails
  <2>1. PICK n \in 0..outPosition: socket' = socket \o SubSeq(outBuffer, 1, n)
    BY <1>3 DEF WriteFails
  <2>2. n \in Nat /\ \A i \in 1..n: outBuffer[i] \in Byte
    BY WriterNumbers DEF WriterInv, WriterTypeOK
  <2>3. SubSeq(outBuffer, 1, n) \in Seq(Byte)
    BY <2>2, FrontElements
  <2> QED BY <2>1, <2>3
<1>4. CASE \E bytes \in Seq(Byte): Write(bytes)
  BY <1>1, <1>4 DEF Write
<1>5. CASE CopyIn \/ EndWrite
  BY <1>1, <1>5 DEF CopyIn, EndWrite
<1> QED BY <1>2, <1>3, <1>4, <1>5 DEF WriterNext, WriterProceeds

\* A reader sends nothing (bufferedreader.pyx:26-241).
LEMMA ReaderDoesNotSend ==
  ASSUME ReaderNext
  PROVE  socket' = socket
BY DEF ReaderNext, ReaderProceeds, ReadBuffered, ReadLoop, ReadStrings, ReadOne,
       CopyBytes, ReturnBytes, TakeOne, LengthByte, StringInBuffer, StringCut, Refill,
       StringRest, ReadFails

\* Each end keeps its own invariant, and the other's.
LEMMA ChannelStepKeeps ==
  ASSUME ReaderInv, WriterInv, [ChannelNext]_channelVars
  PROVE  ReaderInv' /\ WriterInv'
<1>1. CASE WriterNext /\ UNCHANGED readerVars
  <2>1. Arrive
    BY <1>1, WriterSends DEF Arrive
  <2> QED BY <1>1, <2>1, ArriveKeeps, WriterStepKeeps
<1>2. CASE ReaderNext /\ UNCHANGED writerVars
  BY <1>2, ReaderDoesNotSend, ReaderStepKeeps, WriterStepKeeps DEF writerVars
<1>3. CASE UNCHANGED channelVars
  BY <1>3, ReaderStepKeeps, WriterStepKeeps DEF channelVars
<1> QED BY <1>1, <1>2, <1>3 DEF ChannelNext

\* Both invariants hold at the two ends of one socket, whatever is written and
\* whatever is read (bufferedwriter.pyx:15-47, bufferedreader.pyx:15-178).
THEOREM ChannelInvariant == ChannelSpec => [](ReaderInv /\ WriterInv)
<1>1. ChannelInit => ReaderInv /\ WriterInv
  BY ReaderInitInvariant, WriterInitInvariant DEF ChannelInit
<1>2. (ReaderInv /\ WriterInv) /\ [ChannelNext]_channelVars => (ReaderInv /\ WriterInv)'
  BY ChannelStepKeeps
<1> QED BY <1>1, <1>2, PTL DEF ChannelSpec

-----------------------------------------------------------------------------
(* the refinement of ByteStream *)

\* What a reader returns, or uses up of a length, it adds to what is used up
\* (bufferedreader.pyx:33, 52, 61, 106, 173).
LEMMA TakenGrows ==
  ASSUME ReaderInv, ReaderNext
  PROVE  \E value \in Seq(Byte): taken' = taken \o value
<1>1. taken \in Seq(Byte) /\ rv \in Seq(Byte) /\ taken \o <<>> = taken /\ <<>> \in Seq(Byte)
  BY ConcatEmptySeq DEF ReaderInv, ReaderTypeOK
<1>2. CASE UNCHANGED taken
  BY <1>1, <1>2
<1>3. ASSUME NEW n \in Nat, ReadBuffered(n)
      PROVE  \E value \in Seq(Byte): taken' = taken \o value
  <2> DEFINE piece == SubSeq(buffer, position + 1, position + n)
  <2>1. op = "none" /\ position + n <= size /\ taken' = taken \o piece
    BY SMTT(20), <1>3, ReaderNumbers DEF ReadBuffered, Return
  <2>2. piece \in Seq(Byte)
    BY <2>1, ConsumeAtOnce
  <2> QED BY <2>1, <2>2
<1>4. CASE ReturnBytes
  BY <1>1, <1>4 DEF ReturnBytes, Return
<1>5. CASE TakeOne \/ LengthByte
  <2> DEFINE b == buffer[position + 1]
  <2>1. position + 1 \in 1..BufSize
    BY <1>5, ReaderNumbers, BufSizeAssumption DEF TakeOne, LengthByte
  <2>2. b \in Byte
    BY <2>1 DEF ReaderInv, ReaderTypeOK
  <2>3. taken' = taken \o <<b>>
    <3>1. taken' = taken \o <<b>> \/ taken' = Append(taken, b)
      BY <1>5 DEF TakeOne, LengthByte, Return
    <3> HIDE DEF b
    <3>2. Append(taken, b) = taken \o <<b>>
      BY <1>1, <2>2, AppendIsConcat
    <3> QED BY <3>1, <3>2
  <2> HIDE DEF b
  <2>4. <<b>> \in Seq(Byte)
    BY <2>2
  <2> QED BY <2>3, <2>4
<1>6. CASE StringInBuffer
  <2> DEFINE piece == SubSeq(buffer, position + 1, position + need)
  <2>1. op = "string" /\ position + need <= size /\ taken' = taken \o piece /\ need \in Nat
    BY <1>6, ReaderNumbers DEF StringInBuffer, EndString, Return
  <2>2. piece \in Seq(Byte)
    BY <2>1, ConsumeAtOnce
  <2> QED BY <2>1, <2>2
<1>7. ASSUME NEW n \in 1..BufSize, StringRest(n)
      PROVE  \E value \in Seq(Byte): taken' = taken \o value
  <2> DEFINE p == Least(need - Len(rv), n)
             piece == SubSeq(buffer', 1, p)
  <2>1. op = "rest" /\ ReadIntoBuffer(n) /\ socket' = socket
    BY <1>7, ReaderDoesNotSend DEF StringRest
  <2>2. n \in Nat /\ n <= BufSize /\ buffer' \in [1..BufSize -> Byte]
    BY <2>1, NewWindow
  <2>3. p \in Nat /\ p <= n
    <3>1. Len(rv) < need /\ Len(rv) \in Nat /\ need \in Nat
      BY <2>1, ReaderNumbers DEF ReaderInv
    <3> QED BY <2>2, <3>1, LeastPart
  <2>4. taken' = taken \o (rv \o piece) \/ taken' = taken
    BY <1>7 DEF StringRest, EndString, Return
  <2> HIDE DEF p
  <2>5. \A i \in 1..p: buffer'[i] \in Byte
    <3>1. \A i \in 1..p: i \in 1..BufSize
      BY <2>2, <2>3, BufSizeAssumption
    <3> QED BY <2>2, <3>1
  <2>6. piece \in Seq(Byte)
    BY <2>3, <2>5, FrontElements
  <2> HIDE DEF piece
  <2>7. rv \o piece \in Seq(Byte)
    BY <1>1, <2>6, ConcatProperties
  <2> QED BY <1>1, <2>4, <2>7
<1>8. ASSUME NEW n \in Nat, ReadLoop(n) \/ ReadStrings(n)
      PROVE  UNCHANGED taken
  BY <1>8 DEF ReadLoop, ReadStrings
<1>9. CASE ReadOne \/ CopyBytes \/ StringCut \/ ReadFails
  BY <1>2, <1>9 DEF ReadOne, CopyBytes, StringCut, ReadFails
<1>10. ASSUME NEW n \in 1..BufSize, Refill(n)
       PROVE  UNCHANGED taken
  BY <1>10 DEF Refill
<1> QED BY <1>2, <1>3, <1>4, <1>5, <1>6, <1>7, <1>8, <1>9, <1>10
        DEF ReaderNext, ReaderProceeds

\* What is on the socket is a prefix of what the writer was given.
LEMMA SentIsPrefix ==
  ASSUME WriterInv
  PROVE  Len(socket) <= Len(accepted) /\ socket = SubSeq(accepted, 1, Len(socket))
<1>1. CASE writing = "failed"
  BY <1>1 DEF WriterInv, SentInOrder
<1>2. CASE writing # "failed"
  <2> DEFINE x == SubSeq(outBuffer, 1, outPosition)
             m == Len(accepted) - (Len(data) - done)
             k == Len(socket)
  <2>1. /\ socket \in Seq(Byte) /\ x \in Seq(Byte) /\ accepted \in Seq(Byte)
        /\ k \in Nat /\ m \in 0..Len(accepted) /\ Len(accepted) \in Nat
    BY WriterNumbers
  <2>2. socket \o x = SubSeq(accepted, 1, m)
    BY <1>2 DEF WriterInv, SentInOrder
  <2> HIDE DEF x, m
  <2>3. SubSeq(socket \o x, 1, k) = socket /\ k <= Len(socket \o x)
    <3>1. k \in 0..Len(socket)
      BY <2>1
    <3>2. SubSeq(socket \o x, 1, k) = SubSeq(socket, 1, k) /\ k <= Len(socket \o x)
      BY <2>1, <3>1, LongerStream
    <3> QED BY <2>1, <3>2, WholePrefix
  <2>4. Len(SubSeq(accepted, 1, m)) = m
    BY <2>1, PrefixLength
  <2>5. k \in 0..m /\ m \in Nat /\ m <= Len(accepted)
    BY <2>1, <2>2, <2>3, <2>4
  <2> HIDE DEF k
  <2>6. SubSeq(SubSeq(accepted, 1, m), 1, k) = SubSeq(accepted, 1, k)
    BY <2>1, <2>5, PrefixOfPrefix
  <2>7. k <= Len(accepted)
    BY <2>1, <2>5
  <2> QED BY <2>2, <2>3, <2>6, <2>7 DEF k
<1> QED BY <1>1, <1>2

\* What is used up is a prefix of what the writer was given.
LEMMA TakenIsPrefix ==
  ASSUME ReaderInv, WriterInv
  PROVE  Stream!Prefix(taken, accepted)
<1> DEFINE used == taken \o rv
           k == Len(taken)
           l == Len(used)
           m == Len(socket)
<1>1. /\ taken \in Seq(Byte) /\ rv \in Seq(Byte) /\ accepted \in Seq(Byte)
      /\ k \in Nat /\ m \in Nat /\ Len(accepted) \in Nat
  BY WriterNumbers DEF ReaderInv, ReaderTypeOK
<1>2. l <= m /\ used = SubSeq(socket, 1, l)
  BY DEF ReaderInv, ReadInOrder
<1>3. m <= Len(accepted) /\ socket = SubSeq(accepted, 1, m)
  BY SentIsPrefix
<1>4. /\ used \in Seq(Byte) /\ l \in Nat /\ k <= l
      /\ SubSeq(used, 1, k) = taken
  <2>1. k \in 0..Len(taken)
    BY <1>1
  <2>2. used \in Seq(Byte) /\ l \in Nat /\ k <= l /\ SubSeq(used, 1, k) = SubSeq(taken, 1, k)
    BY <1>1, <2>1, LongerStream
  <2> QED BY <1>1, <2>2, WholePrefix
<1> HIDE DEF used, k, l, m
<1>5. /\ k \in 0..l /\ l \in 0..m /\ m \in 0..Len(accepted) /\ l \in 0..Len(accepted)
      /\ k <= Len(accepted)
  BY <1>1, <1>2, <1>3, <1>4
<1>6. used = SubSeq(accepted, 1, l)
  <2>1. SubSeq(SubSeq(accepted, 1, m), 1, l) = SubSeq(accepted, 1, l)
    BY <1>1, <1>5, PrefixOfPrefix
  <2> QED BY <1>2, <1>3, <2>1
<1>7. taken = SubSeq(accepted, 1, k)
  <2>1. SubSeq(SubSeq(accepted, 1, l), 1, k) = SubSeq(accepted, 1, k)
    BY <1>1, <1>5, PrefixOfPrefix
  <2> QED BY <1>4, <1>6, <2>1
<1> QED BY <1>5, <1>7 DEF Stream!Prefix, k

\* A sequence is a prefix of itself with more at the end.
LEMMA GrownPrefix ==
  ASSUME NEW s \in Seq(Byte), NEW t \in Seq(Byte)
  PROVE  Stream!Prefix(s, s \o t)
<1>1. Len(s) \in 0..Len(s)
  OBVIOUS
<1>2. Len(s) <= Len(s \o t) /\ SubSeq(s \o t, 1, Len(s)) = SubSeq(s, 1, Len(s))
  BY <1>1, LongerStream
<1> QED BY <1>2, WholePrefix DEF Stream!Prefix

\* A step of the channel accepts bytes, delivers bytes, or moves them from a
\* buffer to the socket or from there to a buffer, which the stream does not see.
LEMMA StepOfStream ==
  ASSUME ReaderInv, WriterInv, Stream!Prefix(taken, accepted)',
         [ChannelNext]_channelVars
  PROVE  [Stream!Accept \/ Stream!Deliver]_<<accepted, taken>>
<1>1. CASE WriterNext /\ UNCHANGED readerVars
  <2>1. UNCHANGED taken
    BY <1>1 DEF readerVars
  <2>2. CASE \E bytes \in Seq(Byte): Write(bytes)
    <3>1. PICK bytes \in Seq(Byte): accepted' = accepted \o bytes
      BY <2>2 DEF Write
    <3>2. Stream!Prefix(accepted, accepted')
      BY <3>1, WriterNumbers, GrownPrefix
    <3> QED BY <2>1, <3>2 DEF Stream!Accept
  <2>3. CASE WriterProceeds \/ Flush \/ WriteFails
    BY <2>1, <2>3 DEF WriterProceeds, CopyIn, FlushFull, EndWrite, Flush, WriteFails
  <2> QED BY <1>1, <2>2, <2>3 DEF WriterNext
<1>2. CASE ReaderNext /\ UNCHANGED writerVars
  <2>1. accepted' = accepted
    BY <1>2 DEF writerVars
  <2>2. PICK value \in Seq(Byte): taken' = taken \o value
    BY <1>2, TakenGrows
  <2>3. Stream!Prefix(taken, taken')
    BY <2>2, GrownPrefix DEF ReaderInv, ReaderTypeOK
  <2> QED BY <2>1, <2>3 DEF Stream!Deliver, Stream!Prefix
<1>3. CASE UNCHANGED channelVars
  BY <1>3 DEF channelVars, readerVars, writerVars
<1> QED BY <1>1, <1>2, <1>3 DEF ChannelNext

\* Writer, socket and reader implement a reliable stream of bytes, for every size
\* of the buffers, whatever is written, flushed and read, and however recv_into
\* cuts it (bufferedwriter.pyx:15-47, bufferedreader.pyx:15-178).
THEOREM ChannelImplementsStream == ChannelSpec => ImplementsByteStream
<1>1. ChannelInit => Stream!Init
  BY DEF ChannelInit, ReaderInit, WriterInit, Stream!Init
<1>2. ReaderInv /\ WriterInv => Stream!Prefix(taken, accepted)
  BY TakenIsPrefix
<1>3. /\ ReaderInv /\ WriterInv
      /\ Stream!Prefix(taken, accepted)'
      /\ [ChannelNext]_channelVars
      => [Stream!Accept \/ Stream!Deliver]_<<accepted, taken>>
  BY StepOfStream
<1> QED BY <1>1, <1>2, <1>3, ChannelInvariant, PTL
        DEF ChannelSpec, ImplementsByteStream, Stream!Spec


-----------------------------------------------------------------------------
(* varints and items *)

\* make_varint is defined (varint.pyx:5-26).
LEMMA LengthUnfolds ==
  \A n \in Nat: LengthCode[n] = IF n < Flag THEN <<n>>
                                ELSE <<(n % Flag) + Flag>> \o LengthCode[n \div Flag]
<1>1. \E f: f = [n \in Nat |-> IF n < Flag THEN <<n>>
                              ELSE <<(n % Flag) + Flag>> \o f[n \div Flag]]
  <2>1. Flag \in Nat /\ Flag > 1
    BY FlagAssumption
  <2> QED BY <2>1, DigitsExist
<1>2. LengthCode = [n \in Nat |-> IF n < Flag THEN <<n>>
                                 ELSE <<(n % Flag) + Flag>> \o LengthCode[n \div Flag]]
  BY <1>1 DEF LengthCode
<1> QED BY <1>2

\* Its digits are bytes.
LEMMA LengthIsBytes == \A n \in Nat: LengthCode[n] \in Seq(Byte)
<1> DEFINE T == {n \in Nat: LengthCode[n] \in Seq(Byte)}
<1>b. Flag \in Nat /\ Flag > 1
  BY FlagAssumption
<1>1. ASSUME NEW n \in Nat, n < Flag PROVE n \in T
  <2>1. n \in Byte
    BY <1>b, <1>1 DEF Byte
  <2>2. <<n>> \in Seq(Byte)
    BY <2>1
  <2>3. LengthCode[n] = <<n>>
    BY <1>1, LengthUnfolds
  <2> QED BY <2>2, <2>3
<1>2. ASSUME NEW n \in Nat, n >= Flag, n \div Flag \in T PROVE n \in T
  <2>1. PICK r \in 0..(Flag - 1): r = n % Flag
    BY <1>b, DigitsLeft
  <2>2. r + Flag \in Byte
    BY <1>b, <2>1 DEF Byte
  <2>3. \A b \in Byte: <<b>> \in Seq(Byte)
    OBVIOUS
  <2>4. <<r + Flag>> \in Seq(Byte)
    BY <2>2, <2>3
  <2>5. ~(n < Flag)
    BY <1>b, <1>2
  <2>6. LengthCode[n] = <<r + Flag>> \o LengthCode[n \div Flag]
    BY <2>1, <2>5, LengthUnfolds
  <2>7. LengthCode[n \div Flag] \in Seq(Byte)
    BY <1>2
  <2> QED BY <2>4, <2>6, <2>7, ConcatProperties
<1> HIDE DEF T
<1>3. Nat \subseteq T
  BY <1>b, <1>1, <1>2, DigitInduction
<1> QED BY <1>3 DEF T

\* What write_strings writes, in turn (bufferedwriter.pyx:49-60).
LEMMA PiecesOfItem ==
  ASSUME NEW item \in Items
  PROVE  /\ item.values \in Seq(Seq(Byte)) /\ Len(item.values) \in Nat /\ Len(item.values) > 0
         /\ item.values[1] \in Seq(Byte)
         /\ Pieces(item) \in Seq(Seq(Byte)) /\ Pieces(item) # <<>>
         /\ item.kind # "strings" => Pieces(item) = <<item.values[1]>>
         /\ item.kind = "strings" =>
              /\ Len(Pieces(item)) = 2 * Len(item.values)
              /\ \A p \in 1..Len(item.values):
                   /\ Pieces(item)[2 * p - 1] = LengthCode[Len(item.values[p])]
                   /\ Pieces(item)[2 * p] = item.values[p]
<1> DEFINE values == item.values
<1>1. /\ values \in Seq(Seq(Byte)) /\ Len(values) \in Nat /\ Len(values) > 0
      /\ item.kind # "strings" => Len(values) = 1
  <2>1. /\ values \in Seq(Seq(Byte)) /\ values # <<>>
        /\ item.kind # "strings" => Len(values) = 1
    BY ItemsAssumption
  <2> HIDE DEF values
  <2> QED BY <2>1
<1>2. CASE item.kind # "strings"
  <2>1. Pieces(item) = values
    BY <1>2 DEF Pieces
  <2> HIDE DEF values
  <2>2. values = <<values[1]>> /\ values # <<>>
    BY <1>1, <1>2
  <2>3. values[1] \in Seq(Byte)
    BY <1>1
  <2> QED BY <1>1, <1>2, <2>1, <2>2, <2>3 DEF values
<1>3. CASE item.kind = "strings"
  <2> DEFINE P == [i \in 1..2 * Len(values) |->
                    LET value == values[(i + 1) \div 2]
                    IN IF i % 2 = 1 THEN LengthCode[Len(value)] ELSE value]
  <2>1. Pieces(item) = P
    BY <1>3 DEF Pieces
  <2> HIDE DEF values
  <2>2. ASSUME NEW i \in 1..2 * Len(values) PROVE P[i] \in Seq(Byte)
    <3>1. (i + 1) \div 2 \in 1..Len(values)
      BY <1>1
    <3>2. PICK p \in 1..Len(values): p = (i + 1) \div 2
      BY <3>1
    <3>3. values[p] \in Seq(Byte) /\ Len(values[p]) \in Nat
      BY <1>1
    <3>4. LengthCode[Len(values[p])] \in Seq(Byte)
      BY <3>3, LengthIsBytes
    <3>5. P[i] = IF i % 2 = 1 THEN LengthCode[Len(values[p])] ELSE values[p]
      BY <3>2
    <3> HIDE DEF P
    <3> QED BY <3>3, <3>4, <3>5
  <2>3. ASSUME NEW p \in 1..Len(values)
        PROVE  P[2 * p - 1] = LengthCode[Len(values[p])] /\ P[2 * p] = values[p]
    <3>1. 2 * p - 1 \in 1..2 * Len(values) /\ 2 * p \in 1..2 * Len(values)
      BY <1>1
    <3>2. /\ ((2 * p - 1) + 1) \div 2 = p /\ (2 * p + 1) \div 2 = p
          /\ (2 * p - 1) % 2 = 1 /\ (2 * p) % 2 = 0
      BY <1>1
    <3> QED BY <3>1, <3>2
  <2>4. P \in [1..2 * Len(values) -> Seq(Byte)] /\ 2 * Len(values) \in Nat
    <3>1. P = [i \in 1..2 * Len(values) |-> P[i]]
      OBVIOUS
    <3> HIDE DEF P
    <3> QED BY <1>1, <2>2, <3>1
  <2> HIDE DEF P
  <2>5. P \in Seq(Seq(Byte)) /\ Len(P) = 2 * Len(values)
    BY <2>4
  <2>6. P # <<>> /\ values[1] \in Seq(Byte)
    BY <1>1, <2>5
  <2> QED BY <1>1, <1>3, <2>1, <2>3, <2>5, <2>6 DEF values
<1> QED BY <1>2, <1>3

\* The bytes of an item are those of its next string and of those behind it.
LEMMA NextString ==
  ASSUME NEW item \in Items, item.kind = "strings"
  PROVE  /\ After(item, 0) = FlattenSeq(Pieces(item))
         /\ After(item, Len(item.values)) = <<>>
         /\ \A p \in 1..Len(item.values):
              /\ After(item, p) \in Seq(Byte)
              /\ item.values[p] \in Seq(Byte) /\ Len(item.values[p]) \in Nat
              /\ LengthCode[Len(item.values[p])] \in Seq(Byte)
              /\ After(item, p - 1) = LengthCode[Len(item.values[p])]
                                        \o (item.values[p] \o After(item, p))
<1> DEFINE P == Pieces(item)
           values == item.values
           From(k) == SubSeq(P, k + 1, 2 * Len(values))
<1>1. /\ values \in Seq(Seq(Byte)) /\ Len(values) \in Nat /\ Len(values) > 0
      /\ P \in Seq(Seq(Byte)) /\ Len(P) = 2 * Len(values)
      /\ \A p \in 1..Len(values): P[2 * p - 1] = LengthCode[Len(values[p])] /\ P[2 * p] = values[p]
  BY PiecesOfItem
<1>2. \A p: After(item, p) = FlattenSeq(From(2 * p))
  BY DEF After
<1> HIDE DEF P, values
<1>3. From(2 * 0) = P
  <2>1. 2 * 0 + 1 = 1
    OBVIOUS
  <2> QED BY <1>1, <2>1, WholePrefix
<1>4. From(2 * Len(values)) = <<>>
  <2>1. 2 * Len(values) \in Int /\ 2 * Len(values) + 1 \in Int
        /\ 2 * Len(values) < 2 * Len(values) + 1
    BY <1>1
  <2> QED BY <2>1, SubSeqEmpty
<1>5. FlattenSeq(<<>>) = <<>>
  BY DEF FlattenSeq
<1>6. ASSUME NEW p \in 1..Len(values)
      PROVE  /\ FlattenSeq(From(2 * p)) \in Seq(Byte)
             /\ values[p] \in Seq(Byte) /\ Len(values[p]) \in Nat
             /\ LengthCode[Len(values[p])] \in Seq(Byte)
             /\ FlattenSeq(From(2 * (p - 1)))
                  = LengthCode[Len(values[p])] \o (values[p] \o FlattenSeq(From(2 * p)))
  <2>1. PICK k \in Nat: k = 2 * (p - 1)
    BY <1>1
  <2>2. PICK l \in Nat: l = k + 1
    OBVIOUS
  <2>3. PICK n \in Nat: n = 2 * Len(values) /\ n = Len(P)
    BY <1>1
  <2>4. k < n /\ l < n /\ n <= Len(P) /\ l + 1 = 2 * p /\ k + 1 = 2 * p - 1 /\ k + 2 = l + 1
        /\ l + 2 = 2 * p + 1
    BY <1>1, <2>1, <2>2, <2>3
  <2>5. SubSeq(P, k + 1, n) = <<P[k + 1]>> \o SubSeq(P, k + 2, n)
        /\ SubSeq(P, k + 2, n) \in Seq(Seq(Byte)) /\ P[k + 1] \in Seq(Byte)
    <3>1. P \in Seq(Seq(Byte)) /\ k < n /\ n <= Len(P)
      BY <1>1, <2>4
    <3> QED BY <3>1, FirstOfSlice
  <2>6. SubSeq(P, l + 1, n) = <<P[l + 1]>> \o SubSeq(P, l + 2, n)
        /\ SubSeq(P, l + 2, n) \in Seq(Seq(Byte)) /\ P[l + 1] \in Seq(Byte)
    <3>1. P \in Seq(Seq(Byte)) /\ l < n /\ n <= Len(P)
      BY <1>1, <2>4
    <3> QED BY <3>1, FirstOfSlice
  <2>7. P[k + 1] = LengthCode[Len(values[p])] /\ P[l + 1] = values[p]
    BY <1>1, <2>4
  <2>8. From(2 * p) = SubSeq(P, l + 2, n) /\ From(2 * (p - 1)) = SubSeq(P, k + 1, n)
    BY <2>1, <2>3, <2>4
  <2> HIDE DEF From
  <2>9. FlattenSeq(SubSeq(P, k + 1, n)) = P[k + 1] \o FlattenSeq(SubSeq(P, k + 2, n))
    BY <2>5, FlattenPrepend
  <2>10. FlattenSeq(SubSeq(P, l + 1, n)) = P[l + 1] \o FlattenSeq(SubSeq(P, l + 2, n))
    BY <2>6, FlattenPrepend
  <2>11. FlattenSeq(SubSeq(P, l + 2, n)) \in Seq(Byte)
    BY <2>6, FlattenType
  <2>12. Len(values[p]) \in Nat
    BY <1>1
  <2> QED BY <2>4, <2>5, <2>6, <2>7, <2>8, <2>9, <2>10, <2>11, <2>12
<1>7. \A p \in 1..Len(values):
        /\ After(item, p) \in Seq(Byte)
        /\ values[p] \in Seq(Byte) /\ Len(values[p]) \in Nat
        /\ LengthCode[Len(values[p])] \in Seq(Byte)
        /\ After(item, p - 1) = LengthCode[Len(values[p])] \o (values[p] \o After(item, p))
  <2> HIDE DEF From
  <2> QED BY <1>2, <1>6
<1>8. After(item, 0) = FlattenSeq(P) /\ After(item, Len(values)) = <<>>
  <2>1. After(item, 0) = FlattenSeq(From(2 * 0))
        /\ After(item, Len(values)) = FlattenSeq(From(2 * Len(values)))
    BY <1>2
  <2> HIDE DEF From
  <2> QED BY <1>3, <1>4, <1>5, <2>1
<1> QED BY <1>7, <1>8 DEF P, values

\* What is written of a list of items, and what its values are, grows with it at
\* its end and at its front.
LEMMA ListOfItems ==
  ASSUME NEW list \in Seq(Items)
  PROVE  /\ BytesOf(list) \in Seq(Byte) /\ ValuesOf(list) \in Seq(Seq(Byte))
         /\ \A item \in Items:
              /\ BytesOf(Append(list, item)) = BytesOf(list) \o FlattenSeq(Pieces(item))
              /\ ValuesOf(Append(list, item)) = ValuesOf(list) \o item.values
              /\ BytesOf(<<item>> \o list) = FlattenSeq(Pieces(item)) \o BytesOf(list)
              /\ ValuesOf(<<item>> \o list) = item.values \o ValuesOf(list)
<1> DEFINE b(l) == [i \in DOMAIN l |-> FlattenSeq(Pieces(l[i]))]
           v(l) == [i \in DOMAIN l |-> l[i].values]
<1>1. \A item \in Items: FlattenSeq(Pieces(item)) \in Seq(Byte) /\ item.values \in Seq(Seq(Byte))
  BY PiecesOfItem, FlattenType
<1>2. b(list) \in Seq(Seq(Byte)) /\ v(list) \in Seq(Seq(Seq(Byte)))
  <2>1. \A i \in DOMAIN list: list[i] \in Items
    OBVIOUS
  <2>2. Len(list) \in Nat /\ DOMAIN list = 1..Len(list)
    OBVIOUS
  <2>3. b(list) \in [1..Len(list) -> Seq(Byte)]
    BY <1>1, <2>1, <2>2, Zenon
  <2>4. v(list) \in [1..Len(list) -> Seq(Seq(Byte))]
    BY <1>1, <2>1, <2>2, Zenon
  <2> HIDE DEF b, v
  <2> QED BY SMTT(30), <2>2, <2>3, <2>4
<1>3. ASSUME NEW item \in Items
      PROVE  /\ b(Append(list, item)) = Append(b(list), FlattenSeq(Pieces(item)))
             /\ v(Append(list, item)) = Append(v(list), item.values)
             /\ b(<<item>> \o list) = <<FlattenSeq(Pieces(item))>> \o b(list)
             /\ v(<<item>> \o list) = <<item.values>> \o v(list)
  <2> DEFINE f == FlattenSeq(Pieces(item))
             w == item.values
  <2>1. f \in Seq(Byte) /\ w \in Seq(Seq(Byte))
    BY <1>1
  <2>2. b(Append(list, item)) = Append(b(list), f)
    <3>1. \A i \in 1..Len(list): Append(list, item)[i] = list[i]
      OBVIOUS
    <3>2. DOMAIN Append(list, item) = 1..(Len(list) + 1)
          /\ Append(list, item)[Len(list) + 1] = item
      OBVIOUS
    <3> QED BY <2>1, <1>2
  <2>3. v(Append(list, item)) = Append(v(list), w)
    BY <2>1, <1>2
  <2>4. b(<<item>> \o list) = <<f>> \o b(list)
    BY SMTT(30), <2>1, <1>2
  <2>5. v(<<item>> \o list) = <<w>> \o v(list)
    BY SMTT(30), <2>1, <1>2
  <2> QED BY <2>2, <2>3, <2>4, <2>5
<1>4. \A l: BytesOf(l) = FlattenSeq(b(l)) /\ ValuesOf(l) = FlattenSeq(v(l))
  BY DEF BytesOf, ValuesOf
<1> HIDE DEF b, v
<1>5. FlattenSeq(b(list)) \in Seq(Byte) /\ FlattenSeq(v(list)) \in Seq(Seq(Byte))
  BY <1>2, FlattenType
<1>6. ASSUME NEW item \in Items
      PROVE  /\ BytesOf(Append(list, item)) = BytesOf(list) \o FlattenSeq(Pieces(item))
             /\ ValuesOf(Append(list, item)) = ValuesOf(list) \o item.values
             /\ BytesOf(<<item>> \o list) = FlattenSeq(Pieces(item)) \o BytesOf(list)
             /\ ValuesOf(<<item>> \o list) = item.values \o ValuesOf(list)
  <2> DEFINE f == FlattenSeq(Pieces(item))
             w == item.values
             bl == b(list)
             vl == v(list)
  <2>1. f \in Seq(Byte) /\ w \in Seq(Seq(Byte)) /\ bl \in Seq(Seq(Byte)) /\ vl \in Seq(Seq(Seq(Byte)))
    BY <1>1, <1>2
  <2>2. /\ b(Append(list, item)) = Append(bl, f) /\ v(Append(list, item)) = Append(vl, w)
        /\ b(<<item>> \o list) = <<f>> \o bl /\ v(<<item>> \o list) = <<w>> \o vl
    BY <1>3
  <2>5. /\ BytesOf(Append(list, item)) = FlattenSeq(Append(bl, f)) /\ BytesOf(list) = FlattenSeq(bl)
        /\ ValuesOf(Append(list, item)) = FlattenSeq(Append(vl, w)) /\ ValuesOf(list) = FlattenSeq(vl)
        /\ BytesOf(<<item>> \o list) = FlattenSeq(<<f>> \o bl)
        /\ ValuesOf(<<item>> \o list) = FlattenSeq(<<w>> \o vl)
    BY <1>4, <2>2
  <2> HIDE DEF f, w, bl, vl
  <2>3. FlattenSeq(Append(bl, f)) = FlattenSeq(bl) \o f /\ FlattenSeq(<<f>> \o bl) = f \o FlattenSeq(bl)
    BY <2>1, FlattenAppend, FlattenPrepend
  <2>4. FlattenSeq(Append(vl, w)) = FlattenSeq(vl) \o w /\ FlattenSeq(<<w>> \o vl) = w \o FlattenSeq(vl)
    BY <2>1, FlattenAppend, FlattenPrepend
  <2> QED BY <2>3, <2>4, <2>5 DEF f, w
<1> QED BY <1>4, <1>5, <1>6

\* Behind t a call takes x, where v is due, then r and what is later.
Takes(t, x, v, r, later, all) ==
  /\ t \in Seq(Byte) /\ x \in Seq(Byte) /\ v \in Seq(Byte) /\ r \in Seq(Byte)
  /\ later \in Seq(Byte)
  /\ t \o (v \o r) \o later = all
  /\ Len(x) = Len(v) /\ Prefix(t \o x, all)

\* What a call takes is what was due, if it is as long: both are next.
LEMMA TakesWhatIsDue ==
  ASSUME NEW t, NEW x, NEW v, NEW r, NEW later, NEW all, Takes(t, x, v, r, later, all)
  PROVE  x = v /\ (t \o x) \o r \o later = all
<1>t. /\ t \in Seq(Byte) /\ x \in Seq(Byte) /\ v \in Seq(Byte) /\ r \in Seq(Byte)
      /\ later \in Seq(Byte)
      /\ t \o (v \o r) \o later = all
      /\ Len(x) = Len(v) /\ Prefix(t \o x, all)
  BY DEF Takes
<1>1. /\ t \o v \in Seq(Byte) /\ r \o later \in Seq(Byte) /\ v \o r \in Seq(Byte)
      /\ t \o (v \o r) = (t \o v) \o r
      /\ ((t \o v) \o r) \o later = (t \o v) \o (r \o later)
  <2>1. t \o v \in Seq(Byte) /\ r \o later \in Seq(Byte) /\ v \o r \in Seq(Byte)
    BY <1>t, ConcatProperties
  <2>2. (t \o v) \o r = t \o (v \o r)
    BY <1>t, ConcatAssociative, SMTT(30)
  <2>3. ((t \o v) \o r) \o later = (t \o v) \o (r \o later)
    <3> DEFINE w == t \o v
    <3>1. w \in Seq(Byte)
      BY <2>1
    <3> HIDE DEF w
    <3>2. r \in Seq(Byte) /\ later \in Seq(Byte)
      BY <1>t
    <3>3. (w \o r) \o later = w \o (r \o later)
      BY <3>1, <3>2, ConcatAssociative, SMTT(30)
    <3> QED BY <3>3 DEF w
  <2> QED BY <2>1, <2>2, <2>3
<1>2. t \o x = SubSeq((t \o v) \o (r \o later), 1, Len(t \o x))
  BY <1>t, <1>1 DEF Prefix
<1>3. x = v
  BY <1>t, <1>1, <1>2, OnlyNext
<1> QED BY <1>t, <1>1, <1>3

-----------------------------------------------------------------------------
(* the invariant *)

\* What the invariants say of types.
LEMMA LinkTypes ==
  ASSUME ReaderInv, WrittenInv
  PROVE  /\ script \in Seq(Items) /\ Len(script) \in Nat
         /\ reading \in Nat /\ reading <= Len(script)
         /\ Later \in Seq(Items) /\ (reading > 0 => Current \in Items)
         /\ BytesOf(Later) \in Seq(Byte) /\ ValuesOf(Later) \in Seq(Seq(Byte))
         /\ BytesOf(script) \in Seq(Byte) /\ ValuesOf(script) \in Seq(Seq(Byte))
         /\ taken \in Seq(Byte) /\ rv \in Seq(Byte) /\ results \in Seq(Seq(Byte))
<1>1. /\ script \in Seq(Items) /\ Len(script) \in Nat
      /\ reading \in Nat /\ reading <= Len(script)
  BY DEF WrittenInv
<1>2. Later \in Seq(Items)
  <2>1. \A i \in (reading + 1)..Len(script): script[i] \in Items
    BY <1>1
  <2> QED BY <1>1, <2>1, SubSeqProperties DEF Later
<1>3. reading > 0 => Current \in Items
  BY <1>1 DEF Current
<1> QED BY <1>1, <1>2, <1>3, ListOfItems DEF ReaderInv, ReaderTypeOK

\* A prefix of what was accepted is one of what the script says.
LEMMA PrefixOfScript ==
  ASSUME NEW t \in Seq(Byte), NEW a \in Seq(Byte), NEW p \in Seq(Byte), NEW all,
         Stream!Prefix(t, a), a \o p = all
  PROVE  Prefix(t, all)
<1>1. Len(t) <= Len(a) /\ t = SubSeq(a, 1, Len(t)) /\ Len(t) \in 0..Len(a)
  BY DEF Stream!Prefix
<1>2. Len(a) <= Len(a \o p) /\ SubSeq(a \o p, 1, Len(t)) = SubSeq(a, 1, Len(t))
      /\ Len(a \o p) \in Nat
  BY <1>1, LongerStream
<1>3. Len(t) \in Nat /\ Len(a) \in Nat
  OBVIOUS
<1> QED BY SMTT(30), <1>1, <1>2, <1>3 DEF Prefix

\* If what has come out and what is due are everything, then what has come out is
\* the beginning of it.
LEMMA DueShowsPrefix ==
  ASSUME NEW r \in Seq(Seq(Byte)), NEW x \in Seq(Seq(Byte)), NEW l \in Seq(Seq(Byte)),
         NEW all, r \o x \o l = all
  PROVE  Prefix(r, all)
<1> DEFINE V == Seq(Byte)
<1> HIDE DEF V
<1>1. r \in Seq(V) /\ x \in Seq(V) /\ l \in Seq(V)
  BY DEF V
<1>2. Len(r) \in 0..Len(r) /\ r \o x \in Seq(V)
  BY <1>1, ConcatProperties
<1>3. /\ Len(r) <= Len(r \o x) /\ SubSeq(r \o x, 1, Len(r)) = SubSeq(r, 1, Len(r))
  BY <1>1, <1>2, LongerStream
<1>4. Len(r) \in 0..Len(r \o x)
  BY <1>1, <1>2, <1>3
<1>5. /\ Len(r \o x) <= Len((r \o x) \o l) /\ Len((r \o x) \o l) \in Nat
      /\ SubSeq((r \o x) \o l, 1, Len(r)) = SubSeq(r \o x, 1, Len(r))
  BY <1>1, <1>2, <1>4, LongerStream
<1>6. SubSeq(r, 1, Len(r)) = r
  BY <1>1, WholePrefix
<1>7. Len(r) \in Nat /\ Len(r \o x) \in Nat
  BY <1>1, <1>2
<1> QED BY <1>3, <1>5, <1>6, <1>7 DEF Prefix

\* Whatever is due, what has come out is right so far.
LEMMA DueInvShows ==
  ASSUME ReaderInv, WrittenInv, DueInv, op # "failed"
  PROVE  RoundTrip
<1>1. PICK x \in Seq(Seq(Byte)): ValuesDue(x)
  <2>1. CASE op = "none"
    <3>1. <<>> \in Seq(Seq(Byte))
      OBVIOUS
    <3> QED BY <2>1, <3>1 DEF DueInv
  <2>2. CASE op \in {"read", "one"}
    <3>1. Current.values \in Seq(Seq(Byte))
      BY <2>2, LinkTypes, PiecesOfItem DEF DueInv
    <3> QED BY <2>2, <3>1 DEF DueInv
  <2>3. CASE op \in {"length", "string", "rest"}
    <3> DEFINE values == Current.values
    <3>1. /\ values \in Seq(Seq(Byte)) /\ items \in 1..Len(values)
          /\ ValuesDue(SubSeq(values, Place, Len(values))) /\ Place = Len(values) - items + 1
      BY <2>3, LinkTypes, PiecesOfItem DEF DueInv, Place
    <3> HIDE DEF values
    <3>2. SubSeq(values, Place, Len(values)) \in Seq(Seq(Byte))
      <4>1. Place \in Nat /\ Len(values) \in Nat /\ Place > 0
        BY <3>1
      <4>2. \A i \in Place..Len(values): values[i] \in Seq(Byte)
        BY <3>1, <4>1
      <4> QED BY <4>1, <4>2, SubSeqProperties
    <3> QED BY <3>1, <3>2
  <2> QED BY <2>1, <2>2, <2>3 DEF ReaderInv, ReaderTypeOK, Op
<1>2. results \o x \o ValuesOf(Later) = ValuesOf(script)
  BY <1>1 DEF ValuesDue
<1> QED BY <1>2, LinkTypes, DueShowsPrefix DEF RoundTrip

\* What a step of the reader has used up is of the script.
LEMMA TakenOfScript ==
  ASSUME ReaderInv', WriterInv, WrittenInv, Stream!Prefix(taken, accepted)',
         accepted' = accepted
  PROVE  Prefix(taken', BytesOf(script))
<1>1. taken' \in Seq(Byte)
  BY DEF ReaderInv, ReaderTypeOK
<1>2. /\ accepted \in Seq(Byte) /\ FlattenSeq(pieces) \in Seq(Byte)
      /\ accepted \o FlattenSeq(pieces) = BytesOf(script)
  BY WriterNumbers, FlattenType DEF WrittenInv
<1> QED BY <1>1, <1>2, PrefixOfScript

\* A turn of a loop that uses up nothing for good.
LEMMA NothingTaken ==
  ASSUME DueInv, Later' = Later, Current' = Current,
         UNCHANGED <<script, reading, taken, results, items, need, scale>>,
         op' = op \/ (op \in {"string", "rest"} /\ op' = "rest"),
         op = "read" => Len(rv') + left' = Len(rv) + left
  PROVE  DueInv'
<1>1. Place' = Place /\ NextValue' = NextValue
  BY DEF Place, NextValue
<1>2. \A b: /\ (taken' \o b \o BytesOf(Later') = BytesOf(script')) <=> BytesDue(b)
            /\ (results' \o b \o ValuesOf(Later') = ValuesOf(script')) <=> ValuesDue(b)
  BY DEF BytesDue, ValuesDue
<1>3. CASE op = "none"
  BY <1>2, <1>3 DEF DueInv, BytesDue, ValuesDue
<1>4. CASE op \in {"read", "one"}
  BY <1>2, <1>4 DEF DueInv, BytesDue, ValuesDue
<1>5. CASE op = "length"
  BY <1>1, <1>2, <1>5 DEF DueInv, BytesDue, ValuesDue
<1>6. CASE op \in {"string", "rest"}
  BY <1>1, <1>2, <1>6 DEF DueInv, BytesDue, ValuesDue
<1>7. CASE op \notin {"none", "read", "one", "length", "string", "rest"}
  BY <1>7 DEF DueInv
<1> QED BY <1>3, <1>4, <1>5, <1>6, <1>7

\* The value v is due behind those in r, then those in w and the later ones.
Returns(r, v, w, later, all) ==
  /\ r \in Seq(Seq(Byte)) /\ v \in Seq(Byte) /\ w \in Seq(Seq(Byte)) /\ later \in Seq(Seq(Byte))
  /\ r \o (<<v>> \o w) \o later = all

\* When it is returned, the others are still due.
LEMMA ReturnsWhatIsDue ==
  ASSUME NEW r, NEW v, NEW w, NEW later, NEW all, Returns(r, v, w, later, all)
  PROVE  Append(r, v) \o w \o later = all
<1> DEFINE V == Seq(Byte)
           y == <<v>>
<1>1. /\ r \in Seq(V) /\ y \in Seq(V) /\ w \in Seq(V) /\ v \in V
      /\ r \o (y \o w) \o later = all
  <2>1. v \in V /\ r \in Seq(V) /\ w \in Seq(V) /\ r \o (y \o w) \o later = all
    BY DEF Returns
  <2> HIDE DEF V
  <2>2. <<v>> \in Seq(V)
    BY <2>1
  <2> QED BY <2>1, <2>2
<1>2. Append(r, v) = r \o y
  BY <1>1, AppendIsConcat
<1> HIDE DEF V, y
<1>3. (r \o y) \o w = r \o (y \o w)
  BY <1>1, ConcatAssociative, SMTT(30)
<1> QED BY <1>1, <1>2, <1>3

\* A step of the reader in the middle of an item.
Framed ==
  /\ ReaderInv /\ WrittenInv /\ DueInv
  /\ UNCHANGED <<script, reading>>
  /\ Later' = Later /\ Current' = Current
  /\ Prefix(taken', BytesOf(script))

\* The only value of an item is returned (bufferedreader.pyx:26-61).
LEMMA SingleDone ==
  ASSUME taken \in Seq(Byte), results \in Seq(Seq(Byte)),
         BytesOf(Later') \in Seq(Byte), ValuesOf(Later') \in Seq(Seq(Byte)),
         NEW v \in Seq(Byte), NEW x \in Seq(Byte), Len(x) = Len(v),
         taken \o v \o BytesOf(Later') = BytesOf(script'),
         results \o <<v>> \o ValuesOf(Later') = ValuesOf(script'),
         Prefix(taken', BytesOf(script')), Return(x), op' = "none"
  PROVE  DueInv'
<1> DEFINE all == BytesOf(script')
           whole == ValuesOf(script')
           later == BytesOf(Later')
           l == ValuesOf(Later')
<1>1. taken' = taken \o x /\ results' = Append(results, x)
  BY DEF Return
<1>2. /\ later \in Seq(Byte) /\ l \in Seq(Seq(Byte)) /\ Prefix(taken', all)
      /\ taken \o v \o later = all /\ results \o <<v>> \o l = whole
  OBVIOUS
<1>3. all = BytesOf(script') /\ later = BytesOf(Later')
      /\ whole = ValuesOf(script') /\ l = ValuesOf(Later')
  OBVIOUS
<1> HIDE DEF all, whole, later, l
<1>4. /\ <<>> \in Seq(Byte) /\ <<>> \in Seq(Seq(Byte)) /\ <<v>> \in Seq(Seq(Byte))
      /\ v \o <<>> = v /\ <<v>> \o <<>> = <<v>>
  <2>1. <<>> \in Seq(Byte) /\ <<>> \in Seq(Seq(Byte)) /\ <<v>> \in Seq(Seq(Byte))
    OBVIOUS
  <2> QED BY <2>1, ConcatEmptySeq
<1>5. x = v /\ (taken \o x) \o <<>> \o later = all
  <2>1. PICK e \in Seq(Byte): e = <<>>
    BY <1>4
  <2>2. Takes(taken, x, v, e, later, all)
    BY <1>1, <1>2, <1>4, <2>1 DEF Takes
  <2>3. x = v
    BY <2>2, TakesWhatIsDue
  <2>4. (taken \o x) \o e \o later = all
    BY <2>2, TakesWhatIsDue
  <2> QED BY <2>1, <2>3, <2>4
<1>6. Append(results, v) \o <<>> \o l = whole
  <2>1. PICK e \in Seq(Seq(Byte)): e = <<>>
    BY <1>4
  <2>2. Returns(results, v, e, l, whole)
    BY <1>2, <1>4, <2>1 DEF Returns
  <2>3. Append(results, v) \o e \o l = whole
    BY <2>2, ReturnsWhatIsDue
  <2> QED BY <2>1, <2>3
<1>7. BytesDue(<<>>)' /\ ValuesDue(<<>>)'
  BY <1>1, <1>3, <1>5, <1>6 DEF BytesDue, ValuesDue
<1> QED BY <1>7 DEF DueInv

\* The item of read or read_one is its value.
LEMMA SingleItem ==
  ASSUME NEW item \in Items, item.kind # "strings"
  PROVE  /\ item.values[1] \in Seq(Byte) /\ item.values = <<item.values[1]>>
         /\ FlattenSeq(Pieces(item)) = item.values[1]
<1> DEFINE w == item.values
           v == w[1]
<1>1. w \in Seq(Seq(Byte)) /\ Len(w) = 1 /\ v \in Seq(Byte) /\ Pieces(item) = <<v>>
  BY PiecesOfItem, ItemsAssumption
<1> HIDE DEF w
<1>2. w = <<v>>
  BY <1>1
<1>3. FlattenSeq(<<v>>) = v
  <2>1. <<>> \in Seq(Byte) /\ <<>> \in Seq(Seq(Byte)) /\ Append(<<>>, v) = <<v>>
    BY <1>1
  <2>2. FlattenSeq(<<>>) = <<>>
    BY DEF FlattenSeq
  <2> HIDE DEF v
  <2>3. FlattenSeq(Append(<<>>, v)) = <<>> \o v
    BY <1>1, <2>1, <2>2, FlattenAppend
  <2>4. <<>> \o v = v
    BY <1>1, ConcatEmptySeq
  <2> QED BY <2>1, <2>3, <2>4
<1> QED BY <1>1, <1>2, <1>3 DEF w

\* A single value is returned by a call that waited for it (bufferedreader.pyx:51-61).
LEMMA SingleReturned ==
  ASSUME Framed, op \in {"read", "one"}, NEW x \in Seq(Byte),
         Len(x) = Len(Current.values[1]), Return(x), op' = "none"
  PROVE  DueInv'
<1> DEFINE v == Current.values[1]
<1>1. /\ Current \in Items /\ Current.kind # "strings"
      /\ BytesDue(v) /\ ValuesDue(Current.values)
  BY LinkTypes DEF Framed, DueInv
<1>2. v \in Seq(Byte) /\ Current.values = <<v>>
  BY <1>1, SingleItem
<1>3. /\ taken \in Seq(Byte) /\ results \in Seq(Seq(Byte))
      /\ BytesOf(Later) \in Seq(Byte) /\ ValuesOf(Later) \in Seq(Seq(Byte))
  BY LinkTypes DEF Framed
<1>4. /\ taken \o v \o BytesOf(Later) = BytesOf(script)
      /\ results \o <<v>> \o ValuesOf(Later) = ValuesOf(script)
  BY <1>1, <1>2 DEF BytesDue, ValuesDue
<1>5. Later' = Later /\ script' = script /\ Prefix(taken', BytesOf(script)) /\ Len(x) = Len(v)
  BY DEF Framed
<1> HIDE DEF v
<1> QED BY <1>2, <1>3, <1>4, <1>5, SingleDone

\* A call that is to read a string begins with its length
\* (bufferedreader.pyx:107-125).
LEMMA LengthBegins ==
  ASSUME NEW item \in Items, item.kind = "strings", Current' = item, reading' > 0,
         NEW q \in 1..Len(item.values), items' = Len(item.values) - q + 1,
         op' = "length", need' = 0, scale' = 1,
         taken' \o After(item, q - 1) \o BytesOf(Later') = BytesOf(script'),
         results' \o SubSeq(item.values, q, Len(item.values)) \o ValuesOf(Later')
           = ValuesOf(script')
  PROVE  DueInv'
<1> DEFINE v == item.values[q]
           n == Len(item.values)
<1>1. /\ n \in Nat /\ q \in Nat /\ q <= n /\ q > 0
      /\ v \in Seq(Byte) /\ Len(v) \in Nat
      /\ After(item, q - 1) = LengthCode[Len(v)] \o (v \o After(item, q))
  <2>1. n \in Nat
    BY PiecesOfItem
  <2>2. /\ v \in Seq(Byte) /\ Len(v) \in Nat
        /\ After(item, q - 1) = LengthCode[Len(v)] \o (v \o After(item, q))
    BY NextString
  <2>3. q \in 1..n
    OBVIOUS
  <2> HIDE DEF v, n
  <2>4. q \in Nat /\ q <= n /\ q > 0
    BY <2>1, <2>3
  <2> QED BY <2>1, <2>2, <2>4
<1>2. /\ items' \in 1..n
      /\ Len(item.values) - items' + 1 = q
  <2>1. n = Len(item.values) /\ items' = n - q + 1 /\ q \in 1..n
    OBVIOUS
  <2> HIDE DEF n
  <2>2. items' \in 1..n /\ n - items' + 1 = q
    BY <1>1, <2>1
  <2> QED BY <2>1, <2>2
<1>3. Place' = q /\ NextValue' = v
  BY <1>2 DEF Place, NextValue
<1>4. ValuesDue(SubSeq(Current.values, Place, Len(Current.values)))'
  BY <1>3 DEF ValuesDue
<1>5. BytesDue(LengthCode[Len(v)] \o (v \o After(item, q)))'
  BY <1>1 DEF BytesDue
<1>6. \E m \in 0..Len(NextValue'):
        /\ need' + scale' * m = Len(NextValue')
        /\ BytesDue(LengthCode[m] \o (NextValue \o After(Current, Place)))'
  <2>1. Len(v) \in 0..Len(v) /\ 0 + 1 * Len(v) = Len(v)
    BY <1>1
  <2>2. BytesDue(LengthCode[Len(v)] \o (NextValue \o After(Current, Place)))'
    BY <1>3, <1>5 DEF BytesDue
  <2> HIDE DEF v
  <2> QED BY <1>3, <2>1, <2>2
<1> QED BY <1>2, <1>4, <1>6 DEF DueInv

\* What is known while a string is being read.
LEMMA StringFacts ==
  ASSUME ReaderInv, WrittenInv, DueInv, op \in {"length", "string", "rest"}
  PROVE  /\ Current \in Items /\ Current.kind = "strings" /\ reading > 0
         /\ Len(Current.values) \in Nat /\ items \in Nat /\ items > 0
         /\ Place \in 1..Len(Current.values) /\ items = Len(Current.values) - Place + 1
         /\ NextValue \in Seq(Byte) /\ Len(NextValue) \in Nat
         /\ After(Current, Place) \in Seq(Byte)
         /\ ValuesDue(SubSeq(Current.values, Place, Len(Current.values)))
<1>1. /\ Current \in Items /\ Current.kind = "strings" /\ reading > 0
      /\ items \in 1..Len(Current.values)
      /\ ValuesDue(SubSeq(Current.values, Place, Len(Current.values)))
  BY LinkTypes DEF DueInv
<1>2. Len(Current.values) \in Nat
  BY <1>1, PiecesOfItem
<1>3. Place \in 1..Len(Current.values) /\ items = Len(Current.values) - Place + 1
  BY <1>1, <1>2 DEF Place
<1>4. NextValue \in Seq(Byte) /\ Len(NextValue) \in Nat /\ After(Current, Place) \in Seq(Byte)
  BY <1>1, <1>3, NextString DEF NextValue
<1> QED BY <1>1, <1>2, <1>3, <1>4

\* A string is returned, and the next one or the call's end follows
\* (bufferedreader.pyx:106-178).
LEMMA StringReturned ==
  ASSUME Framed, op \in {"string", "rest"}, NEW x \in Seq(Byte), Len(x) = need, EndString(x)
  PROVE  DueInv'
<1> DEFINE item == Current
           values == item.values
           n == Len(values)
           v == NextValue
           rest == After(item, Place)
           all == BytesOf(script)
           whole == ValuesOf(script)
           later == BytesOf(Later)
           l == ValuesOf(Later)
           w == SubSeq(values, Place + 1, n)
<1>1. /\ item \in Items /\ item.kind = "strings" /\ reading > 0
      /\ n \in Nat /\ items \in Nat /\ items > 0
      /\ Place \in 1..n /\ items = n - Place + 1
      /\ v \in Seq(Byte) /\ Len(v) \in Nat /\ rest \in Seq(Byte)
      /\ results \o SubSeq(values, Place, n) \o l = whole
  BY StringFacts DEF ValuesDue, Framed
<1>2. need = Len(v) /\ taken \o (v \o rest) \o later = all
  BY DEF Framed, DueInv, BytesDue
<1>3. /\ taken \in Seq(Byte) /\ results \in Seq(Seq(Byte))
      /\ later \in Seq(Byte) /\ l \in Seq(Seq(Byte))
  BY LinkTypes DEF Framed
<1>4. /\ taken' = taken \o x /\ results' = Append(results, x) /\ Prefix(taken', all)
      /\ items' = items - 1 /\ need' = 0 /\ scale' = 1
      /\ op' = IF items = 1 THEN "none" ELSE "length"
  BY DEF EndString, Return, Framed
<1>5. /\ BytesOf(Later') = later /\ BytesOf(script') = all
      /\ ValuesOf(Later') = l /\ ValuesOf(script') = whole
      /\ Current' = item /\ reading' = reading
  BY DEF Framed
<1>6. SubSeq(values, Place, n) = <<v>> \o w /\ w \in Seq(Seq(Byte))
  <2> DEFINE vs == values
  <2>1. vs \in Seq(Seq(Byte)) /\ n = Len(vs) /\ v = vs[Place]
    BY <1>1, PiecesOfItem DEF NextValue
  <2> HIDE DEF vs
  <2>2. PICK k \in Nat: k = Place - 1
    BY <1>1
  <2>3. k < n /\ n <= Len(vs) /\ k + 1 = Place /\ k + 2 = Place + 1
    BY <1>1, <2>1, <2>2
  <2> HIDE DEF n
  <2>4. SubSeq(vs, k + 1, n) = <<vs[k + 1]>> \o SubSeq(vs, k + 2, n)
        /\ SubSeq(vs, k + 2, n) \in Seq(Seq(Byte))
    <3>1. n \in Nat
      BY <1>1
    <3> QED BY <2>1, <2>3, <3>1, FirstOfSlice
  <2> QED BY <2>1, <2>3, <2>4 DEF vs
<1>7. n = Len(item.values)
  OBVIOUS
<1> HIDE DEF n, v, rest, all, whole, later, l, w
<1>8. x = v /\ (taken \o x) \o rest \o later = all
  <2>1. Takes(taken, x, v, rest, later, all)
    BY <1>1, <1>2, <1>3, <1>4 DEF Takes
  <2>2. x = v
    BY <2>1, TakesWhatIsDue
  <2>3. (taken \o x) \o rest \o later = all
    BY <2>1, TakesWhatIsDue
  <2> QED BY <2>2, <2>3
<1>9. Append(results, v) \o w \o l = whole
  <2>1. Returns(results, v, w, l, whole)
    BY <1>1, <1>3, <1>6 DEF Returns
  <2> QED BY <2>1, ReturnsWhatIsDue
<1>10. CASE items = 1
  <2>1. rest = <<>> /\ w = <<>>
    <3>1. Place = Len(item.values) /\ Place = n /\ Place \in Int /\ Place + 1 > n
      BY <1>1, <1>7, <1>10
    <3>2. rest = <<>>
      BY <1>1, <3>1, NextString DEF rest
    <3>3. w = <<>>
      BY <1>1, <3>1, SubSeqEmpty DEF w
    <3> QED BY <3>2, <3>3
  <2>2. BytesDue(<<>>)' /\ ValuesDue(<<>>)' /\ op' = "none"
    BY <1>4, <1>5, <1>8, <1>9, <1>10, <2>1 DEF BytesDue, ValuesDue
  <2> QED BY <2>2 DEF DueInv
<1>11. CASE items # 1
  <2>1. PICK q \in Nat: q = Place + 1
    BY <1>1
  <2>2. q \in 1..Len(item.values) /\ items' = Len(item.values) - q + 1 /\ q - 1 = Place
    BY SMTT(30), <1>1, <1>4, <1>7, <1>11, <2>1
  <2>3. taken' \o After(item, q - 1) \o BytesOf(Later') = BytesOf(script')
    BY <1>4, <1>5, <1>8, <2>2 DEF rest
  <2>4. results' \o SubSeq(item.values, q, Len(item.values)) \o ValuesOf(Later') = ValuesOf(script')
    BY <1>4, <1>5, <1>7, <1>8, <1>9, <2>1 DEF w
  <2>5. op' = "length" /\ need' = 0 /\ scale' = 1 /\ Current' = item /\ reading' > 0
    BY <1>1, <1>4, <1>5, <1>11
  <2> QED BY <1>1, <2>2, <2>3, <2>4, <2>5, LengthBegins
<1> QED BY <1>10, <1>11

\* A digit of a string's length: it is the one that was written
\* (bufferedreader.pyx:115-133).
LEMMA LengthByteDue ==
  ASSUME Framed, LengthByte
  PROVE  DueInv'
<1> DEFINE b == buffer[position + 1]
           L == Len(NextValue)
           rest == NextValue \o After(Current, Place)
           all == BytesOf(script)
           later == BytesOf(Later)
<1>b. Flag \in Nat /\ Flag > 1
  BY FlagAssumption
<1>1. /\ op = "length" /\ position # size
      /\ need' = need + (b % Flag) * scale /\ scale' = scale * Flag
      /\ op' = IF b < Flag THEN "string" ELSE "length"
      /\ taken' = Append(taken, b)
      /\ UNCHANGED <<items, results>>
  BY DEF LengthByte
<1>2. b \in Byte
  <2>1. position + 1 \in 1..BufSize
    BY SMTT(30), <1>1, ReaderNumbers, BufSizeAssumption DEF Framed
  <2> QED BY <2>1 DEF Framed, ReaderInv, ReaderTypeOK
<1>3. PICK m \in 0..L: need + scale * m = L /\ BytesDue(LengthCode[m] \o rest)
  BY <1>1 DEF Framed, DueInv
<1>4. /\ L \in Nat /\ m \in Nat /\ m <= L /\ need \in Nat /\ scale \in Nat
      /\ NextValue \in Seq(Byte) /\ After(Current, Place) \in Seq(Byte) /\ rest \in Seq(Byte)
  <2>1. L \in Nat /\ NextValue \in Seq(Byte) /\ After(Current, Place) \in Seq(Byte)
    BY <1>1, StringFacts DEF Framed
  <2>2. rest \in Seq(Byte)
    BY <2>1, ConcatProperties
  <2> QED BY <2>1, <2>2, ReaderNumbers DEF Framed
<1>5. /\ taken \in Seq(Byte) /\ later \in Seq(Byte) /\ Prefix(taken', all)
      /\ taken \o (LengthCode[m] \o rest) \o later = all
  BY <1>3, LinkTypes DEF Framed, BytesDue
<1>6. /\ BytesOf(Later') = later /\ BytesOf(script') = all
      /\ Place' = Place /\ NextValue' = NextValue /\ Current' = Current
  BY <1>1 DEF Framed, Place, NextValue
<1>7. /\ Current.kind = "strings" /\ reading' > 0 /\ items' \in 1..Len(Current.values)
      /\ ValuesDue(SubSeq(Current.values, Place, Len(Current.values)))'
  <2>1. /\ Current.kind = "strings" /\ reading > 0 /\ items \in 1..Len(Current.values)
        /\ ValuesDue(SubSeq(Current.values, Place, Len(Current.values)))
    BY <1>1, StringFacts DEF Framed, DueInv
  <2> QED BY <1>1, <1>6, <2>1 DEF Framed, ValuesDue
<1> HIDE DEF b, L, rest, all, later
<1>8. taken' = taken \o <<b>> /\ <<b>> \in Seq(Byte) /\ Len(<<b>>) = 1
  <2>1. <<b>> \in Seq(Byte) /\ Len(<<b>>) = 1
    BY <1>2
  <2> QED BY <1>1, <1>2, <1>5, <2>1, AppendIsConcat
<1>9. PICK q \in Nat, r \in 0..(Flag - 1):
        q = m \div Flag /\ r = m % Flag /\ m = Flag * q + r
  <2>1. /\ m \div Flag \in Nat /\ m % Flag \in 0..(Flag - 1)
        /\ m = Flag * (m \div Flag) + (m % Flag)
    BY <1>b, <1>4, DigitsLeft
  <2> QED BY <2>1
<1>r. r \in Nat
  BY <1>b
<1>10. CASE m < Flag
  <2>1. LengthCode[m] = <<m>> /\ m \in Byte /\ <<m>> \in Seq(Byte) /\ Len(<<m>>) = 1
    <3>1. LengthCode[m] = <<m>>
      BY <1>4, <1>10, LengthUnfolds
    <3>2. m \in Byte
      BY <1>b, <1>4, <1>10 DEF Byte
    <3>3. <<m>> \in Seq(Byte) /\ Len(<<m>>) = 1
      BY <3>2
    <3> QED BY <3>1, <3>2, <3>3
  <2>2. Takes(taken, <<b>>, <<m>>, rest, later, all)
    BY <1>4, <1>5, <1>8, <2>1 DEF Takes
  <2>3. <<b>> = <<m>> /\ (taken \o <<b>>) \o rest \o later = all
    <3> DEFINE x == <<b>>
               y == <<m>>
    <3> HIDE DEF x, y
    <3>1. Takes(taken, x, y, rest, later, all)
      BY <2>2 DEF x, y
    <3>2. x = y
      BY <3>1, TakesWhatIsDue
    <3>3. (taken \o x) \o rest \o later = all
      BY <3>1, TakesWhatIsDue
    <3> QED BY <3>2, <3>3 DEF x, y
  <2>5. b = m
    BY <2>3
  <2>6. m % Flag = m
    BY <1>b, <1>4, <1>10
  <2>7. need' = L /\ op' = "string"
    <3>1. scale * m = m * scale
      BY <1>4
    <3> QED BY <1>1, <1>3, <1>4, <1>10, <2>5, <2>6, <3>1
  <2>8. BytesDue(rest)'
    BY <1>6, <1>8, <2>3 DEF BytesDue, rest
  <2> QED BY <1>6, <1>7, <2>7, <2>8 DEF DueInv, BytesDue, rest, L
<1>11. CASE m >= Flag
  <2> DEFINE g == r + Flag
             next == LengthCode[q]
  <2>1. /\ LengthCode[m] = <<g>> \o next /\ g \in Byte /\ <<g>> \in Seq(Byte)
        /\ Len(<<g>>) = 1 /\ next \in Seq(Byte)
    <3>1. ~(m < Flag)
      BY <1>b, <1>4, <1>11
    <3>2. LengthCode[m] = <<g>> \o next
      BY <1>4, <1>9, <3>1, LengthUnfolds
    <3>3. g \in Byte
      BY <1>b DEF Byte
    <3> HIDE DEF g
    <3>4. <<g>> \in Seq(Byte) /\ Len(<<g>>) = 1
      BY <3>3
    <3> QED BY <1>9, <3>2, <3>3, <3>4, LengthIsBytes
  <2>2. g >= Flag /\ g % Flag = r
    <3>1. g = Flag * 1 + r
      BY <1>b
    <3>2. g % Flag = r
      <4>1. g \in Int /\ 1 \in Int /\ g = Flag * 1 + r
        BY <1>b
      <4> QED BY <1>b, <4>1, OnlyDivision
    <3> QED BY <1>b, <3>2
  <2> HIDE DEF g, next
  <2>3. (<<g>> \o next) \o rest = <<g>> \o (next \o rest) /\ next \o rest \in Seq(Byte)
    <3>1. (<<g>> \o next) \o rest = <<g>> \o (next \o rest)
      BY <1>4, <2>1, ConcatAssociative, SMTT(30)
    <3> QED BY <1>4, <2>1, <3>1, ConcatProperties
  <2>4. Takes(taken, <<b>>, <<g>>, next \o rest, later, all)
    <3>1. taken \o (<<g>> \o (next \o rest)) \o later = all
      BY <1>5, <2>1, <2>3
    <3> QED BY <1>4, <1>5, <1>8, <2>1, <2>3, <3>1 DEF Takes
  <2>5. <<b>> = <<g>> /\ (taken \o <<b>>) \o (next \o rest) \o later = all
    <3> DEFINE x == <<b>>
               y == <<g>>
               z == next \o rest
    <3> HIDE DEF x, y, z
    <3>1. Takes(taken, x, y, z, later, all)
      BY <2>4 DEF x, y, z
    <3>2. x = y
      BY <3>1, TakesWhatIsDue
    <3>3. (taken \o x) \o z \o later = all
      BY <3>1, TakesWhatIsDue
    <3> QED BY <3>2, <3>3 DEF x, y, z
  <2>7. b = g
    BY <2>5
  <2>8. need' = need + r * scale /\ scale' = scale * Flag /\ op' = "length"
    <3>1. ~(b < Flag)
      BY <1>b, <1>2, <2>2, <2>7 DEF Byte
    <3> QED BY <1>1, <2>2, <2>7, <3>1
  <2>9. need' + scale' * q = L
    <3>1. scale * (Flag * q + r) = (scale * Flag) * q + r * scale
      BY <1>b, <1>4, <1>r
    <3>2. (scale * Flag) * q \in Int /\ r * scale \in Int /\ scale * m \in Int
      BY <1>b, <1>4, <1>r
    <3>3. need + ((scale * Flag) * q + r * scale) = L
      BY <1>3, <1>9, <3>1
    <3>4. (need + r * scale) + (scale * Flag) * q = L
      BY <1>4, <3>2, <3>3
    <3> QED BY <2>8, <3>4
  <2>10. q \in 0..L
    <3>1. q < m
      <4>1. m > 0
        BY <1>b, <1>4, <1>11
      <4> QED BY <1>b, <1>4, <1>9, <4>1, DigitsLeft
    <3> QED BY <1>4, <1>9, <3>1
  <2>11. BytesDue(next \o rest)'
    BY <1>6, <1>8, <2>5 DEF BytesDue, rest, next
  <2>12. \E k \in 0..Len(NextValue'):
           /\ need' + scale' * k = Len(NextValue')
           /\ BytesDue(LengthCode[k] \o (NextValue \o After(Current, Place)))'
    <3>1. BytesDue(LengthCode[q] \o (NextValue \o After(Current, Place)))'
      BY <1>6, <2>11 DEF BytesDue, next, rest
    <3> QED BY <1>6, <2>9, <2>10, <3>1 DEF L
  <2> QED BY <1>6, <1>7, <2>8, <2>12 DEF DueInv
<1>12. m < Flag \/ m >= Flag
  BY <1>b, <1>4
<1> QED BY <1>10, <1>11, <1>12

\* A turn of a loop that only moves bytes (bufferedreader.pyx:40-50, 144-151,
\* 224-241).
LEMMA LoopsDue ==
  ASSUME Framed, CopyBytes \/ StringCut \/ \E n \in 1..BufSize: Refill(n)
  PROVE  DueInv'
<1>1. DueInv /\ Later' = Later /\ Current' = Current /\ UNCHANGED <<script, reading>>
  BY DEF Framed
<1>2. CASE CopyBytes
  <2> DEFINE n == Least(left, size - position)
             piece == SubSeq(buffer, position + 1, position + n)
  <2>1. /\ op = "read" /\ op' = op /\ rv' = rv \o piece /\ left' = left - n
        /\ UNCHANGED <<taken, results, items, need, scale>>
    BY <1>2 DEF CopyBytes
  <2>2. n \in Nat /\ position + n <= size /\ left \in Nat /\ Len(rv) \in Nat
    BY SMTT(30), <2>1, ReaderNumbers DEF Framed, Least
  <2> HIDE DEF n
  <2>3. Len(rv \o piece) = Len(rv) + n
    BY <2>1, <2>2, Consume DEF Framed
  <2> HIDE DEF piece
  <2>4. Len(rv') + left' = Len(rv) + left
    BY <2>1, <2>2, <2>3
  <2> QED BY <1>1, <2>1, <2>4, NothingTaken
<1>3. CASE StringCut
  BY <1>1, <1>3, NothingTaken DEF StringCut
<1>4. CASE \E n \in 1..BufSize: Refill(n)
  <2>1. UNCHANGED <<op, left, items, need, scale, rv, taken, results>>
    BY <1>4 DEF Refill
  <2> QED BY <1>1, <2>1, NothingTaken
<1> QED BY <1>2, <1>3, <1>4

\* The ends of read and read_one (bufferedreader.pyx:51-61).
LEMMA SinglesDue ==
  ASSUME Framed, ReturnBytes \/ TakeOne
  PROVE  DueInv'
<1>1. ReaderInv /\ DueInv
  BY DEF Framed
<1>2. CASE ReturnBytes
  <2>1. op = "read" /\ left = 0 /\ op' = "none" /\ Return(rv)
    BY <1>2 DEF ReturnBytes
  <2>2. rv \in Seq(Byte) /\ Len(rv) = Len(Current.values[1])
    <3>1. Len(rv) + left = Len(Current.values[1]) /\ Len(rv) \in Nat
      BY <1>1, <2>1, ReaderNumbers DEF DueInv
    <3> QED BY <1>1, <2>1, <3>1 DEF ReaderInv, ReaderTypeOK
  <2> QED BY <2>1, <2>2, SingleReturned
<1>3. CASE TakeOne
  <2> DEFINE b == buffer[position + 1]
  <2>1. op = "one" /\ position # size /\ op' = "none" /\ Return(<<b>>)
    BY <1>3 DEF TakeOne
  <2>2. b \in Byte
    <3>1. position + 1 \in 1..BufSize
      BY <1>1, <2>1, ReaderNumbers, BufSizeAssumption
    <3> QED BY <1>1, <3>1 DEF ReaderInv, ReaderTypeOK
  <2> HIDE DEF b
  <2>3. <<b>> \in Seq(Byte) /\ Len(<<b>>) = 1
    BY <2>2
  <2>4. Len(Current.values[1]) = 1
    <3>1. Current \in Items /\ Current.kind = "one"
      BY <1>1, <2>1, LinkTypes DEF Framed, DueInv
    <3> QED BY <3>1, ItemsAssumption
  <2> QED BY <2>1, <2>3, <2>4, SingleReturned
<1> QED BY <1>2, <1>3

\* A string that is complete (bufferedreader.pyx:136-178).
LEMMA StringsDue ==
  ASSUME Framed, StringInBuffer \/ \E n \in 1..BufSize: StringRest(n)
  PROVE  DueInv'
<1>1. /\ ReaderInv /\ DueInv /\ Later' = Later /\ Current' = Current
      /\ UNCHANGED <<script, reading>>
  BY DEF Framed
<1>2. CASE StringInBuffer
  <2> DEFINE x == SubSeq(buffer, position + 1, position + need)
  <2>1. op = "string" /\ position + need <= size /\ EndString(x)
    BY <1>2 DEF StringInBuffer
  <2>2. x \in Seq(Byte) /\ Len(x) = need
    BY <1>1, <2>1, ReaderNumbers, ConsumeAtOnce
  <2> HIDE DEF x
  <2> QED BY <2>1, <2>2, StringReturned
<1>3. ASSUME NEW n \in 1..BufSize, StringRest(n) PROVE DueInv'
  <2> DEFINE k == Least(need - Len(rv), n)
             piece == SubSeq(buffer', 1, k)
             part == rv \o piece
  <2>1. /\ op = "rest" /\ ReadIntoBuffer(n) /\ socket' = socket
        /\ IF Len(part) = need
             THEN EndString(part)
             ELSE rv' = part /\ UNCHANGED <<op, items, need, scale, taken, results>>
    BY <1>3 DEF StringRest
  <2>2. part \in Seq(Byte)
    <3>1. n \in Nat /\ n <= BufSize /\ buffer' \in [1..BufSize -> Byte]
      BY <1>1, <2>1, NewWindow
    <3>2. k \in Nat /\ k <= n
      <4>1. Len(rv) < need /\ Len(rv) \in Nat /\ need \in Nat
        BY <1>1, <2>1, ReaderNumbers DEF ReaderInv
      <4> QED BY <3>1, <4>1, LeastPart
    <3> HIDE DEF k
    <3>3. \A i \in 1..k: i \in 1..BufSize
      BY <3>1, <3>2, BufSizeAssumption
    <3>4. \A i \in 1..k: buffer'[i] \in Byte
      BY <3>1, <3>3
    <3>5. piece \in Seq(Byte)
      BY <3>2, <3>4, FrontElements
    <3> HIDE DEF piece
    <3>6. rv \in Seq(Byte)
      BY <1>1 DEF ReaderInv, ReaderTypeOK
    <3> QED BY <3>5, <3>6, ConcatProperties
  <2> HIDE DEF part
  <2>3. CASE Len(part) = need
    BY <2>1, <2>2, <2>3, StringReturned
  <2>4. CASE Len(part) # need
    BY <1>1, <2>1, <2>4, NothingTaken
  <2> QED BY <2>3, <2>4
<1> QED BY <1>2, <1>3

\* Every step of the reader in the middle of an item leaves due what it has not
\* taken (bufferedreader.pyx:26-178).
LEMMA ReaderProceedsDue ==
  ASSUME Framed, ReaderProceeds
  PROVE  DueInv'
BY LoopsDue, SinglesDue, StringsDue, LengthByteDue DEF ReaderProceeds

-----------------------------------------------------------------------------
(* the next item is begun, and written *)

\* The first of the later items is begun: all of it is due.
LEMMA ItemBegins ==
  ASSUME ReaderInv, WrittenInv, DueInv, op = "none", reading < Len(script),
         reading' = reading + 1, script' = script
  PROVE  LET item == script[reading'] IN
         /\ item \in Items /\ Current' = item /\ reading' > 0
         /\ BytesOf(Later') \in Seq(Byte) /\ ValuesOf(Later') \in Seq(Seq(Byte))
         /\ taken \o FlattenSeq(Pieces(item)) \o BytesOf(Later') = BytesOf(script')
         /\ results \o item.values \o ValuesOf(Later') = ValuesOf(script')
<1> DEFINE item == script[reading + 1]
           rest == SubSeq(script, reading + 2, Len(script))
           f == FlattenSeq(Pieces(item))
           w == item.values
<1>1. /\ script \in Seq(Items) /\ reading \in Nat /\ Len(script) \in Nat
      /\ taken \in Seq(Byte) /\ results \in Seq(Seq(Byte))
  BY LinkTypes
<1>2. Later = <<item>> \o rest /\ rest \in Seq(Items) /\ item \in Items
  <2>1. PICK n \in Nat: n = Len(script)
    BY <1>1
  <2>2. reading < n /\ n <= Len(script)
    BY <1>1, <2>1
  <2>3. /\ SubSeq(script, reading + 1, n) = <<script[reading + 1]>> \o SubSeq(script, reading + 2, n)
        /\ SubSeq(script, reading + 2, n) \in Seq(Items) /\ script[reading + 1] \in Items
    BY <1>1, <2>2, FirstOfSlice
  <2> QED BY <2>1, <2>3 DEF Later
<1>3. Current' = item /\ reading' > 0 /\ Later' = rest
  <2>1. (reading + 1) + 1 = reading + 2
    BY <1>1
  <2> QED BY <1>1, <2>1 DEF Current, Later
<1>4. f \in Seq(Byte) /\ w \in Seq(Seq(Byte))
  BY <1>2, PiecesOfItem, FlattenType
<1>5. /\ BytesOf(rest) \in Seq(Byte) /\ ValuesOf(rest) \in Seq(Seq(Byte))
      /\ BytesOf(Later) = f \o BytesOf(rest) /\ ValuesOf(Later) = w \o ValuesOf(rest)
  BY <1>2, ListOfItems
<1>6. /\ taken \o <<>> \o BytesOf(Later) = BytesOf(script)
      /\ results \o <<>> \o ValuesOf(Later) = ValuesOf(script)
  BY DEF DueInv, BytesDue, ValuesDue
<1>7. taken \o <<>> = taken /\ results \o <<>> = results
  BY <1>1, ConcatEmptySeq
<1>8. item = script[reading']
  OBVIOUS
<1> HIDE DEF item, rest, f, w
<1> DEFINE a == BytesOf(rest)
           c == ValuesOf(rest)
           V == Seq(Byte)
<1>9. a \in Seq(Byte) /\ c \in Seq(V) /\ w \in Seq(V) /\ results \in Seq(V)
  BY <1>1, <1>4, <1>5
<1> HIDE DEF a, c, V
<1>10. (taken \o f) \o a = taken \o (f \o a)
  BY <1>1, <1>4, <1>9, ConcatAssociative, SMTT(30)
<1>11. (results \o w) \o c = results \o (w \o c)
  BY <1>9, ConcatAssociative, SMTT(30)
<1>12. /\ taken \o f \o BytesOf(Later') = BytesOf(script')
       /\ results \o w \o ValuesOf(Later') = ValuesOf(script')
  BY <1>3, <1>5, <1>6, <1>7, <1>10, <1>11 DEF a, c
<1> QED BY <1>2, <1>3, <1>5, <1>8, <1>12 DEF f, w

\* The reader begins an item: what is due of it is what was written of it
\* (bufferedreader.pyx:26-36, 53-56, 63-106).
LEMMA ReadItemDue ==
  ASSUME ReaderInv, WrittenInv, DueInv, ReadItem, Prefix(taken', BytesOf(script))
  PROVE  DueInv'
<1> DEFINE item == script[reading']
           v == item.values[1]
<1>1. /\ op = "none" /\ reading < Len(script) /\ reading' = reading + 1 /\ script' = script
  BY DEF ReadItem, ReadBuffered, ReadLoop, ReadOne, ReadStrings
<1>2. /\ item \in Items /\ Current' = item /\ reading' > 0
      /\ BytesOf(Later') \in Seq(Byte) /\ ValuesOf(Later') \in Seq(Seq(Byte))
      /\ taken \o FlattenSeq(Pieces(item)) \o BytesOf(Later') = BytesOf(script')
      /\ results \o item.values \o ValuesOf(Later') = ValuesOf(script')
  BY <1>1, ItemBegins
<1>3. /\ taken \in Seq(Byte) /\ results \in Seq(Seq(Byte)) /\ rv = <<>>
      /\ Prefix(taken', BytesOf(script'))
  BY <1>1, LinkTypes DEF ReaderInv
<1>4. CASE item.kind # "strings"
  <2>1. /\ v \in Seq(Byte) /\ item.values = <<v>> /\ Len(v) \in Nat
        /\ taken \o v \o BytesOf(Later') = BytesOf(script')
        /\ results \o <<v>> \o ValuesOf(Later') = ValuesOf(script')
    <3> DEFINE it == item
    <3>1. it \in Items /\ it.kind # "strings" /\ v = it.values[1]
      BY <1>2, <1>4
    <3> HIDE DEF it, v
    <3>2. v \in Seq(Byte) /\ it.values = <<v>> /\ FlattenSeq(Pieces(it)) = v
      BY <3>1, SingleItem
    <3>3. Len(v) \in Nat
      BY <3>2
    <3>4. /\ taken \o FlattenSeq(Pieces(it)) \o BytesOf(Later') = BytesOf(script')
          /\ results \o it.values \o ValuesOf(Later') = ValuesOf(script')
          /\ item.values = it.values
      BY <1>2 DEF it
    <3> HIDE DEF item
    <3> QED BY <3>2, <3>3, <3>4
  <2>2. ASSUME item.kind = "read", ReadBuffered(Len(v)) PROVE DueInv'
    <3> DEFINE x == SubSeq(buffer, position + 1, position + Len(v))
    <3>1. op' = "none" /\ position + Len(v) <= size /\ Return(x)
      <4>1. /\ Len(v) + position < size /\ op' = op
            /\ Return(SubSeq(buffer, position + 1, position + Len(v)))
        BY <2>2 DEF ReadBuffered
      <4> HIDE DEF v
      <4>2. position + Len(v) <= size
        BY <2>1, <4>1, ReaderNumbers
      <4> QED BY <1>1, <4>1, <4>2
    <3>2. x \in Seq(Byte) /\ Len(x) = Len(v)
      BY <1>1, <2>1, <3>1, ConsumeAtOnce
    <3> HIDE DEF x, item, v
    <3> QED BY <1>2, <1>3, <2>1, <3>1, <3>2, SingleDone
  <2>3. ASSUME item.kind = "read", ReadLoop(Len(v)) PROVE DueInv'
    <3>1. op' = "read" /\ left' = Len(v) /\ rv' = <<>> /\ UNCHANGED <<taken, results>>
      BY <1>3, <2>3 DEF ReadLoop
    <3>2. Len(rv') + left' = Len(v)
      BY <2>1, <3>1
    <3>3. BytesDue(Current.values[1])' /\ ValuesDue(Current.values)'
      BY <1>2, <2>1, <3>1 DEF BytesDue, ValuesDue
    <3> QED BY <1>2, <2>3, <3>1, <3>2, <3>3 DEF DueInv
  <2>4. ASSUME item.kind = "one", ReadOne PROVE DueInv'
    <3>1. op' = "one" /\ UNCHANGED <<taken, results>>
      BY <2>4 DEF ReadOne
    <3>2. BytesDue(Current.values[1])' /\ ValuesDue(Current.values)'
      BY <1>2, <2>1, <3>1 DEF BytesDue, ValuesDue
    <3> QED BY <1>2, <2>4, <3>1, <3>2 DEF DueInv
  <2> QED BY <1>4, <2>2, <2>3, <2>4 DEF ReadItem
<1>5. CASE item.kind = "strings"
  <2> DEFINE n == Len(item.values)
  <2>1. ReadStrings(n)
    BY <1>5 DEF ReadItem
  <2>2. /\ op' = "length" /\ items' = n /\ need' = 0 /\ scale' = 1
        /\ UNCHANGED <<taken, results>>
    BY <2>1 DEF ReadStrings
  <2>3. n \in Nat /\ 1 \in 1..n /\ item.values \in Seq(Seq(Byte))
    BY <1>2, PiecesOfItem
  <2>4. n - 1 + 1 = n /\ 1 - 1 = 0
    BY <2>3
  <2>5. SubSeq(item.values, 1, n) = item.values
    BY <2>3, WholePrefix
  <2>6. After(item, 0) = FlattenSeq(Pieces(item))
    BY <1>2, <1>5, NextString
  <2>7. /\ items' = n - 1 + 1 /\ taken' \o After(item, 1 - 1) \o BytesOf(Later') = BytesOf(script')
        /\ results' \o SubSeq(item.values, 1, n) \o ValuesOf(Later') = ValuesOf(script')
    BY <1>2, <2>2, <2>4, <2>5, <2>6
  <2> HIDE DEF item
  <2> QED BY <1>2, <1>5, <2>2, <2>3, <2>7, LengthBegins
<1> QED BY <1>4, <1>5

\* The later items are more: what is due of the running one is the same.
LEMMA LaterItemDue ==
  ASSUME ReaderInv, WrittenInv, DueInv, UNCHANGED <<readerVars, reading>>,
         reading > 0 => Current' = Current,
         \A b \in Seq(Byte):
           BytesDue(b) => taken' \o b \o BytesOf(Later') = BytesOf(script'),
         \A b \in Seq(Seq(Byte)):
           ValuesDue(b) => results' \o b \o ValuesOf(Later') = ValuesOf(script')
  PROVE  DueInv'
<1>1. UNCHANGED <<op, left, items, need, scale, rv, reading>>
  BY DEF readerVars
<1>2. CASE op = "none"
  <2>1. <<>> \in Seq(Byte) /\ <<>> \in Seq(Seq(Byte)) /\ BytesDue(<<>>) /\ ValuesDue(<<>>)
    BY <1>2 DEF DueInv
  <2>2. BytesDue(<<>>)' /\ ValuesDue(<<>>)'
    BY <2>1 DEF BytesDue, ValuesDue
  <2> QED BY <1>1, <1>2, <2>2 DEF DueInv
<1>3. CASE op \in {"read", "one"}
  <2>1. /\ reading > 0 /\ Current.kind = op /\ Current \in Items
        /\ BytesDue(Current.values[1]) /\ ValuesDue(Current.values)
        /\ op = "read" => Len(rv) + left = Len(Current.values[1])
    BY <1>3, LinkTypes DEF DueInv
  <2>2. Current.values[1] \in Seq(Byte) /\ Current.values \in Seq(Seq(Byte))
    BY <2>1, PiecesOfItem
  <2>3. BytesDue(Current.values[1])' /\ ValuesDue(Current.values)'
    BY <2>1, <2>2 DEF BytesDue, ValuesDue
  <2> QED BY <1>1, <1>3, <2>1, <2>3 DEF DueInv
<1>4. CASE op \in {"length", "string", "rest"}
  <2> DEFINE values == Current.values
             n == Len(values)
             rest == NextValue \o After(Current, Place)
             w == SubSeq(values, Place, n)
  <2>1. /\ Current \in Items /\ Current.kind = "strings" /\ reading > 0
        /\ n \in Nat /\ Place \in 1..n /\ items \in 1..n
        /\ NextValue \in Seq(Byte) /\ After(Current, Place) \in Seq(Byte)
        /\ ValuesDue(w)
    BY <1>4, StringFacts DEF DueInv
  <2>2. rest \in Seq(Byte)
    BY <2>1, ConcatProperties
  <2>3. w \in Seq(Seq(Byte))
    <3>1. values \in Seq(Seq(Byte))
      BY <2>1, PiecesOfItem
    <3> HIDE DEF values
    <3>2. \A i \in Place..n: values[i] \in Seq(Byte)
      BY <2>1, <3>1
    <3> QED BY <2>1, <3>2, SubSeqProperties
  <2>4. Current' = Current /\ Place' = Place /\ NextValue' = NextValue
    BY <1>1, <2>1 DEF Place, NextValue
  <2>5. ValuesDue(SubSeq(Current.values, Place, Len(Current.values)))'
    <3>1. results' \o w \o ValuesOf(Later') = ValuesOf(script')
      BY <2>1, <2>3
    <3> QED BY <2>4, <3>1 DEF ValuesDue
  <2>6. CASE op = "length"
    <3>1. PICK m \in 0..Len(NextValue):
            need + scale * m = Len(NextValue) /\ BytesDue(LengthCode[m] \o rest)
      BY <2>6 DEF DueInv
    <3>2. m \in Nat
      BY <2>1
    <3>3. LengthCode[m] \o rest \in Seq(Byte)
      BY <2>2, <3>2, LengthIsBytes, ConcatProperties
    <3>4. taken' \o (LengthCode[m] \o rest) \o BytesOf(Later') = BytesOf(script')
      BY <3>1, <3>3
    <3>5. BytesDue(LengthCode[m] \o (NextValue \o After(Current, Place)))'
      BY <2>4, <3>4 DEF BytesDue
    <3> QED BY <1>1, <2>1, <2>4, <2>5, <2>6, <3>1, <3>5 DEF DueInv
  <2>7. CASE op \in {"string", "rest"}
    <3>1. need = Len(NextValue) /\ BytesDue(rest)
      BY <2>7 DEF DueInv
    <3>2. taken' \o rest \o BytesOf(Later') = BytesOf(script')
      BY <2>2, <3>1
    <3>3. BytesDue(NextValue \o After(Current, Place))'
      BY <2>4, <3>2 DEF BytesDue
    <3> QED BY <1>1, <2>1, <2>4, <2>5, <2>7, <3>1, <3>3 DEF DueInv
  <2> QED BY <1>4, <2>6, <2>7
<1>5. CASE op = "failed"
  BY <1>1, <1>5 DEF DueInv
<1> QED BY <1>2, <1>3, <1>4, <1>5 DEF ReaderInv, ReaderTypeOK, Op

\* What begins a sequence begins a longer one.
LEMMA LongerPrefix ==
  ASSUME NEW r \in Seq(Seq(Byte)), NEW a \in Seq(Seq(Byte)), NEW w \in Seq(Seq(Byte)),
         Prefix(r, a)
  PROVE  Prefix(r, a \o w)
<1> DEFINE V == Seq(Byte)
<1> HIDE DEF V
<1>1. r \in Seq(V) /\ a \in Seq(V) /\ w \in Seq(V)
  BY DEF V
<1>2. Len(r) <= Len(a) /\ r = SubSeq(a, 1, Len(r))
  BY DEF Prefix
<1>3. Len(r) \in Nat /\ Len(a) \in Nat /\ Len(r) \in 0..Len(a)
  BY <1>1, <1>2
<1>4. /\ Len(a) <= Len(a \o w) /\ SubSeq(a \o w, 1, Len(r)) = SubSeq(a, 1, Len(r))
      /\ Len(a \o w) \in Nat
  BY <1>1, <1>3, LongerStream
<1> QED BY <1>2, <1>3, <1>4 DEF Prefix

\* Parts of a sequence, in turn.
Parts(S, t, b, l, f) == t \in Seq(S) /\ b \in Seq(S) /\ l \in Seq(S) /\ f \in Seq(S)

\* What is added to the end of all is added to the end of its last part.
LEMMA MoreBehind ==
  ASSUME NEW S, NEW t, NEW b, NEW l, NEW f, Parts(S, t, b, l, f)
  PROVE  t \o b \o (l \o f) = (t \o b \o l) \o f
<1>0. t \in Seq(S) /\ b \in Seq(S) /\ l \in Seq(S) /\ f \in Seq(S)
  BY DEF Parts
<1>1. PICK tb \in Seq(S): tb = t \o b
  BY <1>0, ConcatProperties
<1>2. (tb \o l) \o f = tb \o (l \o f)
  BY <1>0, ConcatAssociative, SMTT(30)
<1> QED BY <1>1, <1>2

\* An item is written: it is behind all that was written, and is not read yet
\* (bufferedwriter.pyx:31-47, 49-60).
LEMMA WriteItemKeeps ==
  ASSUME ReaderInv, WriterInv, LinkInv, NEW item \in Items, WriteItem(item)
  PROVE  LinkInv'
<1> DEFINE P == Pieces(item)
           f == FlattenSeq(P)
           all == BytesOf(script)
           whole == ValuesOf(script)
           later == BytesOf(Later)
           l == ValuesOf(Later)
           w == item.values
<1>1. /\ pieces = <<>> /\ script' = Append(script, item) /\ pieces' = Tail(P)
      /\ accepted' = accepted \o Head(P)
      /\ UNCHANGED <<readerVars, reading>>
  BY DEF WriteItem, Write
<1>2. /\ script \in Seq(Items) /\ Len(script) \in Nat
      /\ reading \in Nat /\ reading <= Len(script)
      /\ Later \in Seq(Items)
      /\ later \in Seq(Byte) /\ l \in Seq(Seq(Byte)) /\ all \in Seq(Byte)
      /\ whole \in Seq(Seq(Byte))
      /\ taken \in Seq(Byte) /\ results \in Seq(Seq(Byte))
  BY LinkTypes DEF LinkInv
<1>3. /\ P \in Seq(Seq(Byte)) /\ P # <<>> /\ w \in Seq(Seq(Byte)) /\ f \in Seq(Byte)
  BY PiecesOfItem, FlattenType
<1>4. /\ BytesOf(script') = all \o f /\ ValuesOf(script') = whole \o w
  BY <1>1, <1>2, ListOfItems
<1>5. Later' = Append(Later, item)
  <2>1. reading \in 0..Len(script)
    BY <1>2
  <2>2. SubSeq(Append(script, item), reading + 1, Len(script) + 1) = Append(Later, item)
    BY ZenonT(40), <1>2, <2>1, SliceOfLonger DEF Later
  <2>3. Len(script') = Len(script) + 1 /\ reading' = reading
    BY <1>1, <1>2
  <2> QED BY <1>1, <2>2, <2>3 DEF Later
<1>6. BytesOf(Later') = later \o f /\ ValuesOf(Later') = l \o w
  BY <1>2, <1>5, ListOfItems
<1>7. reading > 0 => Current' = Current
  <2>1. reading > 0 => Append(script, item)[reading] = script[reading]
    BY <1>2
  <2> QED BY <1>1, <2>1 DEF Current
<1>8. WrittenInv'
  <2>1. script' \in Seq(Items) /\ Len(script') = Len(script) + 1
    BY <1>1, <1>2
  <2>2. reading' \in 0..Len(script')
    BY <1>1, <1>2, <2>1
  <2>3. Head(P) \in Seq(Byte) /\ Tail(P) \in Seq(Seq(Byte)) /\ P = <<Head(P)>> \o Tail(P)
    <3> DEFINE V == Seq(Byte)
    <3> HIDE DEF V, P
    <3>1. P \in Seq(V) /\ P # <<>>
      BY <1>3 DEF V
    <3>2. Head(P) \in V /\ Tail(P) \in Seq(V) /\ P = <<Head(P)>> \o Tail(P)
      BY <3>1
    <3> QED BY <3>2 DEF V
  <2>4. f = Head(P) \o FlattenSeq(Tail(P))
    BY <2>3, FlattenPrepend
  <2>5. accepted \in Seq(Byte) /\ FlattenSeq(Tail(P)) \in Seq(Byte)
    BY <2>3, WriterNumbers, FlattenType
  <2>6. accepted = all
    <3>1. accepted \o FlattenSeq(pieces) = all
      BY DEF LinkInv, WrittenInv
    <3>2. FlattenSeq(pieces) = <<>>
      BY <1>1 DEF FlattenSeq
    <3> QED BY <2>5, <3>1, <3>2, ConcatEmptySeq
  <2> DEFINE h == Head(P)
             g == FlattenSeq(Tail(P))
             ac == accepted
  <2>7. h \in Seq(Byte) /\ g \in Seq(Byte) /\ ac \in Seq(Byte) /\ f = h \o g
        /\ accepted' = ac \o h
    BY <1>1, <2>3, <2>4, <2>5
  <2> HIDE DEF h, g, ac, f
  <2>8. (ac \o h) \o g = ac \o (h \o g)
    BY <2>7, ConcatAssociative, SMTT(30)
  <2>9. accepted' \o FlattenSeq(pieces') = BytesOf(script')
    BY <1>1, <1>4, <2>6, <2>7, <2>8 DEF g, ac
  <2> QED BY <1>1, <2>1, <2>2, <2>3, <2>9 DEF WrittenInv
<1>9. ASSUME NEW b \in Seq(Byte), BytesDue(b)
      PROVE  taken' \o b \o BytesOf(Later') = BytesOf(script')
  <2>1. taken \o b \o later = all /\ taken' = taken
    BY <1>1, <1>9 DEF BytesDue, readerVars
  <2>2. Parts(Byte, taken, b, later, f)
    BY <1>2, <1>3 DEF Parts
  <2> HIDE DEF f, later, all
  <2>3. taken \o b \o (later \o f) = (taken \o b \o later) \o f
    BY <2>2, MoreBehind
  <2> QED BY <1>4, <1>6, <2>1, <2>3
<1>10. ASSUME NEW b \in Seq(Seq(Byte)), ValuesDue(b)
       PROVE  results' \o b \o ValuesOf(Later') = ValuesOf(script')
  <2> DEFINE V == Seq(Byte)
  <2>1. results \o b \o l = whole /\ results' = results
    BY <1>1, <1>10 DEF ValuesDue, readerVars
  <2>2. Parts(V, results, b, l, w)
    BY <1>2, <1>3 DEF Parts
  <2> HIDE DEF w, l, whole, V
  <2>3. results \o b \o (l \o w) = (results \o b \o l) \o w
    BY SMTT(30), <2>2, MoreBehind
  <2> QED BY <1>4, <1>6, <2>1, <2>3
<1>11. DueInv'
  <2>1. WrittenInv /\ DueInv
    BY DEF LinkInv
  <2> QED BY <1>1, <1>7, <1>9, <1>10, <2>1, LaterItemDue
<1>12. RoundTrip'
  <2>1. Prefix(results, whole) /\ results' = results
    BY <1>1 DEF LinkInv, RoundTrip, readerVars
  <2> QED BY <1>2, <1>3, <1>4, <2>1, LongerPrefix DEF RoundTrip
<1> QED BY <1>8, <1>11, <1>12 DEF LinkInv

\* Of what is accepted nothing is lost between the writer and the script, and
\* nothing that the reader sees changes.
LEMMA ScriptStands ==
  ASSUME ReaderInv, LinkInv, UNCHANGED <<readerVars, script, reading>>,
         pieces' \in Seq(Seq(Byte)), accepted' \o FlattenSeq(pieces') = BytesOf(script)
  PROVE  LinkInv'
<1>1. WrittenInv /\ DueInv /\ RoundTrip
  BY DEF LinkInv
<1>2. WrittenInv'
  BY <1>1 DEF WrittenInv
<1>3. DueInv'
  <2>1. Later' = Later /\ Current' = Current
    BY DEF Later, Current
  <2>2. UNCHANGED <<op, left, taken, results, items, need, scale, rv>>
    BY DEF readerVars
  <2> QED BY <1>1, <2>1, <2>2, NothingTaken
<1>4. RoundTrip'
  BY <1>1 DEF RoundTrip, readerVars
<1> QED BY <1>2, <1>3, <1>4 DEF LinkInv

\* write_strings goes on with its next piece (bufferedwriter.pyx:49-60).
LEMMA WritePieceKeeps ==
  ASSUME ReaderInv, WriterInv, LinkInv, WritePiece
  PROVE  LinkInv'
<1> DEFINE V == Seq(Byte)
           h == Head(pieces)
           g == FlattenSeq(Tail(pieces))
           ac == accepted
<1>1. /\ pieces # <<>> /\ pieces' = Tail(pieces) /\ accepted' = ac \o h
      /\ UNCHANGED <<readerVars, script, reading>>
  BY DEF WritePiece, Write
<1>2. pieces \in Seq(V) /\ ac \o FlattenSeq(pieces) = BytesOf(script)
  BY DEF LinkInv, WrittenInv
<1>3. h \in V /\ Tail(pieces) \in Seq(V) /\ pieces = <<h>> \o Tail(pieces)
  <2> HIDE DEF V
  <2> QED BY <1>1, <1>2
<1>4. FlattenSeq(pieces) = h \o g
  BY <1>3, FlattenPrepend
<1>5. h \in Seq(Byte) /\ g \in Seq(Byte) /\ ac \in Seq(Byte)
  BY <1>3, WriterNumbers, FlattenType
<1>6. (ac \o h) \o g = ac \o (h \o g)
  <2> HIDE DEF h, g, ac
  <2> QED BY <1>5, ConcatAssociative, SMTT(30)
<1>7. accepted' \o FlattenSeq(pieces') = BytesOf(script)
  BY <1>1, <1>2, <1>4, <1>6
<1> QED BY <1>1, <1>3, <1>7, ScriptStands

\* The writer's own steps accept nothing (bufferedwriter.pyx:31-47).
LEMMA WriterStepDue ==
  ASSUME ReaderInv, LinkInv, FlushItems \/ WriterStep
  PROVE  LinkInv'
<1>1. UNCHANGED <<readerVars, linkVars, accepted>>
  BY DEF FlushItems, WriterStep, WriterProceeds, CopyIn, FlushFull, EndWrite, Flush, WriteFails
<1>2. UNCHANGED <<readerVars, script, reading>> /\ pieces' = pieces
  BY <1>1 DEF linkVars
<1>3. pieces' \in Seq(Seq(Byte)) /\ accepted' \o FlattenSeq(pieces') = BytesOf(script)
  BY <1>1, <1>2 DEF LinkInv, WrittenInv
<1> QED BY <1>2, <1>3, ScriptStands

\* What the reader sees of an item as it goes on with it (bufferedreader.pyx:26-178).
LEMMA ReaderStepDue ==
  ASSUME ReaderInv, ReaderInv', WriterInv, LinkInv, ReaderStep,
         Stream!Prefix(taken, accepted)',
         (ReaderInv /\ WrittenInv /\ DueInv /\ op # "failed" => RoundTrip)'
  PROVE  LinkInv'
<1>1. /\ UNCHANGED <<writerVars, linkVars>> /\ WrittenInv /\ DueInv /\ RoundTrip
  BY DEF ReaderStep, LinkInv
<1>2. UNCHANGED <<script, pieces, reading, accepted>>
  BY <1>1 DEF writerVars, linkVars
<1>3. WrittenInv'
  BY <1>1, <1>2 DEF WrittenInv
<1>4. CASE ReaderProceeds
  <2>1. Later' = Later /\ Current' = Current /\ Prefix(taken', BytesOf(script))
    BY <1>1, <1>2, TakenOfScript DEF Later, Current
  <2>2. DueInv'
    BY <1>1, <1>2, <1>4, <2>1, ReaderProceedsDue DEF Framed
  <2>3. op' # "failed"
    BY <1>4 DEF ReaderProceeds, CopyBytes, ReturnBytes, TakeOne, LengthByte, StringInBuffer,
                StringCut, Refill, StringRest, EndString, Waiting
  <2> QED BY <1>3, <2>2, <2>3 DEF LinkInv
<1>5. CASE ReadFails
  <2>1. op' = "failed" /\ results' = results
    BY <1>5 DEF ReadFails
  <2>2. DueInv' /\ RoundTrip'
    BY <1>1, <1>2, <2>1 DEF DueInv, RoundTrip
  <2> QED BY <1>3, <2>2 DEF LinkInv
<1> QED BY <1>4, <1>5 DEF ReaderStep

\* The reader begins an item (bufferedreader.pyx:26-36, 53-56, 63-106).
LEMMA ReadItemKeeps ==
  ASSUME ReaderInv, ReaderInv', WriterInv, LinkInv, ReadItem,
         Stream!Prefix(taken, accepted)',
         (ReaderInv /\ WrittenInv /\ DueInv /\ op # "failed" => RoundTrip)'
  PROVE  LinkInv'
<1>1. /\ WrittenInv /\ DueInv
      /\ reading < Len(script) /\ reading' = reading + 1
      /\ UNCHANGED <<writerVars, script, pieces>>
  BY DEF ReadItem, LinkInv
<1>2. UNCHANGED <<script, pieces, accepted>>
  BY <1>1 DEF writerVars
<1>3. WrittenInv'
  <2>1. reading' \in 0..Len(script)
    BY <1>1, LinkTypes
  <2> QED BY <1>1, <1>2, <2>1 DEF WrittenInv
<1>4. DueInv'
  BY <1>1, <1>2, TakenOfScript, ReadItemDue
<1>5. op' # "failed"
  BY DEF ReadItem, ReadBuffered, ReadLoop, ReadOne, ReadStrings
<1> QED BY <1>3, <1>4, <1>5 DEF LinkInv

\* Whoever knows which item comes next asks for nothing that the ends of a channel
\* could not be asked for.
LEMMA LinkStepOfChannel ==
  ASSUME ReaderInv, WrittenInv, [LinkNext]_vars
  PROVE  [ChannelNext]_channelVars
<1>1. ASSUME NEW item \in Items, WriteItem(item) PROVE ChannelNext
  <2>1. Head(Pieces(item)) \in Seq(Byte)
    <3> DEFINE V == Seq(Byte)
               P == Pieces(item)
    <3>1. P \in Seq(V) /\ P # <<>>
      BY PiecesOfItem
    <3> HIDE DEF V, P
    <3>2. Head(P) \in V
      BY <3>1
    <3> QED BY <3>2 DEF V, P
  <2> QED BY <1>1, <2>1 DEF WriteItem, ChannelNext, WriterNext
<1>2. CASE WritePiece
  <2>1. Head(pieces) \in Seq(Byte)
    <3> DEFINE V == Seq(Byte)
    <3>1. pieces \in Seq(V) /\ pieces # <<>>
      BY <1>2 DEF WritePiece, WrittenInv
    <3> HIDE DEF V
    <3>2. Head(pieces) \in V
      BY <3>1
    <3> QED BY <3>2 DEF V
  <2> QED BY <1>2, <2>1 DEF WritePiece, ChannelNext, WriterNext
<1>3. CASE FlushItems \/ WriterStep
  BY <1>3 DEF FlushItems, WriterStep, ChannelNext, WriterNext
<1>4. CASE ReadItem
  <2> DEFINE item == script[reading']
  <2>1. item \in Items
    BY <1>4, LinkTypes DEF ReadItem
  <2>2. Len(item.values) \in Nat /\ Len(item.values[1]) \in Nat
    <3>1. Len(item.values) \in Nat /\ item.values[1] \in Seq(Byte)
      BY <2>1, PiecesOfItem
    <3> QED BY <3>1
  <2>3. ReaderNext
    BY <1>4, <2>2 DEF ReadItem, ReaderNext
  <2> QED BY <1>4, <2>3 DEF ReadItem, ChannelNext
<1>5. CASE ReaderStep
  BY <1>5 DEF ReaderStep, ChannelNext, ReaderNext
<1>6. CASE UNCHANGED vars
  BY <1>6 DEF vars
<1> QED BY <1>1, <1>2, <1>3, <1>4, <1>5, <1>6 DEF LinkNext

\* Every step keeps the script made up of what has come out and what is due.
LEMMA LinkStepKeeps ==
  ASSUME ReaderInv, WriterInv, LinkInv, [LinkNext]_vars,
         ReaderInv', Stream!Prefix(taken, accepted)',
         (ReaderInv /\ WrittenInv /\ DueInv /\ op # "failed" => RoundTrip)'
  PROVE  LinkInv'
<1>1. CASE UNCHANGED vars
  <2>1. UNCHANGED <<readerVars, script, reading>> /\ pieces' = pieces /\ accepted' = accepted
    BY <1>1 DEF vars, channelVars, linkVars, writerVars
  <2>2. pieces' \in Seq(Seq(Byte)) /\ accepted' \o FlattenSeq(pieces') = BytesOf(script)
    BY <2>1 DEF LinkInv, WrittenInv
  <2> QED BY <2>1, <2>2, ScriptStands
<1>2. CASE \E item \in Items: WriteItem(item)
  BY <1>2, WriteItemKeeps
<1> QED BY <1>1, <1>2, WritePieceKeeps, WriterStepDue, ReaderStepDue, ReadItemKeeps DEF LinkNext

\* Nothing is written and nothing is due.
LEMMA LinkBegins == LinkInit => LinkInv
<1> SUFFICES ASSUME LinkInit PROVE LinkInv
  OBVIOUS
<1>1. /\ script = <<>> /\ pieces = <<>> /\ reading = 0
      /\ op = "none" /\ taken = <<>> /\ results = <<>> /\ accepted = <<>>
  BY DEF LinkInit, ChannelInit, ReaderInit, WriterInit
<1>2. /\ BytesOf(<<>>) = <<>> /\ ValuesOf(<<>>) = <<>> /\ FlattenSeq(<<>>) = <<>>
  <2>1. FlattenSeq(<<>>) = <<>>
    BY DEF FlattenSeq
  <2>2. BytesOf(<<>>) = FlattenSeq(<<>>)
    BY DEF BytesOf
  <2>3. ValuesOf(<<>>) = FlattenSeq(<<>>)
    BY DEF ValuesOf
  <2> QED BY <2>1, <2>2, <2>3
<1>3. Later = <<>>
  BY <1>1, SubSeqEmpty DEF Later
<1>4. <<>> \o <<>> = <<>>
  OBVIOUS
<1>5. script \in Seq(Items) /\ pieces \in Seq(Seq(Byte)) /\ reading \in 0..Len(script)
  BY <1>1
<1>6. WrittenInv
  BY <1>1, <1>2, <1>4, <1>5 DEF WrittenInv
<1>7. DueInv
  BY <1>1, <1>2, <1>3, <1>4 DEF DueInv, BytesDue, ValuesDue
<1>8. RoundTrip
  <2>1. Len(<<>>) = 0 /\ SubSeq(<<>>, 1, 0) = <<>>
    BY SubSeqEmpty
  <2> QED BY <1>1, <1>2, <2>1 DEF RoundTrip, Prefix
<1> QED BY <1>6, <1>7, <1>8 DEF LinkInv

-----------------------------------------------------------------------------
(* the theorems *)

\* What has come out and what is due make up the script, in every state, for every
\* size of the buffers and every script of items (bufferedwriter.pyx:31-60,
\* bufferedreader.pyx:26-178, varint.pyx:5-26).
THEOREM LinkInvariant == LinkSpec => [](ReaderInv /\ WriterInv /\ LinkInv)
<1>1. LinkInit => ReaderInv /\ WriterInv /\ LinkInv
  BY ReaderInitInvariant, WriterInitInvariant, LinkBegins DEF LinkInit, ChannelInit
<1>2. ReaderInv /\ WriterInv /\ LinkInv /\ [LinkNext]_vars => (ReaderInv /\ WriterInv)'
  BY LinkStepOfChannel, ChannelStepKeeps DEF LinkInv
<1>3. ReaderInv /\ WriterInv => Stream!Prefix(taken, accepted)
  BY TakenIsPrefix
<1>4. ReaderInv /\ WrittenInv /\ DueInv /\ op # "failed" => RoundTrip
  BY DueInvShows
<1>5. /\ ReaderInv /\ WriterInv /\ LinkInv /\ [LinkNext]_vars
      /\ ReaderInv' /\ Stream!Prefix(taken, accepted)'
      /\ (ReaderInv /\ WrittenInv /\ DueInv /\ op # "failed" => RoundTrip)'
      => LinkInv'
  BY LinkStepKeeps
<1> QED BY <1>1, <1>2, <1>3, <1>4, <1>5, PTL DEF LinkSpec

\* What comes out, item for item, is what went in, empty strings and strings longer
\* than the buffer included (bufferedwriter.pyx:49-60, bufferedreader.pyx:63-178,
\* varint.pyx:5-26).
THEOREM ItemsComeBack == LinkSpec => []RoundTrip
<1>1. LinkInv => RoundTrip
  BY DEF LinkInv
<1> QED BY <1>1, LinkInvariant, PTL

\* Writing and reading items is one use of a channel, so all that is proved of the
\* channel holds of it (bufferedwriter.pyx:15-60, bufferedreader.pyx:15-178).
THEOREM LinkIsChannel == LinkSpec => ChannelSpec
<1>1. LinkInit => ChannelInit
  BY DEF LinkInit
<1>2. ReaderInv /\ WriterInv /\ LinkInv /\ [LinkNext]_vars => [ChannelNext]_channelVars
  BY LinkStepOfChannel DEF LinkInv
<1> QED BY <1>1, <1>2, LinkInvariant, PTL DEF LinkSpec, ChannelSpec
=============================================================================

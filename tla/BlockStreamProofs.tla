-------------------------- MODULE BlockStreamProofs --------------------------
(***************************************************************************)
(* Data is cut into chunks that put together are the data, each no longer  *)
(* than asked for; so data that is sent is rectangular, and as many rows   *)
(* are sent as were given (client.py:545-576, util/helpers.py:4-47,        *)
(* numpy/helpers.py:5-26, block.py:68-200). Columns come back at every     *)
(* depth of nesting; so blocks do, one behind the other, and the data that *)
(* they were cut from (columns/, streams/native.py:16-90, result.py:22-43).*)
(***************************************************************************)
EXTENDS BlockStream, SliceLemmas

-----------------------------------------------------------------------------
(* The least and the greatest of some numbers *)

LEMMA MinOfTwo ==
  ASSUME NEW a \in Int, NEW b \in Int
  PROVE  Min({a, b}) = IF a <= b THEN a ELSE b
<1> DEFINE m == IF a <= b THEN a ELSE b
<1>1. m \in {a, b} /\ \A y \in {a, b}: m <= y
  OBVIOUS
<1>2. ASSUME NEW x \in {a, b}, \A y \in {a, b}: x <= y PROVE x = m
  BY <1>2
<1> HIDE DEF m
<1>3. Min({a, b}) = m
  BY <1>1, <1>2 DEF Min
<1> QED BY <1>3 DEF m

LEMMA MinOfSet ==
  ASSUME NEW T \in SUBSET Nat, T # {}
  PROVE  Min(T) \in T /\ \A k \in T: Min(T) <= k
<1>1. \E m \in T: \A k \in T: m <= k
  BY LeastNatural
<1> QED BY <1>1 DEF Min

\* Numbers that are counted have an upper bound.
LEMMA Bounded ==
  ASSUME NEW k \in Nat, NEW f, \A i \in 1..k: f[i] \in Nat
  PROVE  \E m \in Nat: \A i \in 1..k: f[i] <= m
<1> DEFINE T == {j \in Nat : j <= k => \E m \in Nat: \A i \in 1..j: f[i] <= m}
<1>1. 0 \in T
  OBVIOUS
<1>2. ASSUME NEW j \in Nat, j \in T PROVE j + 1 \in T
  <2> SUFFICES ASSUME j + 1 <= k PROVE \E m \in Nat: \A i \in 1..(j + 1): f[i] <= m
    OBVIOUS
  <2>1. PICK m \in Nat: \A i \in 1..j: f[i] <= m
    BY <1>2
  <2>2. PICK l \in Nat: l = f[j + 1]
    <3>1. j + 1 \in 1..k
      OBVIOUS
    <3> QED BY <3>1
  <2>3. \A i \in 1..(j + 1): i \in 1..j \/ i = j + 1
    OBVIOUS
  <2>4. m + l \in Nat /\ m <= m + l /\ l <= m + l
    OBVIOUS
  <2>5. ASSUME NEW i \in 1..(j + 1) PROVE f[i] <= m + l
    <3>1. CASE i \in 1..j
      <4>1. f[i] <= m /\ f[i] \in Nat
        BY <2>1, <3>1
      <4> QED BY <4>1, <2>4
    <3>2. CASE i = j + 1
      BY <2>2, <2>4, <3>2
    <3> QED BY <2>3, <3>1, <3>2
  <2> QED BY <2>4, <2>5
<1>3. Nat \subseteq T
  <2> HIDE DEF T
  <2> QED BY <1>1, <1>2, InductionBySet
<1>4. k \in T
  BY <1>3
<1> QED BY <1>4

LEMMA MaxOfSome ==
  ASSUME NEW k \in Nat, NEW f, \A i \in 1..k: f[i] \in Nat, NEW T,
         T = {0} \cup {f[i] : i \in 1..k}
  PROVE  Max(T) \in T /\ \A x \in T: x <= Max(T)
<1>1. T \subseteq Nat /\ 0 \in T
  OBVIOUS
<1> DEFINE U == {m \in Nat : \A x \in T: x <= m}
<1>2. U \in SUBSET Nat /\ U # {}
  <2>1. PICK m \in Nat: \A i \in 1..k: f[i] <= m
    BY Bounded
  <2>2. m \in U
    BY <2>1
  <2> QED BY <2>2
<1>3. PICK m \in U: \A l \in U: m <= l
  BY <1>2, LeastNatural
<1>4. m \in T
  <2> SUFFICES ASSUME m \notin T PROVE FALSE
    OBVIOUS
  <2>1. m \in Nat /\ m # 0 /\ \A x \in T: x <= m /\ x # m /\ x \in Nat
    BY <1>1, <1>3
  <2>2. m - 1 \in U /\ ~(m <= m - 1)
    BY <2>1
  <2> QED BY <1>3, <2>2
<1>5. \A x \in T: m >= x
  BY <1>1, <1>3
<1>6. Max(T) \in T /\ \A x \in T: Max(T) >= x
  BY <1>4, <1>5 DEF Max
<1> QED BY <1>1, <1>6

-----------------------------------------------------------------------------
(* A sequence and its chunks *)

\* The chunks are the slices of seq between the numbers of end, one behind the other,
\* up to its end; no more than most are in one, and none is empty before the end.
CutsInto(chunks, seq, end, most) ==
  /\ end \in [Nat -> 0..Len(seq)] /\ end[0] = 0
  /\ Len(chunks) \in Nat /\ chunks = [i \in 1..Len(chunks) |-> chunks[i]]
  /\ \A i \in 1..Len(chunks): chunks[i] = SubSeq(seq, end[i - 1] + 1, end[i])
  /\ \A i \in Nat: i >= Len(chunks) => end[i] = Len(seq)
  /\ \A i \in Nat: end[i] <= end[i + 1] /\ end[i + 1] - end[i] <= most
  /\ \A i \in Nat: end[i + 1] = end[i] => end[i] = Len(seq)

\* Some numbers are above others, as often as they are taken.
LEMMA MoreOften ==
  ASSUME NEW i \in Nat, NEW k \in Nat, NEW n \in Nat, i >= k
  PROVE  i * n \in Nat /\ k * n \in Nat /\ i * n >= k * n
<1>1. PICK d \in Nat: i = k + d
  <2>1. i - k \in Nat /\ i = k + (i - k)
    OBVIOUS
  <2> QED BY <2>1
<1>2. k * n \in Nat /\ d * n \in Nat
  BY NaturalProduct
<1>3. i * n = k * n + d * n
  BY <1>1
<1> QED BY <1>2, <1>3

\* A list that is made index by index.
LEMMA ListByIndex ==
  ASSUME NEW k \in Nat, NEW f, DOMAIN f = 1..k, f = [i \in DOMAIN f |-> f[i]]
  PROVE  Len(f) = k /\ f = [i \in 1..k |-> f[i]]
OBVIOUS

\* chunks.
LEMMA ChunksCut ==
  ASSUME NEW seq, Len(seq) \in Nat, NEW n \in Nat \ {0}
  PROVE  CutsInto(Chunks(seq, n), seq, [i \in Nat |-> ChunkEnd(seq, n, i)], n)
<1>1. PICK l \in Nat: l = Len(seq)
  OBVIOUS
<1>2. PICK k \in Int, r \in 0..(n - 1): k = (l + n - 1) \div n /\ l + n - 1 = n * k + r
  <2>1. l + n - 1 \in Int /\ n \in Nat /\ n > 0
    OBVIOUS
  <2> QED BY <2>1, Division
<1>3. k \in Nat /\ k * n >= l
  <2>1. k * n = n * k
    OBVIOUS
  <2>2. n * k >= l /\ n * k > -n
    BY <1>2
  <2>3. ASSUME k < 0 PROVE FALSE
    <3>1. -k \in Int /\ -k >= 1 /\ n * (-k) = -(n * k)
      BY <2>3
    <3>2. n * (-k) >= n
      BY <3>1, AtLeastOnce
    <3> QED BY <2>2, <3>1, <3>2
  <2> QED BY <2>1, <2>2, <2>3
<1> DEFINE e(i) == IF i * n <= l THEN i * n ELSE l
<1>4. \A i \in Nat: i * n \in Nat /\ (i + 1) * n = i * n + n /\ ChunkEnd(seq, n, i) = e(i)
  <2> TAKE i \in Nat
  <2>1. i * n \in Nat
    BY NaturalProduct
  <2>2. (i + 1) * n = i * n + n
    OBVIOUS
  <2>3. ChunkEnd(seq, n, i) = e(i)
    BY <1>1, <2>1, MinOfTwo DEF ChunkEnd
  <2> QED BY <2>1, <2>2, <2>3
<1>5. \A i \in Nat: /\ e(i) \in 0..l /\ e(i) <= e(i + 1) /\ e(i + 1) - e(i) <= n
                    /\ e(i + 1) = e(i) => e(i) = l
  <2> TAKE i \in Nat
  <2>1. PICK m \in Nat: m = i * n /\ (i + 1) * n = m + n
    BY <1>4
  <2> QED BY <2>1
<1>6. \A i \in Nat: i >= k => e(i) = l
  <2> TAKE i \in Nat
  <2>1. i >= k => i * n \in Nat /\ k * n \in Nat /\ i * n >= k * n
    BY <1>3, MoreOften
  <2> QED BY <1>3, <2>1
<1>7. e(0) = 0
  OBVIOUS
<1> DEFINE end == [i \in Nat |-> ChunkEnd(seq, n, i)]
<1> HIDE DEF e
<1>8. \A i \in Nat: end[i] = e(i)
  BY <1>4
<1>9. /\ Len(Chunks(seq, n)) = k /\ Chunks(seq, n) = [i \in 1..k |-> Chunks(seq, n)[i]]
      /\ \A i \in 1..k: Chunks(seq, n)[i] = SubSeq(seq, end[i - 1] + 1, end[i])
  <2>1. Chunks(seq, n) =
          [i \in 1..k |-> SubSeq(seq, ChunkEnd(seq, n, i - 1) + 1, ChunkEnd(seq, n, i))]
    BY <1>1, <1>2 DEF Chunks
  <2>2. Len(Chunks(seq, n)) = k /\ Chunks(seq, n) = [i \in 1..k |-> Chunks(seq, n)[i]]
    <3> DEFINE f == Chunks(seq, n)
    <3>1. DOMAIN f = 1..k
      BY <2>1
    <3>2. f = [i \in DOMAIN f |-> f[i]]
      BY <2>1, Zenon
    <3> HIDE DEF f
    <3>3. Len(f) = k /\ f = [i \in 1..k |-> f[i]]
      BY <1>3, <3>1, <3>2, ListByIndex
    <3> QED BY <3>3 DEF f
  <2>3. \A i \in 1..k: i \in Nat /\ i - 1 \in Nat
    OBVIOUS
  <2> QED BY <2>1, <2>2, <2>3
<1>10. end \in [Nat -> 0..l]
  BY <1>4, <1>5
<1> HIDE DEF end
<1>11. CutsInto(Chunks(seq, n), seq, end, n)
  <2>1. \A i \in Nat: i + 1 \in Nat
    OBVIOUS
  <2>2. /\ end \in [Nat -> 0..Len(seq)] /\ end[0] = 0
        /\ Len(Chunks(seq, n)) \in Nat
        /\ Chunks(seq, n) = [i \in 1..Len(Chunks(seq, n)) |-> Chunks(seq, n)[i]]
    BY <1>1, <1>3, <1>7, <1>8, <1>9, <1>10
  <2>3. \A i \in Nat: i >= Len(Chunks(seq, n)) => end[i] = Len(seq)
    BY <1>1, <1>6, <1>8, <1>9
  <2>4. \A i \in Nat: /\ end[i] <= end[i + 1] /\ end[i + 1] - end[i] <= n
                      /\ end[i + 1] = end[i] => end[i] = Len(seq)
    BY <1>1, <1>5, <1>8, <2>1
  <2> QED BY <1>9, <2>2, <2>3, <2>4 DEF CutsInto
<1> QED BY <1>11 DEF end

\* One chunk is all there is.
LEMMA WholeCut ==
  ASSUME NEW seq, Len(seq) \in Nat, seq = [i \in 1..Len(seq) |-> seq[i]],
         NEW most \in Nat, Len(seq) <= most
  PROVE  CutsInto(<<seq>>, seq, [i \in Nat |-> IF i = 0 THEN 0 ELSE Len(seq)], most)
<1> DEFINE end == [i \in Nat |-> IF i = 0 THEN 0 ELSE Len(seq)]
<1>1. end \in [Nat -> 0..Len(seq)] /\ end[0] = 0 /\ \A i \in Nat: i >= 1 => end[i] = Len(seq)
  OBVIOUS
<1>2. seq = SubSeq(seq, 1, Len(seq))
  <2> DEFINE S == {seq[i] : i \in 1..Len(seq)}
  <2>1. seq \in Seq(S)
    OBVIOUS
  <2> HIDE DEF S
  <2> QED BY <2>1, WholePrefix
<1> HIDE DEF end
<1>3. \A i \in 1..1: i = 1 /\ end[i - 1] + 1 = 1 /\ end[i] = Len(seq)
  BY SMTT(30), <1>1
<1>4. \A i \in Nat: i + 1 \in Nat /\ i + 1 >= 1 /\ (i = 0 \/ i >= 1)
  OBVIOUS
<1>5. Len(<<seq>>) = 1 /\ <<seq>>[1] = seq
  OBVIOUS
<1>6. \A i \in Nat: /\ end[i] <= end[i + 1] /\ end[i + 1] - end[i] <= most
                    /\ end[i + 1] = end[i] => end[i] = Len(seq)
  <2> TAKE i \in Nat
  <2>1. end[i + 1] = Len(seq)
    BY <1>1, <1>4
  <2>2. end[i] = 0 \/ end[i] = Len(seq)
    BY <1>1, <1>4
  <2> QED BY <2>1, <2>2
<1>7. \A i \in 1..1: <<seq>>[i] = SubSeq(seq, end[i - 1] + 1, end[i])
  BY <1>2, <1>3, <1>5
<1> DEFINE chunks == <<seq>>
<1>8. /\ Len(chunks) = 1 /\ chunks = [i \in 1..1 |-> chunks[i]]
      /\ \A i \in 1..1: chunks[i] = SubSeq(seq, end[i - 1] + 1, end[i])
  BY <1>5, <1>7
<1> HIDE DEF chunks
<1>9. CutsInto(chunks, seq, end, most)
  <2>1. Len(chunks) \in Nat /\ chunks = [i \in 1..Len(chunks) |-> chunks[i]]
    BY <1>8
  <2>2. \A i \in 1..Len(chunks): chunks[i] = SubSeq(seq, end[i - 1] + 1, end[i])
    BY <1>8
  <2>3. \A i \in Nat: i >= Len(chunks) => end[i] = Len(seq)
    BY <1>1, <1>8
  <2> QED BY <1>1, <1>6, <2>1, <2>2, <2>3 DEF CutsInto
<1> QED BY <1>9 DEF chunks, end

\* As many parts as whole chunks fit: each is less than twice as long.
LEMMA PartsAreShort ==
  ASSUME NEW l \in Nat, NEW n \in Nat \ {0}, l > n,
         NEW k \in Int, NEW r \in 0..(n - 1), l = n * k + r,
         NEW q \in Int, NEW m \in 0..(k - 1), l = k * q + m
  PROVE  q >= 1 /\ q <= 2 * n - 1 /\ (m > 0 => q + 1 <= 2 * n - 1)
<1>1. k >= 1
  OBVIOUS
<1>2. n * k >= k
  <2>1. k * n >= k /\ k * n = n * k
    BY <1>1, AtLeastOnce
  <2> QED BY <2>1
<1>3. q >= 1
  <2> SUFFICES ASSUME q <= 0 PROVE FALSE
    OBVIOUS
  <2>1. -q \in Nat /\ k \in Nat /\ k * (-q) = -(k * q)
    BY <1>1
  <2>2. k * (-q) \in Nat
    BY <2>1, NaturalProduct
  <2> QED BY <1>2, <2>1, <2>2
<1>4. \A a, b \in Nat: k * (a + b) = k * a + k * b
  BY <1>1
<1>5. ASSUME q >= 2 * n PROVE FALSE
  <2>1. PICK a \in Nat: a = q - 2 * n
    BY <1>5
  <2>2. k * q = k * (2 * n) + k * a /\ k * (2 * n) = 2 * (n * k)
    BY <1>1, <2>1
  <2>3. k * a \in Nat /\ n * k \in Nat
    BY <1>1, NaturalProduct
  <2>4. n * k >= n
    BY <1>1, AtLeastOnce
  <2> QED BY <2>2, <2>3, <2>4
<1>6. ASSUME q = 2 * n - 1, m > 0 PROVE FALSE
  <2>1. PICK a \in Nat: a = n - 1
    OBVIOUS
  <2>2. k * q = n * k + k * a
    BY <1>1, <1>6, <2>1
  <2>3. a * k >= a /\ a * k = k * a
    BY <1>1, <2>1, AtLeastOnce
  <2> QED BY <1>6, <2>1, <2>2, <2>3
<1> QED BY <1>3, <1>5, <1>6

\* numpy's column_chunks.
LEMMA NumpyChunksCut ==
  ASSUME NEW seq, Len(seq) \in Nat, NEW n \in Nat \ {0}, Len(seq) > n
  PROVE  CutsInto(NumpyChunks(seq, n), seq,
                  [i \in Nat |-> Min({SplitEnd(seq, Len(seq) \div n, i), Len(seq)})],
                  2 * n - 1)
<1>1. PICK l \in Nat: l = Len(seq)
  OBVIOUS
<1>2. PICK k \in Int, r \in 0..(n - 1): k = l \div n /\ l = n * k + r
  <2>1. l \in Int /\ n \in Nat /\ n > 0
    OBVIOUS
  <2> QED BY <2>1, Division
<1>3. k \in Nat /\ k >= 1
  <2> SUFFICES ASSUME k <= 0 PROVE FALSE
    OBVIOUS
  <2>1. -k \in Nat /\ n \in Nat /\ n * (-k) = -(n * k)
    OBVIOUS
  <2>2. n * (-k) \in Nat
    BY <2>1, NaturalProduct
  <2> QED BY <1>1, <1>2, <2>1, <2>2
<1>4. PICK q \in Int, m \in 0..(k - 1): q = l \div k /\ m = l % k /\ l = k * q + m
  <2>1. l \in Int /\ k \in Nat /\ k > 0
    BY <1>3
  <2> QED BY <2>1, Division
<1>5. q >= 1 /\ q <= 2 * n - 1 /\ (m > 0 => q + 1 <= 2 * n - 1)
  BY <1>1, <1>2, <1>4, PartsAreShort
<1> DEFINE s(i) == i * q + IF i <= m THEN i ELSE m
<1> DEFINE e(i) == IF s(i) <= l THEN s(i) ELSE l
<1>6. \A i \in Nat: /\ i * q \in Nat /\ (i + 1) * q = i * q + q
                    /\ SplitEnd(seq, k, i) = s(i) /\ s(i) \in Nat
  <2> TAKE i \in Nat
  <2>1. i * q \in Nat
    BY <1>5, NaturalProduct
  <2>2. (i + 1) * q = i * q + q
    BY <1>5
  <2>3. Min({i, m}) = IF i <= m THEN i ELSE m
    BY <1>4, MinOfTwo
  <2>4. SplitEnd(seq, k, i) = s(i)
    BY <1>1, <1>4, <2>3 DEF SplitEnd
  <2>5. s(i) \in Nat
    <3>1. PICK a \in Nat: a = i * q
      BY <2>1
    <3> QED BY <1>4, <3>1
  <2> HIDE DEF s
  <2> QED BY <2>1, <2>2, <2>4, <2>5
<1>7. \A i \in Nat: Min({SplitEnd(seq, k, i), l}) = e(i)
  <2> TAKE i \in Nat
  <2> HIDE DEF s
  <2>1. PICK a \in Int: a = s(i) /\ a = SplitEnd(seq, k, i)
    BY SMTT(30), <1>6
  <2>2. Min({a, l}) = IF a <= l THEN a ELSE l
    BY MinOfTwo
  <2> QED BY <2>1, <2>2
<1>8. \A i \in Nat: /\ e(i) \in 0..l /\ e(i) <= e(i + 1) /\ e(i + 1) - e(i) <= 2 * n - 1
                    /\ e(i + 1) = e(i) => e(i) = l
  <2> TAKE i \in Nat
  <2>1. PICK a \in Nat: a = i * q /\ (i + 1) * q = a + q
    BY <1>6
  <2>2. s(i) \in Nat /\ s(i + 1) \in Nat /\ s(i + 1) > s(i) /\ s(i + 1) - s(i) <= 2 * n - 1
    <3>1. /\ s(i) = a + IF i <= m THEN i ELSE m
          /\ s(i + 1) = a + q + IF i + 1 <= m THEN i + 1 ELSE m
      BY <2>1
    <3> HIDE DEF s
    <3>u. PICK u \in Int: u = s(i) /\ u = a + IF i <= m THEN i ELSE m
      BY <3>1, <1>4
    <3>v. PICK v \in Int: v = s(i + 1) /\ v = a + q + IF i + 1 <= m THEN i + 1 ELSE m
      BY <3>1, <1>4
    <3>2. /\ u = s(i) /\ u = a + IF i <= m THEN i ELSE m
          /\ v = s(i + 1) /\ v = a + q + IF i + 1 <= m THEN i + 1 ELSE m
      BY <3>u, <3>v
    <3>3. u \in Nat /\ v \in Nat /\ v > u
      BY SMTT(30), <1>4, <1>5, <3>2
    <3>4. v - u <= 2 * n - 1
      <4>1. CASE i + 1 <= m
        <5>1. m > 0 /\ v - u = q + 1
          BY <1>4, <3>2, <4>1
        <5> QED BY <1>5, <5>1
      <4>2. CASE ~(i + 1 <= m)
        <5>1. v - u = q
          BY <1>4, <3>2, <4>2
        <5> QED BY <1>5, <5>1
      <4> QED BY <4>1, <4>2
    <3> QED BY <3>2, <3>3, <3>4
  <2> HIDE DEF s
  <2> QED BY <1>1, <2>2
<1>9. \A i \in Nat: i >= k => s(i) >= l
  <2> TAKE i \in Nat
  <2>1. i >= k => i * q \in Nat /\ k * q \in Nat /\ i * q >= k * q
    BY <1>3, <1>5, MoreOften
  <2> QED BY <1>4, <2>1
<1>10. \A i \in 0..k: s(i) <= l
  <2> TAKE i \in 0..k
  <2>1. k * q \in Nat /\ i * q \in Nat /\ k * q >= i * q
    BY <1>3, <1>5, MoreOften
  <2> QED BY <1>4, <2>1
<1>11. e(0) = 0
  BY <1>4
<1> DEFINE end == [i \in Nat |-> Min({SplitEnd(seq, Len(seq) \div n, i), Len(seq)})]
<1>12. end \in [Nat -> 0..l] /\ \A i \in Nat: end[i] = e(i)
  BY <1>1, <1>2, <1>7, <1>8
<1>13. \A i \in 0..k: SplitEnd(seq, k, i) = end[i]
  <2> TAKE i \in 0..k
  <2> HIDE DEF s, end
  <2>1. i \in Nat
    OBVIOUS
  <2> QED BY <2>1, <1>6, <1>10, <1>12
<1>14. \A i \in Nat: i >= k => end[i] = l
  <2> TAKE i \in Nat
  <2> HIDE DEF s, end
  <2>1. PICK a \in Nat: a = s(i)
    BY <1>6
  <2>2. i >= k => a >= l
    BY <1>9, <2>1
  <2>3. end[i] = IF a <= l THEN a ELSE l
    BY <1>12, <2>1
  <2> QED BY <2>2, <2>3
<1> HIDE DEF e, s
<1> DEFINE parts == NumpyChunks(seq, n)
<1>15. /\ Len(parts) = k /\ parts = [i \in 1..k |-> parts[i]]
       /\ \A i \in 1..k: parts[i] = SubSeq(seq, end[i - 1] + 1, end[i])
  <2>1. parts =
          [i \in 1..k |-> SubSeq(seq, SplitEnd(seq, k, i - 1) + 1, SplitEnd(seq, k, i))]
    BY <1>1, <1>2 DEF NumpyChunks, ArraySplit
  <2> HIDE DEF parts, end
  <2>2. Len(parts) = k /\ parts = [i \in 1..k |-> parts[i]]
    <3>1. DOMAIN parts = 1..k
      BY <2>1
    <3>2. parts = [i \in DOMAIN parts |-> parts[i]]
      BY <2>1, Zenon
    <3> QED BY <1>3, <3>1, <3>2, ListByIndex
  <2>3. \A i \in 1..k: i \in 0..k /\ i - 1 \in 0..k
    OBVIOUS
  <2> QED BY <1>13, <2>1, <2>2, <2>3
<1> HIDE DEF parts, end
<1>16. CutsInto(parts, seq, end, 2 * n - 1)
  <2>1. \A i \in Nat: i + 1 \in Nat
    OBVIOUS
  <2>2. end \in [Nat -> 0..Len(seq)] /\ end[0] = 0 /\ Len(parts) \in Nat
        /\ parts = [i \in 1..Len(parts) |-> parts[i]]
    BY <1>1, <1>3, <1>11, <1>12, <1>15
  <2>3. \A i \in Nat: i >= Len(parts) => end[i] = Len(seq)
    BY <1>1, <1>14, <1>15
  <2>4. \A i \in Nat: /\ end[i] <= end[i + 1] /\ end[i + 1] - end[i] <= 2 * n - 1
                      /\ end[i + 1] = end[i] => end[i] = Len(seq)
    BY <1>1, <1>8, <1>12, <2>1
  <2> QED BY <1>15, <2>2, <2>3, <2>4 DEF CutsInto
<1> QED BY <1>16 DEF end, parts

-----------------------------------------------------------------------------
(* Columns, a chunk of each at a time *)

\* A slice of any sequence.
LEMMA SliceOf ==
  ASSUME NEW s, NEW a \in Nat, NEW b \in Nat, a <= b
  PROVE  /\ Len(SubSeq(s, a + 1, b)) = b - a
         /\ \A r \in 1..(b - a): SubSeq(s, a + 1, b)[r] = s[a + r]
         /\ SubSeq(s, a + 1, b) = <<>> => a = b
         /\ DOMAIN SubSeq(s, a + 1, b) = 1..(b - a)
         /\ IsList(SubSeq(s, a + 1, b))
<1> DEFINE S == {s[i] : i \in (a + 1)..b}
<1>1. PICK n \in Nat: b = a + n
  <2>1. b - a \in Nat /\ b = a + (b - a)
    OBVIOUS
  <2> QED BY <2>1
<1>2. \A i \in (a + 1)..(a + n): s[i] \in S
  BY <1>1
<1> HIDE DEF S
<1> DEFINE x == SubSeq(s, a + 1, a + n)
<1>3. /\ x \in Seq(S) /\ Len(x) = n
      /\ \A i \in 1..n: x[i] = s[a + i]
  BY <1>2, SliceElements
<1>4. x = SubSeq(s, a + 1, b) /\ b - a = n
  BY <1>1
<1> HIDE DEF x
<1>5. DOMAIN x = 1..n /\ (x = <<>> => n = 0)
  BY <1>3
<1>6. IsList(x)
  BY <1>3, SeqIsList
<1> QED BY <1>1, <1>3, <1>4, <1>5, <1>6

\* Chunk i, or an empty one behind the last: as long as the numbers are apart, and
\* when it is empty nothing comes behind it.
LEMMA ChunkOrNothing ==
  ASSUME NEW chunks, NEW seq, NEW end, NEW most, Len(seq) \in Nat,
         CutsInto(chunks, seq, end, most), NEW i \in Nat \ {0}, NEW piece,
         piece = IF i <= Len(chunks) THEN chunks[i] ELSE <<>>
  PROVE  /\ end[i] \in Nat /\ end[i - 1] \in Nat
         /\ piece = SubSeq(seq, end[i - 1] + 1, end[i])
         /\ Len(piece) = end[i] - end[i - 1]
         /\ piece = <<>> => end[i - 1] = Len(seq)
<1>1. PICK j \in Nat: i = j + 1 /\ i - 1 = j
  <2>1. i - 1 \in Nat /\ i = (i - 1) + 1
    OBVIOUS
  <2> QED BY <2>1
<1>2. PICK l \in Nat: l = Len(seq)
  OBVIOUS
<1>3. /\ end \in [Nat -> 0..l] /\ Len(chunks) \in Nat
      /\ \A k \in 1..Len(chunks): chunks[k] = SubSeq(seq, end[k - 1] + 1, end[k])
      /\ \A k \in Nat: k >= Len(chunks) => end[k] = l
      /\ \A k \in Nat: end[k] <= end[k + 1] /\ (end[k + 1] = end[k] => end[k] = l)
  BY <1>2 DEF CutsInto
<1>a. PICK a \in 0..l: a = end[j]
  BY <1>1, <1>3
<1>b. PICK b \in 0..l: b = end[i]
  BY <1>1, <1>3
<1>c. a <= b /\ (b = a => a = l)
  BY <1>1, <1>3, <1>a, <1>b
<1>4. CASE i <= Len(chunks)
  <2>1. i \in 1..Len(chunks)
    BY <1>1, <1>3, <1>4
  <2>2. piece = SubSeq(seq, a + 1, b)
    BY <1>1, <1>3, <1>4, <1>a, <1>b, <2>1
  <2>3. Len(piece) = b - a /\ (piece = <<>> => a = b)
    <3>1. a \in Nat /\ b \in Nat /\ a <= b
      BY <1>c
    <3>2. Len(SubSeq(seq, a + 1, b)) = b - a /\ (SubSeq(seq, a + 1, b) = <<>> => a = b)
      BY ZenonT(30), <3>1, SliceOf
    <3> QED BY <2>2, <3>2
  <2>4. end[i - 1] = a /\ end[i] = b
    BY <1>1, <1>a, <1>b
  <2>5. piece = SubSeq(seq, end[i - 1] + 1, end[i])
    BY <2>2, <2>4
  <2>6. Len(piece) = end[i] - end[i - 1] /\ (piece = <<>> => end[i - 1] = Len(seq))
    BY <1>2, <1>c, <2>3, <2>4
  <2> QED BY <1>2, <2>4, <2>5, <2>6
<1>5. CASE ~(i <= Len(chunks))
  <2>1. Len(piece) = 0
    BY <1>5
  <2>2. i >= Len(chunks) /\ j >= Len(chunks)
    <3>1. PICK n \in Nat: n = Len(chunks)
      BY <1>3
    <3>2. ~(i <= n) /\ i = j + 1
      BY <1>1, <1>5, <3>1
    <3> QED BY <3>1, <3>2
  <2>3. b = l /\ a = l
    BY <1>1, <1>3, <1>a, <1>b, <2>2
  <2>4. end[i] = l /\ end[i - 1] = l
    BY <1>1, <1>a, <1>b, <2>3
  <2>5. Len(piece) = end[i] - end[i - 1]
    BY <2>1, <2>4
  <2>6. piece = <<>> /\ SubSeq(seq, l + 1, l) = <<>>
    BY <1>5
  <2>7. piece = SubSeq(seq, end[i - 1] + 1, end[i])
    BY <2>4, <2>6
  <2> QED BY <1>2, <2>4, <2>5, <2>7
<1> QED BY <1>4, <1>5

\* Each of the columns is cut.
ColumnsCut(chunked, columns, end, most) ==
  /\ IsList(columns) /\ \A c \in DOMAIN columns: IsList(columns[c])
  /\ DOMAIN chunked = DOMAIN columns
  /\ \A c \in DOMAIN columns: CutsInto(chunked[c], columns[c], end[c], most)

\* A round has a chunk of each column; behind the last one nothing is left of any.
RoundsOf(rounds, columns, end) ==
  /\ IsList(rounds) /\ (columns = <<>> => Len(rounds) = 0)
  /\ \A i \in 1..Len(rounds):
       /\ DOMAIN rounds[i] = DOMAIN columns /\ Len(rounds[i]) = Len(columns)
       /\ \A c \in DOMAIN columns:
            /\ rounds[i][c] = SubSeq(columns[c], end[c][i - 1] + 1, end[c][i])
            /\ Len(rounds[i][c]) = end[c][i] - end[c][i - 1]
  /\ \A c \in DOMAIN columns: end[c][Len(rounds)] = Len(columns[c])

\* column_chunks.
LEMMA RoundsCut ==
  ASSUME NEW columns, NEW chunked, NEW end, NEW most, ColumnsCut(chunked, columns, end, most)
  PROVE  RoundsOf(UpToEmpty(Rounds(chunked)), columns, end)
<1>1. PICK k \in Nat: k = Len(columns) /\ DOMAIN columns = 1..k
  BY DEF ColumnsCut, IsList
<1>2. \A c \in 1..k: Len(columns[c]) \in Nat
  BY <1>1 DEF ColumnsCut, IsList
<1>3. DOMAIN chunked = 1..k /\ \A c \in 1..k: CutsInto(chunked[c], columns[c], end[c], most)
  BY <1>1 DEF ColumnsCut
<1>4. \A c \in 1..k: Len(chunked[c]) \in Nat /\ end[c] \in [Nat -> 0..Len(columns[c])]
  BY <1>3 DEF CutsInto
<1> DEFINE lengths == [c \in 1..k |-> Len(chunked[c])]
<1> DEFINE T == {0} \cup {Len(chunked[c]) : c \in DOMAIN chunked}
<1>5. PICK m \in Nat: m = Max(T) /\ m \in T /\ \A x \in T: x <= m
  <2>1. T = {0} \cup {lengths[c] : c \in 1..k}
    BY <1>3
  <2>2. \A c \in 1..k: lengths[c] \in Nat
    BY <1>4
  <2>t. T \subseteq Nat
    BY <1>3, <1>4
  <2> HIDE DEF T, lengths
  <2>3. Max(T) \in T /\ \A x \in T: x <= Max(T)
    BY <2>1, <2>2, MaxOfSome
  <2> QED BY <2>t, <2>3
<1> DEFINE piece(i, c) == IF i <= Len(chunked[c]) THEN chunked[c][i] ELSE <<>>
<1> DEFINE all == [i \in 1..m |-> [c \in 1..k |-> piece(i, c)]]
<1>6. Rounds(chunked) = all
  BY <1>3, <1>5 DEF Rounds
<1>7. Len(all) = m /\ DOMAIN all = 1..m
  OBVIOUS
<1>8. \A i \in 1..m: /\ DOMAIN all[i] = 1..k /\ Len(all[i]) = k
                     /\ \A c \in 1..k: all[i][c] = piece(i, c)
  OBVIOUS
<1>9. \A i \in 1..m: \A c \in 1..k:
        /\ piece(i, c) = SubSeq(columns[c], end[c][i - 1] + 1, end[c][i])
        /\ Len(piece(i, c)) = end[c][i] - end[c][i - 1]
        /\ piece(i, c) = <<>> => end[c][i - 1] = Len(columns[c])
  <2> TAKE i \in 1..m
  <2> TAKE c \in 1..k
  <2> DEFINE p == piece(i, c)
             x == chunked[c]
             y == columns[c]
             z == end[c]
  <2>1. p = IF i <= Len(x) THEN x[i] ELSE <<>>
    OBVIOUS
  <2>2. i \in Nat \ {0} /\ Len(y) \in Nat /\ CutsInto(x, y, z, most)
    BY <1>2, <1>3
  <2> HIDE DEF p, x, y, z
  <2>3. /\ p = SubSeq(y, z[i - 1] + 1, z[i])
        /\ Len(p) = z[i] - z[i - 1] /\ (p = <<>> => z[i - 1] = Len(y))
    BY <2>1, <2>2, ChunkOrNothing
  <2> QED BY <2>3 DEF p, x, y, z
<1> HIDE DEF all, piece
<1> DEFINE Empty == {i \in DOMAIN all : \A c \in DOMAIN all[i]: all[i][c] = <<>>}
<1>10. PICK n \in 0..m: /\ n = Min(Empty \cup {m + 1}) - 1
                        /\ n = m \/ n + 1 \in Empty
  <2> DEFINE U == Empty \cup {m + 1}
  <2>1. U \in SUBSET Nat /\ U # {} /\ \A x \in U: x >= 1 /\ x <= m + 1
    BY <1>7
  <2>2. \A x \in U: x = m + 1 \/ x \in Empty
    OBVIOUS
  <2> HIDE DEF U, Empty
  <2>3. PICK x \in U: x = Min(U)
    BY <2>1, MinOfSet
  <2>4. x \in Nat /\ x >= 1 /\ x <= m + 1 /\ (x = m + 1 \/ x \in Empty)
    BY <2>1, <2>2
  <2>5. x - 1 \in 0..m /\ (x - 1 = m \/ (x - 1) + 1 \in Empty)
    BY <2>4
  <2> QED BY <2>3, <2>5 DEF U
<1> DEFINE rounds == UpToEmpty(Rounds(chunked))
<1>11. rounds = SubSeq(all, 1, n)
  BY <1>6, <1>7, <1>10 DEF UpToEmpty
<1> HIDE DEF Empty
<1>12. /\ Len(rounds) = n /\ rounds = [i \in 1..n |-> rounds[i]]
       /\ \A i \in 1..n: rounds[i] = all[i]
  <2> DEFINE S == {all[i] : i \in 1..n}
  <2>1. n \in Nat /\ \A i \in 1..n: all[i] \in S
    OBVIOUS
  <2> HIDE DEF S, rounds
  <2>2. /\ SubSeq(all, 1, n) \in Seq(S) /\ Len(SubSeq(all, 1, n)) = n
        /\ \A i \in 1..n: SubSeq(all, 1, n)[i] = all[i]
    BY <2>1, FrontElements
  <2>3. rounds \in Seq(S) /\ Len(rounds) = n
    BY <1>11, <2>2
  <2>4. rounds = [i \in 1..n |-> rounds[i]]
    BY <2>3
  <2> QED BY <1>11, <2>2, <2>3, <2>4
<1>13. \A c \in 1..k: end[c][n] = Len(columns[c])
  <2> TAKE c \in 1..k
  <2>1. CASE n = m
    <3>1. Len(chunked[c]) \in T /\ Len(chunked[c]) <= m
      BY <1>3, <1>5
    <3> QED BY <1>3, <2>1, <3>1 DEF CutsInto
  <2>2. CASE n # m
    <3>1. n + 1 \in 1..m /\ n + 1 \in Empty /\ (n + 1) - 1 = n
      BY <1>10, <2>2
    <3>2. piece(n + 1, c) = <<>>
      BY <1>7, <1>8, <3>1 DEF Empty
    <3> QED BY <1>9, <3>1, <3>2
  <2> QED BY <2>1, <2>2
<1>14. columns = <<>> => n = 0
  <2> SUFFICES ASSUME columns = <<>> PROVE n = 0
    OBVIOUS
  <2>1. DOMAIN chunked = {}
    BY <1>1, <1>3
  <2>2. m = 0
    BY <1>5, <2>1
  <2> QED BY <1>10, <2>2
<1> HIDE DEF rounds
<1>15. \A i \in 1..n: /\ DOMAIN rounds[i] = 1..k /\ Len(rounds[i]) = k
                      /\ \A c \in 1..k:
                           /\ rounds[i][c] = SubSeq(columns[c], end[c][i - 1] + 1, end[c][i])
                           /\ Len(rounds[i][c]) = end[c][i] - end[c][i - 1]
  <2> TAKE i \in 1..n
  <2>1. i \in 1..m /\ rounds[i] = all[i]
    BY <1>12
  <2> QED BY <1>8, <1>9, <2>1
<1>16. RoundsOf(rounds, columns, end)
  <2>1. IsList(rounds)
    BY <1>12 DEF IsList
  <2> QED BY <1>1, <1>12, <1>13, <1>14, <1>15, <2>1 DEF RoundsOf
<1> QED BY <1>16 DEF rounds

\* What the slicer still has, one chunk less.
LEMMA OneChunkLess ==
  ASSUME NEW s, NEW k \in Nat, NEW n \in Nat, k <= n, NEW x, x = SubSeq(s, k + 1, n), x # <<>>
  PROVE  k + 1 <= n /\ Head(x) = s[k + 1] /\ Tail(x) = SubSeq(s, k + 2, n)
<1> DEFINE S == {s[i] : i \in (k + 1)..n}
<1>1. \A i \in (k + 1)..n: s[i] \in S
  OBVIOUS
<1> HIDE DEF S
<1>2. PICK d \in Nat: n = k + d
  <2>1. n - k \in Nat /\ n = k + (n - k)
    OBVIOUS
  <2> QED BY <2>1
<1>3. x \in Seq(S) /\ Len(x) = d /\ \A i \in 1..d: x[i] = s[k + i]
  BY <1>1, <1>2, SliceElements
<1>4. d >= 1
  BY <1>3
<1>5. PICK e \in Nat: d = e + 1
  <2>1. d - 1 \in Nat /\ d = (d - 1) + 1
    BY <1>4
  <2> QED BY <2>1
<1> DEFINE t == Tail(x)
<1>6. t \in Seq(S) /\ Len(t) = e /\ \A i \in 1..e: t[i] = x[i + 1]
  BY <1>3, <1>5, HeadTailProperties
<1>7. \A i \in 1..e: t[i] = s[(k + 1) + i]
  <2> TAKE i \in 1..e
  <2>1. i + 1 \in 1..d /\ k + (i + 1) = (k + 1) + i
    BY <1>5
  <2> QED BY <1>3, <1>6, <2>1
<1>8. Head(x) = s[k + 1]
  <2>1. 1 \in 1..d
    BY <1>4
  <2> QED BY <1>3, <2>1
<1> DEFINE y == SubSeq(s, (k + 1) + 1, (k + 1) + e)
<1>9. y \in Seq(S) /\ Len(y) = e /\ \A i \in 1..e: y[i] = s[(k + 1) + i]
  <2>1. PICK j \in Nat: j = k + 1
    OBVIOUS
  <2>2. \A i \in (j + 1)..(j + e): s[i] \in S
    BY <1>1, <1>2, <1>5, <2>1
  <2>3. /\ SubSeq(s, j + 1, j + e) \in Seq(S) /\ Len(SubSeq(s, j + 1, j + e)) = e
        /\ \A i \in 1..e: SubSeq(s, j + 1, j + e)[i] = s[j + i]
    BY <2>2, SliceElements
  <2> QED BY <2>1, <2>3
<1>10. y = SubSeq(s, k + 2, n)
  <2>1. (k + 1) + 1 = k + 2 /\ (k + 1) + e = n
    BY <1>2, <1>5
  <2> QED BY <2>1
<1> HIDE DEF t, y
<1>11. t = y
  BY <1>6, <1>7, <1>9, SeqEqual
<1> QED BY <1>2, <1>4, <1>8, <1>10, <1>11 DEF t

-----------------------------------------------------------------------------
(* The chunks of a job *)

\* What is cut: the rows, or one column.
PiecesOf(j, seq) ==
  CASE j.slicer = "external" -> <<seq>>
    [] j.slicer = "numpy"    -> NumpyChunks(seq, j.size)
    [] OTHER                   -> Chunks(seq, j.size)

MostOf(j, seq) ==
  CASE j.slicer = "external" -> Len(seq)
    [] j.slicer = "numpy"    -> 2 * j.size - 1
    [] OTHER                   -> j.size

EndsOf(j, seq) == [i \in Nat |-> SlicedTo(j, seq, i)]

LEMMA PiecesCut ==
  ASSUME NEW j, NEW seq, IsJob(j), IsList(seq)
  PROVE  CutsInto(PiecesOf(j, seq), seq, EndsOf(j, seq), MostOf(j, seq))
<1>1. PICK n \in Nat \ {0}: n = j.size
  BY DEF IsJob
<1>2. PICK l \in Nat: l = Len(seq) /\ seq = [i \in 1..Len(seq) |-> seq[i]]
  BY DEF IsList
<1>3. CASE j.slicer = "external"
  <2>1. EndsOf(j, seq) = [i \in Nat |-> IF i = 0 THEN 0 ELSE Len(seq)]
    BY <1>3 DEF EndsOf, SlicedTo
  <2>2. PiecesOf(j, seq) = <<seq>> /\ MostOf(j, seq) = l
    BY <1>2, <1>3 DEF PiecesOf, MostOf
  <2>3. CutsInto(<<seq>>, seq, [i \in Nat |-> IF i = 0 THEN 0 ELSE Len(seq)], l)
    BY <1>2, WholeCut
  <2> QED BY <2>1, <2>2, <2>3
<1>4. CASE j.slicer = "numpy" /\ l > n
  <2>1. EndsOf(j, seq) = [i \in Nat |-> Min({SplitEnd(seq, Len(seq) \div n, i), Len(seq)})]
    BY <1>1, <1>2, <1>4 DEF EndsOf, SlicedTo
  <2>2. PiecesOf(j, seq) = NumpyChunks(seq, n) /\ MostOf(j, seq) = 2 * n - 1
    BY <1>1, <1>4 DEF PiecesOf, MostOf
  <2>3. CutsInto(NumpyChunks(seq, n), seq,
                 [i \in Nat |-> Min({SplitEnd(seq, Len(seq) \div n, i), Len(seq)})], 2 * n - 1)
    BY <1>2, <1>4, NumpyChunksCut
  <2> QED BY <2>1, <2>2, <2>3
<1>5. CASE j.slicer = "numpy" /\ ~(l > n)
  <2>1. EndsOf(j, seq) = [i \in Nat |-> IF i = 0 THEN 0 ELSE Len(seq)]
    BY <1>1, <1>2, <1>5 DEF EndsOf, SlicedTo
  <2>2. PiecesOf(j, seq) = <<seq>> /\ MostOf(j, seq) = 2 * n - 1
    BY <1>1, <1>2, <1>5 DEF PiecesOf, MostOf, NumpyChunks
  <2>3. PICK most \in Nat: most = 2 * n - 1 /\ l <= most
    BY <1>5
  <2>4. CutsInto(<<seq>>, seq, [i \in Nat |-> IF i = 0 THEN 0 ELSE Len(seq)], most)
    BY <1>2, <2>3, WholeCut
  <2> QED BY <2>1, <2>2, <2>3, <2>4
<1>6. CASE j.slicer \notin {"external", "numpy"}
  <2>1. EndsOf(j, seq) = [i \in Nat |-> ChunkEnd(seq, n, i)]
    BY <1>1, <1>6 DEF EndsOf, SlicedTo
  <2>2. PiecesOf(j, seq) = Chunks(seq, n) /\ MostOf(j, seq) = n
    BY <1>1, <1>6 DEF PiecesOf, MostOf
  <2>3. CutsInto(Chunks(seq, n), seq, [i \in Nat |-> ChunkEnd(seq, n, i)], n)
    BY <1>2, ChunksCut
  <2> QED BY <2>1, <2>2, <2>3
<1> QED BY <1>3, <1>4, <1>5, <1>6

\* Where the first chunks end is a place of the sequence, and further on with each.
LEMMA PlacesOf ==
  ASSUME NEW j, NEW seq, IsJob(j), IsList(seq)
  PROVE  /\ SlicedTo(j, seq, 0) = 0
         /\ \A i \in Nat: SlicedTo(j, seq, i) \in 0..Len(seq)
         /\ \A i \in Nat: /\ SlicedTo(j, seq, i) <= SlicedTo(j, seq, i + 1)
                          /\ SlicedTo(j, seq, i + 1) - SlicedTo(j, seq, i) <= MostOf(j, seq)
<1> DEFINE e == EndsOf(j, seq)
<1>1. /\ e \in [Nat -> 0..Len(seq)] /\ e[0] = 0
      /\ \A i \in Nat: e[i] <= e[i + 1] /\ e[i + 1] - e[i] <= MostOf(j, seq)
  BY PiecesCut DEF CutsInto
<1>2. \A i \in Nat: e[i] = SlicedTo(j, seq, i) /\ i + 1 \in Nat
  BY DEF EndsOf
<1> HIDE DEF e
<1>3. 0 \in Nat
  OBVIOUS
<1>4. \A i \in Nat: SlicedTo(j, seq, i + 1) = e[i + 1]
  BY <1>2
<1> QED BY <1>1, <1>2, <1>3, <1>4

\* The blocks of rows are the rows.
LEMMA RowsOfJob ==
  ASSUME NEW j, IsJob(j), ~ByColumn(j)
  PROVE  /\ IsList(Sliced(j))
         /\ SlicedTo(j, j.data, Len(Sliced(j))) = Len(j.data)
         /\ \A i \in Nat: i + 1 <= Len(Sliced(j)) =>
              Sliced(j)[i + 1] =
                SubSeq(j.data, SlicedTo(j, j.data, i) + 1, SlicedTo(j, j.data, i + 1))
<1> DEFINE s == Sliced(j)
           d == j.data
           e == EndsOf(j, d)
<1>1. s = PiecesOf(j, d) /\ IsList(d)
  BY DEF Sliced, PiecesOf, IsJob, ByColumn
<1> HIDE DEF s, d
<1>2. CutsInto(s, d, e, MostOf(j, d))
  BY <1>1, PiecesCut
<1>3. \A i \in Nat: i + 1 \in Nat /\ e[i] = SlicedTo(j, d, i)
  BY DEF EndsOf
<1> HIDE DEF e
<1>4. IsList(s)
  BY <1>2 DEF CutsInto, IsList
<1>5. SlicedTo(j, d, Len(s)) = Len(d)
  <2>1. Len(s) \in Nat /\ Len(s) >= Len(s)
    BY <1>4 DEF IsList
  <2>2. e[Len(s)] = Len(d)
    BY <1>2, <2>1 DEF CutsInto
  <2> QED BY <1>3, <2>1, <2>2
<1>6. ASSUME NEW i \in Nat, i + 1 <= Len(s)
      PROVE  s[i + 1] = SubSeq(d, SlicedTo(j, d, i) + 1, SlicedTo(j, d, i + 1))
  <2>1. i + 1 \in 1..Len(s) /\ (i + 1) - 1 = i
    BY <1>4, <1>6 DEF IsList
  <2>2. s[i + 1] = SubSeq(d, e[(i + 1) - 1] + 1, e[i + 1])
    BY <1>2, <2>1 DEF CutsInto
  <2> QED BY <1>3, <2>1, <2>2
<1> QED BY <1>4, <1>5, <1>6 DEF s, d

\* The blocks of columns are the columns.
LEMMA ColumnsOfJob ==
  ASSUME NEW j, IsJob(j), ByColumn(j)
  PROVE  /\ IsList(Sliced(j)) /\ (j.data = <<>> => Len(Sliced(j)) = 0)
         /\ \A c \in DOMAIN j.data: SlicedTo(j, j.data[c], Len(Sliced(j))) = Len(j.data[c])
         /\ \A i \in Nat: i + 1 <= Len(Sliced(j)) =>
              /\ DOMAIN Sliced(j)[i + 1] = DOMAIN j.data
              /\ Len(Sliced(j)[i + 1]) = Len(j.data)
              /\ \A c \in DOMAIN j.data:
                   /\ Sliced(j)[i + 1][c] =
                        SubSeq(j.data[c], SlicedTo(j, j.data[c], i) + 1, SlicedTo(j, j.data[c], i + 1))
                   /\ Len(Sliced(j)[i + 1][c]) =
                        SlicedTo(j, j.data[c], i + 1) - SlicedTo(j, j.data[c], i)
<1> DEFINE s == Sliced(j)
           d == j.data
           chunked == [c \in DOMAIN d |-> PiecesOf(j, d[c])]
           end == [c \in DOMAIN d |-> EndsOf(j, d[c])]
           most == IF j.slicer = "numpy" THEN 2 * j.size - 1 ELSE j.size
<1>1. s = UpToEmpty(Rounds(chunked))
  <2>1. CASE j.slicer = "columns"
    <3>1. chunked = [c \in DOMAIN d |-> Chunks(d[c], j.size)]
      BY <2>1 DEF PiecesOf
    <3>2. s = ColumnChunks(d, j.size)
      BY <2>1 DEF Sliced
    <3> HIDE DEF chunked, d
    <3> QED BY <3>1, <3>2 DEF ColumnChunks
  <2>2. CASE j.slicer = "numpy"
    <3>1. chunked = [c \in DOMAIN d |-> NumpyChunks(d[c], j.size)]
      BY <2>2 DEF PiecesOf
    <3>2. s = NumpyColumnChunks(d, j.size)
      BY <2>2 DEF Sliced
    <3> HIDE DEF chunked, d
    <3> QED BY <3>1, <3>2 DEF NumpyColumnChunks
  <2> QED BY <2>1, <2>2 DEF ByColumn
<1>2. IsList(d) /\ \A c \in DOMAIN d: IsList(d[c]) /\ MostOf(j, d[c]) = most
  BY DEF IsJob, ByColumn, MostOf
<1> HIDE DEF s, d, most
<1>3. ColumnsCut(chunked, d, end, most)
  <2>1. \A c \in DOMAIN d: CutsInto(PiecesOf(j, d[c]), d[c], EndsOf(j, d[c]), most)
    BY <1>2, PiecesCut
  <2> QED BY <1>2, <2>1 DEF ColumnsCut
<1>4. \A c \in DOMAIN d: \A i \in Nat: i + 1 \in Nat /\ end[c][i] = SlicedTo(j, d[c], i)
  BY DEF EndsOf
<1> HIDE DEF chunked, end
<1>5. RoundsOf(s, d, end)
  BY <1>1, <1>3, RoundsCut
<1>6. IsList(s) /\ (d = <<>> => Len(s) = 0)
  BY <1>5 DEF RoundsOf
<1>7. ASSUME NEW c \in DOMAIN d PROVE SlicedTo(j, d[c], Len(s)) = Len(d[c])
  BY <1>4, <1>5, <1>6 DEF RoundsOf, IsList
<1>8. ASSUME NEW i \in Nat, i + 1 <= Len(s)
      PROVE  /\ DOMAIN s[i + 1] = DOMAIN d /\ Len(s[i + 1]) = Len(d)
             /\ \A c \in DOMAIN d:
                  /\ s[i + 1][c] = SubSeq(d[c], SlicedTo(j, d[c], i) + 1, SlicedTo(j, d[c], i + 1))
                  /\ Len(s[i + 1][c]) = SlicedTo(j, d[c], i + 1) - SlicedTo(j, d[c], i)
  <2>1. i + 1 \in 1..Len(s) /\ (i + 1) - 1 = i
    BY <1>6, <1>8 DEF IsList
  <2>2. /\ DOMAIN s[i + 1] = DOMAIN d /\ Len(s[i + 1]) = Len(d)
        /\ \A c \in DOMAIN d:
             /\ s[i + 1][c] = SubSeq(d[c], end[c][(i + 1) - 1] + 1, end[c][i + 1])
             /\ Len(s[i + 1][c]) = end[c][i + 1] - end[c][(i + 1) - 1]
    BY <1>5, <2>1 DEF RoundsOf
  <2>3. \A c \in DOMAIN d: end[c][i + 1] = SlicedTo(j, d[c], i + 1) /\ end[c][i] = SlicedTo(j, d[c], i)
    BY <1>4
  <2> QED BY <2>1, <2>2, <2>3
<1> QED BY <1>6, <1>7, <1>8 DEF s, d

-----------------------------------------------------------------------------
(* The invariant *)

\* A row that is too short raises when the first column it has no value for is
\* written.
LEMMA WideEnough ==
  ASSUME IsJob(job), ~ByColumn(job), NEW chunk, NEW r \in DOMAIN chunk, Len(chunk[r]) \in Nat,
         \A c \in DOMAIN Types(job): ~Failed(ColumnTokens(chunk, c))
  PROVE  Len(chunk[r]) >= Len(Types(job))
<1>1. PICK w \in Nat: w = Len(Types(job)) /\ DOMAIN Types(job) = 1..w
  BY DEF IsJob, IsList, Types
<1> SUFFICES ASSUME ~(Len(chunk[r]) >= w) PROVE FALSE
  BY <1>1
<1>2. w \in 1..w /\ w > Len(chunk[r])
  BY <1>1
<1>3. ColumnTokens(chunk, w) = <<Raised>>
  BY <1>2 DEF ColumnTokens, HasColumn
<1>4. Failed(<<Raised>>)
  BY DEF Failed, ToSet
<1> QED BY <1>1, <1>2, <1>3, <1>4

\* What a block adds: its rows are the next ones.
LEMMA BlockOfRows ==
  ASSUME IsJob(job), ~ByColumn(job), NEW k \in Nat, k + 1 <= Len(Sliced(job)),
         NEW n \in Nat, SentTo(job, k, n), NEW chunk, chunk = Sliced(job)[k + 1],
         \A c \in DOMAIN Types(job): ~Failed(ColumnTokens(chunk, c))
  PROVE  /\ NumRows(chunk) \in Nat /\ SentTo(job, k + 1, n + NumRows(chunk))
         /\ NumRows(chunk) <= MostOf(job, job.data)
<1> DEFINE d == job.data
<1>1. IsList(d) /\ \A r \in DOMAIN d: Len(d[r]) \in Nat
  BY DEF IsJob, IsList
<1>2. PICK l \in Nat: l = Len(d) /\ DOMAIN d = 1..l
  BY <1>1 DEF IsList
<1>3. PICK a \in 0..l: a = SlicedTo(job, d, k) /\ a = n
  BY <1>1, <1>2, PlacesOf DEF SentTo
<1>4. PICK b \in 0..l: b = SlicedTo(job, d, k + 1) /\ a <= b /\ b - a <= MostOf(job, d)
  <2>1. k + 1 \in Nat
    OBVIOUS
  <2> HIDE DEF d
  <2> QED BY <1>1, <1>2, <1>3, <2>1, PlacesOf
<1>5. chunk = SubSeq(d, a + 1, b)
  BY <1>3, <1>4, RowsOfJob
<1>6. /\ Len(chunk) = b - a /\ DOMAIN chunk = 1..(b - a)
      /\ \A r \in 1..(b - a): chunk[r] = d[a + r]
  <2> HIDE DEF d
  <2>1. a \in Nat /\ b \in Nat /\ a <= b
    BY <1>4
  <2>2. /\ Len(SubSeq(d, a + 1, b)) = b - a /\ DOMAIN SubSeq(d, a + 1, b) = 1..(b - a)
        /\ \A r \in 1..(b - a): SubSeq(d, a + 1, b)[r] = d[a + r]
    BY ZenonT(30), <2>1, SliceOf
  <2> QED BY <1>5, <2>2
<1>7. NumRows(chunk) = b - a /\ n + NumRows(chunk) = b
  <2>1. NumRows(chunk) = Len(chunk)
    BY DEF NumRows
  <2> QED BY <1>3, <1>4, <1>6, <2>1
<1>8. ASSUME NEW r \in 1..b PROVE Len(d[r]) >= Len(Types(job))
  <2>1. CASE r <= a
    BY <1>3, <2>1 DEF SentTo
  <2>2. CASE ~(r <= a)
    <3>1. PICK i \in 1..(b - a): r = a + i
      <4>1. r - a \in 1..(b - a) /\ r = a + (r - a)
        BY <1>4, <2>2
      <4> QED BY <4>1
    <3>2. i \in DOMAIN chunk /\ chunk[i] = d[r] /\ r \in DOMAIN d
      BY <1>2, <1>4, <1>6, <3>1
    <3>3. Len(chunk[i]) \in Nat
      BY <1>1, <3>2
    <3> QED BY <3>2, <3>3, WideEnough
  <2> QED BY <2>1, <2>2
<1>9. SentTo(job, k + 1, b)
  BY <1>4, <1>8 DEF SentTo
<1> QED BY <1>4, <1>7, <1>9

\* ... and so in each column, if the block is normal.
LEMMA BlockOfColumns ==
  ASSUME IsJob(job), ByColumn(job), NEW k \in Nat, k + 1 <= Len(Sliced(job)),
         NEW n \in Nat, SentTo(job, k, n), NEW chunk, chunk = Sliced(job)[k + 1],
         Normal(chunk)
  PROVE  /\ NumRows(chunk) \in Nat /\ SentTo(job, k + 1, n + NumRows(chunk))
         /\ NumRows(chunk) <= IF job.slicer = "numpy" THEN 2 * job.size - 1 ELSE job.size
<1> DEFINE d == job.data
<1>1. IsList(d) /\ \A c \in DOMAIN d: IsList(d[c])
  BY DEF IsJob
<1>2. PICK l \in Nat: l = Len(d) /\ DOMAIN d = 1..l /\ d = [c \in 1..l |-> d[c]]
  BY <1>1 DEF IsList
<1>3. d # <<>>
  BY ColumnsOfJob
<1>4. l >= 1
  BY <1>2, <1>3
<1>5. DOMAIN chunk = 1..l /\ \A c \in 1..l: Len(chunk[c]) = Len(chunk[1])
  BY <1>2, ColumnsOfJob DEF Normal
<1>6. \A c \in 1..l: Len(chunk[c]) = SlicedTo(job, d[c], k + 1) - SlicedTo(job, d[c], k)
  BY <1>2, ColumnsOfJob
<1>7. \A c \in 1..l: SlicedTo(job, d[c], k) = n
  BY <1>2 DEF SentTo
<1>8. \A c \in 1..l: /\ SlicedTo(job, d[c], k + 1) \in Nat
                     /\ SlicedTo(job, d[c], k) <= SlicedTo(job, d[c], k + 1)
                     /\ SlicedTo(job, d[c], k + 1) - SlicedTo(job, d[c], k) <= MostOf(job, d[c])
  <2> TAKE c \in 1..l
  <2> DEFINE x == d[c]
  <2>1. IsList(x) /\ Len(x) \in Nat
    BY <1>1, <1>2 DEF IsList
  <2>2. k + 1 \in Nat
    OBVIOUS
  <2> HIDE DEF x
  <2>3. /\ SlicedTo(job, x, k + 1) \in 0..Len(x)
        /\ SlicedTo(job, x, k) <= SlicedTo(job, x, k + 1)
        /\ SlicedTo(job, x, k + 1) - SlicedTo(job, x, k) <= MostOf(job, x)
    BY <2>1, <2>2, PlacesOf
  <2>4. SlicedTo(job, x, k + 1) \in Nat
    BY <2>1, <2>3
  <2> QED BY <2>3, <2>4 DEF x
<1>9. NumRows(chunk) = Len(chunk[1])
  BY <1>4, <1>5 DEF NumRows
<1> DEFINE m == Len(chunk[1])
<1>10. m \in Nat /\ \A c \in 1..l: SlicedTo(job, d[c], k + 1) = n + m
  <2>1. 1 \in 1..l
    BY <1>4
  <2> HIDE DEF d
  <2>2. m \in Nat
    BY <1>6, <1>7, <1>8, <2>1
  <2>3. ASSUME NEW c \in 1..l PROVE SlicedTo(job, d[c], k + 1) = n + m
    <3>1. m = SlicedTo(job, d[c], k + 1) - n /\ SlicedTo(job, d[c], k + 1) \in Nat
      BY <1>5, <1>6, <1>7, <1>8
    <3> QED BY <2>2, <3>1
  <2> QED BY <2>2, <2>3
<1>11. m <= IF job.slicer = "numpy" THEN 2 * job.size - 1 ELSE job.size
  <2>1. 1 \in 1..l
    BY <1>4
  <2>2. MostOf(job, d[1]) = IF job.slicer = "numpy" THEN 2 * job.size - 1 ELSE job.size
    BY DEF MostOf, ByColumn
  <2> HIDE DEF d
  <2> QED BY <1>6, <1>8, <2>1, <2>2
<1> HIDE DEF m
<1>12. SentTo(job, k + 1, n + m)
  BY <1>2, <1>3, <1>10 DEF SentTo
<1> QED BY <1>9, <1>10, <1>11, <1>12 DEF m

\* Nothing is sent at first.
LEMMA NothingSent ==
  ASSUME NEW j, IsJob(j)
  PROVE  SentTo(j, 0, 0)
<1>1. IsList(j.data) /\ \A c \in DOMAIN j.data: IsList(j.data[c])
  BY DEF IsJob
<1>2. \A c \in DOMAIN j.data: SlicedTo(j, j.data[c], 0) = 0
  BY <1>1, PlacesOf
<1>3. SlicedTo(j, j.data, 0) = 0
  BY <1>1, PlacesOf
<1>4. \A r \in 1..0: Len(j.data[r]) >= Len(Types(j))
  OBVIOUS
<1> QED BY <1>2, <1>3, <1>4 DEF SentTo

LEMMA SentInit == BlockInit => SentInv
<1> SUFFICES ASSUME BlockInit PROVE SentInv
  OBVIOUS
<1>1. IsJob(job)
  BY JobsAssumption DEF BlockInit
<1>2. IsList(Sliced(job))
  BY <1>1, RowsOfJob, ColumnsOfJob
<1> DEFINE s == Sliced(job)
<1>3. Len(s) \in Nat /\ todo = s /\ stage = "sending" /\ sizes = <<>> /\ inserted = 0
  BY <1>2 DEF IsList, BlockInit
<1>4. s = SubSeq(s, 1, Len(s))
  <2> DEFINE S == {s[i] : i \in 1..Len(s)}
  <2>1. s \in Seq(S)
    BY <1>2 DEF IsList
  <2> HIDE DEF S, s
  <2> QED BY <2>1, WholePrefix
<1>5. SentTo(job, 0, 0)
  BY <1>1, NothingSent
<1>6. Len(sizes) = 0 /\ sizes \in Seq(Nat) /\ DOMAIN sizes = {}
  BY <1>3
<1> HIDE DEF s
<1>7. OnlyNumpyExceeds
  BY <1>6 DEF OnlyNumpyExceeds
<1>8. todo = SubSeq(s, Len(sizes) + 1, Len(s)) /\ Len(sizes) <= Len(s)
  BY <1>3, <1>4, <1>6
<1> QED BY <1>1, <1>3, <1>5, <1>6, <1>7, <1>8 DEF SentInv, s

LEMMA BlockIsSent ==
  ASSUME SentInv, SendBlock PROVE SentInv'
<1>1. /\ IsJob(job) /\ stage \in {"sending", "sent", "raised"}
      /\ sizes \in Seq(Nat) /\ inserted \in Nat
      /\ Len(sizes) <= Len(Sliced(job))
      /\ todo = SubSeq(Sliced(job), Len(sizes) + 1, Len(Sliced(job)))
      /\ SentTo(job, Len(sizes), inserted)
      /\ OnlyNumpyExceeds
      /\ stage = "sent" => todo = <<>>
  BY DEF SentInv
<1>2. job' = job /\ stage = "sending" /\ todo # <<>>
  BY DEF SendBlock
<1> DEFINE chunk == Head(todo)
<1>3. CASE ~(Normal(chunk) /\ \A c \in DOMAIN Types(job): ~Failed(ColumnTokens(chunk, c)))
  <2>1. /\ stage' = "raised" /\ todo' = todo /\ sizes' = sizes /\ inserted' = inserted
    BY <1>3 DEF SendBlock
  <2>2. OnlyNumpyExceeds'
    BY <1>1, <1>2, <2>1 DEF OnlyNumpyExceeds
  <2> QED BY <1>1, <1>2, <2>1, <2>2 DEF SentInv
<1>4. CASE Normal(chunk) /\ \A c \in DOMAIN Types(job): ~Failed(ColumnTokens(chunk, c))
  <2>1. /\ stage' = stage /\ todo' = Tail(todo)
        /\ sizes' = Append(sizes, NumRows(chunk)) /\ inserted' = inserted + NumRows(chunk)
    BY <1>4 DEF SendBlock
  <2>2. PICK k \in Nat: k = Len(sizes)
    BY <1>1
  <2>3. PICK n \in Nat: n = Len(Sliced(job))
    BY <1>1, RowsOfJob, ColumnsOfJob DEF IsList
  <2>4. /\ k + 1 <= n /\ chunk = Sliced(job)[k + 1]
        /\ Tail(todo) = SubSeq(Sliced(job), k + 2, n)
    BY <1>1, <1>2, <2>2, <2>3, OneChunkLess
  <2> HIDE DEF chunk
  <2>5. /\ NumRows(chunk) \in Nat /\ SentTo(job, k + 1, inserted + NumRows(chunk))
        /\ ~ByColumn(job) => NumRows(chunk) <= MostOf(job, job.data)
        /\ ByColumn(job) =>
             NumRows(chunk) <= IF job.slicer = "numpy" THEN 2 * job.size - 1 ELSE job.size
    <3>1. CASE ByColumn(job)
      BY <1>1, <1>4, <2>2, <2>3, <2>4, <3>1, BlockOfColumns
    <3>2. CASE ~ByColumn(job)
      BY <1>1, <1>4, <2>2, <2>3, <2>4, <3>2, BlockOfRows
    <3> QED BY <3>1, <3>2
  <2>6. PICK m \in Nat: m = NumRows(chunk)
    BY <2>5
  <2>7. /\ sizes' \in Seq(Nat) /\ Len(sizes') = k + 1 /\ sizes'[k + 1] = m
        /\ DOMAIN sizes' = 1..(k + 1) /\ \A i \in 1..k: sizes'[i] = sizes[i]
        /\ DOMAIN sizes = 1..k
    BY <1>1, <2>1, <2>2, <2>6
  <2>8. OnlyNumpyExceeds'
    <3> DEFINE fits(x) == x > job.size => \/ job.slicer = "external"
                                          \/ job.slicer = "numpy" /\ x < 2 * job.size
    <3>1. fits(m)
      <4>1. job.slicer \in {"rows", "columns", "numpy", "external"} /\ job.size \in Nat
        BY <1>1 DEF IsJob
      <4>2. CASE job.slicer = "external"
        BY <4>2
      <4>3. CASE job.slicer = "rows"
        <5>1. m <= job.size
          BY <2>5, <2>6, <4>3 DEF ByColumn, MostOf
        <5> QED BY <4>1, <5>1
      <4>4. CASE job.slicer = "columns"
        <5>1. m <= job.size
          BY <2>5, <2>6, <4>4 DEF ByColumn
        <5> QED BY <4>1, <5>1
      <4>5. CASE job.slicer = "numpy"
        <5>1. m <= 2 * job.size - 1
          BY <2>5, <2>6, <4>5 DEF ByColumn
        <5>2. m < 2 * job.size
          BY <4>1, <5>1
        <5> QED BY <4>5, <5>2
      <4> QED BY <4>1, <4>2, <4>3, <4>4, <4>5
    <3>2. \A i \in 1..k: fits(sizes[i])
      BY <1>1, <2>7 DEF OnlyNumpyExceeds
    <3> HIDE DEF fits
    <3>3. \A i \in 1..(k + 1): i \in 1..k \/ i = k + 1
      OBVIOUS
    <3>4. \A i \in DOMAIN sizes': fits(sizes'[i])
      BY <2>7, <3>1, <3>2, <3>3
    <3> QED BY <1>2, <3>4 DEF OnlyNumpyExceeds, fits
  <2>9. inserted' \in Nat /\ SentTo(job, k + 1, inserted')
    <3>1. inserted \in Nat
      BY <1>1
    <3>2. inserted' = inserted + m
      BY <2>1, <2>6
    <3>3. SentTo(job, k + 1, inserted + m)
      BY <2>5, <2>6
    <3>4. inserted' \in Nat
      BY <3>1, <3>2
    <3> QED BY <3>2, <3>3, <3>4
  <2>10. todo' = SubSeq(Sliced(job), (k + 1) + 1, n)
    <3>1. (k + 1) + 1 = k + 2
      OBVIOUS
    <3> QED BY <2>1, <2>4, <3>1
  <2> QED BY <1>1, <1>2, <2>1, <2>3, <2>4, <2>7, <2>8, <2>9, <2>10 DEF SentInv
<1> QED BY <1>3, <1>4

LEMMA SentKeeps ==
  ASSUME SentInv, [BlockNext]_blockVars PROVE SentInv'
<1>1. CASE SendBlock
  BY <1>1, BlockIsSent
<1>2. CASE EndOfChunks
  BY <1>2 DEF EndOfChunks, SentInv, OnlyNumpyExceeds
<1>3. CASE ReceiveBlock
  BY <1>3 DEF ReceiveBlock, SentInv, OnlyNumpyExceeds
<1>4. CASE UNCHANGED blockVars
  BY <1>4 DEF blockVars, SentInv, OnlyNumpyExceeds
<1> QED BY <1>1, <1>2, <1>3, <1>4 DEF BlockNext

\* The invariant of sending: the rows of the blocks that were sent are those in front
\* of some place of the data, and what is to do are the chunks behind it
\* (client.py:568-572).
THEOREM SendingInvariant == BlockSpec => []SentInv
<1>1. BlockInit => SentInv
  BY SentInit
<1>2. SentInv /\ [BlockNext]_blockVars => SentInv'
  BY SentKeeps
<1> QED BY <1>1, <1>2, PTL DEF BlockSpec

\* When all chunks are sent the place is the end of the data.
LEMMA AllIsSent ==
  ASSUME SentInv, stage = "sent"
  PROVE  RaggedIsRefused /\ RowsCounted
<1>1. /\ IsJob(job) /\ inserted \in Nat /\ todo = <<>>
      /\ Len(sizes) <= Len(Sliced(job)) /\ sizes \in Seq(Nat)
      /\ todo = SubSeq(Sliced(job), Len(sizes) + 1, Len(Sliced(job)))
      /\ SentTo(job, Len(sizes), inserted)
  BY DEF SentInv
<1>2. PICK n \in Nat: n = Len(Sliced(job))
  BY <1>1, RowsOfJob, ColumnsOfJob DEF IsList
<1>3. PICK k \in Nat: k = Len(sizes) /\ k <= n
  BY <1>1, <1>2
<1>4. k = n
  <2>1. SubSeq(Sliced(job), k + 1, n) = <<>>
    BY <1>1, <1>2, <1>3
  <2> QED BY ZenonT(30), <1>3, <2>1, SliceOf
<1>5. SentTo(job, n, inserted)
  BY <1>1, <1>3, <1>4
<1>6. PICK l \in Nat: l = Len(job.data) /\ DOMAIN job.data = 1..l
  BY <1>1 DEF IsJob, IsList
<1>7. CASE ByColumn(job)
  <2>1. \A c \in DOMAIN job.data: Len(job.data[c]) = inserted
    BY <1>1, <1>2, <1>5, <1>7, ColumnsOfJob DEF SentTo
  <2>2. Rectangular
    <3>1. \A c \in DOMAIN job.data: 1 \in DOMAIN job.data
      BY <1>6
    <3> QED BY <1>7, <2>1, <3>1 DEF Rectangular
  <2>3. CASE job.data = <<>>
    BY <1>5, <1>7, <2>2, <2>3 DEF SentTo, NumRows, RaggedIsRefused, RowsCounted
  <2>4. CASE job.data # <<>>
    <3>1. 1 \in DOMAIN job.data
      <4>1. l # 0
        BY <1>1, <1>6, <2>4 DEF IsJob, IsList
      <4> QED BY <1>6, <4>1
    <3> QED BY <1>7, <2>1, <2>2, <2>4, <3>1 DEF NumRows, RaggedIsRefused, RowsCounted
  <2> QED BY <2>3, <2>4
<1>8. CASE ~ByColumn(job)
  <2>1. inserted = l
    BY <1>1, <1>2, <1>5, <1>6, <1>8, RowsOfJob DEF SentTo
  <2>2. \A r \in DOMAIN job.data: Len(job.data[r]) >= Len(Types(job))
    BY <1>5, <1>6, <1>8, <2>1 DEF SentTo
  <2> QED BY <1>6, <1>8, <2>1, <2>2 DEF Rectangular, NumRows, RaggedIsRefused, RowsCounted
<1> QED BY <1>7, <1>8

\* Data that is not rectangular is never sent to its end, whatever it is cut into: the
\* check that each block makes is enough (block.py:94-109, 151-152, 194-200).
THEOREM RaggedDataIsRefused == BlockSpec => []RaggedIsRefused
<1>1. SentInv => RaggedIsRefused
  BY AllIsSent DEF RaggedIsRefused
<1> QED BY <1>1, SendingInvariant, PTL

\* An INSERT returns how many rows it was given (client.py:568-576).
THEOREM RowsAreCounted == BlockSpec => []RowsCounted
<1>1. SentInv => RowsCounted
  BY AllIsSent DEF RowsCounted
<1> QED BY <1>1, SendingInvariant, PTL

\* Only numpy makes blocks of more than insert_block_size rows, and of less than
\* twice as many (util/helpers.py:4-47, numpy/helpers.py:14-18).
THEOREM ExceedsByLessThanABlock == BlockSpec => []OnlyNumpyExceeds
<1>1. SentInv => OnlyNumpyExceeds
  BY DEF SentInv
<1> QED BY <1>1, SendingInvariant, PTL

-----------------------------------------------------------------------------
(* What is nested in a column: each depth is faithful if the one below it is *)

LEMMA FlatFaithful == Flat!Faithful
<1>1. Flat!NestedFaithful
  BY DEF Flat!NestedFaithful, Flat!NestedRegular, NoType, NoItem
<1> QED BY <1>1, KeyBitsAssumption, Flat!NextDepth

LEMMA OnceFaithful == Once!Faithful
<1>1. \A s: Flat!IsList(s) <=> Once!IsList(s)
  BY Zenon DEF Flat!IsList, Once!IsList
<1>2. Flat!Raised = Once!Raised
  BY DEF Flat!Raised, Once!Raised, Flat!Token, Once!Token
<1>3. \A s: Flat!Failed(s) <=> Once!Failed(s)
  BY <1>2, Zenon DEF Flat!Failed, Once!Failed, Flat!ToSet, Once!ToSet
<1>4. \A s: Flat!Versions(s) <=> Once!Versions(s)
  BY <1>1, Zenon DEF Flat!Versions, Once!Versions, Flat!Token, Once!Token
<1>5. \A t, items: Flat!Regular(t, items) <=> Once!NestedRegular(t, items)
  BY <1>1, Zenon DEF Flat!Regular, Once!NestedRegular
<1>6. \A t, items: Flat!ComesBack(t, items) <=> Once!NestedComesBack(t, items)
  BY <1>1, <1>3, Zenon DEF Flat!ComesBack, Once!NestedComesBack
<1>7. Once!NestedFaithful
  BY <1>4, <1>5, <1>6, FlatFaithful, Zenon DEF Flat!Faithful, Once!NestedFaithful
<1> QED BY <1>7, KeyBitsAssumption, Once!NextDepth

LEMMA TwiceFaithful == Twice!Faithful
<1>1. \A s: Once!IsList(s) <=> Twice!IsList(s)
  BY Zenon DEF Once!IsList, Twice!IsList
<1>2. Once!Raised = Twice!Raised
  BY DEF Once!Raised, Twice!Raised, Once!Token, Twice!Token
<1>3. \A s: Once!Failed(s) <=> Twice!Failed(s)
  BY <1>2, Zenon DEF Once!Failed, Twice!Failed, Once!ToSet, Twice!ToSet
<1>4. \A s: Once!Versions(s) <=> Twice!Versions(s)
  BY <1>1, Zenon DEF Once!Versions, Twice!Versions, Once!Token, Twice!Token
<1>5. \A t, items: Once!Regular(t, items) <=> Twice!NestedRegular(t, items)
  BY <1>1, Zenon DEF Once!Regular, Twice!NestedRegular
<1>6. \A t, items: Once!ComesBack(t, items) <=> Twice!NestedComesBack(t, items)
  BY <1>1, <1>3, Zenon DEF Once!ComesBack, Twice!NestedComesBack
<1>7. Twice!NestedFaithful
  BY <1>4, <1>5, <1>6, OnceFaithful, Zenon DEF Once!Faithful, Twice!NestedFaithful
<1> QED BY <1>7, KeyBitsAssumption, Twice!NextDepth

LEMMA ThriceFaithful == Thrice!Faithful
<1>1. \A s: Twice!IsList(s) <=> Thrice!IsList(s)
  BY Zenon DEF Twice!IsList, Thrice!IsList
<1>2. Twice!Raised = Thrice!Raised
  BY DEF Twice!Raised, Thrice!Raised, Twice!Token, Thrice!Token
<1>3. \A s: Twice!Failed(s) <=> Thrice!Failed(s)
  BY <1>2, Zenon DEF Twice!Failed, Thrice!Failed, Twice!ToSet, Thrice!ToSet
<1>4. \A s: Twice!Versions(s) <=> Thrice!Versions(s)
  BY <1>1, Zenon DEF Twice!Versions, Thrice!Versions, Twice!Token, Thrice!Token
<1>5. \A t, items: Twice!Regular(t, items) <=> Thrice!NestedRegular(t, items)
  BY <1>1, Zenon DEF Twice!Regular, Thrice!NestedRegular
<1>6. \A t, items: Twice!ComesBack(t, items) <=> Thrice!NestedComesBack(t, items)
  BY <1>1, <1>3, Zenon DEF Twice!ComesBack, Thrice!NestedComesBack
<1>7. Thrice!NestedFaithful
  BY <1>4, <1>5, <1>6, TwiceFaithful, Zenon DEF Twice!Faithful, Thrice!NestedFaithful
<1> QED BY <1>7, KeyBitsAssumption, Thrice!NextDepth

-----------------------------------------------------------------------------
(* The columns of a block *)

\* What is a list, or an exception, in a column is so in the stream.
LEMMA SameBuffers ==
  /\ \A s: Thrice!IsList(s) <=> IsList(s)
  /\ \A ss: Thrice!IsLists(ss) <=> IsLists(ss)
  /\ \A ss: Thrice!FlattenSeq(ss) = FlattenSeq(ss)
  /\ Thrice!Raised = Raised
  /\ \A s: Thrice!Failed(s) <=> Failed(s)
  /\ \A part, x: Thrice!Token(part, x) = Token(part, x)
  /\ \A part, s: Thrice!Tokens(part, s) = Tokens(part, s)
<1>1. \A s: Thrice!IsList(s) <=> IsList(s)
  BY Zenon DEF Thrice!IsList, IsList
<1>2. \A ss: Thrice!IsLists(ss) <=> IsLists(ss)
  BY <1>1, Zenon DEF Thrice!IsLists, IsLists
<1>3. \A ss: Thrice!FlattenSeq(ss) = FlattenSeq(ss)
  BY Zenon DEF Thrice!FlattenSeq, FlattenSeq
<1>4. Thrice!Raised = Raised
  BY DEF Thrice!Raised, Raised, Thrice!Token, Token
<1>5. \A s: Thrice!Failed(s) <=> Failed(s)
  BY <1>4, Zenon DEF Thrice!Failed, Failed, Thrice!ToSet, ToSet
<1>6. \A part, x: Thrice!Token(part, x) = Token(part, x)
  BY Zenon DEF Thrice!Token, Token
<1>7. \A part, s: Thrice!Tokens(part, s) = Tokens(part, s)
  BY Zenon DEF Thrice!Tokens, Tokens, Thrice!Token, Token
<1> QED BY <1>1, <1>2, <1>3, <1>4, <1>5, <1>6, <1>7

\* No list of tokens fails that is of others which do not.
LEMMA NoneFailed ==
  /\ \A s, t: IsList(s) /\ IsList(t) /\ ~Failed(s) /\ ~Failed(t) => IsList(s \o t) /\ ~Failed(s \o t)
  /\ \A ss: IsLists(ss) /\ (\A i \in 1..Len(ss): ~Failed(ss[i])) =>
              IsList(FlattenSeq(ss)) /\ ~Failed(FlattenSeq(ss))
<1>1. ASSUME NEW s, NEW t, IsList(s), IsList(t), ~Failed(s), ~Failed(t)
      PROVE  IsList(s \o t) /\ ~Failed(s \o t)
  BY <1>1, SameBuffers, Thrice!ConcatNotFailed
<1>2. ASSUME NEW ss, IsLists(ss), \A i \in 1..Len(ss): ~Failed(ss[i])
      PROVE  IsList(FlattenSeq(ss)) /\ ~Failed(FlattenSeq(ss))
  BY <1>2, SameBuffers, Thrice!FlattenNotFailed
<1> QED BY <1>1, <1>2

\* A column of a block, with its state prefix, comes back.
LEMMA ColumnArrives ==
  ASSUME NEW t, Thrice!IsType(t), NEW items, IsList(items),
         \A i \in 1..Len(items): Thrice!IsItem(t, items[i]),
         ~Thrice!Irregular(t, items), items = <<>> => Thrice!StatePrefix(t) = <<>>,
         NEW tokens, tokens = WriteColumn(t, items)
  PROVE  /\ IsList(tokens) /\ ~Failed(tokens)
         /\ items = <<>> => tokens = <<>>
         /\ \A rest: IsList(rest) =>
              ReadColumn(t, Len(items), tokens \o rest) = [items |-> items, rest |-> rest]
<1> DEFINE prefix == Thrice!StatePrefix(t)
           data   == Thrice!WriteData(t, items)
<1>1. Thrice!Versions(prefix) /\ Thrice!ComesBack(t, items)
  BY ThriceFaithful, SameBuffers DEF Thrice!Faithful, Thrice!Regular
<1>2. /\ IsList(data) /\ ~Failed(data) /\ (items = <<>> => data = <<>>)
      /\ \A rest: IsList(rest) =>
           Thrice!ReadData(t, Len(items), data \o rest) = [items |-> items, rest |-> rest]
  BY <1>1, SameBuffers DEF Thrice!ComesBack
<1>3. IsList(prefix) /\ \A i \in 1..Len(prefix): prefix[i] = Token("version", 1)
  BY <1>1, SameBuffers DEF Thrice!Versions
<1>4. WriteColumn(t, items) = prefix \o data
  BY DEF WriteColumn
<1>5. \A buf: ReadColumn(t, Len(items), buf) =
                Thrice!ReadData(t, Len(items), Thrice!Take(Len(prefix), "version", buf).rest)
  BY DEF ReadColumn
<1>6. items = <<>> => prefix = <<>>
  OBVIOUS
<1> HIDE DEF prefix, data
<1>7. PICK n \in Nat: n = Len(prefix)
  BY <1>3, ListDomain
<1>8. PICK ones: ones = [i \in 1..n |-> 1]
  OBVIOUS
<1>9. IsList(ones) /\ Len(ones) = n /\ \A i \in 1..n: ones[i] = 1
  <2>1. ones = [i \in 1..n |-> ones[i]] /\ \A i \in 1..n: ones[i] = 1
    BY <1>8
  <2> QED BY <2>1, ListMade
<1>10. prefix = Tokens("version", ones)
  <2>1. /\ Thrice!IsList(Thrice!Tokens("version", ones)) /\ Len(Thrice!Tokens("version", ones)) = Len(ones)
        /\ \A i \in 1..Len(ones): Thrice!Tokens("version", ones)[i] = Thrice!Token("version", ones[i])
    BY <1>9, SameBuffers, Thrice!TokensMade
  <2>2. /\ IsList(Tokens("version", ones)) /\ Len(Tokens("version", ones)) = n
        /\ \A i \in 1..n: Tokens("version", ones)[i] = Token("version", 1)
    BY <1>9, <2>1, SameBuffers
  <2> QED BY <1>3, <1>7, <2>2, ListsEqual
<1>11. ~Failed(prefix)
  <2>1. ~Thrice!Failed(Thrice!Tokens("version", ones))
    BY <1>9, SameBuffers, Thrice!TokensNotFailed
  <2> QED BY <1>10, <2>1, SameBuffers
<1>12. IsList(prefix \o data) /\ ~Failed(prefix \o data)
  BY <1>2, <1>3, <1>11, NoneFailed
<1>13. items = <<>> => prefix \o data = <<>>
  <2>1. <<>> \o <<>> = <<>>
    OBVIOUS
  <2> QED BY <1>2, <1>6, <2>1
<1>14. ASSUME NEW rest, IsList(rest)
       PROVE  ReadColumn(t, Len(items), (prefix \o data) \o rest) = [items |-> items, rest |-> rest]
  <2>1. (prefix \o data) \o rest = prefix \o (data \o rest)
    BY <1>2, <1>3, <1>14, ListConcatMore
  <2>2. PICK tail: tail = data \o rest
    OBVIOUS
  <2>3. IsList(tail)
    BY <1>2, <1>14, <2>2, ListConcat
  <2>4. Thrice!Take(Len(ones), "version", Thrice!Tokens("version", ones) \o tail) =
          [items |-> ones, rest |-> tail]
    BY <1>9, <2>3, SameBuffers, Thrice!TakeBack
  <2>5. Thrice!Take(Len(prefix), "version", prefix \o tail).rest = tail
    BY <1>7, <1>9, <1>10, <2>4, SameBuffers
  <2> QED BY <1>2, <1>5, <1>14, <2>1, <2>2, <2>5
<1> QED BY <1>4, <1>12, <1>13, <1>14

\* Row by row, the values of a chunk are the next ones of the data.
LEMMA CellsOfRows ==
  ASSUME IsJob(job), ~ByColumn(job), NEW k \in Nat, k + 1 <= Len(Sliced(job)),
         NEW n \in Nat, SentTo(job, k, n), NEW chunk, chunk = Sliced(job)[k + 1]
  PROVE  /\ IsList(chunk) /\ Len(chunk) \in Nat /\ NumRows(chunk) = Len(chunk)
         /\ DOMAIN chunk = 1..Len(chunk)
         /\ \A r \in 1..Len(chunk): n + r \in DOMAIN job.data /\ chunk[r] = job.data[n + r]
<1> DEFINE d == job.data
<1>1. IsList(d)
  BY DEF IsJob
<1>2. PICK l \in Nat: l = Len(d) /\ DOMAIN d = 1..l
  BY <1>1, ListDomain
<1>3. PICK a \in 0..l: a = SlicedTo(job, d, k) /\ a = n
  BY <1>1, <1>2, PlacesOf DEF SentTo
<1>4. PICK b \in 0..l: b = SlicedTo(job, d, k + 1) /\ a <= b
  <2>1. k + 1 \in Nat
    OBVIOUS
  <2> HIDE DEF d
  <2> QED BY <1>1, <1>2, <1>3, <2>1, PlacesOf
<1>5. chunk = SubSeq(d, a + 1, b)
  BY <1>3, <1>4, RowsOfJob
<1> HIDE DEF d
<1>6. /\ IsList(chunk) /\ Len(chunk) = b - a /\ DOMAIN chunk = 1..(b - a)
      /\ \A r \in 1..(b - a): chunk[r] = d[a + r]
  <2>1. a \in Nat /\ b \in Nat /\ a <= b
    BY <1>4
  <2>2. /\ Len(SubSeq(d, a + 1, b)) = b - a /\ DOMAIN SubSeq(d, a + 1, b) = 1..(b - a)
        /\ \A r \in 1..(b - a): SubSeq(d, a + 1, b)[r] = d[a + r]
        /\ IsList(SubSeq(d, a + 1, b))
    BY ZenonT(30), <2>1, SliceOf
  <2> QED BY <1>5, <2>2
<1>7. \A r \in 1..(b - a): a + r \in 1..l
  BY <1>4
<1>8. NumRows(chunk) = Len(chunk) /\ b - a \in Nat
  BY <1>4 DEF NumRows
<1> QED BY <1>2, <1>3, <1>6, <1>7, <1>8 DEF d

\* ... and so they are column by column.
ColumnsNext(chunk, n) ==
  \A c \in DOMAIN chunk:
          /\ c \in DOMAIN job.data /\ IsList(chunk[c])
          /\ NumRows(chunk) \in Nat /\ Len(chunk[c]) = NumRows(chunk)
          /\ \A r \in 1..NumRows(chunk): n + r \in DOMAIN job.data[c]
                                         /\ chunk[c][r] = job.data[c][n + r]

LEMMA CellsOfColumns ==
  ASSUME IsJob(job), ByColumn(job), NEW k \in Nat, k + 1 <= Len(Sliced(job)),
         NEW n \in Nat, SentTo(job, k, n), NEW chunk, chunk = Sliced(job)[k + 1],
         Normal(chunk)
  PROVE  ColumnsNext(chunk, n)
<1> SUFFICES ASSUME NEW c \in DOMAIN chunk
    PROVE  /\ c \in DOMAIN job.data /\ IsList(chunk[c])
           /\ NumRows(chunk) \in Nat /\ Len(chunk[c]) = NumRows(chunk)
           /\ \A r \in 1..NumRows(chunk): n + r \in DOMAIN job.data[c]
                                          /\ chunk[c][r] = job.data[c][n + r]
  BY DEF ColumnsNext
<1>1. /\ DOMAIN chunk = DOMAIN job.data /\ Len(chunk) = Len(job.data)
      /\ chunk[c] = SubSeq(job.data[c], SlicedTo(job, job.data[c], k) + 1,
                                        SlicedTo(job, job.data[c], k + 1))
  BY ColumnsOfJob
<1>2. c \in DOMAIN job.data
  BY <1>1
<1> DEFINE d == job.data[c]
<1>3. IsList(d)
  BY <1>2 DEF IsJob
<1>4. PICK l \in Nat: l = Len(d) /\ DOMAIN d = 1..l
  BY <1>3, ListDomain
<1>5. SlicedTo(job, d, k) = n
  BY <1>2 DEF SentTo
<1>6. chunk[c] = SubSeq(d, SlicedTo(job, d, k) + 1, SlicedTo(job, d, k + 1))
  BY <1>1
<1> HIDE DEF d
<1>7. PICK b \in 0..l: b = SlicedTo(job, d, k + 1) /\ n <= b
  <2>1. k + 1 \in Nat
    OBVIOUS
  <2> QED BY <1>3, <1>4, <1>5, <2>1, PlacesOf
<1> DEFINE x == chunk[c]
<1>8. x = SubSeq(d, n + 1, b)
  BY <1>5, <1>6, <1>7
<1> HIDE DEF x
<1>9. /\ IsList(x) /\ Len(x) = b - n
      /\ \A r \in 1..(b - n): x[r] = d[n + r]
  <2>1. b \in Nat
    BY <1>7
  <2>2. Len(SubSeq(d, n + 1, b)) = b - n
    BY ZenonT(30), <1>7, <2>1, SliceOf
  <2>3. \A r \in 1..(b - n): SubSeq(d, n + 1, b)[r] = d[n + r]
    BY ZenonT(30), <1>7, <2>1, SliceOf
  <2>4. IsList(SubSeq(d, n + 1, b))
    BY ZenonT(30), <1>7, <2>1, SliceOf
  <2> QED BY <1>8, <2>2, <2>3, <2>4
<1>10. NumRows(chunk) = Len(x)
  <2>1. PICK w \in Nat: w = Len(job.data) /\ DOMAIN job.data = 1..w
    BY ListDomain DEF IsJob
  <2>2. w # 0
    BY <1>2, <2>1
  <2>3. chunk # <<>>
    BY <1>1, <2>1, <2>2
  <2>4. Len(chunk[c]) = Len(chunk[1])
    BY DEF Normal
  <2> QED BY <2>3, <2>4 DEF NumRows, x
<1>11. \A r \in 1..(b - n): n + r \in 1..l
  BY <1>7
<1>12. b - n \in Nat
  BY <1>7
<1> QED BY <1>2, <1>4, <1>9, <1>10, <1>11, <1>12 DEF d, x

\* A column of a block, for those that have a value for it in each row.
LEMMA CellsOfChunk ==
  ASSUME IsJob(job), NEW k \in Nat, k + 1 <= Len(Sliced(job)), NEW n \in Nat,
         SentTo(job, k, n), NEW chunk, chunk = Sliced(job)[k + 1], Normal(chunk),
         NEW c \in DOMAIN Types(job), HasColumn(job, chunk, c), NEW items,
         items = Column(job, chunk, c)
  PROVE  /\ IsList(items) /\ NumRows(chunk) \in Nat /\ Len(items) = NumRows(chunk)
         /\ \A r \in 1..NumRows(chunk):
              items[r] = Cell(job, n + r, c) /\ Thrice!IsItem(Types(job)[c], items[r])
<1>1. PICK w \in Nat: w = Len(Types(job)) /\ DOMAIN Types(job) = 1..w
  BY ListDomain DEF IsJob
<1>2. CASE ByColumn(job)
  <2>1. c \in DOMAIN chunk /\ items = chunk[c]
    BY <1>2 DEF HasColumn, Column
  <2>2. /\ c \in DOMAIN job.data /\ IsList(chunk[c])
        /\ NumRows(chunk) \in Nat /\ Len(chunk[c]) = NumRows(chunk)
        /\ \A r \in 1..NumRows(chunk): n + r \in DOMAIN job.data[c]
                                       /\ chunk[c][r] = job.data[c][n + r]
    <3>1. ColumnsNext(chunk, n)
      BY <1>2, CellsOfColumns
    <3> QED BY <2>1, <3>1 DEF ColumnsNext
  <2>3. \A i \in DOMAIN job.data[c]: Thrice!IsItem(Types(job)[c], job.data[c][i])
    BY <1>2, <2>2 DEF IsJob
  <2>4. \A r: Cell(job, r, c) = job.data[c][r]
    BY <1>2 DEF Cell
  <2> QED BY <2>1, <2>2, <2>3, <2>4
<1>3. CASE ~ByColumn(job)
  <2>1. (\A r \in DOMAIN chunk: c <= Len(chunk[r])) /\ items = [r \in DOMAIN chunk |-> chunk[r][c]]
    BY <1>3 DEF HasColumn, Column
  <2>2. /\ IsList(chunk) /\ Len(chunk) \in Nat /\ NumRows(chunk) = Len(chunk)
        /\ DOMAIN chunk = 1..Len(chunk)
        /\ \A r \in 1..Len(chunk): n + r \in DOMAIN job.data /\ chunk[r] = job.data[n + r]
    BY <1>3, CellsOfRows
  <2>3. PICK m \in Nat: m = Len(chunk)
    BY <2>2
  <2>4. items = [r \in 1..m |-> items[r]] /\ \A r \in 1..m: items[r] = chunk[r][c]
    BY <2>1, <2>2, <2>3
  <2>5. IsList(items) /\ Len(items) = m
    BY <2>4, ListMade
  <2>6. ASSUME NEW r \in 1..m
        PROVE  items[r] = Cell(job, n + r, c) /\ Thrice!IsItem(Types(job)[c], items[r])
    <3>1. PICK i \in DOMAIN job.data: i = n + r /\ chunk[r] = job.data[i] /\ c <= Len(job.data[i])
      BY <2>1, <2>2, <2>3
    <3>2. IsList(job.data[i])
      BY DEF IsJob
    <3>3. c \in DOMAIN job.data[i]
      <4>1. Len(job.data[i]) \in Nat /\ DOMAIN job.data[i] = 1..Len(job.data[i])
        BY <3>2, ListDomain
      <4> QED BY <1>1, <3>1, <4>1
    <3>4. Thrice!IsItem(Types(job)[c], job.data[i][c])
      BY <1>3, <3>3 DEF IsJob
    <3>5. Cell(job, n + r, c) = job.data[i][c]
      BY <1>3, <3>1 DEF Cell
    <3> QED BY <2>4, <3>1, <3>4, <3>5
  <2> QED BY <2>2, <2>3, <2>5, <2>6
<1> QED BY <1>2, <1>3

\* What is regular is written and read.
ColumnReads(chunk, c, tokens) ==
  /\ IsList(tokens) /\ ~Failed(tokens)
  /\ NumRows(chunk) = 0 => tokens = <<>>
  /\ \A rest: IsList(rest) =>
       ReadColumn(Types(job)[c], NumRows(chunk), tokens \o rest)
         = [items |-> Column(job, chunk, c), rest |-> rest]

LEMMA ColumnOfChunkArrives ==
  ASSUME IsJob(job), ~IrregularJob, NEW k \in Nat, k + 1 <= Len(Sliced(job)), NEW n \in Nat,
         SentTo(job, k, n), NEW chunk, chunk = Sliced(job)[k + 1], Normal(chunk),
         NEW c \in DOMAIN Types(job), HasColumn(job, chunk, c)
  PROVE  ColumnReads(chunk, c, ColumnTokens(chunk, c))
<1>1. PICK items: items = Column(job, chunk, c)
  OBVIOUS
<1>2. /\ IsList(items) /\ Len(items) = NumRows(chunk)
      /\ \A r \in 1..NumRows(chunk):
           items[r] = Cell(job, n + r, c) /\ Thrice!IsItem(Types(job)[c], items[r])
  BY <1>1, CellsOfChunk
<1>3. k + 1 \in DOMAIN Sliced(job)
  <2>1. IsList(Sliced(job))
    BY RowsOfJob, ColumnsOfJob
  <2>2. Len(Sliced(job)) \in Nat /\ DOMAIN Sliced(job) = 1..Len(Sliced(job))
    BY <2>1, ListDomain
  <2> QED BY <2>2
<1> DEFINE t == Types(job)[c]
<1>4. ~Thrice!Irregular(t, items) /\ (items = <<>> => Thrice!StatePrefix(t) = <<>>)
  BY <1>1, <1>3 DEF IrregularJob
<1>5. Thrice!IsType(t)
  BY DEF IsJob
<1>6. PICK tokens: tokens = WriteColumn(t, items)
  OBVIOUS
<1>7. ColumnTokens(chunk, c) = tokens
  BY <1>1, <1>6 DEF ColumnTokens
<1>8. \A i \in 1..Len(items): Thrice!IsItem(t, items[i])
  BY <1>2
<1> HIDE DEF t
<1>9. /\ IsList(tokens) /\ ~Failed(tokens) /\ (items = <<>> => tokens = <<>>)
      /\ \A rest: IsList(rest) =>
           ReadColumn(t, Len(items), tokens \o rest) = [items |-> items, rest |-> rest]
  BY <1>2, <1>4, <1>5, <1>6, <1>8, ColumnArrives
<1>10. NumRows(chunk) = 0 => items = <<>>
  BY <1>2, ListDomain
<1>11. /\ NumRows(chunk) = 0 => tokens = <<>>
       /\ \A rest: IsList(rest) =>
            ReadColumn(t, NumRows(chunk), tokens \o rest) = [items |-> items, rest |-> rest]
  BY <1>2, <1>9, <1>10
<1> QED BY <1>1, <1>7, <1>9, <1>11 DEF t, ColumnReads

-----------------------------------------------------------------------------
(* A block is read *)

\* The recursion of ReadColumns.
ColumnsRead(f, n, buf) ==
  f = [c \in 0..Len(Types(job)) |-> IF c = 0 THEN [items |-> <<>>, rest |-> buf]
                                    ELSE ReadColumn(Types(job)[c], n, f[c - 1].rest)]

LEMMA ReadColumnsUnfolds ==
  ASSUME NEW n, NEW buf, buf = SubSeq(wire, 3, Len(wire)), \E f: ColumnsRead(f, n, buf)
  PROVE  \E f: /\ ColumnsRead(f, n, buf)
               /\ ReadColumns(n) =
                    IF n = 0 THEN [columns |-> <<>>, rest |-> f[0].rest]
                    ELSE [columns |-> [c \in 1..Len(Types(job)) |-> f[c].items],
                          rest    |-> f[Len(Types(job))].rest]
<1> DEFINE f == CHOOSE g: ColumnsRead(g, n, buf)
<1>1. ColumnsRead(f, n, buf)
  OBVIOUS
<1>2. ReadColumns(n) =
        IF n = 0 THEN [columns |-> <<>>, rest |-> f[0].rest]
        ELSE [columns |-> [c \in 1..Len(Types(job)) |-> f[c].items],
              rest    |-> f[Len(Types(job))].rest]
  BY DEF ReadColumns, ColumnsRead
<1> QED BY <1>1, <1>2

\* Each column takes its own tokens, and leaves those of the columns behind it.
LeftBehind(w, n, columns, left) ==
  \A c \in 1..w: ReadColumn(Types(job)[c], n, left[c - 1]) = [items |-> columns[c], rest |-> left[c]]

LEMMA ColumnsAreRead ==
  ASSUME Len(Types(job)) \in Nat, NEW n, NEW columns, NEW left,
         left[0] = SubSeq(wire, 3, Len(wire)),
         LeftBehind(Len(Types(job)), n, columns, left)
  PROVE  ReadColumns(n) =
           IF n = 0 THEN [columns |-> <<>>, rest |-> left[0]]
           ELSE [columns |-> [c \in 1..Len(Types(job)) |-> columns[c]],
                 rest    |-> left[Len(Types(job))]]
<1>w. PICK w \in Nat: w = Len(Types(job)) /\ LeftBehind(w, n, columns, left)
  OBVIOUS
<1> DEFINE start == [items |-> <<>>, rest |-> left[0]]
           g == [c \in 0..w |-> IF c = 0 THEN start ELSE [items |-> columns[c], rest |-> left[c]]]
           h == [c \in 0..w |-> IF c = 0 THEN start ELSE ReadColumn(Types(job)[c], n, g[c - 1].rest)]
<1>1. \A c \in 0..w: g[c].rest = left[c]
  OBVIOUS
<1>2. ASSUME NEW c \in 0..w PROVE g[c] = h[c]
  <2>1. CASE c = 0
    BY <2>1
  <2>2. CASE c # 0
    <3>1. c \in 1..w /\ c - 1 \in 0..w
      BY <2>2
    <3>2. g[c] = [items |-> columns[c], rest |-> left[c]]
      BY <2>2
    <3>3. h[c] = ReadColumn(Types(job)[c], n, g[c - 1].rest)
      BY <2>2
    <3>4. g[c - 1].rest = left[c - 1]
      BY <1>1, <3>1
    <3> HIDE DEF g, h
    <3> QED BY <3>1, <3>2, <3>3, <3>4, <1>w DEF LeftBehind
  <2> QED BY <2>1, <2>2
<1>3. g = h
  <2>1. g = [c \in 0..w |-> g[c]]
    OBVIOUS
  <2> HIDE DEF g
  <2>2. h = [c \in 0..w |-> h[c]]
    OBVIOUS
  <2> HIDE DEF h
  <2> QED BY <1>2, <2>1, <2>2
<1>4. ColumnsRead(g, n, left[0])
  <2> HIDE DEF g
  <2> QED BY <1>w, <1>3 DEF ColumnsRead
<1>5. PICK f: /\ ColumnsRead(f, n, left[0])
              /\ ReadColumns(n) =
                   IF n = 0 THEN [columns |-> <<>>, rest |-> f[0].rest]
                   ELSE [columns |-> [c \in 1..w |-> f[c].items], rest |-> f[w].rest]
  <2>1. PICK buf: buf = left[0]
    OBVIOUS
  <2>2. \E f: ColumnsRead(f, n, buf)
    BY <1>4, <2>1
  <2> HIDE DEF g
  <2>3. PICK f: /\ ColumnsRead(f, n, buf)
                /\ ReadColumns(n) =
                     IF n = 0 THEN [columns |-> <<>>, rest |-> f[0].rest]
                     ELSE [columns |-> [c \in 1..Len(Types(job)) |-> f[c].items],
                           rest    |-> f[Len(Types(job))].rest]
    BY <2>1, <2>2, ReadColumnsUnfolds
  <2> QED BY <1>w, <2>1, <2>3
<1>6. /\ f[0].rest = left[0]
      /\ \A c \in 1..w: f[c] = ReadColumn(Types(job)[c], n, f[c - 1].rest)
  <2>1. f = [c \in 0..w |-> IF c = 0 THEN start ELSE ReadColumn(Types(job)[c], n, f[c - 1].rest)]
    BY <1>w, <1>5 DEF ColumnsRead
  <2>2. f[0].rest = left[0]
    BY <2>1
  <2>3. ASSUME NEW c \in 1..w PROVE f[c] = ReadColumn(Types(job)[c], n, f[c - 1].rest)
    <3>1. c \in 0..w /\ c # 0
      OBVIOUS
    <3> QED BY <2>1, <3>1
  <2> QED BY <2>2, <2>3
<1> DEFINE T == {c \in Nat: c <= w => f[c].rest = left[c]}
<1>7. 0 \in T
  BY <1>6
<1>8. ASSUME NEW c \in Nat, c \in T PROVE c + 1 \in T
  <2>1. SUFFICES ASSUME c + 1 <= w PROVE f[c + 1].rest = left[c + 1]
    OBVIOUS
  <2>2. PICK d: d = c + 1
    OBVIOUS
  <2>3. d \in 1..w /\ d - 1 = c /\ f[c].rest = left[c]
    BY <1>8, <2>1, <2>2
  <2>4. f[d] = ReadColumn(Types(job)[d], n, left[c])
    BY <1>6, <2>3
  <2>5. ReadColumn(Types(job)[d], n, left[c]) = [items |-> columns[d], rest |-> left[d]]
    BY <1>w, <2>3 DEF LeftBehind
  <2> QED BY <2>2, <2>4, <2>5
<1> HIDE DEF T
<1>9. Nat \subseteq T
  BY <1>7, <1>8, InductionBySet
<1>10. \A c \in 0..w: f[c].rest = left[c]
  BY <1>9 DEF T
<1>11. ASSUME NEW c \in 1..w PROVE f[c].items = columns[c]
  <2>1. c - 1 \in 0..w
    OBVIOUS
  <2>2. f[c] = ReadColumn(Types(job)[c], n, left[c - 1])
    BY <1>6, <1>10, <2>1
  <2>3. ReadColumn(Types(job)[c], n, left[c - 1]) = [items |-> columns[c], rest |-> left[c]]
    BY <1>w DEF LeftBehind
  <2> QED BY <2>2, <2>3
<1>12. [c \in 1..w |-> f[c].items] = [c \in 1..w |-> columns[c]]
  BY <1>11
<1>13. w \in 0..w
  OBVIOUS
<1> QED BY <1>w, <1>5, <1>6, <1>10, <1>12, <1>13

\* A block that is written, and read, column by column.
ChunkReads(chunk) ==
  /\ NumRows(chunk) \in Nat
  /\ \A c \in DOMAIN Types(job): ColumnReads(chunk, c, ColumnTokens(chunk, c))

LEMMA TokensOfColumns ==
  ASSUME IsJob(job), NEW chunk, ChunkReads(chunk), NEW all,
         all = [c \in DOMAIN Types(job) |-> ColumnTokens(chunk, c)]
  PROVE  /\ IsLists(all) /\ Len(all) = Len(Types(job)) /\ Len(all) \in Nat
         /\ DOMAIN Types(job) = 1..Len(all)
         /\ \A c \in 1..Len(all): ~Failed(all[c]) /\ ColumnReads(chunk, c, all[c])
<1>1. PICK w \in Nat: w = Len(Types(job)) /\ DOMAIN Types(job) = 1..w
  BY ListDomain DEF IsJob
<1>2. all = [c \in 1..w |-> all[c]] /\ \A c \in 1..w: all[c] = ColumnTokens(chunk, c)
  BY <1>1
<1>3. IsList(all) /\ Len(all) = w
  BY <1>2, ListMade
<1>4. \A c \in 1..w: ColumnReads(chunk, c, all[c])
  BY <1>1, <1>2 DEF ChunkReads
<1>5. \A c \in 1..w: IsList(all[c]) /\ ~Failed(all[c])
  BY <1>4 DEF ColumnReads
<1> QED BY <1>1, <1>3, <1>4, <1>5 DEF IsLists

\* The header is two tokens.
LEMMA HeaderOfBlock ==
  ASSUME NEW a, NEW b, a # Raised, b # Raised, NEW h, h = <<a, b>>
  PROVE  /\ IsList(h) /\ ~Failed(h) /\ Len(h) = 2 /\ h[1] = a /\ h[2] = b
<1>1. h \in Seq({a, b}) /\ Len(h) = 2 /\ h[1] = a /\ h[2] = b /\ DOMAIN h = {1, 2}
  OBVIOUS
<1>2. IsList(h)
  BY <1>1, SeqIsList
<1>3. ~Failed(h)
  BY <1>1 DEF Failed, ToSet
<1> QED BY <1>1, <1>2, <1>3

LEMMA TokensOfBlock ==
  ASSUME IsJob(job), NEW chunk, ChunkReads(chunk)
  PROVE  IsList(BlockTokens(chunk)) /\ ~Failed(BlockTokens(chunk)) /\ Len(BlockTokens(chunk)) >= 2
<1>1. PICK h: h = <<Token("columns", Len(Types(job))), Token("rows", NumRows(chunk))>>
  OBVIOUS
<1>2. PICK all: all = [c \in DOMAIN Types(job) |-> ColumnTokens(chunk, c)]
  OBVIOUS
<1>3. BlockTokens(chunk) = h \o FlattenSeq(all)
  BY <1>1, <1>2 DEF BlockTokens
<1>4. IsList(h) /\ ~Failed(h) /\ Len(h) = 2
  <2>1. Token("columns", Len(Types(job))) # Raised /\ Token("rows", NumRows(chunk)) # Raised
    BY DEF Token, Raised
  <2> QED BY <1>1, <2>1, HeaderOfBlock
<1>5. IsList(FlattenSeq(all)) /\ ~Failed(FlattenSeq(all))
  BY <1>2, TokensOfColumns, NoneFailed
<1>6. PICK f, u: f = FlattenSeq(all) /\ u = h \o f
  OBVIOUS
<1>7. IsList(u) /\ ~Failed(u)
  BY <1>4, <1>5, <1>6, NoneFailed
<1>8. Len(u) = Len(h) + Len(f) /\ Len(f) \in Nat
  BY <1>4, <1>5, <1>6, ListConcat
<1> QED BY <1>3, <1>4, <1>6, <1>7, <1>8

\* A block is read back, and nothing behind it.
LEMMA BlockArrives ==
  ASSUME IsJob(job), NEW chunk, ChunkReads(chunk), NEW rest, IsList(rest),
         wire = BlockTokens(chunk) \o rest
  PROVE  /\ Len(wire) > 1 /\ wire[1] = Token("columns", Len(Types(job)))
         /\ wire[2] = Token("rows", NumRows(chunk))
         /\ ReadColumns(NumRows(chunk)) =
              [columns |-> IF NumRows(chunk) = 0 THEN <<>>
                           ELSE [c \in 1..Len(Types(job)) |-> Column(job, chunk, c)],
               rest    |-> rest]
<1>1. PICK h: h = <<Token("columns", Len(Types(job))), Token("rows", NumRows(chunk))>>
  OBVIOUS
<1>2. PICK all: all = [c \in DOMAIN Types(job) |-> ColumnTokens(chunk, c)]
  OBVIOUS
<1>3. BlockTokens(chunk) = h \o FlattenSeq(all)
  BY <1>1, <1>2 DEF BlockTokens
<1>4. /\ IsList(h) /\ Len(h) = 2
      /\ h[1] = Token("columns", Len(Types(job))) /\ h[2] = Token("rows", NumRows(chunk))
  <2>1. PICK a, b: a = Token("columns", Len(Types(job))) /\ b = Token("rows", NumRows(chunk))
    OBVIOUS
  <2>2. a # Raised /\ b # Raised /\ h = <<a, b>>
    BY <1>1, <2>1 DEF Token, Raised
  <2>3. IsList(h) /\ Len(h) = 2 /\ h[1] = a /\ h[2] = b
    BY <2>2, HeaderOfBlock
  <2> QED BY <2>1, <2>3
<1>5. /\ IsLists(all) /\ Len(all) = Len(Types(job)) /\ Len(all) \in Nat
      /\ \A c \in 1..Len(all): ColumnReads(chunk, c, all[c])
  BY <1>2, TokensOfColumns
<1>6. PICK w \in Nat: w = Len(all) /\ w = Len(Types(job))
  BY <1>5
<1>7. PICK f: f = FlattenSeq(all)
  OBVIOUS
<1>8. IsList(f)
  BY <1>5, <1>7, ListFlatten
<1>9. PICK v: v = f \o rest
  OBVIOUS
<1>10. IsList(v)
  BY <1>8, <1>9, ListConcat
<1>11. wire = h \o v
  <2>1. (h \o f) \o rest = h \o (f \o rest)
    BY <1>4, <1>8, ListConcatMore
  <2> QED BY <1>3, <1>7, <1>9, <2>1
<1>12. /\ Len(wire) = 2 + Len(v) /\ Len(v) \in Nat
       /\ \A i \in 1..2: wire[i] = h[i]
  <2>1. IsList(h)
    BY <1>4
  <2>2. Len(h \o v) = Len(h) + Len(v) /\ Len(v) \in Nat
    BY ZenonT(30), <1>10, <2>1, ListConcat
  <2>3. \A i \in 1..Len(h): (h \o v)[i] = h[i]
    BY ZenonT(30), <1>10, <2>1, ListConcat
  <2> QED BY <1>4, <1>11, <2>2, <2>3
<1>13. SubSeq(wire, 3, Len(wire)) = v
  <2>1. SubSeq(h \o v, Len(h) + 1, Len(h \o v)) = v
    BY <1>4, <1>10, ListBehind
  <2>2. Len(h) + 1 = 3
    BY <1>4
  <2> QED BY <1>11, <2>1, <2>2
<1> DEFINE left == [c \in 0..w |-> FlattenSeq(SubSeq(all, c + 1, w)) \o rest]
           columns == [c \in 1..w |-> Column(job, chunk, c)]
           n == NumRows(chunk)
<1>14. \A c \in 0..w: left[c] = FlattenSeq(SubSeq(all, c + 1, w)) \o rest
  OBVIOUS
<1>15. \A c \in 1..w: columns[c] = Column(job, chunk, c)
  OBVIOUS
<1> HIDE DEF left, columns
<1>16. left[0] = v
  <2>1. SubSeq(all, 1, w) = all
    <3>1. IsLists(SubSeq(all, 1, w)) /\ Len(SubSeq(all, 1, w)) = w /\ \A i \in 1..w: SubSeq(all, 1, w)[i] = all[i]
      BY <1>5, <1>6, ListsPrefix
    <3> QED BY <1>5, <1>6, <3>1, ListsEqual DEF IsLists
  <2>2. 0 + 1 = 1 /\ 0 \in 0..w
    OBVIOUS
  <2> QED BY <1>7, <1>9, <1>14, <2>1, <2>2
<1>17. left[w] = rest
  <2>1. SubSeq(all, w + 1, w) = <<>>
    OBVIOUS
  <2>2. w \in 0..w
    OBVIOUS
  <2> QED BY <1>14, <2>1, <2>2, FlattenEmpty, ListConcatEmpty
<1>18. LeftBehind(w, n, columns, left)
  <2>1. SUFFICES ASSUME NEW c \in 1..w
                 PROVE  ReadColumn(Types(job)[c], n, left[c - 1]) = [items |-> columns[c], rest |-> left[c]]
    BY DEF LeftBehind
  <2>2. PICK b \in Nat: c = b + 1 /\ b = c - 1 /\ b + 2 = c + 1
    <3>1. c - 1 \in Nat /\ c = (c - 1) + 1 /\ (c - 1) + 2 = c + 1
      OBVIOUS
    <3> QED BY <3>1
  <2>3. FlattenSeq(SubSeq(all, b + 1, Len(all))) = all[b + 1] \o FlattenSeq(SubSeq(all, b + 2, Len(all)))
    <3>1. b + 1 <= Len(all)
      BY <1>6, <2>2
    <3> QED BY <1>5, <3>1, FlattenBefore
  <2>4. PICK s, x: s = FlattenSeq(SubSeq(all, c + 1, w)) /\ x = all[c]
    OBVIOUS
  <2>5. IsList(s) /\ IsList(x)
    <3>1. IsLists(SubSeq(all, c + 1, Len(all)))
      BY <1>5, <1>6, ListsSuffix
    <3>2. IsList(FlattenSeq(SubSeq(all, c + 1, Len(all))))
      BY <3>1, ListFlatten
    <3> QED BY <1>5, <1>6, <2>4, <3>2 DEF IsLists
  <2>6. left[b] = (x \o s) \o rest /\ left[c] = s \o rest
    <3>1. b \in 0..w /\ c \in 0..w
      BY <2>2
    <3> QED BY <1>6, <1>14, <2>2, <2>3, <2>4, <3>1
  <2>7. (x \o s) \o rest = x \o (s \o rest) 
    BY <2>5, ListConcatMore
  <2>8. IsList(s \o rest)
    BY <2>5, ListConcat
  <2>9. ReadColumn(Types(job)[c], n, x \o (s \o rest)) = [items |-> Column(job, chunk, c), rest |-> s \o rest]
    BY <1>5, <1>6, <2>4, <2>8 DEF ColumnReads
  <2> QED BY <1>15, <2>2, <2>6, <2>7, <2>9
<1>19. ReadColumns(n) =
           IF n = 0 THEN [columns |-> <<>>, rest |-> left[0]]
           ELSE [columns |-> [c \in 1..w |-> columns[c]], rest |-> left[w]]
  <2>1. left[0] = SubSeq(wire, 3, Len(wire))
    BY <1>13, <1>16
  <2> HIDE DEF n
  <2> QED BY <1>6, <1>18, <2>1, ColumnsAreRead
<1>20. n = 0 => v = rest
  <2>1. SUFFICES ASSUME n = 0 PROVE v = rest
    OBVIOUS
  <2>2. \A c \in 1..Len(all): all[c] = <<>>
    BY <1>5, <2>1 DEF ColumnReads
  <2>3. \A k \in 1..Len(f): \E i \in 1..Len(all): \E j \in 1..Len(all[i]): f[k] = all[i][j]
    BY <1>5, <1>7, ListFlatten
  <2>4. \A i \in 1..Len(all): Len(all[i]) = 0
    BY <2>2
  <2>5. ~ \E k \in 1..Len(f): TRUE
    BY <2>3, <2>4
  <2>6. Len(f) \in Nat
    BY <1>8, ListDomain
  <2>7. Len(f) = 0
    <3>1. Len(f) # 0 => 1 \in 1..Len(f)
      BY <2>6
    <3> QED BY <2>5, <3>1
  <2>8. f = <<>>
    BY <1>8, <2>7, ListDomain
  <2> QED BY <1>9, <2>8, ListConcatEmpty
<1>21. [c \in 1..w |-> columns[c]] = [c \in 1..w |-> Column(job, chunk, c)]
  BY <1>15
<1>22. Len(wire) > 1
  BY <1>12
<1>23. ReadColumns(NumRows(chunk)) =
         [columns |-> IF NumRows(chunk) = 0 THEN <<>> ELSE [c \in 1..w |-> Column(job, chunk, c)],
          rest    |-> rest]
  BY <1>16, <1>17, <1>19, <1>20, <1>21
<1>24. wire[1] = h[1] /\ wire[2] = h[2]
  BY <1>12
<1> QED BY <1>4, <1>6, <1>22, <1>23, <1>24

-----------------------------------------------------------------------------
(* What is read is stored *)

\* The items of a, and behind them those of b.
Joined(s, a, b, n, m) ==
  /\ n \in Nat /\ m \in Nat
  /\ IsList(a) /\ Len(a) = n /\ IsList(b) /\ Len(b) = m /\ IsList(s) /\ Len(s) = n + m
  /\ \A i \in 1..n: s[i] = a[i]
  /\ \A i \in 1..m: s[n + i] = b[i]

LEMMA JoinedIsConcat ==
  ASSUME NEW s, NEW a, NEW b, NEW n, NEW m, Joined(s, a, b, n, m)
  PROVE  a \o b = s
<1>0. /\ n \in Nat /\ m \in Nat
      /\ IsList(a) /\ Len(a) = n /\ IsList(b) /\ Len(b) = m /\ IsList(s) /\ Len(s) = n + m
      /\ \A i \in 1..n: s[i] = a[i]
      /\ \A i \in 1..m: s[n + i] = b[i]
  BY DEF Joined
<1>1. PICK u: u = a \o b
  OBVIOUS
<1>2. /\ IsList(u) /\ Len(u) = n + m
      /\ \A i \in 1..n: u[i] = a[i]
      /\ \A i \in 1..m: u[n + i] = b[i]
  <2>1. /\ IsList(a \o b) /\ Len(a \o b) = Len(a) + Len(b)
        /\ \A i \in 1..Len(a): (a \o b)[i] = a[i]
        /\ \A i \in 1..Len(b): (a \o b)[Len(a) + i] = b[i]
    BY <1>0, ListConcat
  <2> QED BY <1>0, <1>1, <2>1
<1>3. ASSUME NEW i \in 1..(n + m) PROVE u[i] = s[i]
  <2>1. CASE i <= n
    <3>1. i \in 1..n
      BY <1>0, <2>1
    <3> QED BY <1>0, <1>2, <3>1
  <2>2. CASE ~(i <= n)
    <3>1. PICK j \in 1..m: i = n + j
      <4>1. i - n \in 1..m /\ i = n + (i - n)
        BY <1>0, <2>2
      <4> QED BY <4>1
    <3> QED BY <1>0, <1>2, <3>1
  <2> QED BY <2>1, <2>2
<1> QED BY <1>0, <1>1, <1>2, <1>3, ListsEqual

RowOf(r)          == [c \in 1..Len(Types(job)) |-> Cell(job, r, c)]
RowsTo(n)         == [r \in 1..n |-> RowOf(r)]
CellsTo(c, n)     == [r \in 1..n |-> Cell(job, r, c)]
ColumnsTo(n)      == [c \in 1..Len(Types(job)) |-> CellsTo(c, n)]

LEMMA FirstRowsAre ==
  ASSUME NEW n
  PROVE  FirstRows(job, n) = [rows |-> RowsTo(n), columns |-> IF n = 0 THEN <<>> ELSE ColumnsTo(n)]
BY DEF FirstRows, RowsTo, RowOf, ColumnsTo, CellsTo

LEMMA FirstLists ==
  ASSUME NEW n \in Nat
  PROVE  /\ IsList(RowsTo(n)) /\ Len(RowsTo(n)) = n /\ \A r \in 1..n: RowsTo(n)[r] = RowOf(r)
         /\ \A c: /\ IsList(CellsTo(c, n)) /\ Len(CellsTo(c, n)) = n
                  /\ \A r \in 1..n: CellsTo(c, n)[r] = Cell(job, r, c)
<1>1. PICK f: f = RowsTo(n)
  OBVIOUS
<1>2. f = [r \in 1..n |-> f[r]] /\ \A r \in 1..n: f[r] = RowOf(r)
  BY <1>1 DEF RowsTo
<1>3. IsList(f) /\ Len(f) = n
  BY <1>2, ListMade
<1>4. ASSUME NEW c
      PROVE  /\ IsList(CellsTo(c, n)) /\ Len(CellsTo(c, n)) = n
             /\ \A r \in 1..n: CellsTo(c, n)[r] = Cell(job, r, c)
  <2>1. PICK g: g = CellsTo(c, n)
    OBVIOUS
  <2>2. g = [r \in 1..n |-> g[r]] /\ \A r \in 1..n: g[r] = Cell(job, r, c)
    BY <2>1 DEF CellsTo
  <2>3. IsList(g) /\ Len(g) = n
    BY <2>2, ListMade
  <2> QED BY <2>1, <2>2, <2>3
<1> QED BY <1>1, <1>2, <1>3, <1>4

\* The columns of a block that was read have the next rows of the data.
NextRows(columns, n, m) ==
  /\ columns = [c \in 1..Len(Types(job)) |-> columns[c]]
  /\ \A c \in 1..Len(Types(job)):
       /\ IsList(columns[c]) /\ Len(columns[c]) = m
       /\ \A r \in 1..m: columns[c][r] = Cell(job, n + r, c)

\* What a result has, and the rows of one more block.
LEMMA RowsAreStored ==
  ASSUME Len(Types(job)) \in Nat, NEW n \in Nat, NEW m \in Nat, m # 0, result = FirstRows(job, n),
         NEW columns, NextRows(columns, n, m)
  PROVE  Store(columns, m) = FirstRows(job, n + m)
<1>1. PICK w \in Nat: w = Len(Types(job))
  OBVIOUS
<1>2. PICK l \in Nat: l = n + m /\ l # 0
  OBVIOUS
<1>3. /\ columns = [c \in 1..w |-> columns[c]] /\ DOMAIN columns = 1..w
      /\ \A c \in 1..w: /\ IsList(columns[c]) /\ Len(columns[c]) = m
                        /\ \A r \in 1..m: columns[c][r] = Cell(job, n + r, c)
  BY <1>1 DEF NextRows
<1>4. result.rows = RowsTo(n) /\ result.columns = IF n = 0 THEN <<>> ELSE ColumnsTo(n)
  BY FirstRowsAre
<1>5. /\ IsList(RowsTo(n)) /\ Len(RowsTo(n)) = n /\ \A r \in 1..n: RowsTo(n)[r] = RowOf(r)
      /\ \A c: /\ IsList(CellsTo(c, n)) /\ Len(CellsTo(c, n)) = n
               /\ \A r \in 1..n: CellsTo(c, n)[r] = Cell(job, r, c)
  BY FirstLists
<1>6. /\ IsList(RowsTo(l)) /\ Len(RowsTo(l)) = l /\ \A r \in 1..l: RowsTo(l)[r] = RowOf(r)
      /\ \A c: /\ IsList(CellsTo(c, l)) /\ Len(CellsTo(c, l)) = l
               /\ \A r \in 1..l: CellsTo(c, l)[r] = Cell(job, r, c)
  BY FirstLists
<1>7. \A r \in 1..n: r \in 1..l
  BY <1>2
<1>8. \A r \in 1..m: n + r \in 1..l
  BY <1>2
<1> DEFINE rows == [r \in 1..m |-> [c \in DOMAIN columns |-> columns[c][r]]]
<1>9. rows = [r \in 1..m |-> rows[r]] /\ \A r \in 1..m: rows[r] = RowOf(n + r)
  <2>1. ASSUME NEW r \in 1..m PROVE rows[r] = RowOf(n + r)
    <3>1. rows[r] = [c \in 1..w |-> columns[c][r]]
      BY <1>3
    <3>2. RowOf(n + r) = [c \in 1..w |-> Cell(job, n + r, c)]
      BY <1>1 DEF RowOf
    <3>3. \A c \in 1..w: columns[c][r] = Cell(job, n + r, c)
      BY <1>3
    <3> QED BY <3>1, <3>2, <3>3
  <2> QED BY <2>1
<1>a. Store(columns, m) =
        [rows    |-> result.rows \o rows,
         columns |-> IF result.columns = <<>> THEN columns
                     ELSE [c \in DOMAIN columns |-> result.columns[c] \o columns[c]]]
  BY DEF Store
<1> HIDE DEF rows
<1>10. IsList(rows) /\ Len(rows) = m
  BY <1>9, ListMade
<1>11. RowsTo(n) \o rows = RowsTo(l)
  <2>1. \A r \in 1..n: RowsTo(l)[r] = RowsTo(n)[r]
    BY <1>5, <1>6, <1>7
  <2>2. \A r \in 1..m: RowsTo(l)[n + r] = rows[r]
    BY <1>6, <1>8, <1>9
  <2>3. PICK a, b: a = RowsTo(n) /\ b = RowsTo(l)
    OBVIOUS
  <2>4. IsList(a) /\ Len(a) = n /\ IsList(rows) /\ Len(rows) = m /\ IsList(b) /\ Len(b) = n + m
    BY <1>2, <1>5, <1>6, <1>10, <2>3
  <2>5. (\A r \in 1..n: b[r] = a[r]) /\ (\A r \in 1..m: b[n + r] = rows[r])
    BY <2>1, <2>2, <2>3
  <2>6. Joined(b, a, rows, n, m)
    BY <2>4, <2>5 DEF Joined
  <2>7. a \o rows = b
    BY <2>6, JoinedIsConcat
  <2> QED BY <2>3, <2>7
<1>12. ColumnsTo(l) = [c \in 1..w |-> CellsTo(c, l)]
  BY <1>1 DEF ColumnsTo
<1>13. CASE n = 0
  <2>1. ASSUME NEW c \in 1..w PROVE columns[c] = CellsTo(c, l)
    <3>1. l = m /\ \A r \in 1..m: n + r = r
      BY <1>2, <1>13
    <3>2. PICK x, y: x = columns[c] /\ y = CellsTo(c, l)
      OBVIOUS
    <3>3. /\ IsList(x) /\ Len(x) = m /\ IsList(y) /\ Len(y) = m
          /\ \A r \in 1..m: x[r] = y[r]
      BY <1>3, <1>6, <3>1, <3>2
    <3>4. x = y
      BY <3>3, ListsEqual
    <3> QED BY <3>2, <3>4
  <2>2. columns = ColumnsTo(l)
    BY <1>3, <1>12, <2>1
  <2>3. result.columns = <<>>
    BY <1>4, <1>13
  <2>4. Store(columns, m) = [rows |-> RowsTo(l), columns |-> ColumnsTo(l)]
    BY <1>4, <1>11, <1>a, <2>2, <2>3
  <2> QED BY <1>2, <2>4, FirstRowsAre
<1>14. CASE n # 0 /\ w = 0
  <2>1. columns = <<>> /\ ColumnsTo(l) = <<>> /\ ColumnsTo(n) = <<>>
    BY <1>1, <1>3, <1>14 DEF ColumnsTo
  <2>2. Store(columns, m) = [rows |-> RowsTo(l), columns |-> ColumnsTo(l)]
    BY <1>4, <1>11, <1>14, <1>a, <2>1
  <2> QED BY <1>2, <2>2, FirstRowsAre
<1>15. CASE n # 0 /\ w # 0
  <2>1. result.columns = [c \in 1..w |-> CellsTo(c, n)]
    BY <1>1, <1>4, <1>15 DEF ColumnsTo
  <2>2. result.columns # <<>>
    <3>1. DOMAIN result.columns = 1..w /\ 1 \in 1..w
      BY <1>15, <2>1
    <3> QED BY <3>1
  <2>3. ASSUME NEW c \in 1..w PROVE CellsTo(c, n) \o columns[c] = CellsTo(c, l)
    <3>1. PICK x, y, z: x = CellsTo(c, n) /\ y = columns[c] /\ z = CellsTo(c, l)
      OBVIOUS
    <3>2. /\ IsList(x) /\ Len(x) = n /\ IsList(y) /\ Len(y) = m /\ IsList(z) /\ Len(z) = n + m
      BY <1>2, <1>3, <1>5, <1>6, <3>1
    <3>3. \A r \in 1..n: z[r] = x[r]
      BY <1>5, <1>6, <1>7, <3>1
    <3>4. \A r \in 1..m: z[n + r] = y[r]
      BY <1>3, <1>6, <1>8, <3>1
    <3>5. Joined(z, x, y, n, m)
      BY <3>2, <3>3, <3>4 DEF Joined
    <3>6. x \o y = z
      BY <3>5, JoinedIsConcat
    <3> QED BY <3>1, <3>6
  <2>4. [c \in DOMAIN columns |-> result.columns[c] \o columns[c]] = [c \in 1..w |-> CellsTo(c, l)]
    BY <1>3, <2>1, <2>3
  <2>5. Store(columns, m) = [rows |-> RowsTo(l), columns |-> ColumnsTo(l)]
    BY <1>4, <1>11, <1>12, <1>a, <2>2, <2>4
  <2> QED BY <1>2, <2>5, FirstRowsAre
<1> QED BY <1>13, <1>14, <1>15

-----------------------------------------------------------------------------
(* The invariant of the stream *)

\* What is said of a chunk, as long as the job is the same.
LEMMA SameJob ==
  ASSUME job' = job
  PROVE  /\ \A x: Normal(x)' <=> Normal(x)
         /\ \A x: NumRows(x)' = NumRows(x)
         /\ \A x: BlockTokens(x)' = BlockTokens(x)
         /\ IrregularJob' <=> IrregularJob
         /\ Square' <=> Square
<1>1. \A x: Normal(x)' <=> Normal(x)
  BY DEF Normal
<1>2. \A x: NumRows(x)' = NumRows(x)
  BY DEF NumRows
<1>3. \A x, c: ColumnTokens(x, c)' = ColumnTokens(x, c)
  BY DEF ColumnTokens
<1>4. \A x: BlockTokens(x)' = BlockTokens(x)
  BY <1>2, <1>3 DEF BlockTokens
<1>5. IrregularJob' <=> IrregularJob
  BY DEF IrregularJob
<1>6. Square' <=> Square
  BY DEF Square, Rectangular
<1> QED BY <1>1, <1>2, <1>4, <1>5, <1>6

LEMMA OnlyPlace ==
  ASSUME NEW j, IsJob(j), NEW k, NEW n, SentTo(j, k, n)
  PROVE  PlaceOf(j, k) = n
<1>1. CASE ~ByColumn(j)
  BY <1>1 DEF SentTo, PlaceOf
<1>2. CASE ByColumn(j)
  <2>1. PICK l \in Nat: l = Len(j.data) /\ DOMAIN j.data = 1..l /\ (j.data = <<>> <=> l = 0)
    BY ListDomain DEF IsJob
  <2>2. j.data # <<>> => 1 \in DOMAIN j.data
    BY <2>1
  <2> QED BY <1>2, <2>2 DEF SentTo, PlaceOf
<1> QED BY <1>1, <1>2

\* A chunk that the sender takes, and none of whose columns is irregular.
LEMMA ChunkIsRead ==
  ASSUME IsJob(job), ~IrregularJob, NEW k \in Nat, k + 1 <= Len(Sliced(job)), NEW n \in Nat,
         SentTo(job, k, n), NEW chunk, chunk = Sliced(job)[k + 1], Normal(chunk),
         \A c \in DOMAIN Types(job): HasColumn(job, chunk, c)
  PROVE  /\ ChunkReads(chunk) /\ SentTo(job, k + 1, n + NumRows(chunk))
         /\ NextRows([c \in 1..Len(Types(job)) |-> Column(job, chunk, c)], n, NumRows(chunk))
<1>1. \A c \in DOMAIN Types(job): ColumnReads(chunk, c, ColumnTokens(chunk, c))
  BY ColumnOfChunkArrives
<1>2. \A c \in DOMAIN Types(job): ~Failed(ColumnTokens(chunk, c))
  BY <1>1 DEF ColumnReads
<1>3. NumRows(chunk) \in Nat /\ SentTo(job, k + 1, n + NumRows(chunk))
  <2>1. CASE ByColumn(job)
    BY <2>1, BlockOfColumns
  <2>2. CASE ~ByColumn(job)
    BY <1>2, <2>2, BlockOfRows
  <2> QED BY <2>1, <2>2
<1>4. ChunkReads(chunk)
  BY <1>1, <1>3 DEF ChunkReads
<1>5. PICK w \in Nat: w = Len(Types(job)) /\ DOMAIN Types(job) = 1..w
  BY ListDomain DEF IsJob
<1> DEFINE columns == [c \in 1..w |-> Column(job, chunk, c)]
<1>6. ASSUME NEW c \in 1..w
      PROVE  /\ IsList(columns[c]) /\ Len(columns[c]) = NumRows(chunk)
             /\ \A r \in 1..NumRows(chunk): columns[c][r] = Cell(job, n + r, c)
  <2>1. PICK items: items = Column(job, chunk, c)
    OBVIOUS
  <2>2. c \in DOMAIN Types(job) /\ HasColumn(job, chunk, c)
    BY <1>5
  <2>3. /\ IsList(items) /\ Len(items) = NumRows(chunk)
        /\ \A r \in 1..NumRows(chunk): items[r] = Cell(job, n + r, c)
    BY <2>1, <2>2, CellsOfChunk
  <2> QED BY <2>1, <2>3
<1>7. columns = [c \in 1..w |-> columns[c]]
  OBVIOUS
<1> HIDE DEF columns
<1>8. NextRows(columns, n, NumRows(chunk))
  BY <1>5, <1>6, <1>7 DEF NextRows
<1> QED BY <1>3, <1>4, <1>5, <1>8 DEF columns

\* What the invariant says of the blocks that were sent.
Written(m) ==
  \A i \in 1..m: /\ Normal(Sliced(job)[i])
                 /\ \A c \in DOMAIN Types(job): HasColumn(job, Sliced(job)[i], c)

\* ... so each of them can be read.
LEMMA SentBlocksRead ==
  ASSUME IsJob(job), ~IrregularJob, NEW m \in Nat, m <= Len(Sliced(job)), Written(m)
  PROVE  \A i \in 0..m: /\ \E n \in Nat: SentTo(job, i, n)
                        /\ i # 0 => ChunkReads(Sliced(job)[i])
<1>1. PICK l \in Nat: l = Len(Sliced(job))
  BY RowsOfJob, ColumnsOfJob, ListDomain
<1> DEFINE T == {i \in Nat: i <= m => /\ \E n \in Nat: SentTo(job, i, n)
                                      /\ i # 0 => ChunkReads(Sliced(job)[i])}
<1>2. 0 \in T
  BY NothingSent
<1>3. ASSUME NEW i \in Nat, i \in T PROVE i + 1 \in T
  <2>1. SUFFICES ASSUME i + 1 <= m
                 PROVE  (\E n \in Nat: SentTo(job, i + 1, n)) /\ ChunkReads(Sliced(job)[i + 1])
    OBVIOUS
  <2>2. PICK n \in Nat: SentTo(job, i, n)
    BY <1>3, <2>1
  <2>3. PICK chunk: chunk = Sliced(job)[i + 1]
    OBVIOUS
  <2>4. i + 1 \in 1..m /\ i + 1 <= Len(Sliced(job))
    BY <1>1, <2>1
  <2>5. Normal(chunk) /\ \A c \in DOMAIN Types(job): HasColumn(job, chunk, c)
    BY <2>3, <2>4 DEF Written
  <2> HIDE DEF T
  <2>6. ChunkReads(chunk) /\ SentTo(job, i + 1, n + NumRows(chunk))
    BY <2>2, <2>3, <2>4, <2>5, ChunkIsRead
  <2>7. n + NumRows(chunk) \in Nat
    BY <2>6 DEF ChunkReads
  <2> QED BY <2>3, <2>6, <2>7
<1> HIDE DEF T
<1>4. Nat \subseteq T
  BY <1>2, <1>3, InductionBySet
<1> QED BY <1>4 DEF T

LEMMA BlocksAreLists ==
  ASSUME IsJob(job), NEW m \in Nat, \A i \in 1..m: ChunkReads(Sliced(job)[i])
  PROVE  /\ IsLists(Blocks(m)) /\ Len(Blocks(m)) = m
         /\ \A i \in 1..m: /\ Blocks(m)[i] = BlockTokens(Sliced(job)[i])
                           /\ ~Failed(Blocks(m)[i]) /\ Len(Blocks(m)[i]) >= 2
<1>1. PICK b: b = Blocks(m)
  OBVIOUS
<1>2. b = [i \in 1..m |-> b[i]] /\ \A i \in 1..m: b[i] = BlockTokens(Sliced(job)[i])
  BY <1>1 DEF Blocks
<1>3. IsList(b) /\ Len(b) = m
  BY <1>2, ListMade
<1>4. \A i \in 1..m: IsList(b[i]) /\ ~Failed(b[i]) /\ Len(b[i]) >= 2
  BY <1>2, TokensOfBlock
<1> QED BY <1>1, <1>2, <1>3, <1>4 DEF IsLists

LEMMA ReceivedInit == BlockInit => ReceivedInv
<1> SUFFICES ASSUME BlockInit PROVE ReceivedInv
  OBVIOUS
<1>1. /\ IsJob(job) /\ stage = "sending" /\ wire = <<>> /\ sizes = <<>> /\ lost = FALSE
      /\ result = [rows |-> <<>>, columns |-> <<>>]
  BY JobsAssumption DEF BlockInit
<1>2. Len(sizes) = 0
  BY <1>1
<1>3. SentTo(job, 0, 0) /\ PlaceOf(job, 0) = 0
  BY <1>1, NothingSent, OnlyPlace
<1>4. RowsTo(0) = <<>>
  BY DEF RowsTo
<1>5. FirstRows(job, 0) = result
  BY <1>1, <1>4, FirstRowsAre
<1>6. FlattenSeq(SubSeq(Blocks(0), 0 + 1, 0)) = <<>>
  <2>1. SubSeq(Blocks(0), 0 + 1, 0) = <<>>
    OBVIOUS
  <2> QED BY <2>1, FlattenEmpty
<1>7. ReceivedTo(0)
  BY <1>1, <1>2, <1>3, <1>5, <1>6 DEF ReceivedTo
<1> QED BY <1>1, <1>2, <1>7 DEF ReceivedInv

\* The wire after k of m blocks.
WireFrom(k, m) == FlattenSeq(SubSeq(Blocks(m), k + 1, m))

LEMMA WireFromBlocks ==
  ASSUME IsJob(job), NEW m \in Nat, \A i \in 1..m: ChunkReads(Sliced(job)[i]), NEW k \in 0..m
  PROVE  /\ IsList(WireFrom(k, m)) /\ ~Failed(WireFrom(k, m))
         /\ k = m <=> WireFrom(k, m) = <<>>
         /\ k # m => WireFrom(k, m) = BlockTokens(Sliced(job)[k + 1]) \o WireFrom(k + 1, m)
<1>1. PICK b: b = Blocks(m)
  OBVIOUS
<1>2. /\ IsLists(b) /\ Len(b) = m
      /\ \A i \in 1..m: /\ b[i] = BlockTokens(Sliced(job)[i])
                        /\ ~Failed(b[i]) /\ Len(b[i]) >= 2
  BY <1>1, BlocksAreLists
<1>3. PICK s: s = SubSeq(b, k + 1, m)
  OBVIOUS
<1>4. IsLists(s) /\ Len(s) = m - k /\ \A i \in 1..(m - k): s[i] = b[k + i]
  <2>1. k \in Nat /\ k <= Len(b)
    BY <1>2
  <2>2. /\ IsLists(SubSeq(b, k + 1, Len(b))) /\ Len(SubSeq(b, k + 1, Len(b))) = Len(b) - k
        /\ \A i \in 1..(Len(b) - k): SubSeq(b, k + 1, Len(b))[i] = b[k + i]
    BY <1>2, <2>1, ListsSuffix
  <2> QED BY <1>2, <1>3, <2>2
<1>5. \A i \in 1..Len(s): ~Failed(s[i])
  BY <1>2, <1>4
<1>6. IsList(WireFrom(k, m)) /\ ~Failed(WireFrom(k, m))
  BY <1>1, <1>3, <1>4, <1>5, NoneFailed DEF WireFrom
<1>7. k = m => WireFrom(k, m) = <<>>
  <2>1. SubSeq(b, m + 1, m) = <<>>
    OBVIOUS
  <2> QED BY <1>1, <2>1, FlattenEmpty DEF WireFrom
<1>8. CASE k # m
  <2>1. PICK n \in Nat: n = k /\ n + 1 <= Len(b) /\ n + 1 \in 1..m
    BY <1>2, <1>8
  <2>2. FlattenSeq(SubSeq(b, n + 1, Len(b))) = b[n + 1] \o FlattenSeq(SubSeq(b, n + 2, Len(b)))
    BY <1>2, <2>1, FlattenBefore
  <2>3. n + 2 = (n + 1) + 1
    OBVIOUS
  <2>4. PICK x, y: x = b[n + 1] /\ y = WireFrom(n + 1, m)
    OBVIOUS
  <2>5. WireFrom(n, m) = x \o y
    BY <1>1, <1>2, <2>2, <2>3, <2>4 DEF WireFrom
  <2>6. IsList(x) /\ Len(x) >= 2 /\ x = BlockTokens(Sliced(job)[n + 1])
    BY <1>2, <2>1, <2>4 DEF IsLists
  <2>7. IsList(y)
    <3>1. n + 1 \in Nat /\ n + 1 <= Len(b)
      BY <2>1
    <3>2. PICK q \in Nat: q = n + 1 /\ q <= Len(b)
      BY <3>1
    <3>3. IsLists(SubSeq(b, q + 1, Len(b)))
      BY <1>2, <3>2, ListsSuffix
    <3> QED BY <1>1, <1>2, <2>4, <3>2, <3>3, ListFlatten DEF WireFrom
  <2>8. Len(x \o y) = Len(x) + Len(y) /\ Len(x) \in Nat /\ Len(y) \in Nat
    BY <2>6, <2>7, ListConcat
  <2>9. x \o y # <<>>
    <3>1. Len(x \o y) # 0
      BY <2>6, <2>8
    <3> QED BY <3>1
  <2> QED BY <1>6, <1>8, <2>1, <2>4, <2>5, <2>6, <2>9
<1> QED BY <1>6, <1>7, <1>8

\* One block more is behind the others.
LEMMA WireAppended ==
  ASSUME IsJob(job), NEW m \in Nat, \A i \in 1..(m + 1): ChunkReads(Sliced(job)[i]), NEW k \in 0..m
  PROVE  WireFrom(k, m + 1) = WireFrom(k, m) \o BlockTokens(Sliced(job)[m + 1])
<1>1. PICK l \in Nat: l = m + 1 /\ l = 1 + m
  OBVIOUS
<1>2. PICK b, a: b = Blocks(l) /\ a = Blocks(m)
  OBVIOUS
<1>3. /\ IsLists(b) /\ Len(b) = l
      /\ \A i \in 1..l: b[i] = BlockTokens(Sliced(job)[i])
  BY <1>1, <1>2, BlocksAreLists
<1>4. /\ IsLists(a) /\ Len(a) = m
      /\ \A i \in 1..m: a[i] = BlockTokens(Sliced(job)[i])
  <2>1. \A i \in 1..m: ChunkReads(Sliced(job)[i])
    OBVIOUS
  <2> QED BY <1>2, <2>1, BlocksAreLists
<1>5. PICK n \in Nat: n = m - k /\ n + 1 = l - k
  <2>1. m - k \in Nat /\ (m - k) + 1 = (m + 1) - k
    OBVIOUS
  <2> QED BY <1>1, <2>1
<1>6. PICK s, r: s = SubSeq(b, k + 1, l) /\ r = SubSeq(a, k + 1, m)
  OBVIOUS
<1>7. IsLists(s) /\ Len(s) = n + 1 /\ \A i \in 1..(n + 1): s[i] = b[k + i]
  <2>1. k \in Nat /\ k <= Len(b)
    BY <1>1, <1>3
  <2>2. /\ IsLists(SubSeq(b, k + 1, Len(b))) /\ Len(SubSeq(b, k + 1, Len(b))) = Len(b) - k
        /\ \A i \in 1..(Len(b) - k): SubSeq(b, k + 1, Len(b))[i] = b[k + i]
    BY <1>1, <1>3, <2>1, ListsSuffix
  <2> QED BY <1>3, <1>5, <1>6, <2>2
<1>8. IsLists(r) /\ Len(r) = n /\ \A i \in 1..n: r[i] = a[k + i]
  <2>1. k \in Nat /\ k <= Len(a)
    BY <1>4
  <2>2. /\ IsLists(SubSeq(a, k + 1, Len(a))) /\ Len(SubSeq(a, k + 1, Len(a))) = Len(a) - k
        /\ \A i \in 1..(Len(a) - k): SubSeq(a, k + 1, Len(a))[i] = a[k + i]
    BY <1>4, <2>1, ListsSuffix
  <2> QED BY <1>4, <1>5, <1>6, <2>2
<1>9. SubSeq(s, 1, n + 1) = s
  <2>1. PICK q \in Nat: q = n + 1 /\ q <= Len(s)
    BY <1>7
  <2>2. IsLists(SubSeq(s, 1, q)) /\ Len(SubSeq(s, 1, q)) = q /\ \A i \in 1..q: SubSeq(s, 1, q)[i] = s[i]
    BY <1>7, <2>1, ListsPrefix
  <2> QED BY <1>7, <2>1, <2>2, ListsEqual DEF IsLists
<1>10. SubSeq(s, 1, n) = r
  <2>1. n <= Len(s)
    BY <1>7
  <2>2. IsLists(SubSeq(s, 1, n)) /\ Len(SubSeq(s, 1, n)) = n /\ \A i \in 1..n: SubSeq(s, 1, n)[i] = s[i]
    BY <1>7, <2>1, ListsPrefix
  <2>3. ASSUME NEW i \in 1..n PROVE s[i] = r[i]
    <3>1. k + i \in 1..m /\ k + i \in 1..l /\ i \in 1..(n + 1)
      BY <1>1, <1>5
    <3> QED BY <1>3, <1>4, <1>7, <1>8, <3>1
  <2>4. PICK x: x = SubSeq(s, 1, n)
    OBVIOUS
  <2>5. IsList(x) /\ IsList(r) /\ Len(x) = Len(r) /\ \A i \in 1..Len(x): x[i] = r[i]
    BY <1>8, <2>2, <2>3, <2>4 DEF IsLists
  <2>6. x = r
    BY <2>5, ListsEqual
  <2> QED BY <2>4, <2>6
<1>11. s[n + 1] = BlockTokens(Sliced(job)[m + 1])
  <2>1. n + 1 \in 1..(n + 1) /\ k + (n + 1) = l /\ l \in 1..l
    BY <1>1, <1>5
  <2> QED BY <1>1, <1>3, <1>7, <2>1
<1>12. FlattenSeq(SubSeq(s, 1, n + 1)) = FlattenSeq(SubSeq(s, 1, n)) \o s[n + 1]
  <2>1. n + 1 <= Len(s)
    BY <1>7
  <2> QED BY <1>7, <2>1, FlattenMore
<1> QED BY <1>1, <1>2, <1>6, <1>9, <1>10, <1>11, <1>12 DEF WireFrom

\* The parts of the invariant that the steps need.
LEMMA SentFacts ==
  ASSUME SentInv, ReceivedInv, ~IrregularJob
  PROVE  /\ IsJob(job) /\ Len(sizes) \in Nat /\ Len(sizes) <= Len(Sliced(job)) /\ Written(Len(sizes))
         /\ ~lost
         /\ \A i \in 1..Len(sizes): ChunkReads(Sliced(job)[i])
         /\ \A k \in 0..Len(sizes): PlaceOf(job, k) \in Nat /\ SentTo(job, k, PlaceOf(job, k))
         /\ \E k \in 0..Len(sizes): /\ result = FirstRows(job, PlaceOf(job, k))
                                    /\ wire = WireFrom(k, Len(sizes))
<1>1. IsJob(job) /\ sizes \in Seq(Nat) /\ Len(sizes) <= Len(Sliced(job))
  BY DEF SentInv
<1>2. PICK m \in Nat: m = Len(sizes)
  BY <1>1
<1>3. Written(m) /\ ~lost
  BY <1>2 DEF ReceivedInv, Written
<1>4. \A i \in 0..m: /\ \E n \in Nat: SentTo(job, i, n)
                     /\ i # 0 => ChunkReads(Sliced(job)[i])
  BY <1>1, <1>2, <1>3, SentBlocksRead
<1>5. \A i \in 1..m: ChunkReads(Sliced(job)[i])
  <2>1. \A i \in 1..m: i \in 0..m /\ i # 0
    OBVIOUS
  <2> QED BY <1>4, <2>1
<1>6. \A k \in 0..m: PlaceOf(job, k) \in Nat /\ SentTo(job, k, PlaceOf(job, k))
  BY <1>1, <1>4, OnlyPlace
<1>7. \E k \in 0..m: result = FirstRows(job, PlaceOf(job, k)) /\ wire = WireFrom(k, m)
  BY <1>2 DEF ReceivedInv, ReceivedTo, WireFrom
<1> QED BY <1>1, <1>2, <1>3, <1>5, <1>6, <1>7

LEMMA BlockIsReceived ==
  ASSUME SentInv, ReceivedInv, ReceiveBlock PROVE ReceivedInv'
<1>1. /\ wire # <<>> /\ ~lost
      /\ job' = job /\ stage' = stage /\ sizes' = sizes
  BY DEF ReceiveBlock
<1> SUFFICES ASSUME ~IrregularJob PROVE ReceivedInv'
  BY <1>1, SameJob DEF ReceivedInv
<1>2. PICK m \in Nat: m = Len(sizes)
  BY SentFacts
<1>3. /\ IsJob(job) /\ m <= Len(Sliced(job)) /\ Written(m)
      /\ \A i \in 1..m: ChunkReads(Sliced(job)[i])
      /\ \A k \in 0..m: PlaceOf(job, k) \in Nat /\ SentTo(job, k, PlaceOf(job, k))
  BY <1>2, SentFacts
<1>4. PICK k \in 0..m: result = FirstRows(job, PlaceOf(job, k)) /\ wire = WireFrom(k, m)
  BY <1>2, SentFacts
<1>5. k # m
  BY <1>1, <1>3, <1>4, WireFromBlocks
<1>6. k \in Nat /\ k + 1 \in 1..m /\ k + 1 \in 0..m
  BY <1>5
<1>7. PICK chunk, rest: chunk = Sliced(job)[k + 1] /\ rest = WireFrom(k + 1, m)
  OBVIOUS
<1>8. wire = BlockTokens(chunk) \o rest
  BY <1>3, <1>4, <1>5, <1>7, WireFromBlocks
<1>9. IsList(rest) /\ ~Failed(rest)
  BY <1>3, <1>6, <1>7, WireFromBlocks
<1>10. PICK n \in Nat: n = PlaceOf(job, k) /\ SentTo(job, k, n)
  BY <1>3
<1> DEFINE columns == [c \in 1..Len(Types(job)) |-> Column(job, chunk, c)]
<1>11. /\ ChunkReads(chunk) /\ SentTo(job, k + 1, n + NumRows(chunk))
       /\ NextRows(columns, n, NumRows(chunk))
  <2>1. Normal(chunk) /\ \A c \in DOMAIN Types(job): HasColumn(job, chunk, c)
    BY <1>3, <1>6, <1>7 DEF Written
  <2>2. k + 1 <= Len(Sliced(job))
    <3>1. PICK l \in Nat: l = Len(Sliced(job))
      BY <1>3, RowsOfJob, ColumnsOfJob, ListDomain
    <3> QED BY <1>3, <1>6, <3>1
  <2> QED BY <1>3, <1>6, <1>7, <1>10, <2>1, <2>2, ChunkIsRead
<1>12. PICK q \in Nat: q = NumRows(chunk)
  BY <1>11 DEF ChunkReads
<1>13. /\ Len(wire) > 1 /\ wire[1] = Token("columns", Len(Types(job)))
       /\ wire[2] = Token("rows", q)
       /\ ReadColumns(q) = [columns |-> IF q = 0 THEN <<>> ELSE columns, rest |-> rest]
  BY <1>3, <1>8, <1>9, <1>11, <1>12, BlockArrives
<1> HIDE DEF columns
<1>14. wire[2].part = "rows" /\ wire[2].v = q
  BY <1>13 DEF Token
<1>15. wire' = rest /\ lost' = lost /\ result' = IF q = 0 THEN result ELSE Store(columns, q)
  BY <1>9, <1>13, <1>14 DEF ReceiveBlock
<1>16. PlaceOf(job, k + 1) = n + q
  BY <1>3, <1>11, <1>12, OnlyPlace
<1>17. result' = FirstRows(job, n + q)
  <2>1. CASE q = 0
    BY <1>4, <1>10, <1>15, <2>1
  <2>2. CASE q # 0
    <3>1. Len(Types(job)) \in Nat
      BY <1>3, ListDomain DEF IsJob
    <3>2. Store(columns, q) = FirstRows(job, n + q)
      BY <1>4, <1>10, <1>11, <1>12, <2>2, <3>1, RowsAreStored
    <3> QED BY <1>15, <2>2, <3>2
  <2> QED BY <2>1, <2>2
<1>18. \A x: Blocks(x)' = Blocks(x)
  BY <1>1, SameJob DEF Blocks
<1>19. SentTo(job, k + 1, PlaceOf(job, k + 1))
  BY <1>3, <1>6
<1>20. PICK i: i = k + 1
  OBVIOUS
<1>21. ReceivedTo(i)'
  BY <1>1, <1>2, <1>7, <1>15, <1>16, <1>17, <1>18, <1>19, <1>20 DEF ReceivedTo, WireFrom
<1>22. i \in 0..Len(sizes)
  BY <1>2, <1>6, <1>20
<1> QED BY <1>1, <1>15, <1>21, <1>22, SameJob DEF ReceivedInv

\* Data that is of the table's shape has no chunk that is not.
LEMMA ChunkOfSquare ==
  ASSUME IsJob(job), Square, NEW k \in Nat, k + 1 <= Len(Sliced(job)), NEW n \in Nat,
         SentTo(job, k, n), NEW chunk, chunk = Sliced(job)[k + 1]
  PROVE  Normal(chunk) /\ \A c \in DOMAIN Types(job): HasColumn(job, chunk, c)
<1>1. PICK w \in Nat: w = Len(Types(job)) /\ DOMAIN Types(job) = 1..w
  BY ListDomain DEF IsJob
<1>2. CASE ByColumn(job)
  <2>1. /\ Len(job.data) = w /\ DOMAIN job.data = 1..w
    BY <1>1, <1>2, ListDomain DEF Square, IsJob
  <2>2. \A c \in 1..w: Len(job.data[c]) = Len(job.data[1])
    BY <1>2, <2>1 DEF Square, Rectangular
  <2>3. /\ DOMAIN chunk = 1..w /\ Len(chunk) = w
        /\ \A c \in 1..w: Len(chunk[c]) = SlicedTo(job, job.data[c], k + 1) - SlicedTo(job, job.data[c], k)
    BY <1>2, <2>1, ColumnsOfJob
  <2>4. \A c \in 1..w: \A i: SlicedTo(job, job.data[c], i) = SlicedTo(job, job.data[1], i)
    BY <2>2 DEF SlicedTo, SplitEnd, ChunkEnd
  <2>5. \A c \in 1..w: 1 \in 1..w
    OBVIOUS
  <2>6. \A c \in 1..w: Len(chunk[c]) = Len(chunk[1])
    BY <2>3, <2>4, <2>5
  <2>7. Normal(chunk)
    BY <1>1, <1>2, <2>3, <2>6 DEF Normal
  <2>8. \A c \in DOMAIN Types(job): HasColumn(job, chunk, c)
    BY <1>1, <1>2, <2>3 DEF HasColumn
  <2> QED BY <2>7, <2>8
<1>3. CASE ~ByColumn(job)
  <2>1. \A r \in DOMAIN job.data: Len(job.data[r]) = w
    BY <1>1, <1>3 DEF Square
  <2>2. /\ IsList(chunk) /\ DOMAIN chunk = 1..Len(chunk)
        /\ \A r \in 1..Len(chunk): n + r \in DOMAIN job.data /\ chunk[r] = job.data[n + r]
    BY <1>3, CellsOfRows
  <2>3. \A r \in DOMAIN chunk: Len(chunk[r]) = w
    BY <2>1, <2>2
  <2>4. chunk # <<>> => 1 \in DOMAIN chunk
    BY <2>2, ListDomain
  <2>5. Normal(chunk)
    BY <1>1, <1>3, <2>3, <2>4 DEF Normal
  <2>6. \A c \in 1..w: c <= w
    OBVIOUS
  <2>7. \A c \in DOMAIN Types(job): HasColumn(job, chunk, c)
    BY <1>1, <1>3, <2>3, <2>6 DEF HasColumn
  <2> QED BY <2>5, <2>7
<1> QED BY <1>2, <1>3

LEMMA ReceivedIsSent ==
  ASSUME SentInv, ReceivedInv, SendBlock PROVE ReceivedInv'
<1>1. /\ job' = job /\ result' = result /\ lost' = lost /\ stage = "sending" /\ todo # <<>>
  BY DEF SendBlock
<1> SUFFICES ASSUME ~IrregularJob PROVE ReceivedInv'
  BY <1>1, SameJob DEF ReceivedInv
<1>2. PICK m \in Nat: m = Len(sizes)
  BY SentFacts
<1>3. /\ IsJob(job) /\ m <= Len(Sliced(job)) /\ Written(m) /\ ~lost
      /\ \A i \in 1..m: ChunkReads(Sliced(job)[i])
      /\ \A k \in 0..m: PlaceOf(job, k) \in Nat /\ SentTo(job, k, PlaceOf(job, k))
  BY <1>2, SentFacts
<1>4. PICK k \in 0..m: result = FirstRows(job, PlaceOf(job, k)) /\ wire = WireFrom(k, m)
  BY <1>2, SentFacts
<1>5. PICK l \in Nat: l = Len(Sliced(job))
  BY <1>3, RowsOfJob, ColumnsOfJob, ListDomain
<1>6. todo = SubSeq(Sliced(job), m + 1, l)
  BY <1>2, <1>5 DEF SentInv
<1>7. m + 1 <= l /\ Head(todo) = Sliced(job)[m + 1]
  BY <1>1, <1>3, <1>5, <1>6, OneChunkLess
<1>8. PICK chunk: chunk = Head(todo)
  OBVIOUS
<1>9. PICK n \in Nat: SentTo(job, m, n)
  <2>1. m \in 0..m
    OBVIOUS
  <2> QED BY <1>3, <2>1
<1>10. \A x: Blocks(x)' = Blocks(x)
  BY <1>1, SameJob DEF Blocks
<1>11. CASE ~(Normal(chunk) /\ \A c \in DOMAIN Types(job): ~Failed(ColumnTokens(chunk, c)))
  <2>1. stage' = "raised" /\ wire' = wire /\ sizes' = sizes
    BY <1>8, <1>11 DEF SendBlock
  <2>2. ~Square
    <3>1. SUFFICES ASSUME Square PROVE FALSE
      OBVIOUS
    <3>2. Normal(chunk) /\ \A c \in DOMAIN Types(job): HasColumn(job, chunk, c)
      BY <1>3, <1>5, <1>7, <1>8, <1>9, <3>1, ChunkOfSquare
    <3>3. ChunkReads(chunk)
      BY <1>3, <1>5, <1>7, <1>8, <1>9, <3>2, ChunkIsRead
    <3> QED BY <1>11, <3>2, <3>3 DEF ChunkReads, ColumnReads
  <2>3. ReceivedTo(k)'
    BY <1>1, <1>2, <1>3, <1>4, <1>10, <2>1 DEF ReceivedTo, WireFrom
  <2>4. Written(m)
    BY <1>3
  <2> QED BY <1>1, <1>2, <1>3, <2>1, <2>2, <2>3, <2>4, SameJob DEF ReceivedInv, Written
<1>12. CASE Normal(chunk) /\ \A c \in DOMAIN Types(job): ~Failed(ColumnTokens(chunk, c))
  <2>1. /\ stage' = stage /\ wire' = wire \o BlockTokens(chunk)
        /\ sizes' = Append(sizes, NumRows(chunk))
    BY <1>8, <1>12 DEF SendBlock
  <2>2. \A c \in DOMAIN Types(job): HasColumn(job, chunk, c)
    <3>1. Failed(<<Raised>>)
      BY DEF Failed, ToSet
    <3> QED BY <1>12, <3>1 DEF ColumnTokens
  <2>3. Len(sizes') = m + 1
    <3>1. sizes \in Seq(Nat)
      BY DEF SentInv
    <3> QED BY <1>2, <2>1, <3>1
  <2>4. PICK p \in Nat: p = m + 1
    OBVIOUS
  <2>5. Written(p)
    <3>1. \A i \in 1..p: i \in 1..m \/ i = m + 1
      BY <2>4
    <3> QED BY <1>3, <1>7, <1>8, <1>12, <2>2, <3>1 DEF Written
  <2>6. ChunkReads(chunk)
    BY <1>3, <1>5, <1>7, <1>8, <1>9, <1>12, <2>2, ChunkIsRead
  <2>7. \A i \in 1..(m + 1): ChunkReads(Sliced(job)[i])
    <3>1. \A i \in 1..(m + 1): i \in 1..m \/ i = m + 1
      OBVIOUS
    <3> QED BY <1>3, <1>7, <1>8, <2>6, <3>1
  <2>8. wire' = WireFrom(k, m + 1)
    BY <1>3, <1>4, <1>7, <1>8, <2>1, <2>7, WireAppended
  <2>9. ReceivedTo(k)'
    BY <1>1, <1>3, <1>4, <1>10, <2>3, <2>8 DEF ReceivedTo, WireFrom
  <2>10. k \in 0..Len(sizes')
    BY <2>3
  <2>11. stage' # "raised" /\ ~lost'
    BY <1>1, <1>3, <2>1
  <2>12. \A i \in 1..Len(sizes'): /\ Normal(Sliced(job)[i])'
                                  /\ \A c \in DOMAIN Types(job): HasColumn(job, Sliced(job)[i], c)
    BY <1>1, <2>3, <2>4, <2>5, SameJob DEF Written
  <2> QED BY <1>1, <2>9, <2>10, <2>11, <2>12 DEF ReceivedInv
<1> QED BY <1>11, <1>12

LEMMA ReceivedKeeps ==
  ASSUME SentInv, ReceivedInv, [BlockNext]_blockVars PROVE ReceivedInv'
<1>1. CASE SendBlock
  BY <1>1, ReceivedIsSent
<1>2. CASE ReceiveBlock
  BY <1>2, BlockIsReceived
<1>3. CASE EndOfChunks \/ UNCHANGED blockVars
  <2>1. /\ job' = job /\ sizes' = sizes /\ wire' = wire /\ result' = result /\ lost' = lost
        /\ stage' = stage \/ stage' = "sent"
    BY <1>3 DEF EndOfChunks, blockVars
  <2>2. \A x: Blocks(x)' = Blocks(x)
    BY <2>1, SameJob DEF Blocks
  <2>3. \A k: ReceivedTo(k)' <=> ReceivedTo(k)
    BY <2>1, <2>2 DEF ReceivedTo
  <2> QED BY <2>1, <2>3, SameJob DEF ReceivedInv
<1> QED BY <1>1, <1>2, <1>3 DEF BlockNext

\* The invariant of the stream: the rows of some of the blocks that were sent are in the
\* result, and the tokens of the others are on the wire (client.py:545-576,
\* streams/native.py:16-90, result.py:22-43).
THEOREM StreamInvariant == BlockSpec => []BlockInv
<1>1. BlockInit => BlockInv
  BY SentInit, ReceivedInit DEF BlockInv
<1>2. BlockInv /\ [BlockNext]_blockVars => BlockInv'
  BY SentKeeps, ReceivedKeeps DEF BlockInv
<1> QED BY <1>1, <1>2, PTL DEF BlockSpec

LEMMA AllHasArrived == BlockInv => ArrivesAsGiven
<1> SUFFICES ASSUME SentInv, ReceivedInv, ~IrregularJob PROVE ArrivesAsGiven
  BY DEF BlockInv, ArrivesAsGiven
<1>1. ~lost /\ (stage = "raised" => ~Square)
  BY DEF ReceivedInv
<1>2. ASSUME stage = "sent", wire = <<>>
      PROVE  Rectangular /\ result = FirstRows(job, NumRows(job.data))
  <2>1. PICK m \in Nat: m = Len(sizes)
    BY SentFacts
  <2>2. /\ IsJob(job) /\ \A i \in 1..m: ChunkReads(Sliced(job)[i])
    BY <2>1, SentFacts
  <2>3. PICK k \in 0..m: result = FirstRows(job, PlaceOf(job, k)) /\ wire = WireFrom(k, m)
    BY <2>1, SentFacts
  <2>4. k = m
    BY <1>2, <2>2, <2>3, WireFromBlocks
  <2>5. PlaceOf(job, m) = inserted
    BY <2>1, <2>2, OnlyPlace DEF SentInv
  <2>6. Rectangular /\ inserted = NumRows(job.data)
    BY <1>2, AllIsSent DEF RaggedIsRefused, RowsCounted
  <2> QED BY <2>3, <2>4, <2>5, <2>6
<1> QED BY <1>1, <1>2 DEF ArrivesAsGiven

\* Data that is sent without an exception arrives, value by value, whatever it is cut
\* into and whatever is nested in its types, three deep; data of the table's shape is
\* never refused, and the reader never loses its place (columns/, client.py:545-576,
\* streams/native.py:16-90, result.py:22-43).
THEOREM DataArrivesAsGiven == BlockSpec => []ArrivesAsGiven
<1> QED BY AllHasArrived, StreamInvariant, PTL
=============================================================================

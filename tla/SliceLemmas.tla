---------------------------- MODULE SliceLemmas ----------------------------
(***************************************************************************)
(* Facts about sequences and numbers that the proofs need. Slices and      *)
(* prefixes: position and current_buffer_size cut a buffer into slices     *)
(* (bufferedreader.pyx, bufferedwriter.pyx). Induction, division and       *)
(* recursion: the codecs loop over the groups, quads and items of a value  *)
(* (varint.pyx, largeint.pyx).                                             *)
(***************************************************************************)
EXTENDS Lists, SequencesExt, SequenceTheorems, WellFoundedInduction, TLAPS

\* There is a least one among natural numbers.
LEMMA LeastNatural ==
  ASSUME NEW T \in SUBSET Nat, T # {}
  PROVE  \E m \in T: \A k \in T: m <= k
<1>1. IsWellFoundedOn(OpToRel(<, Nat), Nat)
  BY NatLessThanWellFounded
<1>2. \E x \in T: \A y \in T: ~ (<<y, x>> \in OpToRel(<, Nat))
  BY <1>1, WFMin
<1>3. \A x, y \in Nat: y < x => <<y, x>> \in OpToRel(<, Nat)
  BY DEF OpToRel
<1>4. \A x, y \in Nat: ~(y < x) => x <= y
  OBVIOUS
<1> QED BY <1>2, <1>3, <1>4

\* A set that holds the first number and the successor of each of its numbers
\* holds them all: induction, for what can be said with a set.
LEMMA InductionBySet ==
  ASSUME NEW T, 0 \in T, \A n \in Nat: n \in T => n + 1 \in T
  PROVE  Nat \subseteq T
<1> SUFFICES ASSUME ~(Nat \subseteq T) PROVE FALSE
  OBVIOUS
<1>1. PICK m \in Nat \ T: \A k \in Nat \ T: m <= k
  <2>1. Nat \ T \in SUBSET Nat /\ Nat \ T # {}
    OBVIOUS
  <2> QED BY <2>1, LeastNatural
<1>2. m # 0
  BY <1>1
<1>3. m - 1 \in Nat /\ ~(m <= m - 1) /\ (m - 1) + 1 = m
  BY <1>2
<1>4. m - 1 \in T
  BY <1>1, <1>3
<1> QED BY <1>1, <1>3, <1>4

\* The elements of a slice.
LEMMA SliceElements ==
  ASSUME NEW S, NEW s, NEW k \in Nat, NEW n \in Nat,
         \A i \in (k + 1)..(k + n): s[i] \in S
  PROVE  /\ SubSeq(s, k + 1, k + n) \in Seq(S)
         /\ Len(SubSeq(s, k + 1, k + n)) = n
         /\ \A i \in 1..n: SubSeq(s, k + 1, k + n)[i] = s[k + i]
<1> DEFINE x == SubSeq(s, k + 1, k + n)
<1>1. /\ x \in Seq(S)
      /\ Len(x) = IF k + 1 <= k + n THEN (k + n) - (k + 1) + 1 ELSE 0
      /\ \A i \in 1..((k + n) - (k + 1) + 1): x[i] = s[k + 1 + i - 1]
  BY SubSeqProperties
<1> HIDE DEF x
<1>2. Len(x) = n
  BY <1>1
<1>3. ASSUME NEW i \in 1..n PROVE x[i] = s[k + i]
  <2>1. i \in 1..((k + n) - (k + 1) + 1) /\ k + 1 + i - 1 = k + i
    OBVIOUS
  <2> QED BY <1>1, <2>1
<1> QED BY <1>1, <1>2, <1>3 DEF x

\* The elements of a prefix.
LEMMA FrontElements ==
  ASSUME NEW S, NEW s, NEW n \in Nat, \A i \in 1..n: s[i] \in S
  PROVE  /\ SubSeq(s, 1, n) \in Seq(S)
         /\ Len(SubSeq(s, 1, n)) = n
         /\ \A i \in 1..n: SubSeq(s, 1, n)[i] = s[i]
<1> DEFINE x == SubSeq(s, 1, n)
<1>1. /\ x \in Seq(S)
      /\ Len(x) = IF 1 <= n THEN n - 1 + 1 ELSE 0
      /\ \A i \in 1..(n - 1 + 1): x[i] = s[1 + i - 1]
  BY SubSeqProperties
<1> HIDE DEF x
<1>2. Len(x) = n
  BY <1>1
<1>3. ASSUME NEW i \in 1..n PROVE x[i] = s[i]
  <2>1. i \in 1..(n - 1 + 1) /\ 1 + i - 1 = i
    OBVIOUS
  <2> QED BY <1>1, <2>1
<1> QED BY <1>1, <1>2, <1>3 DEF x

\* A prefix and the bytes after it are a longer prefix.
LEMMA PrefixExtends ==
  ASSUME NEW S, NEW s \in Seq(S), NEW k \in Nat, NEW n \in Nat, k + n <= Len(s)
  PROVE  SubSeq(s, 1, k) \o SubSeq(s, k + 1, k + n) = SubSeq(s, 1, k + n)
<1>1. Len(s) \in Nat
  OBVIOUS
<1>2. 1 \in 1..(Len(s) + 1) /\ k \in (1 - 1)..Len(s) /\ k + n \in k..Len(s)
  BY <1>1
<1> QED BY <1>2, ConcatAdjacentSubSeq

\* A prefix is as long as it says.
LEMMA PrefixLength ==
  ASSUME NEW S, NEW s \in Seq(S), NEW k \in 0..Len(s)
  PROVE  /\ SubSeq(s, 1, k) \in Seq(S)
         /\ Len(SubSeq(s, 1, k)) = k
<1>1. Len(s) \in Nat /\ k \in Int /\ \A i \in 1..k: s[i] \in S
  OBVIOUS
<1>2. /\ SubSeq(s, 1, k) \in Seq(S)
      /\ Len(SubSeq(s, 1, k)) = IF 1 <= k THEN k - 1 + 1 ELSE 0
  BY <1>1, SubSeqProperties
<1> QED BY <1>1, <1>2

\* Where a buffer holds the bytes after the first k of the stream, a slice of it
\* is a slice of the stream.
LEMMA SliceOfWindow ==
  ASSUME NEW S, NEW s \in Seq(S), NEW b, NEW k \in Nat, NEW p \in Nat, NEW n \in Nat,
         k + p + n <= Len(s),
         \A o \in 1..(p + n): b[o] = s[k + o]
  PROVE  /\ SubSeq(b, p + 1, p + n) \in Seq(S)
         /\ Len(SubSeq(b, p + 1, p + n)) = n
         /\ SubSeq(b, p + 1, p + n) = SubSeq(s, k + p + 1, k + p + n)
<1> DEFINE x == SubSeq(b, p + 1, p + n)
           y == SubSeq(s, k + p + 1, k + p + n)
<1>1. \A i \in (p + 1)..(p + n): b[i] \in S
  <2> TAKE i \in (p + 1)..(p + n)
  <2>1. i \in 1..(p + n) /\ k + i \in 1..Len(s)
    OBVIOUS
  <2> QED BY <2>1
<1>2. x \in Seq(S) /\ Len(x) = n /\ \A i \in 1..n: x[i] = b[p + i]
  BY <1>1, SliceElements
<1>3. y \in Seq(S) /\ Len(y) = n /\ \A i \in 1..n: y[i] = s[k + p + i]
  <2> DEFINE m == k + p
  <2>1. m \in Nat /\ \A i \in (m + 1)..(m + n): s[i] \in S
    OBVIOUS
  <2> HIDE DEF m
  <2>2. /\ SubSeq(s, m + 1, m + n) \in Seq(S)
        /\ Len(SubSeq(s, m + 1, m + n)) = n
        /\ \A i \in 1..n: SubSeq(s, m + 1, m + n)[i] = s[m + i]
    BY <2>1, SliceElements
  <2> QED BY <2>2 DEF m
<1> HIDE DEF x, y
<1>4. ASSUME NEW i \in 1..n PROVE x[i] = y[i]
  <2>1. p + i \in 1..(p + n) /\ k + (p + i) = k + p + i
    OBVIOUS
  <2> QED BY <1>2, <1>3, <2>1
<1>5. x = y
  BY <1>2, <1>3, <1>4, SeqEqual
<1> QED BY <1>2, <1>5 DEF x, y

\* The same for the front of the buffer.
LEMMA FrontOfWindow ==
  ASSUME NEW S, NEW s \in Seq(S), NEW b, NEW k \in Nat, NEW n \in Nat,
         k + n <= Len(s),
         \A o \in 1..n: b[o] = s[k + o]
  PROVE  /\ SubSeq(b, 1, n) \in Seq(S)
         /\ Len(SubSeq(b, 1, n)) = n
         /\ SubSeq(b, 1, n) = SubSeq(s, k + 1, k + n)
<1> DEFINE x == SubSeq(b, 1, n)
           y == SubSeq(s, k + 1, k + n)
<1>1. \A i \in 1..n: k + i \in 1..Len(s) /\ b[i] \in S
  OBVIOUS
<1>2. x \in Seq(S) /\ Len(x) = n /\ \A i \in 1..n: x[i] = b[i]
  BY <1>1, FrontElements
<1>3. \A i \in (k + 1)..(k + n): s[i] \in S
  OBVIOUS
<1>4. y \in Seq(S) /\ Len(y) = n /\ \A i \in 1..n: y[i] = s[k + i]
  BY <1>3, SliceElements
<1> HIDE DEF x, y
<1>5. x = y
  BY <1>2, <1>4, SeqEqual
<1> QED BY <1>2, <1>5 DEF x, y

\* A slice from a position to the same position is the element there.
LEMMA SingletonSlice ==
  ASSUME NEW b, NEW k \in Nat
  PROVE  SubSeq(b, k + 1, k + 1) = <<b[k + 1]>>
<1> DEFINE x == SubSeq(b, k + 1, k + 1)
<1>1. \A i \in (k + 1)..(k + 1): b[i] \in {b[k + 1]}
  OBVIOUS
<1>2. x \in Seq({b[k + 1]}) /\ Len(x) = 1 /\ \A i \in 1..1: x[i] = b[k + i]
  BY <1>1, SliceElements
<1> HIDE DEF x
<1>3. /\ <<b[k + 1]>> \in Seq({b[k + 1]}) /\ Len(<<b[k + 1]>>) = 1
      /\ \A i \in 1..1: x[i] = <<b[k + 1]>>[i]
  BY <1>2
<1>4. x = <<b[k + 1]>>
  BY <1>2, <1>3, SeqEqual
<1> QED BY <1>4 DEF x

\* Slices with the same elements are the same.
LEMMA EqualSlices ==
  ASSUME NEW S, NEW s \in Seq(S), NEW t \in Seq(S), NEW p \in Nat, NEW k \in Nat,
         NEW n \in Nat, p + n <= Len(s), k + n <= Len(t),
         \A i \in 1..n: s[p + i] = t[k + i]
  PROVE  SubSeq(s, p + 1, p + n) = SubSeq(t, k + 1, k + n)
<1> DEFINE x == SubSeq(s, p + 1, p + n)
           y == SubSeq(t, k + 1, k + n)
<1>1. \A i \in (p + 1)..(p + n): s[i] \in S
  OBVIOUS
<1>2. \A i \in (k + 1)..(k + n): t[i] \in S
  OBVIOUS
<1>3. x \in Seq(S) /\ Len(x) = n /\ \A i \in 1..n: x[i] = s[p + i]
  BY <1>1, SliceElements
<1>4. y \in Seq(S) /\ Len(y) = n /\ \A i \in 1..n: y[i] = t[k + i]
  BY <1>2, SliceElements
<1> HIDE DEF x, y
<1>5. x = y
  BY <1>3, <1>4, SeqEqual
<1> QED BY <1>5 DEF x, y

\* Prefixes with the same elements are the same.
LEMMA EqualPrefixes ==
  ASSUME NEW S, NEW s \in Seq(S), NEW t \in Seq(S), NEW n \in Nat,
         n <= Len(s), n <= Len(t), \A i \in 1..n: s[i] = t[i]
  PROVE  SubSeq(s, 1, n) = SubSeq(t, 1, n)
<1> DEFINE x == SubSeq(s, 1, n)
           y == SubSeq(t, 1, n)
<1>1. n \in 0..Len(s) /\ n \in 0..Len(t)
  OBVIOUS
<1>2. x \in Seq(S) /\ Len(x) = n /\ y \in Seq(S) /\ Len(y) = n
  BY <1>1, PrefixLength
<1>3. \A i \in 1..n: x[i] = s[i] /\ y[i] = t[i]
  OBVIOUS
<1> HIDE DEF x, y
<1>4. x = y
  BY <1>2, <1>3, SeqEqual
<1> QED BY <1>4 DEF x, y

\* A buffer is a sequence.
LEMMA BufferIsSequence ==
  ASSUME NEW S, NEW B \in Nat, NEW b \in [1..B -> S]
  PROVE  b \in Seq(S) /\ Len(b) = B
OBVIOUS

\* A sequence that grows at its end keeps its elements and its prefixes.
LEMMA LongerStream ==
  ASSUME NEW S, NEW s \in Seq(S), NEW t \in Seq(S), NEW k \in 0..Len(s)
  PROVE  /\ s \o t \in Seq(S) /\ Len(s \o t) \in Nat /\ Len(s) <= Len(s \o t)
         /\ \A i \in 1..Len(s): (s \o t)[i] = s[i]
         /\ SubSeq(s \o t, 1, k) = SubSeq(s, 1, k)
<1>1. /\ s \o t \in Seq(S) /\ Len(s \o t) = Len(s) + Len(t)
      /\ Len(s) \in Nat /\ Len(t) \in Nat
  BY ConcatProperties
<1>2. \A i \in 1..Len(s): (s \o t)[i] = s[i]
  OBVIOUS
<1> DEFINE u == s \o t
<1>3. u \in Seq(S) /\ k \in 0..Len(u) /\ k \in Nat
  BY <1>1
<1>4. \A i \in 1..k: u[i] = s[i]
  BY <1>1, <1>2
<1> HIDE DEF u
<1>5. /\ SubSeq(u, 1, k) \in Seq(S) /\ Len(SubSeq(u, 1, k)) = k
      /\ SubSeq(s, 1, k) \in Seq(S) /\ Len(SubSeq(s, 1, k)) = k
  BY <1>3, PrefixLength
<1>6. \A i \in 1..k: SubSeq(u, 1, k)[i] = SubSeq(s, 1, k)[i]
  BY <1>3, <1>4
<1>7. SubSeq(u, 1, k) = SubSeq(s, 1, k)
  BY <1>5, <1>6, SeqEqual
<1> QED BY <1>1, <1>2, <1>7 DEF u

\* A prefix of a prefix is a prefix.
LEMMA PrefixOfPrefix ==
  ASSUME NEW S, NEW s \in Seq(S), NEW m \in 0..Len(s), NEW k \in 0..m
  PROVE  SubSeq(SubSeq(s, 1, m), 1, k) = SubSeq(s, 1, k)
<1> DEFINE t == SubSeq(s, 1, m)
<1>1. Len(s) \in Nat /\ m \in Nat /\ k \in Nat /\ k <= m /\ k \in 0..Len(s)
  OBVIOUS
<1>2. t \in Seq(S) /\ Len(t) = m
  BY PrefixLength
<1>3. \A i \in 1..k: t[i] = s[i]
  BY <1>1
<1> HIDE DEF t
<1>4. /\ SubSeq(t, 1, k) \in Seq(S) /\ Len(SubSeq(t, 1, k)) = k
      /\ SubSeq(s, 1, k) \in Seq(S) /\ Len(SubSeq(s, 1, k)) = k
  BY <1>1, <1>2, PrefixLength
<1>5. \A i \in 1..k: SubSeq(t, 1, k)[i] = SubSeq(s, 1, k)[i]
  BY <1>1, <1>3
<1>6. SubSeq(t, 1, k) = SubSeq(s, 1, k)
  BY <1>4, <1>5, SeqEqual
<1> QED BY <1>6 DEF t

\* All of a sequence is a prefix of it.
LEMMA WholePrefix ==
  ASSUME NEW S, NEW s \in Seq(S)
  PROVE  SubSeq(s, 1, Len(s)) = s
<1>1. Len(s) \in Nat /\ Len(s) \in 0..Len(s)
  OBVIOUS
<1>2. SubSeq(s, 1, Len(s)) \in Seq(S) /\ Len(SubSeq(s, 1, Len(s))) = Len(s)
  BY <1>1, PrefixLength
<1>3. \A i \in 1..Len(s): SubSeq(s, 1, Len(s))[i] = s[i]
  BY <1>1
<1> QED BY <1>2, <1>3, SeqEqual

\* A part of the second sequence makes a prefix of the two.
LEMMA PrefixOfConcat ==
  ASSUME NEW S, NEW s \in Seq(S), NEW t \in Seq(S), NEW n \in 0..Len(t)
  PROVE  /\ s \o SubSeq(t, 1, n) \in Seq(S)
         /\ Len(s \o SubSeq(t, 1, n)) = Len(s) + n
         /\ Len(s) + n <= Len(s \o t)
         /\ s \o SubSeq(t, 1, n) = SubSeq(s \o t, 1, Len(s) + n)
<1> DEFINE x == SubSeq(t, 1, n)
           u == s \o t
           k == Len(s) + n
<1>1. Len(s) \in Nat /\ Len(t) \in Nat /\ n \in Nat /\ n <= Len(t)
  OBVIOUS
<1>2. x \in Seq(S) /\ Len(x) = n /\ \A i \in 1..n: x[i] = t[i]
  <2>1. \A i \in 1..n: t[i] \in S
    BY <1>1
  <2>2. \A i \in 1..n: x[i] = t[i]
    BY <1>1
  <2> QED BY <2>2, PrefixLength
<1>3. /\ u \in Seq(S) /\ Len(u) = Len(s) + Len(t)
      /\ \A i \in 1..(Len(s) + Len(t)): u[i] = IF i <= Len(s) THEN s[i] ELSE t[i - Len(s)]
  BY ConcatProperties
<1> HIDE DEF x, u
<1>4. /\ s \o x \in Seq(S) /\ Len(s \o x) = k
      /\ \A i \in 1..k: (s \o x)[i] = IF i <= Len(s) THEN s[i] ELSE x[i - Len(s)]
  <2>1. /\ s \o x \in Seq(S) /\ Len(s \o x) = Len(s) + Len(x)
        /\ \A i \in 1..(Len(s) + Len(x)):
             (s \o x)[i] = IF i <= Len(s) THEN s[i] ELSE x[i - Len(s)]
    BY <1>2, ConcatProperties
  <2> QED BY <1>2, <2>1
<1>5. k \in 0..Len(u) /\ k <= Len(u) /\ k \in Nat
  BY <1>1, <1>3
<1>6. SubSeq(u, 1, k) \in Seq(S) /\ Len(SubSeq(u, 1, k)) = k
  BY <1>3, <1>5, PrefixLength
<1>7. \A i \in 1..k: SubSeq(u, 1, k)[i] = (s \o x)[i]
  <2> TAKE i \in 1..k
  <2>1. SubSeq(u, 1, k)[i] = u[i] /\ i \in 1..(Len(s) + Len(t))
    BY <1>1, <1>5
  <2>2. CASE i <= Len(s)
    BY <1>3, <1>4, <2>1, <2>2
  <2>3. CASE ~(i <= Len(s))
    <3>1. i - Len(s) \in 1..n
      BY <1>1, <2>3
    <3> QED BY <1>2, <1>3, <1>4, <2>1, <2>3, <3>1
  <2> QED BY <2>2, <2>3
<1>8. SubSeq(u, 1, k) = s \o x
  BY <1>4, <1>6, <1>7, SeqEqual
<1> QED BY <1>4, <1>5, <1>8 DEF x, u

\* The first element of a slice is followed by the others.
LEMMA FirstOfSlice ==
  ASSUME NEW S, NEW s \in Seq(S), NEW k \in Nat, NEW n \in Nat, k < n, n <= Len(s)
  PROVE  /\ SubSeq(s, k + 1, n) = <<s[k + 1]>> \o SubSeq(s, k + 2, n)
         /\ SubSeq(s, k + 2, n) \in Seq(S) /\ s[k + 1] \in S
<1>1. Len(s) \in Nat
  OBVIOUS
<1>2. k + 1 \in 1..(Len(s) + 1) /\ k + 1 \in ((k + 1) - 1)..Len(s) /\ n \in (k + 1)..Len(s)
  BY <1>1
<1>3. SubSeq(s, k + 1, k + 1) \o SubSeq(s, (k + 1) + 1, n) = SubSeq(s, k + 1, n)
  BY <1>2, ConcatAdjacentSubSeq
<1>4. SubSeq(s, k + 1, k + 1) = <<s[k + 1]>> /\ (k + 1) + 1 = k + 2
  BY SingletonSlice
<1>5. \A i \in (k + 2)..n: s[i] \in S
  BY <1>1
<1>6. SubSeq(s, k + 2, n) \in Seq(S)
  BY <1>5, SubSeqProperties
<1>7. s[k + 1] \in S
  BY <1>1, <1>2
<1> QED BY <1>3, <1>4, <1>6, <1>7

\* What is behind a place grows with the sequence.
LEMMA SliceOfLonger ==
  ASSUME NEW S, NEW s \in Seq(S), NEW x \in S, NEW k \in 0..Len(s)
  PROVE  /\ SubSeq(s, k + 1, Len(s)) \in Seq(S)
         /\ SubSeq(Append(s, x), k + 1, Len(s) + 1) = Append(SubSeq(s, k + 1, Len(s)), x)
<1> DEFINE t == Append(s, x)
<1>1. PICK n \in Nat: n = Len(s)
  OBVIOUS
<1>2. /\ t \in Seq(S) /\ Len(t) = n + 1 /\ t[n + 1] = x /\ k \in Nat /\ k <= n
      /\ \A i \in 1..n: t[i] = s[i]
  BY <1>1
<1> HIDE DEF t
<1>3. k + 1 \in 1..(Len(t) + 1) /\ n \in ((k + 1) - 1)..Len(t) /\ n + 1 \in n..Len(t)
  BY <1>2
<1>4. SubSeq(t, k + 1, n) \o SubSeq(t, n + 1, n + 1) = SubSeq(t, k + 1, n + 1)
  BY <1>2, <1>3, ConcatAdjacentSubSeq
<1>5. SubSeq(t, n + 1, n + 1) = <<x>>
  BY <1>2, SingletonSlice
<1>6. SubSeq(t, k + 1, n) = SubSeq(s, k + 1, n)
  <2>1. PICK m \in Nat: m = n - k
    BY <1>2
  <2>2. k + m = n /\ n <= Len(t) /\ n <= Len(s) /\ \A i \in 1..m: t[k + i] = s[k + i]
    BY <1>1, <1>2, <2>1
  <2>3. SubSeq(t, k + 1, k + m) = SubSeq(s, k + 1, k + m)
    BY <1>2, <2>2, EqualSlices
  <2> QED BY <2>2, <2>3
<1>7. SubSeq(s, k + 1, n) \in Seq(S)
  <2>1. \A i \in (k + 1)..n: s[i] \in S
    BY <1>1, <1>2
  <2> QED BY <1>2, <2>1, SubSeqProperties
<1>8. Append(SubSeq(s, k + 1, n), x) = SubSeq(s, k + 1, n) \o <<x>>
  BY <1>7, AppendIsConcat
<1> QED BY <1>1, <1>4, <1>5, <1>6, <1>7, <1>8 DEF t

\* What begins a sequence at a place, and is as long as what is there, is that.
LEMMA OnlyNext ==
  ASSUME NEW S, NEW t \in Seq(S), NEW x \in Seq(S), NEW v \in Seq(S), NEW r \in Seq(S),
         Len(x) = Len(v), t \o x = SubSeq((t \o v) \o r, 1, Len(t \o x))
  PROVE  x = v
<1> DEFINE a == t \o x
           b == t \o v
           all == b \o r
<1>1. /\ a \in Seq(S) /\ Len(a) = Len(t) + Len(x)
      /\ b \in Seq(S) /\ Len(b) = Len(t) + Len(v)
      /\ Len(t) \in Nat /\ Len(x) \in Nat
      /\ \A i \in 1..Len(x): a[Len(t) + i] = x[i]
      /\ \A i \in 1..Len(v): b[Len(t) + i] = v[i]
  <2>1. \A y \in Seq(S): /\ t \o y \in Seq(S) /\ Len(t \o y) = Len(t) + Len(y)
                        /\ \A i \in 1..Len(y): (t \o y)[Len(t) + i] = y[i]
    OBVIOUS
  <2>2. Len(t) \in Nat /\ Len(x) \in Nat
    OBVIOUS
  <2> QED BY <2>1, <2>2
<1> HIDE DEF a, b
<1>2. /\ all \in Seq(S) /\ Len(all) \in Nat /\ Len(b) <= Len(all)
      /\ \A i \in 1..Len(b): all[i] = b[i]
  <2>1. b \in Seq(S) /\ 0 \in 0..Len(b)
    BY <1>1
  <2> QED BY <2>1, LongerStream
<1> HIDE DEF all
<1>3. a = SubSeq(all, 1, Len(a))
  BY DEF a, b, all
<1>4. \A i \in 1..Len(a): a[i] = all[i]
  <2>1. Len(a) \in Nat /\ \A i \in 1..Len(a): all[i] \in S
    BY <1>1, <1>2
  <2> QED BY <1>3, <2>1, FrontElements
<1>5. \A i \in 1..Len(x): x[i] = v[i]
  <2> TAKE i \in 1..Len(x)
  <2>1. Len(t) + i \in 1..Len(a) /\ Len(t) + i \in 1..Len(b)
    BY <1>1
  <2> QED BY <1>1, <1>2, <1>4, <2>1
<1> QED BY <1>5, SeqEqual

-----------------------------------------------------------------------------
(* Division *)

\* A product is at least as far from zero as a factor.
LEMMA AtLeastOnce ==
  ASSUME NEW m \in Nat, NEW k \in Int, k >= 1
  PROVE  m * k >= m
<1>1. m * (k - 1) >= 0
  OBVIOUS
<1>2. m * k = m * (k - 1) + m
  OBVIOUS
<1> QED BY <1>1, <1>2

\* \div and % are division with a remainder.
LEMMA Division ==
  ASSUME NEW x \in Int, NEW m \in Nat, m > 0
  PROVE  x \div m \in Int /\ x % m \in 0..(m - 1) /\ x = m * (x \div m) + (x % m)
<1>1. x = m * (x \div m) + (x % m)
  OBVIOUS
<1> QED BY <1>1

\* ... and there is only one way to divide.
LEMMA OnlyDivision ==
  ASSUME NEW x \in Int, NEW m \in Nat, m > 0, NEW h \in Int, NEW l \in 0..(m - 1),
         x = m * h + l
  PROVE  x \div m = h /\ x % m = l
<1>1. PICK high \in Int, low \in 0..(m - 1):
        high = x \div m /\ low = x % m /\ x = m * high + low
  BY Division
<1> DEFINE d == high - h
<1>2. d \in Int /\ m * high = m * h + m * d
  BY <1>1
<1>3. m * d = l - low
  BY <1>1, <1>2
<1>4. CASE d >= 1
  BY <1>1, <1>2, <1>3, <1>4, AtLeastOnce
<1>5. CASE -d >= 1
  <2>1. m * (-d) = -(m * d)
    BY <1>2
  <2>2. m * (-d) >= m
    BY <1>2, <1>5, AtLeastOnce
  <2> QED BY <1>1, <1>3, <2>1, <2>2
<1>6. CASE d = 0
  BY <1>1, <1>3, <1>6
<1> QED BY <1>2, <1>4, <1>5, <1>6

\* A number put above another one, each of them limited.
LEMMA PutAbove ==
  ASSUME NEW m \in Nat, NEW n \in Nat, NEW a \in 0..(m - 1), NEW b \in 0..(n - 1)
  PROVE  a * n + b \in 0..(m * n - 1)
<1>0. \A i, j \in Nat: i * j >= 0
  OBVIOUS
<1>1. a * n >= 0 /\ (m - 1 - a) * n >= 0
  <2>1. a \in Nat /\ m - 1 - a \in Nat
    OBVIOUS
  <2> QED BY <1>0, <2>1
<1>2. (m - 1 - a) * n = m * n - n - a * n
  OBVIOUS
<1>3. m * n \in Int /\ a * n \in Int
  OBVIOUS
<1> QED BY <1>1, <1>2, <1>3

\* Numbers that are a multiple apart.
LEMMA MultipleApart ==
  ASSUME NEW m \in Nat, m > 0, NEW k \in Int
  PROVE  (m * k) % m = 0
<1> SUFFICES ASSUME NEW p \in Int, p = m * k PROVE p % m = 0
  OBVIOUS
<1>1. p = m * k + 0 /\ 0 \in 0..(m - 1)
  OBVIOUS
<1> QED BY <1>1, OnlyDivision

\* A number cut before it is added to is cut as well as one cut after.
LEMMA CutSum ==
  ASSUME NEW a \in Int, NEW b \in Int, NEW m \in Nat, m > 0
  PROVE  ((a % m) + b) % m = (a + b) % m
<1>1. PICK q \in Int, r \in 0..(m - 1): r = a % m /\ a = m * q + r
  BY Division
<1>2. PICK x \in Int: x = r + b
  OBVIOUS
<1>3. PICK p \in Int, s \in 0..(m - 1): s = x % m /\ x = m * p + s
  BY Division
<1>4. PICK y \in Int: y = a + b
  OBVIOUS
<1>5. PICK h \in Int: h = q + p
  OBVIOUS
<1>6. y = m * h + s
  <2>1. m * h = m * q + m * p
    BY <1>5
  <2> QED BY <1>1, <1>2, <1>3, <1>4, <2>1
<1>7. y % m = s
  BY <1>6, OnlyDivision
<1> QED BY <1>1, <1>2, <1>3, <1>4, <1>7

\* A product of two natural numbers is one.
LEMMA NaturalProduct == \A a, b \in Nat: a * b \in Nat
OBVIOUS

-----------------------------------------------------------------------------
(* Functions computed from smaller numbers to larger ones *)

\* g holds the first values, up to the one of k, of a function that is computed from
\* start by step, each value from the one of a smaller number.
Computes(g, k, start, back, step) ==
  \A n \in 0..k: g[n] = IF n = 0 THEN start ELSE step[<<n, g[back[n]]>>]

\* As far as two of them go, they are the same.
LEMMA ComputesAgree ==
  ASSUME NEW start, NEW back \in [Nat -> Nat], NEW step,
         \A n \in Nat: n > 0 => back[n] < n,
         NEW k \in Nat, NEW g, Computes(g, k, start, back, step),
         NEW l \in Nat, NEW h, Computes(h, l, start, back, step),
         NEW i \in Nat, i <= k, i <= l
  PROVE  g[i] = h[i]
<1> DEFINE T == {n \in Nat: n <= k /\ n <= l /\ g[n] # h[n]}
<1> SUFFICES ASSUME T # {} PROVE FALSE
  OBVIOUS
<1>1. PICK m \in T: \A n \in T: m <= n
  <2>1. T \in SUBSET Nat
    OBVIOUS
  <2> HIDE DEF T
  <2> QED BY <2>1, LeastNatural
<1>2. m \in 0..k /\ m \in 0..l /\ m \in Nat
  BY <1>1
<1>3. /\ g[m] = IF m = 0 THEN start ELSE step[<<m, g[back[m]]>>]
      /\ h[m] = IF m = 0 THEN start ELSE step[<<m, h[back[m]]>>]
  BY <1>2 DEF Computes
<1>4. m # 0 /\ g[back[m]] # h[back[m]]
  BY <1>1, <1>3
<1>5. back[m] \in Nat /\ back[m] < m
  BY <1>2, <1>4
<1>6. back[m] \in T
  BY <1>2, <1>4, <1>5
<1> QED BY <1>1, <1>2, <1>5, <1>6

\* There are such values up to every number.
LEMMA ComputesUpTo ==
  ASSUME NEW start, NEW back \in [Nat -> Nat], NEW step,
         \A n \in Nat: n > 0 => back[n] < n
  PROVE  \A k \in Nat: \E g: Computes(g, k, start, back, step)
<1> DEFINE T == {k \in Nat: \E g: Computes(g, k, start, back, step)}
<1>1. 0 \in T
  <2> DEFINE g == [n \in 0..0 |-> start]
  <2>1. Computes(g, 0, start, back, step)
    BY DEF Computes
  <2> QED BY <2>1
<1>2. ASSUME NEW k \in Nat, k \in T PROVE k + 1 \in T
  <2>1. PICK g: Computes(g, k, start, back, step)
    BY <1>2
  <2>2. PICK l \in Nat: l = k + 1
    OBVIOUS
  <2> DEFINE h == [n \in 0..l |-> IF n <= k THEN g[n] ELSE step[<<l, g[back[l]]>>]]
  <2>3. back[l] \in Nat /\ back[l] <= k /\ l # 0
    BY <2>2
  <2>4. ASSUME NEW n \in 0..l
        PROVE  h[n] = IF n = 0 THEN start ELSE step[<<n, h[back[n]]>>]
    <3>1. CASE n = l
      <4>1. h[n] = step[<<l, g[back[l]]>>]
        BY <2>2, <3>1
      <4>2. h[back[l]] = g[back[l]]
        BY <2>2, <2>3
      <4> QED BY <2>3, <3>1, <4>1, <4>2
    <3>2. CASE n # l
      <4>1. n \in 0..k /\ h[n] = g[n]
        BY <2>2, <3>2
      <4>2. g[n] = IF n = 0 THEN start ELSE step[<<n, g[back[n]]>>]
        BY <2>1, <4>1 DEF Computes
      <4>3. n # 0 => h[back[n]] = g[back[n]]
        <5>1. n # 0 => back[n] \in Nat /\ back[n] <= k /\ back[n] \in 0..l
          BY <2>2, <4>1
        <5> QED BY <5>1
      <4> QED BY <4>1, <4>2, <4>3
    <3> QED BY <3>1, <3>2
  <2> HIDE DEF h
  <2>5. Computes(h, l, start, back, step)
    BY <2>4 DEF Computes
  <2> QED BY <2>2, <2>5
<1> HIDE DEF T
<1>3. Nat \subseteq T
  BY <1>1, <1>2, InductionBySet
<1> QED BY <1>3 DEF T

\* A recursion over natural numbers with values in V, and a function that solves it.
Recursion(V, start, back, step) ==
  /\ start \in V /\ step \in [Nat \X V -> V]
  /\ back \in [Nat -> Nat] /\ \A n \in Nat: n > 0 => back[n] < n

Solves(f, V, start, back, step) ==
  /\ f \in [Nat -> V]
  /\ \A n \in Nat: f[n] = IF n = 0 THEN start ELSE step[<<n, f[back[n]]>>]

\* A recursion has a solution: what a recursive function chooses exists.
LEMMA ComputesAll ==
  ASSUME NEW V, NEW start, NEW back, NEW step, Recursion(V, start, back, step)
  PROVE  \E f: Solves(f, V, start, back, step)
<1>0. /\ start \in V /\ step \in [Nat \X V -> V]
      /\ back \in [Nat -> Nat] /\ \A n \in Nat: n > 0 => back[n] < n
  BY DEF Recursion
<1> DEFINE g(k) == CHOOSE x: Computes(x, k, start, back, step)
           f == [n \in Nat |-> g(n)[n]]
<1>1. \A k \in Nat: Computes(g(k), k, start, back, step)
  <2> TAKE k \in Nat
  <2>1. \E x: Computes(x, k, start, back, step)
    BY <1>0, ComputesUpTo
  <2> QED BY <2>1
<1> HIDE DEF g
<1>2. ASSUME NEW n \in Nat
      PROVE  f[n] = IF n = 0 THEN start ELSE step[<<n, f[back[n]]>>]
  <2>1. f[n] = IF n = 0 THEN start ELSE step[<<n, g(n)[back[n]]>>]
    <3>1. n \in 0..n
      OBVIOUS
    <3> QED BY <1>1, <3>1 DEF Computes
  <2>2. CASE n = 0
    BY <2>1, <2>2
  <2>3. CASE n # 0
    <3>1. PICK l \in Nat: l = back[n] /\ l < n
      BY <1>0, <2>3
    <3>2. g(n)[l] = g(l)[l]
      <4>1. Computes(g(n), n, start, back, step) /\ Computes(g(l), l, start, back, step)
        BY <1>1
      <4> DEFINE a == g(n)  b == g(l)
      <4> HIDE DEF a, b
      <4>2. Computes(a, n, start, back, step) /\ Computes(b, l, start, back, step)
        BY <4>1 DEF a, b
      <4>3. l <= n /\ l <= l
        BY <3>1
      <4>4. a[l] = b[l]
        BY <1>0, <4>2, <4>3, ComputesAgree
      <4> QED BY <4>4 DEF a, b
    <3> QED BY <2>1, <2>3, <3>1, <3>2
  <2> QED BY <2>2, <2>3
<1>3. \A n \in Nat: f[n] \in V
  <2> DEFINE T == {n \in Nat: f[n] \notin V}
  <2> HIDE DEF f
  <2> SUFFICES ASSUME T # {} PROVE FALSE
    OBVIOUS
  <2>1. PICK m \in T: \A n \in T: m <= n
    <3>1. T \in SUBSET Nat
      OBVIOUS
    <3> HIDE DEF T
    <3> QED BY <3>1, LeastNatural
  <2>2. m \in Nat /\ f[m] \notin V
    BY <2>1
  <2>3. m # 0 /\ f[m] = step[<<m, f[back[m]]>>]
    BY <1>0, <1>2, <2>2
  <2>4. back[m] \in Nat /\ back[m] < m
    BY <1>0, <2>2, <2>3
  <2>5. f[back[m]] \in V
    BY <2>1, <2>2, <2>4
  <2> QED BY <1>0, <2>2, <2>3, <2>5
<1>4. f \in [Nat -> V]
  BY <1>3
<1> HIDE DEF f
<1> QED BY <1>2, <1>4 DEF Solves

\* A step back.
Before == [n \in Nat |-> IF n = 0 THEN 0 ELSE n - 1]

\* ... and it goes back.
LEMMA StepBack ==
  Before \in [Nat -> Nat] /\ \A n \in Nat: n > 0 => Before[n] < n /\ Before[n] = n - 1
BY DEF Before

\* A smaller number is left behind each digit.
LEMMA DigitsLeft ==
  ASSUME NEW base \in Nat, base > 1, NEW n \in Nat
  PROVE  /\ n \div base \in Nat /\ n % base \in 0..(base - 1)
         /\ n = base * (n \div base) + (n % base)
         /\ n > 0 => n \div base < n
         /\ n >= base => n \div base >= 1
<1>b. base \in Nat /\ base > 1
  OBVIOUS
<1>1. PICK q \in Int, r \in 0..(base - 1): q = n \div base /\ r = n % base /\ n = base * q + r
  BY <1>b, Division
<1>2. q >= 0
  <2> SUFFICES ASSUME -q >= 1 PROVE FALSE
    OBVIOUS
  <2>1. base * (-q) >= base
    BY <1>b, AtLeastOnce
  <2>2. base * (-q) = -(base * q)
    BY <1>b
  <2> QED BY <1>b, <1>1, <2>1, <2>2
<1>3. n > 0 => q < n
  <2> SUFFICES ASSUME n > 0, q >= n PROVE FALSE
    OBVIOUS
  <2>1. base * q >= 2 * q
    <3>1. (base - 2) * q >= 0
      BY <1>b, <1>2
    <3>2. base * q = (base - 2) * q + 2 * q
      BY <1>b
    <3> QED BY <1>b, <1>2, <3>1, <3>2
  <2> QED BY <1>b, <1>1, <1>2, <2>1
<1>4. n >= base => q >= 1
  <2> SUFFICES ASSUME n >= base, q = 0 PROVE FALSE
    BY <1>2
  <2>1. base * q = 0
    BY <1>b
  <2> QED BY <1>b, <1>1, <2>1
<1>5. q \in Nat
  BY <1>2
<1> QED BY <1>b, <1>1, <1>3, <1>4, <1>5

\* Digits from the lowest, all but the last with a flag, as make_varint makes them
\* (varint.pyx:5-26): the recursion has a solution.
LEMMA DigitsExist ==
  ASSUME NEW base \in Nat, base > 1
  PROVE  \E f: f = [n \in Nat |-> IF n < base THEN <<n>>
                                  ELSE <<(n % base) + base>> \o f[n \div base]]
<1> DEFINE Digit == 0..(2 * base - 1)
           next == [n \in Nat |-> n \div base]
           step == [p \in Nat \X Seq(Digit) |->
                      IF p[1] < base THEN <<p[1]>> ELSE <<(p[1] % base) + base>> \o p[2]]
           Is(f) == f = [n \in Nat |-> IF n < base THEN <<n>>
                                       ELSE <<(n % base) + base>> \o f[n \div base]]
<1>b. base \in Nat /\ base > 1
  OBVIOUS
<1>1. \E f: Is(f)
  <2>1. ASSUME NEW n \in Nat, NEW x \in Seq(Digit)
        PROVE  /\ n < base => <<n>> \in Seq(Digit)
               /\ <<(n % base) + base>> \o x \in Seq(Digit)
    <3>1. (n % base) + base \in Digit
      <4>1. PICK r \in 0..(base - 1): r = n % base
        BY <1>b, DigitsLeft
      <4> QED BY <1>b, <4>1
    <3>2. n < base => n \in Digit
      BY <1>b
    <3>3. \A b: b \in Digit => <<b>> \in Seq(Digit)
      OBVIOUS
    <3>4. <<(n % base) + base>> \in Seq(Digit)
      BY <3>1, <3>3
    <3> QED BY <3>2, <3>3, <3>4, ConcatProperties
  <2>2. step \in [Nat \X Seq(Digit) -> Seq(Digit)]
    <3> SUFFICES ASSUME NEW p \in Nat \X Seq(Digit)
                 PROVE  (IF p[1] < base THEN <<p[1]>> ELSE <<(p[1] % base) + base>> \o p[2])
                          \in Seq(Digit)
      OBVIOUS
    <3>1. p[1] \in Nat /\ p[2] \in Seq(Digit)
      OBVIOUS
    <3> QED BY <2>1, <3>1
  <2>3. \A n \in Nat, x \in Seq(Digit):
          step[<<n, x>>] = IF n < base THEN <<n>> ELSE <<(n % base) + base>> \o x
    OBVIOUS
  <2>4. next \in [Nat -> Nat] /\ \A n \in Nat: n > 0 => next[n] < n
    <3>1. \A n \in Nat: n \div base \in Nat /\ (n > 0 => n \div base < n)
      BY DigitsLeft
    <3> QED BY <3>1
  <2> HIDE DEF step, Digit, next
  <2>5. <<0>> \in Seq(Digit)
    BY <1>b DEF Digit
  <2>6. Recursion(Seq(Digit), <<0>>, next, step)
    BY <2>2, <2>4, <2>5 DEF Recursion
  <2>7. PICK f: Solves(f, Seq(Digit), <<0>>, next, step)
    BY <2>6, ComputesAll
  <2>8. /\ f \in [Nat -> Seq(Digit)]
        /\ \A n \in Nat: f[n] = IF n = 0 THEN <<0>> ELSE step[<<n, f[next[n]]>>]
    BY <2>7 DEF Solves
  <2>9. ASSUME NEW n \in Nat
        PROVE  f[n] = IF n < base THEN <<n>> ELSE <<(n % base) + base>> \o f[n \div base]
    <3>1. next[n] = n \div base /\ n \div base \in Nat
      BY DigitsLeft DEF next
    <3>2. f[n \div base] \in Seq(Digit)
      BY <2>8, <3>1
    <3>3. n # 0 => f[n] = step[<<n, f[n \div base]>>]
      BY <2>8, <3>1
    <3>4. n = 0 => n < base /\ f[n] = <<n>>
      <4>1. 0 < base
        BY <1>b
      <4>2. f[0] = <<0>>
        BY <2>8
      <4> QED BY <4>1, <4>2
    <3> QED BY <2>3, <3>2, <3>3, <3>4
  <2>10. f = [n \in Nat |-> f[n]]
    BY <2>8
  <2>11. Is(f)
    BY <2>9, <2>10
  <2> QED BY <2>11
<1> QED BY <1>1

\* Induction over numbers by what is left behind their lowest digit.
LEMMA DigitInduction ==
  ASSUME NEW base \in Nat, base > 1, NEW T,
         \A n \in Nat: n < base => n \in T,
         \A n \in Nat: n >= base /\ n \div base \in T => n \in T
  PROVE  Nat \subseteq T
<1> SUFFICES ASSUME ~(Nat \subseteq T) PROVE FALSE
  OBVIOUS
<1>1. PICK m \in Nat \ T: \A k \in Nat \ T: m <= k
  <2>1. Nat \ T \in SUBSET Nat /\ Nat \ T # {}
    OBVIOUS
  <2> QED BY <2>1, LeastNatural
<1>2. base \in Nat /\ base > 1 /\ m \in Nat /\ m >= base
  BY <1>1
<1>3. m \div base \in Nat /\ m \div base < m
  <2>1. m > 0
    BY <1>2
  <2> QED BY <1>2, <2>1, DigitsLeft
<1>4. m \div base \in T
  BY <1>1, <1>2, <1>3
<1> QED BY <1>1, <1>2, <1>4

-----------------------------------------------------------------------------
(* Sequences put one behind the other *)

\* FlattenSeq's partial results.
Flattens(f, seqs, n) ==
  f = [i \in 1..n |-> IF i = 1 THEN seqs[i] ELSE f[i - 1] \o seqs[i]]

\* There are such partial results, as many as one likes.
LEMMA FlattensExist ==
  ASSUME NEW seqs, NEW n \in Nat
  PROVE  \E f: Flattens(f, seqs, n)
<1> DEFINE T == {k \in Nat: \E f: Flattens(f, seqs, k)}
<1>1. 0 \in T
  <2>1. Flattens([i \in 1..0 |-> seqs], seqs, 0)
    BY DEF Flattens
  <2> QED BY <2>1
<1>2. ASSUME NEW k \in Nat, k \in T PROVE k + 1 \in T
  <2>1. PICK f: Flattens(f, seqs, k)
    BY <1>2
  <2> DEFINE g == [i \in 1..(k + 1) |->
                     IF i <= k THEN f[i] ELSE IF k = 0 THEN seqs[i] ELSE f[k] \o seqs[i]]
             h == [i \in 1..(k + 1) |-> IF i = 1 THEN seqs[i] ELSE g[i - 1] \o seqs[i]]
  <2>2. \A i \in 1..k: f[i] = IF i = 1 THEN seqs[i] ELSE f[i - 1] \o seqs[i]
    BY <2>1 DEF Flattens
  <2>3. ASSUME NEW i \in 1..(k + 1) PROVE g[i] = h[i]
    <3>1. CASE i <= k
      <4>1. i \in 1..k /\ (i # 1 => i - 1 \in 1..(k + 1) /\ i - 1 <= k)
        BY <3>1
      <4>2. g[i] = f[i] /\ (i # 1 => g[i - 1] = f[i - 1])
        BY <3>1, <4>1
      <4> QED BY <2>2, <4>1, <4>2
    <3>2. CASE ~(i <= k)
      <4>1. i = k + 1 /\ (i = 1 <=> k = 0)
        BY <3>2
      <4>2. i # 1 => i - 1 = k /\ k \in 1..(k + 1) /\ k <= k
        BY <4>1
      <4> QED BY <4>1, <4>2, <3>2
    <3> QED BY <3>1, <3>2
  <2>4. g = h
    <3> HIDE DEF h
    <3>1. h = [i \in 1..(k + 1) |-> h[i]]
      BY DEF h
    <3>2. g = [i \in 1..(k + 1) |-> g[i]]
      OBVIOUS
    <3> HIDE DEF g
    <3> QED BY <2>3, <3>1, <3>2
  <2>5. Flattens(g, seqs, k + 1)
    <3> HIDE DEF g
    <3> QED BY <2>4 DEF Flattens
  <2> QED BY <2>5
<1> HIDE DEF T
<1>3. Nat \subseteq T
  BY <1>1, <1>2, InductionBySet
<1> QED BY <1>3 DEF T

\* The recursion of FlattenSeq has a solution, and its last value is taken.
LEMMA FlattenUnfolds ==
  ASSUME NEW seqs, Len(seqs) \in Nat, Len(seqs) # 0
  PROVE  \E f: Flattens(f, seqs, Len(seqs)) /\ FlattenSeq(seqs) = f[Len(seqs)]
<1> DEFINE f == CHOOSE g: Flattens(g, seqs, Len(seqs))
<1>1. Flattens(f, seqs, Len(seqs))
  BY FlattensExist
<1>2. FlattenSeq(seqs) = f[Len(seqs)]
  BY DEF FlattenSeq, Flattens
<1> QED BY <1>1, <1>2

\* One step of that recursion.
LEMMA FlattensStep ==
  ASSUME NEW f, NEW seqs, NEW n \in Nat, Flattens(f, seqs, n)
  PROVE  /\ n > 0 => f[1] = seqs[1]
         /\ \A i \in 1..(n - 1): f[i + 1] = f[i] \o seqs[i + 1]
<1>1. \A i \in 1..n: f[i] = IF i = 1 THEN seqs[i] ELSE f[i - 1] \o seqs[i]
  BY DEF Flattens
<1>2. ASSUME NEW i \in 1..(n - 1) PROVE f[i + 1] = f[i] \o seqs[i + 1]
  <2>1. i + 1 \in 1..n /\ i + 1 # 1 /\ (i + 1) - 1 = i
    OBVIOUS
  <2> QED BY <1>1, <2>1
<1>3. n > 0 => 1 \in 1..n
  OBVIOUS
<1> QED BY <1>1, <1>2, <1>3

\* What is put together is a sequence of the same values.
LEMMA FlattensTyped ==
  ASSUME NEW S, NEW seqs \in Seq(Seq(S)), NEW f, NEW n \in Nat, n <= Len(seqs),
         Flattens(f, seqs, n)
  PROVE  \A i \in 1..n: f[i] \in Seq(S)
<1> DEFINE T == {k \in Nat: k + 1 <= n => f[k + 1] \in Seq(S)}
<1>0. Len(seqs) \in Nat /\ \A i \in 1..Len(seqs): seqs[i] \in Seq(S)
  OBVIOUS
<1>s. /\ n > 0 => f[1] = seqs[1]
      /\ \A i \in 1..(n - 1): f[i + 1] = f[i] \o seqs[i + 1]
  BY FlattensStep
<1>1. 0 \in T
  <2>1. 0 + 1 = 1 /\ (0 + 1 <= n => n > 0 /\ 1 \in 1..Len(seqs))
    BY <1>0
  <2>2. 0 + 1 <= n => f[0 + 1] \in Seq(S)
    BY <1>0, <1>s, <2>1
  <2> QED BY <2>2
<1>2. ASSUME NEW k \in Nat, k \in T PROVE k + 1 \in T
  <2>1. CASE (k + 1) + 1 <= n
    <3>1. k + 1 \in 1..(n - 1) /\ f[k + 1] \in Seq(S)
      BY <1>2, <2>1
    <3>2. (k + 1) + 1 \in 1..Len(seqs)
      BY <1>0, <2>1
    <3>3. seqs[(k + 1) + 1] \in Seq(S)
      BY <1>0, <3>2
    <3>4. f[(k + 1) + 1] = f[k + 1] \o seqs[(k + 1) + 1]
      BY <1>s, <3>1
    <3>5. f[(k + 1) + 1] \in Seq(S)
      BY <3>1, <3>3, <3>4, ConcatProperties
    <3> QED BY <3>5
  <2> QED BY <2>1
<1> HIDE DEF T
<1>3. Nat \subseteq T
  BY <1>1, <1>2, InductionBySet
<1>4. ASSUME NEW i \in 1..n PROVE f[i] \in Seq(S)
  <2>1. i - 1 \in Nat /\ (i - 1) + 1 = i /\ i <= n
    OBVIOUS
  <2> QED BY <1>3, <2>1 DEF T
<1> QED BY <1>4

\* Nothing but the sequences put together decides what comes of it.
LEMMA FlattensAgree ==
  ASSUME NEW f, NEW s, NEW m \in Nat, Flattens(f, s, m),
         NEW g, NEW t, NEW n \in Nat, Flattens(g, t, n),
         NEW k \in Nat, k <= m, k <= n, \A i \in 1..k: s[i] = t[i]
  PROVE  \A i \in 1..k: f[i] = g[i]
<1> DEFINE T == {j \in Nat: j + 1 <= k => f[j + 1] = g[j + 1]}
<1>s. /\ m > 0 => f[1] = s[1]
      /\ \A i \in 1..(m - 1): f[i + 1] = f[i] \o s[i + 1]
  BY ZenonT(30), FlattensStep
<1>t. /\ n > 0 => g[1] = t[1]
      /\ \A i \in 1..(n - 1): g[i + 1] = g[i] \o t[i + 1]
  BY ZenonT(30), FlattensStep
<1>1. 0 \in T
  <2>1. 0 + 1 = 1 /\ (0 + 1 <= k => m > 0 /\ n > 0 /\ 1 \in 1..k)
    OBVIOUS
  <2>2. 0 + 1 <= k => f[0 + 1] = g[0 + 1]
    BY <1>s, <1>t, <2>1
  <2> QED BY <2>2
<1>2. ASSUME NEW j \in Nat, j \in T PROVE j + 1 \in T
  <2>1. CASE (j + 1) + 1 <= k
    <3>1. /\ j + 1 \in 1..(m - 1) /\ j + 1 \in 1..(n - 1) /\ f[j + 1] = g[j + 1]
          /\ (j + 1) + 1 \in 1..k
      BY <1>2, <2>1
    <3>2. /\ f[(j + 1) + 1] = f[j + 1] \o s[(j + 1) + 1]
          /\ g[(j + 1) + 1] = g[j + 1] \o t[(j + 1) + 1]
      BY <1>s, <1>t, <3>1
    <3>3. f[(j + 1) + 1] = g[(j + 1) + 1]
      BY <3>1, <3>2
    <3>4. j + 1 \in Nat
      OBVIOUS
    <3> QED BY <3>3, <3>4
  <2> QED BY <2>1
<1> HIDE DEF T
<1>3. Nat \subseteq T
  BY <1>1, <1>2, InductionBySet
<1>4. ASSUME NEW i \in 1..k PROVE f[i] = g[i]
  <2>1. i - 1 \in Nat /\ (i - 1) + 1 = i /\ i <= k
    OBVIOUS
  <2> QED BY <1>3, <2>1 DEF T
<1> QED BY <1>4

\* One more sequence is put behind the others.
LEMMA FlattenAppend ==
  ASSUME NEW S, NEW seqs \in Seq(Seq(S)), NEW x \in Seq(S)
  PROVE  /\ FlattenSeq(seqs) \in Seq(S)
         /\ FlattenSeq(Append(seqs, x)) = FlattenSeq(seqs) \o x
<1> DEFINE longer == Append(seqs, x)
           n == Len(seqs)
<1>1. /\ longer \in Seq(Seq(S)) /\ Len(longer) = n + 1 /\ longer[n + 1] = x
      /\ \A i \in 1..n: longer[i] = seqs[i]
      /\ n \in Nat /\ n + 1 \in Nat /\ n + 1 # 0
  BY AppendProperties
<1> HIDE DEF longer, n
<1>2. PICK g: Flattens(g, longer, n + 1) /\ FlattenSeq(longer) = g[n + 1]
  <2>1. Len(longer) \in Nat /\ Len(longer) # 0
    BY <1>1
  <2>2. \E g: Flattens(g, longer, Len(longer)) /\ FlattenSeq(longer) = g[Len(longer)]
    BY <2>1, FlattenUnfolds
  <2> QED BY <1>1, <2>2
<1>g. /\ n + 1 > 0 => g[1] = longer[1]
      /\ \A i \in 1..((n + 1) - 1): g[i + 1] = g[i] \o longer[i + 1]
  BY ZenonT(30), <1>1, <1>2, FlattensStep
<1>3. CASE n = 0
  <2>1. FlattenSeq(seqs) = <<>> /\ seqs = <<>>
    BY <1>3 DEF FlattenSeq, n
  <2>2. g[n + 1] = x
    BY <1>1, <1>3, <1>g
  <2>3. <<>> \in Seq(S) /\ <<>> \o x = x
    BY ConcatEmptySeq
  <2> QED BY <1>2, <2>1, <2>2, <2>3 DEF longer
<1>4. CASE n # 0
  <2>1. PICK f: Flattens(f, seqs, n) /\ FlattenSeq(seqs) = f[n]
    <3>1. Len(seqs) \in Nat /\ Len(seqs) # 0
      BY <1>1, <1>4 DEF n
    <3> QED BY <3>1, FlattenUnfolds DEF n
  <2>2. n \in 1..n /\ n \in 1..((n + 1) - 1)
    BY <1>1, <1>4
  <2>3. f[n] = g[n]
    <3>1. n <= n + 1 /\ n <= n
      BY <1>1
    <3>2. \A i \in 1..n: f[i] = g[i]
      <4>1. \A i \in 1..n: seqs[i] = longer[i]
        BY <1>1
      <4>2. /\ Flattens(f, seqs, n) /\ Flattens(g, longer, n + 1)
            /\ n \in Nat /\ n + 1 \in Nat
        BY <1>1, <1>2, <2>1
      <4>3. PICK m \in Nat: m = n + 1
        BY <4>2
      <4>4. Flattens(g, longer, m) /\ n <= m
        BY <3>1, <4>2, <4>3
      <4> QED BY SMTT(20), <3>1, <4>1, <4>2, <4>4, FlattensAgree
    <3> QED BY <2>2, <3>2
  <2>4. f[n] \in Seq(S)
    <3>1. n <= Len(seqs)
      BY <1>1 DEF n
    <3>2. \A i \in 1..n: f[i] \in Seq(S)
      BY <1>1, <2>1, <3>1, FlattensTyped
    <3> QED BY <2>2, <3>2
  <2>5. g[n + 1] = g[n] \o longer[n + 1]
    BY <1>g, <2>2
  <2> QED BY <1>1, <1>2, <2>1, <2>3, <2>4, <2>5 DEF longer
<1> QED BY <1>3, <1>4

\* Sequences of one length, put together: each has its place.
LEMMA FlattenEqual ==
  ASSUME NEW S, NEW seqs \in Seq(Seq(S)), NEW width \in Nat,
         \A i \in 1..Len(seqs): Len(seqs[i]) = width
  PROVE  /\ FlattenSeq(seqs) \in Seq(S)
         /\ Len(FlattenSeq(seqs)) = Len(seqs) * width
         /\ \A i \in 1..Len(seqs), k \in 1..width:
              FlattenSeq(seqs)[(i - 1) * width + k] = seqs[i][k]
<1> DEFINE Placed(j) ==
             LET front == SubSeq(seqs, 1, j) IN
             /\ FlattenSeq(front) \in Seq(S)
             /\ Len(FlattenSeq(front)) = j * width
             /\ \A i \in 1..j, k \in 1..width:
                  FlattenSeq(front)[(i - 1) * width + k] = seqs[i][k]
           T == {j \in Nat: j <= Len(seqs) => Placed(j)}
<1>0. Len(seqs) \in Nat /\ \A i \in 1..Len(seqs): seqs[i] \in Seq(S)
  OBVIOUS
<1>1. 0 \in T
  <2>1. SubSeq(seqs, 1, 0) = <<>>
    BY SubSeqEmpty
  <2>2. FlattenSeq(<<>>) = <<>>
    BY DEF FlattenSeq
  <2>3. <<>> \in Seq(S) /\ Len(<<>>) = 0 * width
    OBVIOUS
  <2>4. Placed(0)
    <3>1. \A i \in 1..0: FALSE
      OBVIOUS
    <3> QED BY <2>1, <2>2, <2>3, <3>1
  <2> HIDE DEF Placed
  <2> QED BY <2>4
<1>2. ASSUME NEW j \in Nat, j \in T, j + 1 <= Len(seqs) PROVE Placed(j + 1)
  <2> DEFINE front == SubSeq(seqs, 1, j)
             x == seqs[j + 1]
  <2>1. Placed(j)
    <3>1. j <= Len(seqs)
      BY <1>0, <1>2
    <3> QED BY <1>2, <3>1
  <2>2. /\ front \in Seq(Seq(S)) /\ Len(front) = j
        /\ x \in Seq(S) /\ Len(x) = width /\ j + 1 \in 1..Len(seqs)
        /\ j \in 0..Len(seqs)
    <3>1. j \in 0..Len(seqs) /\ j + 1 \in 1..Len(seqs)
      BY <1>0, <1>2
    <3> QED BY <1>0, <3>1, PrefixLength
  <2>3. SubSeq(seqs, 1, j + 1) = Append(front, x)
    <3>1. front \o SubSeq(seqs, j + 1, j + 1) = SubSeq(seqs, 1, j + 1)
      BY ZenonT(30), <1>0, <1>2, PrefixExtends
    <3>2. SubSeq(seqs, j + 1, j + 1) = <<x>>
      BY SingletonSlice
    <3>3. front \o <<x>> = Append(front, x)
      BY <2>2
    <3> QED BY <3>1, <3>2, <3>3
  <2> DEFINE before == FlattenSeq(front)
             after == FlattenSeq(SubSeq(seqs, 1, j + 1))
  <2>4. after = before \o x
    BY <2>2, <2>3, FlattenAppend
  <2>5. before \in Seq(S) /\ Len(before) = j * width /\ j * width \in Nat
    BY <2>1
  <2>6. /\ after \in Seq(S) /\ Len(after) = j * width + width
        /\ \A i \in 1..(j * width): after[i] = before[i]
        /\ \A k \in 1..width: after[j * width + k] = x[k]
    <3> HIDE DEF before, after, x
    <3>1. /\ Len(before \o x) = Len(before) + Len(x)
          /\ \A i \in 1..(Len(before) + Len(x)):
               (before \o x)[i] = IF i <= Len(before) THEN before[i] ELSE x[i - Len(before)]
      BY <2>2, <2>5, ConcatProperties
    <3>2. before \o x \in Seq(S)
      BY <2>2, <2>5, ConcatProperties
    <3> DEFINE w == j * width
    <3> HIDE DEF w
    <3>3. w \in Nat /\ Len(before) = w /\ Len(x) = width
      BY <2>2, <2>5 DEF w
    <3>4. \A k \in 1..width: w + k \in 1..(w + width) /\ ~(w + k <= w) /\ (w + k) - w = k
      BY <3>3
    <3>5. \A i \in 1..w: i \in 1..(w + width) /\ i <= w
      BY <3>3
    <3>6. /\ after \in Seq(S) /\ Len(after) = w + width
          /\ \A i \in 1..w: after[i] = before[i]
          /\ \A k \in 1..width: after[w + k] = x[k]
      BY <2>4, <3>1, <3>2, <3>3, <3>4, <3>5
    <3> QED BY <3>6 DEF w
  <2>7. j * width + width = (j + 1) * width
    OBVIOUS
  <2>8. ASSUME NEW i \in 1..(j + 1), NEW k \in 1..width
        PROVE  after[(i - 1) * width + k] = seqs[i][k]
    <3>1. CASE i = j + 1
      <4>1. i - 1 = j
        BY <3>1
      <4> QED BY <2>6, <3>1, <4>1
    <3>2. CASE i # j + 1
      <4>1. i \in 1..j
        BY <3>2
      <4>2. (i - 1) * width + k \in 1..(j * width)
        <5>1. (i - 1) \in 0..(j - 1) /\ k - 1 \in 0..(width - 1)
          BY <4>1
        <5>2. (i - 1) * width + (k - 1) \in 0..(j * width - 1)
          BY <5>1, PutAbove
        <5>3. (i - 1) * width \in Int /\ j * width \in Int
          BY <4>1
        <5> QED BY <5>2, <5>3
      <4> HIDE DEF after, before
      <4>3. before[(i - 1) * width + k] = seqs[i][k]
        BY <2>1, <4>1 DEF before
      <4> QED BY <2>6, <4>2, <4>3
    <3> QED BY <3>1, <3>2
  <2> HIDE DEF after
  <2>9. Len(after) = (j + 1) * width
    BY <2>6, <2>7
  <2> QED BY <2>6, <2>8, <2>9 DEF after
<1> HIDE DEF Placed
<1>3. ASSUME NEW j \in Nat, j \in T PROVE j + 1 \in T
  BY <1>2, <1>3
<1> HIDE DEF T
<1>4. Nat \subseteq T
  BY <1>1, <1>3, InductionBySet
<1>5. Placed(Len(seqs))
  BY <1>0, <1>4 DEF T
<1>6. SubSeq(seqs, 1, Len(seqs)) = seqs
  BY WholePrefix
<1> QED BY <1>5, <1>6 DEF Placed

\* What is put together is a sequence of the same things.
LEMMA FlattenType ==
  ASSUME NEW S, NEW seqs \in Seq(Seq(S))
  PROVE  FlattenSeq(seqs) \in Seq(S)
<1>1. <<>> \in Seq(S)
  OBVIOUS
<1> QED BY <1>1, FlattenAppend

\* One more sequence is put in front of the others.
LEMMA FlattenPrepend ==
  ASSUME NEW S, NEW x \in Seq(S), NEW seqs \in Seq(Seq(S))
  PROVE  FlattenSeq(<<x>> \o seqs) = x \o FlattenSeq(seqs)
<1> DEFINE Part(j) == SubSeq(seqs, 1, j)
           T == {j \in Nat: j <= Len(seqs) => FlattenSeq(<<x>> \o Part(j))
                                               = x \o FlattenSeq(Part(j))}
<1>0. Len(seqs) \in Nat /\ \A i \in 1..Len(seqs): seqs[i] \in Seq(S)
  OBVIOUS
<1>x. <<x>> \in Seq(Seq(S)) /\ <<>> \in Seq(Seq(S)) /\ <<>> \in Seq(S)
  OBVIOUS
<1>1. 0 \in T
  <2>1. Part(0) = <<>> /\ <<x>> \o <<>> = Append(<<>>, x)
    BY SubSeqEmpty
  <2>2. FlattenSeq(<<>>) = <<>>
    BY DEF FlattenSeq
  <2>3. FlattenSeq(Append(<<>>, x)) = <<>> \o x
    BY <1>x, <2>2, FlattenAppend
  <2>4. <<>> \o x = x /\ x \o <<>> = x
    BY ConcatEmptySeq
  <2>5. FlattenSeq(<<x>> \o Part(0)) = x \o FlattenSeq(Part(0))
    BY <2>1, <2>2, <2>3, <2>4
  <2> HIDE DEF Part
  <2> QED BY <2>5
<1>2. ASSUME NEW j \in Nat, j \in T PROVE j + 1 \in T
  <2>1. CASE j + 1 <= Len(seqs)
    <3> DEFINE y == seqs[j + 1]
               front == Part(j)
    <3>1. /\ front \in Seq(Seq(S)) /\ y \in Seq(S) /\ j <= Len(seqs)
      <4>1. j \in 0..Len(seqs) /\ j + 1 \in 1..Len(seqs)
        BY <1>0, <2>1
      <4> QED BY <1>0, <4>1, PrefixLength
    <3>2. Part(j + 1) = Append(front, y)
      <4>1. front \o SubSeq(seqs, j + 1, j + 1) = Part(j + 1)
        BY ZenonT(30), <2>1, PrefixExtends
      <4>2. SubSeq(seqs, j + 1, j + 1) = <<y>>
        BY SingletonSlice
      <4>3. front \o <<y>> = Append(front, y)
        BY <3>1
      <4> QED BY <4>1, <4>2, <4>3
    <3>3. FlattenSeq(<<x>> \o front) = x \o FlattenSeq(front)
      BY <1>2, <3>1
    <3> HIDE DEF front, y, Part, T
    <3>4. <<x>> \o Append(front, y) = Append(<<x>> \o front, y) /\ <<x>> \o front \in Seq(Seq(S))
      <4> DEFINE U == Seq(S)
                 u == <<x>>
                 w == <<y>>
      <4>1. u \in Seq(U) /\ front \in Seq(U) /\ w \in Seq(U) /\ y \in U
        BY <1>x, <3>1
      <4> HIDE DEF U, u
      <4>2. u \o front \in Seq(U)
        BY <4>1, ConcatProperties
      <4>3. \A s \in Seq(U): Append(s, y) = s \o w
        BY <4>1
      <4> HIDE DEF w
      <4>4. (u \o front) \o w = u \o (front \o w)
        BY SMTT(30), <4>1, ConcatAssociative
      <4> QED BY <4>1, <4>2, <4>3, <4>4 DEF U, u
    <3>5. FlattenSeq(Append(<<x>> \o front, y)) = FlattenSeq(<<x>> \o front) \o y
      <4> DEFINE z == <<x>> \o front
      <4>1. z \in Seq(Seq(S))
        BY <3>4
      <4> HIDE DEF z
      <4>2. FlattenSeq(Append(z, y)) = FlattenSeq(z) \o y
        BY <3>1, <4>1, FlattenAppend
      <4> QED BY <4>2 DEF z
    <3>6. FlattenSeq(Append(front, y)) = FlattenSeq(front) \o y /\ FlattenSeq(front) \in Seq(S)
      BY <3>1, FlattenAppend
    <3>7. (x \o FlattenSeq(front)) \o y = x \o (FlattenSeq(front) \o y)
      <4> DEFINE z == FlattenSeq(front)
      <4>1. z \in Seq(S)
        BY <3>6
      <4> HIDE DEF z
      <4>2. (x \o z) \o y = x \o (z \o y)
        <5>1. \A a, b, c \in Seq(S): (a \o b) \o c = a \o (b \o c)
          BY ConcatAssociative
        <5> QED BY Zenon, <3>1, <4>1, <5>1
      <4> QED BY <4>2 DEF z
    <3>8. FlattenSeq(<<x>> \o Part(j + 1)) = x \o FlattenSeq(Part(j + 1))
      BY <3>2, <3>3, <3>4, <3>5, <3>6, <3>7
    <3>9. j + 1 \in Nat
      OBVIOUS
    <3> QED BY <3>8, <3>9 DEF T
  <2>2. CASE ~(j + 1 <= Len(seqs))
    BY <2>2
  <2> QED BY <2>1, <2>2
<1>3. Nat \subseteq T
  <2> HIDE DEF T
  <2> QED BY <1>1, <1>2, InductionBySet
<1>4. Part(Len(seqs)) = seqs
  BY WholePrefix
<1>5. Len(seqs) \in T /\ Len(seqs) <= Len(seqs)
  <2> HIDE DEF T
  <2> QED BY <1>0, <1>3
<1> HIDE DEF Part
<1> QED BY <1>4, <1>5

-----------------------------------------------------------------------------
(* Lists, of any elements *)

\* A list is a sequence over the set of its elements, and a sequence is a list.
LEMMA ListIsSeq ==
  ASSUME NEW s, IsList(s)
  PROVE  s \in Seq({s[i] : i \in 1..Len(s)})
BY DEF IsList

LEMMA SeqIsList ==
  ASSUME NEW S, NEW s \in Seq(S)
  PROVE  IsList(s)
BY DEF IsList

\* Two lists over one set.
LEMMA TwoLists ==
  ASSUME NEW s, NEW t, IsList(s), IsList(t)
  PROVE  \E S: s \in Seq(S) /\ t \in Seq(S)
<1> DEFINE S == {s[i] : i \in 1..Len(s)} \cup {t[i] : i \in 1..Len(t)}
<1>1. s \in Seq(S) /\ t \in Seq(S)
  BY DEF IsList
<1> QED BY <1>1

\* Lists are equal when their elements are.
LEMMA ListsEqual ==
  ASSUME NEW s, NEW t, IsList(s), IsList(t), Len(s) = Len(t),
         \A i \in 1..Len(s): s[i] = t[i]
  PROVE  s = t
<1>1. PICK S: s \in Seq(S) /\ t \in Seq(S)
  BY TwoLists
<1> QED BY <1>1, SeqEqual

\* A list that is made element by element.
LEMMA ListMade ==
  ASSUME NEW n \in Nat, NEW f, f = [i \in 1..n |-> f[i]]
  PROVE  IsList(f) /\ Len(f) = n /\ DOMAIN f = 1..n
BY DEF IsList

LEMMA ListDomain ==
  ASSUME NEW s, IsList(s)
  PROVE  Len(s) \in Nat /\ DOMAIN s = 1..Len(s) /\ (s = <<>> <=> Len(s) = 0)
<1>1. Len(s) \in Nat /\ DOMAIN s = 1..Len(s)
  BY DEF IsList
<1>2. PICK S: s \in Seq(S)
  BY TwoLists
<1>3. s = <<>> <=> Len(s) = 0
  BY <1>2, EmptySeq
<1> QED BY <1>1, <1>3

LEMMA EmptyList == IsList(<<>>) /\ Len(<<>>) = 0
<1>1. <<>> \in Seq({}) /\ Len(<<>>) = 0
  OBVIOUS
<1> QED BY <1>1, SeqIsList

LEMMA SingleList ==
  ASSUME NEW x
  PROVE  IsList(<<x>>) /\ Len(<<x>>) = 1 /\ <<x>>[1] = x
<1>1. <<x>> \in Seq({x}) /\ Len(<<x>>) = 1 /\ <<x>>[1] = x
  OBVIOUS
<1> QED BY <1>1, SeqIsList

\* Two lists, one behind the other.
LEMMA ListConcat ==
  ASSUME NEW s, NEW t, IsList(s), IsList(t)
  PROVE  /\ IsList(s \o t) /\ Len(s \o t) = Len(s) + Len(t)
         /\ Len(s) \in Nat /\ Len(t) \in Nat
         /\ \A i \in 1..Len(s): (s \o t)[i] = s[i]
         /\ \A i \in 1..Len(t): (s \o t)[Len(s) + i] = t[i]
         /\ \A i \in 1..Len(s \o t): i > Len(s) => i - Len(s) \in 1..Len(t) /\ (s \o t)[i] = t[i - Len(s)]
<1>1. PICK S: s \in Seq(S) /\ t \in Seq(S)
  BY TwoLists
<1>2. PICK k \in Nat, n \in Nat: k = Len(s) /\ n = Len(t)
  BY <1>1
<1>3. PICK u: u = s \o t
  OBVIOUS
<1>4. u \in Seq(S) /\ Len(u) = k + n
  BY <1>1, <1>2, <1>3, ConcatProperties
<1>5. \A i \in 1..(k + n): u[i] = IF i <= k THEN s[i] ELSE t[i - k]
  BY <1>1, <1>2, <1>3, ConcatProperties
<1>6. \A i \in 1..k: u[i] = s[i]
  BY <1>5
<1>7. ASSUME NEW i \in 1..n PROVE u[k + i] = t[i]
  <2>1. k + i \in 1..(k + n) /\ ~(k + i <= k) /\ (k + i) - k = i
    OBVIOUS
  <2> QED BY <1>5, <2>1
<1>8. ASSUME NEW i \in 1..(k + n), i > k PROVE i - k \in 1..n /\ u[i] = t[i - k]
  BY <1>5, <1>8
<1>9. IsList(u)
  BY <1>4, SeqIsList
<1> QED BY <1>2, <1>3, <1>4, <1>6, <1>7, <1>8, <1>9

LEMMA ListConcatEmpty ==
  ASSUME NEW s, IsList(s)
  PROVE  s \o <<>> = s /\ <<>> \o s = s
<1>1. PICK S: s \in Seq(S)
  BY TwoLists
<1> QED BY <1>1, ConcatEmptySeq

LEMMA ListConcatMore ==
  ASSUME NEW s, NEW t, NEW u, IsList(s), IsList(t), IsList(u)
  PROVE  (s \o t) \o u = s \o (t \o u)
<1> DEFINE S == {s[i] : i \in 1..Len(s)} \cup {t[i] : i \in 1..Len(t)} \cup {u[i] : i \in 1..Len(u)}
<1>1. s \in Seq(S) /\ t \in Seq(S) /\ u \in Seq(S)
  BY DEF IsList
<1> HIDE DEF S
<1> QED BY <1>1, ConcatAssociative

\* What is behind the first list is the second.
LEMMA ListBehind ==
  ASSUME NEW s, NEW t, IsList(s), IsList(t)
  PROVE  SubSeq(s \o t, Len(s) + 1, Len(s \o t)) = t
<1>1. PICK S: s \in Seq(S) /\ t \in Seq(S)
  BY TwoLists
<1>2. PICK k \in Nat, n \in Nat: k = Len(s) /\ n = Len(t)
  BY <1>1
<1>3. PICK u: u = s \o t
  OBVIOUS
<1>4. u \in Seq(S) /\ Len(u) = k + n /\ \A i \in 1..n: u[k + i] = t[i]
  BY <1>2, <1>3, ListConcat, <1>1, ConcatProperties
<1>5. ASSUME NEW i \in (k + 1)..(k + n) PROVE u[i] \in S
  BY <1>4
<1>6. /\ SubSeq(u, k + 1, k + n) \in Seq(S) /\ Len(SubSeq(u, k + 1, k + n)) = n
      /\ \A i \in 1..n: SubSeq(u, k + 1, k + n)[i] = u[k + i]
  BY <1>5, SliceElements
<1>7. SubSeq(u, k + 1, k + n) = t
  <2> DEFINE x == SubSeq(u, k + 1, k + n)
  <2>1. x \in Seq(S) /\ Len(x) = n /\ \A i \in 1..n: x[i] = t[i]
    BY <1>4, <1>6
  <2> HIDE DEF x
  <2>2. x = t
    BY <1>1, <1>2, <2>1, SeqEqual
  <2> QED BY <2>2 DEF x
<1> QED BY <1>2, <1>3, <1>4, <1>7

-----------------------------------------------------------------------------
(* Lists of lists *)

\* A list of lists, and all that is in them.
IsLists(ss) == IsList(ss) /\ \A i \in 1..Len(ss): IsList(ss[i])

InSome(ss) == UNION {{ss[i][j] : j \in 1..Len(ss[i])} : i \in 1..Len(ss)}

LEMMA ListsAreSeqs ==
  ASSUME NEW ss, IsLists(ss)
  PROVE  ss \in Seq(Seq(InSome(ss))) /\ Len(ss) \in Nat
<1>1. IsList(ss)
  BY DEF IsLists
<1>2. ASSUME NEW i \in 1..Len(ss) PROVE ss[i] \in Seq(InSome(ss))
  <2>1. ss[i] \in Seq({ss[i][j] : j \in 1..Len(ss[i])})
    BY ListIsSeq DEF IsLists
  <2>2. {ss[i][j] : j \in 1..Len(ss[i])} \subseteq InSome(ss)
    BY DEF InSome
  <2> QED BY <2>1, <2>2, SeqMonotonic
<1>3. {ss[i] : i \in 1..Len(ss)} \subseteq Seq(InSome(ss))
  BY <1>2
<1>4. ss \in Seq({ss[i] : i \in 1..Len(ss)})
  BY <1>1, ListIsSeq
<1>5. Len(ss) \in Nat
  BY <1>1, ListDomain
<1> QED BY <1>3, <1>4, <1>5, SeqMonotonic

\* Put one behind the other, they are a list of the same elements.
LEMMA ListFlatten ==
  ASSUME NEW ss, IsLists(ss)
  PROVE  /\ IsList(FlattenSeq(ss))
         /\ \A k \in 1..Len(FlattenSeq(ss)):
              \E i \in 1..Len(ss): \E j \in 1..Len(ss[i]): FlattenSeq(ss)[k] = ss[i][j]
<1> DEFINE f == FlattenSeq(ss)
<1>1. f \in Seq(InSome(ss))
  BY ListsAreSeqs, FlattenType
<1> HIDE DEF f
<1>2. ASSUME NEW k \in 1..Len(f)
      PROVE  \E i \in 1..Len(ss): \E j \in 1..Len(ss[i]): f[k] = ss[i][j]
  <2>1. f[k] \in InSome(ss)
    BY <1>1, ElementOfSeq
  <2> QED BY <2>1 DEF InSome
<1>3. IsList(f)
  BY <1>1, SeqIsList
<1> QED BY <1>2, <1>3 DEF f

LEMMA FlattenEmpty == FlattenSeq(<<>>) = <<>>
BY DEF FlattenSeq

\* The first lists, and one more.
LEMMA ListsPrefix ==
  ASSUME NEW ss, IsLists(ss), NEW n \in Nat, n <= Len(ss)
  PROVE  /\ IsLists(SubSeq(ss, 1, n)) /\ Len(SubSeq(ss, 1, n)) = n
         /\ \A i \in 1..n: SubSeq(ss, 1, n)[i] = ss[i]
<1>1. ss \in Seq(Seq(InSome(ss))) /\ Len(ss) \in Nat
  BY ListsAreSeqs
<1>2. \A i \in 1..n: ss[i] \in Seq(InSome(ss))
  BY <1>1
<1>3. /\ SubSeq(ss, 1, n) \in Seq(Seq(InSome(ss))) /\ Len(SubSeq(ss, 1, n)) = n
      /\ \A i \in 1..n: SubSeq(ss, 1, n)[i] = ss[i]
  BY <1>2, FrontElements
<1>4. IsList(SubSeq(ss, 1, n))
  BY <1>3, SeqIsList
<1>5. \A i \in 1..n: i \in 1..Len(ss)
  BY <1>1
<1> QED BY <1>3, <1>4, <1>5 DEF IsLists

LEMMA FlattenMore ==
  ASSUME NEW ss, IsLists(ss), NEW n \in Nat, n + 1 <= Len(ss)
  PROVE  FlattenSeq(SubSeq(ss, 1, n + 1)) = FlattenSeq(SubSeq(ss, 1, n)) \o ss[n + 1]
<1> DEFINE U == InSome(ss)
           S == Seq(U)
<1>1. ss \in Seq(S) /\ Len(ss) \in Nat
  BY ListsAreSeqs
<1>2. n \in 0..Len(ss) /\ n + 1 \in 1..Len(ss)
  BY <1>1
<1>3. SubSeq(ss, 1, n) \in Seq(S) /\ ss[n + 1] \in S
  <2> HIDE DEF S
  <2> QED BY <1>1, <1>2, PrefixLength, ElementOfSeq
<1>4. SubSeq(ss, 1, n + 1) = Append(SubSeq(ss, 1, n), ss[n + 1])
  <2> HIDE DEF S
  <2>1. SubSeq(ss, 1, n) \o SubSeq(ss, n + 1, n + 1) = SubSeq(ss, 1, n + 1)
    BY ZenonT(30), <1>1, PrefixExtends
  <2>2. SubSeq(ss, n + 1, n + 1) = <<ss[n + 1]>>
    BY <1>1, <1>2, SingletonSlice
  <2>3. SubSeq(ss, 1, n) \o <<ss[n + 1]>> = Append(SubSeq(ss, 1, n), ss[n + 1])
    BY <1>3
  <2> QED BY <2>1, <2>2, <2>3
<1> DEFINE a == SubSeq(ss, 1, n)
           x == ss[n + 1]
<1>5. a \in Seq(Seq(U)) /\ x \in Seq(U)
  BY <1>3
<1> HIDE DEF a, x, U
<1>6. FlattenSeq(Append(a, x)) = FlattenSeq(a) \o x
  BY <1>5, FlattenAppend
<1> QED BY <1>4, <1>6 DEF a, x

\* The last lists, and the one in front of them.
LEMMA ListsSuffix ==
  ASSUME NEW ss, IsLists(ss), NEW n \in Nat, n <= Len(ss)
  PROVE  /\ IsLists(SubSeq(ss, n + 1, Len(ss))) /\ Len(SubSeq(ss, n + 1, Len(ss))) = Len(ss) - n
         /\ \A i \in 1..(Len(ss) - n): SubSeq(ss, n + 1, Len(ss))[i] = ss[n + i]
<1>1. ss \in Seq(Seq(InSome(ss))) /\ Len(ss) \in Nat
  BY ListsAreSeqs
<1>2. PICK m \in Nat: Len(ss) = n + m
  <2>1. Len(ss) - n \in Nat /\ Len(ss) = n + (Len(ss) - n)
    BY <1>1
  <2> QED BY <2>1
<1>3. \A i \in (n + 1)..(n + m): ss[i] \in Seq(InSome(ss))
  BY <1>1, <1>2
<1> DEFINE x == SubSeq(ss, n + 1, n + m)
<1>4. x \in Seq(Seq(InSome(ss))) /\ Len(x) = m /\ \A i \in 1..m: x[i] = ss[n + i]
  BY <1>3, SliceElements
<1> HIDE DEF x
<1>5. IsList(x)
  BY <1>4, SeqIsList
<1>6. \A i \in 1..m: IsList(x[i])
  <2>1. \A i \in 1..m: n + i \in 1..Len(ss)
    BY <1>2
  <2> QED BY <1>4, <2>1 DEF IsLists
<1>7. x = SubSeq(ss, n + 1, Len(ss)) /\ Len(ss) - n = m
  BY <1>2 DEF x
<1>8. IsLists(x)
  BY <1>4, <1>5, <1>6 DEF IsLists
<1> QED BY <1>4, <1>7, <1>8

LEMMA FlattenBefore ==
  ASSUME NEW ss, IsLists(ss), NEW n \in Nat, n + 1 <= Len(ss)
  PROVE  FlattenSeq(SubSeq(ss, n + 1, Len(ss)))
           = ss[n + 1] \o FlattenSeq(SubSeq(ss, n + 2, Len(ss)))
<1> DEFINE U == InSome(ss)
           S == Seq(U)
           l == Len(ss)
<1>1. ss \in Seq(S) /\ l \in Nat
  BY ListsAreSeqs
<1> HIDE DEF l
<1>2. PICK m: m = n + 1
  OBVIOUS
<1>3. m \in 1..l /\ l \in m..l /\ m + 1 = n + 2 /\ m \in Nat /\ m <= l
  BY <1>1, <1>2 DEF l
<1>4. SubSeq(ss, m, l) = <<ss[m]>> \o SubSeq(ss, m + 1, l)
  <2> HIDE DEF S
  <2> QED BY <1>1, <1>3, SubSeqRecursiveFirst DEF l
<1>5. IsLists(SubSeq(ss, m + 1, l))
  BY <1>3, ListsSuffix DEF l
<1>6. ss[m] \in S
  <2> HIDE DEF S
  <2> QED BY <1>1, <1>3, ElementOfSeq DEF l
<1>7. SubSeq(ss, m + 1, l) \in Seq(S)
  <2> HIDE DEF S
  <2>1. \A i \in (m + 1)..l: ss[i] \in S
    BY <1>1, <1>3, ElementOfSeq DEF l
  <2> QED BY <1>1, <1>3, <2>1, SubSeqProperties
<1> DEFINE a == ss[m]
           x == SubSeq(ss, m + 1, l)
<1>8. a \in Seq(U) /\ x \in Seq(Seq(U))
  BY <1>6, <1>7
<1> HIDE DEF a, x, U
<1>9. FlattenSeq(<<a>> \o x) = a \o FlattenSeq(x)
  BY <1>8, FlattenPrepend
<1> QED BY <1>2, <1>3, <1>4, <1>9 DEF a, x, l

\* Each list is where the lists before it end.
LEMMA FlattenSlice ==
  ASSUME NEW ss, IsLists(ss), NEW n \in Nat, n + 1 <= Len(ss),
         NEW a, a = Len(FlattenSeq(SubSeq(ss, 1, n))),
         NEW b, b = Len(FlattenSeq(SubSeq(ss, 1, n + 1)))
  PROVE  /\ a \in Nat /\ b \in Nat /\ b = a + Len(ss[n + 1]) /\ b <= Len(FlattenSeq(ss))
         /\ SubSeq(FlattenSeq(ss), a + 1, b) = ss[n + 1]
<1> DEFINE F(k) == FlattenSeq(SubSeq(ss, 1, k))
           x == ss[n + 1]
           T == {k \in Nat: k >= n + 1 /\ k <= Len(ss) =>
                   b <= Len(F(k)) /\ \A i \in 1..Len(x): F(k)[a + i] = x[i]}
<1>1. IsList(ss) /\ Len(ss) \in Nat /\ \A k \in 1..Len(ss): IsList(ss[k])
  BY ListDomain DEF IsLists
<1>2. \A k \in Nat: k <= Len(ss) => IsList(F(k))
  BY ListsPrefix, ListFlatten
<1>3. \A k \in Nat: k + 1 <= Len(ss) => F(k + 1) = F(k) \o ss[k + 1]
  BY FlattenMore
<1>4. IsList(x) /\ IsList(F(n)) /\ F(n + 1) = F(n) \o x
  <2>1. n + 1 \in 1..Len(ss) /\ n <= Len(ss)
    BY <1>1
  <2>2. IsList(x)
    BY <1>1, <2>1
  <2> HIDE DEF x
  <2>3. x = ss[n + 1]
    BY DEF x
  <2> HIDE DEF F
  <2> QED BY <1>2, <1>3, <2>1, <2>2, <2>3
<1>5. a = Len(F(n)) /\ b = Len(F(n + 1))
  OBVIOUS
<1>d. ss[n + 1] = x /\ F(Len(ss)) = FlattenSeq(ss)
  <2>1. SubSeq(ss, 1, Len(ss)) = ss
    BY ListsAreSeqs, WholePrefix
  <2> QED BY <2>1
<1> HIDE DEF F, x
<1>6. /\ a \in Nat /\ Len(x) \in Nat /\ b = a + Len(x)
      /\ \A i \in 1..Len(x): F(n + 1)[a + i] = x[i]
  BY <1>4, <1>5, ListConcat
<1>7. 0 \in T
  OBVIOUS
<1>8. ASSUME NEW k \in Nat, k \in T PROVE k + 1 \in T
  <2>0. SUFFICES ASSUME k + 1 >= n + 1, k + 1 <= Len(ss)
                 PROVE  b <= Len(F(k + 1)) /\ \A i \in 1..Len(x): F(k + 1)[a + i] = x[i]
    OBVIOUS
  <2>1. CASE k = n
    BY <1>5, <1>6, <2>1
  <2>2. CASE k # n
    <3>1. k >= n + 1 /\ k <= Len(ss) /\ k + 1 \in 1..Len(ss)
      BY <1>1, <2>0, <2>2
    <3>2. b <= Len(F(k)) /\ \A i \in 1..Len(x): F(k)[a + i] = x[i]
      BY <1>8, <3>1
    <3>3. IsList(F(k)) /\ IsList(ss[k + 1]) /\ F(k + 1) = F(k) \o ss[k + 1]
      BY <1>1, <1>2, <1>3, <2>0, <3>1
    <3>4. PICK f, y, g: f = F(k) /\ y = ss[k + 1] /\ g = F(k + 1)
      OBVIOUS
    <3>5. /\ Len(f) \in Nat /\ Len(g) = Len(f) + Len(y) /\ Len(y) \in Nat
          /\ \A i \in 1..Len(f): g[i] = f[i]
      BY <3>3, <3>4, ListConcat
    <3>6. \A i \in 1..Len(x): a + i \in 1..Len(f)
      BY <1>6, <3>2, <3>4, <3>5
    <3> QED BY <1>6, <3>2, <3>4, <3>5, <3>6
  <2> QED BY <2>1, <2>2
<1> HIDE DEF T
<1>9. Nat \subseteq T
  BY <1>7, <1>8, InductionBySet
<1>10. PICK l \in Nat: l = Len(ss)
  BY <1>1
<1>11. l \in T /\ l >= n + 1 /\ l <= Len(ss)
  BY <1>9, <1>10
<1>12. b <= Len(F(l)) /\ \A i \in 1..Len(x): F(l)[a + i] = x[i]
  BY <1>11 DEF T
<1>13. PICK f: f = FlattenSeq(ss) /\ f = F(l)
  BY <1>10, <1>d
<1>14. PICK m \in Nat: m = Len(x) /\ b = a + m
  BY <1>6
<1> DEFINE y == SubSeq(f, a + 1, a + m)
<1>15. \A i \in (a + 1)..(a + m): f[i] \in {f[j] : j \in (a + 1)..(a + m)}
  OBVIOUS
<1>16. y \in Seq({f[j] : j \in (a + 1)..(a + m)}) /\ Len(y) = m /\ \A i \in 1..m: y[i] = f[a + i]
  BY <1>6, <1>14, <1>15, SliceElements
<1> HIDE DEF y
<1>17. IsList(y) /\ \A i \in 1..m: y[i] = x[i]
  BY <1>12, <1>13, <1>14, <1>16, SeqIsList
<1>18. y = x
  BY <1>4, <1>14, <1>16, <1>17, ListsEqual
<1> QED BY <1>6, <1>12, <1>13, <1>14, <1>18, <1>d DEF y
=============================================================================

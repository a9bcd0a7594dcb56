----------------------------- MODULE CodecProofs -----------------------------
(***************************************************************************)
(* The codecs proved for every width and every value: what comes back from *)
(* the stream is what was written, or what of it the format has room for,  *)
(* and nothing of a compressed block that was changed on the way.          *)
(* The codecs loop over what they are given; so the proofs go by induction *)
(* over sets of numbers, and first show that what a recursive function     *)
(* chooses exists (SliceLemmas).                                           *)
(***************************************************************************)
EXTENDS ValueCodecs, SliceLemmas, TLAPS

-----------------------------------------------------------------------------
(* Quads *)

\* x >> 64 and x & MAX_UINT64 put together are x again, and only they
\* (largeint.pyx:20-24).
LEMMA HighAndLow ==
  ASSUME NEW x \in Int
  PROVE  /\ High(x) \in Int /\ Low(x) \in 0..(Quad - 1)
         /\ x = Quad * High(x) + Low(x)
BY QuadAssumption, Division DEF High, Low

\* ... and no other numbers.
LEMMA OnlyHighAndLow ==
  ASSUME NEW x \in Int, NEW h \in Int, NEW l \in 0..(Quad - 1), x = Quad * h + l
  PROVE  High(x) = h /\ Low(x) = l
BY QuadAssumption, OnlyDivision DEF High, Low

\* What is left of a negative number -y - 1 when the complement of y is masked
\* (largeint.pyx:59-66).
LEMMA Complement ==
  ASSUME NEW x \in Int
  PROVE  /\ High(-x - 1) = -High(x) - 1
         /\ Low(MaxUInt64 - (-x - 1)) = Low(x)
<1>1. High(x) \in Int /\ Low(x) \in 0..(Quad - 1) /\ x = Quad * High(x) + Low(x)
  BY HighAndLow
<1>q. Quad \in Nat /\ Quad > 0
  BY QuadAssumption
<1>2. -x - 1 = Quad * (-High(x) - 1) + (Quad - 1 - Low(x))
  BY <1>1, <1>q
<1>3. MaxUInt64 - (-x - 1) = Quad * (High(x) + 1) + Low(x)
  BY <1>1, <1>q DEF MaxUInt64
<1>4. High(-x - 1) = -High(x) - 1
  <2>1. Quad - 1 - Low(x) \in 0..(Quad - 1) /\ -High(x) - 1 \in Int /\ -x - 1 \in Int
    BY <1>1, <1>q
  <2> QED BY <1>2, <2>1, OnlyHighAndLow
<1>5. Low(MaxUInt64 - (-x - 1)) = Low(x)
  <2>1. High(x) + 1 \in Int /\ MaxUInt64 - (-x - 1) \in Int
    BY <1>1, <1>q DEF MaxUInt64
  <2> QED BY <1>1, <1>3, <2>1, OnlyHighAndLow
<1> QED BY <1>4, <1>5

\* Signed and unsigned integers are the same quads: those of two's complement
\* (largeint.pyx:53-72, 169-196).
LEMMA SignedQuads ==
  ASSUME NEW x \in Int
  PROVE  Int128ToQuads(x) = UInt128ToQuads(x) /\ Int256ToQuads(x) = UInt256ToQuads(x)
<1> DEFINE y == -x - 1
<1>q. Quad \in Nat /\ Quad > 0
  BY QuadAssumption
<1>1. /\ High(x) \in Int /\ High(High(x)) \in Int /\ High(High(High(x))) \in Int
  BY HighAndLow
<1>2. High(y) = -High(x) - 1 /\ Low(MaxUInt64 - y) = Low(x)
  BY Complement
<1>3. High(High(y)) = -High(High(x)) - 1 /\ Low(MaxUInt64 - High(y)) = Low(High(x))
  BY <1>1, <1>2, Complement
<1>4. /\ High(High(High(y))) = -High(High(High(x))) - 1
      /\ Low(MaxUInt64 - High(High(y))) = Low(High(High(x)))
  BY <1>1, <1>3, Complement
<1>5. Low(MaxUInt64 - High(High(High(y)))) = Low(High(High(High(x))))
  BY <1>1, <1>4, Complement
<1>6. Int128ToQuads(x) = UInt128ToQuads(x)
  BY <1>2, <1>3 DEF Int128ToQuads, UInt128ToQuads
<1>7. Int256ToQuads(x) = UInt256ToQuads(x)
  BY <1>2, <1>3, <1>4, <1>5 DEF Int256ToQuads, UInt256ToQuads
<1> QED BY <1>6, <1>7

\* The numbers of values of the wide types.
LEMMA WideNumbers ==
  /\ Quad \in Nat /\ Quad > 0
  /\ TwoQuads \in Nat /\ TwoQuads > 0 /\ FourQuads \in Nat /\ FourQuads > 0
  /\ FourQuads = (TwoQuads * Quad) * Quad
<1>1. Quad \in Nat /\ Quad > 0
  BY QuadAssumption
<1>2. \A m, n \in Nat: m > 0 /\ n > 0 => m * n \in Nat /\ m * n > 0
  OBVIOUS
<1>3. TwoQuads \in Nat /\ TwoQuads > 0
  BY <1>1, <1>2 DEF TwoQuads
<1>4. FourQuads \in Nat /\ FourQuads > 0
  BY <1>2, <1>3 DEF FourQuads
<1>5. TwoQuads * (Quad * Quad) = (TwoQuads * Quad) * Quad
  BY <1>1, <1>3
<1> QED BY <1>1, <1>3, <1>4, <1>5 DEF TwoQuads, FourQuads

\* What the lower two quads of x stand for (largeint.pyx:11-34).
LEMMA LowerQuads ==
  ASSUME NEW x \in Int
  PROVE  LET u == Low(High(x)) * Quad + Low(x)
         IN  u \in 0..(TwoQuads - 1) /\ x = TwoQuads * High(High(x)) + u
<1> DEFINE u == Low(High(x)) * Quad + Low(x)
<1>q. Quad \in Nat /\ Quad > 0
  BY QuadAssumption
<1>1. /\ High(x) \in Int /\ Low(x) \in 0..(Quad - 1) /\ x = Quad * High(x) + Low(x)
  BY HighAndLow
<1>2. /\ High(High(x)) \in Int /\ Low(High(x)) \in 0..(Quad - 1)
      /\ High(x) = Quad * High(High(x)) + Low(High(x))
  BY <1>1, HighAndLow
<1>3. u \in 0..(TwoQuads - 1)
  BY <1>1, <1>2, <1>q, PutAbove DEF TwoQuads
<1>4. \A a, b, c \in Int: Quad * (Quad * a + b) + c = (Quad * Quad) * a + (b * Quad + c)
  BY <1>q
<1>5. x = TwoQuads * High(High(x)) + u
  BY <1>1, <1>2, <1>4 DEF TwoQuads
<1> QED BY <1>3, <1>5

\* What all four quads of x stand for: all but a multiple of 2^256
\* (largeint.pyx:92-121).
LEMMA AllQuads ==
  ASSUME NEW x \in Int
  PROVE  LET u == UInt256FromQuads(UInt256ToQuads(x))
         IN  /\ u \in 0..(FourQuads - 1)
             /\ \E k \in Int: x = FourQuads * k + u
<1> DEFINE y    == High(High(x))
           low  == Low(High(x)) * Quad + Low(x)
           high == Low(High(y)) * Quad + Low(y)
<1>q. Quad \in Nat /\ TwoQuads \in Nat /\ TwoQuads > 0
  BY WideNumbers
<1>1. High(x) \in Int /\ y \in Int /\ High(y) \in Int /\ High(High(y)) \in Int
  BY HighAndLow
<1>2. low \in 0..(TwoQuads - 1) /\ x = TwoQuads * y + low
  BY LowerQuads
<1>3. high \in 0..(TwoQuads - 1) /\ y = TwoQuads * High(High(y)) + high
  BY <1>1, LowerQuads
<1>4. UInt256FromQuads(UInt256ToQuads(x)) = high * TwoQuads + low
  <2>1. /\ Low(x) \in Int /\ Low(High(x)) \in Int
        /\ Low(y) \in Int /\ Low(High(y)) \in Int
    BY <1>1, HighAndLow
  <2>2. \A a, b, c \in Int: (a * Quad + b) * Quad + c = a * (Quad * Quad) + (b * Quad + c)
    BY <1>q
  <2>3. UInt256FromQuads(UInt256ToQuads(x))
          = (high * Quad + Low(High(x))) * Quad + Low(x)
    BY DEF UInt256FromQuads, UInt256ToQuads
  <2> QED BY <1>3, <2>1, <2>2, <2>3 DEF TwoQuads
<1>5. high * TwoQuads + low \in 0..(FourQuads - 1)
  BY <1>2, <1>3, <1>q, PutAbove DEF FourQuads
<1>6. \A w \in Nat: \A a, b, c \in Int: w * (w * a + b) + c = (w * w) * a + (b * w + c)
  OBVIOUS
<1>7. x = FourQuads * High(High(y)) + (high * TwoQuads + low)
  BY <1>1, <1>2, <1>3, <1>6, <1>q DEF FourQuads
<1> QED BY <1>1, <1>4, <1>5, <1>7

\* The sign is the highest bit of the highest quad (largeint.pyx:83-88, 209-221).
LEMMA SignBit ==
  ASSUME NEW r \in Nat, r > 0, NEW top \in 0..(Quad - 1), NEW low \in 0..(r - 1)
  PROVE  top > MaxInt64 <=> top * r + low >= (Quad * r) \div 2
<1>1. PICK k \in Nat: Quad = 2 * k
  <2>1. Quad \div 2 \in Nat /\ Quad = 2 * (Quad \div 2)
    BY QuadAssumption
  <2> QED BY <2>1
<1>2. MaxInt64 = k - 1
  BY <1>1 DEF MaxInt64
<1>3. (Quad * r) \div 2 = k * r
  <2>1. Quad * r = 2 * (k * r) /\ k * r \in Int
    BY <1>1
  <2> QED BY <2>1
<1>0. top \in Nat /\ \A i, j \in Nat: i * j >= 0
  BY QuadAssumption
<1>4. CASE top > MaxInt64
  <2>1. (top - k) * r >= 0
    <3>1. top - k \in Nat
      BY <1>0, <1>1, <1>2, <1>4
    <3> QED BY <1>0, <3>1
  <2>2. (top - k) * r = top * r - k * r
    BY <1>0, <1>1
  <2>3. top * r \in Int /\ k * r \in Int
    BY <1>0, <1>1
  <2> QED BY <1>3, <1>4, <2>1, <2>2, <2>3
<1>5. CASE ~(top > MaxInt64)
  <2>1. (k - 1 - top) * r >= 0
    <3>1. k - 1 - top \in Nat
      BY <1>0, <1>1, <1>2, <1>5
    <3> QED BY <1>0, <3>1
  <2>2. (k - 1 - top) * r = k * r - r - top * r
    BY <1>0, <1>1
  <2>3. top * r \in Int /\ k * r \in Int
    BY <1>0, <1>1
  <2> QED BY <1>3, <1>5, <2>1, <2>2, <2>3
<1> QED BY <1>4, <1>5

\* A number without its sign is in the range of the unsigned type; one that has
\* the highest bit set stands for a negative number.
LEMMA WrappedNumbers ==
  ASSUME NEW m \in Nat, m > 0, m % 2 = 0, NEW x \in Int, NEW u \in 0..(m - 1),
         \E k \in Int: x = m * k + u
  PROVE  /\ Wrapped(u, x, 0, m)
         /\ Wrapped(IF u >= m \div 2 THEN u - m ELSE u, x, -(m \div 2), m)
<1>1. PICK k \in Int: x = m * k + u
  OBVIOUS
<1>2. \A j \in Int: (m * j) % m = 0
  BY MultipleApart
<1>3. u - x = m * (-k) /\ (u - m) - x = m * (-k - 1)
  BY <1>1
<1>4. (u - x) % m = 0 /\ ((u - m) - x) % m = 0
  <2>1. -k \in Int /\ -k - 1 \in Int
    OBVIOUS
  <2> QED BY <1>2, <1>3, <2>1
<1>5. m \div 2 \in Int /\ m = 2 * (m \div 2)
  OBVIOUS
<1> QED BY <1>4, <1>5 DEF Wrapped

\* Every integer comes back from its quads, wrapped around to what its type can
\* hold, for every width of a quad (largeint.pyx:11-244).
THEOREM LargeIntsWrapAround ==
  ASSUME NEW x \in Int
  PROVE  /\ Wrapped(UInt128FromQuads(UInt128ToQuads(x)), x, 0, TwoQuads)
         /\ Wrapped(Int128FromQuads(Int128ToQuads(x)), x, -(TwoQuads \div 2), TwoQuads)
         /\ Wrapped(UInt256FromQuads(UInt256ToQuads(x)), x, 0, FourQuads)
         /\ Wrapped(Int256FromQuads(Int256ToQuads(x)), x, -(FourQuads \div 2), FourQuads)
<1>w. /\ Quad \in Nat /\ Quad > 0 /\ Quad % 2 = 0
      /\ TwoQuads \in Nat /\ TwoQuads > 0 /\ FourQuads \in Nat /\ FourQuads > 0
      /\ FourQuads = (TwoQuads * Quad) * Quad
  BY WideNumbers, QuadAssumption
<1>h. /\ High(x) \in Int /\ High(High(x)) \in Int /\ High(High(High(x))) \in Int
      /\ Low(x) \in 0..(Quad - 1) /\ Low(High(x)) \in 0..(Quad - 1)
      /\ Low(High(High(x))) \in 0..(Quad - 1) /\ Low(High(High(High(x)))) \in 0..(Quad - 1)
  BY HighAndLow
<1>e. TwoQuads % 2 = 0 /\ FourQuads % 2 = 0
  <2>1. PICK k \in Nat: Quad = 2 * k
    <3>1. Quad \div 2 \in Nat /\ Quad = 2 * (Quad \div 2)
      BY <1>w
    <3> QED BY <3>1
  <2>2. TwoQuads = 2 * (k * Quad) /\ k * Quad \in Int
    BY <1>w, <2>1 DEF TwoQuads
  <2>3. FourQuads = 2 * ((k * Quad) * TwoQuads) /\ (k * Quad) * TwoQuads \in Int
    BY <1>w, <2>2 DEF FourQuads
  <2> QED BY <2>2, <2>3
<1> DEFINE u2 == UInt128FromQuads(UInt128ToQuads(x))
           u4 == UInt256FromQuads(UInt256ToQuads(x))
<1>1. u2 \in 0..(TwoQuads - 1) /\ \E k \in Int: x = TwoQuads * k + u2
  BY <1>h, LowerQuads DEF UInt128FromQuads, UInt128ToQuads
<1>2. u4 \in 0..(FourQuads - 1) /\ \E k \in Int: x = FourQuads * k + u4
  BY AllQuads
<1>3. Int128FromQuads(Int128ToQuads(x))
        = IF u2 >= TwoQuads \div 2 THEN u2 - TwoQuads ELSE u2
  <2> DEFINE q1 == Low(x)
             q2 == Low(High(x))
  <2>1. Int128ToQuads(x) = <<q1, q2>> /\ u2 = q2 * Quad + q1
    BY SignedQuads DEF UInt128ToQuads, UInt128FromQuads
  <2>2. q2 > MaxInt64 <=> u2 >= TwoQuads \div 2
    BY <1>h, <1>w, <2>1, SignBit DEF TwoQuads
  <2>3. -((MaxUInt64 - q2) * Quad) - (MaxUInt64 - q1) - 1 = u2 - TwoQuads
    BY <1>h, <1>w, <2>1 DEF MaxUInt64, TwoQuads
  <2>4. Int128FromQuads(<<q1, q2>>)
          = IF q2 > MaxInt64 THEN -((MaxUInt64 - q2) * Quad) - (MaxUInt64 - q1) - 1
            ELSE q2 * Quad + q1
    BY DEF Int128FromQuads
  <2> QED BY <2>1, <2>2, <2>3, <2>4
<1>4. Int256FromQuads(Int256ToQuads(x))
        = IF u4 >= FourQuads \div 2 THEN u4 - FourQuads ELSE u4
  <2> DEFINE q1 == Low(x)
             q2 == Low(High(x))
             q3 == Low(High(High(x)))
             q4 == Low(High(High(High(x))))
             below == (q3 * Quad + q2) * Quad + q1
             r == (Quad * Quad) * Quad
  <2>0. q1 \in Int /\ q2 \in Int /\ q3 \in Int /\ q4 \in Int
    BY <1>h
  <2>1. /\ Int256ToQuads(x) = <<q1, q2, q3, q4>>
        /\ u4 = ((q4 * Quad + q3) * Quad + q2) * Quad + q1
    BY SignedQuads DEF UInt256ToQuads, UInt256FromQuads
  <2>2. u4 = q4 * r + below
    <3> HIDE DEF q1, q2, q3, q4
    <3>1. ((q4 * Quad + q3) * Quad + q2) * Quad + q1 = q4 * r + below
      BY <1>w, <2>0
    <3> QED BY <2>1, <3>1
  <2>3. r \in Nat /\ r > 0 /\ below \in 0..(r - 1) /\ Quad * r = FourQuads
    <3>1. r = TwoQuads * Quad
      BY DEF TwoQuads
    <3>2. r \in Nat /\ r > 0
      <4>1. \A i, j \in Nat: i > 0 /\ j > 0 => i * j \in Nat /\ i * j > 0
        OBVIOUS
      <4> QED BY <1>w, <3>1, <4>1
    <3>3. q3 * Quad + q2 \in 0..(TwoQuads - 1)
      BY <1>h, <1>w, PutAbove DEF TwoQuads
    <3>4. below \in 0..(r - 1)
      BY <1>h, <1>w, <3>1, <3>3, PutAbove
    <3>5. Quad * r = r * Quad
      BY <1>w, <3>2
    <3> QED BY <1>w, <3>1, <3>2, <3>4, <3>5
  <2>4. q4 > MaxInt64 <=> u4 >= FourQuads \div 2
    BY <1>h, <2>2, <2>3, SignBit
  <2>5. -((((MaxUInt64 - q4) * Quad + (MaxUInt64 - q3)) * Quad
            + (MaxUInt64 - q2)) * Quad) - (MaxUInt64 - q1) - 1 = u4 - FourQuads
    <3>1. \A a, b, c, d, n \in Int:
            -(((((n - 1) - a) * n + ((n - 1) - b)) * n + ((n - 1) - c)) * n)
              - ((n - 1) - d) - 1
              = (((a * n + b) * n + c) * n + d) - ((n * n) * n) * n
      OBVIOUS
    <3>2. FourQuads = ((Quad * Quad) * Quad) * Quad
      BY <1>w DEF TwoQuads
    <3> QED BY <1>w, <2>0, <2>1, <3>1, <3>2 DEF MaxUInt64
  <2>6. Int256FromQuads(<<q1, q2, q3, q4>>)
          = IF q4 > MaxInt64
              THEN -((((MaxUInt64 - q4) * Quad + (MaxUInt64 - q3)) * Quad
                       + (MaxUInt64 - q2)) * Quad) - (MaxUInt64 - q1) - 1
              ELSE ((q4 * Quad + q3) * Quad + q2) * Quad + q1
    BY DEF Int256FromQuads, UInt256FromQuads
  <2> QED BY <2>1, <2>4, <2>5, <2>6
<1> QED BY <1>1, <1>2, <1>3, <1>4, <1>e, <1>w, WrappedNumbers

-----------------------------------------------------------------------------
(* Varints *)

\* Shift is defined: a positive number for each number of groups.
LEMMA ShiftUnfolds ==
  /\ \A n \in Nat: Shift[n] = IF n = 0 THEN 1 ELSE Base * Shift[n - 1]
  /\ \A n \in Nat: Shift[n] \in Nat /\ Shift[n] > 0
<1> DEFINE step == [p \in Nat \X Nat |-> Base * p[2]]
           Is(f) == f = [n \in Nat |-> IF n = 0 THEN 1 ELSE Base * f[n - 1]]
<1>b. Base \in Nat /\ Base > 1
  BY VarintBaseAssumption
<1>1. \E f: Is(f)
  <2>1. step \in [Nat \X Nat -> Nat]
    BY <1>b, NaturalProduct
  <2>2. \A n, x \in Nat: step[<<n, x>>] = Base * x
    OBVIOUS
  <2> HIDE DEF step
  <2>3. Recursion(Nat, 1, Before, step)
    BY <2>1, StepBack DEF Recursion
  <2>f. PICK f: Solves(f, Nat, 1, Before, step)
    BY <2>3, ComputesAll
  <2>g. /\ f \in [Nat -> Nat]
        /\ \A n \in Nat: f[n] = IF n = 0 THEN 1 ELSE step[<<n, f[Before[n]]>>]
    BY <2>f DEF Solves
  <2>4. ASSUME NEW n \in Nat PROVE f[n] = IF n = 0 THEN 1 ELSE Base * f[n - 1]
    <3>1. n # 0 => Before[n] = n - 1 /\ n - 1 \in Nat /\ f[n - 1] \in Nat
      BY <2>g, StepBack
    <3> QED BY <2>2, <2>g, <3>1
  <2>5. f = [n \in Nat |-> f[n]]
    BY <2>g
  <2>6. Is(f)
    BY <2>4, <2>5
  <2> QED BY <2>6
<1>2. Is(Shift)
  BY <1>1 DEF Shift
<1>3. \A n \in Nat: Shift[n] = IF n = 0 THEN 1 ELSE Base * Shift[n - 1]
  BY <1>2
<1> DEFINE T == {n \in Nat: Shift[n] \in Nat /\ Shift[n] > 0}
<1>4. 0 \in T
  BY <1>3
<1>5. ASSUME NEW n \in Nat, n \in T PROVE n + 1 \in T
  <2>1. Shift[n + 1] = Base * Shift[n] /\ n + 1 \in Nat
    BY <1>3
  <2>2. Shift[n] \in Nat /\ Shift[n] > 0
    BY <1>5
  <2>3. \A s \in Nat: s > 0 => Base * s \in Nat /\ Base * s > 0
    BY <1>b
  <2> QED BY <2>1, <2>2, <2>3
<1> HIDE DEF T
<1>6. Nat \subseteq T
  BY <1>4, <1>5, InductionBySet
<1> QED BY <1>3, <1>6 DEF T

\* More groups are shifted further.
LEMMA ShiftGrows ==
  ASSUME NEW m \in Nat, NEW n \in Nat, m <= n
  PROVE  Shift[m] <= Shift[n]
<1>b. Base \in Nat /\ Base > 1
  BY VarintBaseAssumption
<1> DEFINE T == {k \in Nat: m <= k => Shift[m] <= Shift[k]}
<1>1. 0 \in T
  BY ShiftUnfolds
<1>2. ASSUME NEW k \in Nat, k \in T PROVE k + 1 \in T
  <2>1. Shift[k + 1] = Base * Shift[k] /\ k + 1 \in Nat /\ (k + 1) - 1 = k /\ k + 1 # 0
    BY ShiftUnfolds
  <2>2. \A s \in Nat: s <= Base * s
    BY <1>b
  <2>3. Shift[k] <= Shift[k + 1] /\ Shift[k + 1] \in Nat /\ Shift[k] \in Nat /\ Shift[m] \in Nat
    BY <2>1, <2>2, ShiftUnfolds
  <2>4. CASE m <= k
    BY <1>2, <2>3, <2>4
  <2>5. CASE ~(m <= k)
    <3>1. m <= k + 1 => m = k + 1
      BY <2>5
    <3> QED BY <2>3, <3>1
  <2> QED BY <2>4, <2>5
<1> HIDE DEF T
<1>3. Nat \subseteq T
  BY <1>1, <1>2, InductionBySet
<1> QED BY <1>3 DEF T

\* A smaller number is left behind each group.
LEMMA GroupsLeft ==
  ASSUME NEW n \in Nat
  PROVE  /\ n \div Base \in Nat /\ n % Base \in 0..(Base - 1)
         /\ n = Base * (n \div Base) + (n % Base)
         /\ n > 0 => n \div Base < n
         /\ n >= Base => n \div Base >= 1
BY VarintBaseAssumption, DigitsLeft

\* What a byte may be.
Groups == 0..(2 * Base - 1)

\* make_varint is defined: each call of it is given a smaller number
\* (varint.pyx:5-26).
LEMMA MakeVarintUnfolds ==
  \A n \in Nat: MakeVarint[n] = IF n < Base THEN <<n>>
                                ELSE <<(n % Base) + Base>> \o MakeVarint[n \div Base]
<1>1. \E f: f = [n \in Nat |-> IF n < Base THEN <<n>>
                              ELSE <<(n % Base) + Base>> \o f[n \div Base]]
  BY VarintBaseAssumption, DigitsExist
<1>2. MakeVarint = [n \in Nat |-> IF n < Base THEN <<n>>
                                 ELSE <<(n % Base) + Base>> \o MakeVarint[n \div Base]]
  BY <1>1 DEF MakeVarint
<1> QED BY <1>2

\* Induction over numbers by what is left behind their lowest group.
LEMMA GroupInduction ==
  ASSUME NEW T,
         \A n \in Nat: n < Base => n \in T,
         \A n \in Nat: n >= Base /\ n \div Base \in T => n \in T
  PROVE  Nat \subseteq T
BY VarintBaseAssumption, DigitInduction

\* What comes of it is bytes, of which the last is the only one without the high
\* bit.
LEMMA VarintEnds ==
  ASSUME NEW n \in Nat
  PROVE  /\ MakeVarint[n] \in Seq(Groups)
         /\ MakeVarint[n] # <<>>
         /\ IsLast(MakeVarint[n], Len(MakeVarint[n]))
<1> DEFINE Ends(g) == /\ g \in Seq(Groups) /\ Len(g) > 0 /\ g[Len(g)] < Base
                      /\ \A j \in 1..(Len(g) - 1): g[j] >= Base
           T == {k \in Nat: Ends(MakeVarint[k])}
<1>b. Base \in Nat /\ Base > 1
  BY VarintBaseAssumption
<1>1. ASSUME NEW k \in Nat, k < Base PROVE k \in T
  <2>1. MakeVarint[k] = <<k>> /\ k \in Groups
    <3>1. MakeVarint[k] = <<k>>
      BY <1>1, MakeVarintUnfolds
    <3>2. k \in 0..(2 * Base - 1)
      BY <1>b, <1>1
    <3> QED BY <3>1, <3>2 DEF Groups
  <2>2. <<k>> \in Seq(Groups) /\ Len(<<k>>) = 1 /\ <<k>>[1] = k
    BY <2>1
  <2>3. Ends(<<k>>)
    BY <1>1, <2>2
  <2> HIDE DEF Ends
  <2> QED BY <2>1, <2>3
<1>2. ASSUME NEW k \in Nat, k >= Base, k \div Base \in T PROVE k \in T
  <2> DEFINE b == (k % Base) + Base
             rest == MakeVarint[k \div Base]
             g == <<b>> \o rest
  <2>1. MakeVarint[k] = g /\ Ends(rest)
    <3>1. ~(k < Base)
      BY <1>b, <1>2
    <3> QED BY <1>2, <3>1, MakeVarintUnfolds
  <2>2. b \in Groups /\ b >= Base
    <3>1. PICK r \in 0..(Base - 1): r = k % Base
      BY <1>b, GroupsLeft
    <3> QED BY <1>b, <3>1 DEF Groups
  <2> HIDE DEF b, rest
  <2>3. rest \in Seq(Groups) /\ Len(rest) \in Nat /\ Len(rest) > 0
    BY <2>1
  <2>4. <<b>> \in Seq(Groups) /\ Len(<<b>>) = 1 /\ <<b>>[1] = b
    BY <2>2
  <2>5. /\ g \in Seq(Groups) /\ Len(g) = 1 + Len(rest) /\ g[1] = b
        /\ \A j \in 1..Len(rest): g[j + 1] = rest[j]
    BY <2>3, <2>4
  <2> HIDE DEF g
  <2>6. g[Len(g)] < Base
    <3>1. Len(rest) \in 1..Len(rest) /\ Len(g) = Len(rest) + 1
      BY <2>3, <2>5
    <3> QED BY <2>1, <2>5, <3>1
  <2>7. \A j \in 1..(Len(g) - 1): g[j] >= Base
    <3> TAKE j \in 1..(Len(g) - 1)
    <3>1. CASE j = 1
      BY <2>2, <2>5, <3>1
    <3>2. CASE j # 1
      <4>1. j - 1 \in 1..Len(rest) /\ j - 1 \in 1..(Len(rest) - 1) /\ (j - 1) + 1 = j
        BY <2>3, <2>5, <3>2
      <4> QED BY <2>1, <2>5, <4>1
    <3> QED BY <3>1, <3>2
  <2>8. Ends(g)
    BY <2>3, <2>5, <2>6, <2>7
  <2> HIDE DEF Ends
  <2> QED BY <2>1, <2>8
<1> HIDE DEF T
<1>3. Nat \subseteq T
  BY <1>1, <1>2, GroupInduction
<1>4. Ends(MakeVarint[n])
  BY <1>3 DEF T
<1> DEFINE g == MakeVarint[n]
<1> HIDE DEF g
<1>5. g \in Seq(Groups) /\ g # <<>> /\ IsLast(g, Len(g))
  BY <1>4 DEF g, IsLast
<1> QED BY <1>5 DEF g

\* A group has its value below Base, and is shifted to a natural number.
LEMMA GroupValue ==
  ASSUME NEW b \in Nat, NEW n \in Nat
  PROVE  /\ b % Base \in Nat /\ b % Base \in Int
         /\ (b % Base) * Shift[n] \in Nat
<1>1. b % Base \in Nat
  BY GroupsLeft
<1> QED BY <1>1, ShiftUnfolds, NaturalProduct

\* The sum that defines Denoted, group by group.
Sums(f, bytes) ==
  /\ f[0] = 0
  /\ \A n \in 1..Len(bytes): f[n] = f[n - 1] + (bytes[n] % Base) * Shift[n - 1]

\* Denoted is defined.
LEMMA DenotedUnfolds ==
  ASSUME NEW bytes \in Seq(Nat)
  PROVE  \E f: /\ Sums(f, bytes) /\ Denoted(bytes) = f[Len(bytes)]
               /\ \A n \in 0..Len(bytes): f[n] \in Nat
<1> DEFINE l == Len(bytes)
           v(n) == (bytes[n] % Base) * Shift[n - 1]
           step == [p \in Nat \X Nat |-> IF p[1] \in 1..l THEN p[2] + v(p[1]) ELSE 0]
           Is(f) == f = [n \in 0..l |-> IF n = 0 THEN 0 ELSE f[n - 1] + v(n)]
<1>l. l \in Nat
  OBVIOUS
<1>v. \A n \in 1..l: v(n) \in Nat
  <2> TAKE n \in 1..l
  <2>1. bytes[n] \in Nat /\ n - 1 \in Nat
    OBVIOUS
  <2> QED BY <2>1, GroupValue
<1> HIDE DEF l, v
<1>1. \E f: Is(f)
  <2>1. step \in [Nat \X Nat -> Nat]
    BY <1>v
  <2>2. \A n, x \in Nat: step[<<n, x>>] = IF n \in 1..l THEN x + v(n) ELSE 0
    OBVIOUS
  <2> HIDE DEF step
  <2>3. Recursion(Nat, 0, Before, step)
    BY <2>1, StepBack DEF Recursion
  <2>4. PICK f: Solves(f, Nat, 0, Before, step)
    BY <2>3, ComputesAll
  <2>5. /\ f \in [Nat -> Nat]
        /\ \A n \in Nat: f[n] = IF n = 0 THEN 0 ELSE step[<<n, f[Before[n]]>>]
    BY <2>4 DEF Solves
  <2> DEFINE g == [n \in 0..l |-> f[n]]
  <2>6. ASSUME NEW n \in 0..l PROVE g[n] = IF n = 0 THEN 0 ELSE g[n - 1] + v(n)
    <3>1. CASE n = 0
      BY <1>l, <2>5, <3>1
    <3>2. CASE n # 0
      <4>1. n \in Nat /\ n \in 1..l /\ n - 1 \in 0..l /\ n - 1 \in Nat /\ n > 0
        BY <1>l, <3>2
      <4>2. f[n] = step[<<n, f[n - 1]>>] /\ f[n - 1] \in Nat
        BY <2>5, <3>2, <4>1, StepBack
      <4>3. f[n] = f[n - 1] + v(n)
        BY <2>2, <4>1, <4>2
      <4> QED BY <3>2, <4>1, <4>3
    <3> QED BY <3>1, <3>2
  <2>7. g = [n \in 0..l |-> g[n]]
    OBVIOUS
  <2> HIDE DEF g
  <2>8. Is(g)
    BY <2>6, <2>7
  <2> QED BY <2>8
<1> DEFINE f == CHOOSE x: Is(x)
<1>2. Is(f)
  BY <1>1
<1>3. Denoted(bytes) = f[Len(bytes)]
  BY DEF Denoted, l, v
<1> HIDE DEF f
<1>4. /\ f[0] = 0
      /\ \A n \in 1..l: f[n] = f[n - 1] + v(n)
  BY <1>l, <1>2
<1> HIDE DEF Is
<1>5. Sums(f, bytes)
  BY <1>4 DEF Sums, l, v
<1> DEFINE T == {n \in Nat: n <= l => f[n] \in Nat}
<1>6. 0 \in T
  BY <1>4
<1>7. ASSUME NEW n \in Nat, n \in T PROVE n + 1 \in T
  <2>1. CASE n + 1 <= l
    <3>1. n + 1 \in 1..l /\ n + 1 \in Nat /\ (n + 1) - 1 = n /\ n <= l
      BY <1>l, <2>1
    <3>2. f[n + 1] = f[n] + v(n + 1) /\ v(n + 1) \in Nat /\ f[n] \in Nat
      BY <1>4, <1>7, <1>v, <3>1
    <3> QED BY <3>1, <3>2
  <2> QED BY <2>1
<1> HIDE DEF T
<1>8. Nat \subseteq T
  BY <1>6, <1>7, InductionBySet
<1>9. \A n \in 0..l: f[n] \in Nat
  BY <1>l, <1>8 DEF T
<1> QED BY <1>3, <1>5, <1>9 DEF l

\* The same with the bits behind the word cut off at each step: read_varint.
Cuts(g, bytes) ==
  /\ g[0] = 0
  /\ \A n \in 1..Len(bytes): g[n] = (g[n - 1] + (bytes[n] % Base) * Shift[n - 1]) % WordSize

\* Shifted is defined (varint.pyx:45-68).
LEMMA ShiftedUnfolds ==
  ASSUME NEW bytes \in Seq(Nat)
  PROVE  Cuts(Shifted(bytes), bytes)
<1> DEFINE l == Len(bytes)
           v(n) == (bytes[n] % Base) * Shift[n - 1]
           step == [p \in Nat \X Nat |->
                      IF p[1] \in 1..l THEN (p[2] + v(p[1])) % WordSize ELSE 0]
           Is(f) == f = [n \in 0..l |-> IF n = 0 THEN 0 ELSE (f[n - 1] + v(n)) % WordSize]
<1>l. l \in Nat /\ WordSize \in Nat /\ WordSize > 0
  BY VarintBaseAssumption, WordSizeAssumption
<1>v. \A n \in 1..l: v(n) \in Nat
  <2> TAKE n \in 1..l
  <2>1. bytes[n] \in Nat /\ n - 1 \in Nat
    OBVIOUS
  <2> QED BY <2>1, GroupValue
<1>c. \A x \in Nat: x % WordSize \in Nat
  BY <1>l, Division
<1> HIDE DEF l, v
<1>1. \E f: Is(f)
  <2>1. step \in [Nat \X Nat -> Nat]
    <3> SUFFICES ASSUME NEW p \in Nat \X Nat
                 PROVE  (IF p[1] \in 1..l THEN (p[2] + v(p[1])) % WordSize ELSE 0) \in Nat
      OBVIOUS
    <3>1. CASE p[1] \in 1..l
      <4>1. p[2] + v(p[1]) \in Nat
        BY <1>v, <3>1
      <4> QED BY <1>c, <3>1, <4>1
    <3> QED BY <3>1
  <2>2. \A n, x \in Nat:
          step[<<n, x>>] = IF n \in 1..l THEN (x + v(n)) % WordSize ELSE 0
    OBVIOUS
  <2> HIDE DEF step
  <2>3. Recursion(Nat, 0, Before, step)
    BY <2>1, StepBack DEF Recursion
  <2>4. PICK f: Solves(f, Nat, 0, Before, step)
    BY <2>3, ComputesAll
  <2>5. /\ f \in [Nat -> Nat]
        /\ \A n \in Nat: f[n] = IF n = 0 THEN 0 ELSE step[<<n, f[Before[n]]>>]
    BY <2>4 DEF Solves
  <2> DEFINE g == [n \in 0..l |-> f[n]]
  <2>6. ASSUME NEW n \in 0..l
        PROVE  g[n] = IF n = 0 THEN 0 ELSE (g[n - 1] + v(n)) % WordSize
    <3>1. CASE n = 0
      BY <1>l, <2>5, <3>1
    <3>2. CASE n # 0
      <4>1. n \in Nat /\ n \in 1..l /\ n - 1 \in 0..l /\ n - 1 \in Nat /\ n > 0
        BY <1>l, <3>2
      <4>2. f[n] = step[<<n, f[n - 1]>>] /\ f[n - 1] \in Nat
        BY <2>5, <3>2, <4>1, StepBack
      <4>3. f[n] = (f[n - 1] + v(n)) % WordSize
        BY <2>2, <4>1, <4>2
      <4> QED BY <3>2, <4>1, <4>3
    <3> QED BY <3>1, <3>2
  <2>7. g = [n \in 0..l |-> g[n]]
    OBVIOUS
  <2> HIDE DEF g
  <2>8. Is(g)
    BY <2>6, <2>7
  <2> QED BY <2>8
<1> DEFINE f == CHOOSE x: Is(x)
<1>2. Is(f)
  BY <1>1
<1>3. Shifted(bytes) = f
  BY DEF Shifted, l, v
<1> HIDE DEF f
<1>4. /\ f[0] = 0
      /\ \A n \in 1..l: f[n] = (f[n - 1] + v(n)) % WordSize
  BY <1>l, <1>2
<1> HIDE DEF Is
<1> QED BY <1>3, <1>4 DEF Cuts, l, v

\* What read_varint computes of all groups is the number they denote, cut to
\* the word.
LEMMA ShiftedIsDenoted ==
  ASSUME NEW bytes \in Seq(Nat)
  PROVE  /\ Denoted(bytes) \in Nat
         /\ Shifted(bytes)[Len(bytes)] = Denoted(bytes) % WordSize
<1> DEFINE l == Len(bytes)
           v(n) == (bytes[n] % Base) * Shift[n - 1]
           g == Shifted(bytes)
<1>l. l \in Nat /\ WordSize \in Nat /\ WordSize > 0
  BY VarintBaseAssumption, WordSizeAssumption
<1>v. \A n \in 1..l: v(n) \in Nat
  <2> TAKE n \in 1..l
  <2>1. bytes[n] \in Nat /\ n - 1 \in Nat
    OBVIOUS
  <2> QED BY <2>1, GroupValue
<1>1. PICK f: /\ Sums(f, bytes) /\ Denoted(bytes) = f[l]
              /\ \A n \in 0..l: f[n] \in Nat
  BY DenotedUnfolds
<1>2. /\ f[0] = 0 /\ g[0] = 0
      /\ \A n \in 1..l: f[n] = f[n - 1] + v(n) /\ g[n] = (g[n - 1] + v(n)) % WordSize
  BY <1>1, ShiftedUnfolds DEF Sums, Cuts
<1> HIDE DEF l, v, g
<1> DEFINE T == {n \in Nat: n <= l => g[n] = f[n] % WordSize}
<1>3. 0 \in T
  <2>1. WordSize * 0 = 0
    BY <1>l
  <2>2. 0 % WordSize = 0
    BY <1>l
  <2> QED BY <1>2, <2>2
<1>4. ASSUME NEW n \in Nat, n \in T PROVE n + 1 \in T
  <2>1. CASE n + 1 <= l
    <3>1. n + 1 \in 1..l /\ n + 1 \in Nat /\ (n + 1) - 1 = n /\ n <= l /\ n \in 0..l
      BY <1>l, <2>1
    <3>2. PICK b \in Nat: b = v(n + 1)
      BY <1>v, <3>1
    <3>3. f[n + 1] = f[n] + b /\ g[n + 1] = (g[n] + b) % WordSize
      BY <1>2, <3>1, <3>2
    <3>4. g[n] = f[n] % WordSize
      BY <1>4, <3>1
    <3>5. PICK a \in Nat: a = f[n]
      BY <1>1, <3>1
    <3>0. a \in Int /\ b \in Int
      OBVIOUS
    <3>6. ((a % WordSize) + b) % WordSize = (a + b) % WordSize
      BY ZenonT(20), <1>l, <3>0, CutSum
    <3>7. g[n + 1] = f[n + 1] % WordSize
      BY <3>3, <3>4, <3>5, <3>6
    <3> QED BY <3>1, <3>7
  <2> QED BY <2>1
<1> HIDE DEF T
<1>5. Nat \subseteq T
  BY <1>3, <1>4, InductionBySet
<1>6. g[l] = f[l] % WordSize /\ f[l] \in Nat
  <2>1. l \in T /\ l \in 0..l /\ l <= l
    BY <1>l, <1>5
  <2> QED BY <1>1, <2>1 DEF T
<1> QED BY <1>1, <1>6 DEF g, l

\* One more group in front.
LEMMA DenotedBehind ==
  ASSUME NEW b \in Nat, NEW rest \in Seq(Nat)
  PROVE  Denoted(<<b>> \o rest) = (b % Base) + Base * Denoted(rest)
<1> DEFINE l == Len(rest)
           more == <<b>> \o rest
           c(n) == rest[n] % Base
<1>b. Base \in Nat /\ Base > 1
  BY VarintBaseAssumption
<1>1. /\ more \in Seq(Nat) /\ Len(more) = l + 1 /\ l \in Nat
      /\ more[1] = b /\ \A n \in 1..l: more[n + 1] = rest[n]
  <2>1. <<b>> \in Seq(Nat) /\ Len(<<b>>) = 1
    OBVIOUS
  <2> QED BY <2>1
<1>2. PICK f: /\ Sums(f, rest) /\ Denoted(rest) = f[l]
              /\ \A n \in 0..l: f[n] \in Nat
  BY DenotedUnfolds
<1>3. PICK g: /\ Sums(g, more) /\ Denoted(more) = g[Len(more)]
              /\ \A n \in 0..Len(more): g[n] \in Nat
  BY <1>1, DenotedUnfolds
<1>4. \A n \in 1..l: f[n] = f[n - 1] + c(n) * Shift[n - 1] /\ c(n) \in Nat
  <2>1. \A n \in 1..l: f[n] = f[n - 1] + c(n) * Shift[n - 1]
    BY <1>2 DEF Sums
  <2>2. \A n \in 1..l: rest[n] \in Nat
    OBVIOUS
  <2>3. \A x \in Nat: x % Base \in Nat
    BY <1>b, GroupsLeft
  <2> QED BY <2>1, <2>2, <2>3
<1> DEFINE low == b % Base
<1>5. low \in Nat
  BY <1>b, GroupsLeft
<1>6. g[1] = low
  <2>1. g[1] = g[1 - 1] + (more[1] % Base) * Shift[1 - 1] /\ g[0] = 0 /\ 1 - 1 = 0
    BY <1>1, <1>3 DEF Sums
  <2>2. Shift[0] = 1
    BY ShiftUnfolds
  <2>3. g[1] = 0 + low * 1
    BY <1>1, <2>1, <2>2
  <2> QED BY <1>5, <2>3
<1>7. \A n \in 1..l: g[n + 1] = g[n] + c(n) * Shift[n]
  <2> TAKE n \in 1..l
  <2>1. n + 1 \in 1..Len(more) /\ (n + 1) - 1 = n /\ more[n + 1] = rest[n]
    BY <1>1
  <2>2. g[n + 1] = g[(n + 1) - 1] + (more[n + 1] % Base) * Shift[(n + 1) - 1]
    BY <1>3, <2>1 DEF Sums
  <2> QED BY <2>1, <2>2
<1> HIDE DEF more, l, c, low
<1> DEFINE T == {n \in Nat: n <= l => g[n + 1] = low + Base * f[n]}
<1>8. 0 \in T
  <2>1. f[0] = 0 /\ Base * 0 = 0 /\ low + 0 = low /\ 0 + 1 = 1
    BY <1>2, <1>5, <1>b DEF Sums
  <2>2. g[0 + 1] = low + Base * f[0]
    BY <1>6, <2>1
  <2> QED BY <2>2
<1>9. ASSUME NEW n \in Nat, n \in T PROVE n + 1 \in T
  <2>1. CASE n + 1 <= l
    <3>1. PICK k \in Nat: k = n + 1
      OBVIOUS
    <3>2. k \in 1..l /\ k - 1 = n /\ n <= l /\ n \in 0..l
      BY <1>1, <2>1, <3>1
    <3>3. g[k] = low + Base * f[n] /\ g[k + 1] = g[k] + c(k) * Shift[k]
      BY <1>7, <1>9, <3>1, <3>2
    <3>4. f[k] = f[n] + c(k) * Shift[n] /\ c(k) \in Nat /\ f[n] \in Nat
      BY <1>2, <1>4, <3>2
    <3>5. Shift[k] = Base * Shift[n] /\ Shift[n] \in Nat
      BY <3>1, <3>2, ShiftUnfolds
    <3>6. PICK x \in Nat, y \in Nat, s \in Nat: x = f[n] /\ y = c(k) /\ s = Shift[n]
      BY <3>4, <3>5
    <3>7. Base * f[k] = Base * f[n] + c(k) * Shift[k]
      <4>1. Base * (x + y * s) = Base * x + y * (Base * s)
        BY <1>b
      <4>2. f[k] = x + y * s /\ Shift[k] = Base * s
        BY <3>4, <3>5, <3>6
      <4> QED BY <3>6, <4>1, <4>2
    <3>8. Base * f[n] \in Nat /\ c(k) * Shift[k] \in Nat
      BY <1>b, <3>4, <3>5, NaturalProduct
    <3>9. g[k + 1] = low + Base * f[k]
      BY <1>5, <3>3, <3>7, <3>8
    <3> QED BY <3>1, <3>9
  <2> QED BY <2>1
<1> HIDE DEF T
<1>10. Nat \subseteq T
  BY <1>8, <1>9, InductionBySet
<1>11. g[l + 1] = low + Base * f[l]
  <2>1. l \in T /\ l <= l
    BY <1>1, <1>10
  <2> QED BY <2>1 DEF T
<1> QED BY <1>1, <1>2, <1>3, <1>11 DEF more, l, low

\* A varint denotes the number it was made from.
LEMMA VarintDenotes ==
  ASSUME NEW n \in Nat
  PROVE  Denoted(MakeVarint[n]) = n
<1> DEFINE T == {k \in Nat: Denoted(MakeVarint[k]) = k}
<1>b. Base \in Nat /\ Base > 1
  BY VarintBaseAssumption
<1>s. \A g: g \in Seq(Groups) => g \in Seq(Nat)
  BY <1>b DEF Groups
<1>1. ASSUME NEW k \in Nat, k < Base PROVE k \in T
  <2>1. MakeVarint[k] = <<k>> \o <<>>
    <3>1. MakeVarint[k] = <<k>>
      BY <1>1, MakeVarintUnfolds
    <3> QED BY <3>1
  <2>2. Denoted(<<k>> \o <<>>) = (k % Base) + Base * Denoted(<<>>)
    <3>1. <<>> \in Seq(Nat)
      OBVIOUS
    <3> QED BY <3>1, DenotedBehind
  <2>3. Denoted(<<>>) = 0
    <3>1. <<>> \in Seq(Nat) /\ Len(<<>>) = 0
      OBVIOUS
    <3>2. PICK f: Sums(f, <<>>) /\ Denoted(<<>>) = f[Len(<<>>)]
      BY <3>1, DenotedUnfolds
    <3> QED BY <3>1, <3>2 DEF Sums
  <2>4. k % Base = k
    <3>1. k \in 0..(Base - 1) /\ k = Base * 0 + k
      BY <1>1, <1>b
    <3> QED BY <1>b, <3>1, OnlyDivision
  <2>5. (k % Base) + Base * 0 = k
    BY <1>b, <2>4
  <2> QED BY <2>1, <2>2, <2>3, <2>5
<1>2. ASSUME NEW k \in Nat, k >= Base, k \div Base \in T PROVE k \in T
  <2> DEFINE rest == MakeVarint[k \div Base]
  <2>1. PICK q \in Nat, r \in 0..(Base - 1):
          q = k \div Base /\ r = k % Base /\ k = Base * q + r
    BY GroupsLeft
  <2>2. MakeVarint[k] = <<r + Base>> \o rest
    <3>1. ~(k < Base)
      BY <1>b, <1>2
    <3> QED BY <2>1, <3>1, MakeVarintUnfolds
  <2>3. rest \in Seq(Nat) /\ r + Base \in Nat
    <3>1. rest \in Seq(Groups)
      BY <2>1, VarintEnds
    <3> QED BY <1>b, <1>s, <2>1, <3>1
  <2>4. Denoted(rest) = q
    BY <1>2, <2>1
  <2> HIDE DEF rest
  <2>5. Denoted(<<r + Base>> \o rest) = ((r + Base) % Base) + Base * Denoted(rest)
    <3>1. PICK b \in Nat: b = r + Base
      BY <2>3
    <3>2. Denoted(<<b>> \o rest) = (b % Base) + Base * Denoted(rest)
      BY <2>3, DenotedBehind
    <3> QED BY <3>1, <3>2
  <2>6. (r + Base) % Base = r
    <3>1. PICK b \in Int: b = r + Base
      BY <1>b, <2>1
    <3>2. b = Base * 1 + r
      BY <1>b, <2>1, <3>1
    <3>3. b % Base = r
      BY <1>b, <3>2, OnlyDivision
    <3> QED BY <3>1, <3>3
  <2>7. r + Base * q = k
    <3>1. Base * q \in Nat
      BY <1>b, NaturalProduct
    <3> QED BY <2>1, <3>1
  <2>8. Denoted(MakeVarint[k]) = k
    BY <2>2, <2>4, <2>5, <2>6, <2>7
  <2> QED BY <2>8
<1> HIDE DEF T
<1>3. Nat \subseteq T
  BY <1>1, <1>2, GroupInduction
<1> QED BY <1>3 DEF T

\* ... and is no longer than it must be.
LEMMA VarintShift ==
  ASSUME NEW n \in Nat, n > 0
  PROVE  Shift[Len(MakeVarint[n]) - 1] <= n
<1> DEFINE T == {k \in Nat: k > 0 => Shift[Len(MakeVarint[k]) - 1] <= k}
<1>b. Base \in Nat /\ Base > 1
  BY VarintBaseAssumption
<1>1. ASSUME NEW k \in Nat, k < Base PROVE k \in T
  <2>1. MakeVarint[k] = <<k>>
    BY <1>1, MakeVarintUnfolds
  <2>2. Len(<<k>>) - 1 = 0 /\ Shift[0] = 1
    BY ShiftUnfolds
  <2>3. Shift[Len(MakeVarint[k]) - 1] = 1
    BY <2>1, <2>2
  <2> QED BY <2>3
<1>2. ASSUME NEW k \in Nat, k >= Base, k \div Base \in T PROVE k \in T
  <2> DEFINE rest == MakeVarint[k \div Base]
             b == (k % Base) + Base
  <2>1. PICK q \in Nat, r \in 0..(Base - 1):
          q = k \div Base /\ r = k % Base /\ k = Base * q + r
    BY GroupsLeft
  <2>2. q > 0
    BY <1>2, <2>1, GroupsLeft
  <2>3. MakeVarint[k] = <<b>> \o rest
    <3>1. ~(k < Base)
      BY <1>b, <1>2
    <3> QED BY <3>1, MakeVarintUnfolds
  <2>4. rest \in Seq(Groups) /\ Len(rest) \in Nat /\ Len(rest) > 0
    <3>1. rest \in Seq(Groups) /\ rest # <<>>
      BY <2>1, VarintEnds
    <3> QED BY <3>1
  <2>5. Shift[Len(rest) - 1] <= q
    BY <1>2, <2>1, <2>2
  <2> HIDE DEF rest, b
  <2>6. PICK l \in Nat: l = Len(rest) - 1
    BY <2>4
  <2>7. Len(<<b>> \o rest) - 1 = l + 1
    <3>1. Len(<<b>> \o rest) = 1 + Len(rest)
      BY <2>4
    <3> QED BY <2>4, <2>6, <3>1
  <2>8. Shift[l + 1] = Base * Shift[l] /\ Shift[l] \in Nat /\ Shift[l] <= q
    BY <2>5, <2>6, ShiftUnfolds
  <2>9. Base * Shift[l] <= Base * q
    <3>1. PICK d \in Nat: q = Shift[l] + d
      <4>1. q - Shift[l] \in Nat /\ q = Shift[l] + (q - Shift[l])
        BY <2>8
      <4> QED BY <4>1
    <3>2. Base * q = Base * Shift[l] + Base * d /\ Base * d \in Nat /\ Base * Shift[l] \in Nat
      BY <1>b, <2>8, <3>1
    <3> QED BY <3>2
  <2>10. Base * q <= k /\ Base * q \in Nat /\ Base * Shift[l] \in Nat
    <3>1. Base * q \in Nat
      BY <1>b, NaturalProduct
    <3>2. Base * Shift[l] \in Nat
      BY <1>b, <2>8, NaturalProduct
    <3> QED BY <2>1, <3>1, <3>2
  <2>11. Shift[Len(MakeVarint[k]) - 1] <= k
    BY <2>3, <2>7, <2>8, <2>9, <2>10
  <2> QED BY <2>11
<1> HIDE DEF T
<1>3. Nat \subseteq T
  BY <1>1, <1>2, GroupInduction
<1> QED BY <1>3 DEF T

\* The first group without the high bit is the last of a varint: read_varint
\* reads it all, and gets what it denotes if no group is shifted behind the word.
LEMMA ReadsAllGroups ==
  ASSUME NEW g \in Seq(Groups), g # <<>>, IsLast(g, Len(g))
  PROVE  /\ EndOf(g) = Len(g)
         /\ Shift[Len(g) - 1] < WordSize => ReadVarint(g) = {Denoted(g) % WordSize}
<1>1. Len(g) \in Nat /\ Len(g) \in DOMAIN g /\ DOMAIN g = 1..Len(g)
  OBVIOUS
<1>2. \A i \in DOMAIN g: IsLast(g, i) => i = Len(g)
  <2> TAKE i \in DOMAIN g
  <2> SUFFICES ASSUME IsLast(g, i), i < Len(g) PROVE FALSE
    BY <1>1
  <2>1. i \in 1..(Len(g) - 1)
    BY <1>1
  <2>2. g[i] < Base /\ g[i] >= Base
    BY <2>1 DEF IsLast
  <2>3. g[i] \in Nat /\ Base \in Nat
    BY <1>1, VarintBaseAssumption DEF Groups
  <2> QED BY <2>2, <2>3
<1>3. EndOf(g) = Len(g)
  BY <1>1, <1>2 DEF EndOf
<1>4. Shifted(g)[Len(g)] = Denoted(g) % WordSize
  <2>1. g \in Seq(Nat)
    BY VarintBaseAssumption DEF Groups
  <2> QED BY <2>1, ShiftedIsDenoted
<1> QED BY <1>3, <1>4 DEF ReadVarint

\* A varint of a number with fewer bits than the word is read as that number.
LEMMA ReadsWhatWasMade ==
  ASSUME NEW n \in 0..(WordSize - 1)
  PROVE  ReadVarint(MakeVarint[n]) = {n}
<1>w. WordSize \in Nat /\ WordSize > 1
  BY VarintBaseAssumption, WordSizeAssumption
<1>n. n \in Nat /\ n < WordSize
  BY <1>w
<1> DEFINE g == MakeVarint[n]
<1>1. g \in Seq(Groups) /\ g # <<>> /\ IsLast(g, Len(g)) /\ Denoted(g) = n
  BY <1>n, VarintEnds, VarintDenotes
<1>2. Shift[Len(g) - 1] < WordSize
  <2>1. CASE n = 0
    <3>1. MakeVarint[0] = <<0>>
      <4>1. 0 \in Nat /\ 0 < Base
        BY VarintBaseAssumption
      <4> QED BY <4>1, MakeVarintUnfolds
    <3>2. Len(<<0>>) - 1 = 0 /\ Shift[0] = 1
      BY ShiftUnfolds
    <3>3. Shift[Len(g) - 1] = 1
      BY <2>1, <3>1, <3>2
    <3> QED BY <1>w, <3>3
  <2>2. CASE n # 0
    <3>1. n > 0
      BY <1>n, <2>2
    <3>2. Shift[Len(g) - 1] <= n
      BY <1>n, <3>1, VarintShift
    <3>3. Shift[Len(g) - 1] \in Nat
      <4>1. Len(g) - 1 \in Nat
        BY <1>1
      <4> QED BY <4>1, ShiftUnfolds
    <3> QED BY <1>n, <1>w, <3>2, <3>3
  <2> QED BY <2>1, <2>2
<1>3. n % WordSize = n
  <2>1. n \in Int /\ n = WordSize * 0 + n
    BY <1>n, <1>w
  <2> QED BY <1>w, <2>1, OnlyDivision
<1> HIDE DEF g
<1>4. ReadVarint(g) = {Denoted(g) % WordSize}
  BY <1>1, <1>2, ReadsAllGroups
<1> QED BY <1>1, <1>3, <1>4 DEF g

\* No more groups than the largest number needs are no overflow of the shift.
LEMMA ReadsShortGroups ==
  ASSUME NEW g \in Seq(Groups), g # <<>>, IsLast(g, Len(g)),
         Len(g) <= Len(MakeVarint[WordSize - 1])
  PROVE  ReadVarint(g) = {Denoted(g) % WordSize}
<1>w. WordSize \in Nat /\ WordSize - 1 \in Nat /\ WordSize - 1 > 0
  BY VarintBaseAssumption, WordSizeAssumption
<1> DEFINE longest == MakeVarint[WordSize - 1]
<1>1. longest \in Seq(Groups) /\ Shift[Len(longest) - 1] <= WordSize - 1
  BY <1>w, VarintEnds, VarintShift
<1>2. PICK m \in Nat, n \in Nat: m = Len(g) - 1 /\ n = Len(longest) - 1 /\ m <= n
  <2> HIDE DEF longest
  <2>1. Len(g) \in Nat /\ Len(longest) \in Nat /\ Len(g) > 0
    BY <1>1
  <2>2. Len(g) - 1 \in Nat /\ Len(longest) - 1 \in Nat /\ Len(g) - 1 <= Len(longest) - 1
    BY <2>1 DEF longest
  <2> QED BY <2>2
<1>3. Shift[m] <= Shift[n] /\ Shift[m] \in Nat /\ Shift[n] \in Nat
  BY <1>2, ShiftGrows, ShiftUnfolds
<1>4. Shift[Len(g) - 1] < WordSize
  BY <1>w, <1>1, <1>2, <1>3
<1> QED BY <1>4, ReadsAllGroups

-----------------------------------------------------------------------------
(* Strings of a fixed length *)

\* A string in its place: as long as the place (bufferedwriter.pyx:74-80).
LEMMA PaddedFacts ==
  ASSUME NEW v \in Seq(Nat), NEW length \in Nat
  PROVE  /\ Padded(v, length) \in Seq(Nat) /\ Len(Padded(v, length)) = length
         /\ \A i \in 1..length: Padded(v, length)[i] = IF i <= Len(v) THEN v[i] ELSE 0
         /\ Len(v) = length => Padded(v, length) = v
<1>1. Len(v) \in Nat /\ \A i \in 1..Len(v): v[i] \in Nat
  OBVIOUS
<1>2. \A i \in 1..length: (IF i <= Len(v) THEN v[i] ELSE 0) \in Nat
  BY <1>1
<1>3. Padded(v, length) \in [1..length -> Nat]
  BY <1>2 DEF Padded
<1>4. \A i \in 1..length: Padded(v, length)[i] = IF i <= Len(v) THEN v[i] ELSE 0
  BY DEF Padded
<1>5. Padded(v, length) \in Seq(Nat) /\ Len(Padded(v, length)) = length
  BY <1>3, BufferIsSequence
<1>6. Len(v) = length => Padded(v, length) = v
  BY <1>1, <1>4, <1>5, SeqEqual
<1> QED BY <1>4, <1>5, <1>6

\* The zeros at the end of a string are what is stripped: there is always a last
\* byte that is not zero, or none at all (bufferedreader.pyx:211-218).
LEMMA StrippedEnd ==
  ASSUME NEW s \in Seq(Nat)
  PROVE  \E j \in 0..Len(s): /\ Stripped(s) = SubSeq(s, 1, j)
                             /\ j > 0 => s[j] # 0
                             /\ \A i \in (j + 1)..Len(s): s[i] = 0
<1> DEFINE Ends(j) == (j > 0 => s[j] # 0) /\ \A i \in (j + 1)..Len(s): s[i] = 0
           T == {j \in 0..Len(s): \A i \in (j + 1)..Len(s): s[i] = 0}
<1>0. Len(s) \in Nat
  OBVIOUS
<1>1. PICK j \in T: \A k \in T: j <= k
  <2>1. T \in SUBSET Nat
    BY <1>0
  <2>2. Len(s) \in T
    BY <1>0
  <2> HIDE DEF T
  <2> QED BY <2>1, <2>2, LeastNatural
<1>2. Ends(j)
  <2>1. ASSUME j > 0, s[j] = 0 PROVE FALSE
    <3>1. j - 1 \in 0..Len(s) /\ ~(j <= j - 1)
      BY <1>0, <2>1
    <3>2. ASSUME NEW i \in ((j - 1) + 1)..Len(s) PROVE s[i] = 0
      <4>1. i = j \/ i \in (j + 1)..Len(s)
        BY <1>0
      <4> QED BY <1>1, <2>1, <4>1
    <3>3. j - 1 \in T
      BY <3>1, <3>2
    <3> HIDE DEF T
    <3> QED BY <1>1, <3>1, <3>3
  <2> QED BY <1>1, <2>1
<1>3. /\ Stripped(s) = SubSeq(s, 1, CHOOSE k \in 0..Len(s): Ends(k))
      /\ Ends(CHOOSE k \in 0..Len(s): Ends(k))
      /\ (CHOOSE k \in 0..Len(s): Ends(k)) \in 0..Len(s)
  <2>1. Stripped(s) = SubSeq(s, 1, CHOOSE k \in 0..Len(s): Ends(k))
    BY DEF Stripped
  <2>2. \E k \in 0..Len(s): Ends(k)
    BY <1>1, <1>2
  <2> HIDE DEF Ends
  <2> QED BY <2>1, <2>2
<1> QED BY <1>3

\* Padded again, a stripped string is what it was (bufferedreader.pyx:211-218,
\* bufferedwriter.pyx:74-80).
LEMMA StrippedComesBack ==
  ASSUME NEW s \in Seq(Nat)
  PROVE  /\ Stripped(s) \in Seq(Nat) /\ Padded(Stripped(s), Len(s)) = s
         /\ Stripped(s) = <<>> \/ Last(Stripped(s)) # 0
         /\ ToSet(Stripped(s)) \subseteq ToSet(s)
<1>1. PICK j \in 0..Len(s): /\ Stripped(s) = SubSeq(s, 1, j)
                            /\ j > 0 => s[j] # 0
                            /\ \A i \in (j + 1)..Len(s): s[i] = 0
  BY StrippedEnd
<1>2. Len(s) \in Nat /\ j \in Nat /\ j <= Len(s) /\ \A i \in 1..Len(s): s[i] \in Nat
  OBVIOUS
<1> DEFINE t == Stripped(s)
<1>3. t \in Seq(Nat) /\ Len(t) = j /\ \A i \in 1..j: t[i] = s[i]
  <2>1. \A i \in 1..j: s[i] \in Nat
    BY <1>2
  <2> QED BY <1>1, <1>2, <2>1, FrontElements
<1> HIDE DEF t
<1>4. Padded(t, Len(s)) = s
  <2>1. /\ Padded(t, Len(s)) \in Seq(Nat) /\ Len(Padded(t, Len(s))) = Len(s)
        /\ \A i \in 1..Len(s): Padded(t, Len(s))[i] = IF i <= j THEN t[i] ELSE 0
    BY ZenonT(30), <1>2, <1>3, PaddedFacts
  <2>2. ASSUME NEW i \in 1..Len(s) PROVE Padded(t, Len(s))[i] = s[i]
    <3>1. CASE i <= j
      <4>1. i \in 1..j
        BY <3>1
      <4> QED BY <1>3, <2>1, <3>1, <4>1
    <3>2. CASE ~(i <= j)
      <4>1. i \in (j + 1)..Len(s)
        BY <1>2, <3>2
      <4> QED BY <1>1, <2>1, <3>2, <4>1
    <3> QED BY <3>1, <3>2
  <2> QED BY <2>1, <2>2, SeqEqual
<1>5. t = <<>> \/ Last(t) # 0
  <2>1. CASE j = 0
    BY <1>3, <2>1
  <2>2. CASE j > 0
    <3>1. j \in 1..j
      BY <1>2, <2>2
    <3>2. t[j] # 0
      BY <1>1, <1>3, <2>2, <3>1
    <3> QED BY <1>3, <3>2 DEF Last
  <2> QED BY <1>2, <2>1, <2>2
<1>6. ToSet(t) \subseteq ToSet(s)
  <2>1. DOMAIN t = 1..j /\ DOMAIN s = 1..Len(s) /\ \A i \in 1..j: i \in 1..Len(s)
    BY <1>2, <1>3
  <2> QED BY <1>3, <2>1 DEF ToSet
<1> QED BY <1>3, <1>4, <1>5, <1>6 DEF t

\* However many strings of whatever length are written, each is read from its
\* own place, and what follows them is left (bufferedwriter.pyx:62-114,
\* bufferedreader.pyx:180-229).
LEMMA FixedStringsPlaces ==
  ASSUME NEW S, Nat \subseteq S, NEW items \in Seq(Seq(Nat)), NEW length \in Nat,
         NEW rest \in Seq(S)
  PROVE  LET bytes == FixedStringsBytes(items, length)
             raw   == FixedStringsAsBytes(Len(items), length, bytes \o rest)
         IN  /\ bytes \in Seq(S) /\ Len(bytes) = Len(items) * length
             /\ \A i \in 1..Len(items): raw[i] = Padded(items[i], length)
<1> DEFINE bytes == FixedStringsBytes(items, length)
           places == [i \in DOMAIN items |-> Padded(items[i], length)]
           data == bytes \o rest
           n == Len(items)
<1>0. n \in Nat /\ DOMAIN items = 1..n /\ \A i \in 1..n: items[i] \in Seq(Nat)
  OBVIOUS
<1>1. ASSUME NEW i \in 1..n
      PROVE  /\ Padded(items[i], length) \in Seq(Nat) /\ Padded(items[i], length) \in Seq(S)
             /\ Len(Padded(items[i], length)) = length
  <2>1. items[i] \in Seq(Nat)
    BY <1>0
  <2>2. Padded(items[i], length) \in Seq(Nat) /\ Len(Padded(items[i], length)) = length
    BY <2>1, PaddedFacts
  <2> HIDE DEF n
  <2>3. Seq(Nat) \subseteq Seq(S)
    OBVIOUS
  <2> QED BY <2>2, <2>3
<1>2. places \in Seq(Seq(S)) /\ Len(places) = n
  <2>1. places \in [1..n -> Seq(S)]
    BY <1>0, <1>1
  <2> HIDE DEF places
  <2> QED BY <1>0, <2>1, BufferIsSequence
<1>3. \A i \in 1..n: places[i] = Padded(items[i], length) /\ Len(places[i]) = length
  BY <1>0, <1>1
<1>4. bytes = FlattenSeq(places)
  BY DEF FixedStringsBytes
<1> HIDE DEF places, bytes, n
<1>5. /\ bytes \in Seq(S) /\ Len(bytes) = n * length
      /\ \A i \in 1..n, k \in 1..length: bytes[(i - 1) * length + k] = places[i][k]
  <2>1. \A i \in 1..Len(places): Len(places[i]) = length
    BY <1>2, <1>3
  <2>2. /\ FlattenSeq(places) \in Seq(S)
        /\ Len(FlattenSeq(places)) = Len(places) * length
        /\ \A i \in 1..Len(places), k \in 1..length:
              FlattenSeq(places)[(i - 1) * length + k] = places[i][k]
    BY <1>2, <2>1, FlattenEqual
  <2> QED BY <1>2, <1>4, <2>2
<1>6. ASSUME NEW i \in 1..n
      PROVE  SubSeq(data, (i - 1) * length + 1, i * length) = Padded(items[i], length)
  <2> DEFINE p == (i - 1) * length
  <2>1. p \in Nat /\ i * length = p + length /\ p + length <= Len(bytes)
    <3>1. \A a, b \in Nat: a * b \in Nat
      OBVIOUS
    <3>2. i - 1 \in Nat /\ n - i \in Nat
      BY <1>0
    <3>3. p \in Nat /\ (n - i) * length \in Nat
      BY <3>1, <3>2
    <3>4. i * length = p + length
      BY <1>0
    <3>5. n * length = (n - i) * length + i * length
      BY <1>0
    <3>6. n * length \in Int /\ i * length \in Int
      BY <1>0
    <3> HIDE DEF p
    <3> QED BY <1>5, <3>3, <3>4, <3>5, <3>6
  <2>2. \A k \in 1..length: bytes[p + k] = Padded(items[i], length)[k]
    BY <1>3, <1>5
  <2> HIDE DEF p
  <2>3. \A k \in 1..length: data[p + k] = Padded(items[i], length)[k]
    <3>1. \A j \in 1..Len(bytes): data[j] = bytes[j]
      BY <1>5
    <3>2. \A k \in 1..length: p + k \in 1..Len(bytes)
      BY <1>5, <2>1
    <3> QED BY <2>2, <3>1, <3>2
  <2> DEFINE place == Padded(items[i], length)
  <2>4. place \in Seq(Nat) /\ Len(place) = length /\ place \in Seq(S)
    BY <1>1
  <2> HIDE DEF place
  <2>5. /\ SubSeq(data, p + 1, p + length) \in Seq(Nat)
        /\ Len(SubSeq(data, p + 1, p + length)) = length
        /\ \A k \in 1..length: SubSeq(data, p + 1, p + length)[k] = data[p + k]
    <3>1. ASSUME NEW j \in (p + 1)..(p + length) PROVE data[j] \in Nat
      <4>1. PICK k \in 1..length: j = p + k
        <5>1. j - p \in 1..length /\ j = p + (j - p)
          BY <2>1
        <5> QED BY <5>1
      <4>2. data[j] = place[k]
        BY <2>3, <4>1 DEF place
      <4>3. place[k] \in Nat
        BY <2>4
      <4> QED BY <4>2, <4>3
    <3> HIDE DEF data
    <3>2. p \in Nat /\ length \in Nat /\ \A j \in (p + 1)..(p + length): data[j] \in Nat
      BY <2>1, <3>1
    <3> QED BY <3>2, SliceElements
  <2>6. SubSeq(data, p + 1, p + length) = place
    <3> HIDE DEF data
    <3>1. \A k \in 1..length: SubSeq(data, p + 1, p + length)[k] = place[k]
      BY <2>3, <2>5 DEF place
    <3> QED BY <2>4, <2>5, <3>1, SeqEqual
  <2> QED BY <2>1, <2>6 DEF p, place
<1>7. \A i \in 1..n: FixedStringsAsBytes(n, length, data)[i]
                        = SubSeq(data, (i - 1) * length + 1, i * length)
  BY DEF FixedStringsAsBytes
<1> QED BY <1>5, <1>6, <1>7 DEF bytes, n

-----------------------------------------------------------------------------
(* Compressed blocks *)

\* What the fields of a frame are taken from.
Fields == [t: {"method", "size", "usize", "lz", "lost"}, v: Seq(Nat)]
Tokens == Fields \cup [t: {"hash"}, v: Seq(Fields)] \cup {Following[1]}

\* A frame says how long it is, what made it, and what is in it
\* (compression/base.py:45-53, streams/compressed.py:50-62).
LEMMA FrameFacts ==
  ASSUME NEW data \in Seq(Nat)
  PROVE  LET f == Frame(data) IN
         /\ f \in Seq(Tokens) /\ Len(f) \in Nat /\ Len(f) >= 5
         /\ f[1] = CityHash(SubSeq(f, 2, Len(f)))
         /\ f[2] = Field("method", <<Method>>)
         /\ f[3] = Field("size", <<Len(f) - 1>>)
         /\ f[5] = Field("lz", data)
<1> DEFINE c == Compress(data)
           n == Len(data) \div 2
           tail == [i \in 1..n |-> Field("lz", <<i>>)]
           size == ExtraWidth + SizeWidth + SizeWidth + Len(c)
           head == <<Field("method", <<Method>>), Field("size", <<size>>),
                     Field("usize", <<Len(data)>>)>>
           value1 == head \o c
           f == Frame(data)
<1>1. n \in Nat
  <2>1. Len(data) \in Nat
    OBVIOUS
  <2> HIDE DEF n
  <2> QED BY <2>1 DEF n
<1>2. tail \in Seq(Fields) /\ Len(tail) = n
  <2>1. \A i \in 1..n: Field("lz", <<i>>) \in Fields
    BY <1>1 DEF Field, Fields
  <2>2. tail \in [1..n -> Fields]
    BY <2>1
  <2> HIDE DEF tail, n
  <2> QED BY <1>1, <2>2, BufferIsSequence
<1>3. /\ c = <<Field("lz", data)>> \o tail
      /\ c \in Seq(Fields) /\ Len(c) = n + 1 /\ c[1] = Field("lz", data)
  <2>1. c = <<Field("lz", data)>> \o tail
    BY DEF Compress
  <2>2. Field("lz", data) \in Fields
    BY DEF Field, Fields
  <2> HIDE DEF tail, n, c
  <2>3. <<Field("lz", data)>> \in Seq(Fields)
    BY <2>2
  <2> QED BY <1>1, <1>2, <2>1, <2>3
<1> HIDE DEF c, n, tail
<1>4. size = Len(c) + 3 /\ size \in Nat
  BY <1>1, <1>3 DEF ExtraWidth, SizeWidth
<1> HIDE DEF size
<1>5. head \in Seq(Fields) /\ Len(head) = 3
  BY <1>4, MethodAssumption DEF Field, Fields
<1>6. /\ value1 \in Seq(Fields) /\ Len(value1) = Len(c) + 3
      /\ value1[1] = Field("method", <<Method>>)
      /\ value1[2] = Field("size", <<size>>)
      /\ value1[4] = Field("lz", data)
  <2> DEFINE h == head
  <2>1. h[1] = Field("method", <<Method>>) /\ h[2] = Field("size", <<size>>)
    OBVIOUS
  <2>2. h \in Seq(Fields) /\ Len(h) = 3
    BY <1>5
  <2> HIDE DEF h
  <2>3. Len(c) \in Nat /\ Len(c) >= 1
    BY <1>1, <1>3
  <2>4. /\ h \o c \in Seq(Fields) /\ Len(h \o c) = 3 + Len(c)
        /\ (h \o c)[1] = h[1] /\ (h \o c)[2] = h[2] /\ (h \o c)[4] = c[1]
    <3>1. /\ h \o c \in Seq(Fields) /\ Len(h \o c) = Len(h) + Len(c)
          /\ \A i \in 1..(Len(h) + Len(c)):
                (h \o c)[i] = IF i <= Len(h) THEN h[i] ELSE c[i - Len(h)]
      BY <1>3, <2>2, ConcatProperties
    <3> DEFINE z == h \o c
    <3> HIDE DEF z
    <3>2. z[1] = h[1] /\ z[2] = h[2] /\ z[4] = c[1]
      BY <2>2, <2>3, <3>1 DEF z
    <3> QED BY <2>2, <3>1, <3>2 DEF z
  <2> QED BY <1>3, <2>1, <2>3, <2>4 DEF h
<1>7. f = <<CityHash(value1)>> \o value1
  BY DEF Frame, c, size
<1> HIDE DEF value1, f
<1>8. CityHash(value1) \in Tokens
  BY <1>6 DEF CityHash, Field, Tokens
<1>9. value1 \in Seq(Tokens)
  <2>1. \A i \in 1..Len(value1): value1[i] \in Tokens
    <3>1. \A e: e \in Fields => e \in Tokens
      BY DEF Fields, Tokens
    <3> QED BY <1>6, <3>1
  <2> QED BY <1>6, <2>1
<1>10. /\ f \in Seq(Tokens) /\ Len(f) = 1 + Len(value1) /\ f[1] = CityHash(value1)
       /\ \A i \in 1..Len(value1): f[i + 1] = value1[i]
  <2> DEFINE e == CityHash(value1)
  <2>1. <<e>> \in Seq(Tokens) /\ Len(<<e>>) = 1 /\ <<e>>[1] = e
    BY <1>8
  <2> HIDE DEF e
  <2> QED BY <1>7, <1>9, <2>1 DEF e
<1>11. Len(f) = Len(c) + 4 /\ Len(c) \in Nat /\ Len(c) >= 1 /\ Len(value1) = Len(c) + 3
  BY <1>1, <1>3, <1>6, <1>10
<1>12. SubSeq(f, 2, Len(f)) = value1
  <2>1. PICK l \in Nat: l = Len(value1) /\ Len(f) = 1 + l
    BY <1>10, <1>11
  <2>2. \A i \in (1 + 1)..(1 + l): f[i] \in Tokens
    BY <1>10, <2>1
  <2>3. /\ SubSeq(f, 1 + 1, 1 + l) \in Seq(Tokens) /\ Len(SubSeq(f, 1 + 1, 1 + l)) = l
        /\ \A i \in 1..l: SubSeq(f, 1 + 1, 1 + l)[i] = f[1 + i]
    BY <2>2, SliceElements
  <2>4. SubSeq(f, 2, Len(f)) = SubSeq(f, 1 + 1, 1 + l)
    BY <2>1
  <2>5. \A i \in 1..l: SubSeq(f, 1 + 1, 1 + l)[i] = value1[i]
    BY <1>10, <2>1, <2>3
  <2>6. SubSeq(f, 1 + 1, 1 + l) = value1
    BY <1>9, <2>1, <2>3, <2>5, SeqEqual
  <2> QED BY <2>4, <2>6
<1>13. f[2] = value1[1] /\ f[3] = value1[2] /\ f[5] = value1[4]
  <2>1. 1 \in 1..Len(value1) /\ 2 \in 1..Len(value1) /\ 4 \in 1..Len(value1)
    BY <1>11
  <2>2. f[1 + 1] = value1[1] /\ f[2 + 1] = value1[2] /\ f[4 + 1] = value1[4]
    BY <1>10, <2>1
  <2> QED BY <2>2
<1>14. size = Len(f) - 1
  BY <1>4, <1>11
<1>15. f[3] = Field("size", <<Len(f) - 1>>) /\ f[5] = Field("lz", data)
  BY <1>6, <1>13, <1>14
<1>16. f[1] = CityHash(SubSeq(f, 2, Len(f))) /\ f[2] = Field("method", <<Method>>)
  BY <1>6, <1>10, <1>12, <1>13
<1>17. f \in Seq(Tokens) /\ Len(f) \in Nat /\ Len(f) >= 5
  BY <1>10, <1>11
<1> QED BY <1>15, <1>16, <1>17 DEF f

\* The data of a block.
Blocks == Seq(Nat) \ {<<>>}

\* What is on the way while these blocks are not read.
AllFrames(left) == [i \in DOMAIN left |-> Frame(left[i])]
Sent(left)      == FlattenSeq(AllFrames(left)) \o Following

\* The first one of some blocks, and the others.
LEMMA FirstBlock ==
  ASSUME NEW left \in Seq(Blocks), left # <<>>
  PROVE  \E x \in Blocks, rest \in Seq(Blocks): left = <<x>> \o rest
<1>1. Head(left) \in Blocks /\ Tail(left) \in Seq(Blocks) /\ left = <<Head(left)>> \o Tail(left)
  OBVIOUS
<1> QED BY <1>1

\* Blocks are sequences of bytes, their frames sequences of tokens.
LEMMA SentType ==
  ASSUME NEW left \in Seq(Blocks)
  PROVE  /\ left \in Seq(Seq(Nat)) /\ FlattenSeq(left) \in Seq(Nat)
         /\ AllFrames(left) \in Seq(Seq(Tokens)) /\ FlattenSeq(AllFrames(left)) \in Seq(Tokens)
         /\ Following \in Seq(Tokens) /\ Len(Following) = 1
         /\ Sent(left) \in Seq(Tokens)
<1>1. left \in Seq(Seq(Nat))
  <2>1. \A b: b \in Blocks => b \in Seq(Nat)
    BY DEF Blocks
  <2> QED BY <2>1
<1>2. AllFrames(left) \in Seq(Seq(Tokens))
  <2>1. \A i \in 1..Len(left): Frame(left[i]) \in Seq(Tokens)
    <3>1. \A d \in Seq(Nat): Frame(d) \in Seq(Tokens)
      BY FrameFacts
    <3>2. \A i \in 1..Len(left): left[i] \in Seq(Nat)
      BY <1>1
    <3> QED BY <3>1, <3>2
  <2>2. Len(left) \in Nat /\ DOMAIN left = 1..Len(left)
    OBVIOUS
  <2>3. AllFrames(left) \in [1..Len(left) -> Seq(Tokens)]
    BY <2>1, <2>2 DEF AllFrames
  <2> QED BY <2>2, <2>3, BufferIsSequence
<1>3. Following \in Seq(Tokens) /\ Len(Following) = 1
  <2>1. Following[1] \in Tokens /\ Following = <<Following[1]>>
    BY DEF Tokens, Following
  <2> DEFINE e == Following[1]
  <2>2. <<e>> \in Seq(Tokens) /\ Len(<<e>>) = 1
    <3> HIDE DEF e
    <3>1. e \in Tokens
      BY <2>1 DEF e
    <3> QED BY <3>1
  <2> QED BY <2>1, <2>2
<1>4. FlattenSeq(left) \in Seq(Nat) /\ FlattenSeq(AllFrames(left)) \in Seq(Tokens)
  BY <1>1, <1>2, FlattenType
<1>5. Sent(left) \in Seq(Tokens)
  BY <1>3, <1>4, ConcatProperties DEF Sent
<1> QED BY <1>1, <1>2, <1>3, <1>4, <1>5

\* The first block's frame comes first.
LEMMA FirstFrame ==
  ASSUME NEW x \in Blocks, NEW rest \in Seq(Blocks)
  PROVE  /\ FlattenSeq(<<x>> \o rest) = x \o FlattenSeq(rest)
         /\ Sent(<<x>> \o rest) = Frame(x) \o Sent(rest)
<1> DEFINE left == <<x>> \o rest
           f    == Frame(x)
           more == AllFrames(rest)
<1>1. x \in Seq(Nat) /\ rest \in Seq(Seq(Nat))
  BY SentType DEF Blocks
<1>2. FlattenSeq(<<x>> \o rest) = x \o FlattenSeq(rest)
  BY <1>1, FlattenPrepend
<1>3. f \in Seq(Tokens) /\ more \in Seq(Seq(Tokens))
  BY <1>1, FrameFacts, SentType
<1>4. AllFrames(left) = <<f>> \o more
  <2>1. /\ Len(rest) \in Nat /\ DOMAIN left = 1..(Len(rest) + 1)
        /\ left[1] = x /\ \A i \in 1..Len(rest): left[i + 1] = rest[i]
    OBVIOUS
  <2>2. /\ Len(more) = Len(rest) /\ \A i \in 1..Len(rest): more[i] = Frame(rest[i])
    BY <1>3 DEF AllFrames
  <2> HIDE DEF left, more, f
  <2>3. /\ AllFrames(left) \in [1..(Len(rest) + 1) -> Seq(Tokens)]
        /\ AllFrames(left)[1] = f /\ \A i \in 1..Len(rest): AllFrames(left)[i + 1] = more[i]
    <3>1. 1 \in DOMAIN left /\ \A i \in 1..Len(rest): i + 1 \in DOMAIN left
      BY <2>1
    <3>2. AllFrames(left)[1] = f /\ \A i \in 1..Len(rest): AllFrames(left)[i + 1] = more[i]
      BY <2>1, <2>2, <3>1 DEF AllFrames, f
    <3>3. \A i \in 1..(Len(rest) + 1): Frame(left[i]) \in Seq(Tokens)
      <4> TAKE i \in 1..(Len(rest) + 1)
      <4>1. CASE i = 1
        BY <1>3, <2>1, <4>1 DEF f
      <4>2. CASE i # 1
        <5>1. PICK j \in 1..Len(rest): i = j + 1
          <6>1. i - 1 \in 1..Len(rest) /\ i = (i - 1) + 1
            BY <2>1, <4>2
          <6> QED BY <6>1
        <5>2. more[j] \in Seq(Tokens)
          BY <1>3, <2>2
        <5> QED BY <2>1, <2>2, <5>1, <5>2
      <4> QED BY <4>1, <4>2
    <3> QED BY <2>1, <3>2, <3>3 DEF AllFrames
  <2> DEFINE U == Seq(Tokens)
             one == <<f>>
  <2>4. one \in Seq(U) /\ Len(one) = 1 /\ one[1] = f
    BY <1>3
  <2> HIDE DEF U, one
  <2>5. /\ AllFrames(left) \in Seq(U) /\ Len(AllFrames(left)) = Len(rest) + 1
    <3>1. PICK l \in Nat: l = Len(rest) + 1
      BY <2>1
    <3>2. AllFrames(left) \in [1..l -> U]
      BY <2>3, <3>1 DEF U
    <3> QED BY <3>1, <3>2, BufferIsSequence
  <2>6. /\ one \o more \in Seq(U) /\ Len(one \o more) = Len(rest) + 1
        /\ (one \o more)[1] = f
        /\ \A i \in 1..Len(rest): (one \o more)[i + 1] = more[i]
    <3>1. more \in Seq(U)
      BY <1>3 DEF U
    <3>2. /\ one \o more \in Seq(U) /\ Len(one \o more) = Len(one) + Len(more)
          /\ \A i \in 1..(Len(one) + Len(more)):
               (one \o more)[i] = IF i <= Len(one) THEN one[i] ELSE more[i - Len(one)]
      BY <2>4, <3>1, ConcatProperties
    <3>3. \A i \in 1..Len(rest): i + 1 \in 1..(Len(one) + Len(more)) /\ ~(i + 1 <= Len(one))
                                 /\ (i + 1) - Len(one) = i
      BY <2>1, <2>2, <2>4
    <3> QED BY <2>1, <2>2, <2>4, <3>2, <3>3
  <2>7. ASSUME NEW i \in 1..(Len(rest) + 1) PROVE AllFrames(left)[i] = (one \o more)[i]
    <3>1. CASE i = 1
      BY <2>3, <2>6, <3>1
    <3>2. CASE i # 1
      <4>1. PICK j \in 1..Len(rest): i = j + 1
        <5>1. i - 1 \in 1..Len(rest) /\ i = (i - 1) + 1
          BY <2>1, <3>2
        <5> QED BY <5>1
      <4> QED BY <2>3, <2>6, <4>1
    <3> QED BY <3>1, <3>2
  <2>8. AllFrames(left) = one \o more
    BY <2>5, <2>6, <2>7, SeqEqual
  <2> QED BY <2>8 DEF one
<1>5. FlattenSeq(<<f>> \o more) = f \o FlattenSeq(more)
  BY <1>3, FlattenPrepend
<1>6. (f \o FlattenSeq(more)) \o Following = f \o (FlattenSeq(more) \o Following)
  <2>1. FlattenSeq(more) \in Seq(Tokens) /\ Following \in Seq(Tokens)
    BY SentType
  <2>2. \A a, b, c \in Seq(Tokens): (a \o b) \o c = a \o (b \o c)
    BY SMTT(30), ConcatAssociative
  <2> QED BY Zenon, <1>3, <2>1, <2>2
<1>7. Sent(left) = f \o Sent(rest)
  BY <1>4, <1>5, <1>6 DEF Sent
<1> QED BY <1>2, <1>7

\* One field of what was sent is another one, which is not a hash.
ChangedAt(left, i, field) ==
  /\ i \in 1..(Len(Sent(left)) - 1)
  /\ field # Sent(left)[i]
  /\ \E t \in {"method", "size", "lost"}, n \in 0..5: field = Field(t, <<n>>)
  /\ stream = [Sent(left) EXCEPT ![i] = field]

\* The frames that are on the way are those of the blocks that are not read yet, of
\* which one may have been changed.
FramesInv ==
  codec = "frames" =>
    \E left \in Seq(Blocks):
      /\ got \in Seq(Nat)
      /\ FlattenSeq(value) = got \o FlattenSeq(left)
      /\ state = "given" => got = <<>> /\ left = value
      /\ state = "written" => stream = Sent(left)
      /\ state = "corrupt" => \E i, field: ChangedAt(left, i, field)
      /\ state = "read" => left = <<>> /\ OnlyOtherDataLeft
      /\ state = "raised" => left # <<>>

\* What ReadFrame needs of the stream: a frame in front of the rest.
FrameInFront(x, rest) ==
  /\ x \in Blocks /\ rest \in Seq(Tokens)
  /\ Len(stream) = Len(Frame(x)) + Len(rest)
  /\ \A k \in 1..Len(Frame(x)): stream[k] = Frame(x)[k]
  /\ \A k \in 1..Len(rest): stream[Len(Frame(x)) + k] = rest[k]

\* A frame that nobody has changed is taken, and the rest left
\* (compression/base.py:65-87, streams/compressed.py:74-88).
LEMMA IntactIsRead ==
  ASSUME NEW x, NEW rest, FrameInFront(x, rest)
  PROVE  /\ Intact(stream) /\ Decompressed(stream) = x
         /\ FrameEnd(stream) = Len(Frame(x))
         /\ SubSeq(stream, FrameEnd(stream) + 1, Len(stream)) = rest
<1> DEFINE f == Frame(x)
<1>1. /\ f \in Seq(Tokens) /\ Len(f) \in Nat /\ Len(f) >= 5
      /\ f[1] = CityHash(SubSeq(f, 2, Len(f)))
      /\ f[2] = Field("method", <<Method>>)
      /\ f[3] = Field("size", <<Len(f) - 1>>)
      /\ f[5] = Field("lz", x)
  BY FrameFacts DEF FrameInFront, Blocks
<1>2. /\ Len(stream) = Len(f) + Len(rest) /\ rest \in Seq(Tokens)
      /\ \A k \in 1..Len(f): stream[k] = f[k]
      /\ \A k \in 1..Len(rest): stream[Len(f) + k] = rest[k]
  BY DEF FrameInFront
<1> HIDE DEF f
<1>3. PICK l \in Nat, m \in Nat: l = Len(f) /\ l >= 5 /\ m = Len(rest)
  BY <1>1, <1>2
<1>4. stream[1] = f[1] /\ stream[2] = f[2] /\ stream[3] = f[3] /\ stream[5] = f[5]
  <2>1. 1 \in 1..Len(f) /\ 2 \in 1..Len(f) /\ 3 \in 1..Len(f) /\ 5 \in 1..Len(f)
    BY <1>3
  <2> QED BY <1>2, <2>1
<1>5. stream[3].t = "size" /\ stream[3].v[1] = l - 1
  BY <1>1, <1>3, <1>4 DEF Field
<1>6. CompressedSize(stream) = l - 3 /\ FrameEnd(stream) = l
  <2>1. CompressedSize(stream) = l - 3
    BY <1>5 DEF CompressedSize, ExtraWidth, SizeWidth
  <2> QED BY <2>1 DEF FrameEnd
<1>7. SubSeq(stream, 2, l) = SubSeq(f, 2, l)
  <2>1. PICK k \in Nat: l = 1 + k
    <3>1. l - 1 \in Nat /\ l = 1 + (l - 1)
      BY <1>3
    <3> QED BY <3>1
  <2>2. \A j \in (1 + 1)..(1 + k): j \in 1..Len(f)
    BY <1>3, <2>1
  <2>3. \A j \in (1 + 1)..(1 + k): stream[j] = f[j] /\ f[j] \in Tokens /\ stream[j] \in Tokens
    BY <1>1, <1>2, <2>2
  <2>4. /\ SubSeq(f, 1 + 1, 1 + k) \in Seq(Tokens) /\ Len(SubSeq(f, 1 + 1, 1 + k)) = k
        /\ \A j \in 1..k: SubSeq(f, 1 + 1, 1 + k)[j] = f[1 + j]
    BY <2>3, SliceElements
  <2>5. /\ SubSeq(stream, 1 + 1, 1 + k) \in Seq(Tokens) /\ Len(SubSeq(stream, 1 + 1, 1 + k)) = k
        /\ \A j \in 1..k: SubSeq(stream, 1 + 1, 1 + k)[j] = stream[1 + j]
    BY <2>3, SliceElements
  <2>6. \A j \in 1..k: 1 + j \in (1 + 1)..(1 + k)
    OBVIOUS
  <2>7. SubSeq(stream, 1 + 1, 1 + k) = SubSeq(f, 1 + 1, 1 + k)
    <3>1. \A j \in 1..k: SubSeq(stream, 1 + 1, 1 + k)[j] = SubSeq(f, 1 + 1, 1 + k)[j]
      BY <2>3, <2>4, <2>5, <2>6
    <3> QED BY <2>4, <2>5, <3>1, SeqEqual
  <2> QED BY <2>1, <2>7
<1>8. Intact(stream)
  <2>1. CompressedSize(stream) > SizeWidth
    BY <1>3, <1>6 DEF SizeWidth
  <2>2. stream[1] = CityHash(SubSeq(stream, 2, FrameEnd(stream)))
    BY Zenon, <1>1, <1>3, <1>4, <1>6, <1>7
  <2>3. stream[2] = Field("method", <<Method>>)
    BY <1>1, <1>4
  <2> QED BY <1>5, <2>1, <2>2, <2>3 DEF Intact
<1>9. Decompressed(stream) = x
  <2>1. 3 + SizeWidth + 1 = 5
    BY DEF SizeWidth
  <2> QED BY <1>1, <1>4, <2>1 DEF Decompressed, Field
<1>10. SubSeq(stream, l + 1, l + m) = rest
  <2>1. \A j \in (l + 1)..(l + m): stream[j] \in Tokens
    <3> TAKE j \in (l + 1)..(l + m)
    <3>1. PICK k \in 1..m: j = l + k
      <4>1. j - l \in 1..m /\ j = l + (j - l)
        BY <1>3
      <4> QED BY <4>1
    <3> QED BY <1>2, <1>3, <3>1
  <2>2. /\ SubSeq(stream, l + 1, l + m) \in Seq(Tokens)
        /\ Len(SubSeq(stream, l + 1, l + m)) = m
        /\ \A k \in 1..m: SubSeq(stream, l + 1, l + m)[k] = stream[l + k]
    BY <2>1, SliceElements
  <2>3. \A k \in 1..m: SubSeq(stream, l + 1, l + m)[k] = rest[k]
    BY <1>2, <1>3, <2>2
  <2> QED BY <1>2, <1>3, <2>2, <2>3, SeqEqual
<1>11. Len(stream) = l + m
  BY <1>2, <1>3
<1> QED BY <1>3, <1>6, <1>8, <1>9, <1>10, <1>11 DEF f

\* A frame of which one field is another one does not have its hash, or has a hash
\* that is not its own.
LEMMA ChangedIsNotIntact ==
  ASSUME NEW x \in Blocks, NEW i \in 1..Len(Frame(x)), NEW field,
         \E t \in {"method", "size", "lost"}, n \in 0..5: field = Field(t, <<n>>),
         field # Frame(x)[i], stream[i] = field,
         \A k \in 1..Len(Frame(x)): k # i => stream[k] = Frame(x)[k]
  PROVE  ~Intact(stream)
<1> DEFINE f == Frame(x)
           e == FrameEnd(stream)
<1>1. /\ f \in Seq(Tokens) /\ Len(f) \in Nat /\ Len(f) >= 5
      /\ f[1] = CityHash(SubSeq(f, 2, Len(f)))
      /\ f[3] = Field("size", <<Len(f) - 1>>)
  BY FrameFacts DEF Blocks
<1>2. PICK t \in {"method", "size", "lost"}, n \in 0..5: field = Field(t, <<n>>)
  OBVIOUS
<1> SUFFICES ASSUME Intact(stream) PROVE FALSE
  OBVIOUS
<1>3. \A k \in 1..Len(f): k # i => stream[k] = f[k]
  OBVIOUS
<1>i. i \in 1..Len(f) /\ field # f[i] /\ stream[i] = field
  OBVIOUS
<1> HIDE DEF f
<1>4. i # 1
  <2> SUFFICES ASSUME i = 1 PROVE FALSE
    OBVIOUS
  <2>1. stream[1].t = "hash"
    BY DEF Intact, CityHash, Field
  <2>2. stream[1].t = t
    BY <1>2, <1>i DEF Field
  <2> QED BY <2>1, <2>2
<1>5. e \in Nat /\ e > 3
  <2>1. stream[3].v[1] \in Int
    <3>1. CASE i = 3
      BY <1>2, <1>i, <3>1 DEF Field
    <3>2. CASE i # 3
      <4>1. stream[3] = f[3]
        <5>1. 3 \in 1..Len(f)
          BY <1>1
        <5> QED BY <1>3, <3>2, <5>1
      <4> QED BY <1>1, <4>1 DEF Field
    <3> QED BY <3>1, <3>2
  <2>2. CompressedSize(stream) \in Int /\ CompressedSize(stream) > 1
    BY <2>1 DEF Intact, CompressedSize, SizeWidth, ExtraWidth
  <2> QED BY <2>2 DEF FrameEnd
<1> HIDE DEF e
<1>6. SubSeq(stream, 2, e) = SubSeq(f, 2, Len(f))
  <2>1. 1 \in 1..Len(f)
    BY <1>1
  <2>2. CityHash(SubSeq(stream, 2, e)) = CityHash(SubSeq(f, 2, Len(f)))
    BY <1>1, <1>3, <1>4, <2>1 DEF Intact, e
  <2> DEFINE a == SubSeq(stream, 2, e)
             b == SubSeq(f, 2, Len(f))
  <2> HIDE DEF a, b
  <2>3. CityHash(a) = CityHash(b)
    BY <2>2 DEF a, b
  <2>4. a = b
    <3>1. CityHash(a).v = a /\ CityHash(b).v = b
      BY DEF CityHash, Field
    <3> QED BY <2>3, <3>1
  <2> QED BY <2>4 DEF a, b
<1>7. PICK k \in Nat, l \in Nat, j \in Nat: e = 1 + k /\ Len(f) = 1 + l /\ i = 1 + j
  <2>1. e - 1 \in Nat /\ Len(f) - 1 \in Nat /\ i - 1 \in Nat
    BY <1>1, <1>4, <1>5, <1>i
  <2>2. e = 1 + (e - 1) /\ Len(f) = 1 + (Len(f) - 1) /\ i = 1 + (i - 1)
    BY <1>1, <1>5, <1>i
  <2> QED BY <2>1, <2>2
<1>8. SubSeq(stream, 1 + 1, 1 + k) = SubSeq(f, 1 + 1, 1 + l)
  BY <1>6, <1>7
<1>9. /\ Len(SubSeq(f, 1 + 1, 1 + l)) = l
      /\ \A y \in 1..l: SubSeq(f, 1 + 1, 1 + l)[y] = f[1 + y]
  <2>1. \A y \in (1 + 1)..(1 + l): f[y] \in Tokens
    BY <1>1, <1>7
  <2> QED BY <2>1, SliceElements
<1>10. /\ Len(SubSeq(stream, 1 + 1, 1 + k)) = k
       /\ \A y \in 1..k: SubSeq(stream, 1 + 1, 1 + k)[y] = stream[1 + y]
  <2> DEFINE V == {stream[y] : y \in (1 + 1)..(1 + k)}
  <2>1. \A y \in (1 + 1)..(1 + k): stream[y] \in V
    OBVIOUS
  <2> HIDE DEF V
  <2> QED BY <2>1, SliceElements
<1>11. k = l /\ j \in 1..l
  BY <1>i, <1>4, <1>7, <1>8, <1>9, <1>10
<1>12. stream[1 + j] = f[1 + j]
  BY <1>8, <1>9, <1>10, <1>11
<1> QED BY <1>i, <1>7, <1>12

\* While there is more than the other data on the way, there is a frame.
LEMMA SentLength ==
  ASSUME NEW left \in Seq(Blocks)
  PROVE  /\ Len(Sent(left)) \in Nat /\ Len(Sent(left)) >= 1
         /\ Len(Sent(left)) = 1 <=> left = <<>>
<1>1. /\ FlattenSeq(AllFrames(left)) \in Seq(Tokens) /\ Following \in Seq(Tokens)
      /\ Len(Following) = 1 /\ Sent(left) \in Seq(Tokens)
  BY SentType
<1>2. Len(Sent(left)) = Len(FlattenSeq(AllFrames(left))) + 1
  <2> DEFINE a == FlattenSeq(AllFrames(left))
  <2>1. a \in Seq(Tokens) /\ Sent(left) = a \o Following
    BY <1>1 DEF Sent
  <2> HIDE DEF a
  <2>2. Len(Sent(left)) = Len(a) + Len(Following)
    BY <1>1, <2>1, ConcatProperties
  <2> QED BY <1>1, <2>2 DEF a
<1>3. Len(FlattenSeq(AllFrames(left))) \in Nat /\ Len(Sent(left)) \in Nat
  BY <1>1
<1>4. CASE left = <<>>
  <2>1. AllFrames(<<>>) = <<>>
    BY DEF AllFrames
  <2>2. FlattenSeq(<<>>) = <<>> /\ Len(<<>>) = 0
    BY DEF FlattenSeq
  <2> QED BY <1>2, <1>3, <1>4, <2>1, <2>2
<1>5. CASE left # <<>>
  <2>1. PICK x \in Blocks, rest \in Seq(Blocks): left = <<x>> \o rest
    BY <1>5, FirstBlock
  <2>2. Sent(left) = Frame(x) \o Sent(rest)
    BY <2>1, FirstFrame
  <2>3. /\ Frame(x) \in Seq(Tokens) /\ Len(Frame(x)) \in Nat /\ Len(Frame(x)) >= 5
        /\ Sent(rest) \in Seq(Tokens)
    BY FrameFacts, SentType DEF Blocks
  <2>4. Len(Sent(left)) = Len(Frame(x)) + Len(Sent(rest)) /\ Len(Sent(rest)) \in Nat
    BY <2>2, <2>3, ConcatProperties
  <2> QED BY <1>3, <1>5, <2>3, <2>4
<1> QED BY <1>2, <1>3, <1>4, <1>5

\* The frame of the first block is in front of the others.
LEMMA FrameIsInFront ==
  ASSUME NEW x \in Blocks, NEW rest \in Seq(Blocks)
  PROVE  LET f == Frame(x)
             all == Sent(<<x>> \o rest)
         IN  /\ Len(f) \in Nat /\ Len(f) >= 5 /\ Len(Sent(rest)) \in Nat
             /\ Sent(rest) \in Seq(Tokens)
             /\ Len(all) = Len(f) + Len(Sent(rest))
             /\ \A k \in 1..Len(f): all[k] = f[k]
             /\ \A k \in 1..Len(Sent(rest)): all[Len(f) + k] = Sent(rest)[k]
<1> DEFINE f == Frame(x)
           s == Sent(rest)
           all == Sent(<<x>> \o rest)
<1>1. all = f \o s
  BY FirstFrame
<1>2. f \in Seq(Tokens) /\ Len(f) \in Nat /\ Len(f) >= 5 /\ s \in Seq(Tokens) /\ Len(s) \in Nat
  <2>1. f \in Seq(Tokens) /\ Len(f) \in Nat /\ Len(f) >= 5
    <3>1. x \in Seq(Nat)
      BY DEF Blocks
    <3> QED BY <3>1, FrameFacts
  <2>2. s \in Seq(Tokens) /\ Len(s) \in Nat
    BY SentType, SentLength
  <2> QED BY <2>1, <2>2
<1> HIDE DEF f, s, all
<1>3. /\ Len(all) = Len(f) + Len(s)
      /\ \A k \in 1..(Len(f) + Len(s)): all[k] = IF k <= Len(f) THEN f[k] ELSE s[k - Len(f)]
  BY <1>1, <1>2, ConcatProperties
<1>4. \A k \in 1..Len(f): all[k] = f[k]
  <2>1. \A k \in 1..Len(f): k \in 1..(Len(f) + Len(s)) /\ k <= Len(f)
    BY <1>2
  <2> QED BY <1>3, <2>1
<1>5. \A k \in 1..Len(s): all[Len(f) + k] = s[k]
  <2>1. \A k \in 1..Len(s): /\ Len(f) + k \in 1..(Len(f) + Len(s)) /\ ~(Len(f) + k <= Len(f))
                            /\ (Len(f) + k) - Len(f) = k
    BY <1>2
  <2> QED BY <1>3, <2>1
<1> QED BY <1>2, <1>3, <1>4, <1>5 DEF f, s, all

\* What is on the way before a block is read, untouched or changed in one field.
OnTheWay(left) == stream = Sent(left) \/ \E i, field: ChangedAt(left, i, field)

\* Corrupt: a field that is no hash is another one.
LEMMA CorruptKeeps ==
  ASSUME FramesInv,
         \E i \in DOMAIN stream, t \in {"method", "size", "lost"}, n \in 0..5:
           Corrupt(i, Field(t, <<n>>))
  PROVE  FramesInv'
<1>1. PICK i \in DOMAIN stream, t \in {"method", "size", "lost"}, n \in 0..5:
        Corrupt(i, Field(t, <<n>>))
  OBVIOUS
<1> DEFINE field == Field(t, <<n>>)
<1>2. /\ codec = "frames" /\ state = "written" /\ i < Len(stream) /\ stream[i] # field
      /\ stream' = [stream EXCEPT ![i] = field] /\ state' = "corrupt"
      /\ codec' = codec /\ value' = value /\ got' = got
  BY <1>1 DEF Corrupt
<1>3. PICK left \in Seq(Blocks):
        /\ got \in Seq(Nat) /\ FlattenSeq(value) = got \o FlattenSeq(left)
        /\ stream = Sent(left)
  BY <1>2 DEF FramesInv
<1>4. stream \in Seq(Tokens)
  BY <1>3, SentType
<1>5. i \in 1..(Len(stream) - 1)
  BY <1>2, <1>4
<1> HIDE DEF field
<1>6. \E u \in {"method", "size", "lost"}, m \in 0..5: field = Field(u, <<m>>)
  BY DEF field
<1>7. ChangedAt(left, i, field)'
  <2>1. /\ i \in 1..(Len(Sent(left)) - 1) /\ field # Sent(left)[i]
        /\ stream' = [Sent(left) EXCEPT ![i] = field]
    BY <1>2, <1>3, <1>5
  <2> QED BY <1>6, <2>1 DEF ChangedAt
<1> QED BY <1>2, <1>3, <1>7 DEF FramesInv

\* What is on the way behind a frame: the frames of the rest, changed or not.
Behind(rest, after) ==
  \/ state = "written" /\ after = Sent(rest)
  \/ /\ state = "corrupt" /\ after # <<>> /\ Len(after) # 1
     /\ \E i, field:
          /\ i \in 1..(Len(Sent(rest)) - 1)
          /\ field # Sent(rest)[i]
          /\ \E t \in {"method", "size", "lost"}, n \in 0..5: field = Field(t, <<n>>)
          /\ after = [Sent(rest) EXCEPT ![i] = field]

\* ReadFrame of what nobody has changed.
LEMMA ReadIntactKeeps ==
  ASSUME FramesInv, ReadFrame, NEW x \in Blocks, NEW rest \in Seq(Blocks),
         NEW after, FrameInFront(x, after),
         got \in Seq(Nat), FlattenSeq(value) = got \o FlattenSeq(<<x>> \o rest),
         Behind(rest, after)
  PROVE  FramesInv'
<1> DEFINE l == Len(Frame(x))
<1>1. /\ Intact(stream) /\ Decompressed(stream) = x /\ FrameEnd(stream) = l
      /\ SubSeq(stream, FrameEnd(stream) + 1, Len(stream)) = after
  BY IntactIsRead
<1>2. /\ l \in Nat /\ Len(after) \in Nat /\ Len(stream) = l + Len(after)
  <2>1. l \in Nat
    BY FrameFacts DEF FrameInFront, Blocks
  <2> QED BY <2>1 DEF FrameInFront
<1> HIDE DEF l
<1>3. /\ stream' = after /\ got' = got \o x
      /\ state' = IF Len(stream) = l + 1 THEN "read" ELSE state
      /\ codec' = codec /\ value' = value /\ codec = "frames"
  BY <1>1 DEF ReadFrame
<1>4. Len(stream) = l + 1 <=> Len(after) = 1
  <2>1. PICK m \in Nat: m = Len(after)
    BY <1>2
  <2>2. Len(stream) = l + m /\ l \in Nat
    BY <1>2, <2>1
  <2>3. l + m = l + 1 <=> m = 1
    BY <2>2
  <2> QED BY <2>1, <2>2, <2>3
<1>5. got' \in Seq(Nat) /\ FlattenSeq(value') = got' \o FlattenSeq(rest)
  <2>1. x \in Seq(Nat) /\ FlattenSeq(rest) \in Seq(Nat)
    BY SentType DEF Blocks
  <2>2. FlattenSeq(<<x>> \o rest) = x \o FlattenSeq(rest)
    BY FirstFrame
  <2>0. got \in Seq(Nat)
    OBVIOUS
  <2>4. (got \o x) \o FlattenSeq(rest) = got \o (x \o FlattenSeq(rest))
    <3> DEFINE B == Nat
               z == FlattenSeq(rest)
    <3>1. got \in Seq(B) /\ x \in Seq(B) /\ z \in Seq(B)
      BY <2>0, <2>1
    <3> HIDE DEF B, z
    <3>2. \A a, b, c \in Seq(B): (a \o b) \o c = a \o (b \o c)
      BY SMTT(30), ConcatAssociative
    <3>3. (got \o x) \o z = got \o (x \o z)
      BY Zenon, <3>1, <3>2
    <3> QED BY Zenon, <3>3 DEF z
  <2>5. got \o x \in Seq(Nat)
    BY <2>1, ConcatProperties
  <2> QED BY <1>3, <2>2, <2>4, <2>5
<1>6. CASE state = "written" /\ after = Sent(rest)
  <2>1. CASE Len(after) = 1
    <3>1. rest = <<>> /\ state' = "read"
      BY <1>3, <1>4, <1>6, <2>1, SentLength
    <3>2. OnlyOtherDataLeft'
      BY <1>3, <2>1 DEF OnlyOtherDataLeft, Following
    <3> QED BY <1>5, <3>1, <3>2 DEF FramesInv
  <2>2. CASE Len(after) # 1
    <3>1. state' = "written" /\ stream' = Sent(rest)
      BY <1>3, <1>4, <1>6, <2>2
    <3> QED BY <1>5, <3>1 DEF FramesInv
  <2> QED BY <2>1, <2>2
<1>7. CASE ~(state = "written" /\ after = Sent(rest))
  <2>1. state' = "corrupt"
    BY <1>3, <1>4, <1>7 DEF Behind
  <2>2. (\E i, field: ChangedAt(rest, i, field))'
    BY <1>3, <1>7 DEF ChangedAt, Behind
  <2> QED BY <1>5, <2>1, <2>2 DEF FramesInv
<1> QED BY <1>6, <1>7

\* ReadFrame raises where a frame is not intact.
LEMMA ReadChangedKeeps ==
  ASSUME FramesInv, ReadFrame, ~Intact(stream), NEW left \in Seq(Blocks), left # <<>>,
         got \in Seq(Nat), FlattenSeq(value) = got \o FlattenSeq(left)
  PROVE  FramesInv'
<1>1. state' = "raised" /\ got' = got /\ value' = value
  BY DEF ReadFrame
<1> QED BY <1>1 DEF FramesInv

\* ReadFrame: the next block comes out, or nothing more does
\* (compression/base.py:65-87, streams/compressed.py:74-88).
LEMMA ReadFrameKeeps ==
  ASSUME FramesInv, ReadFrame
  PROVE  FramesInv'
<1>1. codec = "frames" /\ state \in {"written", "corrupt"} /\ Len(stream) > 1
  BY DEF ReadFrame
<1>2. PICK left \in Seq(Blocks):
        /\ got \in Seq(Nat) /\ FlattenSeq(value) = got \o FlattenSeq(left)
        /\ state = "written" => stream = Sent(left)
        /\ state = "corrupt" => \E i, field: ChangedAt(left, i, field)
  BY <1>1 DEF FramesInv
<1>s. Sent(left) \in Seq(Tokens) /\ Len(Sent(left)) \in Nat
  BY SentType, SentLength
<1>3. left # <<>> /\ Len(stream) = Len(Sent(left))
  <2>1. Len(stream) = Len(Sent(left))
    <3>1. CASE state = "written"
      BY <1>2, <3>1
    <3>2. CASE state = "corrupt"
      <4>1. PICK i, field: ChangedAt(left, i, field)
        BY <1>2, <3>2
      <4> DEFINE s == Sent(left)
      <4>2. s \in Seq(Tokens) /\ stream = [s EXCEPT ![i] = field]
        BY <1>s, <4>1 DEF ChangedAt
      <4> HIDE DEF s
      <4>3. Len(stream) = Len(s)
        BY <4>2
      <4> QED BY <4>3 DEF s
    <3> QED BY <1>1, <3>1, <3>2
  <2>2. Len(Sent(left)) = 1 <=> left = <<>>
    BY SentLength
  <2>3. Len(stream) # 1
    <3>1. ~(1 > 1)
      OBVIOUS
    <3> QED BY Zenon, <1>1, <3>1
  <2> QED BY <2>1, <2>2, <2>3
<1>4. PICK x \in Blocks, rest \in Seq(Blocks): left = <<x>> \o rest
  BY <1>3, FirstBlock
<1> DEFINE f == Frame(x)
           s == Sent(left)
           r == Sent(rest)
<1>5. /\ Len(f) \in Nat /\ Len(f) >= 5 /\ r \in Seq(Tokens) /\ Len(r) \in Nat
      /\ Len(s) = Len(f) + Len(r)
      /\ \A k \in 1..Len(f): s[k] = f[k]
      /\ \A k \in 1..Len(r): s[Len(f) + k] = r[k]
  BY <1>4, FrameIsInFront
<1>6. s \in Seq(Tokens) /\ DOMAIN s = 1..Len(s)
  BY <1>s
<1> HIDE DEF f, s, r
<1>7. CASE state = "written"
  <2>1. stream = s
    BY <1>2, <1>7 DEF s
  <2>2. FrameInFront(x, r)
    BY <1>5, <2>1 DEF FrameInFront, f
  <2>3. FlattenSeq(value) = got \o FlattenSeq(<<x>> \o rest) /\ Behind(rest, r)
    BY <1>2, <1>4, <1>7 DEF r, Behind
  <2> QED BY <1>2, <1>7, <2>2, <2>3, ReadIntactKeeps
<1>8. CASE state = "corrupt"
  <2>1. PICK i, field: ChangedAt(left, i, field)
    BY <1>2, <1>8
  <2>2. /\ i \in 1..(Len(s) - 1) /\ field # s[i] /\ stream = [s EXCEPT ![i] = field]
        /\ \E t \in {"method", "size", "lost"}, n \in 0..5: field = Field(t, <<n>>)
    BY <2>1 DEF ChangedAt, s
  <2>3. stream[i] = field /\ \A k \in 1..Len(s): k # i => stream[k] = s[k]
    BY <1>5, <1>6, <2>2
  <2>4. CASE i <= Len(f)
    <3>1. i \in 1..Len(f)
      BY <1>5, <2>2, <2>4
    <3>2. field # f[i] /\ \A k \in 1..Len(f): k # i => stream[k] = f[k]
      <4>1. \A k \in 1..Len(f): k \in 1..Len(s)
        BY <1>5
      <4> QED BY <1>5, <2>2, <2>3, <3>1, <4>1
    <3>3. ~Intact(stream)
      BY ZenonT(40), <2>2, <2>3, <3>1, <3>2, ChangedIsNotIntact DEF f
    <3> QED BY <1>2, <1>3, <3>3, ReadChangedKeeps
  <2>5. CASE i > Len(f)
    <3>1. PICK j \in Nat: i = Len(f) + j /\ j \in 1..(Len(r) - 1)
      <4>1. i - Len(f) \in 1..(Len(r) - 1) /\ i = Len(f) + (i - Len(f))
        BY <1>5, <2>2, <2>5
      <4> QED BY <4>1
    <3> DEFINE after == [r EXCEPT ![j] = field]
    <3>2. /\ Len(stream) = Len(f) + Len(after) /\ Len(after) = Len(r) /\ DOMAIN after = 1..Len(r)
          /\ after \in Seq(Tokens)
      <4>1. Len(stream) = Len(s)
        BY <1>3 DEF s
      <4>2. field \in Tokens
        BY <2>2 DEF Tokens, Fields, Field
      <4>3. j \in 1..Len(r)
        BY <1>5, <3>1
      <4> QED BY <1>5, <4>1, <4>2, <4>3
    <3>3. \A k \in 1..Len(f): stream[k] = f[k]
      <4>1. \A k \in 1..Len(f): k \in 1..Len(s) /\ k # i
        BY <1>5, <3>1
      <4> QED BY <1>5, <2>3, <4>1
    <3>4. \A k \in 1..Len(r): stream[Len(f) + k] = after[k]
      <4> TAKE k \in 1..Len(r)
      <4>1. Len(f) + k \in 1..Len(s) /\ s[Len(f) + k] = r[k]
        BY <1>5
      <4>2. CASE k = j
        <5>1. after[k] = field
          BY <1>5, <4>2
        <5> QED BY <2>3, <3>1, <4>2, <5>1
      <4>3. CASE k # j
        <5>1. after[k] = r[k] /\ Len(f) + k # i
          BY <1>5, <3>1, <4>3
        <5> QED BY <2>3, <4>1, <5>1
      <4> QED BY <4>2, <4>3
    <3>5. field # r[j]
      <4>1. j \in 1..Len(r)
        BY <1>5, <3>1
      <4> QED BY <1>5, <2>2, <3>1, <4>1
    <3>a. after = [r EXCEPT ![j] = field]
      OBVIOUS
    <3> HIDE DEF after
    <3>6. FrameInFront(x, after)
      BY <3>2, <3>3, <3>4 DEF FrameInFront, f
    <3>7. after # <<>> /\ Len(after) # 1
      <4>1. Len(r) >= 2
        BY <1>5, <3>1
      <4>2. Len(<<>>) = 0
        OBVIOUS
      <4> QED BY SMTT(30), <1>5, <3>2, <4>1, <4>2
    <3>8. Behind(rest, after)
      BY <1>8, <2>2, <3>1, <3>5, <3>7, <3>a DEF r, Behind
    <3>9. FlattenSeq(value) = got \o FlattenSeq(<<x>> \o rest)
      BY <1>2, <1>4
    <3> QED BY <1>2, <1>8, <3>6, <3>7, <3>8, <3>9, ReadIntactKeeps
  <2> QED BY <1>5, <2>2, <2>4, <2>5
<1> QED BY <1>1, <1>7, <1>8

\* What came out is a prefix of the data, and all of it at the end.
LEMMA FramesInvShows == FramesInv => CorruptIsNeverRead
<1> SUFFICES ASSUME FramesInv, codec = "frames" PROVE CorruptIsNeverRead
  BY DEF CorruptIsNeverRead
<1>1. PICK left \in Seq(Blocks):
        /\ got \in Seq(Nat) /\ FlattenSeq(value) = got \o FlattenSeq(left)
        /\ state = "read" => left = <<>> /\ OnlyOtherDataLeft
        /\ state = "raised" => left # <<>>
  BY DEF FramesInv
<1> DEFINE data == FlattenSeq(value)
           more == FlattenSeq(left)
<1>2. more \in Seq(Nat) /\ data = got \o more
  BY <1>1, SentType
<1>3. more = <<>> <=> left = <<>>
  <2>1. FlattenSeq(<<>>) = <<>>
    BY DEF FlattenSeq
  <2>2. CASE left # <<>>
    <3>1. PICK x \in Blocks, rest \in Seq(Blocks): left = <<x>> \o rest
      BY <2>2, FirstBlock
    <3>2. /\ more = x \o FlattenSeq(rest) /\ FlattenSeq(rest) \in Seq(Nat)
          /\ x \in Seq(Nat) /\ x # <<>>
      BY <3>1, FirstFrame, SentType DEF Blocks
    <3> QED BY <2>2, <3>2, ConcatEqualIffEmpty
  <2> QED BY <2>1, <2>2
<1> HIDE DEF more
<1>4. Len(got) <= Len(data) /\ got = SubSeq(data, 1, Len(got))
  <2>1. PICK n \in Nat: n = Len(more) /\ n \in 0..Len(more)
    BY <1>2
  <2>2. SubSeq(more, 1, n) = more
    BY <1>2, <2>1, WholePrefix
  <2>3. Len(got) <= Len(data) /\ Len(got) \in Nat
    BY <1>1, <1>2
  <2>4. 0 \in 0..Len(more)
    BY <2>1
  <2>5. got \o SubSeq(more, 1, 0) = SubSeq(got \o more, 1, Len(got) + 0)
    BY <1>1, <1>2, <2>4, PrefixOfConcat
  <2>6. SubSeq(more, 1, 0) = <<>> /\ got \o <<>> = got /\ Len(got) + 0 = Len(got)
    BY <1>1, <2>3, SubSeqEmpty
  <2> QED BY <1>2, <2>3, <2>5, <2>6
<1>5. data = got <=> more = <<>>
  BY <1>1, <1>2, ConcatEqualIffEmpty
<1> QED BY <1>1, <1>3, <1>4, <1>5 DEF CorruptIsNeverRead

-----------------------------------------------------------------------------
(* The codecs on a stream *)

\* What is on the way, where the proofs follow it.
OnTheStream ==
  /\ codec = "varint"  => stream = MakeVarint[value] \o Following
  /\ codec = "groups"  => stream = value \o Following
  /\ codec = "int128"  => stream = Int128ToQuads(value) \o Following
  /\ codec = "uint128" => stream = UInt128ToQuads(value) \o Following
  /\ codec = "int256"  => stream = Int256ToQuads(value) \o Following
  /\ codec = "uint256" => stream = UInt256ToQuads(value) \o Following
  /\ codec = "fixed"   => stream = FixedStringsBytes(value.items, value.length) \o Following

\* The inductive invariant: what was written is what is going to be read.
ValueInv ==
  /\ codec \in DOMAIN Inputs /\ value \in Inputs[codec]
  /\ state = "given" => stream = <<>>
  /\ state = "written" => OnTheStream
  /\ VarintsAreRead
  /\ LargeIntsAreRead
  /\ FixedStringsAreRead
  /\ FramesInv

\* What was written and not yet read has nothing to be compared with.
LEMMA JustWritten ==
  ASSUME ValueInv, codec' = codec, value' = value, codec # "frames", state' = "written",
         OnTheStream'
  PROVE  ValueInv'
BY DEF ValueInv, VarintsAreRead, LargeIntsAreRead, FixedStringsAreRead, FramesInv

\* A codec reads what it wrote: the data behind it is left.
LEMMA RestIsLeft ==
  ASSUME NEW n \in Nat, Len(stream) = n + 1, NEW result, Taken(n, result)
  PROVE  OnlyOtherDataLeft'
<1>1. stream' = SubSeq(stream, n + 1, n + 1)
  BY DEF Taken
<1>2. stream' = <<stream[n + 1]>>
  BY <1>1, SingletonSlice
<1> QED BY <1>2 DEF OnlyOtherDataLeft, Following

\* What follows is one token.
LEMMA BeforeTheRest ==
  ASSUME NEW S, NEW g \in Seq(S)
  PROVE  /\ Len(g \o Following) = Len(g) + 1
         /\ SubSeq(g \o Following, 1, Len(g \o Following) - 1) = g
<1> DEFINE U == S \cup {Following[1]}
           both == g \o Following
           k == Len(g)
<1>1. g \in Seq(U) /\ Following \in Seq(U) /\ Len(Following) = 1 /\ k \in Nat
  <2>1. Following[1] \in U /\ S \subseteq U
    OBVIOUS
  <2> HIDE DEF U
  <2>2. <<Following[1]>> \in Seq(U) /\ Following = <<Following[1]>>
    BY <2>1 DEF Following
  <2>3. g \in Seq(U)
    BY <2>1
  <2>4. Len(<<Following[1]>>) = 1 /\ k \in Nat
    OBVIOUS
  <2> QED BY <2>2, <2>3, <2>4
<1> HIDE DEF U
<1>2. Len(both) = k + 1
  <2>1. Len(g \o Following) = Len(g) + Len(Following)
    BY <1>1, ConcatProperties
  <2> QED BY <1>1, <2>1
<1>3. SubSeq(both, 1, k) = SubSeq(g, 1, k)
  <2>1. k \in 0..Len(g)
    BY <1>1
  <2> QED BY <1>1, <2>1, LongerStream
<1>4. SubSeq(g, 1, k) = g
  BY <1>1, WholePrefix
<1> HIDE DEF both
<1>5. Len(both) - 1 = k
  BY <1>1, <1>2
<1> QED BY <1>2, <1>3, <1>4, <1>5 DEF both

\* Two quads on the stream are its first two tokens.
LEMMA TwoOnStream ==
  ASSUME NEW a, NEW b, stream = <<a, b>> \o Following
  PROVE  Len(stream) = 2 + 1 /\ stream[1] = a /\ stream[2] = b
BY DEF Following

\* Four are its first four.
LEMMA FourOnStream ==
  ASSUME NEW a, NEW b, NEW c, NEW d, stream = <<a, b, c, d>> \o Following
  PROVE  /\ Len(stream) = 4 + 1
         /\ stream[1] = a /\ stream[2] = b /\ stream[3] = c /\ stream[4] = d
BY DEF Following

\* ReadLargeInts: the number read is the one written, wrapped around
\* (largeint.pyx:28-42, 76-90, 108-121, 199-221).
LEMMA LargeIntsKeep ==
  ASSUME ValueInv, ReadLargeInts
  PROVE  ValueInv'
<1>0. /\ codec \in LargeInts /\ codec' = codec /\ value' = value /\ state' = "read"
      /\ value \in Int /\ state = "written"
  BY LargeIntsAssumption DEF ValueInv, ReadLargeInts, Taken, LargeInts
<1>1. CASE codec = "int128" \/ codec = "uint128"
  <2> DEFINE q == UInt128ToQuads(value)
  <2>1. stream = q \o Following
    BY <1>0, <1>1, SignedQuads DEF ValueInv, OnTheStream
  <2>2. PICK a, b: q = <<a, b>>
    BY DEF UInt128ToQuads
  <2>3. Len(stream) = 2 + 1 /\ stream[1] = q[1] /\ stream[2] = q[2]
    <3>1. stream = <<a, b>> \o Following /\ q[1] = a /\ q[2] = b
      BY <2>1, <2>2
    <3> QED BY <3>1, TwoOnStream
  <2>4. /\ Int128FromQuads(stream) = Int128FromQuads(q)
        /\ UInt128FromQuads(stream) = UInt128FromQuads(q)
    BY <2>3 DEF Int128FromQuads, UInt128FromQuads
  <2>5. OnlyOtherDataLeft'
    BY <1>1, <2>3, RestIsLeft DEF ReadLargeInts
  <2>6. /\ codec = "int128" => got' = Int128FromQuads(Int128ToQuads(value))
        /\ codec = "uint128" => got' = UInt128FromQuads(UInt128ToQuads(value))
    BY <1>0, <2>4, SignedQuads DEF ReadLargeInts, Taken
  <2>7. /\ codec = "int128" => Wrapped(got', value, -(TwoQuads \div 2), TwoQuads)
        /\ codec = "uint128" => Wrapped(got', value, 0, TwoQuads)
    BY <1>0, <2>6, LargeIntsWrapAround
  <2>8. LargeIntsAreRead'
    BY <1>0, <1>1, <2>5, <2>7 DEF LargeIntsAreRead, Wrapped, TwoQuads, FourQuads
  <2> QED BY <1>0, <1>1, <2>8 DEF ValueInv, FixedStringsAreRead, VarintsAreRead, FramesInv
<1>2. CASE codec = "int256" \/ codec = "uint256"
  <2> DEFINE q == UInt256ToQuads(value)
  <2>1. stream = q \o Following
    BY <1>0, <1>2, SignedQuads DEF ValueInv, OnTheStream
  <2>2. PICK a, b, c, d: q = <<a, b, c, d>>
    BY DEF UInt256ToQuads
  <2>3. /\ Len(stream) = 4 + 1
        /\ stream[1] = q[1] /\ stream[2] = q[2] /\ stream[3] = q[3] /\ stream[4] = q[4]
    <3>1. /\ stream = <<a, b, c, d>> \o Following
          /\ q[1] = a /\ q[2] = b /\ q[3] = c /\ q[4] = d
      BY <2>1, <2>2
    <3> QED BY <3>1, FourOnStream
  <2>4. /\ Int256FromQuads(stream) = Int256FromQuads(q)
        /\ UInt256FromQuads(stream) = UInt256FromQuads(q)
    BY <2>3 DEF Int256FromQuads, UInt256FromQuads
  <2>5. OnlyOtherDataLeft'
    BY <1>2, <2>3, RestIsLeft DEF ReadLargeInts
  <2>6. /\ codec = "int256" => got' = Int256FromQuads(Int256ToQuads(value))
        /\ codec = "uint256" => got' = UInt256FromQuads(UInt256ToQuads(value))
    BY <1>0, <2>4, SignedQuads DEF ReadLargeInts, Taken
  <2>7. /\ codec = "int256" => Wrapped(got', value, -(FourQuads \div 2), FourQuads)
        /\ codec = "uint256" => Wrapped(got', value, 0, FourQuads)
    BY <1>0, <2>6, LargeIntsWrapAround
  <2>8. LargeIntsAreRead'
    BY <1>0, <1>2, <2>5, <2>7 DEF LargeIntsAreRead, Wrapped, TwoQuads, FourQuads
  <2> QED BY <1>0, <1>2, <2>8 DEF ValueInv, FixedStringsAreRead, VarintsAreRead, FramesInv
<1> QED BY <1>0, <1>1, <1>2 DEF LargeInts

\* ReadFixedStrings: every string from its place (bufferedreader.pyx:180-229).
LEMMA FixedStringsKeep ==
  ASSUME ValueInv, ReadFixedStrings
  PROVE  ValueInv'
<1> DEFINE items  == value.items
           length == value.length
           n      == Len(items)
           bytes  == FixedStringsBytes(items, length)
           raw    == FixedStringsAsBytes(n, length, stream)
           S      == Nat \cup {Following[1]}
<1>0. /\ codec = "fixed" /\ state = "written" /\ Taken(n * length, FixedStrings(n, length, stream))
      /\ codec' = codec /\ value' = value /\ state' = "read"
  BY DEF ReadFixedStrings, Taken
<1>1. items \in Seq(Seq(Nat)) /\ length \in Nat
  BY <1>0, FixedStringsAssumption DEF ValueInv
<1>2. stream = bytes \o Following /\ Following \in Seq(S) /\ Len(Following) = 1
  BY <1>0 DEF ValueInv, OnTheStream, Following
<1> HIDE DEF S, items, length
<1>3. Nat \subseteq S
  BY DEF S
<1>4. /\ bytes \in Seq(S) /\ Len(bytes) = n * length
      /\ \A i \in 1..n: raw[i] = Padded(items[i], length)
  BY <1>1, <1>2, <1>3, FixedStringsPlaces
<1>5. n \in Nat /\ n * length \in Nat /\ \A i \in 1..n: items[i] \in Seq(Nat)
  BY <1>1
<1>6. Len(stream) = n * length + 1
  <2> HIDE DEF bytes
  <2>1. Len(bytes \o Following) = Len(bytes) + Len(Following)
    BY <1>2, <1>4, ConcatProperties
  <2> QED BY <1>2, <1>4, <2>1
<1>7. OnlyOtherDataLeft'
  <2> HIDE DEF n
  <2>1. PICK m \in Nat: m = n * length
    BY <1>5
  <2>2. Len(stream) = m + 1 /\ Taken(m, FixedStrings(n, length, stream))
    BY <1>0, <1>6, <2>1 DEF items, length, n
  <2> QED BY <2>2, RestIsLeft
<1>8. /\ Len(got') = n /\ DOMAIN got' = 1..n
      /\ \A i \in 1..n: got'[i] = IF ToSet(Stripped(raw[i])) \cap Undecodable = {}
                                   THEN Stripped(raw[i]) ELSE raw[i]
  <2>1. got' = [i \in 1..n |-> IF ToSet(Stripped(raw[i])) \cap Undecodable = {}
                                 THEN Stripped(raw[i]) ELSE raw[i]]
    BY <1>0 DEF Taken, FixedStrings, items, length
  <2> HIDE DEF raw, n
  <2> QED BY <1>5, <2>1
<1>9. ASSUME NEW i \in 1..n
      PROVE  /\ Padded(got'[i], length) = Padded(items[i], length)
             /\ IF ToSet(got'[i]) \cap Undecodable # {} THEN Len(got'[i]) = length
                ELSE got'[i] = <<>> \/ Last(got'[i]) # 0
  <2> DEFINE s == Padded(items[i], length)
  <2>1. s \in Seq(Nat) /\ Len(s) = length
    BY <1>1, <1>5, PaddedFacts
  <2>2. Padded(s, length) = s
    BY <1>1, <2>1, PaddedFacts
  <2>3. /\ Padded(Stripped(s), length) = s
        /\ Stripped(s) = <<>> \/ Last(Stripped(s)) # 0
        /\ ToSet(Stripped(s)) \subseteq ToSet(s)
    BY <2>1, StrippedComesBack
  <2>4. got'[i] = IF ToSet(Stripped(s)) \cap Undecodable = {} THEN Stripped(s) ELSE s
    BY <1>4, <1>8
  <2> HIDE DEF s
  <2>5. CASE ToSet(Stripped(s)) \cap Undecodable = {}
    BY <2>3, <2>4, <2>5 DEF s
  <2>6. CASE ToSet(Stripped(s)) \cap Undecodable # {}
    <3>1. got'[i] = s /\ ToSet(s) \cap Undecodable # {}
      BY <2>3, <2>4, <2>6
    <3> QED BY <2>1, <2>2, <3>1 DEF s
  <2> QED BY <2>5, <2>6
<1>10. FixedStringsAreRead'
  <2> HIDE DEF n
  <2>1. /\ OnlyOtherDataLeft' /\ Len(got') = n
        /\ \A i \in DOMAIN got':
             /\ Padded(got'[i], length) = Padded(items[i], length)
             /\ IF ToSet(got'[i]) \cap Undecodable # {} THEN Len(got'[i]) = length
                ELSE got'[i] = <<>> \/ Last(got'[i]) # 0
    BY <1>7, <1>8, <1>9
  <2> QED BY <1>0, <2>1 DEF FixedStringsAreRead, items, length, n
<1> QED BY <1>0, <1>10 DEF ValueInv, LargeIntsAreRead, VarintsAreRead, FramesInv

\* DoReadVarint: all groups are read, and the number is the one they denote
\* (varint.pyx:29-68).
LEMMA VarintsKeep ==
  ASSUME ValueInv, DoReadVarint
  PROVE  ValueInv'
<1>0. /\ codec \in {"varint", "groups"} /\ state = "written"
      /\ codec \in DOMAIN Inputs /\ value \in Inputs[codec]
  BY DEF ValueInv, DoReadVarint
<1>1. PICK g: /\ g = IF codec = "varint" THEN MakeVarint[value] ELSE value
              /\ stream = g \o Following
  BY <1>0 DEF ValueInv, OnTheStream
<1>w. WordSize \in Nat /\ Base \in Nat
  BY VarintBaseAssumption, WordSizeAssumption
<1>2. codec = "varint" => value \in 0..(WordSize - 1) /\ value \in Nat
  BY <1>0, <1>w, VarintsAssumption
<1>3. g \in Seq(Groups) /\ g # <<>> /\ IsLast(g, Len(g))
  <2>1. CASE codec = "varint"
    <3>1. g = MakeVarint[value] /\ value \in Nat
      BY <1>1, <1>2, <2>1
    <3> QED BY <3>1, VarintEnds
  <2>2. CASE codec = "groups"
    <3>1. /\ value \in Seq(0..(2 * Base - 1)) /\ value # <<>> /\ IsLast(value, Len(value))
      BY <1>0, <2>2, VarintsAssumption
    <3> QED BY <1>1, <2>2, <3>1 DEF Groups
  <2> QED BY <1>0, <2>1, <2>2
<1>4. Len(stream) = Len(g) + 1 /\ SubSeq(stream, 1, Len(stream) - 1) = g
  BY <1>1, <1>3, BeforeTheRest
<1>5. PICK n \in ReadVarint(g): Taken(EndOf(g), n)
  BY <1>4 DEF DoReadVarint
<1>6. /\ codec' = codec /\ value' = value /\ state' = "read" /\ got' = n
  BY <1>5 DEF Taken
<1>7. OnlyOtherDataLeft'
  <2>1. PICK k \in Nat: k = Len(g)
    BY <1>3
  <2>2. EndOf(g) = k
    BY <1>3, <2>1, ReadsAllGroups
  <2>3. Len(stream) = k + 1 /\ Taken(k, n)
    BY <1>4, <1>5, <2>1, <2>2
  <2> QED BY <2>3, RestIsLeft
<1>8. codec = "varint" => got' = value
  <2> SUFFICES ASSUME codec = "varint" PROVE got' = value
    OBVIOUS
  <2>1. g = MakeVarint[value] /\ ReadVarint(MakeVarint[value]) = {value}
    BY <1>1, <1>2, ReadsWhatWasMade
  <2> QED BY <1>5, <1>6, <2>1
<1>9. codec = "groups" /\ Len(value) <= Len(MakeVarint[WordSize - 1])
        => got' = Denoted(value) % WordSize
  <2> SUFFICES ASSUME codec = "groups", Len(value) <= Len(MakeVarint[WordSize - 1])
               PROVE  got' = Denoted(value) % WordSize
    OBVIOUS
  <2>1. g = value
    BY <1>1
  <2>2. ReadVarint(g) = {Denoted(g) % WordSize}
    BY <1>3, <2>1, ReadsShortGroups
  <2> QED BY <1>5, <1>6, <2>1, <2>2
<1>10. VarintsAreRead'
  BY <1>6, <1>7, <1>8, <1>9 DEF VarintsAreRead
<1> QED BY <1>0, <1>6, <1>10 DEF ValueInv, LargeIntsAreRead, FixedStringsAreRead, FramesInv,
                                LargeInts

\* WriteFrames: the frames of all blocks (streams/compressed.py:32-48).
LEMMA WriteFramesKeeps ==
  ASSUME FramesInv, WriteFrames
  PROVE  FramesInv'
<1>1. /\ codec = "frames" /\ state = "given" /\ state' = "written"
      /\ codec' = codec /\ value' = value /\ got' = got
      /\ stream' = Sent(value)
  BY DEF WriteFrames, Written, Sent, AllFrames
<1>2. /\ value \in Seq(Blocks) /\ got \in Seq(Nat)
      /\ FlattenSeq(value) = got \o FlattenSeq(value)
  BY <1>1 DEF FramesInv
<1> QED BY <1>1, <1>2 DEF FramesInv

\* A step of the compressed blocks.
LEMMA FramesKeep ==
  ASSUME ValueInv,
         \/ WriteFrames \/ ReadFrame
         \/ \E i \in DOMAIN stream, t \in {"method", "size", "lost"}, n \in 0..5:
              Corrupt(i, Field(t, <<n>>))
  PROVE  ValueInv'
<1>1. FramesInv'
  BY WriteFramesKeeps, ReadFrameKeeps, CorruptKeeps DEF ValueInv
<1>2. codec = "frames" /\ codec' = codec /\ value' = value /\ state' # "given"
  BY DEF WriteFrames, ReadFrame, Corrupt, Written
<1> QED BY <1>1, <1>2 DEF ValueInv, OnTheStream, VarintsAreRead, LargeIntsAreRead,
                          FixedStringsAreRead

\* Every step keeps the invariant.
LEMMA ValueStep == ValueInv /\ [ValueNext]_valueVars => ValueInv'
<1> SUFFICES ASSUME ValueInv, [ValueNext]_valueVars PROVE ValueInv'
  OBVIOUS
<1>1. CASE WriteVarint \/ ServerVarint
  <2>1. /\ codec' = codec /\ value' = value /\ state' = "written"
        /\ \/ codec = "varint" /\ stream' = MakeVarint[value] \o Following
           \/ codec = "groups" /\ stream' = value \o Following
    BY <1>1 DEF WriteVarint, ServerVarint, Written
  <2>2. OnTheStream'
    BY <2>1 DEF OnTheStream
  <2> QED BY <2>1, <2>2, JustWritten
<1>2. CASE DoReadVarint
  BY <1>2, VarintsKeep
<1>3. CASE WriteLargeInts
  <2>1. /\ codec' = codec /\ value' = value /\ state' = "written"
        /\ \/ codec = "int128"  /\ stream' = Int128ToQuads(value) \o Following
           \/ codec = "uint128" /\ stream' = UInt128ToQuads(value) \o Following
           \/ codec = "int256"  /\ stream' = Int256ToQuads(value) \o Following
           \/ codec = "uint256" /\ stream' = UInt256ToQuads(value) \o Following
    BY <1>3 DEF WriteLargeInts, Written
  <2>2. OnTheStream' /\ codec # "frames"
    BY <2>1 DEF OnTheStream
  <2> QED BY <2>1, <2>2, JustWritten
<1>4. CASE ReadLargeInts
  BY <1>4, LargeIntsKeep
<1>5. CASE WriteFixedStrings
  <2>1. CASE state' = "written"
    <3>1. /\ codec' = codec /\ value' = value /\ codec = "fixed"
          /\ stream' = FixedStringsBytes(value.items, value.length) \o Following
      BY <1>5, <2>1 DEF WriteFixedStrings, Written
    <3>2. OnTheStream'
      BY <3>1 DEF OnTheStream
    <3> QED BY <2>1, <3>1, <3>2, JustWritten
  <2>2. CASE state' # "written"
    <3>1. /\ codec = "fixed" /\ state = "given" /\ state' = "raised"
          /\ UNCHANGED <<codec, value, stream, got>>
      BY <1>5, <2>2 DEF WriteFixedStrings, Written
    <3> QED BY <3>1 DEF ValueInv, VarintsAreRead, LargeIntsAreRead, FixedStringsAreRead,
                        FramesInv
  <2> QED BY <2>1, <2>2
<1>6. CASE ReadFixedStrings
  BY <1>6, FixedStringsKeep
<1>7. CASE \/ WriteFrames \/ ReadFrame
           \/ \E i \in DOMAIN stream, t \in {"method", "size", "lost"}, n \in 0..5:
                Corrupt(i, Field(t, <<n>>))
  BY <1>7, FramesKeep
<1>8. CASE UNCHANGED valueVars
  <2>1. /\ codec' = codec /\ value' = value /\ stream' = stream /\ got' = got
        /\ state' = state
    BY <1>8 DEF valueVars
  <2>2. FramesInv'
    BY <2>1 DEF ValueInv, FramesInv, ChangedAt, OnlyOtherDataLeft
  <2> QED BY <2>1, <2>2 DEF ValueInv, OnTheStream, VarintsAreRead, LargeIntsAreRead,
                            FixedStringsAreRead, OnlyOtherDataLeft
<1> QED BY <1>1, <1>2, <1>3, <1>4, <1>5, <1>6, <1>7, <1>8 DEF ValueNext

\* Nothing is written or read yet.
LEMMA ValueStarts == ValueInit => ValueInv
<1> SUFFICES ASSUME ValueInit PROVE ValueInv
  OBVIOUS
<1>1. FramesInv
  <2> SUFFICES ASSUME codec = "frames" PROVE FramesInv
    BY DEF FramesInv
  <2>1. value \in Seq(Blocks)
    BY FramesAssumption DEF ValueInit, Blocks
  <2>2. FlattenSeq(value) = <<>> \o FlattenSeq(value) /\ <<>> \in Seq(Nat)
    <3>1. FlattenSeq(value) \in Seq(Nat)
      BY <2>1, SentType
    <3> QED BY <3>1, ConcatEmptySeq
  <2> QED BY <2>1, <2>2 DEF ValueInit, FramesInv
<1> QED BY <1>1 DEF ValueInit, ValueInv, VarintsAreRead, LargeIntsAreRead, FixedStringsAreRead

\* A number is read from its varint, and from every varint of a server that is no
\* longer than the longest number needs, whatever a group can hold and whatever
\* the size of a word (varint.pyx:5-68).
THEOREM VarintsComeBack == ValueSpec => []VarintsAreRead
<1>1. ValueInv => VarintsAreRead
  BY DEF ValueInv
<1> QED BY <1>1, ValueStarts, ValueStep, PTL DEF ValueSpec

\* Integers of 128 and 256 bits are read as they were written, or wrapped
\* around, for every integer and every width of a quad (largeint.pyx:11-244).
THEOREM LargeIntsComeBack == ValueSpec => []LargeIntsAreRead
<1>1. ValueInv => LargeIntsAreRead
  BY DEF ValueInv
<1> QED BY <1>1, ValueStarts, ValueStep, PTL DEF ValueSpec

\* Strings of a fixed length are read as they were written, without the zeros at
\* their ends, for every length, every number of strings and every set of bytes
\* that cannot be decoded (bufferedwriter.pyx:62-114, bufferedreader.pyx:180-229).
THEOREM FixedStringsComeBack == ValueSpec => []FixedStringsAreRead
<1>1. ValueInv => FixedStringsAreRead
  BY DEF ValueInv
<1> QED BY <1>1, ValueStarts, ValueStep, PTL DEF ValueSpec

\* A block that comes out of a compressed stream is the next one that was put in,
\* for every number of blocks, all their data and every field that is changed on
\* the way: the reader stops in front of it (compression/base.py:65-87,
\* streams/compressed.py:32-48, 74-88).
THEOREM OnlyBlocksThatWereSent == ValueSpec => []CorruptIsNeverRead
<1>1. ValueInv => CorruptIsNeverRead
  BY FramesInvShows DEF ValueInv
<1> QED BY <1>1, ValueStarts, ValueStep, PTL DEF ValueSpec
=============================================================================

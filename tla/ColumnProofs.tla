---------------------------- MODULE ColumnProofs ----------------------------
(***************************************************************************)
(* What a column writes is what it reads back, whatever stands behind it   *)
(* in the stream: for every type, if it is so for the types nested in it.  *)
(* That is the step from one depth of nesting to the next, for a           *)
(* QueryResult to show what an INSERT was given (proton_driver/columns/).  *)
(***************************************************************************)
EXTENDS ColumnTypes, SliceLemmas, FiniteSetTheorems

\* What is said of a type: t's tokens for these items, and what the reader makes of them.
ComesBack(t, items) ==
  LET tokens == WriteData(t, items) IN
  /\ IsList(tokens) /\ ~Failed(tokens)
  /\ items = <<>> => tokens = <<>>
  /\ \A rest: IsList(rest) =>
       ReadData(t, Len(items), tokens \o rest) = [items |-> items, rest |-> rest]

NestedComesBack(t, items) ==
  LET tokens == NestedWrite(t, items) IN
  /\ IsList(tokens) /\ ~Failed(tokens)
  /\ items = <<>> => tokens = <<>>
  /\ \A rest: IsList(rest) =>
       NestedRead(t, Len(items), tokens \o rest) = [items |-> items, rest |-> rest]

\* A column of t, without what the driver cannot write or read.
Regular(t, items) ==
  /\ IsType(t) /\ IsList(items) /\ \A i \in 1..Len(items): IsItem(t, items[i])
  /\ ~Irregular(t, items)

NestedRegular(t, items) ==
  /\ NestedType(t) /\ IsList(items) /\ \A i \in 1..Len(items): NestedItem(t, items[i])
  /\ ~NestedIrregular(t, items)

\* Nothing but versions, as many as there are LowCardinality columns in a type.
Versions(tokens) ==
  IsList(tokens) /\ \A i \in 1..Len(tokens): tokens[i] = Token("version", 1)

\* The arrays that are flattened away have no tokens for no values: WriteArray goes on
\* with an array of nothing.
Faithful ==
  /\ \A t, items: Regular(t, items) => ComesBack(t, items)
  /\ \A t: IsType(t) => Versions(StatePrefix(t))
  /\ \A t: t.k = "array" => ~Irregular(t, <<>>)

NestedFaithful ==
  /\ \A t, items: NestedRegular(t, items) => NestedComesBack(t, items)
  /\ \A t: NestedType(t) => Versions(NestedPrefix(t))
  /\ \A t: t.k = "array" => ~NestedIrregular(t, <<>>)

-----------------------------------------------------------------------------
(* Tokens *)

\* A list of tokens that a part of a column is written with.
LEMMA TokensMade ==
  ASSUME NEW part, NEW items, IsList(items)
  PROVE  /\ IsList(Tokens(part, items)) /\ Len(Tokens(part, items)) = Len(items)
         /\ Len(items) \in Nat
         /\ \A i \in 1..Len(items): Tokens(part, items)[i] = Token(part, items[i])
         /\ items = <<>> => Tokens(part, items) = <<>>
<1>1. Len(items) \in Nat /\ DOMAIN items = 1..Len(items)
  BY ListDomain
<1> DEFINE f == Tokens(part, items)
<1>2. f = [i \in 1..Len(items) |-> Token(part, items[i])]
  BY <1>1 DEF Tokens
<1>3. f = [i \in 1..Len(items) |-> f[i]] /\ \A i \in 1..Len(items): f[i] = Token(part, items[i])
  BY <1>2
<1> HIDE DEF f
<1>4. IsList(f) /\ Len(f) = Len(items)
  BY <1>1, <1>3, ListMade
<1>5. items = <<>> => f = <<>>
  BY <1>4, ListDomain
<1> QED BY <1>1, <1>3, <1>4, <1>5 DEF f

\* An exception is none of them.
LEMMA NotFailed ==
  ASSUME NEW s, IsList(s)
  PROVE  Failed(s) <=> \E i \in 1..Len(s): s[i] = Raised
<1>1. DOMAIN s = 1..Len(s)
  BY ListDomain
<1> QED BY <1>1 DEF Failed, ToSet

LEMMA TokensNotFailed ==
  ASSUME NEW part, part # "raised", NEW items, IsList(items)
  PROVE  ~Failed(Tokens(part, items))
<1>1. \A i \in 1..Len(items): Token(part, items[i]) # Raised
  BY DEF Token, Raised
<1> QED BY <1>1, TokensMade, NotFailed

LEMMA ConcatNotFailed ==
  ASSUME NEW s, NEW t, IsList(s), IsList(t), ~Failed(s), ~Failed(t)
  PROVE  IsList(s \o t) /\ ~Failed(s \o t)
<1>1. PICK u: u = s \o t
  OBVIOUS
<1>2. /\ IsList(u) /\ Len(s) \in Nat /\ Len(t) \in Nat /\ Len(u) = Len(s) + Len(t)
      /\ \A i \in 1..Len(s): u[i] = s[i]
      /\ \A i \in 1..Len(u): i > Len(s) => i - Len(s) \in 1..Len(t) /\ u[i] = t[i - Len(s)]
  BY <1>1, ListConcat
<1>3. /\ \A i \in 1..Len(s): s[i] # Raised
      /\ \A i \in 1..Len(t): t[i] # Raised
  BY NotFailed
<1>4. ASSUME NEW i \in 1..Len(u) PROVE u[i] # Raised
  <2>1. CASE i > Len(s)
    BY <1>2, <1>3, <2>1
  <2>2. CASE ~(i > Len(s))
    <3>1. i \in 1..Len(s)
      BY <1>2, <2>2
    <3> QED BY <1>2, <1>3, <3>1
  <2> QED BY <2>1, <2>2
<1> QED BY <1>1, <1>2, <1>4, NotFailed

LEMMA FlattenNotFailed ==
  ASSUME NEW ss, IsLists(ss), \A i \in 1..Len(ss): ~Failed(ss[i])
  PROVE  IsList(FlattenSeq(ss)) /\ ~Failed(FlattenSeq(ss))
<1>0. PICK f: f = FlattenSeq(ss)
  OBVIOUS
<1>1. IsList(f) /\ \A k \in 1..Len(f): \E i \in 1..Len(ss): \E j \in 1..Len(ss[i]): f[k] = ss[i][j]
  BY <1>0, ListFlatten
<1>2. \A i \in 1..Len(ss): \A j \in 1..Len(ss[i]): ss[i][j] # Raised
  BY NotFailed DEF IsLists
<1>3. \A k \in 1..Len(f): f[k] # Raised
  BY <1>1, <1>2
<1> QED BY <1>0, <1>1, <1>3, NotFailed

\* The reader takes the tokens of a part off the stream.
LEMMA TakeBack ==
  ASSUME NEW part, NEW items, IsList(items), NEW rest, IsList(rest)
  PROVE  Take(Len(items), part, Tokens(part, items) \o rest) = [items |-> items, rest |-> rest]
<1>1. PICK n \in Nat: n = Len(items)
  BY ListDomain
<1>2. PICK s: s = Tokens(part, items)
  OBVIOUS
<1>3. /\ IsList(s) /\ Len(s) = n
      /\ \A i \in 1..n: s[i] = Token(part, items[i])
  BY <1>1, <1>2, TokensMade
<1>4. PICK u: u = s \o rest
  OBVIOUS
<1>5. /\ IsList(u) /\ Len(u) = n + Len(rest) /\ Len(rest) \in Nat
      /\ \A i \in 1..n: u[i] = s[i]
  BY <1>3, <1>4, ListConcat
<1>6. \A i \in 1..n: u[i].part = part /\ u[i].v = items[i]
  BY <1>3, <1>5 DEF Token
<1>7. SubSeq(u, n + 1, Len(u)) = rest
  BY <1>3, <1>4, ListBehind
<1>8. [i \in 1..n |-> u[i].v] = items
  <2> DEFINE f == [i \in 1..n |-> u[i].v]
  <2>1. f = [i \in 1..n |-> f[i]] /\ \A i \in 1..n: f[i] = items[i]
    BY <1>6
  <2> HIDE DEF f
  <2>2. IsList(f) /\ Len(f) = n
    BY <2>1, ListMade
  <2>3. f = items
    BY <1>1, <2>1, <2>2, ListsEqual
  <2> QED BY <2>3 DEF f
<1>9. Len(u) >= n
  BY <1>5
<1>10. Take(n, part, u) = [items |-> items, rest |-> rest]
  BY <1>6, <1>7, <1>8, <1>9 DEF Take
<1> QED BY <1>1, <1>2, <1>4, <1>10

\* One token.
LEMMA TakeOne ==
  ASSUME NEW part, NEW x, NEW rest, IsList(rest)
  PROVE  /\ Take(1, part, <<Token(part, x)>> \o rest).items[1] = x
         /\ Take(1, part, <<Token(part, x)>> \o rest).rest = rest
<1>1. IsList(<<x>>) /\ Len(<<x>>) = 1 /\ <<x>>[1] = x
  BY SingleList
<1>2. PICK s: s = <<x>>
  OBVIOUS
<1>3. /\ IsList(Tokens(part, s)) /\ Len(Tokens(part, s)) = 1
      /\ Tokens(part, s)[1] = Token(part, x)
  BY <1>1, <1>2, TokensMade
<1>4. IsList(<<Token(part, x)>>) /\ Len(<<Token(part, x)>>) = 1 /\ <<Token(part, x)>>[1] = Token(part, x)
  BY SingleList
<1>5. Tokens(part, s) = <<Token(part, x)>>
  BY <1>3, <1>4, ListsEqual
<1>6. Take(Len(s), part, Tokens(part, s) \o rest) = [items |-> s, rest |-> rest]
  BY <1>1, <1>2, TakeBack
<1> QED BY <1>1, <1>2, <1>5, <1>6

-----------------------------------------------------------------------------
(* Values that are coded one by one, nulls among them *)

LEMMA NumbersComeBack ==
  ASSUME NEW t, t.k = "int", NEW items, IsList(items)
  PROVE  ComesBack(t, items)
<1>1. WriteData(t, items) = Tokens("value", items)
  BY DEF WriteData
<1>2. \A buf: ReadData(t, Len(items), buf) = Take(Len(items), "value", buf)
  BY DEF ReadData
<1>3. IsList(Tokens("value", items)) /\ (items = <<>> => Tokens("value", items) = <<>>)
  BY TokensMade
<1>4. ~Failed(Tokens("value", items))
  BY TokensNotFailed
<1>5. ASSUME NEW rest, IsList(rest)
      PROVE  Take(Len(items), "value", Tokens("value", items) \o rest) = [items |-> items, rest |-> rest]
  BY <1>5, TakeBack
<1> QED BY <1>1, <1>2, <1>3, <1>4, <1>5 DEF ComesBack

\* The reader finds the nulls in the mask, and takes no notice of their values.
LEMMA NullablesComeBack ==
  ASSUME NEW t, t.k = "nullable", NEW items, IsList(items)
  PROVE  ComesBack(t, items)
<1>1. PICK n \in Nat: n = Len(items)
  BY ListDomain
<1>2. DOMAIN items = 1..n
  BY <1>1, ListDomain
<1> DEFINE mask == [i \in 1..n |-> IF items[i] = Null THEN 1 ELSE 0]
           values == [i \in 1..n |-> IF items[i] = Null THEN NullValue ELSE items[i]]
           a == Tokens("byte", mask)
           b == Tokens("value", values)
<1>3. /\ mask = [i \in 1..n |-> mask[i]] /\ values = [i \in 1..n |-> values[i]]
      /\ \A i \in 1..n: mask[i] = (IF items[i] = Null THEN 1 ELSE 0)
      /\ \A i \in 1..n: items[i] # Null => values[i] = items[i]
  OBVIOUS
<1>4. WriteData(t, items) = a \o b
  BY <1>2 DEF WriteData, WriteNullable
<1> HIDE DEF mask, values
<1>5. IsList(mask) /\ Len(mask) = n /\ IsList(values) /\ Len(values) = n
  BY <1>3, ListMade
<1>6. IsList(a) /\ ~Failed(a) /\ IsList(b) /\ ~Failed(b)
  BY <1>5, TokensMade, TokensNotFailed
<1>7. items = <<>> => a \o b = <<>>
  <2> SUFFICES ASSUME items = <<>> PROVE a \o b = <<>>
    OBVIOUS
  <2>1. mask = <<>> /\ values = <<>>
    BY <1>1, <1>5, ListDomain, EmptyList
  <2>2. a = <<>> /\ b = <<>>
    BY <1>5, <2>1, TokensMade
  <2> QED BY <2>2, EmptyList, ListConcatEmpty
<1>8. ASSUME NEW rest, IsList(rest)
      PROVE  ReadNullable(n, (a \o b) \o rest) = [items |-> items, rest |-> rest]
  <2>1. IsList(b \o rest) /\ (a \o b) \o rest = a \o (b \o rest)
    BY <1>6, <1>8, ListConcat, ListConcatMore
  <2>2. PICK u, v: u = a \o (b \o rest) /\ v = b \o rest
    OBVIOUS
  <2>3. Take(n, "byte", u) = [items |-> mask, rest |-> v]
    BY <1>5, <2>1, <2>2, TakeBack
  <2>4. Take(n, "value", v) = [items |-> values, rest |-> rest]
    BY <1>5, <1>8, <2>2, TakeBack
  <2> HIDE DEF a, b
  <2> DEFINE read == ReadNullable(n, u).items
  <2>5. /\ ReadNullable(n, u) = [items |-> read, rest |-> rest]
        /\ read = [i \in 1..n |-> read[i]]
        /\ \A i \in 1..n: read[i] = IF mask[i] = 1 THEN Null ELSE values[i]
    BY <2>3, <2>4 DEF ReadNullable
  <2>6. \A i \in 1..n: read[i] = items[i]
    BY <1>3, <2>5
  <2> HIDE DEF read
  <2>7. IsList(read) /\ Len(read) = n
    BY <2>5, ListMade
  <2>8. read = items
    BY <1>1, <2>6, <2>7, ListsEqual
  <2> QED BY <2>1, <2>2, <2>5, <2>8
<1>9. IsList(a \o b) /\ ~Failed(a \o b)
  BY <1>6, ConcatNotFailed
<1>10. \A buf: ReadData(t, n, buf) = ReadNullable(n, buf)
  BY DEF ReadData
<1> HIDE DEF a, b
<1> QED BY <1>1, <1>4, <1>7, <1>8, <1>9, <1>10 DEF ComesBack

-----------------------------------------------------------------------------
(* Lists, put one behind the other, and where each of them ends *)

\* A reader that cuts the values at the offsets has the lists again.
LEMMA OffsetsCut ==
  ASSUME NEW lists, IsLists(lists)
  PROVE  /\ IsList(Offsets(lists)) /\ Len(Offsets(lists)) = Len(lists)
         /\ Len(lists) \in Nat
         /\ Len(lists) > 0 => Last(Offsets(lists)) = Len(FlattenSeq(lists))
         /\ Slices(Offsets(lists), FlattenSeq(lists)) = lists
<1>1. PICK n \in Nat: n = Len(lists) /\ DOMAIN lists = 1..n
  BY ListDomain DEF IsLists
<1> DEFINE ends == Offsets(lists)
           data == FlattenSeq(lists)
           F(k) == FlattenSeq(SubSeq(lists, 1, k))
<1>2. ends = [i \in 1..n |-> Len(F(i))]
  BY <1>1 DEF Offsets
<1>3. ends = [i \in 1..n |-> ends[i]] /\ \A i \in 1..n: ends[i] = Len(F(i))
  BY <1>2
<1> HIDE DEF ends
<1>4. IsList(ends) /\ Len(ends) = n /\ DOMAIN ends = 1..n
  BY <1>3, ListMade
<1>5. n > 0 => Last(ends) = Len(data)
  <2>1. SubSeq(lists, 1, n) = lists
    BY <1>1, ListsAreSeqs, WholePrefix
  <2>2. n > 0 => n \in 1..n
    OBVIOUS
  <2> QED BY <1>3, <1>4, <2>1, <2>2 DEF Last
<1> DEFINE x == Slices(ends, data)
<1>6. ASSUME NEW i \in 1..n
      PROVE  SubSeq(data, (IF i = 1 THEN 0 ELSE ends[i - 1]) + 1, ends[i]) = lists[i]
  <2>1. PICK k \in Nat: i = k + 1
    <3>1. i - 1 \in Nat /\ i = (i - 1) + 1
      OBVIOUS
    <3> QED BY <3>1
  <2>2. ends[i] = Len(F(k + 1))
    BY <1>3, <2>1
  <2>3. (IF i = 1 THEN 0 ELSE ends[i - 1]) = Len(F(k))
    <3>1. CASE i = 1
      <4>1. SubSeq(lists, 1, 0) = <<>>
        BY SubSeqEmpty
      <4>2. k = 0
        BY <2>1, <3>1
      <4> QED BY <3>1, <4>1, <4>2, FlattenEmpty, EmptyList
    <3>2. CASE i # 1
      <4>1. i - 1 = k /\ k \in 1..n
        BY <2>1, <3>2
      <4> QED BY <1>3, <3>2, <4>1
    <3> QED BY <3>1, <3>2
  <2>4. PICK a, b: a = Len(F(k)) /\ b = Len(F(k + 1))
    OBVIOUS
  <2>5. k + 1 <= Len(lists)
    BY <1>1, <2>1
  <2>6. SubSeq(data, a + 1, b) = lists[k + 1]
    BY <2>4, <2>5, FlattenSlice
  <2> HIDE DEF data, F
  <2> QED BY <2>1, <2>2, <2>3, <2>4, <2>6
<1>7. x = [i \in 1..n |-> SubSeq(data, (IF i = 1 THEN 0 ELSE ends[i - 1]) + 1, ends[i])]
  BY <1>4 DEF Slices
<1> HIDE DEF data
<1>8. x = [i \in 1..n |-> x[i]] /\ \A i \in 1..n: x[i] = lists[i]
  <2> HIDE DEF x
  <2> QED BY <1>6, <1>7
<1> HIDE DEF x
<1>9. x = lists
  <2>1. IsList(x) /\ Len(x) = n
    BY <1>8, ListMade
  <2>2. IsList(lists)
    BY DEF IsLists
  <2> QED BY <1>1, <1>8, <2>1, <2>2, ListsEqual
<1> QED BY <1>1, <1>4, <1>5, <1>9 DEF ends, data, x

\* The elements of the lists are a column of the nested type.
LEMMA NestedColumn ==
  ASSUME NestedFaithful, NEW u, NestedType(u), NEW lists, IsLists(lists),
         \A i \in 1..Len(lists): \A j \in 1..Len(lists[i]): NestedItem(u, lists[i][j]),
         ~NestedIrregular(u, FlattenSeq(lists))
  PROVE  IsList(FlattenSeq(lists)) /\ NestedComesBack(u, FlattenSeq(lists))
<1>1. PICK f: f = FlattenSeq(lists)
  OBVIOUS
<1>2. IsList(f) /\ \A k \in 1..Len(f): \E i \in 1..Len(lists): \E j \in 1..Len(lists[i]): f[k] = lists[i][j]
  BY <1>1, ListFlatten
<1>3. \A k \in 1..Len(f): NestedItem(u, f[k])
  BY <1>2
<1>4. NestedRegular(u, f)
  BY <1>1, <1>2, <1>3 DEF NestedRegular
<1> QED BY <1>1, <1>2, <1>4 DEF NestedFaithful

\* Arrays: lists that are all empty have no more tokens than their offsets, unless
\* there are arrays in them.
LEMMA ArraysComeBack ==
  ASSUME NestedFaithful, NEW t, t.k = "array", NEW items, Regular(t, items)
  PROVE  ComesBack(t, items)
<1>1. IsList(items) /\ Len(items) \in Nat /\ (items = <<>> <=> Len(items) = 0)
  BY ListDomain DEF Regular
<1>2. PICK n \in Nat: n = Len(items)
  BY <1>1
<1>3. /\ NestedType(t.of)
      /\ \A i \in 1..n: IsList(items[i]) /\ \A j \in DOMAIN items[i]: NestedItem(t.of, items[i][j])
      /\ FlattenSeq(items) # <<>> => ~NestedIrregular(t.of, FlattenSeq(items))
  BY <1>2 DEF Regular, IsType, IsItem, Irregular
<1>4. IsLists(items) /\ \A i \in 1..n: \A j \in 1..Len(items[i]): NestedItem(t.of, items[i][j])
  <2>1. \A i \in 1..n: DOMAIN items[i] = 1..Len(items[i])
    BY <1>3, ListDomain
  <2> QED BY <1>1, <1>2, <1>3, <2>1 DEF IsLists
<1>5. PICK values: values = FlattenSeq(items)
  OBVIOUS
<1>6. IsList(values) /\ Len(values) \in Nat /\ (values = <<>> <=> Len(values) = 0)
  BY <1>4, <1>5, ListFlatten, ListDomain
<1>7. PICK ends: ends = Offsets(items)
  OBVIOUS
<1>8. /\ IsList(ends) /\ Len(ends) = n /\ (n > 0 => Last(ends) = Len(values))
      /\ Slices(ends, values) = items
  BY <1>2, <1>4, <1>5, <1>7, OffsetsCut
<1>9. n = 0 => values = <<>>
  BY <1>1, <1>2, <1>5, FlattenEmpty
<1>10. PICK a: a = Tokens("quad", ends)
  OBVIOUS
<1>11. IsList(a) /\ ~Failed(a) /\ (n = 0 => a = <<>>)
  <2>1. n = 0 => ends = <<>>
    BY <1>8, ListDomain
  <2> QED BY <1>8, <1>10, <2>1, TokensMade, TokensNotFailed
<1>12. \A rest: IsList(rest) => Take(n, "quad", a \o rest) = [items |-> ends, rest |-> rest]
  BY <1>8, <1>10, TakeBack
<1>13. (IF n = 0 THEN 0 ELSE Last(ends)) = Len(values)
  BY <1>6, <1>8, <1>9
<1>14. \A buf: ReadData(t, n, buf) = ReadArray(t, n, buf)
  BY DEF ReadData
<1>15. WriteData(t, items) = a \o (IF values = <<>> /\ t.of.k # "array" THEN <<>> ELSE NestedWrite(t.of, values))
  BY <1>5, <1>7, <1>10 DEF WriteData, WriteArray
<1>16. CASE values = <<>> /\ t.of.k # "array"
  <2>1. WriteData(t, items) = a
    BY <1>11, <1>15, <1>16, ListConcatEmpty
  <2>2. ASSUME NEW rest, IsList(rest)
        PROVE  ReadArray(t, n, a \o rest) = [items |-> items, rest |-> rest]
    <3>1. PICK buf: buf = a \o rest
      OBVIOUS
    <3>2. Take(n, "quad", buf) = [items |-> ends, rest |-> rest]
      BY <1>12, <2>2, <3>1
    <3>3. Slices(ends, <<>>) = items /\ (IF n = 0 THEN 0 ELSE Last(ends)) = 0
      BY <1>6, <1>8, <1>13, <1>16
    <3> QED BY <1>16, <3>1, <3>2, <3>3 DEF ReadArray
  <2> QED BY <1>1, <1>2, <1>11, <1>14, <2>1, <2>2 DEF ComesBack
<1>17. CASE ~(values = <<>> /\ t.of.k # "array")
  <2>1. ~NestedIrregular(t.of, values)
    BY <1>3, <1>5, <1>17 DEF NestedFaithful
  <2>2. NestedComesBack(t.of, values)
    BY <1>2, <1>3, <1>4, <1>5, <2>1, NestedColumn
  <2>3. PICK b: b = NestedWrite(t.of, values)
    OBVIOUS
  <2>4. /\ IsList(b) /\ ~Failed(b) /\ (values = <<>> => b = <<>>)
        /\ \A rest: IsList(rest) =>
             NestedRead(t.of, Len(values), b \o rest) = [items |-> values, rest |-> rest]
    BY <2>2, <2>3 DEF NestedComesBack
  <2>5. WriteData(t, items) = a \o b
    BY <1>15, <1>17, <2>3
  <2>6. IsList(a \o b) /\ ~Failed(a \o b)
    BY <1>11, <2>4, ConcatNotFailed
  <2>7. n = 0 => a \o b = <<>>
    BY <1>9, <1>11, <2>4, EmptyList, ListConcatEmpty
  <2>8. ASSUME NEW rest, IsList(rest)
        PROVE  ReadArray(t, n, (a \o b) \o rest) = [items |-> items, rest |-> rest]
    <3>1. PICK buf, v: buf = a \o (b \o rest) /\ v = b \o rest
      OBVIOUS
    <3>2. (a \o b) \o rest = buf /\ IsList(v)
      BY <1>11, <2>4, <2>8, <3>1, ListConcat, ListConcatMore
    <3>3. Take(n, "quad", buf) = [items |-> ends, rest |-> v]
      BY <1>12, <3>1, <3>2
    <3>4. NestedRead(t.of, Len(values), v) = [items |-> values, rest |-> rest]
      BY <2>4, <2>8, <3>1
    <3>5. ~((IF n = 0 THEN 0 ELSE Last(ends)) = 0 /\ t.of.k # "array")
      BY <1>6, <1>13, <1>17
    <3> QED BY <1>8, <1>13, <3>2, <3>3, <3>4, <3>5 DEF ReadArray
  <2> QED BY <1>1, <1>2, <1>14, <2>5, <2>6, <2>7, <2>8 DEF ComesBack
<1> QED BY <1>16, <1>17

-----------------------------------------------------------------------------
(* Tuples: column by column *)

\* The recursion of ReadTuple.
TupleReads(f, t, n, buf) ==
  f = [c \in 0..Len(t.of) |-> IF c = 0 THEN [items |-> <<>>, rest |-> buf]
                                       ELSE NestedRead(t.of[c], n, f[c - 1].rest)]

LEMMA ReadTupleUnfolds ==
  ASSUME NEW t, NEW n, NEW buf, \E f: TupleReads(f, t, n, buf)
  PROVE  \E f: /\ TupleReads(f, t, n, buf)
               /\ ReadTuple(t, n, buf) =
                    [items |-> [i \in 1..n |-> [c \in 1..Len(t.of) |-> f[c].items[i]]],
                     rest  |-> f[Len(t.of)].rest]
<1> DEFINE f == CHOOSE g: TupleReads(g, t, n, buf)
<1>1. TupleReads(f, t, n, buf)
  OBVIOUS
<1>2. ReadTuple(t, n, buf) =
        [items |-> [i \in 1..n |-> [c \in 1..Len(t.of) |-> f[c].items[i]]],
         rest  |-> f[Len(t.of)].rest]
  BY DEF ReadTuple, TupleReads
<1> QED BY <1>1, <1>2

\* Each column takes its own tokens, and leaves those of the columns behind it.
Leaves(t, w, n, columns, left) ==
  \A c \in 1..w: NestedRead(t.of[c], n, left[c - 1]) = [items |-> columns[c], rest |-> left[c]]

\* zip( *columns).
RowsOf(n, w, columns) == [i \in 1..n |-> [c \in 1..w |-> columns[c][i]]]

LEMMA TupleReadsColumns ==
  ASSUME NEW t, Len(t.of) \in Nat, NEW n, NEW columns, NEW left,
         Leaves(t, Len(t.of), n, columns, left)
  PROVE  ReadTuple(t, n, left[0]) = [items |-> RowsOf(n, Len(t.of), columns), rest |-> left[Len(t.of)]]
<1>w. PICK w \in Nat: w = Len(t.of) /\ Leaves(t, w, n, columns, left)
  OBVIOUS
<1> DEFINE start == [items |-> <<>>, rest |-> left[0]]
           g == [c \in 0..w |-> IF c = 0 THEN start ELSE [items |-> columns[c], rest |-> left[c]]]
           h == [c \in 0..w |-> IF c = 0 THEN start ELSE NestedRead(t.of[c], n, g[c - 1].rest)]
<1>1. \A c \in 0..w: g[c].rest = left[c]
  OBVIOUS
<1>2. ASSUME NEW c \in 0..w PROVE g[c] = h[c]
  <2>1. CASE c = 0
    BY <2>1
  <2>2. CASE c # 0
    <3>1. c \in 1..w /\ c - 1 \in 0..w
      BY <2>2
    <3>2. g[c] = [items |-> columns[c], rest |-> left[c]]
      BY <2>2
    <3>3. h[c] = NestedRead(t.of[c], n, g[c - 1].rest)
      BY <2>2
    <3>4. g[c - 1].rest = left[c - 1]
      BY <1>1, <3>1
    <3> HIDE DEF g, h
    <3> QED BY <3>1, <3>2, <3>3, <3>4, <1>w DEF Leaves
  <2> QED BY <2>1, <2>2
<1>3. g = h
  <2>1. g = [c \in 0..w |-> g[c]]
    OBVIOUS
  <2> HIDE DEF g
  <2>2. h = [c \in 0..w |-> h[c]]
    OBVIOUS
  <2> HIDE DEF h
  <2> QED BY <1>2, <2>1, <2>2
<1>4. TupleReads(g, t, n, left[0])
  <2> HIDE DEF g
  <2> QED BY <1>w, <1>3 DEF TupleReads
<1>5. PICK f: /\ TupleReads(f, t, n, left[0])
              /\ ReadTuple(t, n, left[0]) =
                   [items |-> [i \in 1..n |-> [c \in 1..w |-> f[c].items[i]]], rest |-> f[w].rest]
  <2>1. PICK buf: buf = left[0]
    OBVIOUS
  <2>2. \E f: TupleReads(f, t, n, buf)
    BY <1>4, <2>1
  <2> HIDE DEF g
  <2>3. PICK f: /\ TupleReads(f, t, n, buf)
                /\ ReadTuple(t, n, buf) =
                     [items |-> [i \in 1..n |-> [c \in 1..Len(t.of) |-> f[c].items[i]]],
                      rest  |-> f[Len(t.of)].rest]
    BY <2>2, ReadTupleUnfolds
  <2> QED BY <1>w, <2>1, <2>3
<1>6. /\ f[0].rest = left[0]
      /\ \A c \in 1..w: f[c] = NestedRead(t.of[c], n, f[c - 1].rest)
  BY <1>w, <1>5 DEF TupleReads
<1> DEFINE T == {c \in Nat: c <= w => f[c].rest = left[c]}
<1>7. 0 \in T
  BY <1>6
<1>8. ASSUME NEW c \in Nat, c \in T PROVE c + 1 \in T
  <2>1. SUFFICES ASSUME c + 1 <= w PROVE f[c + 1].rest = left[c + 1]
    OBVIOUS
  <2>2. PICK d: d = c + 1
    OBVIOUS
  <2>3. d \in 1..w /\ d - 1 = c /\ f[c].rest = left[c]
    BY <1>8, <2>1, <2>2
  <2>4. f[d] = NestedRead(t.of[d], n, left[c])
    BY <1>6, <2>3
  <2>5. NestedRead(t.of[d], n, left[c]) = [items |-> columns[d], rest |-> left[d]]
    BY <1>w, <2>3 DEF Leaves
  <2> QED BY <2>2, <2>4, <2>5
<1> HIDE DEF T
<1>9. Nat \subseteq T
  BY <1>7, <1>8, InductionBySet
<1>10. \A c \in 0..w: f[c].rest = left[c]
  BY <1>9 DEF T
<1>11. ASSUME NEW c \in 1..w PROVE f[c].items = columns[c]
  <2>1. c - 1 \in 0..w
    OBVIOUS
  <2>2. f[c] = NestedRead(t.of[c], n, left[c - 1])
    BY <1>6, <1>10, <2>1
  <2>3. NestedRead(t.of[c], n, left[c - 1]) = [items |-> columns[c], rest |-> left[c]]
    BY <1>w DEF Leaves
  <2> QED BY <2>2, <2>3
<1>12. [i \in 1..n |-> [c \in 1..w |-> f[c].items[i]]] = [i \in 1..n |-> [c \in 1..w |-> columns[c][i]]]
  BY <1>11
<1>13. w \in 0..w
  OBVIOUS
<1> QED BY <1>w, <1>5, <1>10, <1>12, <1>13 DEF RowsOf

LEMMA TuplesComeBack ==
  ASSUME NestedFaithful, NEW t, t.k = "tuple", NEW items, Regular(t, items)
  PROVE  ComesBack(t, items)
<1>1. IsList(items) /\ items # <<>>
  BY DEF Regular, Irregular
<1>2. PICK n \in Nat: n = Len(items) /\ DOMAIN items = 1..n
  BY <1>1, ListDomain
<1>3. /\ IsList(t.of)
      /\ \A c \in DOMAIN t.of: NestedType(t.of[c])
      /\ \A i \in 1..n: /\ IsList(items[i]) /\ Len(items[i]) = Len(t.of)
                        /\ \A c \in DOMAIN items[i]: NestedItem(t.of[c], items[i][c])
      /\ \A c \in DOMAIN t.of: ~NestedIrregular(t.of[c], [r \in DOMAIN items |-> items[r][c]])
  BY <1>2 DEF Regular, IsType, IsItem, Irregular
<1>4. PICK w \in Nat: w = Len(t.of) /\ DOMAIN t.of = 1..w
  BY <1>3, ListDomain
<1> DEFINE columns == [c \in 1..w |-> [r \in 1..n |-> items[r][c]]]
           parts == [c \in 1..w |-> NestedWrite(t.of[c], columns[c])]
<1>5. ASSUME NEW c \in 1..w
      PROVE  Len(columns[c]) = n /\ NestedComesBack(t.of[c], columns[c])
  <2> DEFINE x == [r \in 1..n |-> items[r][c]]
  <2>1. x = [r \in 1..n |-> x[r]] /\ \A r \in 1..n: x[r] = items[r][c]
    OBVIOUS
  <2>2. \A r \in 1..n: NestedItem(t.of[c], items[r][c])
    <3>1. \A r \in 1..n: DOMAIN items[r] = 1..w
      BY <1>3, <1>4, ListDomain
    <3> QED BY <1>3, <3>1
  <2>3. ~NestedIrregular(t.of[c], x) /\ NestedType(t.of[c])
    BY <1>2, <1>3, <1>4
  <2>4. columns[c] = x
    OBVIOUS
  <2> HIDE DEF x, columns
  <2>5. IsList(x) /\ Len(x) = n
    BY <2>1, ListMade
  <2>6. NestedRegular(t.of[c], x)
    BY <2>1, <2>2, <2>3, <2>5 DEF NestedRegular
  <2> QED BY <2>4, <2>5, <2>6 DEF NestedFaithful
<1>6. WriteData(t, items) = FlattenSeq(parts)
  BY <1>1, <1>2, <1>4 DEF WriteData, WriteTuple
<1>7. parts = [c \in 1..w |-> parts[c]] /\ \A c \in 1..w: parts[c] = NestedWrite(t.of[c], columns[c])
  OBVIOUS
<1>c. \A i \in 1..n, c \in 1..w: columns[c][i] = items[i][c]
  OBVIOUS
<1> HIDE DEF columns, parts
<1>8. \A c \in 1..w: /\ IsList(parts[c]) /\ ~Failed(parts[c])
                     /\ \A rest: IsList(rest) =>
                          NestedRead(t.of[c], n, parts[c] \o rest) = [items |-> columns[c], rest |-> rest]
  BY <1>5, <1>7 DEF NestedComesBack
<1>9. IsList(parts) /\ Len(parts) = w
  BY <1>7, ListMade
<1>10. IsLists(parts)
  BY <1>8, <1>9 DEF IsLists
<1>11. IsList(FlattenSeq(parts)) /\ ~Failed(FlattenSeq(parts))
  BY <1>8, <1>9, <1>10, FlattenNotFailed
<1>12. ASSUME NEW rest, IsList(rest)
       PROVE  ReadTuple(t, n, FlattenSeq(parts) \o rest) = [items |-> items, rest |-> rest]
  <2> DEFINE left == [c \in 0..w |-> FlattenSeq(SubSeq(parts, c + 1, w)) \o rest]
             F(c) == FlattenSeq(SubSeq(parts, c + 1, w))
  <2>1. \A c \in 0..w: IsList(F(c))
    <3> TAKE c \in 0..w
    <3>1. IsLists(SubSeq(parts, c + 1, w))
      <4>1. c \in Nat /\ c <= Len(parts)
        BY <1>9
      <4>2. IsLists(SubSeq(parts, c + 1, Len(parts)))
        BY <1>10, <4>1, ListsSuffix
      <4> QED BY <1>9, <4>2
    <3> QED BY <3>1, ListFlatten
  <2>2. \A c \in 0..w: left[c] = F(c) \o rest
    OBVIOUS
  <2>3. ASSUME NEW c \in 1..w PROVE F(c - 1) = parts[c] \o F(c)
    <3>1. PICK k \in Nat: k = c - 1 /\ k + 1 = c /\ k + 1 <= w /\ k + 2 = c + 1
      <4>1. c - 1 \in Nat
        OBVIOUS
      <4> QED BY <4>1
    <3>2. FlattenSeq(SubSeq(parts, k + 1, Len(parts)))
            = parts[k + 1] \o FlattenSeq(SubSeq(parts, k + 2, Len(parts)))
      BY <1>9, <1>10, <3>1, FlattenBefore
    <3> QED BY <1>9, <3>1, <3>2
  <2>4. F(0) = FlattenSeq(parts)
    <3>1. SubSeq(parts, 1, w) = parts
      BY <1>9, <1>10, ListsAreSeqs, WholePrefix
    <3>2. 0 + 1 = 1
      OBVIOUS
    <3> HIDE DEF left
    <3> QED BY Zenon, <3>1, <3>2
  <2>5. F(w) = <<>>
    <3>1. SubSeq(parts, w + 1, w) = <<>>
      BY SubSeqEmpty
    <3> QED BY <3>1, FlattenEmpty
  <2> HIDE DEF left, F
  <2>6. ASSUME NEW c \in 1..w
        PROVE  NestedRead(t.of[c], n, left[c - 1]) = [items |-> columns[c], rest |-> left[c]]
    <3>1. c \in 0..w /\ c - 1 \in 0..w
      OBVIOUS
    <3>2. left[c - 1] = (parts[c] \o F(c)) \o rest /\ left[c] = F(c) \o rest
      BY <2>2, <2>3, <3>1
    <3>3. IsList(F(c)) /\ IsList(left[c]) /\ IsList(parts[c])
      BY <1>8, <1>12, <2>1, <3>1, <3>2, ListConcat
    <3>4. left[c - 1] = parts[c] \o left[c]
      <4>1. PICK x, y: x = parts[c] /\ y = F(c)
        OBVIOUS
      <4>2. (x \o y) \o rest = x \o (y \o rest)
        <5>1. IsList(x) /\ IsList(y) /\ IsList(rest)
          BY <1>12, <3>3, <4>1
        <5> QED BY <5>1, ListConcatMore
      <4> QED BY <3>2, <4>1, <4>2
    <3> QED BY <1>8, <3>3, <3>4
  <2>7. left[0] = FlattenSeq(parts) \o rest /\ left[w] = rest
    <3>1. 0 \in 0..w /\ w \in 0..w
      OBVIOUS
    <3>2. <<>> \o rest = rest
      BY <1>12, ListConcatEmpty
    <3> QED BY <2>2, <2>4, <2>5, <3>1, <3>2
  <2> DEFINE read == RowsOf(n, w, columns)
  <2>8. ReadTuple(t, n, left[0]) = [items |-> read, rest |-> left[w]]
    <3>1. Leaves(t, Len(t.of), n, columns, left) /\ Len(t.of) \in Nat
      BY <1>4, <2>6 DEF Leaves
    <3>2. ReadTuple(t, n, left[0])
            = [items |-> RowsOf(n, Len(t.of), columns), rest |-> left[Len(t.of)]]
      BY <3>1, TupleReadsColumns
    <3> QED BY <1>4, <3>2
  <2>9. read = items
    <3>1. ASSUME NEW i \in 1..n PROVE read[i] = items[i]
      <4> DEFINE x == [c \in 1..w |-> columns[c][i]]
      <4>1. x = [c \in 1..w |-> x[c]] /\ \A c \in 1..w: x[c] = items[i][c]
        BY <1>c
      <4>2. read[i] = x
        BY DEF RowsOf
      <4> HIDE DEF x, read
      <4>3. IsList(x) /\ Len(x) = w
        BY <4>1, ListMade
      <4>4. IsList(items[i]) /\ Len(items[i]) = w
        BY <1>3, <1>4
      <4>5. x = items[i]
        BY <4>1, <4>3, <4>4, ListsEqual
      <4> QED BY <4>2, <4>5
    <3>2. read = [i \in 1..n |-> read[i]]
      BY DEF RowsOf
    <3> HIDE DEF read
    <3>3. IsList(read) /\ Len(read) = n
      BY <3>2, ListMade
    <3> QED BY <1>1, <1>2, <3>1, <3>3, ListsEqual
  <2> HIDE DEF read
  <2> QED BY <2>7, <2>8, <2>9
<1>13. \A buf: ReadData(t, n, buf) = ReadTuple(t, n, buf)
  BY DEF ReadData
<1> QED BY <1>1, <1>2, <1>6, <1>11, <1>12, <1>13 DEF ComesBack

-----------------------------------------------------------------------------
(* Maps: keys and values have the same offsets *)

\* The elements of a finite set, in some order.
LEMMA SetListed ==
  ASSUME NEW S, IsFiniteSet(S), NEW k, k = SetToSeq(S)
  PROVE  /\ IsList(k) /\ \A i \in 1..Len(k): k[i] \in S
         /\ \A x \in S: \E i \in 1..Len(k): k[i] = x
<1>1. PICK n \in Nat: n = Cardinality(S) /\ ExistsBijection(1..n, S)
  BY FS_CardinalityType
<1>2. PICK f: f \in Bijection(1..n, S)
  BY <1>1 DEF ExistsBijection
<1>3. f \in [1..n -> S] /\ IsInjective(f)
  BY <1>2 DEF Bijection, Injection
<1>4. k \in [1..n -> S] /\ IsInjective(k)
  BY <1>1, <1>3 DEF SetToSeq
<1>5. k \in Injection(1..n, S)
  BY <1>4 DEF Injection
<1>6. Cardinality(1..n) = n
  <2>1. IsFiniteSet(1..n) /\ \E g: g \in Bijection(1..n, S)
    BY <1>2, <1>5, FS_Injection
  <2>2. Cardinality(S) = Cardinality(1..n)
    BY <1>1, <2>1, FS_Bijection
  <2> QED BY <1>1, <2>2
<1>7. k \in Surjection(1..n, S)
  BY <1>1, <1>5, <1>6, FS_Injection
<1>8. \A x \in S: \E i \in 1..n: k[i] = x
  BY <1>7 DEF Surjection
<1>9. k = [i \in 1..n |-> k[i]] /\ \A i \in 1..n: k[i] \in S
  BY <1>4
<1>10. IsList(k) /\ Len(k) = n
  BY <1>9, ListMade
<1> QED BY <1>8, <1>9, <1>10

\* A dict as lists of its keys and of their values; the reader finds each value at the
\* place of its key.
LEMMA DictListed ==
  ASSUME NEW dict, IsFiniteSet(DOMAIN dict), dict = [y \in DOMAIN dict |-> dict[y]],
         NEW k, k = Keys(dict), NEW v, v = Values(dict)
  PROVE  /\ IsList(k) /\ IsList(v) /\ Len(k) = Len(v)
         /\ \A i \in 1..Len(k): k[i] \in DOMAIN dict /\ v[i] = dict[k[i]]
         /\ DictOf(k, v) = dict
<1>1. /\ IsList(k) /\ \A i \in 1..Len(k): k[i] \in DOMAIN dict
      /\ \A x \in DOMAIN dict: \E i \in 1..Len(k): k[i] = x
  BY SetListed DEF Keys
<1>2. PICK n \in Nat: n = Len(k) /\ DOMAIN k = 1..n
  BY <1>1, ListDomain
<1>3. v = [i \in 1..n |-> dict[k[i]]]
  BY <1>2 DEF Values
<1>4. v = [i \in 1..n |-> v[i]] /\ \A i \in 1..n: v[i] = dict[k[i]]
  BY <1>3
<1>5. IsList(v) /\ Len(v) = n
  BY <1>4, ListMade
<1>6. ToSet(k) = DOMAIN dict
  BY <1>1, <1>2 DEF ToSet
<1>7. ASSUME NEW x \in DOMAIN dict PROVE v[CHOOSE j \in DOMAIN k: k[j] = x] = dict[x]
  <2>1. PICK j: j = CHOOSE i \in DOMAIN k: k[i] = x
    OBVIOUS
  <2>2. j \in 1..n /\ k[j] = x
    BY <1>1, <1>2, <2>1
  <2> QED BY <1>4, <2>1, <2>2
<1>8. DictOf(k, v) = dict
  <2> DEFINE f == DictOf(k, v)
  <2>1. f = [x \in DOMAIN dict |-> f[x]] /\ \A x \in DOMAIN dict: f[x] = dict[x]
    BY <1>6, <1>7 DEF DictOf
  <2> HIDE DEF f
  <2>2. f = dict
    BY <2>1
  <2> QED BY <2>2 DEF f
<1> QED BY <1>1, <1>2, <1>4, <1>5, <1>8

\* The offsets are a matter of lengths.
LEMMA OffsetsByLength ==
  ASSUME NEW a, NEW b, IsLists(a), IsLists(b), Len(a) = Len(b),
         \A i \in 1..Len(a): Len(a[i]) = Len(b[i])
  PROVE  Offsets(a) = Offsets(b)
<1>1. PICK n \in Nat: n = Len(a) /\ n = Len(b) /\ DOMAIN a = 1..n /\ DOMAIN b = 1..n
  BY ListDomain DEF IsLists
<1> DEFINE F(k) == FlattenSeq(SubSeq(a, 1, k))
           G(k) == FlattenSeq(SubSeq(b, 1, k))
           T == {k \in Nat: k <= n => Len(F(k)) = Len(G(k))}
<1>2. \A k \in Nat: k <= n => IsList(F(k)) /\ IsList(G(k))
  BY <1>1, ListsPrefix, ListFlatten
<1>3. \A k \in Nat: k + 1 <= n => F(k + 1) = F(k) \o a[k + 1] /\ G(k + 1) = G(k) \o b[k + 1]
  BY <1>1, FlattenMore
<1>4. 0 \in T
  <2>1. SubSeq(a, 1, 0) = <<>> /\ SubSeq(b, 1, 0) = <<>>
    BY SubSeqEmpty
  <2> QED BY <2>1
<1> HIDE DEF F, G
<1>5. ASSUME NEW k \in Nat, k \in T PROVE k + 1 \in T
  <2>1. SUFFICES ASSUME k + 1 <= n PROVE Len(F(k + 1)) = Len(G(k + 1))
    OBVIOUS
  <2>2. k <= n /\ Len(F(k)) = Len(G(k)) /\ IsList(F(k)) /\ IsList(G(k)) /\ k + 1 \in 1..n
    BY <1>2, <1>5, <2>1
  <2>3. PICK f, g, x, y: f = F(k) /\ g = G(k) /\ x = a[k + 1] /\ y = b[k + 1]
    OBVIOUS
  <2>4. IsList(x) /\ IsList(y) /\ Len(x) = Len(y) /\ IsList(f) /\ IsList(g)
    BY <1>1, <2>2, <2>3 DEF IsLists
  <2>5. Len(f \o x) = Len(f) + Len(x) /\ Len(g \o y) = Len(g) + Len(y)
    BY <2>4, ListConcat
  <2> QED BY <1>3, <2>1, <2>2, <2>3, <2>4, <2>5
<1> HIDE DEF T
<1>6. Nat \subseteq T
  BY <1>4, <1>5, InductionBySet
<1>7. \A k \in 1..n: Len(F(k)) = Len(G(k))
  BY <1>6 DEF T
<1>8. Offsets(a) = [k \in 1..n |-> Len(F(k))] /\ Offsets(b) = [k \in 1..n |-> Len(G(k))]
  BY <1>1 DEF Offsets, F, G
<1> QED BY <1>7, <1>8

LEMMA MapsComeBack ==
  ASSUME NestedFaithful, NEW t, t.k = "map", NEW items, Regular(t, items)
  PROVE  ComesBack(t, items)
<1>1. IsList(items) /\ items # <<>>
  BY DEF Regular, Irregular
<1>2. PICK n \in Nat: n = Len(items) /\ DOMAIN items = 1..n /\ n # 0
  BY <1>1, ListDomain
<1> DEFINE keys == [i \in 1..n |-> Keys(items[i])]
           values == [i \in 1..n |-> Values(items[i])]
<1>3. /\ NestedType(t.key) /\ NestedType(t.value)
      /\ \A i \in 1..n: /\ IsFiniteSet(DOMAIN items[i])
                        /\ items[i] = [y \in DOMAIN items[i] |-> items[i][y]]
                        /\ \A y \in DOMAIN items[i]: NestedItem(t.key, y) /\ NestedItem(t.value, items[i][y])
      /\ ~NestedIrregular(t.key, FlattenSeq(keys)) /\ ~NestedIrregular(t.value, FlattenSeq(values))
  BY <1>2 DEF Regular, IsType, IsItem, Irregular
<1>4. WriteData(t, items) = (Tokens("quad", Offsets(keys)) \o NestedWrite(t.key, FlattenSeq(keys)))
                              \o NestedWrite(t.value, FlattenSeq(values))
  BY <1>2 DEF WriteData, WriteMap
<1>5. /\ keys = [i \in 1..n |-> keys[i]] /\ values = [i \in 1..n |-> values[i]]
      /\ \A i \in 1..n: keys[i] = Keys(items[i]) /\ values[i] = Values(items[i])
  OBVIOUS
<1> HIDE DEF keys, values
<1>6. ASSUME NEW i \in 1..n
      PROVE  /\ IsList(keys[i]) /\ IsList(values[i]) /\ Len(keys[i]) = Len(values[i])
             /\ \A j \in 1..Len(keys[i]): NestedItem(t.key, keys[i][j]) /\ NestedItem(t.value, values[i][j])
             /\ DictOf(keys[i], values[i]) = items[i]
  <2>1. PICK d, k, v: d = items[i] /\ k = keys[i] /\ v = values[i]
    OBVIOUS
  <2>2. /\ IsFiniteSet(DOMAIN d) /\ d = [y \in DOMAIN d |-> d[y]] /\ k = Keys(d) /\ v = Values(d)
        /\ \A y \in DOMAIN d: NestedItem(t.key, y) /\ NestedItem(t.value, d[y])
    BY <1>3, <1>5, <2>1
  <2>3. /\ IsList(k) /\ IsList(v) /\ Len(k) = Len(v)
        /\ \A j \in 1..Len(k): k[j] \in DOMAIN d /\ v[j] = d[k[j]]
        /\ DictOf(k, v) = d
    BY <2>2, DictListed
  <2>4. \A j \in 1..Len(k): NestedItem(t.key, k[j]) /\ NestedItem(t.value, v[j])
    BY <2>2, <2>3
  <2> QED BY <2>1, <2>3, <2>4
<1>7. IsList(keys) /\ Len(keys) = n /\ IsList(values) /\ Len(values) = n
  BY <1>5, ListMade
<1>8. IsLists(keys) /\ IsLists(values)
  BY <1>6, <1>7 DEF IsLists
<1>9. PICK p, q: p = FlattenSeq(keys) /\ q = FlattenSeq(values)
  OBVIOUS
<1>10. NestedComesBack(t.key, p) /\ IsList(p)
  BY <1>3, <1>6, <1>7, <1>8, <1>9, NestedColumn
<1>11. NestedComesBack(t.value, q) /\ IsList(q)
  BY <1>3, <1>6, <1>7, <1>8, <1>9, NestedColumn
<1>12. PICK ends: ends = Offsets(keys) /\ ends = Offsets(values)
  BY <1>6, <1>7, <1>8, OffsetsByLength
<1>13. /\ IsList(ends) /\ Len(ends) = n /\ Last(ends) = Len(p) /\ Last(ends) = Len(q)
       /\ Slices(ends, p) = keys /\ Slices(ends, q) = values
  <2>1. /\ IsList(ends) /\ Len(ends) = n /\ Last(ends) = Len(p) /\ Slices(ends, p) = keys
    <3>1. Len(keys) > 0 /\ Len(keys) = n
      BY <1>2, <1>7
    <3> QED BY <1>8, <1>9, <1>12, <3>1, OffsetsCut
  <2>2. Last(ends) = Len(q) /\ Slices(ends, q) = values
    <3>1. Len(values) > 0
      BY <1>2, <1>7
    <3> QED BY <1>8, <1>9, <1>12, <3>1, OffsetsCut
  <2> QED BY <2>1, <2>2
<1>14. PICK a, b, c: a = Tokens("quad", ends) /\ b = NestedWrite(t.key, p) /\ c = NestedWrite(t.value, q)
  OBVIOUS
<1>15. /\ IsList(a) /\ ~Failed(a)
       /\ \A rest: IsList(rest) => Take(n, "quad", a \o rest) = [items |-> ends, rest |-> rest]
  BY <1>13, <1>14, TokensMade, TokensNotFailed, TakeBack
<1>16. /\ IsList(b) /\ ~Failed(b)
       /\ \A rest: IsList(rest) => NestedRead(t.key, Len(p), b \o rest) = [items |-> p, rest |-> rest]
  BY <1>10, <1>14 DEF NestedComesBack
<1>17. /\ IsList(c) /\ ~Failed(c)
       /\ \A rest: IsList(rest) => NestedRead(t.value, Len(q), c \o rest) = [items |-> q, rest |-> rest]
  BY <1>11, <1>14 DEF NestedComesBack
<1>18. IsList((a \o b) \o c) /\ ~Failed((a \o b) \o c) /\ IsList(a \o b)
  BY <1>15, <1>16, <1>17, ConcatNotFailed
<1>19. ASSUME NEW rest, IsList(rest)
       PROVE  ReadMap(t, n, ((a \o b) \o c) \o rest) = [items |-> items, rest |-> rest]
  <2>1. PICK v, u, buf: v = c \o rest /\ u = b \o v /\ buf = a \o u
    OBVIOUS
  <2>2. IsList(v) /\ IsList(u)
    BY <1>16, <1>17, <1>19, <2>1, ListConcat
  <2>3. ((a \o b) \o c) \o rest = buf
    <3>1. PICK ab: ab = a \o b /\ IsList(ab)
      BY <1>18
    <3>2. (ab \o c) \o rest = ab \o v
      BY <1>17, <1>19, <2>1, <3>1, ListConcatMore
    <3>3. (a \o b) \o v = a \o u
      <4>1. IsList(a) /\ IsList(b) /\ IsList(v) /\ u = b \o v
        BY <1>15, <1>16, <2>1, <2>2
      <4> QED BY <4>1, ListConcatMore
    <3> QED BY <2>1, <3>1, <3>2, <3>3
  <2>4. Take(n, "quad", buf) = [items |-> ends, rest |-> u]
    BY <1>15, <2>1, <2>2
  <2>5. NestedRead(t.key, Last(ends), u) = [items |-> p, rest |-> v]
    BY <1>13, <1>16, <2>1, <2>2
  <2>6. NestedRead(t.value, Last(ends), v) = [items |-> q, rest |-> rest]
    BY <1>13, <1>17, <1>19, <2>1
  <2> DEFINE read == ReadMap(t, n, buf).items
  <2>7. /\ ReadMap(t, n, buf) = [items |-> read, rest |-> rest]
        /\ read = [i \in 1..n |-> read[i]]
        /\ \A i \in 1..n: read[i] = DictOf(keys[i], values[i])
    BY SMTT(30), <1>2, <1>13, <2>4, <2>5, <2>6 DEF ReadMap
  <2>8. \A i \in 1..n: read[i] = items[i]
    BY <1>6, <2>7
  <2> HIDE DEF read
  <2>9. IsList(read) /\ Len(read) = n
    BY <2>7, ListMade
  <2>10. read = items
    BY <1>1, <1>2, <2>8, <2>9, ListsEqual
  <2> QED BY <2>3, <2>7, <2>10
<1>20. \A buf: ReadData(t, n, buf) = ReadMap(t, n, buf)
  BY DEF ReadData
<1>21. WriteData(t, items) = (a \o b) \o c
  BY <1>4, <1>9, <1>12, <1>14
<1> QED BY <1>1, <1>2, <1>18, <1>19, <1>20, <1>21 DEF ComesBack

-----------------------------------------------------------------------------
(* LowCardinality: how many keys there are, and which of the types holds them *)

\* Power2 is what it says.
LEMMA Power2Unfolds ==
  /\ \A n \in Nat: Power2[n] \in Nat /\ Power2[n] > n
  /\ \A n \in Nat: Power2[n] = IF n = 0 THEN 1 ELSE 2 * Power2[n - 1]
<1> DEFINE Is(f) == f = [n \in Nat |-> IF n = 0 THEN 1 ELSE 2 * f[n - 1]]
<1>1. \E f: Is(f)
  <2> DEFINE step == [p \in Nat \X Nat |-> 2 * p[2]]
  <2>1. step \in [Nat \X Nat -> Nat]
    <3>1. \A p \in Nat \X Nat: 2 * p[2] \in Nat
      OBVIOUS
    <3> QED BY <3>1
  <2>2. \A n, x \in Nat: step[<<n, x>>] = 2 * x
    OBVIOUS
  <2> HIDE DEF step
  <2>3. Recursion(Nat, 1, Before, step)
    BY <2>1, StepBack DEF Recursion
  <2>4. PICK f: Solves(f, Nat, 1, Before, step)
    BY <2>3, ComputesAll
  <2>5. /\ f \in [Nat -> Nat]
        /\ \A n \in Nat: f[n] = IF n = 0 THEN 1 ELSE step[<<n, f[Before[n]]>>]
    BY <2>4 DEF Solves
  <2>6. ASSUME NEW n \in Nat PROVE f[n] = IF n = 0 THEN 1 ELSE 2 * f[n - 1]
    <3>1. n # 0 => Before[n] = n - 1 /\ n - 1 \in Nat /\ f[n - 1] \in Nat
      BY <2>5, StepBack
    <3> QED BY <2>2, <2>5, <3>1
  <2>7. f = [n \in Nat |-> f[n]]
    BY <2>5
  <2>8. Is(f)
    BY <2>6, <2>7
  <2> QED BY <2>8
<1>2. Is(Power2)
  BY <1>1 DEF Power2
<1>3. \A n \in Nat: Power2[n] = IF n = 0 THEN 1 ELSE 2 * Power2[n - 1]
  BY <1>2
<1> DEFINE T == {n \in Nat: Power2[n] \in Nat /\ Power2[n] > n}
<1>4. 0 \in T
  BY <1>3
<1>5. ASSUME NEW n \in Nat, n \in T PROVE n + 1 \in T
  <2>1. Power2[n + 1] = 2 * Power2[n]
    BY <1>3
  <2>2. Power2[n] \in Nat /\ Power2[n] > n
    BY <1>5
  <2> QED BY <2>1, <2>2
<1> HIDE DEF T
<1>6. Nat \subseteq T
  BY <1>4, <1>5, InductionBySet
<1> QED BY <1>3, <1>6 DEF T

LEMMA Power2Grows ==
  ASSUME NEW m \in Nat, NEW n \in Nat, m <= n
  PROVE  Power2[m] <= Power2[n]
<1> DEFINE T == {k \in Nat: Power2[m] <= Power2[m + k]}
<1>1. 0 \in T
  BY Power2Unfolds
<1>2. ASSUME NEW k \in Nat, k \in T PROVE k + 1 \in T
  <2>1. PICK l \in Nat: l = m + k
    OBVIOUS
  <2>2. Power2[l + 1] = 2 * Power2[l] /\ Power2[l] \in Nat /\ Power2[m] \in Nat
    BY Power2Unfolds
  <2>3. m + (k + 1) = l + 1 /\ Power2[m] <= Power2[l]
    BY <1>2, <2>1
  <2>4. Power2[m] <= Power2[l + 1]
    BY <2>2, <2>3
  <2> QED BY <2>3, <2>4
<1> HIDE DEF T
<1>3. Nat \subseteq T
  BY <1>1, <1>2, InductionBySet
<1>4. PICK k \in Nat: n = m + k
  <2>1. n - m \in Nat /\ n = m + (n - m)
    OBVIOUS
  <2> QED BY <2>1
<1> QED BY <1>3, <1>4 DEF T

\* An index of n elements has a type of keys.
LEMMA KeyTypeExists ==
  ASSUME KeyBits \in Nat \ {0}, NEW n \in Nat \ {0}
  PROVE  /\ KeyType(n) \in Nat
         /\ Power2[(KeyType(n) + 1) * KeyBits] > n
<1> DEFINE Fits == {k \in Nat: Power2[(k + 1) * KeyBits] > n}
<1>1. \A k \in Nat: k * KeyBits \in Nat /\ k * KeyBits >= k
  <2>1. \A k, b \in Nat: b > 0 => k * b \in Nat /\ k * b >= k
    <3> TAKE k, b \in Nat
    <3> HAVE b > 0
    <3>1. k * b \in Nat
      BY NaturalProduct
    <3>2. PICK c \in Nat: b = c + 1
      <4>1. b - 1 \in Nat /\ b = (b - 1) + 1
        OBVIOUS
      <4> QED BY <4>1
    <3>3. k * c \in Nat /\ k * b = k * c + k
      BY <3>2, NaturalProduct
    <3> QED BY <3>1, <3>3
  <2>2. KeyBits \in Nat /\ KeyBits > 0
    OBVIOUS
  <2> QED BY <2>1, <2>2
<1>2. n \in Fits
  <2>1. PICK m \in Nat: m = (n + 1) * KeyBits /\ m >= n + 1
    BY <1>1
  <2>2. Power2[m] \in Nat /\ Power2[m] > m
    BY Power2Unfolds
  <2>3. Power2[m] > n
    BY <2>1, <2>2
  <2> QED BY <2>1, <2>3
<1>3. PICK k \in Fits: \A j \in Fits: k <= j
  <2>1. Fits \in SUBSET Nat /\ Fits # {}
    BY <1>2
  <2> HIDE DEF Fits
  <2> QED BY <2>1, LeastNatural
<1>4. k \in 0..n
  BY <1>2, <1>3
<1>5. Power2[k * KeyBits] <= n
  <2>1. CASE k = 0
    <3>1. k * KeyBits = 0
      BY <2>1
    <3>2. Power2[0] = 1
      BY Power2Unfolds
    <3> QED BY <3>1, <3>2
  <2>2. CASE k # 0
    <3>1. PICK j \in Nat: k = j + 1
      <4>1. k - 1 \in Nat /\ k = (k - 1) + 1
        BY <1>4, <2>2
      <4> QED BY <4>1
    <3>2. j \notin Fits
      BY <1>3, <3>1
    <3>3. ~(Power2[k * KeyBits] > n)
      BY <3>1, <3>2
    <3>4. k * KeyBits \in Nat
      BY <1>1, <1>4
    <3>5. Power2[k * KeyBits] \in Nat
      BY <3>4, Power2Unfolds
    <3> QED BY <3>3, <3>5
  <2> QED BY <2>1, <2>2
<1>6. k \in 0..n /\ Power2[k * KeyBits] <= n /\ Power2[(k + 1) * KeyBits] > n
  BY <1>3, <1>4, <1>5
<1>7. /\ KeyType(n) \in 0..n
      /\ Power2[(KeyType(n) + 1) * KeyBits] > n
  BY <1>6 DEF KeyType
<1> QED BY <1>7

\* The type that is chosen holds every key to the index (lowcardinalitycolumn.py:89-90):
\* its width is 2^k times the narrowest, which is more than k + 1 times.
LEMMA KeysFit ==
  ASSUME KeyBits \in Nat \ {0}, NEW n \in Nat \ {0}, NEW k, k = KeyType(n), ~(k > 3),
         NEW keys, IsList(keys), \A i \in 1..Len(keys): keys[i] \in Nat /\ keys[i] < n
  PROVE  KeyTokens(k, keys) = Tokens(KeyPart(k), keys) /\ k \in 0..3
<1>1. k \in 0..3 /\ Power2[(k + 1) * KeyBits] > n
  <2>1. KeyType(n) \in Nat /\ Power2[(KeyType(n) + 1) * KeyBits] > n
    BY KeyTypeExists
  <2>2. k \in Nat
    BY <2>1
  <2>3. k \in 0..3
    BY <2>2
  <2> QED BY <2>1, <2>3
<1>2. Power2[0] = 1 /\ Power2[1] = 2 /\ Power2[2] = 4 /\ Power2[3] = 8
  <2>1. Power2[0] = 1
    BY Power2Unfolds
  <2>2. Power2[1] = 2
    BY <2>1, Power2Unfolds
  <2>3. Power2[2] = 4
    BY <2>2, Power2Unfolds
  <2>4. Power2[3] = 8
    BY <2>3, Power2Unfolds
  <2> QED BY <2>1, <2>2, <2>3, <2>4
<1>3. k + 1 <= Power2[k] /\ Power2[k] \in Nat
  BY <1>1, <1>2
<1>4. PICK m \in Nat, l \in Nat: m = (k + 1) * KeyBits /\ l = KeyBits * Power2[k] /\ m <= l
  <2>1. PICK p \in Nat, d \in Nat: p = Power2[k] /\ p = (k + 1) + d
    <3>1. Power2[k] - (k + 1) \in Nat /\ Power2[k] = (k + 1) + (Power2[k] - (k + 1))
      BY <1>1, <1>3
    <3> QED BY <1>3, <3>1
  <2>2. KeyBits \in Nat /\ k \in Nat /\ k + 1 \in Nat
    BY <1>1
  <2>3. PICK a \in Nat, b \in Nat: a = (k + 1) * KeyBits /\ b = KeyBits * d
    BY <2>2, NaturalProduct
  <2>4. KeyBits * p = a + b
    <3>1. \A x, y, z \in Nat: x * (y + z) = y * x + x * z
      OBVIOUS
    <3>2. PICK e \in Nat: e = k + 1
      BY <2>2
    <3>3. KeyBits * (e + d) = e * KeyBits + KeyBits * d
      BY <2>2, <3>1
    <3> QED BY <2>1, <2>3, <3>2, <3>3
  <2> QED BY <2>1, <2>3, <2>4
<1>5. n < Power2[l] /\ Power2[l] \in Nat
  <2>1. Power2[m] <= Power2[l]
    BY <1>4, Power2Grows
  <2>2. Power2[m] > n /\ Power2[m] \in Nat /\ Power2[l] \in Nat
    BY <1>1, <1>4, Power2Unfolds
  <2> QED BY <2>1, <2>2
<1>6. \A i \in DOMAIN keys: keys[i] < Power2[KeyBits * Power2[k]]
  <2>1. DOMAIN keys = 1..Len(keys)
    BY ListDomain
  <2> QED BY <1>4, <1>5, <2>1
<1> QED BY <1>1, <1>6 DEF KeyTokens

-----------------------------------------------------------------------------
(* LowCardinality: the index has all the values *)

\* The recursion of Distinct.
Seen(f, t, items) ==
  f = [n \in 0..Len(items) |->
         IF n = 0 THEN <<>>
         ELSE IF items[n] \in ToSet(f[n - 1]) \/ (OfNullable(t) /\ items[n] = Null)
           THEN f[n - 1]
           ELSE Append(f[n - 1], items[n])]

LEMMA SeenExists ==
  ASSUME NEW t, NEW items, IsList(items)
  PROVE  \E f: Seen(f, t, items)
<1>1. PICK l \in Nat: l = Len(items)
  BY ListDomain
<1> DEFINE S == {items[i] : i \in 1..l}
           V == Seq(S)
           Known(n, s) == items[n] \in ToSet(s) \/ (OfNullable(t) /\ items[n] = Null)
           step == [p \in Nat \X V |-> IF p[1] \notin 1..l \/ Known(p[1], p[2])
                                         THEN p[2] ELSE Append(p[2], items[p[1]])]
<1>2. ASSUME NEW n \in Nat, NEW s \in V
      PROVE  (IF n \notin 1..l \/ Known(n, s) THEN s ELSE Append(s, items[n])) \in V
  <2>1. n \in 1..l => items[n] \in S
    OBVIOUS
  <2> HIDE DEF S, Known
  <2> QED BY <2>1
<1>3. step \in [Nat \X V -> V]
  <2> HIDE DEF Known, V
  <2>1. \A p \in Nat \X V: (IF p[1] \notin 1..l \/ Known(p[1], p[2]) THEN p[2] ELSE Append(p[2], items[p[1]])) \in V
    BY <1>2
  <2> QED BY <2>1
<1>4. \A n \in Nat, s \in V: step[<<n, s>>] = IF n \notin 1..l \/ Known(n, s) THEN s ELSE Append(s, items[n])
  <2> HIDE DEF Known, V
  <2> QED OBVIOUS
<1>5. <<>> \in V
  OBVIOUS
<1> HIDE DEF step, V, Known
<1>6. Recursion(V, <<>>, Before, step)
  BY <1>3, <1>5, StepBack DEF Recursion
<1>7. PICK g: Solves(g, V, <<>>, Before, step)
  BY <1>6, ComputesAll
<1>8. /\ g \in [Nat -> V]
      /\ \A n \in Nat: g[n] = IF n = 0 THEN <<>> ELSE step[<<n, g[Before[n]]>>]
  BY <1>7 DEF Solves
<1> DEFINE f == [n \in 0..l |-> g[n]]
           h == [n \in 0..l |-> IF n = 0 THEN <<>>
                                ELSE IF items[n] \in ToSet(f[n - 1]) \/ (OfNullable(t) /\ items[n] = Null)
                                  THEN f[n - 1]
                                  ELSE Append(f[n - 1], items[n])]
<1>9. ASSUME NEW n \in 0..l PROVE f[n] = h[n]
  <2>1. CASE n = 0
    <3>1. f[n] = <<>>
      BY <1>8, <2>1
    <3> QED BY <2>1, <3>1
  <2>2. CASE n # 0
    <3>1. n \in 1..l /\ n - 1 \in 0..l /\ n \in Nat /\ n - 1 \in Nat /\ Before[n] = n - 1
      BY <2>2, StepBack
    <3>2. PICK s: s = g[n - 1] /\ s \in V
      BY <1>8, <3>1
    <3>3. g[n] = step[<<n, s>>]
      BY <1>8, <2>2, <3>1, <3>2
    <3>4. step[<<n, s>>] = IF Known(n, s) THEN s ELSE Append(s, items[n])
      BY <1>4, <3>1, <3>2
    <3>5. f[n - 1] = s /\ f[n] = g[n]
      BY <3>1, <3>2
    <3>6. h[n] = IF Known(n, s) THEN s ELSE Append(s, items[n])
      <4> HIDE DEF f
      <4> QED BY <2>2, <3>5 DEF Known
    <3> QED BY <3>3, <3>4, <3>5, <3>6
  <2> QED BY <2>1, <2>2
<1>10. f = h
  <2>1. f = [n \in 0..l |-> f[n]]
    OBVIOUS
  <2> HIDE DEF f
  <2>2. h = [n \in 0..l |-> h[n]]
    OBVIOUS
  <2> HIDE DEF h
  <2> QED BY <1>9, <2>1, <2>2
<1>11. Seen(f, t, items)
  <2> HIDE DEF f
  <2> QED BY <1>1, <1>10 DEF Seen
<1> QED BY <1>11

LEMMA DistinctUnfolds ==
  ASSUME NEW t, NEW items, IsList(items)
  PROVE  \E f: Seen(f, t, items) /\ Distinct(t, items) = f[Len(items)]
<1> DEFINE f == CHOOSE g: Seen(g, t, items)
<1>1. Seen(f, t, items)
  BY SeenExists
<1>2. Distinct(t, items) = f[Len(items)]
  BY DEF Distinct, Seen
<1> QED BY <1>1, <1>2

\* Every item is in the list of the distinct ones, if it is not a null that has its own place.
LEMMA DistinctItems ==
  ASSUME NEW t, NEW items, IsList(items), NEW d, d = Distinct(t, items)
  PROVE  /\ IsList(d) /\ (items = <<>> => d = <<>>)
         /\ \A i \in 1..Len(items):
              (OfNullable(t) /\ items[i] = Null) \/ \E j \in 1..Len(d): d[j] = items[i]
<1>1. PICK l \in Nat: l = Len(items)
  BY ListDomain
<1> DEFINE Known(n, s) == items[n] \in ToSet(s) \/ (OfNullable(t) /\ items[n] = Null)
<1>2. PICK f: Seen(f, t, items) /\ d = f[l]
  BY <1>1, DistinctUnfolds
<1>3. \A n \in 0..l: f[n] = IF n = 0 THEN <<>>
                            ELSE IF Known(n, f[n - 1]) THEN f[n - 1] ELSE Append(f[n - 1], items[n])
  BY <1>1, <1>2 DEF Seen
<1>4. \A n, s: IsList(s) => (Known(n, s) <=> \/ OfNullable(t) /\ items[n] = Null
                                             \/ \E j \in 1..Len(s): s[j] = items[n])
  <2>1. \A s: IsList(s) => DOMAIN s = 1..Len(s)
    BY ListDomain
  <2> QED BY <2>1 DEF ToSet
<1> HIDE DEF Known
<1> DEFINE Has(s, i) == (OfNullable(t) /\ items[i] = Null) \/ \E j \in 1..Len(s): s[j] = items[i]
           T == {n \in Nat: n <= l => IsList(f[n]) /\ \A i \in 1..n: Has(f[n], i)}
<1>5. 0 \in T
  BY <1>3, EmptyList
<1>6. ASSUME NEW n \in Nat, n \in T PROVE n + 1 \in T
  <2>1. SUFFICES ASSUME n + 1 <= l PROVE IsList(f[n + 1]) /\ \A i \in 1..(n + 1): Has(f[n + 1], i)
    OBVIOUS
  <2>2. PICK m, s, u: m = n + 1 /\ s = f[n] /\ u = f[m]
    OBVIOUS
  <2>3. IsList(s) /\ \A i \in 1..n: Has(s, i)
    BY SMTT(30), <1>6, <2>1, <2>2
  <2>4. u = IF Known(m, s) THEN s ELSE Append(s, items[m])
    <3>1. m \in 0..l /\ m # 0 /\ m - 1 = n
      BY <2>1, <2>2
    <3> QED BY <1>3, <2>2, <3>1
  <2>5. CASE Known(m, s)
    <3>1. u = s /\ Has(s, m)
      BY <1>4, <2>3, <2>4, <2>5
    <3>2. \A i \in 1..m: i \in 1..n \/ i = m
      BY <2>2
    <3> QED BY <2>2, <2>3, <3>1, <3>2
  <2>6. CASE ~Known(m, s)
    <3>1. u = s \o <<items[m]>>
      <4>1. PICK S: s \in Seq(S)
        BY <2>3, ListIsSeq
      <4> QED BY <2>4, <2>6, <4>1
    <3>2. PICK x: x = <<items[m]>> /\ IsList(x) /\ Len(x) = 1 /\ x[1] = items[m]
      BY SingleList
    <3>3. /\ IsList(u) /\ Len(u) = Len(s) + 1 /\ Len(s) \in Nat
          /\ \A j \in 1..Len(s): u[j] = s[j]
          /\ \A j \in 1..1: u[Len(s) + j] = x[j]
      BY <2>3, <3>1, <3>2, ListConcat
    <3>4. u[Len(u)] = items[m] /\ Len(u) \in 1..Len(u)
      BY <3>2, <3>3
    <3>5. \A j \in 1..Len(s): j \in 1..Len(u)
      BY <3>3
    <3>6. \A i \in 1..n: Has(u, i)
      BY <2>3, <3>3, <3>5
    <3>7. Has(u, m)
      BY <3>4
    <3>8. \A i \in 1..m: i \in 1..n \/ i = m
      BY <2>2
    <3> HIDE DEF Has
    <3> QED BY <2>2, <3>3, <3>6, <3>7, <3>8
  <2> QED BY <2>5, <2>6
<1> HIDE DEF T
<1>7. Nat \subseteq T
  BY <1>5, <1>6, InductionBySet
<1>8. IsList(d) /\ \A i \in 1..l: Has(d, i)
  BY <1>2, <1>7 DEF T
<1>9. items = <<>> => d = <<>>
  BY <1>1, <1>2, <1>3, EmptyList
<1> QED BY <1>1, <1>8, <1>9

\* Each key leads to its item.
LEMMA KeysLead ==
  ASSUME NEW t, NEW items, IsList(items), NEW index, index = Index(t, items),
         NEW names, names = NamesOf(t, index)
  PROVE  /\ IsList(index) /\ IsList(names) /\ Len(names) = Len(index)
         /\ items = <<>> /\ ~OfNullable(t) => index = <<>>
         /\ items # <<>> => Len(index) \in Nat \ {0} /\ index # <<>>
         /\ \A i \in 1..Len(items):
              /\ KeyOf(t, items, items[i]) \in Nat /\ KeyOf(t, items, items[i]) < Len(index)
              /\ names[KeyOf(t, items, items[i]) + 1] = items[i]
<1>1. PICK d: d = Distinct(t, items)
  OBVIOUS
<1>2. /\ IsList(d) /\ (items = <<>> => d = <<>>)
      /\ \A i \in 1..Len(items):
           (OfNullable(t) /\ items[i] = Null) \/ \E j \in 1..Len(d): d[j] = items[i]
  BY <1>1, DistinctItems
<1>3. PICK m \in Nat: m = Len(d) /\ DOMAIN d = 1..m
  BY <1>2, ListDomain
<1>4. Len(items) \in Nat /\ (items = <<>> <=> Len(items) = 0)
  BY ListDomain
<1> DEFINE place(x) == CHOOSE j \in DOMAIN d: d[j] = x
<1>5. ASSUME NEW x, \E j \in 1..m: d[j] = x
      PROVE  place(x) \in 1..m /\ d[place(x)] = x
  BY <1>3, <1>5
<1>6. \A x: KeyOf(t, items, x) = IF ~OfNullable(t) THEN place(x) - 1 ELSE IF x = Null THEN 0 ELSE place(x)
  BY <1>1 DEF KeyOf
<1> HIDE DEF place
<1>7. CASE ~OfNullable(t)
  <2>1. index = d /\ names = d
    BY <1>1, <1>7 DEF Index, NamesOf
  <2>2. ASSUME NEW i \in 1..Len(items), NEW k, k = KeyOf(t, items, items[i])
        PROVE  k \in Nat /\ k < m /\ d[k + 1] = items[i]
    <3>1. PICK p: p = place(items[i]) /\ p \in 1..m /\ d[p] = items[i]
      BY <1>2, <1>3, <1>5, <1>7
    <3>2. k = p - 1
      BY <1>6, <1>7, <2>2, <3>1
    <3> QED BY <3>1, <3>2
  <2>3. items # <<>> => m \in Nat \ {0} /\ d # <<>>
    <3> SUFFICES ASSUME items # <<>> PROVE m \in Nat \ {0} /\ d # <<>>
      OBVIOUS
    <3>1. 1 \in 1..Len(items)
      BY <1>4
    <3>2. m # 0
      BY <1>2, <1>3, <1>7, <3>1
    <3> QED BY <1>2, <1>3, <3>2, ListDomain
  <2> QED BY <1>2, <1>3, <1>7, <2>1, <2>2, <2>3
<1>8. CASE OfNullable(t)
  <2>1. index = <<NullValue>> \o d
    BY <1>1, <1>8 DEF Index
  <2>2. PICK a, b: a = <<NullValue>> /\ b = <<Null>>
    OBVIOUS
  <2>3. IsList(a) /\ Len(a) = 1 /\ IsList(b) /\ Len(b) = 1 /\ b[1] = Null
    BY <2>2, SingleList
  <2>4. IsList(index) /\ Len(index) = m + 1
    BY <1>2, <1>3, <2>1, <2>2, <2>3, ListConcat
  <2>5. Tail(index) = d
    <3>1. PICK S: index \in Seq(S)
      BY <2>4, ListIsSeq
    <3>2. index # <<>>
      BY <2>4, EmptyList
    <3>3. Tail(index) = SubSeq(index, 2, Len(index))
      BY <3>1, <3>2, TailIsSubSeq
    <3>4. SubSeq(a \o d, Len(a) + 1, Len(a \o d)) = d
      BY <1>2, <2>3, ListBehind
    <3> QED BY <2>1, <2>2, <2>3, <3>3, <3>4
  <2>6. names = b \o d
    BY <1>8, <2>2, <2>5 DEF NamesOf
  <2>7. /\ IsList(names) /\ Len(names) = m + 1
        /\ \A i \in 1..1: names[i] = b[i]
        /\ \A i \in 1..m: names[1 + i] = d[i]
    <3>1. /\ IsList(b \o d) /\ Len(b \o d) = Len(b) + Len(d)
          /\ \A i \in 1..Len(b): (b \o d)[i] = b[i]
          /\ \A i \in 1..Len(d): (b \o d)[Len(b) + i] = d[i]
      <4>1. IsList(b) /\ IsList(d)
        BY <1>2, <2>3
      <4> QED BY <4>1, ListConcat
    <3> QED BY <1>3, <2>3, <2>6, <3>1
  <2>8. ASSUME NEW i \in 1..Len(items), NEW k, k = KeyOf(t, items, items[i])
        PROVE  k \in Nat /\ k < m + 1 /\ names[k + 1] = items[i]
    <3>1. CASE items[i] = Null
      <4>1. k = 0
        BY <1>6, <1>8, <2>8, <3>1
      <4> QED BY <2>3, <2>7, <3>1, <4>1
    <3>2. CASE items[i] # Null
      <4>1. PICK p: p = place(items[i]) /\ p \in 1..m /\ d[p] = items[i]
        BY <1>2, <1>3, <1>5, <3>2
      <4>2. k = p
        BY <1>6, <1>8, <2>8, <3>2, <4>1
      <4>3. names[1 + p] = items[i]
        BY <2>7, <4>1
      <4> QED BY <4>1, <4>2, <4>3
    <3> QED BY <3>1, <3>2
  <2>9. Len(index) \in Nat \ {0} /\ index # <<>>
    BY <2>4, EmptyList
  <2> QED BY <1>8, <2>4, <2>7, <2>8, <2>9
<1> QED BY <1>7, <1>8

\* Two tokens are one and one.
LEMMA PairConcat ==
  ASSUME NEW x, NEW y
  PROVE  <<x, y>> = <<x>> \o <<y>>
<1>1. PICK a, b, c: a = <<x>> /\ b = <<y>> /\ c = <<x, y>>
  OBVIOUS
<1>2. IsList(a) /\ Len(a) = 1 /\ a[1] = x /\ IsList(b) /\ Len(b) = 1 /\ b[1] = y
  BY <1>1, SingleList
<1>3. PICK u: u = a \o b
  OBVIOUS
<1>4. /\ IsList(u) /\ Len(u) = Len(a) + Len(b)
      /\ \A i \in 1..Len(a): u[i] = a[i]
      /\ \A i \in 1..Len(b): u[Len(a) + i] = b[i]
  <2>1. IsList(a) /\ IsList(b)
    BY <1>2
  <2> QED BY <1>3, <2>1, ListConcat
<1>5. Len(u) = 2 /\ u[1] = x /\ u[2] = y
  BY <1>2, <1>4
<1>6. c \in Seq({x, y}) /\ Len(c) = 2 /\ c[1] = x /\ c[2] = y
  BY <1>1
<1>7. IsList(c)
  BY <1>6, SeqIsList
<1>8. \A i \in 1..2: i = 1 \/ i = 2
  OBVIOUS
<1>9. c = u
  BY <1>4, <1>5, <1>6, <1>7, <1>8, ListsEqual
<1> QED BY <1>1, <1>3, <1>9

LEMMA LowCardinalitiesComeBack ==
  ASSUME KeyBits \in Nat \ {0}, NEW t, t.k = "lowcard", NEW items, Regular(t, items)
  PROVE  ComesBack(t, items)
<1>1. IsList(items)
  BY DEF Regular
<1>2. PICK n \in Nat: n = Len(items) /\ DOMAIN items = 1..n /\ (items = <<>> <=> n = 0)
  BY <1>1, ListDomain
<1>3. PICK index: index = Index(t, items)
  OBVIOUS
<1>4. IF items = <<>> THEN ~OfNullable(t) ELSE ~(KeyType(Len(index)) > 3)
  BY <1>3 DEF Regular, Irregular
<1>5. PICK names: names = NamesOf(t, index)
  OBVIOUS
<1>6. /\ IsList(index) /\ IsList(names) /\ Len(names) = Len(index)
      /\ items = <<>> /\ ~OfNullable(t) => index = <<>>
      /\ items # <<>> => Len(index) \in Nat \ {0} /\ index # <<>>
      /\ \A i \in 1..n: /\ KeyOf(t, items, items[i]) \in Nat /\ KeyOf(t, items, items[i]) < Len(index)
                        /\ names[KeyOf(t, items, items[i]) + 1] = items[i]
  BY <1>1, <1>2, <1>3, <1>5, KeysLead
<1>7. \A buf: ReadData(t, n, buf) = ReadLowCardinality(t, n, buf)
  BY DEF ReadData
<1>8. CASE items = <<>>
  <2>1. index = <<>> /\ n = 0
    BY <1>2, <1>4, <1>6, <1>8
  <2>2. WriteData(t, items) = <<>>
    BY <1>3, <2>1 DEF WriteData, WriteLowCardinality
  <2>3. IsList(<<>>) /\ ~Failed(<<>>)
    BY EmptyList, NotFailed
  <2>4. ASSUME NEW rest, IsList(rest)
        PROVE  ReadLowCardinality(t, n, <<>> \o rest) = [items |-> items, rest |-> rest]
    <3>1. <<>> \o rest = rest
      BY <2>4, ListConcatEmpty
    <3>2. ReadLowCardinality(t, n, rest) = [items |-> <<>>, rest |-> rest]
      BY <2>1 DEF ReadLowCardinality
    <3> QED BY <1>8, <3>1, <3>2
  <2> QED BY <1>2, <1>7, <1>8, <2>2, <2>3, <2>4 DEF ComesBack
<1>9. CASE items # <<>>
  <2>1. PICK k: k = KeyType(Len(index))
    OBVIOUS
  <2> DEFINE keys == [i \in 1..n |-> KeyOf(t, items, items[i])]
  <2>2. keys = [i \in 1..n |-> keys[i]] /\ \A i \in 1..n: keys[i] = KeyOf(t, items, items[i])
    OBVIOUS
  <2>3. WriteData(t, items) =
          ((<<Token("type", k), Token("quad", Len(index))>> \o Tokens("value", index))
             \o <<Token("quad", n)>>) \o KeyTokens(k, keys)
    BY <1>2, <1>3, <1>6, <1>9, <2>1 DEF WriteData, WriteLowCardinality
  <2> HIDE DEF keys
  <2>4. IsList(keys) /\ Len(keys) = n
    BY <2>2, ListMade
  <2>5. \A i \in 1..n: keys[i] \in Nat /\ keys[i] < Len(index) /\ names[keys[i] + 1] = items[i]
    BY <1>6, <2>2
  <2>6. KeyTokens(k, keys) = Tokens(KeyPart(k), keys) /\ k \in 0..3
    <3>1. PICK l \in Nat \ {0}: l = Len(index)
      BY <1>6, <1>9
    <3>2. k = KeyType(l) /\ ~(k > 3) /\ \A i \in 1..Len(keys): keys[i] \in Nat /\ keys[i] < l
      BY <1>4, <1>9, <2>1, <2>4, <2>5, <3>1
    <3> QED BY <2>4, <3>2, KeysFit
  <2>7. PICK part: part = KeyPart(k) /\ part # "raised"
    BY <2>6 DEF KeyPart
  <2>8. PICK a, b, v, c, w: /\ a = <<Token("type", k)>> /\ b = <<Token("quad", Len(index))>>
                            /\ v = Tokens("value", index) /\ c = <<Token("quad", n)>>
                            /\ w = Tokens(part, keys)
    OBVIOUS
  <2>9. <<Token("type", k), Token("quad", Len(index))>> = a \o b
    BY <2>8, PairConcat
  <2>10. WriteData(t, items) = (((a \o b) \o v) \o c) \o w
    BY <2>3, <2>6, <2>7, <2>8, <2>9
  <2>11. IsList(v) /\ ~Failed(v) /\ IsList(w) /\ ~Failed(w)
    BY <1>6, <2>4, <2>7, <2>8, TokensMade, TokensNotFailed
  <2>12. /\ IsList(a) /\ ~Failed(a) /\ IsList(b) /\ ~Failed(b)
         /\ IsList(c) /\ ~Failed(c)
    <3>1. \A part1, x: part1 # "raised" => IsList(<<Token(part1, x)>>) /\ ~Failed(<<Token(part1, x)>>)
      <4> SUFFICES ASSUME NEW part1, NEW x, part1 # "raised"
                   PROVE  IsList(<<Token(part1, x)>>) /\ ~Failed(<<Token(part1, x)>>)
        OBVIOUS
      <4>1. PICK s: s = <<Token(part1, x)>>
        OBVIOUS
      <4>2. IsList(s) /\ Len(s) = 1 /\ s[1] = Token(part1, x)
        BY <4>1, SingleList
      <4>3. s[1] # Raised
        BY <4>2 DEF Token, Raised
      <4>4. \A i \in 1..1: i = 1
        OBVIOUS
      <4> QED BY <4>1, <4>2, <4>3, <4>4, NotFailed
    <3> QED BY <2>8, <3>1
  <2>13. /\ IsList(a \o b) /\ ~Failed(a \o b)
         /\ IsList((a \o b) \o v) /\ ~Failed((a \o b) \o v)
         /\ IsList(((a \o b) \o v) \o c) /\ ~Failed(((a \o b) \o v) \o c)
         /\ IsList((((a \o b) \o v) \o c) \o w) /\ ~Failed((((a \o b) \o v) \o c) \o w)
    <3>1. IsList(a \o b) /\ ~Failed(a \o b)
      BY <2>12, ConcatNotFailed
    <3>2. PICK x: x = a \o b
      OBVIOUS
    <3>3. IsList(x \o v) /\ ~Failed(x \o v)
      BY <2>11, <3>1, <3>2, ConcatNotFailed
    <3>4. PICK y: y = x \o v
      OBVIOUS
    <3>5. IsList(y \o c) /\ ~Failed(y \o c)
      BY <2>12, <3>3, <3>4, ConcatNotFailed
    <3>6. PICK z: z = y \o c
      OBVIOUS
    <3>7. IsList(z \o w) /\ ~Failed(z \o w)
      BY <2>11, <3>5, <3>6, ConcatNotFailed
    <3> QED BY <3>1, <3>2, <3>3, <3>4, <3>5, <3>6, <3>7
  <2>14. ASSUME NEW rest, IsList(rest)
         PROVE  ReadLowCardinality(t, n, ((((a \o b) \o v) \o c) \o w) \o rest)
                  = [items |-> items, rest |-> rest]
    <3>1. PICK r4, r3, r2, r1, buf: /\ r4 = w \o rest /\ r3 = c \o r4 /\ r2 = v \o r3
                                    /\ r1 = b \o r2 /\ buf = a \o r1
      OBVIOUS
    <3>2. IsList(r4) /\ IsList(r3) /\ IsList(r2) /\ IsList(r1)
      <4>1. IsList(r4)
        BY <2>11, <2>14, <3>1, ListConcat
      <4>2. IsList(r3)
        BY <2>12, <3>1, <4>1, ListConcat
      <4>3. IsList(r2)
        BY <2>11, <3>1, <4>2, ListConcat
      <4>4. IsList(r1)
        BY <2>12, <3>1, <4>3, ListConcat
      <4> QED BY <4>1, <4>2, <4>3, <4>4
    <3>3. ((((a \o b) \o v) \o c) \o w) \o rest = buf
      <4>1. PICK x, y, z: x = a \o b /\ y = x \o v /\ z = y \o c
        OBVIOUS
      <4>2. IsList(x) /\ IsList(y) /\ IsList(z)
        BY <2>13, <4>1
      <4>3. (z \o w) \o rest = z \o (w \o rest)
        <5>1. IsList(z) /\ IsList(w) /\ IsList(rest)
          BY <2>11, <2>14, <4>2
        <5> QED BY <5>1, ListConcatMore
      <4>4. (y \o c) \o r4 = y \o (c \o r4)
        <5>1. IsList(y) /\ IsList(c) /\ IsList(r4)
          BY <2>12, <3>2, <4>2
        <5> QED BY <5>1, ListConcatMore
      <4>5. (x \o v) \o r3 = x \o (v \o r3)
        <5>1. IsList(x) /\ IsList(v) /\ IsList(r3)
          BY <2>11, <3>2, <4>2
        <5> QED BY <5>1, ListConcatMore
      <4>6. (a \o b) \o r2 = a \o (b \o r2)
        <5>1. IsList(a) /\ IsList(b) /\ IsList(r2)
          BY <2>12, <3>2
        <5> QED BY <5>1, ListConcatMore
      <4> QED BY <3>1, <4>1, <4>3, <4>4, <4>5, <4>6
    <3>4. Take(1, "type", buf).items[1] = k /\ Take(1, "type", buf).rest = r1
      <4>1. /\ Take(1, "type", <<Token("type", k)>> \o r1).items[1] = k
            /\ Take(1, "type", <<Token("type", k)>> \o r1).rest = r1
        BY <3>2, TakeOne
      <4> QED BY <2>8, <3>1, <4>1
    <3>5. Take(1, "quad", r1).items[1] = Len(index) /\ Take(1, "quad", r1).rest = r2
      <4>1. PICK l: l = Len(index)
        OBVIOUS
      <4>2. /\ Take(1, "quad", <<Token("quad", l)>> \o r2).items[1] = l
            /\ Take(1, "quad", <<Token("quad", l)>> \o r2).rest = r2
        BY <3>2, TakeOne
      <4> QED BY <2>8, <3>1, <4>1, <4>2
    <3>6. Take(Len(index), "value", r2) = [items |-> index, rest |-> r3]
      <4>1. Take(Len(index), "value", Tokens("value", index) \o r3) = [items |-> index, rest |-> r3]
        BY <1>6, <3>2, TakeBack
      <4> QED BY <2>8, <3>1, <4>1
    <3>7. Take(1, "quad", r3).rest = r4
      <4>1. Take(1, "quad", <<Token("quad", n)>> \o r4).rest = r4
        BY <3>2, TakeOne
      <4> QED BY <2>8, <3>1, <4>1
    <3>8. Take(n, part, r4) = [items |-> keys, rest |-> rest]
      BY <2>4, <2>8, <2>14, <3>1, TakeBack
    <3> DEFINE read == ReadLowCardinality(t, n, buf).items
    <3>9. /\ ReadLowCardinality(t, n, buf) = [items |-> read, rest |-> rest]
          /\ read = [i \in 1..n |-> read[i]] /\ \A i \in 1..n: read[i] = names[keys[i] + 1]
      <4>1. ~(\E i \in 1..n: keys[i] >= Len(names)) /\ n # 0
        BY <1>2, <1>6, <1>9, <2>5
      <4>2. KeyPart(k) = part /\ names = NamesOf(t, index)
        BY <1>5, <2>7
      <4>3. PICK p, q, x, y, z: /\ p = Take(1, "type", buf) /\ q = Take(1, "quad", r1)
                                /\ x = Take(Len(index), "value", r2) /\ y = Take(1, "quad", r3)
                                /\ z = Take(n, part, r4)
        OBVIOUS
      <4>4. /\ p.items[1] = k /\ p.rest = r1 /\ q.items[1] = Len(index) /\ q.rest = r2
            /\ x.items = index /\ x.rest = r3 /\ y.rest = r4 /\ z.items = keys /\ z.rest = rest
        BY <3>4, <3>5, <3>6, <3>7, <3>8, <4>3
      <4>5. ReadLowCardinality(t, n, buf)
              = [items |-> [i \in 1..n |-> names[keys[i] + 1]], rest |-> rest]
        BY <4>1, <4>2, <4>3, <4>4 DEF ReadLowCardinality
      <4> QED BY <4>5
    <3>10. \A i \in 1..n: read[i] = items[i]
      BY <2>5, <3>9
    <3> HIDE DEF read
    <3>11. IsList(read) /\ Len(read) = n
      BY <3>9, ListMade
    <3>12. read = items
      BY <1>1, <1>2, <3>10, <3>11, ListsEqual
    <3> QED BY <3>3, <3>9, <3>12
  <2> QED BY <1>2, <1>7, <1>9, <2>10, <2>13, <2>14 DEF ComesBack
<1> QED BY <1>8, <1>9

-----------------------------------------------------------------------------
(* Every type *)

LEMMA VersionsConcat ==
  ASSUME NEW s, NEW t, Versions(s), Versions(t)
  PROVE  Versions(s \o t)
<1>1. IsList(s) /\ IsList(t)
  BY DEF Versions
<1>2. PICK u: u = s \o t
  OBVIOUS
<1>3. /\ IsList(u) /\ Len(s) \in Nat
      /\ \A i \in 1..Len(s): u[i] = s[i]
      /\ \A i \in 1..Len(u): i > Len(s) => i - Len(s) \in 1..Len(t) /\ u[i] = t[i - Len(s)]
  BY <1>1, <1>2, ListConcat
<1>4. ASSUME NEW i \in 1..Len(u) PROVE u[i] = Token("version", 1)
  <2>1. CASE i > Len(s)
    BY <1>3, <2>1 DEF Versions
  <2>2. CASE ~(i > Len(s))
    <3>1. i \in 1..Len(s)
      BY <1>3, <2>2
    <3> QED BY <1>3, <3>1 DEF Versions
  <2> QED BY <2>1, <2>2
<1> QED BY <1>2, <1>3, <1>4 DEF Versions

\* What stands in front of a column is as many versions as it has LowCardinality in it.
LEMMA PrefixesAreVersions ==
  ASSUME NestedFaithful, NEW t, IsType(t)
  PROVE  Versions(StatePrefix(t))
<1>1. CASE t.k \in {"int", "nullable"}
  <2>1. StatePrefix(t) = <<>>
    BY <1>1 DEF StatePrefix
  <2>2. Versions(<<>>)
    BY EmptyList DEF Versions
  <2> QED BY <2>1, <2>2
<1>2. CASE t.k = "lowcard"
  <2>1. StatePrefix(t) = <<Token("version", 1)>>
    BY <1>2 DEF StatePrefix
  <2>2. PICK s: s = <<Token("version", 1)>>
    OBVIOUS
  <2>3. IsList(s) /\ Len(s) = 1 /\ s[1] = Token("version", 1)
    BY <2>2, SingleList
  <2>4. \A i \in 1..Len(s): i = 1
    BY <2>3
  <2> QED BY <2>1, <2>2, <2>3, <2>4 DEF Versions
<1>3. CASE t.k = "array"
  <2>1. StatePrefix(t) = NestedPrefix(t.of)
    BY <1>3 DEF StatePrefix
  <2>2. NestedType(t.of)
    BY <1>3 DEF IsType
  <2> QED BY <2>1, <2>2 DEF NestedFaithful
<1>4. CASE t.k = "map"
  <2>1. StatePrefix(t) = NestedPrefix(t.key) \o NestedPrefix(t.value)
    BY <1>4 DEF StatePrefix
  <2>2. NestedType(t.key) /\ NestedType(t.value)
    BY <1>4 DEF IsType
  <2>3. Versions(NestedPrefix(t.key)) /\ Versions(NestedPrefix(t.value))
    BY <2>2 DEF NestedFaithful
  <2> QED BY <2>1, <2>3, VersionsConcat
<1>5. CASE t.k = "tuple"
  <2>1. IsList(t.of) /\ \A c \in DOMAIN t.of: NestedType(t.of[c])
    BY <1>5 DEF IsType
  <2>2. PICK w \in Nat: w = Len(t.of) /\ DOMAIN t.of = 1..w
    BY <2>1, ListDomain
  <2> DEFINE parts == [c \in 1..w |-> NestedPrefix(t.of[c])]
  <2>3. StatePrefix(t) = FlattenSeq(parts)
    BY <1>5, <2>2 DEF StatePrefix
  <2>4. parts = [c \in 1..w |-> parts[c]] /\ \A c \in 1..w: parts[c] = NestedPrefix(t.of[c])
    OBVIOUS
  <2> HIDE DEF parts
  <2>5. IsList(parts) /\ Len(parts) = w
    BY <2>4, ListMade
  <2>6. \A c \in 1..w: Versions(parts[c])
    BY <2>1, <2>2, <2>4 DEF NestedFaithful
  <2>7. IsLists(parts)
    BY <2>5, <2>6 DEF IsLists, Versions
  <2>8. PICK f: f = FlattenSeq(parts)
    OBVIOUS
  <2>9. IsList(f) /\ \A k \in 1..Len(f): \E i \in 1..w: \E j \in 1..Len(parts[i]): f[k] = parts[i][j]
    BY <2>5, <2>7, <2>8, ListFlatten
  <2>10. \A i \in 1..w: \A j \in 1..Len(parts[i]): parts[i][j] = Token("version", 1)
    BY <2>6 DEF Versions
  <2>11. Versions(f)
    BY <2>9, <2>10 DEF Versions
  <2> QED BY <2>3, <2>8, <2>11
<1>6. t.k \in {"int", "nullable", "lowcard", "array", "map", "tuple"}
  BY DEF IsType
<1> QED BY <1>1, <1>2, <1>3, <1>4, <1>5, <1>6

\* Columns come back from the stream whole, with the reader behind their last token, at
\* one more depth of nesting than those that are known to: nulls, repeated values, lists
\* and dicts of any length, tuples of any width (columns/, all write_data and read_data).
THEOREM NextDepth ==
  ASSUME KeyBits \in Nat \ {0}, NestedFaithful
  PROVE  Faithful
<1>1. ASSUME NEW t, NEW items, Regular(t, items) PROVE ComesBack(t, items)
  <2>1. t.k \in {"int", "nullable", "lowcard", "array", "map", "tuple"} /\ IsList(items)
    BY <1>1 DEF Regular, IsType
  <2>2. CASE t.k = "int"
    BY <2>1, <2>2, NumbersComeBack
  <2>3. CASE t.k = "nullable"
    BY <2>1, <2>3, NullablesComeBack
  <2>4. CASE t.k = "lowcard"
    BY <1>1, <2>4, LowCardinalitiesComeBack
  <2>5. CASE t.k = "array"
    BY <1>1, <2>5, ArraysComeBack
  <2>6. CASE t.k = "map"
    BY <1>1, <2>6, MapsComeBack
  <2>7. CASE t.k = "tuple"
    BY <1>1, <2>7, TuplesComeBack
  <2> QED BY <2>1, <2>2, <2>3, <2>4, <2>5, <2>6, <2>7
<1>2. \A t: IsType(t) => Versions(StatePrefix(t))
  BY PrefixesAreVersions
<1>3. ASSUME NEW t, t.k = "array" PROVE ~Irregular(t, <<>>)
  BY <1>3, FlattenEmpty DEF Irregular
<1> QED BY <1>1, <1>2, <1>3 DEF Faithful
=============================================================================

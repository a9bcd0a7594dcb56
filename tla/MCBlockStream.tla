--------------------------- MODULE MCBlockStream ---------------------------
(* BlockStream for TLC: tables of every type, and ways to cut their data.   *)
EXTENDS BlockStream

Number      == [k |-> "int"]
Nullable(t)   == [k |-> "nullable", of |-> t]
LowCard(t)    == [k |-> "lowcard", of |-> t]
Array(t)      == [k |-> "array", of |-> t]
Map(t)        == [k |-> "map", key |-> Number, value |-> t]
Tuple(t, u)   == [k |-> "tuple", of |-> <<t, u>>]

\* The first column of each table; the second is of numbers, so that a reader
\* that has lost its place in the first one finds out.
FirstTypes ==
  <<Number, Nullable(Number), LowCard(Number), LowCard(Nullable(Number)),
    Array(Number), Array(Nullable(Number)), Array(Array(Number)), Array(LowCard(Nullable(Number))),
    Map(Number), Map(Array(Number)), Map(LowCard(Nullable(Number))), Map(LowCard(Number)),
    Map(Map(Number)), Tuple(Number, Array(Number)), Array(Tuple(Number, Nullable(Number))),
    Map(Tuple(Number, Number)), Array(Map(Number))>>

Tables == [i \in DOMAIN FirstTypes |-> <<FirstTypes[i], Number>>]

UpTo(n, S) == UNION {[1..m -> S] : m \in 0..n}
Dicts(S)   == UNION {[K -> S] : K \in {{}, {1}, {2}, {1, 2}}}

\* Small values of a type.
RECURSIVE Some(_)
Some(t) ==
  CASE t.k = "int"      -> {0, 1}
    [] t.k = "nullable" -> {Null, 0}
    [] t.k = "lowcard"  -> Some(t.of)
    [] t.k = "array"    -> UpTo(IF t.of.k = "array" THEN 1 ELSE 2, Some(t.of))
    [] t.k = "map"      -> Dicts(Some(t.value))
    [] t.k = "tuple"    -> Some(t.of[1]) \X Some(t.of[2])

\* Two rows at most: as an external table, in one block, and dicts of values
\* as an INSERT of one row at a time, too.
TypeJobs(i) ==
  {[schema |-> i, slicer |-> s, size |-> 1,
    data |-> [r \in DOMAIN items |-> <<items[r], r>>]] :
      s \in {"external"} \cup (IF i \in {9, 11, 12} THEN {"rows"} ELSE {}),
      items \in UpTo(2, Some(FirstTypes[i]))}

\* As many distinct values as need keys of 4 bits.
KeyJobs(i) ==
  {[schema |-> i, slicer |-> "rows", size |-> 9,
    data |-> [r \in 1..n |-> <<IF r = 3 /\ i = 4 THEN Null ELSE r % 6, r>>]] : n \in 1..8}

Numbered(c, n) == [r \in 1..n |-> 10 * r + c]

\* Rows of one to three values in a table of two, cut in every way.
RowJobs ==
  {[schema |-> 1, slicer |-> "rows", size |-> n,
    data |-> [r \in DOMAIN widths |-> [c \in 1..widths[r] |-> 10 * r + c]]] :
      widths \in UpTo(4, 1..3), n \in 1..3}

\* Columns, often of unequal length.
ColumnJobs ==
  {[schema |-> 1, slicer |-> s, size |-> n, data |-> <<Numbered(1, a), Numbered(2, b)>>] :
      s \in {"columns", "numpy"}, n \in 1..3, a \in 0..6, b \in 0..6}
    \cup {[schema |-> 1, slicer |-> "columns", size |-> 2, data |-> [c \in 1..w |-> Numbered(c, a)]] :
      w \in {0, 1, 3}, a \in {0, 3}}

\* Columns of one length for numpy, also of a length the size does not divide.
NumpyJobs ==
  [i \in DOMAIN Tables |-> {j \in ColumnJobs : i = 1 /\ j.slicer = "numpy"
                                               /\ Len(j.data[1]) = Len(j.data[2])}]

\* External tables only.
TableJobs == [i \in DOMAIN Tables |-> TypeJobs(i)]

AllJobs ==
  [i \in DOMAIN Tables |-> TypeJobs(i) \cup (IF i \in {3, 4} THEN KeyJobs(i) ELSE {})]
    \o <<RowJobs, ColumnJobs>>
=============================================================================

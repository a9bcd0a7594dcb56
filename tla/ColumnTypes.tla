----------------------------- MODULE ColumnTypes -----------------------------
(***************************************************************************)
(* How the values of a column are written to a block and read from one     *)
(* (proton_driver/columns/), one level of its type: what is nested in it   *)
(* is written and read by the constants.                                   *)
(*                                                                         *)
(* A type is a record: "int" is every column that codes its values one by  *)
(* one; "nullable" is one with its flag set, "lowcard" is over either;     *)
(* "array" is over a type, "map" over two, "tuple" over a list of types.   *)
(* A value is a number, Null, a list (array, tuple) or a function (dict).  *)
(***************************************************************************)
EXTENDS Integers, FiniteSets, TokenBuffer

CONSTANTS KeyBits,                \* bits in the narrowest key of LowCardinality: 8
          NestedType(_),          \* is this a type that may be nested?
          NestedItem(_, _),       \* ... and this a value of it?
          NestedIrregular(_, _),  \* ... and these items that do not come back?
          NestedPrefix(_), NestedWrite(_, _), NestedRead(_, _, _)

\* The next n tokens, when they are what the reader takes them for.
Take(n, part, buf) ==
  IF Len(buf) >= n /\ \A i \in 1..n: buf[i].part = part
    THEN [items |-> [i \in 1..n |-> buf[i].v], rest |-> SubSeq(buf, n + 1, Len(buf))]
    ELSE [items |-> [i \in 1..n |-> 0], rest |-> <<Raised>>]

\* Where each of the lists ends when they are put one behind the other.
Offsets(lists) == [i \in DOMAIN lists |-> Len(FlattenSeq(SubSeq(lists, 1, i)))]

Slices(offsets, data) ==
  [i \in DOMAIN offsets |->
     SubSeq(data, (IF i = 1 THEN 0 ELSE offsets[i - 1]) + 1, offsets[i])]

\* The keys of a dict, in some order.
Keys(dict)   == SetToSeq(DOMAIN dict)
Values(dict) == [i \in DOMAIN Keys(dict) |-> dict[Keys(dict)[i]]]

\* dict(zip(keys, values)).
DictOf(keys, values) == [x \in ToSet(keys) |-> values[CHOOSE i \in DOMAIN keys: keys[i] = x]]

-----------------------------------------------------------------------------
(* LowCardinality: the distinct values, and for each item where it is *)

OfNullable(t) == t.of.k = "nullable"

\* Each value where it is met first; nulls have a place of their own.
Distinct(t, items) ==
  LET seen[n \in 0..Len(items)] ==
        IF n = 0 THEN <<>>
        ELSE IF items[n] \in ToSet(seen[n - 1]) \/ (OfNullable(t) /\ items[n] = Null)
          THEN seen[n - 1]
          ELSE Append(seen[n - 1], items[n])
  IN  seen[Len(items)]

\* The place of a null is taken by the first element if there may be nulls.
Index(t, items) ==
  IF OfNullable(t) THEN <<NullValue>> \o Distinct(t, items) ELSE Distinct(t, items)

KeyOf(t, items, x) ==
  LET place == CHOOSE i \in DOMAIN Distinct(t, items): Distinct(t, items)[i] = x IN
  IF ~OfNullable(t) THEN place - 1 ELSE IF x = Null THEN 0 ELSE place

Power2[n \in Nat] == IF n = 0 THEN 1 ELSE 2 * Power2[n - 1]

\* int(log(len(index), 2) / 8): which of int_types holds the keys.
KeyType(n) == CHOOSE k \in 0..n: Power2[k * KeyBits] <= n /\ Power2[(k + 1) * KeyBits] > n

KeyPart(k) == <<"key8", "key16", "key32", "key64">>[k + 1]

\* A key column of type k: struct.pack raises on a key that it cannot hold.
KeyTokens(k, keys) ==
  IF k \in 0..3 /\ \A i \in DOMAIN keys: keys[i] < Power2[KeyBits * Power2[k]]
    THEN Tokens(KeyPart(k), keys)
    ELSE <<Raised>>

\* Mutant: the index is one element longer than the type is made for.
LowCardinalityNarrow(t, items) ==
  LET index == Index(t, items)
      type  == KeyType((Len(index) + 1) \div 2)
      keys  == [i \in DOMAIN items |-> KeyOf(t, items, items[i])]
  IN  IF index = <<>> THEN <<>>
      ELSE <<Token("type", type), Token("quad", Len(index))>> \o Tokens("value", index)
           \o <<Token("quad", Len(items))>> \o KeyTokens(type, keys)

WriteLowCardinality(t, items) ==
  LET index == Index(t, items)
      type  == KeyType(Len(index))
      keys  == [i \in DOMAIN items |-> KeyOf(t, items, items[i])]
  IN  IF index = <<>> THEN <<>>
      ELSE <<Token("type", type), Token("quad", Len(index))>> \o Tokens("value", index)
           \o <<Token("quad", Len(items))>> \o KeyTokens(type, keys)

\* What the keys stand for.
NamesOf(t, index) == IF OfNullable(t) THEN <<Null>> \o Tail(index) ELSE index

ReadLowCardinality(t, n, buf) ==
  LET type  == Take(1, "type", buf)
      size  == Take(1, "quad", type.rest)
      index == Take(size.items[1], "value", size.rest)
      names == NamesOf(t, index.items)
      count == Take(1, "quad", index.rest)
      keys  == Take(n, KeyPart(type.items[1]), count.rest)
  IN  IF n = 0 THEN [items |-> <<>>, rest |-> buf]
      ELSE IF \E i \in 1..n: keys.items[i] >= Len(names)
        THEN [items |-> [i \in 1..n |-> 0], rest |-> <<Raised>>]
        ELSE [items |-> [i \in 1..n |-> names[keys.items[i] + 1]], rest |-> keys.rest]

-----------------------------------------------------------------------------
(* write_data and read_data of every type *)

\* The offsets of a level, and behind those of all levels the flattened values;
\* no values, no more tokens.
WriteArray(t, lists) ==
  LET values == FlattenSeq(lists) IN
  Tokens("quad", Offsets(lists)) \o
    (IF values = <<>> /\ t.of.k # "array" THEN <<>> ELSE NestedWrite(t.of, values))

WriteMap(t, dicts) ==
  LET keys   == [i \in DOMAIN dicts |-> Keys(dicts[i])]
      values == [i \in DOMAIN dicts |-> Values(dicts[i])]
  IN  Tokens("quad", Offsets(keys)) \o NestedWrite(t.key, FlattenSeq(keys))
                                    \o NestedWrite(t.value, FlattenSeq(values))

\* list(zip( *items)) of no items has no element for the first column.
WriteTuple(t, rows) ==
  IF rows = <<>> THEN <<Raised>>
  ELSE FlattenSeq([c \in DOMAIN t.of |->
                     NestedWrite(t.of[c], [r \in DOMAIN rows |-> rows[r][c]])])

WriteNullable(items) ==
  Tokens("byte", [i \in DOMAIN items |-> IF items[i] = Null THEN 1 ELSE 0])
    \o Tokens("value", [i \in DOMAIN items |-> IF items[i] = Null THEN NullValue ELSE items[i]])

WriteData(t, items) ==
  CASE t.k = "int"      -> Tokens("value", items)
    [] t.k = "nullable" -> WriteNullable(items)
    [] t.k = "lowcard"  -> WriteLowCardinality(t, items)
    [] t.k = "array"    -> WriteArray(t, items)
    [] t.k = "map"      -> WriteMap(t, items)
    [] t.k = "tuple"    -> WriteTuple(t, items)

ReadArray(t, n, buf) ==
  LET offsets == Take(n, "quad", buf)
      m       == IF n = 0 THEN 0 ELSE Last(offsets.items)
      inner   == IF m = 0 /\ t.of.k # "array" THEN [items |-> <<>>, rest |-> offsets.rest]
                 ELSE NestedRead(t.of, m, offsets.rest)
  IN  [items |-> Slices(offsets.items, inner.items), rest |-> inner.rest]

\* offsets[-1] of no offsets raises IndexError.
ReadMap(t, n, buf) ==
  LET offsets == Take(n, "quad", buf)
      m       == Last(offsets.items)
      keys    == NestedRead(t.key, m, offsets.rest)
      values  == NestedRead(t.value, m, keys.rest)
      key     == Slices(offsets.items, keys.items)
      value   == Slices(offsets.items, values.items)
  IN  IF n = 0 THEN [items |-> <<>>, rest |-> <<Raised>>]
      ELSE [items |-> [i \in 1..n |-> DictOf(key[i], value[i])], rest |-> values.rest]

ReadTuple(t, n, buf) ==
  LET read[c \in 0..Len(t.of)] ==
        IF c = 0 THEN [items |-> <<>>, rest |-> buf]
                 ELSE NestedRead(t.of[c], n, read[c - 1].rest)
  IN  [items |-> [i \in 1..n |-> [c \in 1..Len(t.of) |-> read[c].items[i]]],
       rest  |-> read[Len(t.of)].rest]

ReadNullable(n, buf) ==
  LET nulls  == Take(n, "byte", buf)
      values == Take(n, "value", nulls.rest)
  IN  [items |-> [i \in 1..n |-> IF nulls.items[i] = 1 THEN Null ELSE values.items[i]],
       rest  |-> values.rest]

ReadData(t, n, buf) ==
  CASE t.k = "int"      -> Take(n, "value", buf)
    [] t.k = "nullable" -> ReadNullable(n, buf)
    [] t.k = "lowcard"  -> ReadLowCardinality(t, n, buf)
    [] t.k = "array"    -> ReadArray(t, n, buf)
    [] t.k = "map"      -> ReadMap(t, n, buf)
    [] t.k = "tuple"    -> ReadTuple(t, n, buf)

\* write_state_prefix: only LowCardinality has something to write.
StatePrefix(t) ==
  CASE t.k \in {"int", "nullable"} -> <<>>
    [] t.k = "lowcard" -> <<Token("version", 1)>>
    [] t.k = "array"   -> NestedPrefix(t.of)
    [] t.k = "map"     -> NestedPrefix(t.key) \o NestedPrefix(t.value)
    [] t.k = "tuple"   -> FlattenSeq([c \in DOMAIN t.of |-> NestedPrefix(t.of[c])])

-----------------------------------------------------------------------------
(* Types and their values *)

IsType(t) ==
  \/ t.k = "int"
  \/ t.k = "nullable" /\ t.of.k = "int"
  \/ t.k = "lowcard" /\ (t.of.k = "int" \/ (t.of.k = "nullable" /\ t.of.of.k = "int"))
  \/ t.k = "array" /\ NestedType(t.of)
  \/ t.k = "map" /\ NestedType(t.key) /\ NestedType(t.value)
  \/ t.k = "tuple" /\ IsList(t.of) /\ \A c \in DOMAIN t.of: NestedType(t.of[c])

IsItem(t, x) ==
  CASE t.k = "int"      -> x # Null
    [] t.k = "nullable" -> TRUE
    [] t.k = "lowcard"  -> OfNullable(t) \/ x # Null
    [] t.k = "array"    -> IsList(x) /\ \A i \in DOMAIN x: NestedItem(t.of, x[i])
    [] t.k = "map"      -> /\ IsFiniteSet(DOMAIN x) /\ x = [y \in DOMAIN x |-> x[y]]
                           /\ \A y \in DOMAIN x: NestedItem(t.key, y) /\ NestedItem(t.value, x[y])
    [] t.k = "tuple"    -> /\ IsList(x) /\ Len(x) = Len(t.of)
                           /\ \A c \in DOMAIN x: NestedItem(t.of[c], x[c])

\* Items that a type cannot write, or not read, where a dict, or the table itself,
\* has nothing for it: columns/tuplecolumn.py:25, mapcolumn.py:26,
\* lowcardinalitycolumn.py:54; or with more distinct values than there are keys for.
Irregular(t, items) ==
  CASE t.k = "int"      -> FALSE
    [] t.k = "nullable" -> FALSE
    [] t.k = "lowcard"  -> IF items = <<>> THEN OfNullable(t) ELSE KeyType(Len(Index(t, items))) > 3
    [] t.k = "array"    -> FlattenSeq(items) # <<>> /\ NestedIrregular(t.of, FlattenSeq(items))
    [] t.k = "map"      ->
         \/ items = <<>>
         \/ NestedIrregular(t.key, FlattenSeq([i \in DOMAIN items |-> Keys(items[i])]))
         \/ NestedIrregular(t.value, FlattenSeq([i \in DOMAIN items |-> Values(items[i])]))
    [] t.k = "tuple"    ->
         \/ items = <<>>
         \/ \E c \in DOMAIN t.of: NestedIrregular(t.of[c], [r \in DOMAIN items |-> items[r][c]])
=============================================================================

------------------------------- MODULE Columns -------------------------------
(***************************************************************************)
(* The columns of proton_driver/columns/, nested to a depth of three: each *)
(* level of types is over the level below it. A level is ColumnTypes with  *)
(* what ColumnProofs proves of it, Flat!NextDepth and the others.          *)
(***************************************************************************)
EXTENDS Integers, TokenBuffer

CONSTANT KeyBits   \* bits in the narrowest key of LowCardinality: 8

ASSUME KeyBitsAssumption == KeyBits \in Nat \ {0}

\* Nothing is nested in the columns of the lowest level.
NoType(t)         == FALSE
NoItem(t, x)      == FALSE
NoPrefix(t)       == <<>>
NoWrite(t, items) == <<Raised>>
NoRead(t, n, buf) == [items |-> <<>>, rest |-> <<Raised>>]

Flat == INSTANCE ColumnProofs WITH
  NestedType <- NoType, NestedItem <- NoItem, NestedIrregular <- NoItem,
  NestedPrefix <- NoPrefix, NestedWrite <- NoWrite, NestedRead <- NoRead

Once == INSTANCE ColumnProofs WITH
  NestedType <- Flat!IsType, NestedItem <- Flat!IsItem, NestedIrregular <- Flat!Irregular,
  NestedPrefix <- Flat!StatePrefix, NestedWrite <- Flat!WriteData, NestedRead <- Flat!ReadData

Twice == INSTANCE ColumnProofs WITH
  NestedType <- Once!IsType, NestedItem <- Once!IsItem, NestedIrregular <- Once!Irregular,
  NestedPrefix <- Once!StatePrefix, NestedWrite <- Once!WriteData, NestedRead <- Once!ReadData

\* MaxNesting: arrays, maps and tuples in one another, three deep.
Thrice == INSTANCE ColumnProofs WITH
  NestedType <- Twice!IsType, NestedItem <- Twice!IsItem, NestedIrregular <- Twice!Irregular,
  NestedPrefix <- Twice!StatePrefix, NestedWrite <- Twice!WriteData, NestedRead <- Twice!ReadData

WriteColumn(t, items) == Thrice!StatePrefix(t) \o Thrice!WriteData(t, items)

ReadColumn(t, n, buf) ==
  Thrice!ReadData(t, n, Thrice!Take(Len(Thrice!StatePrefix(t)), "version", buf).rest)
=============================================================================

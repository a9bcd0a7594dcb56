----------------------------- MODULE BlockStream -----------------------------
(***************************************************************************)
(* Data on its way through Client.send_data (or send_external_tables),     *)
(* BlockOutputStream, BlockInputStream and a QueryResult: cut into chunks, *)
(* checked as a block, written column by column, read and put together.    *)
(* What the server makes of a block is what the driver's own reader does.  *)
(*                                                                         *)
(*   job       the data and how it is sent                                 *)
(*   todo      chunks the slicer has still to give                         *)
(*   stage     of the sender: "sending", "sent", or "raised"               *)
(*   wire      tokens on the way                                           *)
(*   sizes     rows of each block that was sent                            *)
(*   inserted  inserted_rows, what send_data returns                       *)
(*   result    QueryResult.data in both shapes, [rows, columns]            *)
(*   lost      has the reader met tokens that it did not expect?           *)
(***************************************************************************)
EXTENDS Columns, Chunks

CONSTANTS Schemas,  \* sequence of tables: the types of their columns
          Jobs      \* for each table, [schema, slicer, size, data]: what is sent

Types(j)    == Schemas[j.schema]
ByColumn(j) == j.slicer \in {"columns", "numpy"}

\* Row r of a block, or of all the data, may be too short for column c.
HasColumn(j, chunk, c) ==
  IF ByColumn(j) THEN c \in DOMAIN chunk ELSE \A r \in DOMAIN chunk: c <= Len(chunk[r])

Column(j, chunk, c) == IF ByColumn(j) THEN chunk[c] ELSE [r \in DOMAIN chunk |-> chunk[r][c]]

\* insert_block_size is not 0: nothing would be sent.
IsJob(j) ==
  /\ j.slicer \in {"rows", "columns", "numpy", "external"}
  /\ j.size \in Nat \ {0}
  /\ IsList(Types(j)) /\ \A c \in DOMAIN Types(j): Thrice!IsType(Types(j)[c])
  /\ IsList(j.data) /\ \A k \in DOMAIN j.data: IsList(j.data[k])
  /\ \A k \in DOMAIN j.data: \A i \in DOMAIN j.data[k]:
       LET c == IF ByColumn(j) THEN k ELSE i
       IN  c \in DOMAIN Types(j) => Thrice!IsItem(Types(j)[c], j.data[k][i])

ASSUME JobsAssumption == \A i \in DOMAIN Jobs: \A j \in Jobs[i]: IsJob(j)

VARIABLES job, todo, stage, wire, sizes, inserted, result, lost

blockVars == <<job, todo, stage, wire, sizes, inserted, result, lost>>

\* The slicers of send_data; an external table is sent in one block.
Sliced(j) ==
  CASE j.slicer = "rows"     -> Chunks(j.data, j.size)
    [] j.slicer = "columns"  -> ColumnChunks(j.data, j.size)
    [] j.slicer = "numpy"    -> NumpyColumnChunks(j.data, j.size)
    [] j.slicer = "external" -> <<j.data>>

BlockInit ==
  /\ \E i \in DOMAIN Jobs: job \in Jobs[i]
  /\ todo = Sliced(job)
  /\ stage = "sending"
  /\ wire = <<>>
  /\ sizes = <<>>
  /\ inserted = 0
  /\ result = [rows |-> <<>>, columns |-> <<>>]
  /\ lost = FALSE

-----------------------------------------------------------------------------

\* Mutant: the first column of a block is not compared with the others.
NormalUnequal(chunk) ==
  IF ByColumn(job) THEN Len(chunk) = Len(Types(job))
                   ELSE chunk # <<>> => Len(chunk[1]) = Len(Types(job))

\* normalize: all columns are looked at, but only the first of the rows.
Normal(chunk) ==
  IF ByColumn(job)
    THEN /\ Len(chunk) = Len(Types(job))
         /\ \A c \in DOMAIN chunk: Len(chunk[c]) = Len(chunk[1])
    ELSE chunk # <<>> => Len(chunk[1]) = Len(Types(job))

NumRows(chunk) ==
  IF ~ByColumn(job) THEN Len(chunk) ELSE IF chunk = <<>> THEN 0 ELSE Len(chunk[1])

\* get_column_by_index: what a row has behind its last column is not looked at,
\* and a row that is too short raises.
ColumnTokens(chunk, c) ==
  IF HasColumn(job, chunk, c) THEN WriteColumn(Types(job)[c], Column(job, chunk, c)) ELSE <<Raised>>

\* Every column is written, though the block may have no rows.
BlockTokens(chunk) ==
  <<Token("columns", Len(Types(job))), Token("rows", NumRows(chunk))>>
    \o FlattenSeq([c \in DOMAIN Types(job) |-> ColumnTokens(chunk, c)])

\* One turn of the loop of send_data. An exception leaves part of a block in
\* the writer's buffer, which is dropped with the connection.
SendBlock ==
  /\ stage = "sending" /\ todo # <<>>
  /\ LET chunk == Head(todo) IN
     IF Normal(chunk) /\ \A c \in DOMAIN Types(job): ~Failed(ColumnTokens(chunk, c))
       THEN /\ wire' = wire \o BlockTokens(chunk)
            /\ sizes' = Append(sizes, NumRows(chunk))
            /\ inserted' = inserted + NumRows(chunk)
            /\ todo' = Tail(todo)
            /\ UNCHANGED stage
       ELSE /\ stage' = "raised"
            /\ UNCHANGED <<todo, wire, sizes, inserted>>
  /\ UNCHANGED <<job, result, lost>>

\* The slicer is exhausted.
EndOfChunks ==
  /\ stage = "sending" /\ todo = <<>>
  /\ stage' = "sent"
  /\ UNCHANGED <<job, todo, wire, sizes, inserted, result, lost>>

\* read: the columns one after the other, if there are rows at all.
ReadColumns(n) ==
  LET read[c \in 0..Len(Types(job))] ==
        IF c = 0 THEN [items |-> <<>>, rest |-> SubSeq(wire, 3, Len(wire))]
                 ELSE ReadColumn(Types(job)[c], n, read[c - 1].rest)
  IN  IF n = 0 THEN [columns |-> <<>>, rest |-> read[0].rest]
      ELSE [columns |-> [c \in 1..Len(Types(job)) |-> read[c].items],
            rest    |-> read[Len(Types(job))].rest]

\* QueryResult.store: rows are extended by rows, columns by columns.
Store(columns, n) ==
  [rows    |-> result.rows \o [r \in 1..n |-> [c \in DOMAIN columns |-> columns[c][r]]],
   columns |-> IF result.columns = <<>> THEN columns
               ELSE [c \in DOMAIN columns |-> result.columns[c] \o columns[c]]]

ReceiveBlock ==
  /\ wire # <<>> /\ ~lost
  /\ LET header == /\ Len(wire) > 1
                   /\ wire[1] = Token("columns", Len(Types(job)))
                   /\ wire[2].part = "rows"
         n      == wire[2].v
         block  == ReadColumns(n)
     IN IF header /\ ~Failed(block.rest)
          THEN /\ wire' = block.rest
               /\ result' = IF n = 0 THEN result ELSE Store(block.columns, n)
               /\ UNCHANGED lost
          ELSE /\ lost' = TRUE
               /\ UNCHANGED <<wire, result>>
  /\ UNCHANGED <<job, todo, stage, sizes, inserted>>

BlockNext == SendBlock \/ EndOfChunks \/ ReceiveBlock

BlockSpec == BlockInit /\ [][BlockNext]_blockVars

-----------------------------------------------------------------------------

Rectangular ==
  IF ByColumn(job)
    THEN \A c \in DOMAIN job.data: Len(job.data[c]) = Len(job.data[1])
    ELSE \A r \in DOMAIN job.data: Len(job.data[r]) >= Len(Types(job))

\* Rows that are too short, and columns of unequal length, never go through:
\* the check of each block is enough, although it sees one chunk at a time and
\* one row of it (block.py:94-109, 151-152, 194-200, util/helpers.py:29-47).
RaggedIsRefused == stage = "sent" => Rectangular

\* An INSERT returns the number of rows it was given (client.py:568-576).
RowsCounted == stage = "sent" => inserted = NumRows(job.data)

\* "insert_block_size parameter - maximum rows in block" (CHANGELOG.md:346): no
\* block of an INSERT has more rows. An external table is no INSERT and is sent
\* in one block. With numpy it does not hold: array_split is asked for so many
\* parts, not for parts of a size (numpy/helpers.py:16).
BlocksAreBounded ==
  job.slicer # "external" => \A i \in DOMAIN sizes: sizes[i] <= job.size

\* How far insert_block_size is kept to: only blocks cut by numpy exceed it, and
\* never by as much as another block, whatever is divided by whatever
\* (util/helpers.py:4-47, numpy/helpers.py:14-18).
OnlyNumpyExceeds ==
  \A i \in DOMAIN sizes: sizes[i] > job.size
    => \/ job.slicer = "external"
       \/ job.slicer = "numpy" /\ sizes[i] < 2 * job.size

\* ... and no row is wider.
Square ==
  /\ Rectangular
  /\ IF ByColumn(job) THEN Len(job.data) = Len(Types(job))
                       ELSE \A r \in DOMAIN job.data: Len(job.data[r]) = Len(Types(job))

\* A block with a column that cannot be written, or cannot be read: with nothing in it
\* but a state prefix, or irregular in the sense of ColumnTypes.
IrregularJob ==
  \E k \in DOMAIN Sliced(job): \E c \in DOMAIN Types(job):
    /\ HasColumn(job, Sliced(job)[k], c)
    /\ LET items == Column(job, Sliced(job)[k], c) IN
       \/ Thrice!Irregular(Types(job)[c], items)
       \/ items = <<>> /\ Thrice!StatePrefix(Types(job)[c]) # <<>>

Cell(j, r, c) == IF ByColumn(j) THEN j.data[c][r] ELSE j.data[r][c]

\* The first n rows, each cut to the table's width, as a result has them.
FirstRows(j, n) ==
  LET width == Len(Types(j)) IN
  [rows    |-> [r \in 1..n |-> [c \in 1..width |-> Cell(j, r, c)]],
   columns |-> IF n = 0 THEN <<>> ELSE [c \in 1..width |-> [r \in 1..n |-> Cell(j, r, c)]]]

\* Data that is sent without an exception arrives: every value of the table's
\* columns once, in order, nulls, empty lists and repeated values included,
\* whatever it is cut into, as rows and as columns; and the reader never loses
\* its place. Nor does data raise that is of the table's shape. Jobs with
\* irregular columns are left out (client.py:545-576, streams/native.py:16-90,
\* columns/, result.py:22-43).
ArrivesAsGiven ==
  ~IrregularJob =>
    /\ ~lost
    /\ stage = "raised" => ~Square
    /\ stage = "sent" /\ wire = <<>> => /\ Rectangular
                                       /\ result = FirstRows(job, NumRows(job.data))

\* "Do not write anything for empty column" (lowcardinalitycolumn.py:84): no
\* index and no keys follow the header of a block without rows, where
\* BlockInputStream.read expects nothing (streams/native.py:73).
NothingForNoRows ==
  sizes = <<0>> /\ result.rows = <<>> => \A i \in DOMAIN wire: wire[i].part # "type"

-----------------------------------------------------------------------------
(* The inductive invariant behind these *)

\* Where the first i chunks of a sequence end: of the rows, or of one column.
SlicedTo(j, seq, i) ==
  CASE j.slicer = "external" -> IF i = 0 THEN 0 ELSE Len(seq)
    [] j.slicer = "numpy"    ->
         IF Len(seq) > j.size
           THEN Min({SplitEnd(seq, Len(seq) \div j.size, i), Len(seq)})
           ELSE IF i = 0 THEN 0 ELSE Len(seq)
    [] OTHER                   -> ChunkEnd(seq, j.size, i)

\* The n rows of the first k blocks are those in front of some place of the data, the
\* same place in each column, and rows that were sent are as wide as the table.
SentTo(j, k, n) ==
  IF ByColumn(j)
    THEN /\ \A c \in DOMAIN j.data: SlicedTo(j, j.data[c], k) = n
         /\ j.data = <<>> => n = 0
    ELSE /\ SlicedTo(j, j.data, k) = n
         /\ \A r \in 1..n: Len(j.data[r]) >= Len(Types(j))

\* What is to do is what the slicer still has; when it has nothing more, the place
\* is the end of the data.
SentInv ==
  /\ IsJob(job)
  /\ stage \in {"sending", "sent", "raised"}
  /\ sizes \in Seq(Nat) /\ inserted \in Nat
  /\ Len(sizes) <= Len(Sliced(job))
  /\ todo = SubSeq(Sliced(job), Len(sizes) + 1, Len(Sliced(job)))
  /\ SentTo(job, Len(sizes), inserted)
  /\ OnlyNumpyExceeds
  /\ stage = "sent" => todo = <<>>

\* The number of rows in the first k chunks.
PlaceOf(j, k) ==
  IF ~ByColumn(j) THEN SlicedTo(j, j.data, k)
  ELSE IF j.data = <<>> THEN 0 ELSE SlicedTo(j, j.data[1], k)

Blocks(n) == [i \in 1..n |-> BlockTokens(Sliced(job)[i])]

\* The rows of the first k blocks have been stored, and the tokens of the others are
\* on the wire.
ReceivedTo(k) ==
  LET sent == Len(sizes)
      n    == PlaceOf(job, k)
  IN  /\ SentTo(job, k, n)
      /\ result = FirstRows(job, n)
      /\ wire = FlattenSeq(SubSeq(Blocks(sent), k + 1, sent))

\* A block that was sent has a value in each row for each column of the table.
ReceivedInv ==
  ~IrregularJob =>
    /\ ~lost
    /\ stage = "raised" => ~Square
    /\ \A i \in 1..Len(sizes): LET chunk == Sliced(job)[i] IN
         Normal(chunk) /\ \A c \in DOMAIN Types(job): HasColumn(job, chunk, c)
    /\ \E k \in 0..Len(sizes): ReceivedTo(k)

BlockInv == SentInv /\ ReceivedInv
=============================================================================

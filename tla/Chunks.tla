------------------------------- MODULE Chunks -------------------------------
(* How the data of an INSERT is cut into blocks (proton_driver/util/helpers.py, *)
(* proton_driver/numpy/helpers.py).                                             *)
EXTENDS Integers, SequencesExt, FiniteSetsExt

\* chunks: slices of n, as long as there is something in them. With n = 0 there
\* never is.
ChunkEnd(seq, n, i) == Min({i * n, Len(seq)})

Chunks(seq, n) ==
  [i \in 1..(IF n = 0 THEN 0 ELSE (Len(seq) + n - 1) \div n) |->
     SubSeq(seq, ChunkEnd(seq, n, i - 1) + 1, ChunkEnd(seq, n, i))]

\* np.array_split(c, k): the first len % k parts have one row more.
SplitEnd(column, k, i) == i * (Len(column) \div k) + Min({i, Len(column) % k})

ArraySplit(column, k) ==
  [i \in 1..k |-> SubSeq(column, SplitEnd(column, k, i - 1) + 1, SplitEnd(column, k, i))]

\* Mutant: chunks of more than n rows, cut into as many as those would be.
NumpyChunksOneLess(column, n) ==
  IF Len(column) > n + 1 THEN ArraySplit(column, Len(column) \div (n + 1)) ELSE <<column>>

NumpyChunks(column, n) ==
  IF Len(column) > n THEN ArraySplit(column, Len(column) \div n) ELSE <<column>>

\* Chunk i of each column, an empty one behind the last.
Rounds(chunked) ==
  [i \in 1..Max({0} \cup {Len(chunked[c]) : c \in DOMAIN chunked}) |->
     [c \in DOMAIN chunked |-> IF i <= Len(chunked[c]) THEN chunked[c][i] ELSE <<>>]]

\* Until a round has nothing in it.
UpToEmpty(rounds) ==
  LET Empty == {i \in DOMAIN rounds : \A c \in DOMAIN rounds[i]: rounds[i][c] = <<>>}
  IN  SubSeq(rounds, 1, Min(Empty \cup {Len(rounds) + 1}) - 1)

\* Mutant: columns end with the shortest of them, as zip() would have it.
ColumnChunksZipped(columns, n) ==
  LET chunked == [c \in DOMAIN columns |-> Chunks(columns[c], n)]
  IN  IF columns = <<>> THEN <<>>
      ELSE [i \in 1..Min({Len(chunked[c]) : c \in DOMAIN chunked}) |->
              [c \in DOMAIN chunked |-> chunked[c][i]]]

ColumnChunks(columns, n) ==
  UpToEmpty(Rounds([c \in DOMAIN columns |-> Chunks(columns[c], n)]))

NumpyColumnChunks(columns, n) ==
  UpToEmpty(Rounds([c \in DOMAIN columns |-> NumpyChunks(columns[c], n)]))
=============================================================================

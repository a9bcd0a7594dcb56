----------------------------- MODULE DbApiProofs -----------------------------
(***************************************************************************)
(* Rows leave the cursors of the DB API once and in order, and a blocked   *)
(* client can be freed: for any number of cursors, rows and queries.       *)
(***************************************************************************)
EXTENDS DbApi, SliceLemmas

\* Types of what a cursor has, in a form that actions change at one cursor.
Typed ==
  /\ state \in [Cursors -> State]
  /\ stream \in [Cursors -> BOOLEAN]
  /\ rows \in [Cursors -> Rows]
  /\ busy \in [Cursors -> BOOLEAN]
  /\ result \in [Cursors -> Seq(Row)]
  /\ got \in [Cursors -> Seq(Row)]
  /\ executes \in 0..MaxExecutes

RowsInv == Typed /\ FetchedInOrder /\ BusyHasReader

-----------------------------------------------------------------------------
(* What a cursor holds *)

\* A cursor holds None, a list, or a generator, with a sequence of rows each.
LEMMA RowsFields ==
  ASSUME NEW r \in Rows
  PROVE  /\ r.data \in Seq(Row)
         /\ r.live \in BOOLEAN
         /\ r.kind \in {"none", "list", "gen"}
         /\ r = [kind |-> r.kind, data |-> r.data, live |-> r.live]
<1>1. CASE r = NoRows
  <2>1. <<>> \in Seq(Row)
    OBVIOUS
  <2> QED BY <1>1, <2>1 DEF NoRows
<1>2. CASE r \in [kind: {"list"}, data: Seq(Row), live: {FALSE}]
  BY <1>2
<1>3. CASE r \in [kind: {"gen"}, data: Seq(Row), live: BOOLEAN]
  BY <1>3
<1> QED BY <1>1, <1>2, <1>3 DEF Rows

\* The two kinds that rows are put into.
LEMMA RowsKinds ==
  ASSUME NEW data \in Seq(Row)
  PROVE  /\ NoRows \in Rows
         /\ ListOf(data) \in Rows
         /\ \A live \in BOOLEAN: Generator(data, live) \in Rows
BY DEF Rows, NoRows, ListOf, Generator

\* What is left of rows when the client disconnects (client.py:161-163).
LEMMA CutOffTypes ==
  ASSUME NEW r \in Rows, NEW s \in CutOff(r)
  PROVE  s \in Rows
<1>1. CASE ~(r.kind = "gen" /\ r.live)
  BY <1>1 DEF CutOff
<1>2. CASE r.kind = "gen" /\ r.live
  <2>1. PICK n \in 0..Len(r.data): s = Generator(SubSeq(r.data, 1, n), FALSE)
    BY <1>2 DEF CutOff
  <2>2. SubSeq(r.data, 1, n) \in Seq(Row)
    BY RowsFields, PrefixLength
  <2> QED BY <2>1, <2>2, RowsKinds
<1> QED BY <1>1, <1>2

\* Handing out n rows splits what a cursor holds (cursor.py:186-193).
LEMMA HandOutSplits ==
  ASSUME NEW g \in Seq(Row), NEW data \in Seq(Row), NEW n \in 0..Len(data)
  PROVE  /\ g \o SubSeq(data, 1, n) \in Seq(Row)
         /\ SubSeq(data, n + 1, Len(data)) \in Seq(Row)
         /\ (g \o SubSeq(data, 1, n)) \o SubSeq(data, n + 1, Len(data)) = g \o data
<1> DEFINE front == SubSeq(data, 1, n)
           back == SubSeq(data, n + 1, Len(data))
<1>1. front \in Seq(Row)
  BY PrefixLength
<1>2. back \in Seq(Row)
  <2>1. \A i \in (n + 1)..Len(data): data[i] \in Row
    OBVIOUS
  <2> QED BY <2>1, SubSeqProperties
<1>3. front \o back = data
  <2>1. /\ 1 \in 1..(Len(data) + 1) /\ n \in (1 - 1)..Len(data)
        /\ Len(data) \in n..Len(data)
    OBVIOUS
  <2>2. front \o back = SubSeq(data, 1, Len(data))
    BY <2>1, ConcatAdjacentSubSeq
  <2> QED BY <2>2, SubSeqFull
<1> HIDE DEF front, back
<1>4. (g \o front) \o back = g \o (front \o back)
  BY <1>1, <1>2, ConcatAssociative
<1>5. g \o front \in Seq(Row)
  BY <1>1
<1>6. (g \o front) \o back = g \o data
  BY <1>3, <1>4
<1> QED BY <1>2, <1>5, <1>6 DEF front, back

-----------------------------------------------------------------------------
(* One cursor after a step: it is left alone, or its new state keeps the promise *)

\* What RowsInv says of one cursor.
Kept(st, r, b, g, res) ==
  /\ st = "finished" => g \o r.data = res
  /\ b => st = "finished" /\ r.kind = "gen" /\ r.live

\* A step that changes one cursor only.
LEMMA OneCursor ==
  ASSUME RowsInv, Typed', NEW k \in Cursors,
         \A j \in Cursors \ {k}:
           /\ state'[j] = state[j] /\ rows'[j] = rows[j] /\ busy'[j] = busy[j]
           /\ got'[j] = got[j] /\ result'[j] = result[j],
         Kept(state'[k], rows'[k], busy'[k], got'[k], result'[k])
  PROVE  RowsInv'
<1>1. ASSUME NEW j \in Cursors
      PROVE  Kept(state'[j], rows'[j], busy'[j], got'[j], result'[j])
  <2>1. CASE j = k
    BY <2>1
  <2>2. CASE j # k
    <3>1. Kept(state[j], rows[j], busy[j], got[j], result[j])
      BY DEF RowsInv, FetchedInOrder, BusyHasReader, Kept
    <3>2. /\ state'[j] = state[j] /\ rows'[j] = rows[j] /\ busy'[j] = busy[j]
          /\ got'[j] = got[j] /\ result'[j] = result[j]
      BY <2>2
    <3> QED BY <3>1, <3>2
  <2> QED BY <2>1, <2>2
<1>2. FetchedInOrder'
  BY <1>1 DEF FetchedInOrder, Kept
<1>3. BusyHasReader'
  BY <1>1 DEF BusyHasReader, Kept
<1> QED BY <1>2, <1>3 DEF RowsInv

\* What RowsInv gives an action at a cursor.
LEMMA AtCursor ==
  ASSUME RowsInv, NEW k \in Cursors
  PROVE  /\ Kept(state[k], rows[k], busy[k], got[k], result[k])
         /\ rows[k] \in Rows /\ rows[k].data \in Seq(Row) /\ rows[k].live \in BOOLEAN
         /\ got[k] \in Seq(Row) /\ busy[k] \in BOOLEAN /\ executes \in 0..MaxExecutes
<1>1. rows[k] \in Rows
  BY DEF RowsInv, Typed
<1>2. rows[k].data \in Seq(Row) /\ rows[k].live \in BOOLEAN
  BY <1>1, RowsFields
<1>3. Kept(state[k], rows[k], busy[k], got[k], result[k])
  BY DEF RowsInv, FetchedInOrder, BusyHasReader, Kept
<1> QED BY <1>1, <1>2, <1>3 DEF RowsInv, Typed

\* The fields of rows that an action makes.
LEMMA MadeFields ==
  ASSUME NEW data, NEW live
  PROVE  /\ ListOf(data).kind = "list" /\ ListOf(data).data = data
         /\ Generator(data, live).kind = "gen" /\ Generator(data, live).data = data
         /\ Generator(data, live).live = live
BY DEF ListOf, Generator

-----------------------------------------------------------------------------
(* Connection *)

\* A new cursor has no rows (connection.py:82-99).
LEMMA MakeCursorKeeps ==
  ASSUME RowsInv, NEW k \in Cursors, MakeCursor(k)
  PROVE  RowsInv'
<1>1. Typed'
  BY DEF MakeCursor, history, RowsInv, Typed, State
<1>2. Kept(state'[k], rows'[k], busy'[k], got'[k], result'[k])
  BY AtCursor DEF MakeCursor, history, RowsInv, Typed, Kept
<1> QED BY <1>1, <1>2, OneCursor DEF MakeCursor, history, RowsInv, Typed

\* A closed cursor promises nothing and its client is free (cursor.py:80-94).
LEMMA CloseCursorsKeeps ==
  ASSUME RowsInv, NEW set \in SUBSET Cursors, CloseCursors(set)
  PROVE  RowsInv'
<1>1. ASSUME NEW k \in Cursors PROVE rows'[k] \in Rows
  <2>1. CASE k \in set
    <3>1. rows'[k] \in CutOff(rows[k])
      BY <2>1 DEF CloseCursors
    <3> QED BY <3>1, AtCursor, CutOffTypes
  <2>2. CASE k \notin set
    BY <2>2, AtCursor DEF CloseCursors
  <2> QED BY <2>1, <2>2
<1>2. rows' = [k \in Cursors |-> rows'[k]]
  BY DEF CloseCursors
<1>3. rows' \in [Cursors -> Rows]
  BY <1>1, <1>2
<1>4. Typed'
  BY <1>3 DEF CloseCursors, history, RowsInv, Typed, State
<1>5. FetchedInOrder' /\ BusyHasReader'
  BY DEF CloseCursors, history, RowsInv, FetchedInOrder, BusyHasReader
<1> QED BY <1>4, <1>5 DEF RowsInv

\* Connection.close closes some of the cursors (connection.py:65-68).
LEMMA CloseKeeps ==
  ASSUME RowsInv, Close
  PROVE  RowsInv'
<1> DEFINE set == {cursors[i] : i \in {j \in DOMAIN cursors : j % 2 = 1}} \cap Cursors
<1>1. CloseCursors(set)
  BY DEF Close, CloseCursors
<1> QED BY <1>1, CloseCursorsKeeps

-----------------------------------------------------------------------------
(* execute and executemany *)

\* The mode does not matter to rows that are there (cursor.py:300-312).
LEMMA SetStreamResultsKeeps ==
  ASSUME RowsInv, NEW k \in Cursors, NEW on \in BOOLEAN, SetStreamResults(k, on)
  PROVE  RowsInv'
<1>1. Typed'
  BY DEF SetStreamResults, history, RowsInv, Typed
<1> QED BY <1>1 DEF SetStreamResults, history, RowsInv, FetchedInOrder, BusyHasReader

\* The rows of a result have their types.
LEMMA ResultTypes ==
  ASSUME NEW e \in 1..MaxExecutes, NEW n \in 0..MaxRows
  PROVE  [i \in 1..n |-> [execute |-> e, n |-> i]] \in Seq(Row)
<1>1. n \in Nat /\ \A i \in 1..n: i \in 1..MaxRows
  BY BoundsAssumption
<1> QED BY <1>1 DEF Row

\* After a query nothing has been handed out of its rows (cursor.py:380-410).
LEMMA FinishKeeps ==
  ASSUME RowsInv, NEW k \in Cursors, Begin(k), NEW r \in Rows, NEW data \in Seq(Row),
         Finish(k, r, data), r.data = data, NEW b \in BOOLEAN,
         busy' = [busy EXCEPT ![k] = b], b => r.kind = "gen" /\ r.live
  PROVE  RowsInv'
<1>1. executes' \in 0..MaxExecutes
  BY BoundsAssumption DEF Begin, RowsInv, Typed
<1>2. Typed'
  BY <1>1 DEF Begin, Finish, RowsInv, Typed, State
<1>3. <<>> \o data = data
  BY ConcatEmptySeq
<1>4. Kept(state'[k], rows'[k], busy'[k], got'[k], result'[k])
  BY <1>3 DEF Begin, Finish, RowsInv, Typed, Kept
<1> QED BY <1>2, <1>4, OneCursor DEF Begin, Finish, RowsInv, Typed

\* A SELECT, as a list or streamed (cursor.py:96-120).
LEMMA SelectKeeps ==
  ASSUME RowsInv, NEW k \in Cursors, NEW n \in 0..MaxRows, Select(k, n)
  PROVE  RowsInv'
<1> DEFINE data == [i \in 1..n |-> [execute |-> executes', n |-> i]]
<1>1. Begin(k)
  BY DEF Select
<1>2. executes' \in 1..MaxExecutes
  BY <1>1, BoundsAssumption DEF Begin, RowsInv, Typed
<1>3. data \in Seq(Row)
  BY <1>2, ResultTypes
<1>4. \/ Finish(k, ListOf(data), data) /\ ~busy[k] /\ UNCHANGED busy
      \/ Finish(k, Generator(data, TRUE), data) /\ busy' = [busy EXCEPT ![k] = TRUE]
  BY DEF Select
<1> HIDE DEF data
<1>5. ListOf(data) \in Rows /\ Generator(data, TRUE) \in Rows
  BY <1>3, RowsKinds
<1>6. CASE Finish(k, ListOf(data), data) /\ ~busy[k] /\ UNCHANGED busy
  <2>1. busy' = [busy EXCEPT ![k] = FALSE]
    BY <1>6 DEF RowsInv, Typed
  <2> QED BY <1>1, <1>3, <1>5, <1>6, <2>1, FinishKeeps, MadeFields
<1>7. CASE Finish(k, Generator(data, TRUE), data) /\ busy' = [busy EXCEPT ![k] = TRUE]
  <2>1. Generator(data, TRUE).data = data
    BY MadeFields
  <2>2. TRUE => Generator(data, TRUE).kind = "gen" /\ Generator(data, TRUE).live
    BY DEF Generator
  <2>3. TRUE \in BOOLEAN
    OBVIOUS
  <2> HIDE DEF data
  <2> QED BY <1>1, <1>3, <1>5, <1>7, <2>1, <2>2, <2>3, FinishKeeps
<1> QED BY <1>4, <1>6, <1>7

\* A statement without a result (cursor.py:122-146, 380-389).
LEMMA StatementKeeps ==
  ASSUME RowsInv, NEW k \in Cursors, Statement(k)
  PROVE  RowsInv'
<1>1. Begin(k) /\ ~busy[k] /\ Finish(k, ListOf(<<>>), <<>>) /\ UNCHANGED busy
  BY DEF Statement
<1>2. busy' = [busy EXCEPT ![k] = FALSE]
  BY <1>1 DEF RowsInv, Typed
<1>3. <<>> \in Seq(Row)
  OBVIOUS
<1>4. ListOf(<<>>) \in Rows
  BY <1>3, RowsKinds
<1> QED BY <1>1, <1>2, <1>3, <1>4, FinishKeeps, MadeFields

\* A query that fails leaves the cursor running: it promises nothing
\* (cursor.py:108-117).
LEMMA FailKeeps ==
  ASSUME RowsInv, NEW k \in Cursors, Fail(k)
  PROVE  RowsInv'
<1>1. PICK r \in CutOff(rows[k]): rows' = [rows EXCEPT ![k] = r]
  BY DEF Fail
<1>2. r \in Rows
  BY <1>1, AtCursor, CutOffTypes
<1>3. executes' \in 0..MaxExecutes
  BY BoundsAssumption DEF Fail, Begin, RowsInv, Typed
<1>4. Typed'
  BY <1>1, <1>2, <1>3 DEF Fail, Begin, RowsInv, Typed, State
<1>5. Kept(state'[k], rows'[k], busy'[k], got'[k], result'[k])
  BY DEF Fail, RowsInv, Typed, Kept
<1> QED BY <1>1, <1>4, <1>5, OneCursor DEF Fail, Begin, RowsInv, Typed

-----------------------------------------------------------------------------
(* The fetch methods *)

\* What is handed out and what is left are what there was: the step of every
\* fetch method that returns rows (cursor.py:148-281). `r' are the rows that are
\* left, if it does not drop them.
LEMMA FetchKeeps ==
  ASSUME RowsInv, NEW k \in Cursors, NEW n \in 0..Len(rows[k].data),
         Fetching(k), HandOut(k, n),
         NEW r \in Rows, rows' = [rows EXCEPT ![k] = r],
         r.data = Rest(k, n),
         NEW b \in BOOLEAN, busy' = [busy EXCEPT ![k] = b],
         b => busy[k] /\ r.kind = "gen" /\ r.live
  PROVE  RowsInv'
<1>1. /\ got[k] \o SubSeq(rows[k].data, 1, n) \in Seq(Row)
      /\ (got[k] \o SubSeq(rows[k].data, 1, n)) \o Rest(k, n) = got[k] \o rows[k].data
  BY AtCursor, HandOutSplits DEF Rest
<1>2. Typed'
  BY <1>1 DEF Fetching, HandOut, RowsInv, Typed
<1>3. /\ got'[k] = got[k] \o SubSeq(rows[k].data, 1, n)
      /\ rows'[k] = r /\ busy'[k] = b
      /\ state'[k] = state[k] /\ result'[k] = result[k]
  BY DEF Fetching, HandOut, RowsInv, Typed
<1>4. Kept(state'[k], rows'[k], busy'[k], got'[k], result'[k])
  BY <1>1, <1>3, AtCursor DEF Kept
<1> QED BY <1>2, <1>4, OneCursor DEF Fetching, HandOut, RowsInv, Typed

\* The rest of a list or generator has its type.
LEMMA RestTypes ==
  ASSUME RowsInv, NEW k \in Cursors, NEW n \in 0..Len(rows[k].data)
  PROVE  Rest(k, n) \in Seq(Row)
BY AtCursor, HandOutSplits DEF Rest

\* From a list (cursor.py:148-209).
LEMMA FetchFromListKeeps ==
  ASSUME RowsInv, NEW k \in Cursors, NEW n \in 0..MaxRows, FetchFromList(k, n)
  PROVE  RowsInv'
<1>1. n \in 0..Len(rows[k].data)
  BY AtCursor, BoundsAssumption DEF FetchFromList
<1>2. ListOf(Rest(k, n)) \in Rows /\ ListOf(Rest(k, n)).data = Rest(k, n)
  BY <1>1, RestTypes, RowsKinds, MadeFields
<1>3. busy' = [busy EXCEPT ![k] = FALSE]
  <2>1. rows[k].kind # "gen"
    BY DEF FetchFromList
  <2>2. ~busy[k]
    BY <2>1, AtCursor DEF Kept
  <2> QED BY <2>2 DEF FetchFromList, RowsInv, Typed
<1>4. Fetching(k) /\ HandOut(k, n) /\ rows' = [rows EXCEPT ![k] = ListOf(Rest(k, n))]
  BY DEF FetchFromList
<1> QED BY <1>1, <1>2, <1>3, <1>4, FetchKeeps

\* From a generator, which keeps its connection (cursor.py:157-184).
LEMMA FetchFromGeneratorKeeps ==
  ASSUME RowsInv, NEW k \in Cursors, NEW n \in 0..MaxRows, FetchFromGenerator(k, n)
  PROVE  RowsInv'
<1> DEFINE r == Generator(Rest(k, n), rows[k].live)
<1>1. n \in 0..Len(rows[k].data)
  BY AtCursor, BoundsAssumption DEF FetchFromGenerator
<1>2. rows[k].live \in BOOLEAN
  BY AtCursor
<1>3. r \in Rows
  BY <1>1, <1>2, RestTypes, RowsKinds
<1>4. r.data = Rest(k, n) /\ r.kind = "gen" /\ r.live = rows[k].live
  BY MadeFields
<1>5. Fetching(k) /\ HandOut(k, n) /\ rows' = [rows EXCEPT ![k] = r]
  BY DEF FetchFromGenerator, RowsInv, Typed
<1>6. busy[k] \in BOOLEAN /\ busy' = [busy EXCEPT ![k] = busy[k]]
  BY DEF FetchFromGenerator, RowsInv, Typed
<1>7. busy[k] => busy[k] /\ r.kind = "gen" /\ r.live
  BY <1>4, AtCursor DEF Kept
<1> HIDE DEF r
<1> QED BY <1>1, <1>3, <1>4, <1>5, <1>6, <1>7, FetchKeeps

\* A generator that has nothing more to give, and its client is free.
LEMMA FetchToTheEndKeeps ==
  ASSUME RowsInv, NEW k \in Cursors, FetchToTheEnd(k)
  PROVE  RowsInv'
<1> DEFINE n == Len(rows[k].data)
<1>1. n \in 0..Len(rows[k].data)
  BY AtCursor
<1>2. Rest(k, n) = <<>>
  BY <1>1, SubSeqEmpty DEF Rest
<1>3. Generator(<<>>, FALSE) \in Rows /\ Generator(<<>>, FALSE).data = Rest(k, n)
  BY <1>1, <1>2, RestTypes, RowsKinds, MadeFields
<1>4. /\ Fetching(k) /\ HandOut(k, n)
      /\ rows' = [rows EXCEPT ![k] = Generator(<<>>, FALSE)]
      /\ busy' = [busy EXCEPT ![k] = FALSE]
  BY DEF FetchToTheEnd
<1> HIDE DEF n
<1> QED BY <1>1, <1>3, <1>4, FetchKeeps

\* df and its relatives drop the rows they took (cursor.py:211-281).
LEMMA FetchColumnsKeeps ==
  ASSUME RowsInv, NEW k \in Cursors, FetchColumns(k)
  PROVE  RowsInv'
<1> DEFINE n == Len(rows[k].data)
<1>1. n \in 0..Len(rows[k].data)
  BY AtCursor
<1>2. Rest(k, n) = <<>>
  BY <1>1, SubSeqEmpty DEF Rest
<1>3. ListOf(<<>>) \in Rows /\ ListOf(<<>>).data = Rest(k, n)
  BY <1>1, <1>2, RestTypes, RowsKinds, MadeFields
<1>4. /\ Fetching(k) /\ HandOut(k, n)
      /\ rows' = [rows EXCEPT ![k] = ListOf(<<>>)]
      /\ busy' = [busy EXCEPT ![k] = FALSE]
  BY DEF FetchColumns
<1> HIDE DEF n
<1> QED BY <1>1, <1>3, <1>4, FetchKeeps

\* A generator that raises has nothing more to give, and what it took is lost.
LEMMA FetchFailsKeeps ==
  ASSUME RowsInv, NEW k \in Cursors, FetchFails(k)
  PROVE  RowsInv'
<1>1. <<>> \in Seq(Row)
  OBVIOUS
<1>2. Generator(<<>>, FALSE) \in Rows /\ Generator(<<>>, FALSE).data = <<>>
  BY <1>1, RowsKinds, MadeFields
<1>3. Typed'
  BY <1>2 DEF FetchFails, Fetching, RowsInv, Typed
<1>4. got[k] \o <<>> = got[k]
  BY AtCursor, ConcatEmptySeq
<1>5. Kept(state'[k], rows'[k], busy'[k], got'[k], result'[k])
  BY <1>2, <1>4 DEF FetchFails, Fetching, RowsInv, Typed, Kept
<1> QED BY <1>3, <1>5, OneCursor DEF FetchFails, Fetching, RowsInv, Typed

-----------------------------------------------------------------------------

\* At first no cursor has been made.
LEMMA InitRows == Init => RowsInv
<1> SUFFICES ASSUME Init PROVE RowsInv
  OBVIOUS
<1>1. <<>> \in Seq(Row) /\ NoRows \in Rows /\ 0 \in 0..MaxExecutes
  BY BoundsAssumption DEF Rows
<1>2. Typed
  BY <1>1 DEF Init, Typed, State
<1> QED BY <1>2 DEF Init, RowsInv, FetchedInOrder, BusyHasReader

\* Every step of a cursor or of the connection keeps what the cursors promise.
LEMMA StepKeepsRows == RowsInv /\ [Next]_vars => RowsInv'
<1> SUFFICES ASSUME RowsInv, [Next]_vars PROVE RowsInv'
  OBVIOUS
<1>1. CASE Close
  BY <1>1, CloseKeeps
<1>2. ASSUME NEW k \in Cursors, MakeCursor(k) \/ CloseCursor(k)
      PROVE  RowsInv'
  BY <1>2, MakeCursorKeeps, CloseCursorsKeeps DEF CloseCursor
<1>3. ASSUME NEW k \in Cursors, NEW on \in BOOLEAN, SetStreamResults(k, on)
      PROVE  RowsInv'
  BY <1>3, SetStreamResultsKeeps
<1>4. ASSUME NEW k \in Cursors, NEW n \in 0..MaxRows, Select(k, n)
      PROVE  RowsInv'
  BY <1>4, SelectKeeps
<1>5. ASSUME NEW k \in Cursors, Statement(k) \/ Fail(k)
      PROVE  RowsInv'
  BY <1>5, StatementKeeps, FailKeeps
<1>6. ASSUME NEW k \in Cursors, NEW n \in 0..MaxRows,
             FetchFromList(k, n) \/ FetchFromGenerator(k, n)
      PROVE  RowsInv'
  BY <1>6, FetchFromListKeeps, FetchFromGeneratorKeeps
<1>7. ASSUME NEW k \in Cursors, FetchToTheEnd(k) \/ FetchFails(k) \/ FetchColumns(k)
      PROVE  RowsInv'
  BY <1>7, FetchToTheEndKeeps, FetchFailsKeeps, FetchColumnsKeeps
<1>8. CASE UNCHANGED vars
  BY <1>8 DEF vars, history, RowsInv, Typed, FetchedInOrder, BusyHasReader
<1> QED BY <1>1, <1>2, <1>3, <1>4, <1>5, <1>6, <1>7, <1>8 DEF Next

\* The invariant behind the theorems below: what a cursor has handed out and
\* still holds are its result, and a blocked client has its reader.
THEOREM RowsInvariant == Spec => []RowsInv
BY InitRows, StepKeepsRows, PTL DEF Spec

\* After a query, the rows handed out and those still to come are the result,
\* each once and in order, whichever fetch methods are mixed
\* (cursor.py:148-209, 380-410).
THEOREM RowsInOrder == Spec => []FetchedInOrder
BY RowsInvariant, PTL DEF RowsInv

\* A client that is blocked by an unread result can be freed: its cursor still
\* holds the generator that reads it (cursor.py:380-410, 430-434).
THEOREM BlockedHasReader == Spec => []BusyHasReader
BY RowsInvariant, PTL DEF RowsInv

-----------------------------------------------------------------------------
(* The list of cursors *)

ListInv ==
  /\ cursors \in Seq(Cursors)
  /\ isClosed \in BOOLEAN
  /\ state \in [Cursors -> State]
  /\ OpenCursorsListed

Open(s) == s \notin {"absent", "closed"}

\* A step that keeps the list, and keeps open what is open, keeps ListInv.
LEMMA SameListKeeps ==
  ASSUME ListInv, cursors' = cursors, isClosed' = isClosed,
         state' \in [Cursors -> State],
         \A k \in Cursors: Open(state'[k]) <=> Open(state[k])
  PROVE  ListInv'
BY DEF ListInv, OpenCursorsListed, Open

\* A new cursor is listed last, and was not listed before (connection.py:88-99).
LEMMA MakeCursorLists ==
  ASSUME ListInv, NEW k \in Cursors, MakeCursor(k)
  PROVE  ListInv'
<1>1. /\ cursors' \in Seq(Cursors) /\ Len(cursors') = Len(cursors) + 1
      /\ \A i \in 1..Len(cursors): cursors'[i] = cursors[i]
      /\ cursors'[Len(cursors) + 1] = k
  BY DEF MakeCursor, ListInv
<1>2. \A i \in 1..Len(cursors): cursors[i] # k
  BY DEF MakeCursor, ListInv, OpenCursorsListed
<1>3. Len(cursors) \in Nat /\ DOMAIN cursors' = 1..(Len(cursors) + 1)
      /\ DOMAIN cursors = 1..Len(cursors)
  BY <1>1 DEF ListInv
<1>4. \A j \in Cursors: (\E i \in DOMAIN cursors': cursors'[i] = j)
                        <=> j = k \/ \E i \in DOMAIN cursors: cursors[i] = j
  BY <1>1, <1>3
<1>5. \A i, j \in DOMAIN cursors': cursors'[i] = cursors'[j] => i = j
  <2> SUFFICES ASSUME NEW i \in DOMAIN cursors', NEW j \in DOMAIN cursors',
                      cursors'[i] = cursors'[j]
               PROVE  i = j
    OBVIOUS
  <2>1. CASE i \in 1..Len(cursors) /\ j \in 1..Len(cursors)
    BY <2>1, <1>1, <1>3 DEF ListInv, OpenCursorsListed
  <2>2. CASE i = Len(cursors) + 1 \/ j = Len(cursors) + 1
    BY <2>2, <1>1, <1>2, <1>3
  <2> QED BY <1>3, <2>1, <2>2
<1>6. /\ state' \in [Cursors -> State] /\ isClosed' \in BOOLEAN
      /\ \A j \in Cursors: state'[j] = IF j = k THEN "none" ELSE state[j]
  BY DEF MakeCursor, ListInv, State
<1> QED BY <1>1, <1>4, <1>5, <1>6 DEF ListInv, OpenCursorsListed

\* What is left of a list without one of its places.
LEMMA WithoutPlace ==
  ASSUME NEW S, NEW s \in Seq(S), NEW i \in 1..Len(s),
         NEW t, t = SubSeq(s, 1, i - 1) \o SubSeq(s, i + 1, Len(s))
  PROVE  /\ t \in Seq(S) /\ Len(t) = Len(s) - 1
         /\ \A j \in 1..(Len(s) - 1): t[j] = s[IF j < i THEN j ELSE j + 1]
<1> DEFINE front == SubSeq(s, 1, i - 1)
           back  == SubSeq(s, i + 1, Len(s))
<1>1. Len(s) \in Nat /\ i - 1 \in Int /\ i + 1 \in Int
  OBVIOUS
<1>2. /\ front \in Seq(S) /\ Len(front) = i - 1
      /\ \A j \in 1..(i - 1): front[j] = s[j]
  <2>1. \A j \in 1..(i - 1): s[j] \in S
    OBVIOUS
  <2>2. i - 1 \in Nat
    OBVIOUS
  <2> QED BY <2>1, <2>2, FrontElements
<1>3. /\ back \in Seq(S) /\ Len(back) = Len(s) - i
      /\ \A j \in 1..(Len(s) - i): back[j] = s[i + j]
  <2>1. PICK n \in Nat: n = Len(s) - i
    OBVIOUS
  <2>2. i \in Nat /\ i + n = Len(s)
    BY <1>1, <2>1
  <2>3. \A j \in (i + 1)..(i + n): s[j] \in S
    BY <2>2
  <2>4. /\ SubSeq(s, i + 1, i + n) \in Seq(S)
        /\ Len(SubSeq(s, i + 1, i + n)) = n
        /\ \A j \in 1..n: SubSeq(s, i + 1, i + n)[j] = s[i + j]
    BY <2>2, <2>3, SliceElements
  <2> QED BY <2>1, <2>2, <2>4
<1> HIDE DEF front, back
<1>4. /\ front \o back \in Seq(S) /\ Len(front \o back) = Len(front) + Len(back)
      /\ \A j \in 1..(Len(front) + Len(back)):
           (front \o back)[j] = IF j <= Len(front) THEN front[j] ELSE back[j - Len(front)]
  BY <1>2, <1>3, ConcatProperties
<1>5. t = front \o back
  BY DEF front, back
<1>6. ASSUME NEW j \in 1..(Len(s) - 1)
      PROVE  t[j] = s[IF j < i THEN j ELSE j + 1]
  <2>1. CASE j < i
    <3>1. j \in 1..(i - 1) /\ j \in 1..(Len(front) + Len(back)) /\ j <= Len(front)
      BY <2>1, <1>1, <1>2, <1>3
    <3>2. t[j] = front[j]
      BY <3>1, <1>4, <1>5
    <3> QED BY <2>1, <3>1, <3>2, <1>2
  <2>2. CASE ~(j < i)
    <3>1. j - (i - 1) \in 1..(Len(s) - i) /\ i + (j - (i - 1)) = j + 1
      BY <2>2
    <3>2. /\ j \in 1..(Len(front) + Len(back)) /\ ~(j <= Len(front))
          /\ j - Len(front) = j - (i - 1)
      BY <2>2, <1>1, <1>2, <1>3
    <3>3. t[j] = back[j - (i - 1)]
      BY <3>2, <1>4, <1>5
    <3> QED BY <2>2, <3>1, <3>3, <1>3
  <2> QED BY <2>1, <2>2
<1>7. t \in Seq(S) /\ Len(t) = Len(s) - 1
  <2>1. t \in Seq(S) /\ Len(t) = Len(front) + Len(back)
    BY <1>4, <1>5
  <2>2. Len(front) + Len(back) = Len(s) - 1
    BY <1>1, <1>2, <1>3
  <2> QED BY <2>1, <2>2
<1> QED BY <1>6, <1>7

\* Cursor.close takes its cursor from the list, or finds that it is not there
\* (cursor.py:80-94).
LEMMA CloseCursorLists ==
  ASSUME ListInv, NEW k \in Cursors, CloseCursor(k)
  PROVE  ListInv'
<1>1. /\ state' \in [Cursors -> State] /\ isClosed' \in BOOLEAN
      /\ \A c \in Cursors: state'[c] = IF c = k THEN "closed" ELSE state[c]
  BY DEF CloseCursor, CloseCursors, ListInv, State
<1>2. CASE (\A i \in DOMAIN cursors: cursors[i] # k) /\ UNCHANGED cursors
  BY <1>1, <1>2 DEF ListInv, OpenCursorsListed
<1>3. ASSUME NEW i \in DOMAIN cursors, cursors[i] = k,
             cursors' = SubSeq(cursors, 1, i - 1) \o SubSeq(cursors, i + 1, Len(cursors))
      PROVE  ListInv'
  <2> DEFINE Old(j) == IF j < i THEN j ELSE j + 1
             New(j) == IF j < i THEN j ELSE j - 1
  <2>1. cursors \in Seq(Cursors) /\ i \in 1..Len(cursors) /\ Len(cursors) \in Nat
    BY DEF ListInv
  <2>2. /\ cursors' \in Seq(Cursors) /\ Len(cursors') = Len(cursors) - 1
        /\ \A j \in 1..(Len(cursors) - 1): cursors'[j] = cursors[Old(j)]
    BY <1>3, <2>1, WithoutPlace
  <2>3. DOMAIN cursors' = 1..(Len(cursors) - 1) /\ DOMAIN cursors = 1..Len(cursors)
    BY <2>1, <2>2
  <2>4. \A j \in DOMAIN cursors': Old(j) \in DOMAIN cursors /\ Old(j) # i
    BY <2>1, <2>3
  <2>5. \A j \in DOMAIN cursors: j # i => New(j) \in DOMAIN cursors' /\ Old(New(j)) = j
    BY <2>1, <2>3
  <2>6. \A j, m \in DOMAIN cursors': Old(j) = Old(m) => j = m
    BY <2>1, <2>3
  <2>7. \A j \in DOMAIN cursors': cursors'[j] = cursors[Old(j)]
    BY <2>2, <2>3
  <2> HIDE DEF Old, New
  <2>8. \A c \in Cursors: (\E j \in DOMAIN cursors': cursors'[j] = c)
                          <=> c # k /\ \E j \in DOMAIN cursors: cursors[j] = c
    <3> SUFFICES ASSUME NEW c \in Cursors
                 PROVE  (\E j \in DOMAIN cursors': cursors'[j] = c)
                          <=> c # k /\ \E j \in DOMAIN cursors: cursors[j] = c
      OBVIOUS
    <3>1. ASSUME NEW j \in DOMAIN cursors', cursors'[j] = c
          PROVE  c # k /\ \E m \in DOMAIN cursors: cursors[m] = c
      BY <3>1, <2>4, <2>7, <1>3 DEF ListInv, OpenCursorsListed
    <3>2. ASSUME NEW j \in DOMAIN cursors, cursors[j] = c, c # k
          PROVE  \E m \in DOMAIN cursors': cursors'[m] = c
      <4>1. New(j) \in DOMAIN cursors' /\ Old(New(j)) = j
        BY <3>2, <1>3, <2>5
      <4> QED BY <4>1, <3>2, <2>7
    <3> QED BY <3>1, <3>2
  <2>9. \A j, m \in DOMAIN cursors': cursors'[j] = cursors'[m] => j = m
    BY <2>4, <2>6, <2>7 DEF ListInv, OpenCursorsListed
  <2> QED BY <1>1, <2>2, <2>8, <2>9 DEF ListInv, OpenCursorsListed
<1> QED BY <1>2, <1>3 DEF CloseCursor

\* close() steps over every other cursor: those stay open, and listed
\* (connection.py:65-68).
LEMMA CloseLists ==
  ASSUME ListInv, Close
  PROVE  ListInv'
<1> DEFINE odd == {cursors[i] : i \in {j \in DOMAIN cursors : j % 2 = 1}}
           half == Len(cursors) \div 2
<1>1. cursors \in Seq(Cursors) /\ Len(cursors) \in Nat /\ DOMAIN cursors = 1..Len(cursors)
  BY DEF ListInv
<1>2. /\ half \in Nat
      /\ \A i \in 1..half: 2 * i \in DOMAIN cursors /\ (2 * i) % 2 # 1
  BY <1>1
<1>3. \A j \in DOMAIN cursors: j % 2 # 1 => j \div 2 \in 1..half /\ 2 * (j \div 2) = j
  BY <1>1
<1>4. cursors' = [i \in 1..half |-> cursors[2 * i]]
  BY DEF Close
<1> HIDE DEF half
<1>5. DOMAIN cursors' = 1..half /\ \A i \in 1..half: cursors'[i] = cursors[2 * i]
  BY <1>4
<1>6. cursors' \in Seq(Cursors)
  BY <1>1, <1>2, <1>4
<1>7. /\ state' \in [Cursors -> State] /\ isClosed' \in BOOLEAN
      /\ \A c \in Cursors: state'[c] = IF c \in odd THEN "closed" ELSE state[c]
  BY DEF Close, CloseCursors, ListInv, State
<1>8. \A c \in Cursors: (\E i \in DOMAIN cursors': cursors'[i] = c)
                        <=> c \notin odd /\ \E j \in DOMAIN cursors: cursors[j] = c
  <2> SUFFICES ASSUME NEW c \in Cursors
               PROVE  (\E i \in DOMAIN cursors': cursors'[i] = c)
                        <=> c \notin odd /\ \E j \in DOMAIN cursors: cursors[j] = c
    OBVIOUS
  <2>1. ASSUME NEW i \in DOMAIN cursors', cursors'[i] = c
        PROVE  c \notin odd /\ \E j \in DOMAIN cursors: cursors[j] = c
    <3>1. 2 * i \in DOMAIN cursors /\ (2 * i) % 2 # 1 /\ cursors[2 * i] = c
      BY <2>1, <1>2, <1>5
    <3> QED BY <3>1 DEF ListInv, OpenCursorsListed
  <2>2. ASSUME NEW j \in DOMAIN cursors, cursors[j] = c, c \notin odd
        PROVE  \E i \in DOMAIN cursors': cursors'[i] = c
    <3>1. j % 2 # 1
      BY <2>2
    <3>2. j \div 2 \in DOMAIN cursors' /\ 2 * (j \div 2) = j
      BY <3>1, <1>3, <1>5
    <3> QED BY <2>2, <3>2, <1>5
  <2> QED BY <2>1, <2>2
<1>9. \A i, j \in DOMAIN cursors': cursors'[i] = cursors'[j] => i = j
  <2> SUFFICES ASSUME NEW i \in DOMAIN cursors', NEW j \in DOMAIN cursors',
                      cursors'[i] = cursors'[j]
               PROVE  i = j
    OBVIOUS
  <2>1. 2 * i = 2 * j
    BY <1>2, <1>5 DEF ListInv, OpenCursorsListed
  <2> QED BY <2>1, <1>2, <1>5
<1> HIDE DEF odd
<1> QED BY <1>6, <1>7, <1>8, <1>9 DEF ListInv, OpenCursorsListed

\* At first the list is empty and no cursor is made.
LEMMA InitList == Init => ListInv
<1> SUFFICES ASSUME Init PROVE ListInv
  OBVIOUS
<1>1. cursors = <<>> /\ cursors \in Seq(Cursors) /\ DOMAIN cursors = {}
  BY DEF Init
<1>2. \A k \in Cursors: state[k] = "absent"
  BY DEF Init
<1>3. isClosed \in BOOLEAN /\ state \in [Cursors -> State]
  BY DEF Init, State
<1> QED BY <1>1, <1>2, <1>3 DEF ListInv, OpenCursorsListed

\* A query opens no cursor and closes none.
LEMMA QueryKeepsList ==
  ASSUME ListInv, NEW k \in Cursors, Begin(k), NEW s \in {"finished", "running"},
         state' = [state EXCEPT ![k] = s]
  PROVE  ListInv'
<1>1. /\ state' \in [Cursors -> State]
      /\ \A c \in Cursors: Open(state'[c]) <=> Open(state[c])
  BY DEF Begin, ListInv, State, Open
<1> QED BY <1>1, SameListKeeps DEF Begin

LEMMA StepKeepsList == ListInv /\ [Next]_vars => ListInv'
<1> SUFFICES ASSUME ListInv, [Next]_vars PROVE ListInv'
  OBVIOUS
<1>1. CASE Close
  BY <1>1, CloseLists
<1>2. ASSUME NEW k \in Cursors, MakeCursor(k) \/ CloseCursor(k)
      PROVE  ListInv'
  BY <1>2, MakeCursorLists, CloseCursorLists
<1>3. ASSUME NEW k \in Cursors, NEW n \in 0..MaxRows, Select(k, n)
      PROVE  ListInv'
  BY <1>3, QueryKeepsList DEF Select, Finish
<1>4. ASSUME NEW k \in Cursors, Statement(k) \/ Fail(k)
      PROVE  ListInv'
  BY <1>4, QueryKeepsList DEF Statement, Fail, Finish
<1>5. ASSUME cursors' = cursors, isClosed' = isClosed, state' = state
      PROVE  ListInv'
  BY <1>5 DEF ListInv, OpenCursorsListed
<1>6. ASSUME NEW k \in Cursors, NEW on \in BOOLEAN, SetStreamResults(k, on)
      PROVE  ListInv'
  BY <1>5, <1>6 DEF SetStreamResults
<1>7. ASSUME NEW k \in Cursors, NEW n \in 0..MaxRows,
             FetchFromList(k, n) \/ FetchFromGenerator(k, n)
      PROVE  ListInv'
  BY <1>5, <1>7 DEF FetchFromList, FetchFromGenerator, Fetching
<1>8. ASSUME NEW k \in Cursors, FetchToTheEnd(k) \/ FetchFails(k) \/ FetchColumns(k)
      PROVE  ListInv'
  BY <1>5, <1>8 DEF FetchToTheEnd, FetchFails, FetchColumns, Fetching
<1>9. CASE UNCHANGED vars
  BY <1>5, <1>9 DEF vars
<1> QED BY <1>1, <1>2, <1>3, <1>4, <1>6, <1>7, <1>8, <1>9 DEF Next

\* The connection lists the cursors that are not closed, each once, whatever
\* close() steps over (cursor.py:80-94, connection.py:65-68, 82-99).
THEOREM ListedAreOpen == Spec => []OpenCursorsListed
<1>1. Spec => []ListInv
  BY InitList, StepKeepsList, PTL DEF Spec
<1> QED BY <1>1, PTL DEF ListInv

\* Every state of a connection and its cursors has its type (dbapi/connection.py,
\* dbapi/cursor.py).
THEOREM TypeCorrect == Spec => []TypeOK
<1>1. Spec => []ListInv
  BY InitList, StepKeepsList, PTL DEF Spec
<1>2. ListInv /\ RowsInv => TypeOK
  BY DEF ListInv, RowsInv, Typed, TypeOK
<1> QED BY <1>1, <1>2, RowsInvariant, PTL

-----------------------------------------------------------------------------
(* Closed cursors *)

StaysClosed == \A k \in Cursors: state[k] = "closed" => state'[k] = "closed" /\ ~busy'[k]

\* A query is begun on open cursors only (cursor.py:436-438).
LEMMA QueryStaysClosed ==
  ASSUME RowsInv, NEW k \in Cursors, Begin(k), NEW s, state' = [state EXCEPT ![k] = s],
         NEW b, busy' = [busy EXCEPT ![k] = b] \/ UNCHANGED busy
  PROVE  StaysClosed
BY DEF Begin, StaysClosed, RowsInv, Typed, BusyHasReader

\* Where a cursor is neither opened nor blocked, nothing closed changes.
LEMMA QuietStaysClosed ==
  ASSUME RowsInv, \A k \in Cursors: state'[k] = state[k] \/ state'[k] = "closed"
                                                  \/ state[k] = "absent",
         \A k \in Cursors: busy'[k] => busy[k]
  PROVE  StaysClosed
BY DEF StaysClosed, RowsInv, Typed, BusyHasReader

LEMMA StepStaysClosed == RowsInv /\ [Next]_vars => StaysClosed
<1> SUFFICES ASSUME RowsInv, [Next]_vars PROVE StaysClosed
  OBVIOUS
<1>1. CASE Close
  BY <1>1, QuietStaysClosed DEF Close, CloseCursors
<1>2. ASSUME NEW k \in Cursors, MakeCursor(k) \/ CloseCursor(k)
      PROVE  StaysClosed
  <2>1. \A c \in Cursors: state'[c] = state[c] \/ state'[c] = "closed" \/ state[c] = "absent"
    BY <1>2 DEF MakeCursor, CloseCursor, CloseCursors, RowsInv, Typed
  <2>2. \A c \in Cursors: busy'[c] => busy[c]
    BY <1>2 DEF MakeCursor, CloseCursor, CloseCursors
  <2> QED BY <2>1, <2>2, QuietStaysClosed
<1>3. ASSUME NEW k \in Cursors, NEW n \in 0..MaxRows, Select(k, n)
      PROVE  StaysClosed
  BY <1>3, QueryStaysClosed DEF Select, Finish
<1>4. ASSUME NEW k \in Cursors, Statement(k) \/ Fail(k)
      PROVE  StaysClosed
  BY <1>4, QueryStaysClosed DEF Statement, Fail, Finish
<1>5. ASSUME NEW k \in Cursors, NEW on \in BOOLEAN, SetStreamResults(k, on)
      PROVE  StaysClosed
  BY <1>5, QuietStaysClosed DEF SetStreamResults
<1>6. ASSUME NEW k \in Cursors, NEW n \in 0..MaxRows,
             FetchFromList(k, n) \/ FetchFromGenerator(k, n)
      PROVE  StaysClosed
  BY <1>6, QuietStaysClosed DEF FetchFromList, FetchFromGenerator, Fetching
<1>7. ASSUME NEW k \in Cursors, FetchToTheEnd(k) \/ FetchFails(k) \/ FetchColumns(k)
      PROVE  StaysClosed
  <2>1. state' = state
    BY <1>7 DEF FetchToTheEnd, FetchFails, FetchColumns, Fetching
  <2>2. \A c \in Cursors: busy'[c] => busy[c]
    BY <1>7 DEF FetchToTheEnd, FetchFails, FetchColumns, RowsInv, Typed
  <2> QED BY <2>1, <2>2, QuietStaysClosed
<1>8. CASE UNCHANGED vars
  BY <1>8, QuietStaysClosed DEF vars
<1> QED BY <1>1, <1>2, <1>3, <1>4, <1>5, <1>6, <1>7, <1>8 DEF Next

\* A closed cursor runs no query again and its client stays disconnected
\* (cursor.py:436-438).
THEOREM ClosedForGood == Spec => ClosedStaysClosed
<1>1. RowsInv /\ [Next]_vars
        => [\A k \in Cursors: state[k] = "closed" => state'[k] = "closed" /\ ~busy'[k]]_vars
  BY StepStaysClosed DEF StaysClosed
<1> QED BY <1>1, RowsInvariant, PTL DEF Spec, ClosedStaysClosed
=============================================================================

------------------------------- MODULE DbApi -------------------------------
(***************************************************************************)
(* The DB API layer: one Connection (dbapi/connection.py) and its cursors  *)
(* (dbapi/cursor.py).  Each cursor has a Client of its own; of the client  *)
(* only what the cursor can observe is kept: a query that was streamed and *)
(* not read to its end blocks the next one.                                *)
(*                                                                         *)
(*   cursors, isClosed   Connection.cursors, Connection.is_closed          *)
(*   state               Cursor._state; "absent" before it is made         *)
(*   stream              Cursor._stream_results                            *)
(*   rows                Cursor._rows: None, a list, or the generator of   *)
(*                       execute_iter; `data' is what it will still give,  *)
(*                       `live' whether the generator has a connection     *)
(*   busy                the client's is_query_executing                   *)
(*   result, got         history: the rows the last execute promised, less *)
(*                       those lost in a fetch that raised, and the rows   *)
(*                       handed out since, in order                        *)
(*   executes            executes so far                                   *)
(***************************************************************************)
EXTENDS Integers, Sequences, FiniteSets

CONSTANTS Cursors,      \* the cursors an application may make
          MaxRows,      \* bound: rows of a result
          MaxExecutes   \* bound: execute and executemany calls

ASSUME BoundsAssumption == MaxRows \in Nat /\ MaxExecutes \in Nat

VARIABLES cursors, isClosed, state, stream, rows, busy, result, got, executes

history == <<result, got, executes>>
vars == <<cursors, isClosed, state, stream, rows, busy, history>>

State == {"absent", "none", "running", "finished", "closed"}
Row   == [execute: 1..MaxExecutes, n: 1..MaxRows]

NoRows       == [kind |-> "none", data |-> <<>>, live |-> FALSE]
ListOf(data) == [kind |-> "list", data |-> data, live |-> FALSE]
Generator(data, live) == [kind |-> "gen", data |-> data, live |-> live]

Rows == {NoRows} \cup [kind: {"list"}, data: Seq(Row), live: {FALSE}]
        \cup [kind: {"gen"}, data: Seq(Row), live: BOOLEAN]

TypeOK ==
  /\ cursors \in Seq(Cursors)
  /\ isClosed \in BOOLEAN
  /\ state \in [Cursors -> State]
  /\ stream \in [Cursors -> BOOLEAN]
  /\ rows \in [Cursors -> Rows]
  /\ busy \in [Cursors -> BOOLEAN]
  /\ result \in [Cursors -> Seq(Row)]
  /\ got \in [Cursors -> Seq(Row)]
  /\ executes \in 0..MaxExecutes

Init ==
  /\ cursors = <<>>
  /\ isClosed = FALSE
  /\ state = [k \in Cursors |-> "absent"]
  /\ stream = [k \in Cursors |-> FALSE]
  /\ rows = [k \in Cursors |-> NoRows]
  /\ busy = [k \in Cursors |-> FALSE]
  /\ result = [k \in Cursors |-> <<>>]
  /\ got = [k \in Cursors |-> <<>>]
  /\ executes = 0

-----------------------------------------------------------------------------
(* Connection *)

\* Connection.cursor; on a closed connection it raises InterfaceError.
MakeCursor(k) ==
  /\ ~isClosed
  /\ state[k] = "absent"
  /\ state' = [state EXCEPT ![k] = "none"]
  /\ cursors' = Append(cursors, k)
  /\ UNCHANGED <<isClosed, stream, rows, busy, history>>

\* What is left of rows when the client disconnects: a list is the cursor's
\* own; of a generator only the block that has already been read.
CutOff(r) ==
  IF r.kind = "gen" /\ r.live
    THEN {Generator(SubSeq(r.data, 1, n), FALSE) : n \in 0..Len(r.data)}
    ELSE {r}

\* Cursor.close on each cursor of a set: the client disconnects.
CloseCursors(set) ==
  /\ state' = [k \in Cursors |-> IF k \in set THEN "closed" ELSE state[k]]
  /\ busy' = [k \in Cursors |-> busy[k] /\ k \notin set]
  /\ rows' \in [Cursors -> UNION {CutOff(rows[k]) : k \in Cursors}]
  /\ \A k \in Cursors: IF k \in set THEN rows'[k] \in CutOff(rows[k])
                                    ELSE rows'[k] = rows[k]
  /\ UNCHANGED <<stream, history>>

\* Cursor.close; `cursors.remove(self)' takes the first place it finds, and on
\* ValueError `cursor can be already closed'.
CloseCursor(k) ==
  /\ state[k] # "absent"
  /\ CloseCursors({k})
  /\ \/ \E i \in DOMAIN cursors:
          /\ cursors[i] = k /\ \A j \in 1..(i - 1): cursors[j] # k
          /\ cursors' = SubSeq(cursors, 1, i - 1) \o SubSeq(cursors, i + 1, Len(cursors))
     \/ (\A i \in DOMAIN cursors: cursors[i] # k) /\ UNCHANGED cursors
  /\ UNCHANGED isClosed

\* Mutant: the cursors are closed from a copy of the list and stay listed.
CloseUnlisted ==
  /\ isClosed' = TRUE
  /\ CloseCursors({cursors[i] : i \in DOMAIN cursors})
  /\ UNCHANGED cursors

\* `for cursor in self.cursors: cursor.close()': each close removes its cursor
\* from the list that is being walked, so the walk steps over the next one.
Close ==
  /\ isClosed' = TRUE
  /\ CloseCursors({cursors[i] : i \in {j \in DOMAIN cursors : j % 2 = 1}})
  /\ cursors' = [i \in 1..(Len(cursors) \div 2) |-> cursors[2 * i]]

-----------------------------------------------------------------------------
(* Cursor.execute and executemany *)

\* The application sets the mode between queries, once it has the rows: a list
\* is empty, a generator exhausted.
SetStreamResults(k, on) ==
  /\ state[k] \notin {"absent", "closed"}
  /\ rows[k].data = <<>> /\ (rows[k].kind = "gen" => ~rows[k].live)
  /\ stream[k] # on
  /\ stream' = [stream EXCEPT ![k] = on]
  /\ UNCHANGED <<cursors, isClosed, state, rows, busy, history>>

\* Mutant: no _check_cursor_closed.
BeginUnchecked(k) ==
  /\ state[k] # "absent"
  /\ executes < MaxExecutes
  /\ executes' = executes + 1
  /\ UNCHANGED <<cursors, isClosed, stream>>

\* _check_cursor_closed passes; _begin_query.
Begin(k) ==
  /\ state[k] \notin {"absent", "closed"}
  /\ executes < MaxExecutes
  /\ executes' = executes + 1
  /\ UNCHANGED <<cursors, isClosed, stream>>

\* _process_response and _end_query: the rows of the cursor are `r', and it will
\* hand out `data'.
Finish(k, r, data) ==
  /\ state' = [state EXCEPT ![k] = "finished"]
  /\ rows' = [rows EXCEPT ![k] = r]
  /\ result' = [result EXCEPT ![k] = data]
  /\ got' = [got EXCEPT ![k] = <<>>]

\* A SELECT of n rows, as a list or streamed.
Select(k, n) ==
  /\ Begin(k)
  /\ ~busy[k]
  /\ LET data == [i \in 1..n |-> [execute |-> executes', n |-> i]] IN
     \/ /\ ~stream[k]
        /\ Finish(k, ListOf(data), data)
        /\ UNCHANGED busy
     \/ /\ stream[k]
        /\ Finish(k, Generator(data, TRUE), data)
        /\ busy' = [busy EXCEPT ![k] = TRUE]

\* A statement without a result, whose response is ([], []), or an INSERT, whose
\* response is a number. Streamed, execute raises (see Fail): the first has no
\* first element to take, and execute_iter takes no list of rows.
Statement(k) ==
  /\ Begin(k)
  /\ ~busy[k] /\ ~stream[k]
  /\ Finish(k, ListOf(<<>>), <<>>)
  /\ UNCHANGED busy

\* Mutant: a failed query leaves the client as it is.
FailKeepingClient(k) ==
  /\ Begin(k)
  /\ state' = [state EXCEPT ![k] = "running"]
  /\ \E r \in CutOff(rows[k]): rows' = [rows EXCEPT ![k] = r]
  /\ busy' = busy
  /\ result' = [result EXCEPT ![k] = <<>>]
  /\ got' = [got EXCEPT ![k] = <<>>]

\* The query is refused because the last one is not read to its end, or fails:
\* the client disconnects, execute raises, and _end_query is not reached.
Fail(k) ==
  /\ Begin(k)
  /\ state' = [state EXCEPT ![k] = "running"]
  /\ \E r \in CutOff(rows[k]): rows' = [rows EXCEPT ![k] = r]
  /\ busy' = [busy EXCEPT ![k] = FALSE]
  /\ result' = [result EXCEPT ![k] = <<>>]
  /\ got' = [got EXCEPT ![k] = <<>>]

-----------------------------------------------------------------------------
(* The fetch methods: refused before the first query only *)

Fetching(k) ==
  /\ state[k] \notin {"absent", "none"}
  /\ UNCHANGED <<cursors, isClosed, state, stream, executes>>

HandOut(k, n) ==
  /\ got' = [got EXCEPT ![k] = @ \o SubSeq(rows[k].data, 1, n)]
  /\ UNCHANGED result

Rest(k, n) == SubSeq(rows[k].data, n + 1, Len(rows[k].data))

\* fetchone, fetchmany(n), fetchall on a list: the rows handed out leave it.
FetchFromList(k, n) ==
  /\ Fetching(k)
  /\ ~stream[k] /\ rows[k].kind = "list" /\ n <= Len(rows[k].data)
  /\ HandOut(k, n)
  /\ rows' = [rows EXCEPT ![k] = ListOf(Rest(k, n))]
  /\ UNCHANGED busy

\* Mutant: fetchmany throws away the rows it does not hand out.
FetchFromGeneratorDropping(k, n) ==
  /\ Fetching(k)
  /\ stream[k] /\ rows[k].kind = "gen" /\ n <= Len(rows[k].data)
  /\ HandOut(k, n)
  /\ rows' = [rows EXCEPT ![k].data = <<>>]
  /\ UNCHANGED busy

\* fetchone, fetchmany(n) on a generator that has n rows to give.
FetchFromGenerator(k, n) ==
  /\ Fetching(k)
  /\ stream[k] /\ rows[k].kind = "gen" /\ n <= Len(rows[k].data)
  /\ HandOut(k, n)
  /\ rows' = [rows EXCEPT ![k] = Generator(Rest(k, n), @.live)]
  /\ UNCHANGED busy

\* They ask for more than it has: END_OF_STREAM is read, and the client is free.
FetchToTheEnd(k) ==
  /\ Fetching(k)
  /\ stream[k] /\ rows[k].kind = "gen" /\ rows[k].live
  /\ HandOut(k, Len(rows[k].data))
  /\ rows' = [rows EXCEPT ![k] = Generator(<<>>, FALSE)]
  /\ busy' = [busy EXCEPT ![k] = FALSE]

\* The generator raises: its connection fails or was closed. What fetchmany and
\* fetchall had taken from it is lost, and it has nothing more to give. So it
\* is when df, pl or arrow find columns of different lengths.
FetchFails(k) ==
  /\ Fetching(k)
  /\ stream[k] /\ rows[k].kind = "gen"
  /\ rows' = [rows EXCEPT ![k] = Generator(<<>>, FALSE)]
  /\ busy' = [busy EXCEPT ![k] = FALSE]
  /\ result' = [result EXCEPT ![k] = got[k]]
  /\ UNCHANGED got

\* Mutant: the generator is replaced by [] without having been read.
FetchColumnsUnread(k) ==
  /\ Fetching(k)
  /\ rows[k].kind # "none"
  /\ rows' = [rows EXCEPT ![k].kind = "list", ![k].data = <<>>]
  /\ UNCHANGED <<busy, result, got>>

\* df, fetchnumpy, pl and arrow walk the rows once for each column, then drop
\* them, in either mode. (Of a generator the first column takes all and the
\* others get nothing.) So does fetchall with an exhausted generator when the
\* mode was set to lists after it; fetchone and fetchmany raise on one.
FetchColumns(k) ==
  /\ Fetching(k)
  /\ \/ rows[k].kind = "list"
     \/ rows[k].kind = "gen" /\ (rows[k].live \/ rows[k].data = <<>>)
  /\ HandOut(k, Len(rows[k].data))
  /\ rows' = [rows EXCEPT ![k] = ListOf(<<>>)]
  /\ busy' = [busy EXCEPT ![k] = FALSE]

-----------------------------------------------------------------------------

Next ==
  \/ Close
  \/ \E k \in Cursors:
       \/ MakeCursor(k) \/ CloseCursor(k)
       \/ \E on \in BOOLEAN: SetStreamResults(k, on)
       \/ \E n \in 0..MaxRows: Select(k, n)
       \/ Statement(k) \/ Fail(k)
       \/ \E n \in 0..MaxRows: FetchFromList(k, n) \/ FetchFromGenerator(k, n)
       \/ FetchToTheEnd(k) \/ FetchFails(k) \/ FetchColumns(k)

Spec == Init /\ [][Next]_vars

-----------------------------------------------------------------------------

\* After a query, the rows handed out and those still to come are the result,
\* each once and in order, whichever fetch methods are mixed
\* (cursor.py:148-209, 380-410).
FetchedInOrder ==
  \A k \in Cursors: state[k] = "finished" => got[k] \o rows[k].data = result[k]

\* A client that is blocked by an unread result can be freed: its cursor still
\* holds the generator that reads it (cursor.py:380-410, 430-434).
BusyHasReader ==
  \A k \in Cursors: busy[k] => /\ state[k] = "finished"
                               /\ rows[k].kind = "gen" /\ rows[k].live

\* The connection lists the cursors that are not closed, each once, whatever
\* close() steps over (cursor.py:80-94, connection.py:65-68, 82-99).
OpenCursorsListed ==
  /\ \A k \in Cursors: state[k] \notin {"absent", "closed"}
                         <=> \E i \in DOMAIN cursors: cursors[i] = k
  /\ \A i, j \in DOMAIN cursors: cursors[i] = cursors[j] => i = j

\* A closed cursor runs no query again and its client stays disconnected
\* (cursor.py:436-438).
ClosedStaysClosed ==
  [][\A k \in Cursors: state[k] = "closed" => state'[k] = "closed" /\ ~busy'[k]]_vars

-----------------------------------------------------------------------------
(* What docstrings say and the code does not do *)

\* Connection.close: "The same applies to all cursor objects trying to use the
\* connection" (connection.py:57-64).
ClosedMeansAllClosed ==
  isClosed => \A k \in Cursors: state[k] \in {"absent", "closed"}
=============================================================================

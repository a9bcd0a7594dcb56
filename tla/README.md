# A TLA+ model of proton_driver

`proton_driver` is a Python driver for the native TCP protocol of Timeplus Proton. This
directory holds TLA+ modules translated from its source (`src/proton_driver/`), the TLC
configurations that check them, and theorems about them that TLAPS checks. `PROJECT.json`
maps every definition to the lines it stands for.

## 1. The system

| component | source | state it keeps | operations |
|---|---|---|---|
| Client | `client.py` | `last_query`, settings | `execute`, `execute_with_progress`, `execute_iter`, `cancel`, `disconnect`, the receive loops |
| Connection | `connection.py` | `hosts`, `connected`, `is_query_executing`, socket and buffers | `force_connect`, `connect`, `ping`, `disconnect`/`reset_state`, `send_query`, `send_data`, `send_cancel`, `receive_packet` |
| Execution guard | `connection.py:664-676` | `_lock`, `is_query_executing` | `check_query_execution` |
| Results | `result.py`, `numpy/result.py` | a packet generator, rows, progress totals | `get_result`, `__next__`, `store` |
| Buffered reading, writing | `bufferedreader.pyx`, `bufferedwriter.pyx` and the C they become | `position`, `current_buffer_size`, `buffer` | `read`, `read_one`, `read_strings`, `read_fixed_strings`; `write`, `flush`, `write_strings`, `write_fixed_strings` |
| Varint, large integers | `varint.pyx`, `columns/largeint.pyx` and their C | none | `make_varint`, `write_varint`, `read_varint`; to and from quads |
| DB API | `dbapi/` | connection: `cursors`, `is_closed`, `_hosts`; cursor: `_state`, `_rows`, `_columns`, `_rowcount` | `cursor`, `close`; `execute`, `executemany`, `fetch*`, `close` |
| Chunking | `util/helpers.py`, `numpy/helpers.py` | generators | `chunks`, `column_chunks` |
| Blocks and streams | `block.py`, `streams/native.py` | the data of a block | `normalize`, `write`, `read` |
| Columns | `columns/` | a column's item list and dictionary, for one call | `write_data`, `read_data`, state prefixes |
| Compression | `compression/`, `streams/compressed.py` | one frame | `get_compressed_data`, `get_decompressed_data` |
| Settings, parameters, client information, errors | `settings/`, `util/`, `clientinfo.py`, `errors.py` | none that outlives a call | formatting |

How they interact: a `Client` owns one `Connection`; a query method checks the flag
`is_query_executing`, connects or pings, sends the query and then reads packets until
`END_OF_STREAM` or `EXCEPTION`. The two streaming methods return before anything is read and
leave a generator with the application, which reads the same connection later, in between or
never. Packets carry no query id: that an answer belongs to the query just sent is a property
of the whole history of the connection. A DB API connection creates one `Client` per cursor
and lets all of them share one deque of hosts.

What is hard: answers that are read late, partly or not at all; the flag, the ping and the
disconnects that keep the two ends in step in spite of that; failures between any two steps,
in particular inside an INSERT and inside connect; results that outlive their connection;
clients of several threads that share `hosts`; a lock that is taken without waiting; buffers at
their limits; data that is cut into blocks and columns that nest, in a stream that does not say
which part of them a byte belongs to; numbers at the edge of their width.
`PROJECT.json` lists these hazards with their lines and the properties that cover them.

What makes each part correct:

- *Client, Connection*: every call gets its own, complete answer or raises; a query never
  reaches a server that is still busy; a query is refused only because of a result that was
  left unread, whatever failed in between; every call ends when the server stops sending.
- *Connecting*: a host that is up is found, remembered, and found again.
- *DB API*: rows leave a cursor once and in order; a client that is blocked can be freed; a
  connection knows its cursors and closing it closes them.
- *Guard*: of two threads that start a query on one connection, one is stopped.
- *Data*: what an INSERT is given arrives once, in order and in shape, or the INSERT raises;
  the reader of a block ends where its writer did.
- *Codecs*: a value that is written is the value that is read, at every width, and what is not
  a value raises.
- *Buffers*: the bytes that come out are those that went in, wherever they are cut; a reader
  never waits for more than it needs.

## 2. The modules

```
Protocol --- ServerSession --- ProtonClient --- ProtonClientInv --- MCProtonClient
                                                    |         |
                         CallContract (abstract) ---+   ProtonClientProofs

Failover --- MCFailover, FailoverProofs            DbApi --- MCDbApi, DbApiProofs

QueryGuard

Lists --- TokenBuffer --- ColumnTypes --- ColumnProofs === Columns    (four levels of nesting)
Columns --+-- BlockStream ---+-- MCBlockStream ----------------------+-- MCCodecs
Chunks ---+                  +-- BlockStreamProofs                   |
Varint, LargeInt, FixedStrings, Frames --- ValueCodecs --+-----------+
                                                         +-- CodecProofs

Socket --+-- BufferedReader --+-- BufferedChannel --- BufferedLink --+-- MCBufferedLink --- MCCodecs
         +-- BufferedWriter --+         |                            +-- BufferedLinkProofs
                                   ByteStream (abstract)
SliceLemmas --- BufferedLinkProofs, CodecProofs, DbApiProofs, ColumnProofs, BlockStreamProofs
```

A line means EXTENDS; `===` is INSTANCE.

| module | models | how it corresponds to the code |
|---|---|---|
| `Protocol` | packet types | types whose handling is the same share a name; the sets say which loop takes which packet |
| `ServerSession` | the server's end of one connection (external) | as permissive as the client's code allows: at any time it may send blocks, progress, unknown packets, an exception, or nothing; it may go on sending for ever, and it may close |
| `ProtonClient` | `Client` and its `Connection` in one thread | an action is the code between two waits for the network; `stage` is the place in the handler. `force_connect` is `Refuse` / `ForceConnect`, `ping` the `Ping*` actions, `connect` the `Connect*` actions, `send_query` is `SendQuery`, the INSERT is `ReceiveSampleBlock` to `ReceiveEndOfQuery`, `packet_generator` and `receive_packet` are the `Receive*` actions, `disconnect_on_error` is `RaiseAndDisconnect`, what raises outside its `try` is `FailAtOnce`. A result that outlives its call has status "live"; `Pull` advances it, `Abandon` drops it |
| `CallContract` | abstract: each call is a stream of its own | source and sink per call; `ProtonClientInv` maps rows and answers to them |
| `Failover` | `connect()` of several clients, one thread each | a turn of the loop is three steps: `self.hosts[0]` is read, the attempt ends, `rotate(-1)`; so another thread may rotate the same deque in between |
| `DbApi` | `dbapi.Connection`, `dbapi.Cursor` | one action per method and outcome; of the client only its flag is kept |
| `QueryGuard` | `check_query_execution` | one action per statement, for threads that share a `Client`; connecting is a step, and `disconnect_on_error` runs in whichever thread raised |
| `Chunks` | `chunks`, `column_chunks`, numpy's `column_chunks` | pure operators from data to its chunks |
| `TokenBuffer`, `Lists` | what a block's columns are written to | a token knows its part, so a reader that lost its place is found out |
| `ColumnTypes` | `columns/`, one level of a type | each type's writer and reader as operators from items to tokens and back; those of the nested columns are constants, as a column object holds its nested ones |
| `Columns` | `write_column`, `read_column`, state prefixes | four instances of `ColumnTypes`, each over the one below: columns that nest three deep |
| `BlockStream` | `send_data`, `send_external_tables`, `block.py`, `streams/native.py`, `QueryResult.store` | `SendBlock` is a turn of the loop of `send_data`, `ReceiveBlock` of the reader |
| `Varint`, `LargeInt`, `FixedStrings`, `Frames` | the C functions, the compressed block | pure operators with their widths as constants |
| `ValueCodecs` | the same, on a stream with other data behind | a value is written, read, or raises |
| `Socket`, `BufferedReader`, `BufferedWriter` | the two buffers | an action is a turn of a loop; what a call keeps in local variables is state, because `recv_into` may give any part of what was sent |
| `ByteStream` | abstract: bytes in, the same bytes out | `accepted` and `delivered` |
| `BufferedChannel` | both buffers at the ends of a socket, asked for anything | refines `ByteStream` |
| `BufferedLink` | the same with an agreed format: `read`, `read_one`, `read_strings` and what writes them | adds varints, the items and the liveness of reading |

Definitions marked `Mutant` are bugs somebody could make in the definition below them. No
`Next` uses them; replacing the definition by its mutant must break the property that
`PROJECT.json` names ("mutants"), which shows that the property depends on that code.

Abstractions a reader should know:

- A block is a call and a number; what is in it is not kept. A query and its external tables
  are one message, since one call chain writes them.
- `FailAtOnce` takes a CANCEL that could not be sent as lost; that the writer keeps its byte
  and the next flush would send it is not modelled. For a query it stands for settings that
  `make_query_settings` does not accept (`client.py:233`): the call raises and nothing is reset.
- `stage` and the socket are one connection: `Disconnect` empties both directions and the
  server forgets the session.
- `DbApi`: the mode of a cursor is changed only when it has no rows to give (an empty list, an
  exhausted generator); `executemany` of
  something that is not an INSERT is left out; a streamed statement without rows raises
  inside `execute` and is a `Fail`. That a reconnect loses the flag is `ProtonClient`'s
  subject and is not repeated.
- A buffered reader or writer whose socket raised is not used again (its owner disconnects).
  In these modules a varint has no width; `Varint` has it. `CompressedBufferedReader` takes its
  bytes from decompressed blocks but has the same loops; what a block must be is in `Frames`.
- `ColumnTypes`: every type that codes its items one by one is `int`; a value of a nested type is
  made of numbers and `Null`. `Columns` stops at arrays, maps and tuples three deep in one another
  (`MaxNesting`), where `columns/` recurs as deep as a type's name does. `Frames`: a hash or a size is one token, CityHash has no collisions
  and the libraries are one to one, since they are not this repository's.
- `QueryGuard`: `connect()` is called on closed connections only and pings succeed; what
  `connect()` does to the flag of an open one is in `ProtonClient`.
- `Return` puts values into one list, whether `read` returns them or `read_strings` collects
  them in its tuple.

*The compiled modules.* `bufferedreader`, `bufferedwriter`, `varint` and `columns/largeint` are
there as Cython and as the C generated from it, which is what is built. The map points to the C:
it is there that an addition wraps and a shift loses bits. An eighth of those 55,000 lines are
the bodies of the driver's functions; the rest is Cython's runtime, the same in each file:
argument parsing, types and pickling, exceptions, conversion of numbers. It is not the driver's
logic, and no line of it is in the map; so the share of C lines the map covers stays small,
although hardly a function of the driver's is missing.

## 3. What is checked

`tlc -config X.cfg M` for each run of `PROJECT.json`. A run whose outcome is "violation" shows
a disagreement between the code and what it, its tests or its documentation say; section 5.

| run | module, bounds | shows |
|---|---|---|
| `sync` | MCProtonClient; 3 calls of execute and execute_iter, 1 block, 2 packets in flight, 2 hosts | types, the inductive invariant `IInv`, `CompleteAnswer`, `OwnRows`, `QueryMeetsIdleServer`, `InFlightIsLastQuery`, `LastQueryPresent`, `RefusalJustified`, `CallReturns`, with results advanced after their query was superseded and a server that need never stop sending |
| `contract` | MCProtonClient; 3 calls of INSERT, execute_iter, execute_with_progress; 2 blocks, 1 packet in flight | `AnswerInv`, `KeepsContract` (refinement of `CallContract`), `StreamedAnswer`, `QueryMeetsIdleServer`, `CompletionLeavesQuiet`, `RefusedForUnreadResult`, for an application that does not advance superseded results |
| `failover_mixed` | MCFailover; 3 clients, one with a deque of its own and two that share one; 2 hosts | `WalkInv`, `MissedOnlyIfDisturbed`, `LastHostRemembered`, `ConnectedUnlessHungUp` |
| `dbapi_cursors` | MCDbApi; 3 cursors, 2 rows, 3 executes | `FetchedInOrder`, `BusyHasReader`, `OpenCursorsListed`, `ClosedStaysClosed` |
| `codecs` | MCCodecs; one of three levels in each behaviour. Bytes: buffers of 3 bytes, 2 items of 6 kinds, varint digits 0 and 1. Values: every value of the scaled widths. Blocks: 17 types of column, tables of up to 8 rows, in one block or in blocks of 1 to 3 | what is written is what is read. Bytes: `ReaderInv`, `WriterInv`, `LinkInv`, `RoundTrip`, `ReadReturns`, `ImplementsByteStream`. Values: `VarintsAreRead`, `LargeIntsAreRead`, `FixedStringsAreRead`, `CorruptIsNeverRead`. Blocks: `ArrivesAsGiven`, `RaggedIsRefused`, `RowsCounted`, `OnlyNumpyExceeds`, and the inductive invariant `BlockInv` behind these |
| `unguarded`, `failover_missed`, `failover_hangup`, `dbapi_close`, `columns_empty`, `guard`, `numpy_blocks` | as small as they can be | section 5 |

*Why the bounds are enough.* Three calls let a query be abandoned, a second be refused or
disturbed by it and a third meet what both left; two blocks (`contract`) let an answer be read
in part. How many packets a server puts before, between and behind the blocks is not bounded,
only how many are in flight: a queue of two (`sync`) lets packets overtake the client's decision,
and with a queue of one (`contract`) what is read in part is still decided block by block. Two
hosts let the head of a deque be dead and the next
one alive; two clients are what it takes to disturb a walk, and the third shows that a deque of
one's own is not disturbed. Three cursors are what it takes for a walk over a shrinking list to
leave one out and close the one after it. Three threads: the third's `acquire` lets both others
release (two suffice when one has been refused before; section 5). A buffer of three bytes is shorter than one value, as long as a value with its length,
and longer than another; with digits 0 and 1 (`Flag = 2`) a length of four has three digits, so that a refill may
fall between digits, before the string and inside it.

Widths are scaled down (`Codecs.cfg`) so that every boundary is met. A varint has groups of 2
bits in words of 5, so that, as with 7 in 64, the last group is cut; streams of up to one group
more than the longest number needs are read. A large integer has quads of 2 bits, and all
integers of two and of four quads are tried, and those just out of range. The narrowest key of
LowCardinality has 1 bit instead of 8, so that 4 bits are needed by 8 rows. One byte stands for
those no string contains. The columns are each type over each, as deep as two, with empty lists
and dicts, nulls and repeated values in every place.

*Fairness.* `CallReturns` assumes only that a running call goes on (`WF_vars(CallNext)`):
a wait for a server that sends nothing ends because the socket has a timeout (`connection.py:292`,
`sync_request_timeout` for ping), and then the call raises. Nothing is assumed of the server. The
timeout is of one `recv`, so each packet starts it anew: a server that sends without end holds
`execute`, `next()` and `ping` for ever, and for a streaming query, which `README.rst:86` calls
unbounded, that is what it should do. `CallReturns` says that nothing else holds a call: either the
client is idle again and again, or from some moment on it is reading one answer and the server
sends packet after packet. In the model these are progress, log and unknown packets, since the
blocks of an answer are bounded. Without its second half the property is false.
`ConnectedUnlessHungUp` (and `EventuallyConnected`, which section 5 refutes) assume that a
client's thread runs and that an application without a connection asks again (each query does,
through `force_connect`); of the hosts, only that in the end one stays up and none hangs up;
and it speaks of clients with a deque of their own. `ReadReturns` assumes that a
read goes on when bytes are there; it speaks only of reads whose bytes were flushed.

Deadlock is not checked in these runs: an application may have made all its calls, a writer may
have written all its items, a value has been read, and a closed DB API connection is not opened
again.

## 4. What is proved

TLAPS checks the following for all values of the constants: any number of calls, blocks,
hosts, clients, of packets sent and in flight, and every size of the buffers. The assumptions are those the modules
declare on their constants, nothing else.

- **ProtonClientProofs.** `TypeCorrect`, then `Invariance`: `Spec => []IInv`. That a query never
  meets a busy server (`NeverInterleaved`) cannot be shown by itself, since the flag is lost in
  places: `IInv` says instead what each stage may assume of the connection. While offline it is
  empty; everything on it is about `last_query`; `ping` is the last thing sent and its answer
  the last thing received; so after a PONG both directions and the server are idle, and that
  is when a query is sent. `NoForeignRows`, `ArrivesForLastQuery` and `AlwaysALastQuery` follow.
  Second part, `AnswersAreTracked`: `Spec => []AnswerInv`. That a call returns
  its whole answer (`AnswersAreComplete`) is about its last step and says nothing of the steps
  before; `AnswerInv` says at every moment that what a call has taken and what is still on the
  way to it are together what the server has answered so far. It rests on `IInv`: that what is on
  the way belongs to the last query is what makes the sum meaningful. `StreamsAreComplete` and the
  refinement `CallsKeepTheirContract` (of `CallContract`, action by action) follow for an
  application that does not advance superseded results (`~PullStale`); without that hypothesis the
  first finding refutes them. `RefusedForAReason` and `EndsLeaveQuiet`
  need both invariants. `RefusedForAStream`: a query is refused only because the result of the last
  query streams and was not read to its end, and every call since has failed. Each raising path
  clears the flag in a way of its own, or does not (`cancel`, settings that raise), and
  `reset_state` is also called where nothing failed; so this needs a third invariant, `RefusalInv`:
  while the flag is up, the calls begun after `last_query` have failed.
- **FailoverProofs.** `WalksTheDeque`: `Spec => []WalkInv`. The hosts an undisturbed `connect()`
  found dead are the last ones of its deque and no host leaves a deque, so after as many turns
  as there are hosts all were tried. `MissedOnlyWhenShared` holds for every sharing;
  `FindsTheLiveHost` (a host that is up all through `connect()` is found)
  when no two clients share a deque; in `failover_missed` they do. `RemembersTheHost` needs that
  an undisturbed attempt is made at the head of the deque, the conjunct `AtHead`.
- **BufferedLinkProofs.** First the buffers, asked for anything. `ReaderInvariant`: `ReaderSpec =>
  []ReaderInv`, for any calls and any bytes that are sent. `ReadInOrder` is not inductive: what
  follows in the stream must be known to be what is unread in the buffer, so the invariant relates
  each byte of the buffer to the stream, and what is used up to `position`. `ReaderInOrder` follows.
  `WriterInvariant`: what is sent and what waits is what was accepted, up to where the running
  `write` has come. `ChannelInvariant` joins writer and reader at the socket, and
  `ChannelImplementsStream` proves the refinement of `ByteStream`: what a reader has used up is a
  prefix of the socket's bytes, and those of what the writer accepted.
  Then the format: `LinkInvariant`: `LinkSpec => [](ReaderInv /\ WriterInv /\ LinkInv)`.
  That the values come out as they went in (`ItemsComeBack`, the invariant `RoundTrip`) is not
  inductive: `LinkInv` says that the bytes taken so far, those the running call is still due, and
  those of the items behind are together the bytes of what was written, and the same of the values.
  Of a length that is read digit by digit a smaller number is due with each digit, which is why the
  string behind it begins where its reader thinks it does. `LinkIsChannel`: `LinkSpec =>
  ChannelSpec`, so what is proved of the channel holds of the link.
- **DbApiProofs.** Two invariants. `RowsInv` joins the types, `FetchedInOrder` and
  `BusyHasReader`: that a fetch leaves the rest in order depends on the kind of rows a cursor
  has, and a closed cursor may be left with any front part of them. `RowsInOrder`,
  `BlockedHasReader` and `ClosedForGood` follow. `ListInv`: the list of cursors names the open
  ones, each once. The hard steps are `close()`, which leaves the even places of the list, and
  `remove`, which leaves all but one (`ListedAreOpen`). Both together are the types
  (`TypeCorrect`).
- **CodecProofs.** For every width of a group, a word, a quad and a string. `LargeIntsWrapAround`:
  the quads of an integer read back as the integer of the type's range that differs by a multiple
  of its modulus; `LargeIntsComeBack` says the same of the stream. `VarintsComeBack`: the groups
  denote the number although the last one may be cut by the word, and where they end shows in the
  bytes. `FixedStringsComeBack`: each string in its place, without the zeros at its end. The
  invariant behind these is that what was written is what is on the stream, with the other data
  behind. `OnlyBlocksThatWereSent`: what is on the way are the frames of the blocks not yet read,
  with at most one field changed; so a reader that finds no fault has read blocks that were sent.
- **ColumnProofs.** `NextDepth`: if what the nested columns write is what they read, whatever
  stands behind it in the stream, then so it is for a column of each of the six types over them
  (`NestedFaithful` and `Faithful`). "Whatever stands behind it" is what makes this go through: the
  reader of a map finds its values because the reader of its keys took not a token too many. An
  array's offsets are where its slices of the flattened values end; a map is a list of keys and
  one of values of the same lengths, whatever order the keys come in; a tuple is read column by
  column, each where the one before ended. For LowCardinality, of any `KeyBits`: each distinct
  value is in the index once, `KeyOf` finds it there, and the keys fit the type made for the size
  of the index. `Regular` leaves out what the driver cannot write or read (`Irregular`, section 5).
- **BlockStreamProofs.** For every table, every data, every block size and width of the narrowest
  key. Assumed (`JobsAssumption`, `KeyBitsAssumption`): `insert_block_size` is not 0, the data is a
  list of lists, and the values are of the types of their columns.
  `SendingInvariant`: `BlockSpec => []SentInv`. Each block is checked by itself
  and the checks say nothing of the data as a whole; `SentInv` says that the rows sent so far are
  the first rows of the data, the same number of each column, and that the rest is still to be
  cut. At the end that number is the length of every column (`RaggedDataIsRefused`, for which the
  hard case is numpy: columns of different lengths are cut into chunks of different sizes) and of
  the data (`RowsAreCounted`). `ExceedsByLessThanABlock`: only numpy's chunks are longer than
  `insert_block_size`, and they have less than twice as many rows.
  `StreamInvariant`: `BlockSpec => []BlockInv`, and from it `DataArrivesAsGiven`. `NextDepth`,
  taken four times, says that a column of any type of `Columns` comes back
  (`FlatFaithful` to `ThriceFaithful`, `ColumnArrives`), so a block does (`BlockArrives`).
  `ArrivesAsGiven` speaks of the end and is not inductive; `ReceivedInv` says that there is a number
  of blocks whose rows, the first of the data, make up the result, while the tokens of the other
  blocks that were sent are what is on the wire. That data of the table's shape never raises
  needs the converse of the checks: each chunk of a rectangle is one.
- **SliceLemmas** holds what the others need: slices and prefixes, division and sums that are cut,
  flattened sequences, and an induction. A theorem that takes a predicate as a parameter is of no
  use to the installed provers, but one that takes a *set* is: if a set of numbers is not all of
  them there is a least one outside. `LeastNatural` and `InductionBySet` say so, and from them
  `ComputesAll` proves that functions defined by recursion over the numbers exist and satisfy their
  equation, which is how the recursive functions of `Varint` and `LargeInt` are reasoned about.

*Only model-checked:* liveness (`CallReturns`, `ConnectedUnlessHungUp`, `ReadReturns`) and
everything under fairness, which is out of the prover's reach, as is ENABLED. Every safety
invariant and every action property of the passing runs has its theorem, `KeepsContract` and
`ImplementsByteStream` too. Columns come back at the depths `Columns` has: the step from one depth
to the next is a theorem, but that it therefore holds at all depths is an induction over types,
which takes a predicate as a parameter and cannot be stated to the provers.

## 5. Findings

1. `unguarded`: `force_connect` sets `is_query_executing`, and the `connect()` it then calls
   clears it again (`connection.py:364`) when a ping or a host failed. A result of that query
   that is left unread is not guarded: the next query is not refused but goes on to ping.
   `QueryMeetsIdleServer` holds all the same, because ping takes the unread packet for an
   error and reconnects. After that a superseded result that is still advanced reads the rows
   of the newer query, which loses them.
2. `failover_missed`: two cursors that connect at the same time rotate their shared deque
   twice and one gives up without trying the host that is up.
3. `failover_hangup`: a host that accepts and hangs up ends `connect()` with `EOFError` before
   the rotation, on every attempt; the next host is never tried.
4. `dbapi_close`: `Connection.close()` leaves every other cursor open.
5. `columns_empty`: a LowCardinality column of nullable values writes its index and its keys
   even when it has no items (`lowcardinalitycolumn.py:86`), because the index holds the place
   of the null before it looks at the items. An external table without rows then has tokens
   behind a header that says there are none. Such a block has the state prefixes of its
   columns, too, which are written always and read only with rows.
6. `guard`: `check_query_execution` does not look at what `acquire(blocking=False)` returned
   (`connection.py:670`). Two threads pass the check together when a third one's acquire lets
   both release; with two threads the second release raises `RuntimeError`, and that thread
   closes the connection under the other. Two threads suffice, too, after a refusal: the refused one
   disconnects and clears the flag under the other, which has passed but not sent, then passes
   itself, and both send on the next connection (TLC finds this with `Threads = {t1, t2}`).
7. `numpy_blocks`: `insert_block_size` is the "maximum rows in block" (`CHANGELOG.md:346`), but
   numpy columns are split into `len(c) // n` parts (`numpy/helpers.py:16`), which are of up to
   `2 * n - 1` rows: with a size of 2, three rows are one block of three. By how much it is exceeded,
   and that only numpy does, is `OnlyNumpyExceeds`.

Seen while modelling and recorded as hazards only: a closed cursor still hands out the rows it
has; rows and `rowcount` of the query before stay after a failed one; `fetchnumpy` and its
relatives walk a streamed result once per column, which a generator allows once; a Map whose
dicts are all empty, or a table without rows, raises in the writer or reader of a tuple or map
below (`mapcolumn.py:26`, `tuplecolumn.py:25`; `IrregularJob` leaves blocks with such columns out of
`ArrivesAsGiven`); what a row has behind the table's last column is dropped without a word when
it is not the first row of its block (`RaggedIsRefused` is about rows that are too short);
`insert_block_size = 0` sends nothing; a `USE` that is streamed is taken to have worked before the server
answered (`client.py:241`).

## 6. Plan

Done: the core (`ProtonClient`), failover, DB API, buffers, in this order, because everything
an application relies on is first decided by what the connection carries; then the execution
guard in several threads, chunking, blocks and columns, and the codecs of the compiled modules;
proofs of everything the passing runs check but liveness.

Next, most important first:

1. The database a client believes it is in: `USE`, the reconnect that repeats it, and the
   failure of either (`client.py:241`).
2. The CANCEL that a failed flush leaves in the buffer, composed from `BufferedWriter` and
   `ProtonClient`.
3. Results: what `ProgressQueryResult` and `IterQueryResult` make of totals, extremes and
   progress.

## 7. Not modelled

Formatting (settings, parameters, client information, logging, errors) keeps no state between
steps. The codecs of dates, decimals, enums, UUIDs, addresses, JSON and intervals convert one
value at a time, which tests reach. The numpy columns and results repeat, on arrays, what the
modelled ones do on lists. The decoding of strings is Python's; the model keeps that it may fail.
Third-party code (the compression libraries, CityHash, Cython's runtime in the generated C), TLS
and name resolution are not this repository's. Examples, documentation and build files were read
for what they promise.

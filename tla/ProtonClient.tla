---------------------------- MODULE ProtonClient ----------------------------
(***************************************************************************)
(* One Client and its one Connection (proton_driver/client.py and          *)
(* connection.py), used by one thread, talking to a server that may refuse,*)
(* fail, fall silent or disappear at any point.                            *)
(*                                                                         *)
(* A call is a number.  `stage' says where the call that is running stands *)
(* in its handler; between two stages the application waits for the        *)
(* network.  The result of execute_iter and execute_with_progress outlives *)
(* its call: status "live" is a generator the application still holds and  *)
(* may advance whenever no other call runs.                                *)
(*                                                                         *)
(*   hosts       Connection.hosts, the deque of connection points          *)
(*   connected   Connection.connected                                      *)
(*   executing   Connection.is_query_executing                             *)
(*   lastQuery   the call whose QueryInfo is Client.last_query, or NoCall  *)
(*   stage, cur  what the running call does, and which call it is          *)
(*   tries       connection points this connect() has tried                *)
(*   kind        which method each call is                                 *)
(*   status      what became of each call, or of the result it returned    *)
(*   rows        blocks each call handed over: those its result received,  *)
(*               or, for an INSERT, those it sent                          *)
(***************************************************************************)
EXTENDS ServerSession, FiniteSets

CONSTANTS Hosts,      \* Connection.hosts as __init__ builds it
          Kinds,      \* which of the querying methods the application uses
          PullStale   \* may the application advance a result whose query is
                      \* no longer the last query of its client?

ASSUME HostsAssumption == Hosts # <<>> /\ Hosts \in Seq(Nat)
ASSUME KindsAssumption ==
  Kinds \subseteq {"execute", "progress", "iter", "insert"}
ASSUME PullStaleAssumption == PullStale \in BOOLEAN

VARIABLES hosts, connected, executing, lastQuery, stage, cur, tries,
          kind, status, rows

clientVars == <<hosts, connected, executing, lastQuery, stage, cur, tries,
                kind, status, rows>>
vars == <<clientVars, serverVars>>

Kind   == {"none", "execute", "progress", "iter", "insert", "cancel"}
Stage  == {"idle", "connect", "ping", "send", "sample", "data", "eoq",
           "drain", "pull"}
Status == {"none", "running", "live", "closed", "ok", "error", "refused"}

\* Stages in which the client waits for a packet.
Reading == {"sample", "eoq", "drain", "pull"}

TypeOK ==
  /\ ServerTypeOK
  /\ hosts \in Seq(Nat) /\ Len(hosts) = Len(Hosts)
  /\ connected \in BOOLEAN
  /\ executing \in BOOLEAN
  /\ lastQuery \in Call \cup {NoCall}
  /\ stage \in Stage
  /\ cur \in Call \cup {NoCall}
  /\ stage # "idle" => cur \in Call
  /\ tries \in 0..Len(Hosts)
  /\ kind \in [Call -> Kind]
  /\ status \in [Call -> Status]
  /\ rows \in [Call -> Seq(Block)]

Init ==
  /\ ServerInit
  /\ hosts = Hosts
  /\ connected = FALSE
  /\ executing = FALSE
  /\ lastQuery = NoCall
  /\ stage = "idle"
  /\ cur = NoCall
  /\ tries = 0
  /\ kind = [q \in Call |-> "none"]
  /\ status = [q \in Call |-> "none"]
  /\ rows = [q \in Call |-> <<>>]

-----------------------------------------------------------------------------
(* Connection.disconnect and Client.disconnect *)

\* Mutant: reset_state keeps `fin', so what the old socket had delivered is
\* still in the buffer when the next connection is made.
DisconnectKeepingBuffer ==
  /\ connected' = FALSE
  /\ executing' = FALSE
  /\ c2s' = <<>>
  /\ s2c' = s2c
  /\ srv' = IdleSession

\* Mutant: reset_state forgets is_query_executing.
DisconnectKeepingFlag ==
  /\ connected' = FALSE
  /\ executing' = executing
  /\ c2s' = <<>>
  /\ s2c' = <<>>
  /\ srv' = IdleSession

\* The socket and everything on the way in it is gone; reset_state.
Disconnect ==
  /\ connected' = FALSE
  /\ executing' = FALSE
  /\ c2s' = <<>>
  /\ s2c' = <<>>
  /\ srv' = IdleSession

ClientDisconnect == Disconnect /\ lastQuery' = NoCall

\* The running call ends: it returns, or its result takes over.
EndCall(s) ==
  /\ stage' = "idle"
  /\ cur' = NoCall
  /\ status' = [status EXCEPT ![cur] = s]

\* `except (Exception, KeyboardInterrupt): self.disconnect(); raise'
RaiseAndDisconnect ==
  /\ ClientDisconnect
  /\ EndCall("error")
  /\ UNCHANGED <<kind, rows, answer>>

-----------------------------------------------------------------------------
(* execute, execute_with_progress, execute_iter: up to the first wait *)

Fresh(q) == /\ stage = "idle"
            /\ status[q] = "none"
            /\ \A p \in Call: p < q => status[p] # "none"

\* check_query_execution finds a query that was not read to its end.
Refuse(q, k) ==
  /\ Fresh(q)
  /\ executing
  /\ ClientDisconnect
  /\ kind' = [kind EXCEPT ![q] = k]
  /\ status' = [status EXCEPT ![q] = "refused"]
  /\ UNCHANGED <<hosts, stage, cur, tries, rows, answer>>

\* check_query_execution passes; force_connect goes on to connect or ping.
ForceConnect(q, k) ==
  /\ Fresh(q)
  /\ ~executing
  /\ executing' = TRUE
  /\ cur' = q
  /\ kind' = [kind EXCEPT ![q] = k]
  /\ status' = [status EXCEPT ![q] = "running"]
  /\ tries' = 0
  /\ IF connected
       THEN /\ stage' = "ping"
            /\ c2s' = Append(c2s, Ping)
       ELSE /\ stage' = "connect"
            /\ UNCHANGED c2s
  /\ UNCHANGED <<hosts, connected, lastQuery, rows, s2c, srv, answer>>

\* ping: PROGRESS is passed over, PONG ends it, anything else raises.
PingProgress ==
  /\ stage = "ping"
  /\ s2c # <<>> /\ Head(s2c).type = "PROGRESS"
  /\ s2c' = Tail(s2c)
  /\ UNCHANGED <<clientVars, c2s, srv, answer>>

PingPong ==
  /\ stage = "ping"
  /\ s2c # <<>> /\ Head(s2c).type = "PONG"
  /\ s2c' = Tail(s2c)
  /\ stage' = "send"
  /\ UNCHANGED <<hosts, connected, executing, lastQuery, cur, tries, kind,
                 status, rows, c2s, srv, answer>>

PingUnexpected ==
  /\ stage = "ping"
  /\ s2c # <<>> /\ Head(s2c).type \notin {"PROGRESS", "PONG"}
  /\ RaiseAndDisconnect
  /\ UNCHANGED <<hosts, tries>>

\* ping returns False: force_connect connects anew, connect disconnects first.
PingLost ==
  /\ stage = "ping"
  /\ Disconnect
  /\ stage' = "connect"
  /\ tries' = 0
  /\ UNCHANGED <<hosts, lastQuery, cur, kind, status, rows, answer>>

\* connect: the first of hosts answers the handshake.
ConnectOk ==
  /\ stage = "connect" /\ tries < Len(hosts)
  /\ connected' = TRUE
  /\ stage' = "send"
  /\ UNCHANGED <<hosts, executing, lastQuery, cur, tries, kind, status, rows,
                 serverVars>>

\* Mutant: the loop over hosts runs once too often.
ConnectFailedOnceMore ==
  /\ stage = "connect" /\ tries <= Len(hosts)
  /\ hosts' = Append(Tail(hosts), Head(hosts))
  /\ tries' = tries + 1
  /\ IF tries < Len(hosts)
       THEN Disconnect /\ UNCHANGED <<lastQuery, stage, cur, kind, status, rows, answer>>
       ELSE RaiseAndDisconnect

\* socket.timeout or socket.error: disconnect, rotate, try the next one, or
\* raise the last error when every one was tried.
ConnectFailed ==
  /\ stage = "connect" /\ tries < Len(hosts)
  /\ hosts' = Append(Tail(hosts), Head(hosts))
  /\ tries' = tries + 1
  /\ IF tries + 1 < Len(hosts)
       THEN Disconnect /\ UNCHANGED <<lastQuery, stage, cur, kind, status, rows, answer>>
       ELSE RaiseAndDisconnect

\* The peer hangs up or refuses during the handshake: EOFError, a server
\* exception or an unexpected packet leaves connect at once.
ConnectRefused ==
  /\ stage = "connect" /\ tries < Len(hosts)
  /\ RaiseAndDisconnect
  /\ UNCHANGED <<hosts, tries>>

\* Mutant: last_query is not renewed for each query.
SendQueryWithoutInfo ==
  /\ stage = "send"
  /\ lastQuery' = lastQuery
  /\ c2s' = Append(c2s, Msg(IF kind[cur] = "insert" THEN "INSERT" ELSE "QUERY",
                            cur, 0))
  /\ CASE kind[cur] = "execute" ->
            stage' = "drain" /\ UNCHANGED <<cur, status>>
       [] kind[cur] = "insert" ->
            stage' = "sample" /\ UNCHANGED <<cur, status>>
       [] OTHER -> EndCall("live")
  /\ UNCHANGED <<hosts, connected, executing, tries, kind, rows, s2c, srv, answer>>

\* send_query and send_external_tables, after `self.last_query = QueryInfo()'.
\* A streaming call returns here; its result reads the answer later.
SendQuery ==
  /\ stage = "send"
  /\ lastQuery' = cur
  /\ c2s' = Append(c2s, Msg(IF kind[cur] = "insert" THEN "INSERT" ELSE "QUERY",
                            cur, 0))
  /\ CASE kind[cur] = "execute" ->
            stage' = "drain" /\ UNCHANGED <<cur, status>>
       [] kind[cur] = "insert" ->
            stage' = "sample" /\ UNCHANGED <<cur, status>>
       [] OTHER -> EndCall("live")
  /\ UNCHANGED <<hosts, connected, executing, tries, kind, rows, s2c, srv, answer>>

-----------------------------------------------------------------------------
(* process_insert_query *)

\* receive_sample_block
ReceiveSampleBlock ==
  /\ stage = "sample"
  /\ s2c # <<>>
  /\ LET p == Head(s2c) IN
     \/ /\ p.type = "DATA"
        /\ stage' = "data"
        /\ s2c' = Tail(s2c)
        /\ UNCHANGED <<connected, executing, lastQuery, cur, kind, status, rows,
                       c2s, srv, answer>>
     \/ /\ p.type \in SkippedByInsertLoops
        /\ s2c' = Tail(s2c)
        /\ UNCHANGED <<connected, executing, lastQuery, stage, cur, kind, status,
                       rows, c2s, srv, answer>>
     \/ /\ p.type \notin SkippedByInsertLoops \cup {"DATA"}
        /\ RaiseAndDisconnect
  /\ UNCHANGED <<hosts, tries>>

\* send_data: one chunk of the data at a time ...
SendChunk ==
  /\ stage = "data"
  /\ Len(rows[cur]) < MaxBlocks
  /\ LET n == Len(rows[cur]) + 1 IN
       /\ c2s' = Append(c2s, Msg("DATA", cur, n))
       /\ rows' = [rows EXCEPT ![cur] = Append(@, Blk(cur, n))]
  /\ UNCHANGED <<hosts, connected, executing, lastQuery, stage, cur, tries, kind,
                 status, s2c, srv, answer>>

\* ... and an empty block after the last.
SendEndOfData ==
  /\ stage = "data"
  /\ c2s' = Append(c2s, Msg("END_OF_DATA", cur, 0))
  /\ stage' = "eoq"
  /\ UNCHANGED <<hosts, connected, executing, lastQuery, cur, tries, kind,
                 status, rows, s2c, srv, answer>>

\* Mutant: any packet that is not an exception ends the wait.
ReceiveEndOfQueryEarly ==
  /\ stage = "eoq"
  /\ s2c # <<>>
  /\ IF Head(s2c).type # "EXCEPTION"
       THEN /\ executing' = FALSE
            /\ EndCall("ok")
            /\ s2c' = Tail(s2c)
            /\ UNCHANGED <<connected, lastQuery, kind, rows, c2s, srv, answer>>
       ELSE RaiseAndDisconnect
  /\ UNCHANGED <<hosts, tries>>

\* receive_end_of_query
ReceiveEndOfQuery ==
  /\ stage = "eoq"
  /\ s2c # <<>>
  /\ LET p == Head(s2c) IN
     \/ /\ p.type = "EOS"
        /\ executing' = FALSE
        /\ EndCall("ok")
        /\ s2c' = Tail(s2c)
        /\ UNCHANGED <<connected, lastQuery, kind, rows, c2s, srv, answer>>
     \/ /\ p.type \in SkippedByInsertLoops
        /\ s2c' = Tail(s2c)
        /\ UNCHANGED <<connected, executing, lastQuery, stage, cur, kind, status,
                       rows, c2s, srv, answer>>
     \/ /\ p.type \notin SkippedByInsertLoops \cup {"EOS"}
        /\ RaiseAndDisconnect
  /\ UNCHANGED <<hosts, tries>>

-----------------------------------------------------------------------------
(* cancel, and the application's use of a result *)

\* send_cancel, then receive_result: what is left of the answer becomes the
\* result of cancel.
Cancel(q) ==
  /\ Fresh(q)
  /\ connected
  /\ c2s' = Append(c2s, CancelMsg)
  /\ stage' = "drain"
  /\ cur' = q
  /\ kind' = [kind EXCEPT ![q] = "cancel"]
  /\ status' = [status EXCEPT ![q] = "running"]
  /\ UNCHANGED <<hosts, connected, executing, lastQuery, tries, rows, s2c, srv,
                 answer>>

\* An error outside the `try' of disconnect_on_error is raised and nothing else
\* happens: settings a query cannot be sent with (make_query_settings), or a
\* CANCEL that cannot be sent (no connection, broken socket).
FailAtOnce(q, k) ==
  /\ Fresh(q)
  /\ kind' = [kind EXCEPT ![q] = k]
  /\ status' = [status EXCEPT ![q] = "error"]
  /\ UNCHANGED <<hosts, connected, executing, lastQuery, stage, cur, tries, rows,
                 serverVars>>

\* next() on a result: its generator goes on reading the client's connection,
\* whatever runs there now.
Pull(g) ==
  /\ stage = "idle"
  /\ status[g] = "live"
  /\ PullStale \/ lastQuery = g
  /\ stage' = "pull"
  /\ cur' = g
  /\ UNCHANGED <<hosts, connected, executing, lastQuery, tries, kind, status,
                 rows, serverVars>>

\* The application drops a result: GeneratorExit is not an Exception, so the
\* generator ends and the connection is left as it is.
Abandon(g) ==
  /\ stage = "idle"
  /\ status[g] = "live"
  /\ status' = [status EXCEPT ![g] = "closed"]
  /\ UNCHANGED <<hosts, connected, executing, lastQuery, stage, cur, tries, kind,
                 rows, serverVars>>

\* Client.disconnect by the application, or the end of a `with' block.
AppDisconnect ==
  /\ stage = "idle"
  /\ connected
  /\ ClientDisconnect
  /\ UNCHANGED <<hosts, stage, cur, tries, kind, status, rows, answer>>

-----------------------------------------------------------------------------
(* packet_generator and Client.receive_packet *)

\* Mutant: next() of execute_with_progress drops the blocks it passes.
ReceiveYieldedDropping ==
  /\ stage \in {"drain", "pull"}
  /\ s2c # <<>>
  /\ LET p == Head(s2c) IN
     /\ p.type \in YieldedByResultLoop
     /\ p.type \in StoredInLastQuery => lastQuery # NoCall
     /\ rows' = IF p.type = "DATA" /\ kind[cur] # "progress"
                  THEN [rows EXCEPT ![cur] = Append(@, Blk(p.call, p.n))]
                  ELSE rows
     /\ LET stop == IF kind[cur] = "iter" THEN "DATA" ELSE "PROGRESS" IN
        IF stage = "pull" /\ p.type = stop
          THEN stage' = "idle" /\ cur' = NoCall
          ELSE UNCHANGED <<stage, cur>>
  /\ s2c' = Tail(s2c)
  /\ UNCHANGED <<hosts, connected, executing, lastQuery, tries, kind, status,
                 c2s, srv, answer>>

\* A packet of the answer reaches the result object. execute and cancel read
\* on; next() of execute_iter returns at a block, next() of
\* execute_with_progress at a PROGRESS packet.
ReceiveYielded ==
  /\ stage \in {"drain", "pull"}
  /\ s2c # <<>>
  /\ LET p == Head(s2c) IN
     /\ p.type \in YieldedByResultLoop
     /\ p.type \in StoredInLastQuery => lastQuery # NoCall
     /\ rows' = IF p.type = "DATA"
                  THEN [rows EXCEPT ![cur] = Append(@, Blk(p.call, p.n))]
                  ELSE rows
     /\ LET stop == IF kind[cur] = "iter" THEN "DATA" ELSE "PROGRESS" IN
        IF stage = "pull" /\ p.type = stop
          THEN stage' = "idle" /\ cur' = NoCall
          ELSE UNCHANGED <<stage, cur>>
  /\ s2c' = Tail(s2c)
  /\ UNCHANGED <<hosts, connected, executing, lastQuery, tries, kind, status,
                 c2s, srv, answer>>

\* PROFILE_INFO goes to last_query, the rest is dropped: the loop reads on.
ReceiveSkipped ==
  /\ stage \in {"drain", "pull"}
  /\ s2c # <<>>
  /\ Head(s2c).type \in SkippedByResultLoop
  /\ Head(s2c).type \in StoredInLastQuery => lastQuery # NoCall
  /\ s2c' = Tail(s2c)
  /\ UNCHANGED <<clientVars, c2s, srv, answer>>

\* Mutant: the flag stays up after the last packet.
ReceiveEndOfStreamKeepingFlag ==
  /\ stage \in {"drain", "pull"}
  /\ s2c # <<>> /\ Head(s2c).type = "EOS"
  /\ EndCall("ok")
  /\ s2c' = Tail(s2c)
  /\ UNCHANGED <<hosts, connected, executing, lastQuery, tries, kind, rows, c2s,
                 srv, answer>>

\* Mutant: a log packet is taken for the end of the answer.
ReceiveEndOfStreamEarly ==
  /\ stage \in {"drain", "pull"}
  /\ s2c # <<>> /\ Head(s2c).type \in {"EOS", "LOG"}
  /\ executing' = FALSE
  /\ EndCall("ok")
  /\ s2c' = Tail(s2c)
  /\ UNCHANGED <<hosts, connected, lastQuery, tries, kind, rows, c2s, srv, answer>>

\* END_OF_STREAM: the query is over, the generator returns.
ReceiveEndOfStream ==
  /\ stage \in {"drain", "pull"}
  /\ s2c # <<>> /\ Head(s2c).type = "EOS"
  /\ executing' = FALSE
  /\ EndCall("ok")
  /\ s2c' = Tail(s2c)
  /\ UNCHANGED <<hosts, connected, lastQuery, tries, kind, rows, c2s, srv, answer>>

\* EXCEPTION, an unknown packet, or last_query is None when there is
\* something to store in it.
ReceiveError ==
  /\ stage \in {"drain", "pull"}
  /\ s2c # <<>>
  /\ \/ Head(s2c).type \in {"EXCEPTION"} \cup UnknownToReceivePacket
     \/ Head(s2c).type \in StoredInLastQuery /\ lastQuery = NoCall
  /\ RaiseAndDisconnect
  /\ UNCHANGED <<hosts, tries>>

\* Mutant: the socket has no timeout and no one notices that the peer is gone.
LostOnWriteOnly ==
  /\ stage \in {"send", "data"}
  /\ RaiseAndDisconnect
  /\ UNCHANGED <<hosts, tries>>

\* Any wait, and any write, may end with socket.timeout, socket.error or
\* EOFError; send_data also with an error in the application's data. ping
\* catches these (PingLost), but not KeyboardInterrupt.
Lost ==
  /\ stage \in Reading \cup {"ping", "send", "data"}
  /\ RaiseAndDisconnect
  /\ UNCHANGED <<hosts, tries>>

-----------------------------------------------------------------------------

\* The application starts something.
AppNext ==
  \/ \E q \in Call: \E k \in Kinds: Refuse(q, k) \/ ForceConnect(q, k)
  \/ \E q \in Call: \E k \in Kinds \cup {"cancel"}: FailAtOnce(q, k)
  \/ \E q \in Call: Cancel(q) \/ Pull(q) \/ Abandon(q)
  \/ AppDisconnect

\* The running call goes on.
CallNext ==
  \/ PingProgress \/ PingPong \/ PingUnexpected \/ PingLost
  \/ ConnectOk \/ ConnectFailed \/ ConnectRefused
  \/ SendQuery
  \/ ReceiveSampleBlock \/ SendChunk \/ SendEndOfData \/ ReceiveEndOfQuery
  \/ ReceiveYielded \/ ReceiveSkipped \/ ReceiveEndOfStream \/ ReceiveError
  \/ Lost

Next == AppNext \/ CallNext \/ (ServerNext /\ UNCHANGED clientVars)

Spec == Init /\ [][Next]_vars

\* A call that can go on does: every wait of the client ends, because the
\* socket has a timeout. Nothing is assumed of the server or the application.
FairSpec == Spec /\ WF_vars(CallNext)

-----------------------------------------------------------------------------
(* Safety *)

\* A query, or its answer, is still on the way or being worked on.
Outstanding ==
  \/ \E i \in DOMAIN c2s: c2s[i].type \in {"QUERY", "INSERT"}
  \/ srv.phase # "idle"
  \/ s2c # <<>>

\* An execute() that returns has handed over every block the server produced
\* for this query and no other, in order; an INSERT that returns has had every
\* chunk taken in by the server, in order. This is so after any history of
\* refused calls, abandoned and stale results, lost connections and cancels,
\* although packets carry no query id: client.py:138-208, 509-598 rely on
\* force_connect (connection.py:215-223) alone.
CompleteAnswer ==
  \A q \in Call: status[q] = "ok" /\ kind[q] \in {"execute", "insert"}
                   => rows[q] = answer[q]

\* Until it returns, execute() holds only blocks of its own query: no packet
\* of an earlier, partly read query is ever taken for its answer
\* (client.py:165-208).
OwnRows ==
  \A q \in Call: kind[q] = "execute"
                   => \A i \in DOMAIN rows[q]: rows[q][i].call = q

\* Outside ping, whatever comes in on the connection answers the query
\* described by last_query, so progress and profile (client.py:187-205) are
\* booked to the query they are about.
InFlightIsLastQuery ==
  stage # "ping" => \A i \in DOMAIN s2c: s2c[i].call = lastQuery

\* The server is idle, with nothing on the way to or from it, whenever a query
\* reaches it: the driver never sends a query into an unfinished one
\* (connection.py:215-223, 588-620), even when is_query_executing was lost.
QueryMeetsIdleServer ==
  \A i \in DOMAIN c2s: c2s[i].type \in {"QUERY", "INSERT"}
                         => i = 1 /\ srv.phase = "idle" /\ s2c = <<>>

\* Whenever a packet can be read by a result loop there is a QueryInfo to
\* store it in: `self.last_query.store_progress' (client.py:188, 204) never
\* meets None, although disconnect resets last_query under results that the
\* application still holds.
LastQueryPresent ==
  stage \in {"drain", "pull"} /\ s2c # <<>> => lastQuery # NoCall

\* PartiallyConsumedQueryError is raised only for a reason: when the flag is up
\* between calls, part of an answer really is unread (connection.py:669-676).
RefusalJustified ==
  stage = "idle" /\ executing => connected /\ Outstanding

\* The converse: between calls, an unread answer is guarded by the flag. Stated
\* by tests/test_connect.py:246-256 and errors.py:449-453; it does not hold,
\* because connect() clears the flag that force_connect has just set.
UnreadIsGuarded ==
  stage = "idle" /\ connected /\ Outstanding => executing

\* A result that streams (execute_iter, execute_with_progress) yields the
\* blocks of its own query only, in order and without a gap, and ends normally
\* only after the last of them (client.py:154-179).
StreamedAnswer ==
  \A q \in Call: kind[q] \in {"iter", "progress"} =>
    /\ Len(rows[q]) <= Len(answer[q])
    /\ rows[q] = SubSeq(answer[q], 1, Len(rows[q]))
    /\ status[q] = "ok" => rows[q] = answer[q]

\* When a call or a result ends normally the connection is quiet: no packet is
\* left for the next query to trip over (client.py:578-604, 165-179).
CompletionLeavesQuiet ==
  [][(\E q \in Call: status[q] # "ok" /\ status'[q] = "ok")
       => s2c' = <<>> /\ srv'.phase = "idle"]_vars

\* A query is refused only because of a result that streams: its query was the
\* last one sent, the application still holds the result or has dropped it, and
\* all calls since have failed. No call that raised, was refused or ended leaves
\* anything behind, on whichever path, that gets the next one refused
\* (client.py:177-179, 231-245, 600-604, connection.py:669-676).
RefusedForUnreadResult ==
  [][\A q \in Call: status[q] # "refused" /\ status'[q] = "refused"
       => \E p \in 1..q - 1:
            /\ p = lastQuery /\ status[p] \in {"live", "closed"}
            /\ \A r \in p + 1..q - 1: status[r] = "error"]_vars

(* Liveness *)

\* Every call returns or raises, also when the server falls silent for ever in
\* the middle of a packet (connection.py:292, 449-477); but each packet starts
\* the timeout anew, so a server that goes on sending for ever holds execute(),
\* next() and ping for ever, as an unbounded query does (README.rst:86). A call
\* is never held by anything else, nor while it connects or writes.
CallReturns ==
  \/ []<>(stage = "idle")
  \/ /\ <>[](stage \in Reading \cup {"ping"})
     /\ []<><<SendBlock \/ \E type \in Infos: SendInfo(type)>>_vars
==============================================================================

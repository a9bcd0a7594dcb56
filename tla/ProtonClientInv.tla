-------------------------- MODULE ProtonClientInv --------------------------
(***************************************************************************)
(* The inductive invariants behind the safety properties of ProtonClient,  *)
(* one definition per fact, and the mapping to CallContract.               *)
(* The runs check IInv and AnswerInv on small instances,                   *)
(* ProtonClientProofs proves all three invariants for all instances.       *)
(***************************************************************************)
EXTENDS ProtonClient

\* Without a connection nothing is on the way and no server works for us.
OfflineIsEmpty ==
  ~connected => c2s = <<>> /\ s2c = <<>> /\ srv = IdleSession

\* connect() runs without a connection; the stages after it run with one. Only
\* a result (stage "pull") may find out that there is none.
StageConnected ==
  /\ stage = "connect" => ~connected
  /\ stage \in {"ping", "send", "sample", "data", "eoq", "drain"} => connected

\* From the first query on, a connection has a last query; "send" is the
\* moment between connecting and `self.last_query = QueryInfo()'.
LastQueryKnown == connected /\ stage # "send" => lastQuery \in Call

\* One query at a time: whatever is on the connection is about last_query.
AboutLastQuery ==
  /\ \A i \in DOMAIN s2c: s2c[i].type # "PONG" => s2c[i].call = lastQuery
  /\ srv.phase # "idle" => srv.call = lastQuery
  /\ \A i \in DOMAIN c2s: c2s[i].type \in {"QUERY", "INSERT"}
                          => c2s[i].call = lastQuery

\* PING is the last thing sent and PONG the last thing received while ping
\* waits; once PONG is on its way the server has nothing left to do.
PingIsLast ==
  /\ \A i \in DOMAIN c2s: c2s[i].type = "PING"
                          => stage = "ping" /\ i = Len(c2s)
  /\ \A i \in DOMAIN s2c: s2c[i].type = "PONG"
                          => /\ stage = "ping" /\ i = Len(s2c)
                             /\ c2s = <<>> /\ srv.phase = "idle"

\* A query is sent on a connection on which nothing is going on.
SendIsQuiet ==
  stage = "send" => c2s = <<>> /\ s2c = <<>> /\ srv.phase = "idle"

\* Which call reads what: execute() reads its own query, results that outlive
\* their call are never those of execute(), a call not made yet has no rows.
ReadersAreOwners ==
  /\ stage = "drain" /\ kind[cur] = "execute" => cur = lastQuery
  /\ stage = "pull" => kind[cur] # "execute"
  /\ \A q \in Call: status[q] = "live" => kind[q] # "execute"
  /\ stage # "idle" => status[cur] # "none"
  /\ \A q \in Call: status[q] = "none" => rows[q] = <<>>

IInv == /\ TypeOK
        /\ OfflineIsEmpty
        /\ StageConnected
        /\ LastQueryKnown
        /\ AboutLastQuery
        /\ PingIsLast
        /\ SendIsQuiet
        /\ QueryMeetsIdleServer
        /\ ReadersAreOwners
        /\ OwnRows

-----------------------------------------------------------------------------
(* Answers are complete: the same for what the packets are about *)

\* The end of an answer is still to come: unless something breaks, END_OF_STREAM
\* or EXCEPTION will arrive on this connection.
EndToCome ==
  \/ \E i \in DOMAIN c2s: c2s[i].type \in {"QUERY", "INSERT"}
  \/ srv.phase # "idle"
  \/ \E i \in DOMAIN s2c: s2c[i].type \in {"EOS", "EXCEPTION"}

\* Whatever arrives has an end behind it, and nothing but a PONG behind that.
EndIsLast ==
  /\ \A i \in DOMAIN s2c:
       /\ s2c[i].type # "PONG" => EndToCome
       /\ s2c[i].type = "EOS" => srv.phase = "idle"
       /\ s2c[i].type = "EXCEPTION" => srv.phase \in {"idle", "closed"}
       /\ s2c[i].type \in {"EOS", "EXCEPTION"}
            => \A j \in DOMAIN s2c: j > i => s2c[j].type = "PONG"

\* What is known of the running call in each stage, and of the others.
CallStages ==
  /\ stage \in {"connect", "ping", "send"}
       => /\ status[cur] = "running" /\ cur # lastQuery
          /\ kind[cur] \in {"execute", "progress", "iter", "insert"}
          /\ rows[cur] = <<>> /\ answer[cur] = <<>>
  /\ stage \in {"sample", "data", "eoq"}
       => status[cur] = "running" /\ kind[cur] = "insert" /\ cur = lastQuery
  /\ stage = "drain"
       => /\ status[cur] = "running" /\ kind[cur] \in {"execute", "cancel"}
          /\ kind[cur] = "execute" <=> cur = lastQuery
  /\ stage = "pull" => status[cur] = "live" /\ (PullStale \/ cur = lastQuery)
  /\ \A q \in Call:
       /\ status[q] = "none" => kind[q] = "none" /\ answer[q] = <<>>
       /\ kind[q] = "cancel" => answer[q] = <<>>
       /\ status[q] = "running" => stage # "idle" /\ cur = q
       /\ status[q] \in {"live", "closed"} => kind[q] \in {"iter", "progress"}

\* last_query was sent, by a method that queries; its answer is awaited only as
\* long as nobody has been told its end.
LastQuerySent ==
  /\ lastQuery \in Call => /\ status[lastQuery] # "none"
                           /\ kind[lastQuery] \in {"execute", "progress", "iter", "insert"}
  /\ EndToCome => /\ lastQuery \in Call
                  /\ status[lastQuery] \in {"running", "live", "closed"}

\* is_query_executing, outside force_connect: there is something left to read.
FlagMeansUnread ==
  /\ executing => connected \/ stage = "connect"
  /\ executing /\ stage \notin {"connect", "ping", "send"} => EndToCome

\* Queries are worked on as queries, INSERTs as INSERTs.
KindsMatch ==
  /\ \A i \in DOMAIN c2s:
       /\ c2s[i].type = "QUERY" => kind[lastQuery] # "insert"
       /\ c2s[i].type = "INSERT" => kind[lastQuery] = "insert" /\ stage = "sample"
       /\ c2s[i].type \in {"DATA", "END_OF_DATA"}
            => /\ c2s[i].call = lastQuery /\ stage \in {"data", "eoq"}
               /\ srv.phase \in {"ingest", "closed"}
       /\ c2s[i].type = "END_OF_DATA" => i = Len(c2s) /\ stage = "eoq"
  /\ srv.phase = "select" => kind[lastQuery] # "insert"
  /\ srv.phase \in {"sample", "ingest", "commit", "closed"} => kind[lastQuery] = "insert"

\* An INSERT: no data before the sample block, no end before the data.
InsertStages ==
  /\ stage = "sample"
       => /\ srv.phase # "commit"
          /\ \A i \in DOMAIN s2c: /\ s2c[i].type # "EOS"
                                  /\ s2c[i].type = "DATA" => srv.phase \in {"ingest", "closed"}
  /\ stage = "data"
       => srv.phase \in {"ingest", "closed"} /\ \A i \in DOMAIN s2c: s2c[i].type # "EOS"
  /\ srv.phase = "commit" => stage = "eoq" /\ c2s = <<>>

\* The calls whose blocks are their own: of results that stream only if none
\* is advanced after its query was superseded.
Kept(q) == \/ kind[q] \in {"execute", "insert"}
           \/ ~PullStale /\ kind[q] \in {"iter", "progress"}

\* Blocks are numbered as their source produced them, and the sink is behind.
BlocksNumbered ==
  \A q \in Call:
    /\ \A i \in DOMAIN answer[q]: answer[q][i] = Blk(q, i)
    /\ Kept(q) =>
         /\ \A i \in DOMAIN rows[q]: rows[q][i] = Blk(q, i)
         /\ IF kind[q] = "insert" THEN Len(answer[q]) <= Len(rows[q])
                                  ELSE Len(rows[q]) <= Len(answer[q])
         /\ status[q] = "ok" => Len(rows[q]) = Len(answer[q])

\* On their way in `channel' are the blocks after the first m and up to the
\* n-th, in order.
OnTheWay(channel, m, n) ==
  /\ \A i \in DOMAIN channel: channel[i].type = "DATA" => channel[i].n \in m + 1..n
  /\ \A i, j \in DOMAIN channel:
       channel[i].type = "DATA" /\ channel[j].type = "DATA" /\ i < j
         => channel[i].n < channel[j].n
  /\ \A k \in m + 1..n: \E i \in DOMAIN channel:
       channel[i].type = "DATA" /\ channel[i].n = k

\* cancel() is reading the rest of another call's answer.
Cancelling == stage = "drain" /\ kind[cur] = "cancel"

AnswerOnTheWay ==
  EndToCome /\ kind[lastQuery] # "insert" /\ Kept(lastQuery) /\ ~Cancelling
    => OnTheWay(s2c, Len(rows[lastQuery]), Len(answer[lastQuery]))

ChunksOnTheWay ==
  EndToCome /\ kind[lastQuery] = "insert"
    => OnTheWay(c2s, Len(answer[lastQuery]), Len(rows[lastQuery]))

\* Inductive together with IInv.
AnswerInv == /\ EndIsLast
             /\ CallStages
             /\ LastQuerySent
             /\ FlagMeansUnread
             /\ KindsMatch
             /\ InsertStages
             /\ BlocksNumbered
             /\ AnswerOnTheWay
             /\ ChunksOnTheWay

-----------------------------------------------------------------------------
(* Why a query is refused *)

\* Calls are numbered in the order they begin.
StartedInOrder ==
  \A p, q \in Call: p < q /\ status[q] # "none" => status[p] # "none"

\* A query on its way to the server is the newest call.
NewestConnects ==
  stage \in {"connect", "ping", "send"}
    => \A q \in Call: q > cur => status[q] = "none"

\* While the flag is up, calls begun after the last query have failed, all but
\* a cancel that is still reading.
FailedSinceLastQuery ==
  executing /\ stage \notin {"connect", "ping", "send"}
    => \A q \in Call: q > lastQuery /\ status[q] \notin {"none", "error"}
                       => stage = "drain" /\ q = cur

\* Inductive together with IInv and AnswerInv.
RefusalInv == StartedInOrder /\ NewestConnects /\ FailedSinceLastQuery

-----------------------------------------------------------------------------
(* What every call promises *)

\* A chunk of an INSERT starts at the client, a block of an answer at the
\* server. What cancel returns is the rest of another call's stream.
Inserting(q) == kind[q] = "insert"
ContractSource == [q \in Call |-> IF Inserting(q) THEN rows[q] ELSE answer[q]]
ContractSink   == [q \in Call |-> IF Inserting(q) THEN answer[q]
                                  ELSE IF kind[q] = "cancel" THEN <<>>
                                  ELSE rows[q]]

Contract == INSTANCE CallContract
              WITH source <- ContractSource, sink <- ContractSink

\* Every call keeps the contract of CallContract, for an application that does
\* not advance results whose query was superseded.
KeepsContract == Contract!Spec
=============================================================================

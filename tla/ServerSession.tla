--------------------------- MODULE ServerSession ---------------------------
(***************************************************************************)
(* The server's side of one TCP connection, as the driver's code uses it:  *)
(* it answers what it receives in order, one query at a time.  The server  *)
(* is not in this repository, so this module is an assumption about the    *)
(* environment; proton_driver relies on no more than this. It may go on    *)
(* sending for ever: a streaming query is unbounded (README.rst:86).       *)
(*                                                                         *)
(*   c2s, s2c   the two directions of the current connection               *)
(*   srv        what the server is doing on it                             *)
(*   answer     history: the blocks the server produced for a SELECT, or   *)
(*              took in for an INSERT, per call                            *)
(*                                                                         *)
(* A call of the client is a number: blocks and packets carry the number   *)
(* of the call they belong to, which is what the properties tell apart.    *)
(***************************************************************************)
EXTENDS Protocol, Sequences

CONSTANTS MaxCalls,    \* bound: calls issued in a behaviour
          MaxBlocks,   \* bound: blocks of one answer, chunks of one INSERT
          MaxFlight,   \* bound: packets on the way to the client
          Infos        \* what the server says beside the blocks

ASSUME BoundsAssumption == /\ MaxCalls \in Nat \ {0}
                           /\ MaxBlocks \in Nat
                           /\ MaxFlight \in Nat \ {0}

ASSUME InfosAssumption ==
  Infos \subseteq {"PROGRESS", "PROFILE_INFO", "LOG", "EVENTS", "UNKNOWN"}

VARIABLES c2s, s2c, srv, answer

serverVars == <<c2s, s2c, srv, answer>>

Call   == 1..MaxCalls
NoCall == 0
Block  == [call: Call, n: 0..MaxBlocks]

Blk(q, n) == [call |-> q, n |-> n]
Msg(type, q, n) == [type |-> type, call |-> q, n |-> n]

Ping == Msg("PING", NoCall, 0)
Pong == Msg("PONG", NoCall, 0)
CancelMsg == Msg("CANCEL", NoCall, 0)

\* What is about a query says which; PING, CANCEL and PONG are about none.
ClientMsg == [type: ClientMsgType \ {"PING", "CANCEL"}, call: Call, n: 0..MaxBlocks]
             \cup {Ping, CancelMsg}
Packet    == [type: ServerPacketType \ {"PONG"}, call: Call, n: 0..MaxBlocks]
             \cup {Pong}

\* "closed": the server reads and writes no more on this connection.
Phase == {"select", "sample", "ingest", "commit", "closed"}

Serving(phase, q) == [phase |-> phase, call |-> q]
IdleSession == Serving("idle", NoCall)
Session == [phase: Phase, call: Call] \cup {IdleSession}

ServerTypeOK == /\ c2s \in Seq(ClientMsg)
                /\ s2c \in Seq(Packet)
                /\ srv \in Session
                /\ answer \in [Call -> Seq(Block)]

ServerInit == /\ c2s = <<>>
              /\ s2c = <<>>
              /\ srv = IdleSession
              /\ answer = [q \in Call |-> <<>>]

-----------------------------------------------------------------------------

\* An idle session takes the next request. Data out of turn is never taken: the
\* client would wait for an answer in vain.
TakeRequest ==
  /\ c2s # <<>>
  /\ srv.phase = "idle"
  /\ c2s' = Tail(c2s)
  /\ LET m == Head(c2s) IN
     \/ /\ m.type = "QUERY"
        /\ srv' = Serving("select", m.call)
        /\ UNCHANGED s2c
     \/ /\ m.type = "INSERT"
        /\ srv' = Serving("sample", m.call)
        /\ UNCHANGED s2c
     \/ /\ m.type = "PING"
        /\ s2c' = Append(s2c, Pong)
        /\ UNCHANGED srv
     \* nothing runs: there is nothing to cancel
     \/ /\ m.type = "CANCEL"
        /\ UNCHANGED <<srv, s2c>>
  /\ UNCHANGED answer

\* A running query looks for CANCEL only; any other message waits. When it
\* stops then is up to the server.
TakeCancel ==
  /\ c2s # <<>> /\ Head(c2s).type = "CANCEL"
  /\ srv.phase = "select"
  /\ c2s' = Tail(c2s)
  /\ UNCHANGED <<s2c, srv, answer>>

\* The next chunk of an INSERT, or the empty block that ends it.
TakeChunk ==
  /\ c2s # <<>>
  /\ srv.phase = "ingest"
  /\ c2s' = Tail(c2s)
  /\ LET m == Head(c2s) IN
     \/ /\ m.type = "DATA"
        /\ answer' = [answer EXCEPT ![srv.call] = Append(@, Blk(m.call, m.n))]
        /\ UNCHANGED srv
     \/ /\ m.type = "END_OF_DATA"
        /\ srv' = [srv EXCEPT !.phase = "commit"]
        /\ UNCHANGED answer
  /\ UNCHANGED s2c

-----------------------------------------------------------------------------

CanSend == Len(s2c) < MaxFlight

\* A block of the answer.
SendBlock ==
  /\ srv.phase = "select" /\ CanSend
  /\ Len(answer[srv.call]) < MaxBlocks
  /\ LET n == Len(answer[srv.call]) + 1 IN
       /\ s2c' = Append(s2c, Msg("DATA", srv.call, n))
       /\ answer' = [answer EXCEPT ![srv.call] = Append(@, Blk(srv.call, n))]
  /\ UNCHANGED <<c2s, srv>>

\* What the server says beside the blocks, as often as it likes.
SendInfo(type) ==
  /\ srv.phase \in {"select", "sample", "ingest", "commit"} /\ CanSend
  /\ s2c' = Append(s2c, Msg(type, srv.call, 0))
  /\ UNCHANGED <<c2s, srv, answer>>

\* The header block an INSERT is answered with before the data is sent.
SendSampleBlock ==
  /\ srv.phase = "sample" /\ CanSend
  /\ s2c' = Append(s2c, Msg("DATA", srv.call, 0))
  /\ srv' = [srv EXCEPT !.phase = "ingest"]
  /\ UNCHANGED <<c2s, answer>>

SendEndOfStream ==
  /\ srv.phase \in {"select", "commit"} /\ CanSend
  /\ s2c' = Append(s2c, Msg("EOS", srv.call, 0))
  /\ srv' = IdleSession
  /\ UNCHANGED <<c2s, answer>>

\* A query that fails ends with EXCEPTION; the chunks of a failed INSERT that
\* still arrive have no query to go to.
SendException ==
  /\ srv.phase \in {"select", "sample", "ingest", "commit"} /\ CanSend
  /\ s2c' = Append(s2c, Msg("EXCEPTION", srv.call, 0))
  /\ srv' = IF srv.phase = "select" THEN IdleSession
                                    ELSE [srv EXCEPT !.phase = "closed"]
  /\ UNCHANGED <<c2s, answer>>

ServerNext ==
  \/ TakeRequest \/ TakeCancel \/ TakeChunk
  \/ SendBlock \/ SendSampleBlock \/ SendEndOfStream \/ SendException
  \/ \E type \in Infos: SendInfo(type)
==============================================================================

------------------------- MODULE ProtonClientProofs -------------------------
(***************************************************************************)
(* Proofs about ProtonClient, for every bound, host list and use of the    *)
(* client. First part: type correctness, and that no call is ever given    *)
(* another query's packets (IInv). Second part: AnswerInv is inductive     *)
(* together with IInv, so that answers are complete, a call that ends      *)
(* leaves a quiet connection, every call is refused for a reason, and the  *)
(* client keeps its contract.                                              *)
(***************************************************************************)
EXTENDS ProtonClientInv, TLAPS

-----------------------------------------------------------------------------
(* Sequences, as far as channels need them *)

\* Taking the head off a channel leaves a channel whose entries moved up by one
\* (every handler of ProtonClient and ServerSession that consumes a message).
LEMMA TailEntries ==
  ASSUME NEW S, NEW s \in Seq(S), s # <<>>
  PROVE  /\ Tail(s) \in Seq(S)
         /\ Head(s) \in S
         /\ Head(s) = s[1]
         /\ Len(s) \in Nat \ {0}
         /\ Len(Tail(s)) = Len(s) - 1
         /\ 1 \in DOMAIN s
         /\ \A i \in DOMAIN Tail(s): Tail(s)[i] = s[i + 1] /\ i + 1 \in DOMAIN s
  OBVIOUS

\* Sending puts one entry behind the others (every send of the driver and of
\* the server).
LEMMA AppendEntries ==
  ASSUME NEW S, NEW s \in Seq(S), NEW e \in S
  PROVE  /\ Append(s, e) \in Seq(S)
         /\ Append(s, e) # <<>>
         /\ Len(Append(s, e)) = Len(s) + 1
         /\ DOMAIN Append(s, e) = DOMAIN s \cup {Len(s) + 1}
         /\ \A i \in DOMAIN s: Append(s, e)[i] = s[i] /\ i <= Len(s)
         /\ Append(s, e)[Len(s) + 1] = e
         /\ Len(s) \in Nat
  OBVIOUS

-----------------------------------------------------------------------------
(* Type correctness *)

\* The types every step may rely on.
LEMMA ConstantTypes ==
  /\ Call \subseteq Nat /\ NoCall \in Nat /\ NoCall \notin Call
  /\ MaxBlocks \in Nat
  /\ Len(Hosts) \in Nat \ {0} /\ Hosts \in Seq(Nat)
  /\ 0 \in 0..MaxBlocks
BY BoundsAssumption, HostsAssumption DEF Call, NoCall

\* Messages, packets and blocks the actions build.
LEMMA MessageTypes ==
  ASSUME NEW q \in Call, NEW n \in 0..MaxBlocks
  PROVE  /\ \A t \in ClientMsgType \ {"PING", "CANCEL"}: Msg(t, q, n) \in ClientMsg
         /\ \A t \in ServerPacketType \ {"PONG"}: Msg(t, q, n) \in Packet
         /\ Blk(q, n) \in Block
BY DEF Msg, ClientMsg, Packet, Blk, Block

LEMMA SignalTypes == Ping \in ClientMsg /\ CancelMsg \in ClientMsg /\ Pong \in Packet
BY DEF ClientMsg, Packet

\* What is not a signal belongs to a call.
LEMMA CarriesCall ==
  /\ \A m \in ClientMsg: m.type \notin {"PING", "CANCEL"}
       => m.call \in Call /\ m.n \in 0..MaxBlocks
  /\ \A p \in Packet: p.type # "PONG" => p.call \in Call /\ p.n \in 0..MaxBlocks
BY DEF ClientMsg, Packet, Ping, Pong, CancelMsg, Msg

\* A session that is not idle serves a call, in one phase after the other.
LEMMA SessionTypes ==
  ASSUME NEW s \in Session, s.phase # "idle"
  PROVE  /\ s.call \in Call
         /\ \A f \in Phase: [s EXCEPT !.phase = f] \in Session
BY DEF Session, Serving, IdleSession

\* A step of the server keeps the types of the connection.
LEMMA ServerTyping == ServerTypeOK /\ ServerNext => ServerTypeOK'
<1> SUFFICES ASSUME ServerTypeOK, ServerNext PROVE ServerTypeOK'
  OBVIOUS
<1> USE ConstantTypes
<1>1. CASE TakeRequest
  <2>1. c2s' \in Seq(ClientMsg) /\ Head(c2s) \in ClientMsg
    BY <1>1, TailEntries DEF TakeRequest, ServerTypeOK
  <2>2. s2c' \in Seq(Packet)
    <3>1. Append(s2c, Pong) \in Seq(Packet)
      BY SignalTypes, AppendEntries DEF ServerTypeOK
    <3> QED BY <1>1, <3>1 DEF TakeRequest, ServerTypeOK
  <2>3. srv' \in Session
    BY <1>1, <2>1, CarriesCall DEF TakeRequest, ServerTypeOK, Session, Serving, Phase
  <2> QED BY <1>1, <2>1, <2>2, <2>3 DEF TakeRequest, ServerTypeOK
<1>2. CASE TakeCancel
  BY <1>2, TailEntries DEF TakeCancel, ServerTypeOK
<1>3. CASE TakeChunk
  <2>1. c2s' \in Seq(ClientMsg) /\ Head(c2s) \in ClientMsg
    BY <1>3, TailEntries DEF TakeChunk, ServerTypeOK
  <2>2. srv' \in Session /\ srv.call \in Call
    BY <1>3, SessionTypes DEF TakeChunk, ServerTypeOK, Phase
  <2>3. answer' \in [Call -> Seq(Block)]
    <3>1. CASE Head(c2s).type = "DATA"
      <4>1. Blk(Head(c2s).call, Head(c2s).n) \in Block
        BY <2>1, <3>1, CarriesCall DEF Block, Blk
      <4>2. Append(answer[srv.call], Blk(Head(c2s).call, Head(c2s).n)) \in Seq(Block)
        BY <2>2, <4>1, AppendEntries DEF ServerTypeOK
      <4> QED BY <1>3, <2>2, <3>1, <4>2 DEF TakeChunk, ServerTypeOK
    <3>2. CASE Head(c2s).type # "DATA"
      BY <1>3, <3>2 DEF TakeChunk, ServerTypeOK
    <3> QED BY <3>1, <3>2
  <2> QED BY <1>3, <2>1, <2>2, <2>3 DEF TakeChunk, ServerTypeOK
<1>4. CASE SendBlock
  <2> DEFINE n == Len(answer[srv.call]) + 1
  <2>1. srv.call \in Call /\ srv' \in Session
    BY <1>4, SessionTypes DEF SendBlock, ServerTypeOK, Phase
  <2>2. answer[srv.call] \in Seq(Block)
    BY <2>1 DEF ServerTypeOK
  <2>3. n \in 0..MaxBlocks
    BY <1>4, <2>2 DEF SendBlock
  <2>4. Msg("DATA", srv.call, n) \in Packet /\ Blk(srv.call, n) \in Block
    BY <2>1, <2>3, MessageTypes DEF ServerPacketType
  <2>5. s2c' \in Seq(Packet)
    BY <1>4, <2>4, AppendEntries DEF SendBlock, ServerTypeOK
  <2>6. answer' \in [Call -> Seq(Block)]
    BY <1>4, <2>2, <2>4, AppendEntries DEF SendBlock, ServerTypeOK
  <2> QED BY <1>4, <2>1, <2>5, <2>6 DEF SendBlock, ServerTypeOK
<1>5. CASE SendSampleBlock
  <2>1. srv.call \in Call /\ srv' \in Session
    BY <1>5, SessionTypes DEF SendSampleBlock, ServerTypeOK, Phase
  <2>2. Msg("DATA", srv.call, 0) \in Packet
    BY <2>1, MessageTypes DEF ServerPacketType
  <2> QED BY <1>5, <2>1, <2>2, AppendEntries DEF SendSampleBlock, ServerTypeOK
<1>6. CASE SendEndOfStream
  <2>1. srv.call \in Call /\ srv' \in Session
    BY <1>6, SessionTypes DEF SendEndOfStream, ServerTypeOK, Session
  <2>2. Msg("EOS", srv.call, 0) \in Packet
    BY <2>1, MessageTypes DEF ServerPacketType
  <2> QED BY <1>6, <2>1, <2>2, AppendEntries DEF SendEndOfStream, ServerTypeOK
<1>7. CASE SendException
  <2>1. srv.call \in Call
    BY <1>7, SessionTypes DEF SendException, ServerTypeOK
  <2>2. srv' \in Session
    BY <1>7, SessionTypes DEF SendException, ServerTypeOK, Session, Phase
  <2>3. Msg("EXCEPTION", srv.call, 0) \in Packet
    BY <2>1, MessageTypes DEF ServerPacketType
  <2> QED BY <1>7, <2>1, <2>2, <2>3, AppendEntries DEF SendException, ServerTypeOK
<1>8. ASSUME NEW t \in Infos, SendInfo(t) PROVE ServerTypeOK'
  <2>1. srv.call \in Call /\ srv' \in Session
    BY <1>8, SessionTypes DEF SendInfo, ServerTypeOK
  <2>2. Msg(t, srv.call, 0) \in Packet
    BY <2>1, MessageTypes, InfosAssumption DEF ServerPacketType
  <2> QED BY <1>8, <2>1, <2>2, AppendEntries DEF SendInfo, ServerTypeOK
<1> QED BY <1>1, <1>2, <1>3, <1>4, <1>5, <1>6, <1>7, <1>8 DEF ServerNext

\* Disconnecting leaves a well-typed, empty connection.
LEMMA DisconnectTyping ==
  ASSUME Disconnect, ServerTypeOK, UNCHANGED answer
  PROVE  ServerTypeOK' /\ connected' \in BOOLEAN /\ executing' \in BOOLEAN
<1>1. c2s' \in Seq(ClientMsg) /\ s2c' \in Seq(Packet)
  BY DEF Disconnect
<1>2. srv' \in Session
  BY DEF Disconnect, Session
<1> QED BY <1>1, <1>2 DEF Disconnect, ServerTypeOK

LEMMA RaiseTyping ==
  ASSUME TypeOK, RaiseAndDisconnect, hosts' \in Seq(Nat), Len(hosts') = Len(Hosts),
         tries' \in 0..Len(Hosts)
  PROVE  TypeOK'
<1>1. ServerTypeOK' /\ connected' \in BOOLEAN /\ executing' \in BOOLEAN
  BY DisconnectTyping DEF RaiseAndDisconnect, ClientDisconnect, TypeOK
<1> QED BY <1>1, ConstantTypes
        DEF RaiseAndDisconnect, ClientDisconnect, EndCall, TypeOK, Stage, Status

\* What the application starts keeps the types.
LEMMA AppTyping == TypeOK /\ AppNext => TypeOK'
<1> SUFFICES ASSUME TypeOK, AppNext PROVE TypeOK'
  OBVIOUS
<1> USE ConstantTypes DEF TypeOK
<1>1. ASSUME NEW q \in Call, NEW k \in Kinds, Refuse(q, k) PROVE TypeOK'
  <2>1. ServerTypeOK' /\ connected' \in BOOLEAN /\ executing' \in BOOLEAN
    BY <1>1, DisconnectTyping DEF Refuse, ClientDisconnect
  <2> QED BY <1>1, <2>1, KindsAssumption DEF Refuse, ClientDisconnect, Kind, Status
<1>2. ASSUME NEW q \in Call, NEW k \in Kinds, ForceConnect(q, k) PROVE TypeOK'
  <2>1. Append(c2s, Ping) \in Seq(ClientMsg)
    BY SignalTypes, AppendEntries DEF ServerTypeOK
  <2>2. ServerTypeOK'
    BY <1>2, <2>1 DEF ForceConnect, ServerTypeOK
  <2> QED BY <1>2, <2>2, KindsAssumption DEF ForceConnect, Kind, Status, Stage
<1>3. ASSUME NEW q \in Call, Cancel(q) PROVE TypeOK'
  <2>1. Append(c2s, CancelMsg) \in Seq(ClientMsg)
    BY SignalTypes, AppendEntries DEF ServerTypeOK
  <2>2. ServerTypeOK'
    BY <1>3, <2>1 DEF Cancel, ServerTypeOK
  <2> QED BY <1>3, <2>2 DEF Cancel, Kind, Status, Stage
<1>4. ASSUME NEW q \in Call, NEW k \in Kinds \cup {"cancel"}, FailAtOnce(q, k)
      PROVE  TypeOK'
  BY <1>4, KindsAssumption DEF FailAtOnce, Kind, Status, serverVars, ServerTypeOK
<1>5. ASSUME NEW q \in Call, Pull(q) PROVE TypeOK'
  BY <1>5 DEF Pull, Stage, serverVars, ServerTypeOK
<1>6. ASSUME NEW q \in Call, Abandon(q) PROVE TypeOK'
  BY <1>6 DEF Abandon, Status, serverVars, ServerTypeOK
<1>7. CASE AppDisconnect
  <2>1. ServerTypeOK' /\ connected' \in BOOLEAN /\ executing' \in BOOLEAN
    BY <1>7, DisconnectTyping DEF AppDisconnect, ClientDisconnect
  <2> QED BY <1>7, <2>1 DEF AppDisconnect, ClientDisconnect
<1> QED BY <1>1, <1>2, <1>3, <1>4, <1>5, <1>6, <1>7 DEF AppNext

\* Every step of a running call keeps the types.
LEMMA CallTyping == TypeOK /\ CallNext => TypeOK'
<1> SUFFICES ASSUME TypeOK, CallNext PROVE TypeOK'
  OBVIOUS
<1> USE ConstantTypes DEF TypeOK
<1>a. s2c # <<>> => /\ Tail(s2c) \in Seq(Packet) /\ Head(s2c) \in Packet
  BY TailEntries DEF ServerTypeOK
<1>b. ASSUME RaiseAndDisconnect, UNCHANGED <<hosts, tries>> PROVE TypeOK'
  BY <1>b, RaiseTyping
<1>1. CASE PingProgress
  BY <1>1, <1>a DEF PingProgress, clientVars, ServerTypeOK
<1>2. CASE PingPong
  BY <1>2, <1>a DEF PingPong, Stage, ServerTypeOK
<1>3. CASE PingUnexpected
  BY <1>3, <1>b DEF PingUnexpected
<1>4. CASE PingLost
  <2>1. ServerTypeOK' /\ connected' \in BOOLEAN /\ executing' \in BOOLEAN
    BY <1>4, DisconnectTyping DEF PingLost
  <2> QED BY <1>4, <2>1 DEF PingLost, Stage
<1>5. CASE ConnectOk
  BY <1>5 DEF ConnectOk, Stage, serverVars, ServerTypeOK
<1>6. CASE ConnectFailed
  <2>1. hosts' \in Seq(Nat) /\ Len(hosts') = Len(Hosts) /\ tries' \in 0..Len(Hosts)
    BY SMTT(30), <1>6 DEF ConnectFailed
  <2>2. CASE tries + 1 < Len(hosts)
    <3>1. ServerTypeOK' /\ connected' \in BOOLEAN /\ executing' \in BOOLEAN
      BY <1>6, <2>2, DisconnectTyping DEF ConnectFailed
    <3> QED BY <1>6, <2>1, <2>2, <3>1 DEF ConnectFailed
  <2>3. CASE ~(tries + 1 < Len(hosts))
    BY <1>6, <2>1, <2>3, RaiseTyping DEF ConnectFailed
  <2> QED BY <2>2, <2>3
<1>7. CASE ConnectRefused
  BY <1>7, <1>b DEF ConnectRefused
<1>8. CASE SendQuery
  <2>1. cur \in Call
    BY <1>8 DEF SendQuery
  <2>2. \A t \in {"INSERT", "QUERY"}: Append(c2s, Msg(t, cur, 0)) \in Seq(ClientMsg)
    BY <2>1, MessageTypes, AppendEntries DEF ServerTypeOK, ClientMsgType
  <2>3. ServerTypeOK'
    BY <1>8, <2>2 DEF SendQuery, ServerTypeOK
  <2> QED BY <1>8, <2>1, <2>3 DEF SendQuery, EndCall, Stage, Status
<1>9. CASE ReceiveSampleBlock
  BY <1>9, <1>a, <1>b DEF ReceiveSampleBlock, Stage, ServerTypeOK
<1>10. CASE SendChunk
  <2> DEFINE n == Len(rows[cur]) + 1
  <2>1. cur \in Call /\ rows[cur] \in Seq(Block)
    BY <1>10 DEF SendChunk
  <2>2. n \in 0..MaxBlocks
    BY <1>10, <2>1 DEF SendChunk
  <2>3. Msg("DATA", cur, n) \in ClientMsg /\ Blk(cur, n) \in Block
    BY <2>1, <2>2, MessageTypes DEF ClientMsgType
  <2>4. Append(c2s, Msg("DATA", cur, n)) \in Seq(ClientMsg)
        /\ Append(rows[cur], Blk(cur, n)) \in Seq(Block)
    BY <2>1, <2>3, AppendEntries DEF ServerTypeOK
  <2>5. ServerTypeOK' /\ rows' \in [Call -> Seq(Block)]
    BY <1>10, <2>1, <2>4 DEF SendChunk, ServerTypeOK
  <2> QED BY <1>10, <2>5 DEF SendChunk
<1>11. CASE SendEndOfData
  <2>1. cur \in Call
    BY <1>11 DEF SendEndOfData
  <2>2. Append(c2s, Msg("END_OF_DATA", cur, 0)) \in Seq(ClientMsg)
    BY <2>1, MessageTypes, AppendEntries DEF ServerTypeOK, ClientMsgType
  <2>3. ServerTypeOK'
    BY <1>11, <2>2 DEF SendEndOfData, ServerTypeOK
  <2> QED BY <1>11, <2>3 DEF SendEndOfData, Stage
<1>12. CASE ReceiveEndOfQuery
  BY <1>12, <1>a, <1>b DEF ReceiveEndOfQuery, EndCall, Stage, Status, ServerTypeOK
<1>13. CASE ReceiveYielded
  <2>1. ServerTypeOK'
    BY <1>13, <1>a DEF ReceiveYielded, ServerTypeOK
  <2>2. cur \in Call /\ rows[cur] \in Seq(Block)
    BY <1>13 DEF ReceiveYielded
  <2>3. rows' \in [Call -> Seq(Block)]
    <3>1. CASE Head(s2c).type = "DATA"
      <4>1. Blk(Head(s2c).call, Head(s2c).n) \in Block
        BY <1>13, <1>a, <3>1, CarriesCall DEF ReceiveYielded, Block, Blk
      <4>2. Append(rows[cur], Blk(Head(s2c).call, Head(s2c).n)) \in Seq(Block)
        BY <2>2, <4>1, AppendEntries
      <4> QED BY <1>13, <2>2, <3>1, <4>2 DEF ReceiveYielded
    <3>2. CASE Head(s2c).type # "DATA"
      BY <1>13, <3>2 DEF ReceiveYielded
    <3> QED BY <3>1, <3>2
  <2> QED BY <1>13, <2>1, <2>3 DEF ReceiveYielded, Stage
<1>14. CASE ReceiveSkipped
  BY <1>14, <1>a DEF ReceiveSkipped, clientVars, ServerTypeOK
<1>15. CASE ReceiveEndOfStream
  BY <1>15, <1>a DEF ReceiveEndOfStream, EndCall, Stage, Status, ServerTypeOK
<1>16. CASE ReceiveError
  BY <1>16, <1>b DEF ReceiveError
<1>17. CASE Lost
  BY <1>17, <1>b DEF Lost
<1> QED BY <1>1, <1>2, <1>3, <1>4, <1>5, <1>6, <1>7, <1>8, <1>9, <1>10, <1>11,
           <1>12, <1>13, <1>14, <1>15, <1>16, <1>17 DEF CallNext

LEMMA InitTyping == Init => TypeOK
<1> SUFFICES ASSUME Init PROVE TypeOK
  OBVIOUS
<1>1. srv \in Session
  BY DEF Init, ServerInit, Session
<1>2. ServerTypeOK
  BY <1>1 DEF Init, ServerInit, ServerTypeOK
<1>3. kind \in [Call -> Kind] /\ status \in [Call -> Status] /\ rows \in [Call -> Seq(Block)]
  BY DEF Init, Kind, Status
<1>4. /\ hosts \in Seq(Nat) /\ Len(hosts) = Len(Hosts)
      /\ connected \in BOOLEAN /\ executing \in BOOLEAN
      /\ lastQuery \in Call \cup {NoCall} /\ cur \in Call \cup {NoCall}
      /\ stage \in Stage /\ stage = "idle" /\ tries \in 0..Len(Hosts)
  <2>1. /\ hosts = Hosts /\ connected = FALSE /\ executing = FALSE
        /\ lastQuery = NoCall /\ cur = NoCall /\ stage = "idle" /\ tries = 0
    BY DEF Init
  <2>2. Len(Hosts) \in Nat /\ Hosts \in Seq(Nat)
    BY ConstantTypes
  <2>3. connected \in BOOLEAN /\ executing \in BOOLEAN
    BY <2>1, Zenon
  <2>4. stage \in Stage
    BY <2>1 DEF Stage
  <2>5. tries \in 0..Len(Hosts)
    BY <2>1, <2>2
  <2> QED BY <2>1, <2>2, <2>3, <2>4, <2>5, Zenon
<1> QED BY <1>2, <1>3, <1>4 DEF TypeOK

LEMMA StepTyping == TypeOK /\ [Next]_vars => TypeOK'
<1> SUFFICES ASSUME TypeOK, [Next]_vars PROVE TypeOK'
  OBVIOUS
<1>1. CASE AppNext
  BY <1>1, AppTyping
<1>2. CASE CallNext
  BY <1>2, CallTyping
<1>3. CASE ServerNext /\ UNCHANGED clientVars
  BY <1>3, ServerTyping DEF TypeOK, clientVars
<1>4. CASE UNCHANGED vars
  BY <1>4 DEF vars, clientVars, serverVars, TypeOK, ServerTypeOK
<1> QED BY <1>1, <1>2, <1>3, <1>4 DEF Next

\* Every variable of the client and of its connection keeps its type, whatever
\* the application, the server and the network do (client.py, connection.py).
THEOREM TypeCorrect == Spec => []TypeOK
BY InitTyping, StepTyping, PTL DEF Spec

-----------------------------------------------------------------------------
(* No call is given another query's packets *)

\* A step that leaves the client without connection, between calls or on its
\* way to the next connection point, and adds no rows.
LEMMA OfflineStep ==
  ASSUME IInv, TypeOK', Disconnect,
         stage' \in {"idle", "connect"},
         stage' = "connect" => stage # "idle" /\ cur' = cur,
         rows' = rows,
         \A q \in Call: kind'[q] # kind[q] => status[q] = "none",
         \A q \in Call: status'[q] = "none" => status[q] = "none",
         \A q \in Call: status'[q] = "live" => status[q] = "live"
  PROVE  IInv'
<1> USE DEF IInv
<1>1. c2s' = <<>> /\ s2c' = <<>> /\ srv' = IdleSession /\ ~connected'
  BY DEF Disconnect
<1>2. OfflineIsEmpty' /\ StageConnected' /\ LastQueryKnown' /\ SendIsQuiet'
  BY <1>1 DEF OfflineIsEmpty, StageConnected, LastQueryKnown, SendIsQuiet
<1>3. AboutLastQuery' /\ PingIsLast' /\ QueryMeetsIdleServer'
  BY <1>1 DEF AboutLastQuery, PingIsLast, QueryMeetsIdleServer, IdleSession, Serving
<1>4. ReadersAreOwners'
  BY DEF ReadersAreOwners, TypeOK
<1>5. OwnRows'
  BY DEF OwnRows, ReadersAreOwners
<1> QED BY <1>2, <1>3, <1>4, <1>5

LEMMA RaiseInvariant ==
  ASSUME IInv, TypeOK', RaiseAndDisconnect, stage # "idle"
  PROVE  IInv'
<1>1. cur \in Call
  BY DEF IInv, TypeOK
<1>2. \A q \in Call: status'[q] \in {"none", "live"} => status'[q] = status[q]
  BY <1>1 DEF RaiseAndDisconnect, EndCall, IInv, TypeOK
<1> QED BY <1>2, OfflineStep DEF RaiseAndDisconnect, ClientDisconnect, EndCall

\* A step that only sends a message which is not a query, outside ping, on a
\* connection that has its last query.
LEMMA SendStep ==
  ASSUME IInv, NEW m \in ClientMsg, m.type \notin {"QUERY", "INSERT"},
         connected, stage \notin {"ping", "send"},
         stage' # "send", m.type = "PING" => stage' = "ping",
         c2s' = Append(c2s, m),
         UNCHANGED <<connected, lastQuery, s2c, srv>>,
         stage' # "connect"
  PROVE  /\ OfflineIsEmpty' /\ StageConnected' /\ LastQueryKnown'
         /\ AboutLastQuery' /\ PingIsLast' /\ SendIsQuiet'
         /\ QueryMeetsIdleServer'
<1> USE DEF IInv
<1>1. c2s \in Seq(ClientMsg)
  BY DEF TypeOK, ServerTypeOK
<1>2. /\ Len(c2s') = Len(c2s) + 1 /\ Len(c2s) \in Nat
      /\ DOMAIN c2s' = DOMAIN c2s \cup {Len(c2s) + 1}
      /\ \A i \in DOMAIN c2s: c2s'[i] = c2s[i]
      /\ c2s'[Len(c2s) + 1] = m
  BY <1>1, AppendEntries
<1>3. OfflineIsEmpty' /\ StageConnected' /\ LastQueryKnown' /\ SendIsQuiet'
  BY DEF OfflineIsEmpty, StageConnected, LastQueryKnown, SendIsQuiet
<1>4. AboutLastQuery'
  BY <1>2 DEF AboutLastQuery
<1>5. PingIsLast'
  <2>1. \A i \in DOMAIN c2s: c2s[i].type # "PING"
    BY DEF PingIsLast
  <2>2. \A i \in DOMAIN s2c: s2c[i].type # "PONG"
    BY DEF PingIsLast
  <2> QED BY <1>2, <2>1, <2>2 DEF PingIsLast
<1>6. QueryMeetsIdleServer'
  BY <1>2 DEF QueryMeetsIdleServer
<1> QED BY <1>3, <1>4, <1>5, <1>6

\* A step that only takes the next packet, outside ping.
LEMMA ReceiveStep ==
  ASSUME IInv, s2c # <<>>, s2c' = Tail(s2c),
         stage \notin {"idle", "ping", "send", "connect"},
         stage' \notin {"ping", "send", "connect"},
         UNCHANGED <<connected, lastQuery, c2s, srv>>
  PROVE  /\ OfflineIsEmpty' /\ StageConnected' /\ LastQueryKnown'
         /\ AboutLastQuery' /\ PingIsLast' /\ SendIsQuiet'
         /\ QueryMeetsIdleServer'
         /\ connected /\ Head(s2c).type # "PONG" /\ Head(s2c).call = lastQuery
<1> USE DEF IInv
<1>1. s2c \in Seq(Packet)
  BY DEF TypeOK, ServerTypeOK
<1>2. /\ Head(s2c) = s2c[1] /\ 1 \in DOMAIN s2c
      /\ \A i \in DOMAIN s2c': s2c'[i] = s2c[i + 1] /\ i + 1 \in DOMAIN s2c
  BY <1>1, TailEntries
<1>3. connected
  BY DEF OfflineIsEmpty
<1>4. OfflineIsEmpty' /\ StageConnected' /\ LastQueryKnown' /\ SendIsQuiet'
  BY <1>3 DEF OfflineIsEmpty, StageConnected, LastQueryKnown, SendIsQuiet
<1>5. \A i \in DOMAIN s2c: s2c[i].type # "PONG" /\ s2c[i].call = lastQuery
  BY DEF PingIsLast, AboutLastQuery
<1>6. AboutLastQuery' /\ Head(s2c).type # "PONG" /\ Head(s2c).call = lastQuery
  BY <1>2, <1>5 DEF AboutLastQuery
<1>7. PingIsLast'
  <2>1. \A i \in DOMAIN c2s: c2s[i].type # "PING"
    BY DEF PingIsLast
  <2> QED BY <1>2, <1>5, <2>1 DEF PingIsLast
<1>8. QueryMeetsIdleServer'
  BY DEF QueryMeetsIdleServer
<1> QED BY <1>3, <1>4, <1>6, <1>7, <1>8

\* Blocks of one call stay blocks of one call when another of it is added.
LEMMA OwnAppend ==
  ASSUME NEW b \in Seq(Block), NEW q, NEW n, \A i \in DOMAIN b: b[i].call = q
  PROVE  \A i \in DOMAIN Append(b, Blk(q, n)): Append(b, Blk(q, n))[i].call = q
BY DEF Blk

LEMMA InitInvariant == Init => IInv
<1> SUFFICES ASSUME Init PROVE IInv
  OBVIOUS
<1>1. TypeOK
  BY InitTyping
<1>2. OfflineIsEmpty /\ StageConnected /\ LastQueryKnown /\ SendIsQuiet
  BY DEF Init, ServerInit, OfflineIsEmpty, StageConnected, LastQueryKnown, SendIsQuiet
<1>3. AboutLastQuery /\ PingIsLast /\ QueryMeetsIdleServer
  BY DEF Init, ServerInit, AboutLastQuery, PingIsLast, QueryMeetsIdleServer,
         IdleSession, Serving
<1>4. ReadersAreOwners /\ OwnRows
  BY DEF Init, ReadersAreOwners, OwnRows
<1> QED BY <1>1, <1>2, <1>3, <1>4 DEF IInv

LEMMA AppInvariant == IInv /\ AppNext /\ TypeOK' => IInv'
<1> SUFFICES ASSUME IInv, AppNext, TypeOK' PROVE IInv'
  OBVIOUS
<1> USE DEF IInv
<1>1. ASSUME NEW q \in Call, NEW k \in Kinds, Refuse(q, k) PROVE IInv'
  <2>1. \A p \in Call: kind'[p] # kind[p] => status[p] = "none"
    BY <1>1 DEF Refuse, Fresh, TypeOK
  <2>2. \A p \in Call: status'[p] \in {"none", "live"} => status'[p] = status[p]
    BY <1>1 DEF Refuse, TypeOK
  <2> QED BY <1>1, <2>1, <2>2, OfflineStep DEF Refuse, ClientDisconnect, Fresh
<1>2. ASSUME NEW q \in Call, NEW k \in Kinds, ForceConnect(q, k) PROVE IInv'
  <2>1. stage = "idle" /\ status[q] = "none"
    BY <1>2 DEF ForceConnect, Fresh
  <2>2. /\ OfflineIsEmpty' /\ StageConnected' /\ LastQueryKnown'
        /\ AboutLastQuery' /\ PingIsLast' /\ SendIsQuiet' /\ QueryMeetsIdleServer'
    <3>1. CASE connected
      <4>1. Ping \in ClientMsg /\ Ping.type = "PING"
        BY SignalTypes DEF Ping, Msg
      <4> QED BY <1>2, <2>1, <3>1, <4>1, SendStep DEF ForceConnect
    <3>2. CASE ~connected
      <4>1. stage' = "connect" /\ ~connected' /\ UNCHANGED <<c2s, s2c, srv>>
        BY <1>2, <3>2 DEF ForceConnect
      <4> QED BY <3>2, <4>1
              DEF OfflineIsEmpty, StageConnected, LastQueryKnown, AboutLastQuery,
                  PingIsLast, SendIsQuiet, QueryMeetsIdleServer, IdleSession, Serving
    <3> QED BY <3>1, <3>2
  <2>3. ReadersAreOwners'
    <3>1. stage' \in {"ping", "connect"} /\ rows' = rows /\ cur' = q
      BY <1>2 DEF ForceConnect
    <3>2. \A p \in Call: p # q => kind'[p] = kind[p] /\ status'[p] = status[p]
      BY <1>2 DEF ForceConnect, TypeOK
    <3>3. status'[q] = "running"
      BY <1>2 DEF ForceConnect, TypeOK
    <3> QED BY <3>1, <3>2, <3>3 DEF ReadersAreOwners
  <2>4. OwnRows'
    BY <1>2, <2>1 DEF ForceConnect, OwnRows, ReadersAreOwners, TypeOK
  <2> QED BY <2>2, <2>3, <2>4
<1>3. ASSUME NEW q \in Call, Cancel(q) PROVE IInv'
  <2>1. stage = "idle" /\ status[q] = "none" /\ connected
    BY <1>3 DEF Cancel, Fresh
  <2>2. /\ OfflineIsEmpty' /\ StageConnected' /\ LastQueryKnown'
        /\ AboutLastQuery' /\ PingIsLast' /\ SendIsQuiet' /\ QueryMeetsIdleServer'
    <3>1. CancelMsg \in ClientMsg /\ CancelMsg.type = "CANCEL"
      BY SignalTypes DEF CancelMsg, Msg
    <3> QED BY <1>3, <2>1, <3>1, SendStep DEF Cancel
  <2>3. ReadersAreOwners'
    <3>1. stage' = "drain" /\ cur' = q /\ rows' = rows
      BY <1>3 DEF Cancel
    <3>2. \A p \in Call: p # q => kind'[p] = kind[p] /\ status'[p] = status[p]
      BY <1>3 DEF Cancel, TypeOK
    <3>3. status'[q] = "running" /\ kind'[q] = "cancel"
      BY <1>3 DEF Cancel, TypeOK
    <3> QED BY <3>1, <3>2, <3>3 DEF ReadersAreOwners
  <2>4. OwnRows'
    BY <1>3 DEF Cancel, OwnRows, TypeOK
  <2> QED BY <2>2, <2>3, <2>4
<1>4. ASSUME NEW q \in Call, NEW k \in Kinds \cup {"cancel"},
             FailAtOnce(q, k) \/ Abandon(q) \/ Pull(q)
      PROVE  IInv'
  <2>1. UNCHANGED <<connected, lastQuery, rows, c2s, s2c, srv>> /\ stage = "idle"
        /\ stage' \in {"idle", "pull"}
    BY <1>4 DEF FailAtOnce, Abandon, Pull, Fresh, serverVars
  <2>2. /\ OfflineIsEmpty' /\ StageConnected' /\ LastQueryKnown'
        /\ AboutLastQuery' /\ PingIsLast' /\ SendIsQuiet' /\ QueryMeetsIdleServer'
    BY <2>1 DEF OfflineIsEmpty, StageConnected, LastQueryKnown, AboutLastQuery,
                PingIsLast, SendIsQuiet, QueryMeetsIdleServer
  <2>3. ReadersAreOwners' /\ OwnRows'
    <3>1. CASE FailAtOnce(q, k)
      <4>1. \A p \in Call: p # q => kind'[p] = kind[p] /\ status'[p] = status[p]
        BY <3>1 DEF FailAtOnce, TypeOK
      <4>2. status'[q] = "error" /\ rows[q] = <<>>
        BY <3>1 DEF FailAtOnce, Fresh, ReadersAreOwners, TypeOK
      <4>3. stage' = "idle"
        BY <2>1, <3>1 DEF FailAtOnce
      <4> QED BY <2>1, <4>1, <4>2, <4>3 DEF ReadersAreOwners, OwnRows
    <3>2. CASE Abandon(q)
      BY <2>1, <3>2 DEF Abandon, ReadersAreOwners, OwnRows, TypeOK
    <3>3. CASE Pull(q)
      BY <2>1, <3>3 DEF Pull, ReadersAreOwners, OwnRows
    <3> QED BY <1>4, <3>1, <3>2, <3>3
  <2> QED BY <2>2, <2>3
<1>5. CASE AppDisconnect
  BY <1>5, OfflineStep DEF AppDisconnect, ClientDisconnect
<1> QED BY <1>1, <1>2, <1>3, <1>4, <1>5 DEF AppNext

LEMMA CallInvariant == IInv /\ CallNext /\ TypeOK' => IInv'
<1> SUFFICES ASSUME IInv, CallNext, TypeOK' PROVE IInv'
  OBVIOUS
<1> USE DEF IInv
<1>a. s2c \in Seq(Packet) /\ c2s \in Seq(ClientMsg) /\ (stage # "idle" => cur \in Call)
  BY DEF TypeOK, ServerTypeOK
<1>b. s2c # <<>> => /\ Head(s2c) = s2c[1] /\ 1 \in DOMAIN s2c
                    /\ Len(s2c) \in Nat \ {0} /\ Len(Tail(s2c)) = Len(s2c) - 1
                    /\ \A i \in DOMAIN Tail(s2c): /\ Tail(s2c)[i] = s2c[i + 1]
                                                   /\ i + 1 \in DOMAIN s2c
  BY <1>a, TailEntries
<1>1. CASE PingProgress
  <2>1. /\ stage = "ping" /\ s2c # <<>> /\ s2c' = Tail(s2c)
        /\ UNCHANGED <<connected, lastQuery, stage, cur, kind, status, rows, c2s, srv>>
    BY <1>1 DEF PingProgress, clientVars
  <2>2. Len(s2c') = Len(s2c) - 1
    BY <1>b, <2>1
  <2>3. OfflineIsEmpty' /\ StageConnected' /\ LastQueryKnown' /\ SendIsQuiet'
    BY <2>1 DEF OfflineIsEmpty, StageConnected, LastQueryKnown, SendIsQuiet
  <2>4. AboutLastQuery'
    BY <1>b, <2>1 DEF AboutLastQuery
  <2>5. PingIsLast'
    BY <1>b, <2>1, <2>2 DEF PingIsLast
  <2>6. QueryMeetsIdleServer'
    BY <2>1 DEF QueryMeetsIdleServer
  <2>7. ReadersAreOwners' /\ OwnRows'
    BY <2>1 DEF ReadersAreOwners, OwnRows
  <2> QED BY <2>3, <2>4, <2>5, <2>6, <2>7
<1>2. CASE PingPong
  <2>1. /\ stage = "ping" /\ s2c # <<>> /\ s2c' = Tail(s2c) /\ stage' = "send"
        /\ UNCHANGED <<connected, lastQuery, cur, kind, status, rows, c2s, srv>>
        /\ s2c[1].type = "PONG"
    BY <1>2, <1>b DEF PingPong
  <2>2. c2s' = <<>> /\ s2c' = <<>> /\ srv'.phase = "idle"
    <3>1. Len(s2c) = 1 /\ c2s = <<>> /\ srv.phase = "idle"
      BY <1>b, <2>1 DEF PingIsLast
    <3> QED BY <1>a, <2>1, <3>1
  <2>3. OfflineIsEmpty' /\ StageConnected' /\ LastQueryKnown' /\ SendIsQuiet'
    BY <2>1, <2>2 DEF OfflineIsEmpty, StageConnected, LastQueryKnown, SendIsQuiet
  <2>4. AboutLastQuery' /\ PingIsLast' /\ QueryMeetsIdleServer'
    BY <2>2 DEF AboutLastQuery, PingIsLast, QueryMeetsIdleServer
  <2>5. ReadersAreOwners' /\ OwnRows'
    BY <2>1 DEF ReadersAreOwners, OwnRows
  <2> QED BY <2>3, <2>4, <2>5
<1>3. CASE PingUnexpected
  BY <1>3, RaiseInvariant DEF PingUnexpected
<1>4. CASE PingLost
  BY <1>4, OfflineStep DEF PingLost
<1>5. CASE ConnectOk
  <2>1. /\ c2s' = <<>> /\ s2c' = <<>> /\ srv' = IdleSession
        /\ connected' /\ stage' = "send" /\ stage = "connect"
        /\ UNCHANGED <<lastQuery, cur, kind, status, rows>>
    BY <1>5 DEF ConnectOk, serverVars, OfflineIsEmpty, StageConnected
  <2>2. OfflineIsEmpty' /\ StageConnected' /\ LastQueryKnown' /\ SendIsQuiet'
    BY <2>1 DEF OfflineIsEmpty, StageConnected, LastQueryKnown, SendIsQuiet,
                IdleSession, Serving
  <2>3. AboutLastQuery' /\ PingIsLast' /\ QueryMeetsIdleServer'
    BY <2>1 DEF AboutLastQuery, PingIsLast, QueryMeetsIdleServer, IdleSession, Serving
  <2>4. ReadersAreOwners' /\ OwnRows'
    BY <2>1 DEF ReadersAreOwners, OwnRows
  <2> QED BY <2>2, <2>3, <2>4
<1>6. CASE ConnectFailed
  <2>1. CASE tries + 1 < Len(hosts)
    BY <1>6, <2>1, OfflineStep DEF ConnectFailed
  <2>2. CASE ~(tries + 1 < Len(hosts))
    BY <1>6, <2>2, RaiseInvariant DEF ConnectFailed
  <2> QED BY <2>1, <2>2
<1>7. CASE ConnectRefused
  BY <1>7, RaiseInvariant DEF ConnectRefused
<1>8. CASE SendQuery
  <2> DEFINE m == Msg(IF kind[cur] = "insert" THEN "INSERT" ELSE "QUERY", cur, 0)
  <2>1. /\ stage = "send" /\ cur \in Call /\ lastQuery' = cur
        /\ c2s = <<>> /\ s2c = <<>> /\ srv.phase = "idle" /\ connected
        /\ c2s' = Append(c2s, m)
        /\ UNCHANGED <<connected, kind, rows, s2c, srv>>
    BY <1>8, <1>a DEF SendQuery, SendIsQuiet, StageConnected
  <2>2. stage' \in {"idle", "drain", "sample"}
    BY <1>8 DEF SendQuery, EndCall
  <2>3. m.type \in {"QUERY", "INSERT"} /\ m.call = cur
    BY DEF Msg
  <2>4. c2s' = <<m>> /\ DOMAIN c2s' = {1} /\ c2s'[1] = m
    BY <2>1
  <2>5. OfflineIsEmpty' /\ StageConnected' /\ LastQueryKnown' /\ SendIsQuiet'
    BY <2>1, <2>2 DEF OfflineIsEmpty, StageConnected, LastQueryKnown, SendIsQuiet
  <2>6. AboutLastQuery' /\ PingIsLast' /\ QueryMeetsIdleServer'
    <3>1. DOMAIN s2c' = {}
      BY <2>1
    <3> QED BY <2>1, <2>3, <2>4, <3>1 DEF AboutLastQuery, PingIsLast, QueryMeetsIdleServer
  <2>7. ReadersAreOwners'
    <3>1. CASE kind[cur] \in {"execute", "insert"}
      BY <1>8, <2>1, <3>1 DEF SendQuery, ReadersAreOwners
    <3>2. CASE kind[cur] \notin {"execute", "insert"}
      <4>1. stage' = "idle" /\ status' = [status EXCEPT ![cur] = "live"]
        BY <1>8, <3>2 DEF SendQuery, EndCall
      <4> QED BY <2>1, <3>2, <4>1 DEF ReadersAreOwners, TypeOK
    <3> QED BY <3>1, <3>2
  <2>8. OwnRows'
    BY <2>1 DEF OwnRows
  <2> QED BY <2>5, <2>6, <2>7, <2>8
<1>9. CASE ReceiveSampleBlock
  <2>1. CASE RaiseAndDisconnect
    BY <1>9, <2>1, RaiseInvariant DEF ReceiveSampleBlock
  <2>2. CASE ~RaiseAndDisconnect
    <3>1. /\ stage = "sample" /\ s2c # <<>> /\ s2c' = Tail(s2c)
          /\ stage' \in {"sample", "data"}
          /\ UNCHANGED <<connected, lastQuery, cur, kind, status, rows, c2s, srv>>
      BY <1>9, <2>2 DEF ReceiveSampleBlock
    <3>2. ReadersAreOwners' /\ OwnRows'
      BY <3>1 DEF ReadersAreOwners, OwnRows
    <3> QED BY <3>1, <3>2, ReceiveStep
  <2> QED BY <2>1, <2>2
<1>10. CASE SendChunk
  <2> DEFINE n == Len(rows[cur]) + 1
  <2>1. stage = "data" /\ stage' = "data" /\ connected /\ cur \in Call
    BY <1>10, <1>a DEF SendChunk, StageConnected
  <2>2. n \in 0..MaxBlocks
    BY <1>10, <2>1, ConstantTypes DEF SendChunk, TypeOK
  <2>3. Msg("DATA", cur, n) \in ClientMsg /\ Msg("DATA", cur, n).type = "DATA"
    BY <2>1, <2>2, MessageTypes DEF ClientMsgType, Msg
  <2>4. /\ OfflineIsEmpty' /\ StageConnected' /\ LastQueryKnown'
        /\ AboutLastQuery' /\ PingIsLast' /\ SendIsQuiet' /\ QueryMeetsIdleServer'
    BY <1>10, <2>1, <2>3, SendStep DEF SendChunk
  <2>5. rows[cur] \in Seq(Block) /\ rows' = [rows EXCEPT ![cur] = Append(@, Blk(cur, n))]
    BY <1>10, <2>1 DEF SendChunk, TypeOK
  <2>6. OwnRows'
    <3>1. UNCHANGED kind
      BY <1>10 DEF SendChunk
    <3> QED BY <2>1, <2>5, <3>1 DEF OwnRows, TypeOK, Blk
  <2>7. ReadersAreOwners'
    <3>1. status[cur] # "none"
      BY <2>1 DEF ReadersAreOwners
    <3> QED BY <1>10, <2>1, <3>1 DEF SendChunk, ReadersAreOwners, TypeOK
  <2> QED BY <2>4, <2>6, <2>7
<1>11. CASE SendEndOfData
  <2>1. stage = "data" /\ stage' = "eoq" /\ connected /\ cur \in Call
    BY <1>11, <1>a DEF SendEndOfData, StageConnected
  <2>2. Msg("END_OF_DATA", cur, 0) \in ClientMsg
        /\ Msg("END_OF_DATA", cur, 0).type = "END_OF_DATA"
    BY <2>1, MessageTypes, ConstantTypes DEF ClientMsgType, Msg
  <2>3. /\ OfflineIsEmpty' /\ StageConnected' /\ LastQueryKnown'
        /\ AboutLastQuery' /\ PingIsLast' /\ SendIsQuiet' /\ QueryMeetsIdleServer'
    BY <1>11, <2>1, <2>2, SendStep DEF SendEndOfData
  <2>4. ReadersAreOwners' /\ OwnRows'
    BY <1>11 DEF SendEndOfData, ReadersAreOwners, OwnRows
  <2> QED BY <2>3, <2>4
<1>12. CASE ReceiveEndOfQuery
  <2>1. CASE RaiseAndDisconnect
    BY <1>12, <2>1, RaiseInvariant DEF ReceiveEndOfQuery
  <2>2. CASE ~RaiseAndDisconnect
    <3>1. /\ stage = "eoq" /\ s2c # <<>> /\ s2c' = Tail(s2c)
          /\ stage' \in {"eoq", "idle"} /\ cur \in Call
          /\ stage' = "eoq" => UNCHANGED <<cur, status>>
          /\ UNCHANGED <<connected, lastQuery, kind, rows, c2s, srv>>
          /\ status' = status \/ status' = [status EXCEPT ![cur] = "ok"]
      BY <1>12, <1>a, <2>2 DEF ReceiveEndOfQuery, EndCall
    <3>2. ReadersAreOwners' /\ OwnRows'
      BY <3>1 DEF ReadersAreOwners, OwnRows, TypeOK
    <3> QED BY <3>1, <3>2, ReceiveStep
  <2> QED BY <2>1, <2>2
<1>13. CASE ReceiveYielded
  <2>1. /\ stage \in {"drain", "pull"} /\ s2c # <<>> /\ s2c' = Tail(s2c)
        /\ stage' \in {stage, "idle"} /\ cur \in Call
        /\ stage' # "idle" => UNCHANGED cur
        /\ UNCHANGED <<connected, lastQuery, kind, status, c2s, srv>>
    BY <1>13, <1>a DEF ReceiveYielded
  <2>2. /\ OfflineIsEmpty' /\ StageConnected' /\ LastQueryKnown'
        /\ AboutLastQuery' /\ PingIsLast' /\ SendIsQuiet' /\ QueryMeetsIdleServer'
        /\ Head(s2c).call = lastQuery
    BY <2>1, ReceiveStep
  <2>3. rows' = rows
        \/ rows' = [rows EXCEPT ![cur] = Append(@, Blk(lastQuery, Head(s2c).n))]
    BY <1>13, <2>2 DEF ReceiveYielded
  <2>4. status[cur] # "none"
    BY <2>1 DEF ReadersAreOwners
  <2>5. ReadersAreOwners'
    BY <2>1, <2>3, <2>4 DEF ReadersAreOwners, TypeOK
  <2>6. OwnRows'
    <3>1. CASE kind[cur] = "execute"
      <4>1. cur = lastQuery
        BY <2>1, <3>1 DEF ReadersAreOwners
      <4>2. rows[cur] \in Seq(Block)
        BY <2>1 DEF TypeOK
      <4>3. \A i \in DOMAIN rows'[cur]: rows'[cur][i].call = cur
        <5>1. CASE rows' = rows
          BY <2>1, <3>1, <5>1 DEF OwnRows
        <5>2. CASE rows' = [rows EXCEPT ![cur] = Append(@, Blk(lastQuery, Head(s2c).n))]
          <6>1. rows'[cur] = Append(rows[cur], Blk(cur, Head(s2c).n))
            BY <2>1, <4>1, <5>2 DEF TypeOK
          <6>2. \A i \in DOMAIN rows[cur]: rows[cur][i].call = cur
            BY <2>1, <3>1 DEF OwnRows
          <6> QED BY <4>2, <6>1, <6>2, OwnAppend
        <5> QED BY <2>3, <5>1, <5>2
      <4>4. \A q \in Call: q # cur => rows'[q] = rows[q]
        BY <2>1, <2>3 DEF TypeOK
      <4> QED BY <2>1, <4>3, <4>4 DEF OwnRows
    <3>2. CASE kind[cur] # "execute"
      BY <2>1, <2>3, <3>2 DEF OwnRows, TypeOK
    <3> QED BY <3>1, <3>2
  <2> QED BY <2>2, <2>5, <2>6
<1>14. CASE ReceiveSkipped
  <2>1. /\ stage \in {"drain", "pull"} /\ s2c # <<>> /\ s2c' = Tail(s2c)
        /\ UNCHANGED <<connected, lastQuery, stage, cur, kind, status, rows, c2s, srv>>
    BY <1>14 DEF ReceiveSkipped, clientVars
  <2>2. ReadersAreOwners' /\ OwnRows'
    BY <2>1 DEF ReadersAreOwners, OwnRows
  <2> QED BY <2>1, <2>2, ReceiveStep
<1>15. CASE ReceiveEndOfStream
  <2>1. /\ stage \in {"drain", "pull"} /\ s2c # <<>> /\ s2c' = Tail(s2c)
        /\ stage' = "idle" /\ cur \in Call
        /\ status' = [status EXCEPT ![cur] = "ok"]
        /\ UNCHANGED <<connected, lastQuery, kind, rows, c2s, srv>>
    BY <1>15, <1>a DEF ReceiveEndOfStream, EndCall
  <2>2. ReadersAreOwners' /\ OwnRows'
    BY <2>1 DEF ReadersAreOwners, OwnRows, TypeOK
  <2> QED BY <2>1, <2>2, ReceiveStep
<1>16. CASE ReceiveError
  BY <1>16, RaiseInvariant DEF ReceiveError
<1>17. CASE Lost
  BY <1>17, RaiseInvariant DEF Lost, Reading
<1> QED BY <1>1, <1>2, <1>3, <1>4, <1>5, <1>6, <1>7, <1>8, <1>9, <1>10, <1>11,
           <1>12, <1>13, <1>14, <1>15, <1>16, <1>17 DEF CallNext

\* The server only ever adds to what it is about.
LEMMA ServerInvariant ==
  IInv /\ ServerNext /\ UNCHANGED clientVars /\ TypeOK' => IInv'
<1> SUFFICES ASSUME IInv, ServerNext, UNCHANGED clientVars, TypeOK' PROVE IInv'
  OBVIOUS
<1> USE DEF IInv
<1>a. s2c \in Seq(Packet) /\ c2s \in Seq(ClientMsg)
  BY DEF TypeOK, ServerTypeOK
<1>b. connected /\ UNCHANGED <<connected, lastQuery, stage, cur, kind, status, rows>>
  <2>1. c2s # <<>> \/ srv.phase # "idle"
    BY DEF ServerNext, TakeRequest, TakeCancel, TakeChunk, SendBlock, SendSampleBlock,
           SendEndOfStream, SendException, SendInfo
  <2> QED BY <2>1 DEF OfflineIsEmpty, clientVars, IdleSession, Serving
<1>c. OfflineIsEmpty' /\ StageConnected' /\ LastQueryKnown' /\ ReadersAreOwners' /\ OwnRows'
  BY <1>b DEF OfflineIsEmpty, StageConnected, LastQueryKnown, ReadersAreOwners, OwnRows
<1>d. stage # "send"
  <2>1. c2s # <<>> \/ srv.phase # "idle"
    BY DEF ServerNext, TakeRequest, TakeCancel, TakeChunk, SendBlock, SendSampleBlock,
           SendEndOfStream, SendException, SendInfo
  <2> QED BY <2>1 DEF SendIsQuiet
<1>e. SendIsQuiet'
  BY <1>b, <1>d DEF SendIsQuiet
<1>f. c2s # <<>> => /\ Head(c2s) = c2s[1] /\ 1 \in DOMAIN c2s
                    /\ Len(c2s) \in Nat \ {0} /\ Len(Tail(c2s)) = Len(c2s) - 1
                    /\ \A i \in DOMAIN Tail(c2s): /\ Tail(c2s)[i] = c2s[i + 1]
                                                   /\ i + 1 \in DOMAIN c2s
                                                   /\ i \in Nat \ {0}
  BY <1>a, TailEntries
<1>1. ASSUME c2s # <<>>, c2s' = Tail(c2s), s2c' = s2c,
             srv'.phase # "idle" => srv'.call = lastQuery,
             Head(c2s).type # "PING", srv.phase = "idle" => TRUE,
             \A i \in DOMAIN s2c: s2c[i].type # "PONG"
      PROVE  IInv'
  <2>1. AboutLastQuery'
    BY <1>1, <1>b, <1>f DEF AboutLastQuery
  <2>2. PingIsLast'
    BY <1>1, <1>b, <1>f DEF PingIsLast
  <2>3. QueryMeetsIdleServer'
    BY <1>1, <1>f DEF QueryMeetsIdleServer
  <2> QED BY <1>c, <1>e, <2>1, <2>2, <2>3
<1>2. ASSUME NEW type \in ServerPacketType \ {"PONG"}, NEW n \in 0..MaxBlocks,
             srv.phase # "idle", c2s' = c2s, s2c' = Append(s2c, Msg(type, srv.call, n)),
             srv'.phase # "idle" => srv'.call = srv.call
      PROVE  IInv'
  <2> DEFINE p == Msg(type, srv.call, n)
  <2>1. srv.call = lastQuery /\ p \in Packet /\ p.type = type /\ p.call = lastQuery
    <3>1. srv.call = lastQuery
      BY <1>2 DEF AboutLastQuery
    <3>2. srv.call \in Call
      BY <1>2, SessionTypes DEF TypeOK, ServerTypeOK
    <3> QED BY <1>2, <3>1, <3>2, MessageTypes DEF Msg
  <2>2. /\ DOMAIN s2c' = DOMAIN s2c \cup {Len(s2c) + 1}
        /\ \A i \in DOMAIN s2c: s2c'[i] = s2c[i]
        /\ s2c'[Len(s2c) + 1] = p
    BY <1>2, <1>a, <2>1, AppendEntries
  <2>3. AboutLastQuery'
    BY <1>2, <1>b, <2>1, <2>2 DEF AboutLastQuery
  <2>4. PingIsLast'
    BY <1>2, <1>b, <2>1, <2>2 DEF PingIsLast
  <2>5. QueryMeetsIdleServer'
    BY <1>2 DEF QueryMeetsIdleServer
  <2> QED BY <1>c, <1>e, <2>3, <2>4, <2>5
<1>3. CASE TakeRequest
  <2>1. c2s # <<>> /\ c2s' = Tail(c2s) /\ srv.phase = "idle"
    BY <1>3 DEF TakeRequest
  <2>2. \A i \in DOMAIN s2c: s2c[i].type # "PONG"
    BY <2>1 DEF PingIsLast
  <2>3. CASE Head(c2s).type = "PING"
    <3>1. Len(c2s) = 1 /\ stage = "ping"
      BY <1>f, <2>1, <2>3 DEF PingIsLast
    <3>2. c2s' = <<>> /\ s2c' = Append(s2c, Pong) /\ srv' = srv
      BY <1>3, <1>a, <2>1, <2>3, <3>1 DEF TakeRequest
    <3>3. /\ DOMAIN s2c' = DOMAIN s2c \cup {Len(s2c) + 1}
          /\ \A i \in DOMAIN s2c: s2c'[i] = s2c[i]
          /\ s2c'[Len(s2c) + 1] = Pong /\ Len(s2c') = Len(s2c) + 1
      BY <3>2, <1>a, SignalTypes, AppendEntries
    <3>4. Pong.type = "PONG"
      BY DEF Pong, Msg
    <3>5. AboutLastQuery' /\ QueryMeetsIdleServer'
      BY <1>b, <3>2, <3>3, <3>4 DEF AboutLastQuery, QueryMeetsIdleServer
    <3>6. PingIsLast'
      BY <1>b, <2>1, <2>2, <3>1, <3>2, <3>3, <3>4 DEF PingIsLast
    <3> QED BY <1>c, <1>e, <3>5, <3>6
  <2>4. CASE Head(c2s).type # "PING"
    <3>1. s2c' = s2c
      BY <1>3, <2>4 DEF TakeRequest
    <3>2. srv'.phase # "idle" => srv'.call = lastQuery
      BY <1>3, <1>f, <2>1, <2>4 DEF TakeRequest, AboutLastQuery, Serving
    <3> QED BY <1>1, <2>1, <2>2, <2>4, <3>1, <3>2
  <2> QED BY <2>3, <2>4
<1>4. CASE TakeCancel \/ TakeChunk
  <2>1. /\ c2s # <<>> /\ c2s' = Tail(c2s) /\ s2c' = s2c /\ srv.phase # "idle"
        /\ Head(c2s).type # "PING"
    BY <1>4 DEF TakeCancel, TakeChunk
  <2>2. srv'.call = lastQuery
    <3>1. srv'.call = srv.call
      BY <1>4, SessionTypes DEF TakeCancel, TakeChunk, TypeOK, ServerTypeOK, Session
    <3> QED BY <2>1, <3>1 DEF AboutLastQuery
  <2>3. \A i \in DOMAIN s2c: s2c[i].type # "PONG"
    BY <2>1 DEF PingIsLast
  <2> QED BY <1>1, <2>1, <2>2, <2>3
<1> USE ConstantTypes
<1>5. CASE SendBlock
  <2>1. srv.call \in Call /\ srv.phase # "idle" /\ srv'.call = srv.call
    BY <1>5, SessionTypes DEF SendBlock, TypeOK, ServerTypeOK, Session
  <2>2. Len(answer[srv.call]) + 1 \in 0..MaxBlocks
    <3>1. Len(answer[srv.call]) \in Nat
      BY <2>1 DEF TypeOK, ServerTypeOK
    <3> QED BY <1>5, <3>1 DEF SendBlock
  <2> QED BY <1>2, <1>5, <2>1, <2>2 DEF SendBlock, ServerPacketType
<1>6. CASE SendSampleBlock
  <2>1. srv.phase # "idle" /\ srv'.call = srv.call
    BY <1>6 DEF SendSampleBlock, TypeOK, ServerTypeOK, Session
  <2> QED BY <1>2, <1>6, <2>1 DEF SendSampleBlock, ServerPacketType
<1>7. CASE SendEndOfStream
  BY <1>2, <1>7 DEF SendEndOfStream, ServerPacketType, IdleSession, Serving
<1>8. CASE SendException
  <2>1. srv.phase # "idle" /\ (srv'.phase # "idle" => srv'.call = srv.call)
    BY <1>8 DEF SendException, IdleSession, Serving, TypeOK, ServerTypeOK, Session
  <2> QED BY <1>2, <1>8, <2>1 DEF SendException, ServerPacketType
<1>9. ASSUME NEW t \in Infos, SendInfo(t) PROVE IInv'
  <2>1. srv.phase # "idle" /\ srv'.call = srv.call
    BY <1>9 DEF SendInfo, TypeOK, ServerTypeOK, Session
  <2> QED BY <1>2, <1>9, <2>1, InfosAssumption DEF SendInfo, ServerPacketType
<1> QED BY <1>3, <1>4, <1>5, <1>6, <1>7, <1>8, <1>9 DEF ServerNext

LEMMA StepInvariant == IInv /\ [Next]_vars => IInv'
<1> SUFFICES ASSUME IInv, [Next]_vars PROVE IInv'
  OBVIOUS
<1>1. TypeOK'
  BY StepTyping DEF IInv
<1>2. CASE UNCHANGED vars
  BY <1>2 DEF vars, clientVars, serverVars, IInv, TypeOK, ServerTypeOK, OfflineIsEmpty,
              StageConnected, LastQueryKnown, AboutLastQuery, PingIsLast, SendIsQuiet,
              QueryMeetsIdleServer, ReadersAreOwners, OwnRows
<1> QED BY <1>1, <1>2, AppInvariant, CallInvariant, ServerInvariant DEF Next

\* The facts of ProtonClientInv hold in every reachable state of the client and
\* its connection (client.py:138-604, connection.py:215-676).
THEOREM Invariance == Spec => []IInv
BY InitInvariant, StepInvariant, PTL DEF Spec

\* Whatever happened before, the rows an execute() holds are blocks of its own
\* query: nothing left over from a partly read or cancelled query, and nothing
\* read by a stale result, ends up in it (client.py:138-208).
THEOREM NoForeignRows == Spec => []OwnRows
<1>1. IInv => OwnRows
  BY DEF IInv
<1> QED BY <1>1, Invariance, PTL

\* A query is only ever sent to a server that is doing nothing, over a
\* connection with nothing on it (connection.py:215-223, 588-620).
THEOREM NeverInterleaved == Spec => []QueryMeetsIdleServer
<1>1. IInv => QueryMeetsIdleServer
  BY DEF IInv
<1> QED BY <1>1, Invariance, PTL

\* Outside ping everything that arrives is about last_query, so that progress
\* and profile are booked to the right QueryInfo (client.py:187-205).
THEOREM ArrivesForLastQuery == Spec => []InFlightIsLastQuery
<1>1. IInv => InFlightIsLastQuery
  BY DEF IInv, InFlightIsLastQuery, AboutLastQuery, PingIsLast
<1> QED BY <1>1, Invariance, PTL

\* A result loop that gets a packet has a last_query to store it in
\* (client.py:188, 204).
THEOREM AlwaysALastQuery == Spec => []LastQueryPresent
<1>1. IInv => LastQueryPresent
  BY DEF IInv, LastQueryPresent, LastQueryKnown, OfflineIsEmpty, TypeOK, NoCall, Call
<1> QED BY <1>1, Invariance, PTL

-----------------------------------------------------------------------------
(* Numbered blocks in a channel *)

\* TailEntries read backwards: what was behind the head is still there.
LEMMA TailKeeps ==
  ASSUME NEW S, NEW s \in Seq(S), s # <<>>
  PROVE  \A i \in DOMAIN s: i # 1 => i - 1 \in DOMAIN Tail(s) /\ Tail(s)[i - 1] = s[i]
  OBVIOUS

LEMMA EmptyChannel ==
  ASSUME NEW S, NEW s \in Seq(S), Len(s) = 0
  PROVE  s = <<>>
  OBVIOUS

\* A channel of messages, in either direction: what carries a block carries
\* its number.
LEMMA ChannelNumbers ==
  /\ \A m \in ClientMsg: m.type = "DATA" => m.n \in Nat
  /\ \A p \in Packet: p.type = "DATA" => p.n \in Nat
BY CarriesCall, ConstantTypes

\* A message that is no block may leave ...
LEMMA OnTheWayTail ==
  ASSUME NEW S, NEW ch \in Seq(S), ch # <<>>, Head(ch).type # "DATA",
         NEW m \in Nat, NEW n \in Nat, OnTheWay(ch, m, n)
  PROVE  OnTheWay(Tail(ch), m, n)
<1>1. /\ Tail(ch) \in Seq(S) /\ Head(ch) = ch[1] /\ Len(Tail(ch)) = Len(ch) - 1
      /\ \A i \in DOMAIN Tail(ch): Tail(ch)[i] = ch[i + 1] /\ i + 1 \in DOMAIN ch
      /\ Len(ch) \in Nat \ {0}
  BY TailEntries
<1>2. \A i \in DOMAIN ch: i # 1 => i - 1 \in DOMAIN Tail(ch) /\ Tail(ch)[i - 1] = ch[i]
  BY TailKeeps
<1>3. \A i, j \in DOMAIN Tail(ch): i < j => i + 1 < j + 1
  BY <1>1
<1>4. \A k \in m + 1..n: \E i \in DOMAIN Tail(ch):
        Tail(ch)[i].type = "DATA" /\ Tail(ch)[i].n = k
  <2> SUFFICES ASSUME NEW k \in m + 1..n
               PROVE  \E i \in DOMAIN Tail(ch):
                        Tail(ch)[i].type = "DATA" /\ Tail(ch)[i].n = k
    OBVIOUS
  <2>1. PICK i \in DOMAIN ch: ch[i].type = "DATA" /\ ch[i].n = k
    BY DEF OnTheWay
  <2>2. i # 1
    BY <1>1, <2>1
  <2>3. i - 1 \in DOMAIN Tail(ch) /\ Tail(ch)[i - 1] = ch[i]
    BY <1>2, <2>2
  <2> QED BY <2>1, <2>3
<1>5. \A i \in DOMAIN Tail(ch): Tail(ch)[i].type = "DATA" => Tail(ch)[i].n \in m + 1..n
  BY <1>1 DEF OnTheWay
<1>6. \A i, j \in DOMAIN Tail(ch):
        i < j /\ Tail(ch)[i].type = "DATA" /\ Tail(ch)[j].type = "DATA"
          => Tail(ch)[i].n < Tail(ch)[j].n
  <2> TAKE i, j \in DOMAIN Tail(ch)
  <2>1. i < j => i + 1 < j + 1
    BY <1>3
  <2> QED BY <1>1, <2>1 DEF OnTheWay
<1> QED BY <1>4, <1>5, <1>6 DEF OnTheWay

\* ... and join; ...
LEMMA OnTheWayAppend ==
  ASSUME NEW S, NEW ch \in Seq(S), NEW e \in S, e.type # "DATA",
         NEW m \in Nat, NEW n \in Nat, OnTheWay(ch, m, n)
  PROVE  OnTheWay(Append(ch, e), m, n)
<1>1. /\ DOMAIN Append(ch, e) = DOMAIN ch \cup {Len(ch) + 1}
      /\ \A i \in DOMAIN ch: Append(ch, e)[i] = ch[i] /\ i <= Len(ch)
      /\ Append(ch, e)[Len(ch) + 1] = e
  BY AppendEntries
<1> QED BY <1>1 DEF OnTheWay

\* ... the block that arrives is the next one ...
LEMMA OnTheWayTake ==
  ASSUME NEW S, NEW ch \in Seq(S), ch # <<>>, Head(ch).type = "DATA",
         NEW m \in Nat, NEW n \in Nat, OnTheWay(ch, m, n)
  PROVE  /\ Head(ch).n = m + 1
         /\ m + 1 <= n
         /\ OnTheWay(Tail(ch), m + 1, n)
<1>1. /\ Tail(ch) \in Seq(S) /\ Head(ch) = ch[1] /\ Len(Tail(ch)) = Len(ch) - 1
      /\ \A i \in DOMAIN Tail(ch): Tail(ch)[i] = ch[i + 1] /\ i + 1 \in DOMAIN ch
      /\ Len(ch) \in Nat \ {0} /\ 1 \in DOMAIN ch
  BY TailEntries
<1>2. ch[1].n \in m + 1..n
  BY <1>1 DEF OnTheWay
<1>3. ch[1].n = m + 1
  <2>1. PICK i \in DOMAIN ch: ch[i].type = "DATA" /\ ch[i].n = m + 1
    BY <1>2 DEF OnTheWay
  <2>2. 1 < i => ch[1].n < m + 1
    BY <1>1, <2>1 DEF OnTheWay
  <2> QED BY <1>1, <1>2, <2>1, <2>2
<1>4. \A i \in DOMAIN ch: i # 1 => i - 1 \in DOMAIN Tail(ch) /\ Tail(ch)[i - 1] = ch[i]
  BY TailKeeps
<1>5. \A i \in DOMAIN Tail(ch): Tail(ch)[i].type = "DATA" => Tail(ch)[i].n \in m + 2..n
  <2> SUFFICES ASSUME NEW i \in DOMAIN Tail(ch), Tail(ch)[i].type = "DATA"
               PROVE  Tail(ch)[i].n \in m + 2..n
    OBVIOUS
  <2>1. i + 1 \in DOMAIN ch /\ 1 < i + 1 /\ Tail(ch)[i] = ch[i + 1]
    BY <1>1
  <2>2. ch[i + 1].n \in m + 1..n /\ ch[1].n < ch[i + 1].n
    BY <1>1, <2>1 DEF OnTheWay
  <2> QED BY <1>3, <2>1, <2>2
<1>6. \A k \in m + 2..n: \E i \in DOMAIN Tail(ch):
        Tail(ch)[i].type = "DATA" /\ Tail(ch)[i].n = k
  <2> SUFFICES ASSUME NEW k \in m + 2..n
               PROVE  \E i \in DOMAIN Tail(ch):
                        Tail(ch)[i].type = "DATA" /\ Tail(ch)[i].n = k
    OBVIOUS
  <2>1. PICK i \in DOMAIN ch: ch[i].type = "DATA" /\ ch[i].n = k
    BY DEF OnTheWay
  <2>2. i # 1
    BY <1>3, <2>1
  <2>3. i - 1 \in DOMAIN Tail(ch) /\ Tail(ch)[i - 1] = ch[i]
    BY <1>4, <2>2
  <2> QED BY <2>1, <2>3
<1>7. \A i, j \in DOMAIN Tail(ch):
        Tail(ch)[i].type = "DATA" /\ Tail(ch)[j].type = "DATA" /\ i < j
          => Tail(ch)[i].n < Tail(ch)[j].n
  <2>1. \A i, j \in DOMAIN Tail(ch): i < j => i + 1 < j + 1
    BY <1>1
  <2> QED BY <1>1, <2>1 DEF OnTheWay
<1> QED BY <1>1, <1>2, <1>3, <1>5, <1>6, <1>7 DEF OnTheWay

\* ... and the one that leaves the source goes behind the others.
LEMMA OnTheWaySend ==
  ASSUME NEW S, NEW ch \in Seq(S), NEW e \in S, NEW m \in Nat, NEW n \in Nat,
         e.type = "DATA", e.n = n + 1, m <= n, OnTheWay(ch, m, n)
  PROVE  OnTheWay(Append(ch, e), m, n + 1)
<1>1. /\ DOMAIN Append(ch, e) = DOMAIN ch \cup {Len(ch) + 1}
      /\ \A i \in DOMAIN ch: Append(ch, e)[i] = ch[i] /\ i <= Len(ch)
      /\ Append(ch, e)[Len(ch) + 1] = e /\ Len(ch) \in Nat
  BY AppendEntries
<1>2. \A i \in DOMAIN ch: ch[i].type = "DATA" => ch[i].n \in m + 1..n
  BY DEF OnTheWay
<1>3. \A i \in DOMAIN Append(ch, e):
        Append(ch, e)[i].type = "DATA" => Append(ch, e)[i].n \in m + 1..n + 1
  BY <1>1, <1>2
<1>4. \A i, j \in DOMAIN Append(ch, e):
        Append(ch, e)[i].type = "DATA" /\ Append(ch, e)[j].type = "DATA" /\ i < j
          => Append(ch, e)[i].n < Append(ch, e)[j].n
  BY <1>1, <1>2 DEF OnTheWay
<1>5. \A k \in m + 1..n + 1: \E i \in DOMAIN Append(ch, e):
        Append(ch, e)[i].type = "DATA" /\ Append(ch, e)[i].n = k
  <2> SUFFICES ASSUME NEW k \in m + 1..n + 1
               PROVE  \E i \in DOMAIN Append(ch, e):
                        Append(ch, e)[i].type = "DATA" /\ Append(ch, e)[i].n = k
    OBVIOUS
  <2>1. CASE k = n + 1
    BY <1>1, <2>1
  <2>2. CASE k # n + 1
    <3>1. k \in m + 1..n
      BY <2>2
    <3> QED BY <1>1, <3>1 DEF OnTheWay
  <2> QED BY <2>1, <2>2
<1> QED BY <1>3, <1>4, <1>5 DEF OnTheWay

\* Nothing is on its way exactly when the sink has everything.
LEMMA OnTheWayNone ==
  ASSUME NEW S, NEW ch \in Seq(S), \A i \in DOMAIN ch: ch[i].type # "DATA",
         NEW m \in Nat, NEW n \in Nat
  PROVE  /\ OnTheWay(ch, m, m)
         /\ OnTheWay(ch, m, n) /\ m <= n => m = n
BY DEF OnTheWay

\* Channels, and the blocks at either end of a call, are sequences.
LEMMA LengthTypes ==
  ASSUME IInv
  PROVE  /\ c2s \in Seq(ClientMsg) /\ s2c \in Seq(Packet)
         /\ \A q \in Call: /\ rows[q] \in Seq(Block) /\ Len(rows[q]) \in Nat
                          /\ answer[q] \in Seq(Block) /\ Len(answer[q]) \in Nat
<1>1. /\ c2s \in Seq(ClientMsg) /\ s2c \in Seq(Packet)
      /\ \A q \in Call: rows[q] \in Seq(Block) /\ answer[q] \in Seq(Block)
  BY DEF IInv, TypeOK, ServerTypeOK
<1> QED BY <1>1

-----------------------------------------------------------------------------
(* Kinds of steps: the connection is dropped *)

\* A call not made yet has no blocks on either side.
LEMMA FreshIsEmpty ==
  ASSUME IInv, AnswerInv, NEW q \in Call, status[q] = "none"
  PROVE  rows[q] = <<>> /\ answer[q] = <<>>
<1>1. rows[q] = <<>>
  BY DEF IInv, ReadersAreOwners
<1>2. answer[q] = <<>>
  BY DEF AnswerInv, CallStages
<1> QED BY <1>1, <1>2

\* Nothing is to come on a connection that is gone: Disconnect ends a call, or
\* goes on to the next connection point (stage "connect").
LEMMA OfflineAnswer ==
  ASSUME IInv, AnswerInv, TypeOK', Disconnect, rows' = rows, answer' = answer,
         \/ /\ stage' = "connect" /\ stage \in {"connect", "ping"}
            /\ UNCHANGED <<cur, kind, status, lastQuery>>
         \/ /\ stage' = "idle" /\ lastQuery' = NoCall
            /\ \A q \in Call:
                 /\ status'[q] # "running"
                 /\ \/ UNCHANGED <<kind[q], status[q]>>
                    \/ /\ status'[q] \in {"error", "refused"}
                       /\ kind'[q] = kind[q] \/ status[q] = "none"
  PROVE  AnswerInv'
<1> USE DEF IInv, AnswerInv
<1>1. c2s' = <<>> /\ s2c' = <<>> /\ srv'.phase = "idle" /\ ~executing'
  BY DEF Disconnect, IdleSession, Serving
<1>2. ~EndToCome'
  BY <1>1 DEF EndToCome
<1>3. NoCall \notin Call
  BY ConstantTypes
<1>4. EndIsLast' /\ FlagMeansUnread' /\ KindsMatch' /\ InsertStages'
  BY <1>1 DEF EndIsLast, FlagMeansUnread, KindsMatch, InsertStages
<1>5. AnswerOnTheWay' /\ ChunksOnTheWay'
  BY <1>2 DEF AnswerOnTheWay, ChunksOnTheWay
<1>6. CASE stage' = "connect"
  <2>1. CallStages' /\ LastQuerySent'
    BY <1>2, <1>3, <1>6 DEF CallStages, LastQuerySent
  <2>2. BlocksNumbered'
    BY <1>6 DEF BlocksNumbered, Kept
  <2> QED BY <1>4, <1>5, <2>1, <2>2
<1>7. CASE stage' = "idle"
  <2>1. CallStages' /\ LastQuerySent'
    BY <1>2, <1>3, <1>7 DEF CallStages, LastQuerySent, ReadersAreOwners
  <2>2. \A q \in Call: kind'[q] = kind[q] \/ (rows[q] = <<>> /\ answer[q] = <<>>)
    BY <1>7, FreshIsEmpty
  <2>3. \A q \in Call: status'[q] = "ok" => UNCHANGED <<kind[q], status[q]>>
    BY <1>7
  <2>4. BlocksNumbered'
    BY <2>2, <2>3 DEF BlocksNumbered, Kept
  <2> QED BY <1>4, <1>5, <2>1, <2>4
<1> QED BY <1>6, <1>7

\* The running call raises and disconnects.
LEMMA RaiseAnswer ==
  ASSUME IInv, AnswerInv, TypeOK', RaiseAndDisconnect, stage # "idle"
  PROVE  AnswerInv'
<1>1. cur \in Call
  BY DEF IInv, TypeOK
<1>2. \A q \in Call: /\ kind'[q] = kind[q]
                     /\ status'[q] = IF q = cur THEN "error" ELSE status[q]
  BY <1>1 DEF RaiseAndDisconnect, EndCall, IInv, TypeOK
<1>3. \A q \in Call: status[q] = "running" => q = cur
  BY DEF AnswerInv, CallStages
<1> QED BY <1>2, <1>3, OfflineAnswer DEF RaiseAndDisconnect, ClientDisconnect, EndCall

-----------------------------------------------------------------------------
(* Kinds of steps: between calls, at most a signal is sent *)

\* PING and CANCEL are no part of an answer.
LEMMA SignalStep ==
  ASSUME IInv, AnswerInv, TypeOK', stage \in {"idle", "connect"},
         stage' \notin {"sample", "data"},
         UNCHANGED <<s2c, srv, rows, answer, lastQuery>>,
         c2s' = c2s \/ c2s' = Append(c2s, Ping) \/ c2s' = Append(c2s, CancelMsg),
         \A q \in Call: kind'[q] = kind[q] \/ status[q] = "none",
         \A q \in Call: \/ status'[q] = status[q]
                        \/ status[q] = "none" /\ status'[q] \in {"running", "error"}
                        \/ status[q] = "live" /\ status'[q] = "closed"
  PROVE  /\ EndToCome' <=> EndToCome
         /\ EndIsLast' /\ LastQuerySent' /\ KindsMatch' /\ InsertStages'
         /\ BlocksNumbered' /\ AnswerOnTheWay' /\ ChunksOnTheWay'
<1> USE DEF IInv, AnswerInv
<1>1. c2s \in Seq(ClientMsg) /\ s2c \in Seq(Packet)
  BY DEF TypeOK, ServerTypeOK
<1>2. Ping \in ClientMsg /\ CancelMsg \in ClientMsg
      /\ Ping.type = "PING" /\ CancelMsg.type = "CANCEL"
  BY SignalTypes DEF Ping, CancelMsg, Msg
<1>3. /\ \A i \in DOMAIN c2s: i \in DOMAIN c2s' /\ c2s'[i] = c2s[i]
      /\ \A i \in DOMAIN c2s': \/ i \in DOMAIN c2s /\ c2s'[i] = c2s[i]
                               \/ c2s'[i].type \in {"PING", "CANCEL"}
  <2>1. CASE c2s' = c2s
    BY <2>1
  <2>2. CASE c2s' = Append(c2s, Ping)
    BY <1>1, <1>2, <2>2, AppendEntries
  <2>3. CASE c2s' = Append(c2s, CancelMsg)
    BY <1>1, <1>2, <2>3, AppendEntries
  <2> QED BY <2>1, <2>2, <2>3
<1>4. EndToCome' <=> EndToCome
  BY <1>3 DEF EndToCome
<1>5. EndIsLast'
  BY <1>4 DEF EndIsLast
<1>6. lastQuery \in Call => kind'[lastQuery] = kind[lastQuery]
  BY DEF LastQuerySent
<1>7. LastQuerySent'
  BY <1>4, <1>6 DEF LastQuerySent
<1>8. \A i \in DOMAIN c2s: c2s[i].type \notin {"INSERT", "DATA", "END_OF_DATA"}
  BY DEF KindsMatch
<1>9. KindsMatch'
  <2>1. \A i \in DOMAIN c2s: c2s[i].type = "QUERY" => EndToCome
    BY DEF EndToCome
  <2>2. srv.phase # "idle" => EndToCome
    BY DEF EndToCome
  <2>3. EndToCome => kind'[lastQuery'] = kind[lastQuery]
    BY <1>6 DEF LastQuerySent
  <2> QED BY <1>3, <1>8, <2>1, <2>2, <2>3 DEF KindsMatch
<1>10. InsertStages'
  BY DEF InsertStages
<1>11. BlocksNumbered'
  <2>1. \A q \in Call: kind'[q] = kind[q] \/ (rows[q] = <<>> /\ answer[q] = <<>>)
    BY FreshIsEmpty
  <2> QED BY <2>1 DEF BlocksNumbered, Kept
<1>12. AnswerOnTheWay'
  <2>1. EndToCome => lastQuery \in Call /\ kind'[lastQuery] = kind[lastQuery]
    BY <1>6 DEF LastQuerySent
  <2>2. ~Cancelling
    BY DEF Cancelling
  <2> QED BY <1>4, <2>1, <2>2 DEF AnswerOnTheWay, Kept
<1>13. ChunksOnTheWay'
  <2> SUFFICES ASSUME EndToCome, kind[lastQuery] = "insert"
               PROVE  OnTheWay(c2s', Len(answer[lastQuery]), Len(rows[lastQuery]))
    BY <1>4, <1>6 DEF ChunksOnTheWay, LastQuerySent
  <2>1. OnTheWay(c2s, Len(answer[lastQuery]), Len(rows[lastQuery]))
    BY DEF ChunksOnTheWay
  <2> QED BY <1>3, <2>1 DEF OnTheWay
<1> QED BY <1>4, <1>5, <1>7, <1>9, <1>10, <1>11, <1>12, <1>13

-----------------------------------------------------------------------------
(* Kinds of steps: a packet of the answer is received *)

\* Who reads, and whether it is the answer to the last query.
LEMMA WhoReads ==
  ASSUME IInv, AnswerInv, stage \in {"drain", "pull"}
  PROVE  /\ cur \in Call /\ status[cur] \in {"running", "live"}
         /\ kind[cur] # "insert"
         /\ Kept(cur) => cur = lastQuery /\ ~Cancelling
         /\ EndToCome /\ kind[lastQuery] # "insert" /\ Kept(lastQuery) /\ ~Cancelling
              => cur = lastQuery
<1> USE DEF AnswerInv
<1>1. cur \in Call
  BY DEF IInv, TypeOK
<1>2. CASE stage = "drain"
  BY <1>1, <1>2 DEF CallStages, Kept, Cancelling
<1>3. CASE stage = "pull"
  <2>1. status[cur] = "live" /\ kind[cur] \in {"iter", "progress"}
        /\ (PullStale \/ cur = lastQuery)
    BY <1>1, <1>3 DEF CallStages
  <2>2. ASSUME EndToCome, Kept(lastQuery), PullStale PROVE cur = lastQuery
    <3>1. lastQuery \in Call /\ status[lastQuery] \in {"running", "live", "closed"}
      BY <2>2 DEF LastQuerySent
    <3>2. kind[lastQuery] \in {"execute", "insert"}
      BY <2>2 DEF Kept
    <3> QED BY <3>1, <3>2 DEF CallStages
  <2> QED BY <1>1, <1>3, <2>1, <2>2 DEF Kept, Cancelling
<1> QED BY <1>2, <1>3

\* What every packet that does not end an answer leaves alone.
LEMMA ReceiveCommon ==
  ASSUME IInv, AnswerInv, TypeOK', s2c # <<>>, s2c' = Tail(s2c),
         Head(s2c).type \notin {"EOS", "EXCEPTION", "PONG"},
         UNCHANGED <<connected, executing, lastQuery, kind, status, c2s, srv, answer>>,
         \A q \in Call: rows'[q] = rows[q] \/ (q = cur /\ stage \in {"drain", "pull"}),
         \/ stage \in {"ping", "sample", "eoq", "drain", "pull"} /\ UNCHANGED <<stage, cur>>
         \/ /\ stage = "sample" /\ stage' = "data" /\ UNCHANGED cur
            /\ Head(s2c).type = "DATA"
         \/ stage = "pull" /\ stage' = "idle"
  PROVE  /\ EndToCome /\ EndToCome'
         /\ EndIsLast' /\ CallStages' /\ LastQuerySent' /\ FlagMeansUnread'
         /\ KindsMatch' /\ InsertStages' /\ ChunksOnTheWay'
<1> USE DEF IInv, AnswerInv
<1>1. /\ s2c \in Seq(Packet) /\ Head(s2c) = s2c[1] /\ 1 \in DOMAIN s2c
      /\ \A i \in DOMAIN s2c': s2c'[i] = s2c[i + 1] /\ i + 1 \in DOMAIN s2c
  BY TailEntries DEF TypeOK, ServerTypeOK
<1>2. \A i \in DOMAIN s2c: i # 1 => i - 1 \in DOMAIN s2c' /\ s2c'[i - 1] = s2c[i]
  BY <1>1, TailKeeps
<1>3. EndToCome
  BY <1>1 DEF EndIsLast
<1>4. EndToCome'
  BY <1>1, <1>2, <1>3 DEF EndToCome
<1>5. EndIsLast'
  <2>1. \A i, j \in DOMAIN s2c': j > i => j + 1 > i + 1
    BY <1>1
  <2> QED BY <1>1, <1>4, <2>1 DEF EndIsLast
<1>6. \A i \in DOMAIN c2s: c2s[i].type \notin {"QUERY", "INSERT"}
  BY DEF QueryMeetsIdleServer
<1>7. CallStages'
  <2>1. \A q \in Call: status[q] = "running" /\ stage = "pull" => FALSE
    BY DEF CallStages
  <2>2. cur \in Call
    BY DEF TypeOK
  <2> QED BY <2>1, <2>2 DEF CallStages
<1>8. LastQuerySent'
  BY <1>3 DEF LastQuerySent
<1>9. FlagMeansUnread'
  BY <1>4 DEF FlagMeansUnread, OfflineIsEmpty
<1>10. KindsMatch'
  BY <1>6 DEF KindsMatch
<1>11. InsertStages'
  BY <1>1, <1>6 DEF InsertStages
<1>12. ChunksOnTheWay'
  <2>1. stage \in {"drain", "pull"} => kind[cur] # "insert"
    BY WhoReads
  <2>2. lastQuery \in Call
    BY <1>3 DEF LastQuerySent
  <2> QED BY <1>3, <2>1, <2>2 DEF ChunksOnTheWay
<1> QED BY <1>3, <1>4, <1>5, <1>7, <1>8, <1>9, <1>10, <1>11, <1>12

\* A packet that brings no block, or the sample block of an INSERT.
LEMMA ReceiveNoBlock ==
  ASSUME IInv, AnswerInv, TypeOK', s2c # <<>>, s2c' = Tail(s2c),
         Head(s2c).type \notin {"EOS", "EXCEPTION", "PONG"},
         Head(s2c).type = "DATA" => stage = "sample",
         UNCHANGED <<connected, executing, lastQuery, kind, status, rows, c2s, srv, answer>>,
         \/ stage \in {"ping", "sample", "eoq", "drain", "pull"} /\ UNCHANGED <<stage, cur>>
         \/ /\ stage = "sample" /\ stage' = "data" /\ UNCHANGED cur
            /\ Head(s2c).type = "DATA"
         \/ stage = "pull" /\ stage' = "idle"
  PROVE  AnswerInv'
<1>1. /\ EndToCome /\ EndToCome'
      /\ EndIsLast' /\ CallStages' /\ LastQuerySent' /\ FlagMeansUnread'
      /\ KindsMatch' /\ InsertStages' /\ ChunksOnTheWay'
  BY ReceiveCommon
<1>2. BlocksNumbered'
  BY DEF AnswerInv, BlocksNumbered, Kept
<1>3. lastQuery \in Call
  BY <1>1 DEF AnswerInv, LastQuerySent
<1>4. s2c \in Seq(Packet) /\ Len(rows[lastQuery]) \in Nat /\ Len(answer[lastQuery]) \in Nat
  BY <1>3, LengthTypes
<1>5. AnswerOnTheWay'
  <2>1. CASE stage = "sample"
    BY <2>1 DEF AnswerInv, CallStages, AnswerOnTheWay
  <2>2. CASE stage # "sample"
    <3> SUFFICES ASSUME kind[lastQuery] # "insert", Kept(lastQuery), ~Cancelling'
                 PROVE  OnTheWay(Tail(s2c), Len(rows[lastQuery]), Len(answer[lastQuery]))
      BY DEF AnswerOnTheWay, Kept
    <3>1. ~Cancelling
      BY <2>2 DEF Cancelling
    <3>2. OnTheWay(s2c, Len(rows[lastQuery]), Len(answer[lastQuery]))
      BY <1>1, <3>1 DEF AnswerInv, AnswerOnTheWay
    <3> QED BY <1>4, <2>2, <3>2, OnTheWayTail
  <2> QED BY <2>1, <2>2
<1> QED BY <1>1, <1>2, <1>5 DEF AnswerInv

\* A block for the result of the running call (ReceiveYielded).
LEMMA ReceiveBlock ==
  ASSUME IInv, AnswerInv, TypeOK', stage \in {"drain", "pull"},
         s2c # <<>>, s2c' = Tail(s2c), Head(s2c).type = "DATA",
         UNCHANGED <<connected, executing, lastQuery, kind, status, c2s, srv, answer>>,
         rows' = [rows EXCEPT ![cur] = Append(@, Blk(Head(s2c).call, Head(s2c).n))],
         UNCHANGED <<stage, cur>> \/ (stage = "pull" /\ stage' = "idle")
  PROVE  AnswerInv'
<1>1. /\ cur \in Call /\ status[cur] \in {"running", "live"} /\ kind[cur] # "insert"
      /\ Kept(cur) => cur = lastQuery /\ ~Cancelling
      /\ EndToCome /\ kind[lastQuery] # "insert" /\ Kept(lastQuery) /\ ~Cancelling
           => cur = lastQuery
  BY WhoReads
<1>2. \A q \in Call: q # cur => rows'[q] = rows[q]
  BY DEF IInv, TypeOK
<1>3. /\ EndToCome /\ EndToCome'
      /\ EndIsLast' /\ CallStages' /\ LastQuerySent' /\ FlagMeansUnread'
      /\ KindsMatch' /\ InsertStages' /\ ChunksOnTheWay'
  BY <1>2, ReceiveCommon
<1>4. /\ s2c \in Seq(Packet) /\ Head(s2c) \in Packet /\ Head(s2c) = s2c[1]
      /\ 1 \in DOMAIN s2c
  BY TailEntries DEF IInv, TypeOK, ServerTypeOK
<1>5. lastQuery \in Call /\ Head(s2c).call = lastQuery
  BY <1>3, <1>4 DEF AnswerInv, LastQuerySent, IInv, AboutLastQuery
<1> DEFINE m == Len(rows[cur])
           n == Len(answer[cur])
           b == Blk(lastQuery, Head(s2c).n)
<1>6. /\ rows[cur] \in Seq(Block) /\ answer[cur] \in Seq(Block)
      /\ m \in Nat /\ n \in Nat /\ b \in Block
  <2>1. Head(s2c).n \in 0..MaxBlocks
    BY <1>4, CarriesCall
  <2>2. b \in Block
    BY <1>5, <2>1, MessageTypes
  <2> QED BY <1>1, <2>2, LengthTypes
<1>7. rows'[cur] = Append(rows[cur], b)
  BY <1>1, <1>5 DEF IInv, TypeOK
<1>8. /\ DOMAIN rows'[cur] = DOMAIN rows[cur] \cup {m + 1}
      /\ \A i \in DOMAIN rows[cur]: rows'[cur][i] = rows[cur][i]
      /\ rows'[cur][m + 1] = b /\ Len(rows'[cur]) = m + 1
  BY <1>6, <1>7, AppendEntries
<1>9. ASSUME cur = lastQuery, Kept(cur), ~Cancelling
      PROVE  Head(s2c).n = m + 1 /\ m + 1 <= n /\ OnTheWay(Tail(s2c), m + 1, n)
  <2>1. OnTheWay(s2c, m, n)
    BY <1>1, <1>3, <1>9 DEF AnswerInv, AnswerOnTheWay
  <2> QED BY <1>4, <1>6, <2>1, OnTheWayTake
<1>10. BlocksNumbered'
  <2> SUFFICES ASSUME NEW q \in Call
               PROVE  /\ \A i \in DOMAIN answer[q]: answer[q][i] = Blk(q, i)
                      /\ Kept(q) =>
                           /\ \A i \in DOMAIN rows'[q]: rows'[q][i] = Blk(q, i)
                           /\ IF kind[q] = "insert" THEN Len(answer[q]) <= Len(rows'[q])
                                                    ELSE Len(rows'[q]) <= Len(answer[q])
                           /\ status[q] = "ok" => Len(rows'[q]) = Len(answer[q])
    BY DEF BlocksNumbered, Kept
  <2>1. CASE q # cur
    BY <1>2, <2>1 DEF AnswerInv, BlocksNumbered
  <2>2. CASE q = cur /\ Kept(cur)
    <3>1. Head(s2c).n = m + 1 /\ m + 1 <= n /\ b = Blk(cur, m + 1)
      BY <1>1, <1>9, <2>2
    <3>2. \A i \in DOMAIN rows[cur]: rows[cur][i] = Blk(cur, i)
      BY <1>1, <2>2 DEF AnswerInv, BlocksNumbered
    <3>3. \A i \in DOMAIN rows'[cur]: rows'[cur][i] = Blk(cur, i)
      BY <1>8, <3>1, <3>2
    <3> QED BY <1>1, <1>8, <2>2, <3>1, <3>3 DEF AnswerInv, BlocksNumbered
  <2>3. CASE q = cur /\ ~Kept(cur)
    BY <2>3 DEF AnswerInv, BlocksNumbered
  <2> QED BY <2>1, <2>2, <2>3
<1>11. AnswerOnTheWay'
  <2> SUFFICES ASSUME kind[lastQuery] # "insert", Kept(lastQuery), ~Cancelling'
               PROVE  OnTheWay(Tail(s2c), Len(rows'[lastQuery]), Len(answer[lastQuery]))
    BY DEF AnswerOnTheWay, Kept
  <2>1. ~Cancelling
    BY DEF Cancelling
  <2>2. cur = lastQuery
    BY <1>1, <1>3, <2>1
  <2> QED BY <1>8, <1>9, <2>1, <2>2
<1> QED BY <1>3, <1>10, <1>11 DEF AnswerInv

\* Behind END_OF_STREAM there is nothing, in either direction.
LEMMA NothingBehindEnd ==
  ASSUME IInv, AnswerInv, s2c # <<>>, Head(s2c).type = "EOS", stage # "ping"
  PROVE  /\ Tail(s2c) = <<>> /\ srv.phase = "idle"
         /\ \A i \in DOMAIN s2c: s2c[i].type # "DATA"
         /\ \A i \in DOMAIN c2s: c2s[i].type \notin {"QUERY", "INSERT", "DATA", "END_OF_DATA"}
         /\ EndToCome /\ lastQuery \in Call
<1>1. /\ s2c \in Seq(Packet) /\ Head(s2c) = s2c[1] /\ Len(s2c) \in Nat \ {0}
      /\ 1 \in DOMAIN s2c /\ Tail(s2c) \in Seq(Packet) /\ Len(Tail(s2c)) = Len(s2c) - 1
  BY TailEntries DEF IInv, TypeOK, ServerTypeOK
<1>2. \A i \in DOMAIN s2c: s2c[i].type # "PONG"
  BY DEF IInv, PingIsLast
<1>3. Len(s2c) = 1
  <2>1. 2 \notin DOMAIN s2c
    BY <1>1, <1>2 DEF AnswerInv, EndIsLast
  <2>2. DOMAIN s2c = 1..Len(s2c)
    BY <1>1
  <2> QED BY <1>1, <2>1, <2>2
<1>4. Tail(s2c) = <<>> /\ \A i \in DOMAIN s2c: i = 1
  <2>1. Tail(s2c) \in Seq(Packet) /\ Len(Tail(s2c)) = 0
    BY <1>1, <1>3
  <2>2. Tail(s2c) = <<>>
    BY <2>1, EmptyChannel
  <2>3. DOMAIN s2c = 1..1
    BY <1>1, <1>3
  <2>4. \A i \in 1..1: i = 1
    OBVIOUS
  <2> QED BY <2>2, <2>3, <2>4
<1>5. srv.phase = "idle" /\ EndToCome
  BY <1>1 DEF AnswerInv, EndIsLast, EndToCome
<1>6. \A i \in DOMAIN c2s: c2s[i].type \notin {"QUERY", "INSERT", "DATA", "END_OF_DATA"}
  BY <1>5 DEF AnswerInv, KindsMatch, IInv, QueryMeetsIdleServer
<1>7. \A i \in DOMAIN s2c: s2c[i].type # "DATA"
  BY <1>1, <1>4
<1> QED BY <1>4, <1>5, <1>6, <1>7 DEF AnswerInv, LastQuerySent

\* END_OF_STREAM: the running call ends normally (ReceiveEndOfQuery,
\* ReceiveEndOfStream).
LEMMA ReceiveEnd ==
  ASSUME IInv, AnswerInv, TypeOK', stage \in {"eoq", "drain", "pull"},
         s2c # <<>>, s2c' = Tail(s2c), Head(s2c).type = "EOS",
         executing' = FALSE, EndCall("ok"),
         UNCHANGED <<connected, lastQuery, kind, rows, c2s, srv, answer>>
  PROVE  AnswerInv' /\ s2c' = <<>> /\ srv'.phase = "idle"
<1>1. /\ s2c' = <<>> /\ srv.phase = "idle"
      /\ \A i \in DOMAIN s2c: s2c[i].type # "DATA"
      /\ \A i \in DOMAIN c2s: c2s[i].type \notin {"QUERY", "INSERT", "DATA", "END_OF_DATA"}
      /\ EndToCome /\ lastQuery \in Call
  BY NothingBehindEnd
<1>2. ~EndToCome' /\ DOMAIN s2c' = {}
  BY <1>1 DEF EndToCome
<1>3. cur \in Call
  BY DEF IInv, TypeOK
<1>4. \A q \in Call: status'[q] = IF q = cur THEN "ok" ELSE status[q]
  BY DEF EndCall, IInv, TypeOK
<1>5. stage' = "idle"
  BY DEF EndCall
<1>6. EndIsLast' /\ FlagMeansUnread' /\ KindsMatch' /\ InsertStages'
      /\ AnswerOnTheWay' /\ ChunksOnTheWay'
  BY <1>1, <1>2, <1>5
     DEF EndIsLast, FlagMeansUnread, KindsMatch, InsertStages, AnswerOnTheWay, ChunksOnTheWay
<1>7. CallStages'
  BY <1>3, <1>4, <1>5 DEF AnswerInv, CallStages
<1>8. LastQuerySent'
  BY <1>2, <1>3, <1>4 DEF AnswerInv, LastQuerySent
<1>9. Kept(cur) => Len(rows[cur]) = Len(answer[cur])
  <2> SUFFICES ASSUME Kept(cur) PROVE Len(rows[cur]) = Len(answer[cur])
    OBVIOUS
  <2>1. /\ s2c \in Seq(Packet) /\ c2s \in Seq(ClientMsg)
        /\ Len(rows[cur]) \in Nat /\ Len(answer[cur]) \in Nat
    BY <1>3 DEF IInv, TypeOK, ServerTypeOK
  <2>2. CASE stage = "eoq"
    <3>1. kind[cur] = "insert" /\ cur = lastQuery
      BY <2>2 DEF AnswerInv, CallStages
    <3>2. OnTheWay(c2s, Len(answer[cur]), Len(rows[cur]))
      BY <1>1, <3>1 DEF AnswerInv, ChunksOnTheWay
    <3>3. Len(answer[cur]) <= Len(rows[cur])
      BY <1>3, <3>1 DEF AnswerInv, BlocksNumbered
    <3> QED BY <1>1, <2>1, <3>2, <3>3, OnTheWayNone
  <2>3. CASE stage \in {"drain", "pull"}
    <3>1. kind[cur] # "insert" /\ cur = lastQuery /\ ~Cancelling
      BY <2>3, WhoReads
    <3>2. OnTheWay(s2c, Len(rows[cur]), Len(answer[cur]))
      BY <1>1, <3>1 DEF AnswerInv, AnswerOnTheWay
    <3>3. Len(rows[cur]) <= Len(answer[cur])
      BY <1>3, <3>1 DEF AnswerInv, BlocksNumbered
    <3> QED BY <1>1, <2>1, <3>2, <3>3, OnTheWayNone
  <2> QED BY <2>2, <2>3
<1>10. BlocksNumbered'
  BY <1>4, <1>9 DEF AnswerInv, BlocksNumbered, Kept
<1> QED BY <1>1, <1>6, <1>7, <1>8, <1>10 DEF AnswerInv

-----------------------------------------------------------------------------
(* Kinds of steps: the server sends a packet *)

\* A session that is not idle works on the last query, and has not ended it.
LEMMA WorksOnLastQuery ==
  ASSUME IInv, AnswerInv, srv.phase # "idle"
  PROVE  /\ EndToCome /\ lastQuery \in Call /\ srv.call = lastQuery
         /\ status[lastQuery] \in {"running", "live", "closed"}
         /\ \A i \in DOMAIN s2c: s2c[i].type \notin {"EOS", "PONG"}
         /\ srv.phase # "closed" => \A i \in DOMAIN s2c: s2c[i].type # "EXCEPTION"
         /\ stage \notin {"connect", "send"}
         /\ srv.phase = "select" <=> kind[lastQuery] # "insert"
<1>1. EndToCome
  BY DEF EndToCome
<1>2. lastQuery \in Call /\ status[lastQuery] \in {"running", "live", "closed"}
  BY <1>1 DEF AnswerInv, LastQuerySent
<1>3. srv.call = lastQuery
  BY DEF IInv, AboutLastQuery
<1>4. /\ \A i \in DOMAIN s2c: s2c[i].type \notin {"EOS", "PONG"}
      /\ srv.phase # "closed" => \A i \in DOMAIN s2c: s2c[i].type # "EXCEPTION"
  BY DEF AnswerInv, EndIsLast, IInv, PingIsLast
<1>5. stage \notin {"connect", "send"}
  BY DEF IInv, StageConnected, OfflineIsEmpty, SendIsQuiet, IdleSession, Serving
<1>6. srv.phase = "select" <=> kind[lastQuery] # "insert"
  <2>1. srv.phase \in {"select", "sample", "ingest", "commit", "closed"}
    BY DEF IInv, TypeOK, ServerTypeOK, Session, Phase, IdleSession, Serving
  <2> QED BY <2>1 DEF AnswerInv, KindsMatch
<1> QED BY <1>1, <1>2, <1>3, <1>4, <1>5, <1>6

\* What every packet the server sends leaves alone.
LEMMA SendCommon ==
  ASSUME IInv, AnswerInv, TypeOK', UNCHANGED clientVars, c2s' = c2s,
         NEW type \in ServerPacketType \ {"PONG"}, NEW n \in 0..MaxBlocks,
         s2c' = Append(s2c, Msg(type, srv.call, n)),
         srv.phase \in {"select", "sample", "ingest", "commit"},
         \A q \in Call: q # lastQuery => answer'[q] = answer[q],
         \/ /\ type \notin {"EOS", "EXCEPTION"} /\ srv'.phase = srv.phase
            /\ type = "DATA" => srv.phase = "select"
         \/ type = "DATA" /\ srv.phase = "sample" /\ srv'.phase = "ingest"
         \/ type = "EOS" /\ srv.phase \in {"select", "commit"} /\ srv'.phase = "idle"
         \/ type = "EXCEPTION" /\ srv.phase = "select" /\ srv'.phase = "idle"
         \/ type = "EXCEPTION" /\ srv.phase # "select" /\ srv'.phase = "closed"
  PROVE  /\ EndToCome'
         /\ EndIsLast' /\ CallStages' /\ LastQuerySent' /\ FlagMeansUnread'
         /\ KindsMatch' /\ InsertStages'
<1> DEFINE p == Msg(type, srv.call, n)
<1>1. /\ EndToCome /\ lastQuery \in Call /\ srv.call = lastQuery
      /\ status[lastQuery] \in {"running", "live", "closed"}
      /\ \A i \in DOMAIN s2c: s2c[i].type \notin {"EOS", "PONG", "EXCEPTION"}
      /\ srv.phase = "select" <=> kind[lastQuery] # "insert"
      /\ stage \notin {"connect", "send"}
  BY WorksOnLastQuery
<1>2. UNCHANGED <<connected, executing, lastQuery, stage, cur, kind, status, rows>>
  BY DEF clientVars
<1>3. p \in Packet /\ p.type = type
  BY <1>1, MessageTypes DEF Msg
<1>4. /\ DOMAIN s2c' = DOMAIN s2c \cup {Len(s2c) + 1} /\ Len(s2c) \in Nat
      /\ \A i \in DOMAIN s2c: s2c'[i] = s2c[i] /\ i <= Len(s2c)
      /\ s2c'[Len(s2c) + 1].type = type
  <2>1. s2c \in Seq(Packet) /\ s2c' = Append(s2c, p)
    BY DEF IInv, TypeOK, ServerTypeOK
  <2> HIDE DEF p
  <2> QED BY <1>3, <2>1, AppendEntries
<1>5. EndToCome'
  BY <1>4 DEF EndToCome
<1>6. EndIsLast'
  <2>1. \A i \in DOMAIN s2c': s2c'[i].type \in {"EOS", "EXCEPTION"}
          => i = Len(s2c) + 1 /\ type \in {"EOS", "EXCEPTION"}
    BY <1>1, <1>4
  <2>2. \A i \in DOMAIN s2c': ~(i > Len(s2c) + 1)
    BY <1>4
  <2> QED BY <1>4, <1>5, <2>1, <2>2 DEF EndIsLast
<1>7. CallStages'
  <2>1. status[lastQuery] # "none" /\ kind[lastQuery] # "cancel"
    BY <1>1 DEF AnswerInv, LastQuerySent
  <2>2. stage \in {"connect", "ping", "send"} => cur \in Call /\ cur # lastQuery
    BY DEF AnswerInv, CallStages, IInv, TypeOK
  <2> QED BY <1>2, <2>1, <2>2 DEF AnswerInv, CallStages
<1>8. LastQuerySent'
  BY <1>1, <1>2 DEF AnswerInv, LastQuerySent
<1>9. FlagMeansUnread'
  BY <1>2, <1>5 DEF AnswerInv, FlagMeansUnread
<1>10. KindsMatch'
  BY <1>1, <1>2 DEF AnswerInv, KindsMatch
<1>11. InsertStages'
  <2>1. stage \in {"sample", "data"} => kind[lastQuery] = "insert"
    BY DEF AnswerInv, CallStages
  <2>2. srv'.phase = "commit" => srv.phase = "commit"
    OBVIOUS
  <2> QED BY <1>1, <1>2, <1>4, <2>1, <2>2 DEF AnswerInv, InsertStages
<1> QED BY <1>5, <1>6, <1>7, <1>8, <1>9, <1>10, <1>11

\* Anything but a block of a SELECT.
LEMMA SendNoBlock ==
  ASSUME IInv, AnswerInv, TypeOK', UNCHANGED clientVars, c2s' = c2s, answer' = answer,
         NEW type \in ServerPacketType \ {"PONG"}, NEW n \in 0..MaxBlocks,
         s2c' = Append(s2c, Msg(type, srv.call, n)),
         srv.phase \in {"select", "sample", "ingest", "commit"},
         \/ type \notin {"EOS", "EXCEPTION", "DATA"} /\ srv'.phase = srv.phase
         \/ type = "DATA" /\ srv.phase = "sample" /\ srv'.phase = "ingest"
         \/ type = "EOS" /\ srv.phase \in {"select", "commit"} /\ srv'.phase = "idle"
         \/ type = "EXCEPTION" /\ srv.phase = "select" /\ srv'.phase = "idle"
         \/ type = "EXCEPTION" /\ srv.phase # "select" /\ srv'.phase = "closed"
  PROVE  AnswerInv'
<1>1. /\ EndToCome'
      /\ EndIsLast' /\ CallStages' /\ LastQuerySent' /\ FlagMeansUnread'
      /\ KindsMatch' /\ InsertStages'
  BY SendCommon
<1>2. UNCHANGED <<lastQuery, stage, cur, kind, status, rows>>
  BY DEF clientVars
<1>3. BlocksNumbered'
  BY <1>2 DEF AnswerInv, BlocksNumbered, Kept
<1>4. /\ EndToCome /\ lastQuery \in Call /\ srv.call = lastQuery
      /\ srv.phase = "select" <=> kind[lastQuery] # "insert"
  BY WorksOnLastQuery
<1>5. ChunksOnTheWay'
  BY <1>2, <1>4 DEF AnswerInv, ChunksOnTheWay
<1>6. AnswerOnTheWay'
  <2> SUFFICES ASSUME kind[lastQuery] # "insert", Kept(lastQuery), ~Cancelling
               PROVE  OnTheWay(s2c', Len(rows[lastQuery]), Len(answer[lastQuery]))
    BY <1>2 DEF AnswerOnTheWay, Kept, Cancelling
  <2>1. OnTheWay(s2c, Len(rows[lastQuery]), Len(answer[lastQuery]))
    BY <1>4 DEF AnswerInv, AnswerOnTheWay
  <2>2. type # "DATA"
    BY <1>4
  <2>3. Msg(type, srv.call, n) \in Packet /\ Msg(type, srv.call, n).type # "DATA"
    BY <1>4, <2>2, MessageTypes DEF Msg
  <2>4. /\ s2c \in Seq(Packet)
        /\ Len(rows[lastQuery]) \in Nat /\ Len(answer[lastQuery]) \in Nat
    BY <1>4, LengthTypes
  <2> QED BY <2>1, <2>3, <2>4, OnTheWayAppend
<1> QED BY <1>1, <1>3, <1>5, <1>6 DEF AnswerInv

LEMMA SendBlockAnswer ==
  ASSUME IInv, AnswerInv, TypeOK', UNCHANGED clientVars, SendBlock
  PROVE  AnswerInv'
<1> DEFINE q == lastQuery
           m == Len(rows[q])
           n == Len(answer[q])
<1>1. /\ EndToCome /\ q \in Call /\ srv.call = q /\ kind[q] # "insert"
      /\ status[q] \in {"running", "live", "closed"}
  BY WorksOnLastQuery DEF SendBlock
<1>2. UNCHANGED <<lastQuery, stage, cur, kind, status, rows>>
  BY DEF clientVars
<1>3. /\ s2c \in Seq(Packet) /\ rows[q] \in Seq(Block) /\ answer[q] \in Seq(Block)
      /\ m \in Nat /\ n \in Nat
  <2>1. s2c \in Seq(Packet) /\ rows[q] \in Seq(Block) /\ answer[q] \in Seq(Block)
    BY <1>1 DEF IInv, TypeOK, ServerTypeOK
  <2> QED BY <2>1
<1>4. n + 1 \in 0..MaxBlocks
  BY <1>1, <1>3, ConstantTypes DEF SendBlock
<1>5. /\ srv.phase = "select" /\ srv'.phase = "select" /\ c2s' = c2s
      /\ s2c' = Append(s2c, Msg("DATA", q, n + 1))
      /\ answer' = [answer EXCEPT ![q] = Append(@, Blk(q, n + 1))]
  <2>1. srv'.phase = srv.phase
    BY SessionTypes DEF SendBlock, IInv, TypeOK, ServerTypeOK, Session
  <2> QED BY <1>1, <2>1 DEF SendBlock
<1>6. \A r \in Call: answer'[r] = IF r = q THEN Append(answer[q], Blk(q, n + 1)) ELSE answer[r]
  BY <1>1, <1>5 DEF IInv, TypeOK, ServerTypeOK
<1>7. /\ EndToCome'
      /\ EndIsLast' /\ CallStages' /\ LastQuerySent' /\ FlagMeansUnread'
      /\ KindsMatch' /\ InsertStages'
  <2>1. "DATA" \in ServerPacketType \ {"PONG"}
    BY DEF ServerPacketType
  <2>2. \A r \in Call: r # q => answer'[r] = answer[r]
    BY <1>6
  <2> QED BY <1>1, <1>4, <1>5, <2>1, <2>2, SendCommon
<1>8. /\ DOMAIN answer'[q] = DOMAIN answer[q] \cup {n + 1}
      /\ \A i \in DOMAIN answer[q]: answer'[q][i] = answer[q][i]
      /\ answer'[q][n + 1] = Blk(q, n + 1) /\ Len(answer'[q]) = n + 1
  <2>1. Blk(q, n + 1) \in Block
    BY <1>1, <1>4, MessageTypes
  <2>2. answer'[q] = Append(answer[q], Blk(q, n + 1))
    BY <1>1, <1>6
  <2> QED BY <1>3, <2>1, <2>2, AppendEntries
<1>9. BlocksNumbered'
  <2> SUFFICES ASSUME NEW r \in Call
               PROVE  /\ \A i \in DOMAIN answer'[r]: answer'[r][i] = Blk(r, i)
                      /\ Kept(r) =>
                           /\ \A i \in DOMAIN rows[r]: rows[r][i] = Blk(r, i)
                           /\ IF kind[r] = "insert" THEN Len(answer'[r]) <= Len(rows[r])
                                                    ELSE Len(rows[r]) <= Len(answer'[r])
                           /\ status[r] = "ok" => Len(rows[r]) = Len(answer'[r])
    BY <1>2 DEF BlocksNumbered, Kept
  <2>1. CASE r # q
    BY <1>6, <2>1 DEF AnswerInv, BlocksNumbered
  <2>2. CASE r = q
    BY <1>1, <1>3, <1>8, <2>2 DEF AnswerInv, BlocksNumbered
  <2> QED BY <2>1, <2>2
<1>10. ChunksOnTheWay'
  BY <1>1, <1>2 DEF ChunksOnTheWay
<1>11. AnswerOnTheWay'
  <2> SUFFICES ASSUME Kept(q), ~Cancelling
               PROVE  OnTheWay(s2c', m, Len(answer'[q]))
    BY <1>2 DEF AnswerOnTheWay, Kept, Cancelling
  <2>1. OnTheWay(s2c, m, n)
    BY <1>1 DEF AnswerInv, AnswerOnTheWay
  <2>2. m <= n
    BY <1>1 DEF AnswerInv, BlocksNumbered
  <2>3. /\ Msg("DATA", q, n + 1) \in Packet
        /\ Msg("DATA", q, n + 1).type = "DATA" /\ Msg("DATA", q, n + 1).n = n + 1
    BY <1>1, <1>4, MessageTypes DEF Msg, ServerPacketType
  <2> QED BY <1>3, <1>5, <1>8, <2>1, <2>2, <2>3, OnTheWaySend
<1> QED BY <1>7, <1>9, <1>10, <1>11 DEF AnswerInv

-----------------------------------------------------------------------------
(* Kinds of steps: the server takes a message *)

\* What every message that is no chunk leaves alone, if the end of the answer
\* is to come as before.
LEMMA TakeCommon ==
  ASSUME IInv, AnswerInv, TypeOK', UNCHANGED clientVars, answer' = answer,
         c2s # <<>>, c2s' = Tail(c2s), Head(c2s).type # "DATA",
         s2c' = s2c \/ s2c' = Append(s2c, Pong),
         EndToCome' <=> EndToCome
  PROVE  /\ CallStages' /\ LastQuerySent' /\ FlagMeansUnread'
         /\ BlocksNumbered' /\ AnswerOnTheWay' /\ ChunksOnTheWay'
<1>1. UNCHANGED <<connected, executing, lastQuery, stage, cur, kind, status, rows>>
  BY DEF clientVars
<1>2. CallStages' /\ LastQuerySent' /\ FlagMeansUnread'
  BY <1>1 DEF AnswerInv, CallStages, LastQuerySent, FlagMeansUnread
<1>3. BlocksNumbered'
  BY <1>1 DEF AnswerInv, BlocksNumbered, Kept
<1>4. EndToCome => lastQuery \in Call
  BY DEF AnswerInv, LastQuerySent
<1>5. /\ c2s \in Seq(ClientMsg) /\ s2c \in Seq(Packet)
      /\ lastQuery \in Call =>
           Len(rows[lastQuery]) \in Nat /\ Len(answer[lastQuery]) \in Nat
  BY LengthTypes
<1>6. AnswerOnTheWay'
  <2> SUFFICES ASSUME EndToCome, kind[lastQuery] # "insert", Kept(lastQuery), ~Cancelling
               PROVE  OnTheWay(s2c', Len(rows[lastQuery]), Len(answer[lastQuery]))
    BY <1>1 DEF AnswerOnTheWay, Kept, Cancelling
  <2>1. OnTheWay(s2c, Len(rows[lastQuery]), Len(answer[lastQuery]))
    BY DEF AnswerInv, AnswerOnTheWay
  <2>2. Pong \in Packet /\ Pong.type # "DATA"
    BY SignalTypes DEF Pong, Msg
  <2>3. OnTheWay(Append(s2c, Pong), Len(rows[lastQuery]), Len(answer[lastQuery]))
    BY <1>4, <1>5, <2>1, <2>2, OnTheWayAppend
  <2> QED BY <2>1, <2>3
<1>7. ChunksOnTheWay'
  <2> SUFFICES ASSUME EndToCome, kind[lastQuery] = "insert"
               PROVE  OnTheWay(Tail(c2s), Len(answer[lastQuery]), Len(rows[lastQuery]))
    BY <1>1 DEF ChunksOnTheWay
  <2>1. OnTheWay(c2s, Len(answer[lastQuery]), Len(rows[lastQuery]))
    BY DEF AnswerInv, ChunksOnTheWay
  <2> QED BY <1>4, <1>5, <2>1, OnTheWayTail
<1> QED BY <1>2, <1>3, <1>6, <1>7

\* What is left in the channel to the server.
LEMMA TakenFromClient ==
  ASSUME IInv, c2s # <<>>, c2s' = Tail(c2s)
  PROVE  /\ Head(c2s) = c2s[1] /\ 1 \in DOMAIN c2s /\ Head(c2s) \in ClientMsg
         /\ Len(c2s') = Len(c2s) - 1 /\ Len(c2s) \in Nat \ {0}
         /\ \A i \in DOMAIN c2s': /\ c2s'[i] = c2s[i + 1] /\ i + 1 \in DOMAIN c2s
                                 /\ i \in Nat \ {0}
         /\ \A i \in DOMAIN c2s: i # 1 => i - 1 \in DOMAIN c2s' /\ c2s'[i - 1] = c2s[i]
<1>1. c2s \in Seq(ClientMsg)
  BY DEF IInv, TypeOK, ServerTypeOK
<1>2. Tail(c2s) \in Seq(ClientMsg)
  BY <1>1, TailEntries
<1>3. \A i \in DOMAIN c2s': i \in Nat \ {0}
  BY <1>2
<1> QED BY <1>1, <1>3, TailEntries, TailKeeps

LEMMA TakeRequestAnswer ==
  ASSUME IInv, AnswerInv, TypeOK', UNCHANGED clientVars, TakeRequest
  PROVE  AnswerInv'
<1> USE DEF AnswerInv
<1>1. c2s # <<>> /\ c2s' = Tail(c2s) /\ srv.phase = "idle" /\ answer' = answer
  BY DEF TakeRequest
<1>2. /\ Head(c2s) = c2s[1] /\ 1 \in DOMAIN c2s
      /\ Len(c2s') = Len(c2s) - 1 /\ Len(c2s) \in Nat \ {0}
      /\ \A i \in DOMAIN c2s': /\ c2s'[i] = c2s[i + 1] /\ i + 1 \in DOMAIN c2s
                              /\ i \in Nat \ {0}
      /\ \A i \in DOMAIN c2s: i # 1 => i - 1 \in DOMAIN c2s' /\ c2s'[i - 1] = c2s[i]
  BY <1>1, TakenFromClient
<1>3. UNCHANGED <<lastQuery, stage, kind>>
  BY DEF clientVars
<1>4. \A i \in DOMAIN c2s: c2s[i].type \notin {"DATA", "END_OF_DATA"}
  BY <1>1 DEF KindsMatch
<1>5. \A i \in DOMAIN c2s': c2s'[i].type \notin {"QUERY", "INSERT", "DATA", "END_OF_DATA"}
  BY <1>2, <1>4 DEF IInv, QueryMeetsIdleServer
<1>6. CASE Head(c2s).type \in {"QUERY", "INSERT"}
  <2>1. /\ s2c = <<>> /\ s2c' = s2c
        /\ \/ Head(c2s).type = "QUERY" /\ srv'.phase = "select"
           \/ Head(c2s).type = "INSERT" /\ srv'.phase = "sample"
    BY <1>2, <1>6 DEF TakeRequest, Serving, IInv, QueryMeetsIdleServer
  <2>2. EndToCome /\ EndToCome' /\ DOMAIN s2c' = {}
    BY <1>2, <1>6, <2>1 DEF EndToCome
  <2>3. EndIsLast'
    BY <2>2 DEF EndIsLast
  <2>4. KindsMatch'
    BY <1>2, <1>3, <1>5, <2>1 DEF KindsMatch
  <2>5. InsertStages'
    BY <1>1, <1>3, <2>1, <2>2 DEF InsertStages
  <2> QED BY <1>1, <1>6, <2>1, <2>2, <2>3, <2>4, <2>5, TakeCommon
<1>7. CASE Head(c2s).type \notin {"QUERY", "INSERT"}
  <2>1. srv' = srv /\ (s2c' = s2c \/ s2c' = Append(s2c, Pong))
    BY <1>7 DEF TakeRequest
  <2>2. Pong \in Packet /\ Pong.type = "PONG" /\ s2c \in Seq(Packet)
    BY SignalTypes DEF Pong, Msg, IInv, TypeOK, ServerTypeOK
  <2>3. /\ \A i \in DOMAIN s2c: i \in DOMAIN s2c' /\ s2c'[i] = s2c[i]
        /\ \A i \in DOMAIN s2c': \/ i \in DOMAIN s2c /\ s2c'[i] = s2c[i]
                                 \/ s2c'[i].type = "PONG"
    <3>1. CASE s2c' = s2c
      BY <3>1
    <3>2. CASE s2c' = Append(s2c, Pong)
      BY <2>2, <3>2, AppendEntries
    <3> QED BY <2>1, <3>1, <3>2
  <2>4. EndToCome' <=> EndToCome
    BY <1>1, <1>2, <1>7, <2>1, <2>3 DEF EndToCome
  <2>5. EndIsLast'
    BY <1>1, <2>1, <2>3, <2>4 DEF EndIsLast
  <2>6. KindsMatch'
    BY <1>1, <1>3, <1>5, <2>1 DEF KindsMatch
  <2>7. InsertStages'
    BY <1>1, <1>3, <2>1, <2>3 DEF InsertStages
  <2> QED BY <1>1, <1>2, <1>4, <2>1, <2>4, <2>5, <2>6, <2>7, TakeCommon
<1> QED BY <1>6, <1>7

LEMMA TakeCancelAnswer ==
  ASSUME IInv, AnswerInv, TypeOK', UNCHANGED clientVars, TakeCancel
  PROVE  AnswerInv'
<1>1. /\ c2s # <<>> /\ c2s' = Tail(c2s) /\ Head(c2s).type = "CANCEL"
      /\ srv.phase = "select" /\ s2c' = s2c /\ answer' = answer
  BY DEF TakeCancel
<1>2. srv'.phase = "select"
  BY DEF TakeCancel
<1>3. EndToCome /\ EndToCome'
  BY <1>1, <1>2 DEF EndToCome
<1>4. \A i \in DOMAIN c2s': c2s'[i] = c2s[i + 1] /\ i + 1 \in DOMAIN c2s
  BY <1>1, TakenFromClient
<1>5. UNCHANGED <<lastQuery, stage, kind>>
  BY DEF clientVars
<1>6. EndIsLast'
  BY <1>1, <1>2, <1>3 DEF AnswerInv, EndIsLast
<1>7. KindsMatch'
  <2>1. \A i \in DOMAIN c2s: c2s[i].type \notin {"QUERY", "INSERT", "DATA", "END_OF_DATA"}
    BY <1>1 DEF AnswerInv, KindsMatch, IInv, QueryMeetsIdleServer
  <2> QED BY <1>1, <1>2, <1>4, <1>5, <2>1 DEF AnswerInv, KindsMatch
<1>8. InsertStages'
  BY <1>1, <1>2, <1>5 DEF AnswerInv, InsertStages
<1> QED BY <1>1, <1>3, <1>6, <1>7, <1>8, TakeCommon DEF AnswerInv

LEMMA TakeChunkAnswer ==
  ASSUME IInv, AnswerInv, TypeOK', UNCHANGED clientVars, TakeChunk
  PROVE  AnswerInv'
<1> DEFINE q == lastQuery
           m == Len(answer[q])
           n == Len(rows[q])
<1>1. c2s # <<>> /\ c2s' = Tail(c2s) /\ srv.phase = "ingest" /\ s2c' = s2c
  BY DEF TakeChunk
<1>2. /\ Head(c2s) = c2s[1] /\ 1 \in DOMAIN c2s /\ Head(c2s) \in ClientMsg
      /\ Len(c2s') = Len(c2s) - 1 /\ Len(c2s) \in Nat \ {0}
      /\ \A i \in DOMAIN c2s': /\ c2s'[i] = c2s[i + 1] /\ i + 1 \in DOMAIN c2s
                              /\ i \in Nat \ {0}
  BY <1>1, TakenFromClient
<1>3. /\ EndToCome /\ q \in Call /\ srv.call = q /\ kind[q] = "insert"
      /\ status[q] \in {"running", "live", "closed"}
      /\ \A i \in DOMAIN s2c: s2c[i].type \notin {"EOS", "PONG", "EXCEPTION"}
  BY <1>1, WorksOnLastQuery
<1>4. UNCHANGED <<connected, executing, lastQuery, stage, cur, kind, status, rows>>
  BY DEF clientVars
<1>5. Head(c2s).type \in {"DATA", "END_OF_DATA"} /\ stage \in {"data", "eoq"}
      /\ Head(c2s).call = q
  <2>1. Head(c2s).type \in {"DATA", "END_OF_DATA"}
    BY DEF TakeChunk
  <2> QED BY <1>2, <2>1 DEF AnswerInv, KindsMatch
<1>6. CASE Head(c2s).type = "END_OF_DATA"
  <2>1. /\ srv'.phase = "commit" /\ answer' = answer
    <3>1. srv' = [srv EXCEPT !.phase = "commit"] /\ answer' = answer
      BY <1>6 DEF TakeChunk
    <3>2. srv \in [phase: Phase, call: Call]
      BY <1>1 DEF IInv, TypeOK, ServerTypeOK, Session, IdleSession, Serving
    <3> QED BY <3>1, <3>2
  <2>2. Len(c2s) = 1 /\ stage = "eoq"
    BY <1>2, <1>6 DEF AnswerInv, KindsMatch
  <2>3. DOMAIN c2s' = {} /\ c2s' = <<>>
    <3>1. c2s' \in Seq(ClientMsg) /\ Len(c2s') = 0
      BY <1>2, <2>2 DEF TypeOK, ServerTypeOK
    <3>2. c2s' = <<>>
      BY <3>1, EmptyChannel
    <3> QED BY <3>2
  <2>4. EndToCome'
    BY <2>1 DEF EndToCome
  <2>5. EndIsLast'
    BY <1>1, <1>3, <2>4 DEF EndIsLast
  <2>6. KindsMatch'
    BY <1>3, <1>4, <2>1, <2>3 DEF KindsMatch
  <2>7. InsertStages'
    BY <1>4, <2>1, <2>2, <2>3 DEF InsertStages
  <2> QED BY <1>1, <1>3, <1>6, <2>1, <2>4, <2>5, <2>6, <2>7, TakeCommon DEF AnswerInv
<1>7. CASE Head(c2s).type = "DATA"
  <2>1. srv' = srv /\ answer' = [answer EXCEPT ![q] = Append(@, Blk(q, Head(c2s).n))]
    BY <1>3, <1>5, <1>7 DEF TakeChunk
  <2>2. answer[q] \in Seq(Block) /\ rows[q] \in Seq(Block) /\ c2s \in Seq(ClientMsg)
    BY <1>3 DEF IInv, TypeOK, ServerTypeOK
  <2>3. m \in Nat /\ n \in Nat
    BY <2>2
  <2>4. OnTheWay(c2s, m, n)
    BY <1>3 DEF AnswerInv, ChunksOnTheWay
  <2>5. Head(c2s).n = m + 1 /\ m + 1 <= n /\ OnTheWay(Tail(c2s), m + 1, n)
    BY <1>1, <1>7, <2>2, <2>3, <2>4, OnTheWayTake
  <2>6. \A r \in Call: answer'[r] = IF r = q THEN Append(answer[q], Blk(q, m + 1)) ELSE answer[r]
    BY <1>3, <2>1, <2>5 DEF IInv, TypeOK, ServerTypeOK
  <2>7. /\ DOMAIN answer'[q] = DOMAIN answer[q] \cup {m + 1}
        /\ \A i \in DOMAIN answer[q]: answer'[q][i] = answer[q][i]
        /\ answer'[q][m + 1] = Blk(q, m + 1) /\ Len(answer'[q]) = m + 1
    <3>1. Blk(q, m + 1) \in Block
      BY <1>2, <1>3, <1>7, <2>5, CarriesCall, MessageTypes
    <3>2. answer'[q] = Append(answer[q], Blk(q, m + 1))
      BY <1>3, <2>6
    <3> QED BY <2>2, <3>1, <3>2, AppendEntries
  <2>8. EndToCome'
    BY <1>1, <2>1 DEF EndToCome
  <2>9. EndIsLast'
    BY <1>1, <1>3, <2>8 DEF EndIsLast
  <2>10. CallStages'
    <3>1. \A r \in Call: r # q => answer'[r] = answer[r]
      BY <2>6
    <3> QED BY <1>3, <1>4, <1>5, <3>1 DEF AnswerInv, CallStages
  <2>11. LastQuerySent' /\ FlagMeansUnread'
    BY <1>3, <1>4, <2>8 DEF AnswerInv, LastQuerySent, FlagMeansUnread
  <2>12. KindsMatch'
    <3>1. \A i \in DOMAIN c2s':
            /\ c2s'[i].type \notin {"QUERY", "INSERT"}
            /\ c2s'[i].type \in {"DATA", "END_OF_DATA"} => c2s'[i].call = q
            /\ c2s'[i].type = "END_OF_DATA" => i + 1 = Len(c2s) /\ stage = "eoq"
      BY <1>1, <1>2 DEF AnswerInv, KindsMatch, IInv, QueryMeetsIdleServer
    <3>2. \A i \in DOMAIN c2s': i + 1 = Len(c2s) => i = Len(c2s')
      BY <1>2
    <3> QED BY <1>1, <1>3, <1>4, <1>5, <2>1, <3>1, <3>2 DEF KindsMatch
  <2>13. InsertStages'
    BY <1>1, <1>4, <2>1 DEF AnswerInv, InsertStages
  <2>14. BlocksNumbered'
    <3> SUFFICES ASSUME NEW r \in Call
                 PROVE  /\ \A i \in DOMAIN answer'[r]: answer'[r][i] = Blk(r, i)
                        /\ Kept(r) =>
                             /\ \A i \in DOMAIN rows[r]: rows[r][i] = Blk(r, i)
                             /\ IF kind[r] = "insert" THEN Len(answer'[r]) <= Len(rows[r])
                                                      ELSE Len(rows[r]) <= Len(answer'[r])
                             /\ status[r] = "ok" => Len(rows[r]) = Len(answer'[r])
      BY <1>4 DEF BlocksNumbered, Kept
    <3>1. CASE r # q
      BY <2>6, <3>1 DEF AnswerInv, BlocksNumbered
    <3>2. CASE r = q
      BY <1>3, <2>5, <2>7, <3>2 DEF AnswerInv, BlocksNumbered
    <3> QED BY <3>1, <3>2
  <2>15. AnswerOnTheWay'
    BY <1>3, <1>4 DEF AnswerOnTheWay
  <2>16. ChunksOnTheWay'
    BY <1>1, <1>4, <2>5, <2>7 DEF ChunksOnTheWay
  <2> QED BY <2>9, <2>10, <2>11, <2>12, <2>13, <2>14, <2>15, <2>16 DEF AnswerInv
<1> QED BY <1>5, <1>6, <1>7

LEMMA ServerAnswer ==
  ASSUME IInv, AnswerInv, TypeOK', UNCHANGED clientVars, ServerNext
  PROVE  AnswerInv'
<1> USE ConstantTypes
<1>1. CASE TakeRequest
  BY <1>1, TakeRequestAnswer
<1>2. CASE TakeCancel
  BY <1>2, TakeCancelAnswer
<1>3. CASE TakeChunk
  BY <1>3, TakeChunkAnswer
<1>4. CASE SendBlock
  BY <1>4, SendBlockAnswer
<1>a. srv.phase # "idle" =>
        /\ srv \in [phase: Phase, call: Call]
        /\ \A f \in Phase: [srv EXCEPT !.phase = f].phase = f
  BY DEF IInv, TypeOK, ServerTypeOK, Session, IdleSession, Serving
<1>b. IdleSession.phase = "idle"
  BY DEF IdleSession, Serving
<1>5. CASE SendSampleBlock
  <2>1. srv.phase = "sample" /\ srv'.phase = "ingest"
    BY <1>5, <1>a DEF SendSampleBlock, Phase
  <2> QED BY <1>5, <2>1, SendNoBlock DEF SendSampleBlock, ServerPacketType
<1>6. CASE SendEndOfStream
  <2>1. srv'.phase = "idle"
    BY <1>6, <1>b DEF SendEndOfStream
  <2> QED BY <1>6, <2>1, SendNoBlock DEF SendEndOfStream, ServerPacketType
<1>7. CASE SendException
  <2>1. srv'.phase = IF srv.phase = "select" THEN "idle" ELSE "closed"
    BY <1>7, <1>a, <1>b DEF SendException, Phase
  <2> QED BY <1>7, <2>1, SendNoBlock DEF SendException, ServerPacketType
<1>8. ASSUME NEW t \in Infos, SendInfo(t) PROVE AnswerInv'
  <2>1. srv'.phase = srv.phase /\ srv.phase \in {"select", "sample", "ingest", "commit"}
    BY <1>8 DEF SendInfo
  <2>2. t \in ServerPacketType \ {"PONG"} /\ t \notin {"EOS", "EXCEPTION", "DATA"}
    BY <1>8, InfosAssumption DEF ServerPacketType
  <2> QED BY <1>8, <2>1, <2>2, SendNoBlock DEF SendInfo
<1> QED BY <1>1, <1>2, <1>3, <1>4, <1>5, <1>6, <1>7, <1>8 DEF ServerNext

-----------------------------------------------------------------------------
(* What the application starts *)

LEMMA AppAnswer ==
  ASSUME IInv, AnswerInv, TypeOK', AppNext
  PROVE  AnswerInv'
<1>a. stage = "idle" => \A q \in Call: status[q] # "running"
  BY DEF AnswerInv, CallStages
<1>b. \A q \in Call: status[q] = "none" => q # lastQuery /\ rows[q] = <<>> /\ answer[q] = <<>>
  BY FreshIsEmpty DEF AnswerInv, LastQuerySent
<1>1. ASSUME NEW q \in Call, NEW k \in Kinds, Refuse(q, k) PROVE AnswerInv'
  <2>1. stage = "idle" /\ status[q] = "none"
    BY <1>1 DEF Refuse, Fresh
  <2>2. \A p \in Call: /\ p # q => UNCHANGED <<kind[p], status[p]>>
                       /\ status'[q] = "refused"
    BY <1>1 DEF Refuse, IInv, TypeOK
  <2> QED BY <1>1, <1>a, <2>1, <2>2, OfflineAnswer DEF Refuse, ClientDisconnect
<1>2. ASSUME NEW q \in Call, NEW k \in Kinds, ForceConnect(q, k) PROVE AnswerInv'
  <2>1. /\ stage = "idle" /\ status[q] = "none" /\ ~executing
        /\ stage' \in {"ping", "connect"} /\ cur' = q
        /\ stage' = "ping" => connected
        /\ UNCHANGED <<connected, lastQuery, rows, s2c, srv, answer>>
        /\ c2s' = c2s \/ c2s' = Append(c2s, Ping)
    BY <1>2 DEF ForceConnect, Fresh
  <2>2. \A p \in Call: /\ p # q => UNCHANGED <<kind[p], status[p]>>
                       /\ status'[q] = "running" /\ kind'[q] = k
    BY <1>2 DEF ForceConnect, IInv, TypeOK
  <2>3. /\ EndToCome' <=> EndToCome
        /\ EndIsLast' /\ LastQuerySent' /\ KindsMatch' /\ InsertStages'
        /\ BlocksNumbered' /\ AnswerOnTheWay' /\ ChunksOnTheWay'
    BY <2>1, <2>2, SignalStep
  <2>4. CallStages'
    BY <1>a, <1>b, <2>1, <2>2, KindsAssumption DEF AnswerInv, CallStages
  <2>5. FlagMeansUnread'
    BY <2>1 DEF FlagMeansUnread
  <2> QED BY <2>3, <2>4, <2>5 DEF AnswerInv
<1>3. ASSUME NEW q \in Call, Cancel(q) PROVE AnswerInv'
  <2>1. /\ stage = "idle" /\ status[q] = "none" /\ connected
        /\ stage' = "drain" /\ cur' = q
        /\ UNCHANGED <<connected, executing, lastQuery, rows, s2c, srv, answer>>
        /\ c2s' = Append(c2s, CancelMsg)
    BY <1>3 DEF Cancel, Fresh
  <2>2. \A p \in Call: /\ p # q => UNCHANGED <<kind[p], status[p]>>
                       /\ status'[q] = "running" /\ kind'[q] = "cancel"
    BY <1>3 DEF Cancel, IInv, TypeOK
  <2>3. /\ EndToCome' <=> EndToCome
        /\ EndIsLast' /\ LastQuerySent' /\ KindsMatch' /\ InsertStages'
        /\ BlocksNumbered' /\ AnswerOnTheWay' /\ ChunksOnTheWay'
    BY <2>1, <2>2, SignalStep
  <2>4. CallStages'
    BY <1>a, <1>b, <2>1, <2>2 DEF AnswerInv, CallStages
  <2>5. FlagMeansUnread'
    BY <2>1, <2>3 DEF AnswerInv, FlagMeansUnread
  <2> QED BY <2>3, <2>4, <2>5 DEF AnswerInv
<1>4. ASSUME NEW q \in Call, NEW k \in Kinds \cup {"cancel"}, FailAtOnce(q, k)
      PROVE  AnswerInv'
  <2>1. /\ stage = "idle" /\ status[q] = "none" /\ stage' = "idle"
        /\ UNCHANGED <<connected, executing, lastQuery, rows, c2s, s2c, srv, answer>>
    BY <1>4 DEF FailAtOnce, Fresh, serverVars
  <2>2. \A p \in Call: /\ p # q => UNCHANGED <<kind[p], status[p]>>
                       /\ status'[q] = "error" /\ kind'[q] = k
    BY <1>4 DEF FailAtOnce, IInv, TypeOK
  <2>3. /\ EndToCome' <=> EndToCome
        /\ EndIsLast' /\ LastQuerySent' /\ KindsMatch' /\ InsertStages'
        /\ BlocksNumbered' /\ AnswerOnTheWay' /\ ChunksOnTheWay'
    BY <2>1, <2>2, SignalStep
  <2>4. CallStages'
    BY <1>a, <1>b, <2>1, <2>2 DEF AnswerInv, CallStages
  <2>5. FlagMeansUnread'
    BY <2>1, <2>3 DEF AnswerInv, FlagMeansUnread
  <2> QED BY <2>3, <2>4, <2>5 DEF AnswerInv
<1>5. ASSUME NEW q \in Call, Pull(q) PROVE AnswerInv'
  <2>1. /\ stage = "idle" /\ status[q] = "live" /\ stage' = "pull" /\ cur' = q
        /\ PullStale \/ lastQuery = q
        /\ UNCHANGED <<connected, executing, lastQuery, kind, status, rows, c2s, s2c, srv, answer>>
    BY <1>5 DEF Pull, serverVars
  <2>2. /\ EndToCome' <=> EndToCome
        /\ EndIsLast' /\ LastQuerySent' /\ KindsMatch' /\ InsertStages'
        /\ BlocksNumbered' /\ AnswerOnTheWay' /\ ChunksOnTheWay'
    BY <2>1, SignalStep
  <2>3. CallStages'
    BY <1>a, <2>1 DEF AnswerInv, CallStages
  <2>4. FlagMeansUnread'
    BY <2>1, <2>2 DEF AnswerInv, FlagMeansUnread
  <2> QED BY <2>2, <2>3, <2>4 DEF AnswerInv
<1>6. ASSUME NEW q \in Call, Abandon(q) PROVE AnswerInv'
  <2>1. /\ stage = "idle" /\ status[q] = "live" /\ stage' = "idle"
        /\ UNCHANGED <<connected, executing, lastQuery, kind, rows, c2s, s2c, srv, answer>>
    BY <1>6 DEF Abandon, serverVars
  <2>2. \A p \in Call: /\ p # q => status'[p] = status[p]
                       /\ status'[q] = "closed"
    BY <1>6 DEF Abandon, IInv, TypeOK
  <2>3. /\ EndToCome' <=> EndToCome
        /\ EndIsLast' /\ LastQuerySent' /\ KindsMatch' /\ InsertStages'
        /\ BlocksNumbered' /\ AnswerOnTheWay' /\ ChunksOnTheWay'
    BY <2>1, <2>2, SignalStep
  <2>4. CallStages'
    BY <1>a, <2>1, <2>2 DEF AnswerInv, CallStages
  <2>5. FlagMeansUnread'
    BY <2>1, <2>3 DEF AnswerInv, FlagMeansUnread
  <2> QED BY <2>3, <2>4, <2>5 DEF AnswerInv
<1>7. CASE AppDisconnect
  BY <1>7, <1>a, OfflineAnswer DEF AppDisconnect, ClientDisconnect
<1> QED BY <1>1, <1>2, <1>3, <1>4, <1>5, <1>6, <1>7 DEF AppNext

-----------------------------------------------------------------------------
(* The running call *)

\* A new query: the connection is quiet, and no block of it exists yet.
LEMMA SendQueryAnswer ==
  ASSUME IInv, AnswerInv, TypeOK', SendQuery
  PROVE  AnswerInv'
<1> DEFINE t == IF kind[cur] = "insert" THEN "INSERT" ELSE "QUERY"
<1>1. /\ stage = "send" /\ lastQuery' = cur /\ cur \in Call /\ connected'
      /\ c2s = <<>> /\ s2c = <<>> /\ srv.phase = "idle"
      /\ UNCHANGED <<executing, kind, rows, s2c, srv, answer>>
  BY DEF SendQuery, IInv, TypeOK, SendIsQuiet, StageConnected
<1>2. /\ status[cur] = "running" /\ rows[cur] = <<>> /\ answer[cur] = <<>>
      /\ kind[cur] \in {"execute", "progress", "iter", "insert"}
  BY <1>1 DEF AnswerInv, CallStages
<1>3. c2s' = <<Msg(t, cur, 0)>> /\ DOMAIN c2s' = {1} /\ c2s'[1].type = t
  <2>1. c2s' = Append(<<>>, Msg(t, cur, 0))
    BY <1>1 DEF SendQuery
  <2>2. c2s' = <<Msg(t, cur, 0)>>
    BY <2>1
  <2> QED BY <2>2 DEF Msg
<1>4. \/ /\ kind[cur] = "execute" /\ stage' = "drain" /\ UNCHANGED <<cur, status>>
      \/ /\ kind[cur] = "insert" /\ stage' = "sample" /\ UNCHANGED <<cur, status>>
      \/ /\ kind[cur] \in {"iter", "progress"} /\ stage' = "idle"
         /\ \A q \in Call: status'[q] = IF q = cur THEN "live" ELSE status[q]
  BY <1>1, <1>2 DEF SendQuery, EndCall, IInv, TypeOK
<1>5. DOMAIN s2c' = {} /\ srv'.phase = "idle" /\ EndToCome'
  BY <1>1, <1>3 DEF EndToCome
<1>6. EndIsLast'
  BY <1>5 DEF EndIsLast
<1>7. CallStages'
  BY <1>1, <1>2, <1>4 DEF AnswerInv, CallStages
<1>8. LastQuerySent'
  BY <1>1, <1>2, <1>4 DEF LastQuerySent
<1>9. FlagMeansUnread'
  BY <1>1, <1>5 DEF FlagMeansUnread
<1>10. KindsMatch'
  BY <1>1, <1>2, <1>3, <1>4, <1>5 DEF KindsMatch
<1>11. InsertStages'
  BY <1>4, <1>5 DEF InsertStages
<1>12. BlocksNumbered'
  BY <1>1, <1>2, <1>4 DEF AnswerInv, BlocksNumbered, Kept
<1>13. Len(rows[cur]) = 0 /\ Len(answer[cur]) = 0
  BY <1>2
<1>14. AnswerOnTheWay'
  <2>1. OnTheWay(s2c', 0, 0)
    BY <1>5 DEF OnTheWay
  <2> QED BY <1>1, <1>13, <2>1 DEF AnswerOnTheWay
<1>15. ChunksOnTheWay'
  <2>1. \A i \in DOMAIN c2s': c2s'[i].type # "DATA"
    BY <1>3
  <2>2. OnTheWay(c2s', 0, 0)
    BY <2>1 DEF OnTheWay
  <2> QED BY <1>1, <1>13, <2>2 DEF ChunksOnTheWay
<1> QED BY <1>6, <1>7, <1>8, <1>9, <1>10, <1>11, <1>12, <1>14, <1>15 DEF AnswerInv

\* An INSERT sends a chunk, or the end of its data.
LEMMA SendDataAnswer ==
  ASSUME IInv, AnswerInv, TypeOK', SendChunk \/ SendEndOfData
  PROVE  AnswerInv'
<1> DEFINE m == Len(answer[cur])
           n == Len(rows[cur])
<1>1. /\ stage = "data" /\ stage' \in {"data", "eoq"} /\ cur \in Call /\ connected
      /\ UNCHANGED <<connected, executing, lastQuery, cur, kind, status, s2c, srv, answer>>
  BY DEF SendChunk, SendEndOfData, IInv, TypeOK, StageConnected
<1>2. /\ status[cur] = "running" /\ kind[cur] = "insert" /\ cur = lastQuery
      /\ srv.phase \in {"ingest", "closed"} /\ \A i \in DOMAIN s2c: s2c[i].type # "EOS"
  BY <1>1 DEF AnswerInv, CallStages, InsertStages
<1>3. /\ c2s \in Seq(ClientMsg) /\ s2c \in Seq(Packet)
      /\ rows[cur] \in Seq(Block) /\ answer[cur] \in Seq(Block)
  BY <1>1 DEF IInv, TypeOK, ServerTypeOK
<1>4. m \in Nat /\ n \in Nat
  BY <1>3
<1>5. \A i \in DOMAIN c2s: c2s[i].type \notin {"QUERY", "INSERT", "END_OF_DATA"}
  BY <1>1, <1>2 DEF AnswerInv, KindsMatch
<1>6. EndToCome /\ EndToCome'
  BY <1>1, <1>2 DEF EndToCome
<1>7. EndIsLast'
  BY <1>1, <1>6 DEF AnswerInv, EndIsLast
<1>8. LastQuerySent' /\ FlagMeansUnread'
  BY <1>1, <1>2, <1>6 DEF AnswerInv, LastQuerySent, FlagMeansUnread
<1>9. InsertStages'
  BY <1>1, <1>2 DEF InsertStages
<1>10. OnTheWay(c2s, m, n) /\ m <= n
  BY <1>1, <1>2, <1>6 DEF AnswerInv, ChunksOnTheWay, BlocksNumbered, Kept
<1>11. AnswerOnTheWay'
  BY <1>1, <1>2 DEF AnswerOnTheWay
<1>12. CASE SendChunk
  <2>1. n + 1 \in 0..MaxBlocks
    BY <1>4, <1>12, ConstantTypes DEF SendChunk
  <2> DEFINE e == Msg("DATA", cur, n + 1)
  <2>2. /\ stage' = "data" /\ c2s' = Append(c2s, e)
        /\ \A q \in Call: rows'[q] = IF q = cur THEN Append(rows[cur], Blk(cur, n + 1))
                                             ELSE rows[q]
    BY <1>1, <1>12 DEF SendChunk, IInv, TypeOK
  <2>3. e \in ClientMsg /\ e.type = "DATA" /\ e.n = n + 1 /\ e.call = cur
    BY <1>1, <2>1, MessageTypes DEF Msg, ClientMsgType
  <2> HIDE DEF e
  <2>4. /\ DOMAIN c2s' = DOMAIN c2s \cup {Len(c2s) + 1}
        /\ \A i \in DOMAIN c2s: c2s'[i] = c2s[i]
        /\ c2s'[Len(c2s) + 1] = e
    BY <1>3, <2>2, <2>3, AppendEntries
  <2>5. /\ DOMAIN rows'[cur] = DOMAIN rows[cur] \cup {n + 1}
        /\ \A i \in DOMAIN rows[cur]: rows'[cur][i] = rows[cur][i]
        /\ rows'[cur][n + 1] = Blk(cur, n + 1) /\ Len(rows'[cur]) = n + 1
    <3>1. Blk(cur, n + 1) \in Block
      BY <1>1, <2>1, MessageTypes
    <3>2. rows'[cur] = Append(rows[cur], Blk(cur, n + 1))
      BY <1>1, <2>2
    <3> QED BY <1>3, <3>1, <3>2, AppendEntries
  <2>6. CallStages'
    BY <1>1, <1>2, <2>2 DEF AnswerInv, CallStages
  <2>7. KindsMatch'
    BY <1>1, <1>2, <1>5, <2>2, <2>3, <2>4 DEF AnswerInv, KindsMatch
  <2>8. BlocksNumbered'
    <3> SUFFICES ASSUME NEW q \in Call
                 PROVE  /\ \A i \in DOMAIN answer[q]: answer[q][i] = Blk(q, i)
                        /\ Kept(q) =>
                             /\ \A i \in DOMAIN rows'[q]: rows'[q][i] = Blk(q, i)
                             /\ IF kind[q] = "insert" THEN Len(answer[q]) <= Len(rows'[q])
                                                      ELSE Len(rows'[q]) <= Len(answer[q])
                             /\ status[q] = "ok" => Len(rows'[q]) = Len(answer[q])
      BY <1>1 DEF BlocksNumbered, Kept
    <3>1. CASE q # cur
      BY <2>2, <3>1 DEF AnswerInv, BlocksNumbered
    <3>2. CASE q = cur
      <4>1. Kept(cur)
        BY <1>2 DEF Kept
      <4>2. \A i \in DOMAIN rows'[cur]: rows'[cur][i] = Blk(cur, i)
        BY <1>1, <2>5, <4>1 DEF AnswerInv, BlocksNumbered
      <4> QED BY <1>1, <1>2, <1>4, <1>10, <2>5, <3>2, <4>2 DEF AnswerInv, BlocksNumbered
    <3> QED BY <3>1, <3>2
  <2>9. ChunksOnTheWay'
    <3>1. OnTheWay(c2s', m, n + 1)
      BY <1>3, <1>4, <1>10, <2>2, <2>3, OnTheWaySend
    <3> QED BY <1>1, <1>2, <2>5, <3>1 DEF ChunksOnTheWay
  <2> QED BY <1>7, <1>8, <1>9, <1>11, <2>6, <2>7, <2>8, <2>9 DEF AnswerInv
<1>13. CASE SendEndOfData
  <2> DEFINE e == Msg("END_OF_DATA", cur, 0)
  <2>1. stage' = "eoq" /\ c2s' = Append(c2s, e) /\ rows' = rows
    BY <1>13 DEF SendEndOfData
  <2>2. e \in ClientMsg /\ e.type = "END_OF_DATA" /\ e.call = cur
    BY <1>1, MessageTypes, ConstantTypes DEF Msg, ClientMsgType
  <2> HIDE DEF e
  <2>3. /\ DOMAIN c2s' = DOMAIN c2s \cup {Len(c2s) + 1}
        /\ \A i \in DOMAIN c2s: c2s'[i] = c2s[i]
        /\ c2s'[Len(c2s) + 1] = e /\ Len(c2s') = Len(c2s) + 1
    BY <1>3, <2>1, <2>2, AppendEntries
  <2>4. CallStages'
    BY <1>1, <1>2, <2>1 DEF AnswerInv, CallStages
  <2>5. KindsMatch'
    BY <1>1, <1>2, <1>5, <2>1, <2>2, <2>3 DEF AnswerInv, KindsMatch
  <2>6. BlocksNumbered'
    BY <1>1, <2>1 DEF AnswerInv, BlocksNumbered, Kept
  <2>7. ChunksOnTheWay'
    <3>1. OnTheWay(c2s', m, n)
      BY <1>3, <1>4, <1>10, <2>1, <2>2, OnTheWayAppend
    <3> QED BY <1>1, <1>2, <2>1, <3>1 DEF ChunksOnTheWay
  <2> QED BY <1>7, <1>8, <1>9, <1>11, <2>4, <2>5, <2>6, <2>7 DEF AnswerInv
<1> QED BY <1>12, <1>13

LEMMA CallAnswer ==
  ASSUME IInv, AnswerInv, TypeOK', CallNext
  PROVE  AnswerInv'
<1>a. s2c \in Seq(Packet) /\ (stage # "idle" => cur \in Call)
  BY DEF IInv, TypeOK, ServerTypeOK
<1>b. s2c # <<>> => /\ Head(s2c) = s2c[1] /\ 1 \in DOMAIN s2c /\ Head(s2c) \in Packet
  BY <1>a, TailEntries
<1>c. s2c # <<>> /\ stage # "ping" => Head(s2c).type # "PONG"
  BY <1>b DEF IInv, PingIsLast
<1>1. CASE PingProgress
  <2>1. /\ stage = "ping" /\ s2c # <<>> /\ s2c' = Tail(s2c) /\ Head(s2c).type = "PROGRESS"
        /\ UNCHANGED <<connected, executing, lastQuery, stage, cur, kind, status, rows,
                       c2s, srv, answer>>
    BY <1>1 DEF PingProgress, clientVars
  <2> QED BY <2>1, ReceiveNoBlock
<1>2. CASE PingPong
  <2>1. /\ stage = "ping" /\ stage' = "send" /\ s2c # <<>> /\ s2c' = Tail(s2c)
        /\ s2c[1].type = "PONG"
        /\ UNCHANGED <<connected, executing, lastQuery, cur, kind, status, rows,
                       c2s, srv, answer>>
    BY <1>2, <1>b DEF PingPong
  <2>2. SendIsQuiet'
    BY <1>2, CallInvariant DEF CallNext, IInv
  <2>3. c2s' = <<>> /\ s2c' = <<>> /\ srv'.phase = "idle" /\ connected'
    BY <2>1, <2>2 DEF SendIsQuiet, IInv, StageConnected
  <2>4. ~EndToCome' /\ DOMAIN c2s' = {} /\ DOMAIN s2c' = {}
    BY <2>3 DEF EndToCome
  <2>5. EndIsLast' /\ FlagMeansUnread' /\ KindsMatch' /\ InsertStages'
        /\ AnswerOnTheWay' /\ ChunksOnTheWay'
    BY <2>1, <2>3, <2>4 DEF EndIsLast, FlagMeansUnread, KindsMatch, InsertStages,
                            AnswerOnTheWay, ChunksOnTheWay
  <2>6. CallStages' /\ LastQuerySent'
    BY <2>1, <2>4 DEF AnswerInv, CallStages, LastQuerySent
  <2>7. BlocksNumbered'
    BY <2>1 DEF AnswerInv, BlocksNumbered, Kept
  <2> QED BY <2>5, <2>6, <2>7 DEF AnswerInv
<1>3. CASE PingUnexpected
  BY <1>3, RaiseAnswer DEF PingUnexpected
<1>4. CASE PingLost
  BY <1>4, OfflineAnswer DEF PingLost
<1>5. CASE ConnectOk
  <2>1. /\ stage = "connect" /\ stage' = "send" /\ connected'
        /\ UNCHANGED <<executing, lastQuery, cur, kind, status, rows, c2s, s2c, srv, answer>>
    BY <1>5 DEF ConnectOk, serverVars
  <2>2. /\ EndToCome' <=> EndToCome
        /\ EndIsLast' /\ LastQuerySent' /\ KindsMatch' /\ InsertStages'
        /\ BlocksNumbered' /\ AnswerOnTheWay' /\ ChunksOnTheWay'
    BY <2>1, SignalStep
  <2>3. CallStages' /\ FlagMeansUnread'
    BY <2>1 DEF AnswerInv, CallStages, FlagMeansUnread
  <2> QED BY <2>2, <2>3 DEF AnswerInv
<1>6. CASE ConnectFailed
  <2>1. CASE tries + 1 < Len(hosts)
    BY <1>6, <2>1, OfflineAnswer DEF ConnectFailed
  <2>2. CASE ~(tries + 1 < Len(hosts))
    BY <1>6, <2>2, RaiseAnswer DEF ConnectFailed
  <2> QED BY <2>1, <2>2
<1>7. CASE ConnectRefused
  BY <1>7, RaiseAnswer DEF ConnectRefused
<1>8. CASE SendQuery
  BY <1>8, SendQueryAnswer
<1>9. CASE ReceiveSampleBlock
  <2>1. CASE RaiseAndDisconnect
    BY <1>9, <2>1, RaiseAnswer DEF ReceiveSampleBlock
  <2>2. CASE ~RaiseAndDisconnect
    <3>1. /\ stage = "sample" /\ s2c # <<>> /\ s2c' = Tail(s2c)
          /\ \/ Head(s2c).type = "DATA" /\ stage' = "data"
             \/ Head(s2c).type = "LOG" /\ stage' = stage
          /\ UNCHANGED <<connected, executing, lastQuery, cur, kind, status, rows,
                         c2s, srv, answer>>
      BY <1>9, <2>2 DEF ReceiveSampleBlock, SkippedByInsertLoops
    <3> QED BY <3>1, ReceiveNoBlock
  <2> QED BY <2>1, <2>2
<1>10. CASE SendChunk \/ SendEndOfData
  BY <1>10, SendDataAnswer
<1>11. CASE ReceiveEndOfQuery
  <2>1. CASE RaiseAndDisconnect
    BY <1>11, <2>1, RaiseAnswer DEF ReceiveEndOfQuery
  <2>2. CASE ~RaiseAndDisconnect /\ Head(s2c).type = "EOS"
    BY <1>11, <2>2, ReceiveEnd DEF ReceiveEndOfQuery, SkippedByInsertLoops
  <2>3. CASE ~RaiseAndDisconnect /\ Head(s2c).type # "EOS"
    <3>1. /\ stage = "eoq" /\ s2c # <<>> /\ s2c' = Tail(s2c) /\ Head(s2c).type = "LOG"
          /\ UNCHANGED <<connected, executing, lastQuery, stage, cur, kind, status, rows,
                         c2s, srv, answer>>
      BY <1>11, <2>3 DEF ReceiveEndOfQuery, SkippedByInsertLoops
    <3> QED BY <3>1, ReceiveNoBlock
  <2> QED BY <2>1, <2>2, <2>3
<1>12. CASE ReceiveYielded
  <2>1. /\ stage \in {"drain", "pull"} /\ s2c # <<>> /\ s2c' = Tail(s2c)
        /\ Head(s2c).type \in {"DATA", "PROGRESS"}
        /\ UNCHANGED <<stage, cur>> \/ (stage = "pull" /\ stage' = "idle")
        /\ UNCHANGED <<connected, executing, lastQuery, kind, status, c2s, srv, answer>>
    BY <1>12 DEF ReceiveYielded, YieldedByResultLoop
  <2>2. CASE Head(s2c).type = "DATA"
    <3>1. rows' = [rows EXCEPT ![cur] = Append(@, Blk(Head(s2c).call, Head(s2c).n))]
      BY <1>12, <2>2 DEF ReceiveYielded
    <3> QED BY <2>1, <2>2, <3>1, ReceiveBlock
  <2>3. CASE Head(s2c).type # "DATA"
    <3>1. rows' = rows /\ Head(s2c).type = "PROGRESS"
      BY <1>12, <2>1, <2>3 DEF ReceiveYielded
    <3> QED BY <2>1, <3>1, ReceiveNoBlock
  <2> QED BY <2>2, <2>3
<1>13. CASE ReceiveSkipped
  <2>1. /\ stage \in {"drain", "pull"} /\ s2c # <<>> /\ s2c' = Tail(s2c)
        /\ Head(s2c).type \in {"PROFILE_INFO", "LOG", "EVENTS"}
        /\ UNCHANGED <<connected, executing, lastQuery, stage, cur, kind, status, rows,
                       c2s, srv, answer>>
    BY <1>13 DEF ReceiveSkipped, clientVars, SkippedByResultLoop
  <2> QED BY <2>1, ReceiveNoBlock
<1>14. CASE ReceiveEndOfStream
  BY <1>14, ReceiveEnd DEF ReceiveEndOfStream
<1>15. CASE ReceiveError
  BY <1>15, RaiseAnswer DEF ReceiveError
<1>16. CASE Lost
  BY <1>16, RaiseAnswer DEF Lost, Reading
<1> QED BY <1>1, <1>2, <1>3, <1>4, <1>5, <1>6, <1>7, <1>8, <1>9, <1>10, <1>11,
           <1>12, <1>13, <1>14, <1>15, <1>16 DEF CallNext

-----------------------------------------------------------------------------
(* The invariant *)

LEMMA InitAnswer == Init => AnswerInv
<1> SUFFICES ASSUME Init PROVE AnswerInv
  OBVIOUS
<1>1. /\ c2s = <<>> /\ s2c = <<>> /\ srv.phase = "idle" /\ ~executing
      /\ lastQuery = NoCall /\ stage = "idle"
  BY DEF Init, ServerInit, IdleSession, Serving
<1>2. ~EndToCome /\ DOMAIN c2s = {} /\ DOMAIN s2c = {}
  BY <1>1 DEF EndToCome
<1>3. EndIsLast /\ FlagMeansUnread /\ KindsMatch /\ InsertStages
      /\ AnswerOnTheWay /\ ChunksOnTheWay
  BY <1>1, <1>2 DEF EndIsLast, FlagMeansUnread, KindsMatch, InsertStages,
                    AnswerOnTheWay, ChunksOnTheWay
<1>4. CallStages /\ LastQuerySent
  BY <1>1, <1>2, ConstantTypes DEF Init, ServerInit, CallStages, LastQuerySent
<1>5. BlocksNumbered
  BY DEF Init, ServerInit, BlocksNumbered, Kept
<1> QED BY <1>3, <1>4, <1>5 DEF AnswerInv

LEMMA StepAnswer == IInv /\ AnswerInv /\ [Next]_vars => AnswerInv'
<1> SUFFICES ASSUME IInv, AnswerInv, [Next]_vars PROVE AnswerInv'
  OBVIOUS
<1>1. TypeOK'
  BY StepTyping DEF IInv
<1>2. CASE UNCHANGED vars
  BY <1>2 DEF vars, clientVars, serverVars, AnswerInv, EndIsLast, EndToCome, CallStages,
              LastQuerySent, FlagMeansUnread, KindsMatch, InsertStages, BlocksNumbered,
              Kept, AnswerOnTheWay, ChunksOnTheWay, Cancelling
<1> QED BY <1>1, <1>2, AppAnswer, CallAnswer, ServerAnswer DEF Next

\* What AnswerInv says of answers on their way holds in every reachable state of
\* the client and its connection (client.py:138-604, connection.py:215-676).
THEOREM AnswersAreTracked == Spec => [](IInv /\ AnswerInv)
<1>1. Init => IInv /\ AnswerInv
  BY InitInvariant, InitAnswer
<1>2. IInv /\ AnswerInv /\ [Next]_vars => (IInv /\ AnswerInv)'
  BY StepInvariant, StepAnswer
<1> QED BY <1>1, <1>2, PTL DEF Spec

-----------------------------------------------------------------------------
(* What it says of each call *)

\* Sequences of the same length with the same entries are the same.
LEMMA SameEntries ==
  ASSUME NEW S, NEW a \in Seq(S), NEW b \in Seq(S), Len(a) = Len(b),
         \A i \in DOMAIN a: a[i] = b[i]
  PROVE  a = b
  OBVIOUS

\* The sink has the first blocks of the source, in order, and all of them when
\* the call has succeeded.
LEMMA SinkIsPrefix ==
  ASSUME IInv, AnswerInv, NEW q \in Call, Kept(q)
  PROVE  /\ kind[q] # "insert" =>
              /\ Len(rows[q]) <= Len(answer[q])
              /\ rows[q] = SubSeq(answer[q], 1, Len(rows[q]))
         /\ status[q] = "ok" => rows[q] = answer[q]
<1>1. rows[q] \in Seq(Block) /\ answer[q] \in Seq(Block)
  BY DEF IInv, TypeOK, ServerTypeOK
<1>2. /\ \A i \in DOMAIN rows[q]: rows[q][i] = Blk(q, i)
      /\ \A i \in DOMAIN answer[q]: answer[q][i] = Blk(q, i)
      /\ kind[q] # "insert" => Len(rows[q]) <= Len(answer[q])
      /\ status[q] = "ok" => Len(rows[q]) = Len(answer[q])
  BY DEF AnswerInv, BlocksNumbered
<1>3. ASSUME Len(rows[q]) = Len(answer[q]) PROVE rows[q] = answer[q]
  <2>1. \A i \in DOMAIN rows[q]: i \in DOMAIN answer[q]
    BY <1>1, <1>3
  <2> QED BY <1>1, <1>2, <1>3, <2>1, SameEntries
<1>4. ASSUME Len(rows[q]) <= Len(answer[q])
      PROVE  rows[q] = SubSeq(answer[q], 1, Len(rows[q]))
  <2> DEFINE p == SubSeq(answer[q], 1, Len(rows[q]))
  <2>1. p \in Seq(Block) /\ Len(p) = Len(rows[q])
    BY <1>1, <1>4
  <2>2. \A i \in DOMAIN rows[q]: p[i] = answer[q][i] /\ i \in DOMAIN answer[q]
    BY <1>1, <1>4
  <2> HIDE DEF p
  <2>3. rows[q] = p
    BY <1>1, <1>2, <2>1, <2>2, SameEntries
  <2> QED BY <2>3 DEF p
<1> QED BY <1>2, <1>3, <1>4

\* An execute() that returns has every block of its answer and no other, in
\* order; an INSERT that returns has had every chunk taken in: after any
\* history of refused calls, stale results, lost connections and cancels
\* (client.py:138-208, 509-598).
THEOREM AnswersAreComplete == Spec => []CompleteAnswer
<1>1. IInv /\ AnswerInv => CompleteAnswer
  BY SinkIsPrefix DEF CompleteAnswer, Kept
<1> QED BY <1>1, AnswersAreTracked, PTL

\* A result that streams yields the blocks of its own query, in order and
\* without a gap, and ends only after the last, if the application advances no
\* result whose query was superseded (client.py:154-179).
THEOREM StreamsAreComplete ==
  ASSUME ~PullStale
  PROVE  Spec => []StreamedAnswer
<1>1. IInv /\ AnswerInv => StreamedAnswer
  BY SinkIsPrefix DEF StreamedAnswer, Kept
<1> QED BY <1>1, AnswersAreTracked, PTL

\* A call is refused only when part of an answer really is unread
\* (connection.py:669-676).
THEOREM RefusedForAReason == Spec => []RefusalJustified
<1>1. IInv /\ AnswerInv => RefusalJustified
  <2> SUFFICES ASSUME IInv, AnswerInv, stage = "idle", executing
               PROVE  connected /\ Outstanding
    BY DEF RefusalJustified
  <2>1. connected /\ EndToCome
    BY DEF AnswerInv, FlagMeansUnread
  <2>2. EndToCome => Outstanding
    BY DEF EndToCome, Outstanding
  <2> QED BY <2>1, <2>2
<1> QED BY <1>1, AnswersAreTracked, PTL

\* Calls end normally by END_OF_STREAM only.
LEMMA OnlyTheEndEnds ==
  ASSUME IInv, AnswerInv, [Next]_vars,
         NEW q \in Call, status[q] # "ok", status'[q] = "ok"
  PROVE  s2c' = <<>> /\ srv'.phase = "idle"
<1>1. TypeOK'
  BY StepTyping DEF IInv
<1>2. status \in [Call -> Status] /\ (stage # "idle" => cur \in Call)
  BY DEF IInv, TypeOK
<1>3. status' # status
  OBVIOUS
<1>4. ~AppNext
  <2>1. /\ \A p \in Call, k \in Kinds: ~Refuse(p, k) /\ ~ForceConnect(p, k)
        /\ \A p \in Call, k \in Kinds \cup {"cancel"}: ~FailAtOnce(p, k)
    BY <1>2 DEF Refuse, ForceConnect, FailAtOnce
  <2>2. \A p \in Call: ~Cancel(p) /\ ~Pull(p) /\ ~Abandon(p)
    BY <1>2 DEF Cancel, Pull, Abandon
  <2>3. ~AppDisconnect
    BY <1>3 DEF AppDisconnect
  <2> QED BY <2>1, <2>2, <2>3 DEF AppNext
<1>5. ~(ServerNext /\ UNCHANGED clientVars) /\ ~UNCHANGED vars
  BY <1>3 DEF clientVars, vars
<1>6. stage # "idle" => ~RaiseAndDisconnect
  BY <1>2 DEF RaiseAndDisconnect, EndCall
<1>7. ReceiveEndOfQuery \/ ReceiveEndOfStream
  <2>1. CallNext
    BY <1>4, <1>5 DEF Next
  <2>2. ~PingProgress /\ ~PingPong /\ ~PingUnexpected /\ ~PingLost
    BY <1>3, <1>6 DEF PingProgress, PingPong, PingUnexpected, PingLost, clientVars
  <2>3. ~ConnectOk /\ ~ConnectFailed /\ ~ConnectRefused
    BY <1>3, <1>6 DEF ConnectOk, ConnectFailed, ConnectRefused
  <2>4. ~SendQuery
    BY <1>2 DEF SendQuery, EndCall
  <2>5. ~ReceiveSampleBlock /\ ~SendChunk /\ ~SendEndOfData
    BY <1>3, <1>6 DEF ReceiveSampleBlock, SendChunk, SendEndOfData
  <2>6. ~ReceiveYielded /\ ~ReceiveSkipped /\ ~ReceiveError /\ ~Lost
    BY <1>3, <1>6 DEF ReceiveYielded, ReceiveSkipped, ReceiveError, Lost, clientVars, Reading
  <2> QED BY <2>1, <2>2, <2>3, <2>4, <2>5, <2>6 DEF CallNext
<1>8. CASE ReceiveEndOfQuery
  <2>1. Head(s2c).type = "EOS"
    BY <1>3, <1>6, <1>8 DEF ReceiveEndOfQuery
  <2> QED BY <1>1, <1>6, <1>8, <2>1, ReceiveEnd DEF ReceiveEndOfQuery, SkippedByInsertLoops
<1>9. CASE ReceiveEndOfStream
  BY <1>1, <1>9, ReceiveEnd DEF ReceiveEndOfStream
<1> QED BY <1>7, <1>8, <1>9

\* When a call or a result ends normally nothing is left on the connection for
\* the next query to trip over (client.py:578-604, 165-179).
THEOREM EndsLeaveQuiet == Spec => CompletionLeavesQuiet
<1>1. IInv /\ AnswerInv /\ [Next]_vars =>
        [(\E q \in Call: status[q] # "ok" /\ status'[q] = "ok")
           => s2c' = <<>> /\ srv'.phase = "idle"]_vars
  BY OnlyTheEndEnds
<1> QED BY <1>1, AnswersAreTracked, PTL DEF Spec, CompletionLeavesQuiet

-----------------------------------------------------------------------------
(* Why a query is refused *)

\* A step after which the flag is down, or which only moves the running call on.
LEMMA RefusalSteps ==
  ASSUME IInv, RefusalInv, TypeOK', cur' \in {cur, NoCall}, stage # "idle",
         \A q \in Call: status'[q] = status[q] \/ q = cur,
         \A q \in Call: status'[q] = "none" <=> status[q] = "none",
         \/ ~executing'
         \/ /\ UNCHANGED <<executing, lastQuery, status>>
            /\ stage \in {"connect", "ping", "send"} <=> stage' \in {"connect", "ping", "send"}
            /\ stage = "drain" => stage' = "drain" /\ cur' = cur,
         stage' \in {"connect", "ping", "send"} => stage \in {"connect", "ping", "send"} /\ cur' = cur
  PROVE  RefusalInv'
<1>1. StartedInOrder'
  BY DEF RefusalInv, StartedInOrder
<1>2. NewestConnects'
  BY DEF RefusalInv, NewestConnects
<1>3. FailedSinceLastQuery'
  BY DEF RefusalInv, FailedSinceLastQuery
<1> QED BY <1>1, <1>2, <1>3 DEF RefusalInv

\* The running call raises: the flag is down.
LEMMA RefusalRaise ==
  ASSUME IInv, RefusalInv, TypeOK', RaiseAndDisconnect, stage # "idle"
  PROVE  RefusalInv'
<1>1. ~executing' /\ stage' = "idle" /\ cur' = NoCall
  BY DEF RaiseAndDisconnect, ClientDisconnect, Disconnect, EndCall
<1>2. cur \in Call /\ status[cur] # "none"
  BY DEF IInv, TypeOK, ReadersAreOwners
<1>3. \A q \in Call: status'[q] = IF q = cur THEN "error" ELSE status[q]
  BY DEF RaiseAndDisconnect, EndCall, IInv, TypeOK
<1> QED BY <1>1, <1>2, <1>3, RefusalSteps

LEMMA AppRefusal ==
  ASSUME IInv, RefusalInv, TypeOK', AppNext
  PROVE  RefusalInv'
<1> USE DEF RefusalInv
<1>a. status \in [Call -> Status] /\ Call \subseteq Nat
  BY ConstantTypes DEF IInv, TypeOK
<1>b. ASSUME NEW q \in Call, Fresh(q), NEW s \in Status \ {"none"},
             status' = [status EXCEPT ![q] = s]
      PROVE  /\ StartedInOrder' /\ stage = "idle"
             /\ \A p \in Call: p > q => status'[p] = "none"
             /\ \A p \in Call: p # q => status'[p] = status[p]
             /\ status'[q] = s
  <2>1. \A p \in Call: p # q => status'[p] = status[p]
    BY <1>a, <1>b
  <2>2. status'[q] = s /\ status[q] = "none" /\ stage = "idle"
    BY <1>a, <1>b DEF Fresh
  <2>3. \A p \in Call: p > q => status[p] = "none"
    BY <1>a, <2>2 DEF StartedInOrder
  <2>4. StartedInOrder'
    BY <1>a, <1>b, <2>1, <2>2, <2>3 DEF StartedInOrder, Fresh
  <2> QED BY <1>a, <2>1, <2>2, <2>3, <2>4
<1>1. ASSUME NEW q \in Call, NEW k \in Kinds, Refuse(q, k) PROVE RefusalInv'
  <2>1. ~executing' /\ UNCHANGED stage /\ Fresh(q)
        /\ status' = [status EXCEPT ![q] = "refused"]
    BY <1>1 DEF Refuse, ClientDisconnect, Disconnect
  <2>2. StartedInOrder' /\ stage = "idle"
    BY <2>1, <1>b DEF Status
  <2> QED BY <2>1, <2>2 DEF NewestConnects, FailedSinceLastQuery
<1>2. ASSUME NEW q \in Call, NEW k \in Kinds, ForceConnect(q, k) PROVE RefusalInv'
  <2>1. stage' \in {"connect", "ping"} /\ cur' = q /\ Fresh(q)
        /\ status' = [status EXCEPT ![q] = "running"]
    BY <1>2 DEF ForceConnect
  <2>2. StartedInOrder' /\ \A p \in Call: p > q => status'[p] = "none"
    BY <2>1, <1>b DEF Status
  <2> QED BY <2>1, <2>2 DEF NewestConnects, FailedSinceLastQuery
<1>3. ASSUME NEW q \in Call, NEW k \in Kinds \cup {"cancel"}, FailAtOnce(q, k)
      PROVE  RefusalInv'
  <2>1. UNCHANGED <<executing, lastQuery, stage, cur>> /\ Fresh(q)
        /\ status' = [status EXCEPT ![q] = "error"]
    BY <1>3 DEF FailAtOnce
  <2>2. /\ StartedInOrder' /\ stage = "idle" /\ status'[q] = "error"
        /\ \A p \in Call: p # q => status'[p] = status[p]
    BY <2>1, <1>b DEF Status
  <2> QED BY <2>1, <2>2 DEF NewestConnects, FailedSinceLastQuery
<1>4. ASSUME NEW q \in Call, Cancel(q) PROVE RefusalInv'
  <2>1. UNCHANGED <<executing, lastQuery>> /\ stage' = "drain" /\ cur' = q /\ Fresh(q)
        /\ status' = [status EXCEPT ![q] = "running"]
    BY <1>4 DEF Cancel
  <2>2. /\ StartedInOrder' /\ stage = "idle"
        /\ \A p \in Call: p # q => status'[p] = status[p]
    BY <2>1, <1>b DEF Status
  <2> QED BY <2>1, <2>2 DEF NewestConnects, FailedSinceLastQuery
<1>5. ASSUME NEW q \in Call, Pull(q) \/ Abandon(q) PROVE RefusalInv'
  <2>1. /\ UNCHANGED <<executing, lastQuery>> /\ stage = "idle" /\ stage' \in {"idle", "pull"}
        /\ status[q] = "live"
        /\ status' = status \/ status' = [status EXCEPT ![q] = "closed"]
    BY <1>5 DEF Pull, Abandon
  <2>2. \A p \in Call: status'[p] = status[p] \/ (p = q /\ status'[p] = "closed")
    BY <1>a, <2>1
  <2>3. StartedInOrder'
    BY <2>1, <2>2 DEF StartedInOrder
  <2>4. NewestConnects'
    BY <2>1 DEF NewestConnects
  <2>5. FailedSinceLastQuery'
    BY <2>1, <2>2 DEF FailedSinceLastQuery
  <2> QED BY <2>3, <2>4, <2>5
<1>6. CASE AppDisconnect
  <2>1. ~executing' /\ stage' = "idle" /\ status' = status
    BY <1>6 DEF AppDisconnect, ClientDisconnect, Disconnect
  <2> QED BY <2>1 DEF StartedInOrder, NewestConnects, FailedSinceLastQuery
<1> QED BY <1>1, <1>2, <1>3, <1>4, <1>5, <1>6 DEF AppNext

LEMMA CallRefusal ==
  ASSUME IInv, RefusalInv, TypeOK', CallNext
  PROVE  RefusalInv'
<1>a. /\ status \in [Call -> Status] /\ Call \subseteq Nat
      /\ stage # "idle" => cur \in Call /\ status[cur] # "none"
  BY ConstantTypes DEF IInv, TypeOK, ReadersAreOwners
<1>b. stage # "idle"
  BY DEF CallNext, PingProgress, PingPong, PingUnexpected, PingLost, ConnectOk,
         ConnectFailed, ConnectRefused, SendQuery, ReceiveSampleBlock, SendChunk,
         SendEndOfData, ReceiveEndOfQuery, ReceiveYielded, ReceiveSkipped,
         ReceiveEndOfStream, ReceiveError, Lost, Reading
<1>1. CASE RaiseAndDisconnect
  BY <1>1, <1>b, RefusalRaise
<1>2. CASE EndCall("ok") /\ ~executing'
  <2>1. \A q \in Call: status'[q] = IF q = cur THEN "ok" ELSE status[q]
    BY <1>2, <1>a DEF EndCall
  <2> QED BY <1>2, <1>a, <1>b, <2>1, RefusalSteps DEF EndCall
<1>3. CASE PingProgress \/ PingPong \/ PingLost \/ ConnectOk
  <2>1. /\ stage \in {"ping", "connect"} /\ stage' \in {"ping", "send", "connect"}
        /\ UNCHANGED <<lastQuery, status, cur>> /\ (UNCHANGED executing \/ ~executing')
    BY <1>3 DEF PingProgress, PingPong, PingLost, ConnectOk, Disconnect, clientVars
  <2> QED BY <2>1, RefusalSteps
<1>4. CASE ConnectFailed /\ ~RaiseAndDisconnect
  <2>1. stage = "connect" /\ UNCHANGED <<stage, status, cur>> /\ ~executing'
    BY <1>4 DEF ConnectFailed, Disconnect
  <2> QED BY <2>1, RefusalSteps
<1>5. CASE SendQuery
  <2>1. /\ stage = "send" /\ lastQuery' = cur
        /\ \/ stage' \in {"drain", "sample"} /\ UNCHANGED <<cur, status>>
           \/ stage' = "idle" /\ status' = [status EXCEPT ![cur] = "live"]
    BY <1>5 DEF SendQuery, EndCall
  <2>2. \A q \in Call: status'[q] = status[q] \/ (q = cur /\ status'[q] = "live")
    BY <1>a, <2>1
  <2>3. StartedInOrder'
    BY <1>a, <2>1, <2>2 DEF RefusalInv, StartedInOrder
  <2>4. \A q \in Call: q > cur => status'[q] = "none"
    BY <1>a, <2>1, <2>2 DEF RefusalInv, NewestConnects
  <2>5. NewestConnects' /\ FailedSinceLastQuery'
    BY <2>1, <2>4 DEF NewestConnects, FailedSinceLastQuery
  <2> QED BY <2>3, <2>5 DEF RefusalInv
<1>6. CASE SendChunk \/ SendEndOfData
  <2>1. /\ stage = "data" /\ stage' \in {"data", "eoq"}
        /\ UNCHANGED <<executing, lastQuery, status, cur>>
    BY <1>6 DEF SendChunk, SendEndOfData
  <2> QED BY <2>1, RefusalSteps
<1>7. CASE \/ ReceiveSampleBlock /\ ~RaiseAndDisconnect
           \/ ReceiveEndOfQuery /\ ~RaiseAndDisconnect /\ ~(EndCall("ok") /\ ~executing')
  <2>1. /\ stage \in {"sample", "eoq"} /\ stage' \in {"sample", "data", "eoq"}
        /\ UNCHANGED <<executing, lastQuery, status, cur>>
    BY <1>7 DEF ReceiveSampleBlock, ReceiveEndOfQuery
  <2> QED BY <2>1, RefusalSteps
<1>8. CASE ReceiveYielded \/ ReceiveSkipped
  <2>1. /\ stage \in {"drain", "pull"}
        /\ stage = "drain" => stage' = "drain" /\ cur' = cur
        /\ stage' \in {"drain", "pull", "idle"} /\ cur' \in {cur, NoCall}
        /\ UNCHANGED <<executing, lastQuery, status>>
    BY <1>8 DEF ReceiveYielded, ReceiveSkipped, clientVars
  <2> QED BY <2>1, RefusalSteps
<1>9. CASE ReceiveEndOfStream
  BY <1>2, <1>9 DEF ReceiveEndOfStream
<1>10. PingUnexpected \/ ConnectRefused \/ ReceiveError \/ Lost => RaiseAndDisconnect
  BY DEF PingUnexpected, ConnectRefused, ReceiveError, Lost
<1> QED BY <1>1, <1>2, <1>3, <1>4, <1>5, <1>6, <1>7, <1>8, <1>9, <1>10 DEF CallNext

\* The flag tells of nothing but the last query, whatever failed since
\* (client.py:231-245, 600-604, connection.py:669-676).
LEMMA RefusalsTracked == Spec => [](IInv /\ AnswerInv /\ RefusalInv)
<1>1. Init => RefusalInv
  BY DEF Init, RefusalInv, StartedInOrder, NewestConnects, FailedSinceLastQuery
<1>2. IInv /\ RefusalInv /\ [Next]_vars => RefusalInv'
  <2> SUFFICES ASSUME IInv, RefusalInv, [Next]_vars PROVE RefusalInv'
    OBVIOUS
  <2>1. TypeOK'
    BY StepTyping DEF IInv
  <2>2. CASE UNCHANGED clientVars
    BY <2>2 DEF clientVars, RefusalInv, StartedInOrder, NewestConnects, FailedSinceLastQuery
  <2> QED BY <2>1, <2>2, AppRefusal, CallRefusal DEF Next, vars
<1> QED BY <1>1, <1>2, AnswersAreTracked, PTL DEF Spec

\* Only a query that finds the flag is refused.
LEMMA OnlyTheFlagRefuses ==
  ASSUME IInv, [Next]_vars, NEW q \in Call, status[q] # "refused", status'[q] = "refused"
  PROVE  Fresh(q) /\ executing
<1>1. status \in [Call -> Status]
  BY DEF IInv, TypeOK
<1>2. CASE AppNext
  <2>1. ASSUME NEW p \in Call, NEW k \in Kinds, Refuse(p, k) PROVE Fresh(q) /\ executing
    <3>1. Fresh(p) /\ executing /\ status' = [status EXCEPT ![p] = "refused"]
      BY <2>1 DEF Refuse
    <3>2. p = q
      BY <1>1, <3>1
    <3> QED BY <3>1, <3>2
  <2>2. \A p \in Call, k \in Kinds: ~ForceConnect(p, k)
    BY <1>1 DEF ForceConnect
  <2>3. \A p \in Call, k \in Kinds \cup {"cancel"}: ~FailAtOnce(p, k)
    BY <1>1 DEF FailAtOnce
  <2>4. \A p \in Call: ~Cancel(p) /\ ~Pull(p) /\ ~Abandon(p)
    BY <1>1 DEF Cancel, Pull, Abandon
  <2>5. ~AppDisconnect
    BY DEF AppDisconnect
  <2> QED BY <1>2, <2>1, <2>2, <2>3, <2>4, <2>5 DEF AppNext
<1>3. CASE CallNext
  <2>1. status' = status \/ \E s \in {"ok", "error", "live"}: EndCall(s)
    BY <1>3 DEF CallNext, PingProgress, PingPong, PingUnexpected, PingLost, ConnectOk,
                ConnectFailed, ConnectRefused, SendQuery, ReceiveSampleBlock, SendChunk,
                SendEndOfData, ReceiveEndOfQuery, ReceiveYielded, ReceiveSkipped,
                ReceiveEndOfStream, ReceiveError, Lost, RaiseAndDisconnect, clientVars
  <2> QED BY <1>1, <2>1 DEF EndCall
<1>4. CASE UNCHANGED clientVars
  BY <1>4 DEF clientVars
<1> QED BY <1>2, <1>3, <1>4 DEF Next, vars

\* A query is refused only because of a result that streams, is the last query's
\* and was not read to its end; what failed since leaves no flag behind
\* (client.py:177-179, 231-245, 600-604, connection.py:669-676).
THEOREM RefusedForAStream == Spec => RefusedForUnreadResult
<1>1. ASSUME IInv, AnswerInv, RefusalInv, [Next]_vars,
             NEW q \in Call, status[q] # "refused", status'[q] = "refused"
      PROVE  \E p \in 1..q - 1:
               /\ p = lastQuery /\ status[p] \in {"live", "closed"}
               /\ \A r \in p + 1..q - 1: status[r] = "error"
  <2>1. Fresh(q) /\ executing
    BY <1>1, OnlyTheFlagRefuses
  <2>2. stage = "idle" /\ status[q] = "none"
    BY <2>1 DEF Fresh
  <2>3. lastQuery \in Call /\ status[lastQuery] \in {"live", "closed"}
    BY <1>1, <2>1, <2>2 DEF AnswerInv, FlagMeansUnread, LastQuerySent, CallStages
  <2>4. lastQuery \in 1..q - 1
    <3>1. ~(q < lastQuery) /\ q # lastQuery
      BY <1>1, <2>2, <2>3 DEF RefusalInv, StartedInOrder
    <3> QED BY <2>3, <3>1, BoundsAssumption DEF Call
  <2>5. ASSUME NEW r \in lastQuery + 1..q - 1 PROVE status[r] = "error"
    <3>1. r \in Call /\ r > lastQuery /\ r < q
      BY <2>4, <2>5, BoundsAssumption DEF Call
    <3>2. status[r] # "none"
      BY <2>1, <3>1 DEF Fresh
    <3> QED BY <1>1, <2>1, <2>2, <3>1, <3>2 DEF RefusalInv, FailedSinceLastQuery
  <2> QED BY <2>3, <2>4, <2>5
<1>2. IInv /\ AnswerInv /\ RefusalInv /\ [Next]_vars =>
        [\A q \in Call: status[q] # "refused" /\ status'[q] = "refused"
           => \E p \in 1..q - 1:
                /\ p = lastQuery /\ status[p] \in {"live", "closed"}
                /\ \A r \in p + 1..q - 1: status[r] = "error"]_vars
  BY <1>1
<1> QED BY <1>2, RefusalsTracked, PTL DEF Spec, RefusedForUnreadResult

-----------------------------------------------------------------------------
(* Every call keeps its contract *)

\* The source and the sink of a call depend on its kind, which is fixed before
\* it has any block.
LEMMA ContractEnds ==
  /\ Contract!Call = Call
  /\ DOMAIN ContractSource = Call /\ DOMAIN ContractSink = Call
  /\ \A q \in Call:
       /\ ContractSource[q] = IF kind[q] = "insert" THEN rows[q] ELSE answer[q]
       /\ ContractSink[q] = IF kind[q] = "insert" THEN answer[q]
                            ELSE IF kind[q] = "cancel" THEN <<>> ELSE rows[q]
BY DEF ContractSource, ContractSink, Inserting, Contract!Call, Call

\* A step that moves no block and changes the status of one call.
LEMMA ContractChange ==
  ASSUME IInv, AnswerInv, UNCHANGED <<rows, answer>>, NEW q \in Call, NEW s,
         status' = [status EXCEPT ![q] = s], status[q] # "ok",
         s \in {"running", "live", "closed", "error", "refused"},
         kind' = kind \/ (status[q] = "none" /\ \E k: kind' = [kind EXCEPT ![q] = k])
  PROVE  Contract!Next
<1>1. \A p \in Call: kind'[p] = kind[p] \/ (rows[p] = <<>> /\ answer[p] = <<>>)
  BY FreshIsEmpty DEF IInv, TypeOK
<1>2. ContractSource' = ContractSource /\ ContractSink' = ContractSink
  BY <1>1 DEF ContractSource, ContractSink, Inserting
<1>3. Contract!Change(q, s)
  BY <1>2 DEF Contract!Change, Contract!Started
<1> QED BY <1>3, ContractEnds DEF Contract!Next, Contract!Started

\* A step that touches no block and no status.
LEMMA ContractStutter ==
  ASSUME UNCHANGED <<kind, status, rows, answer>>
  PROVE  UNCHANGED Contract!vars
BY DEF Contract!vars, ContractSource, ContractSink, Inserting

\* The running call raises.
LEMMA ContractRaise ==
  ASSUME IInv, AnswerInv, RaiseAndDisconnect, stage # "idle"
  PROVE  Contract!Next
<1>1. cur \in Call /\ status[cur] # "ok"
  BY DEF IInv, TypeOK, AnswerInv, CallStages, Stage
<1> QED BY <1>1, ContractChange DEF RaiseAndDisconnect, EndCall

\* A block appears at the source of a call (SendBlock, SendChunk).
LEMMA ContractPut ==
  ASSUME IInv, AnswerInv, AnswerInv', UNCHANGED <<kind, status>>, NEW q \in Call,
         status[q] \in {"running", "live", "closed"}, NEW b \in Block,
         \/ /\ kind[q] = "insert" /\ Len(rows[q]) < MaxBlocks
            /\ rows' = [rows EXCEPT ![q] = Append(@, b)] /\ answer' = answer
         \/ /\ kind[q] \notin {"insert", "cancel"} /\ Len(answer[q]) < MaxBlocks
            /\ answer' = [answer EXCEPT ![q] = Append(@, b)] /\ rows' = rows
  PROVE  Contract!Next
<1> DEFINE src == ContractSource[q]
<1>1. rows \in [Call -> Seq(Block)] /\ answer \in [Call -> Seq(Block)]
  BY DEF IInv, TypeOK, ServerTypeOK
<1>2. /\ src \in Seq(Block) /\ Len(src) < MaxBlocks
      /\ ContractSource'[q] = Append(src, b)
      /\ \A p \in Call: p # q => ContractSource'[p] = ContractSource[p]
      /\ DOMAIN ContractSource' = Call
  BY <1>1 DEF ContractSource, Inserting
<1>3. ContractSink' = ContractSink
  BY <1>1 DEF ContractSink, Inserting
<1>4. b = [call |-> q, n |-> Len(src) + 1]
  <2>1. \A i \in DOMAIN ContractSource'[q]: ContractSource'[q][i] = Blk(q, i)
    BY DEF AnswerInv, BlocksNumbered, Kept, ContractSource, Inserting
  <2>2. Len(src) + 1 \in DOMAIN Append(src, b) /\ Append(src, b)[Len(src) + 1] = b
    BY <1>2, AppendEntries
  <2> QED BY <1>2, <2>1, <2>2 DEF Blk
<1>5. ContractSource' = [ContractSource EXCEPT ![q] = Append(@, [call |-> q, n |-> Len(@) + 1])]
  <2>1. ContractSource = [p \in Call |-> ContractSource[p]]
        /\ ContractSource' = [p \in Call |-> ContractSource'[p]]
    BY DEF ContractSource
  <2> QED BY <1>2, <1>4, <2>1
<1>6. Contract!Put(q)
  BY <1>2, <1>3, <1>5 DEF Contract!Put, Contract!Started
<1> QED BY <1>6, ContractEnds DEF Contract!Next

\* The next block reaches the sink of a call (ReceiveYielded, TakeChunk).
LEMMA ContractTake ==
  ASSUME IInv, AnswerInv, AnswerInv', UNCHANGED <<kind, status>>, NEW q \in Call,
         status[q] \in {"running", "live", "closed"}, NEW b \in Block, Kept(q),
         \/ /\ kind[q] = "insert"
            /\ answer' = [answer EXCEPT ![q] = Append(@, b)] /\ rows' = rows
         \/ /\ kind[q] \notin {"insert", "cancel"}
            /\ rows' = [rows EXCEPT ![q] = Append(@, b)] /\ answer' = answer
  PROVE  Contract!Next
<1> DEFINE src == ContractSource[q]
           snk == ContractSink[q]
<1>1. rows \in [Call -> Seq(Block)] /\ answer \in [Call -> Seq(Block)]
  BY DEF IInv, TypeOK, ServerTypeOK
<1>2. /\ snk \in Seq(Block) /\ src \in Seq(Block)
      /\ ContractSink'[q] = Append(snk, b)
      /\ \A p \in Call: p # q => ContractSink'[p] = ContractSink[p]
  BY <1>1 DEF ContractSource, ContractSink, Inserting
<1>3. ContractSource' = ContractSource
  BY <1>1 DEF ContractSource, Inserting
<1>4. Len(Append(snk, b)) <= Len(src)
  BY <1>1 DEF AnswerInv, BlocksNumbered, Kept, ContractSource, ContractSink, Inserting
<1>5. /\ \A i \in DOMAIN Append(snk, b): Append(snk, b)[i] = Blk(q, i)
      /\ \A i \in DOMAIN src: src[i] = Blk(q, i)
  <2>1. \A i \in DOMAIN ContractSink'[q]: ContractSink'[q][i] = Blk(q, i)
    BY DEF AnswerInv, BlocksNumbered, Kept, ContractSink, Inserting
  <2>2. \A i \in DOMAIN src: src[i] = Blk(q, i)
    BY DEF AnswerInv, BlocksNumbered, Kept, ContractSource, Inserting
  <2> QED BY <1>2, <2>1, <2>2
<1>6. b = src[Len(snk) + 1] /\ Len(snk) < Len(src)
  <2>1. /\ Len(snk) + 1 \in DOMAIN Append(snk, b) /\ Append(snk, b)[Len(snk) + 1] = b
        /\ Len(Append(snk, b)) = Len(snk) + 1 /\ Len(snk) \in Nat
    BY <1>2, AppendEntries
  <2>2. Len(snk) + 1 \in DOMAIN src
    BY <1>2, <1>4, <2>1
  <2> QED BY <1>2, <1>4, <1>5, <2>1, <2>2
<1>7. ContractSink' = [ContractSink EXCEPT ![q] = Append(@, ContractSource[q][Len(@) + 1])]
  <2>1. ContractSink = [p \in Call |-> ContractSink[p]]
        /\ ContractSink' = [p \in Call |-> ContractSink'[p]]
    BY DEF ContractSink
  <2> QED BY <1>2, <1>6, <2>1
<1>8. Contract!Take(q)
  BY <1>3, <1>6, <1>7 DEF Contract!Take, Contract!Started
<1> QED BY <1>8, ContractEnds DEF Contract!Next

\* A call succeeds: END_OF_STREAM finds every block at its sink.
LEMMA ContractSucceed ==
  ASSUME ~PullStale, IInv, AnswerInv, AnswerInv', UNCHANGED <<kind, rows, answer>>,
         EndCall("ok"), stage \in {"eoq", "drain", "pull"}
  PROVE  Contract!Next
<1>1. cur \in Call /\ status[cur] \in {"running", "live"}
  BY DEF IInv, TypeOK, AnswerInv, CallStages
<1>2. status' = [status EXCEPT ![cur] = "ok"] /\ status'[cur] = "ok"
  BY <1>1 DEF EndCall, IInv, TypeOK
<1>3. ContractSource' = ContractSource /\ ContractSink' = ContractSink
  BY DEF ContractSource, ContractSink, Inserting
<1>4. ContractSink[cur] = ContractSource[cur]
  <2>1. CASE kind[cur] = "cancel"
    BY <1>1, <2>1, ContractEnds DEF AnswerInv, CallStages
  <2>2. CASE kind[cur] # "cancel"
    <3>1. kind[cur] \in {"execute", "insert", "iter", "progress"}
      BY <1>1, <2>2 DEF AnswerInv, CallStages
    <3>2. rows[cur] \in Seq(Block) /\ answer[cur] \in Seq(Block)
      BY <1>1 DEF IInv, TypeOK, ServerTypeOK
    <3>3. /\ \A i \in DOMAIN rows[cur]: rows[cur][i] = Blk(cur, i)
          /\ \A i \in DOMAIN answer[cur]: answer[cur][i] = Blk(cur, i)
          /\ Len(rows[cur]) = Len(answer[cur])
      BY <1>1, <1>2, <3>1 DEF AnswerInv, BlocksNumbered, Kept
    <3>4. \A i \in DOMAIN rows[cur]: i \in DOMAIN answer[cur]
      BY <3>2, <3>3
    <3>5. rows[cur] = answer[cur]
      BY <3>2, <3>3, <3>4, SameEntries
    <3> QED BY <1>1, <2>2, <3>5, ContractEnds
  <2> QED BY <2>1, <2>2
<1>5. Contract!Succeed(cur)
  BY <1>1, <1>2, <1>3, <1>4 DEF Contract!Succeed, Contract!Started
<1> QED BY <1>1, <1>5, ContractEnds DEF Contract!Next

LEMMA AppContract ==
  ASSUME IInv, AnswerInv, AppNext
  PROVE  [Contract!Next]_Contract!vars
<1>1. ASSUME NEW q \in Call, NEW k \in Kinds \cup {"cancel"},
             Refuse(q, k) \/ ForceConnect(q, k) \/ FailAtOnce(q, k)
      PROVE  Contract!Next
  <2>1. /\ status[q] = "none" /\ kind' = [kind EXCEPT ![q] = k] /\ UNCHANGED <<rows, answer>>
        /\ \E s \in {"running", "refused", "error"}: status' = [status EXCEPT ![q] = s]
    BY <1>1 DEF Refuse, ForceConnect, FailAtOnce, Fresh, serverVars
  <2> QED BY <2>1, ContractChange
<1>2. ASSUME NEW q \in Call, Cancel(q) \/ Abandon(q)
      PROVE  Contract!Next
  <2>1. /\ UNCHANGED <<rows, answer>> /\ status[q] \in {"none", "live"}
        /\ \/ kind' = kind
           \/ status[q] = "none" /\ kind' = [kind EXCEPT ![q] = "cancel"]
        /\ \E s \in {"running", "closed"}: status' = [status EXCEPT ![q] = s]
    BY <1>2 DEF Cancel, Abandon, Fresh, serverVars
  <2> QED BY <2>1, ContractChange
<1>3. ASSUME NEW q \in Call, Pull(q) PROVE UNCHANGED Contract!vars
  BY <1>3, ContractStutter DEF Pull, serverVars
<1>4. CASE AppDisconnect
  BY <1>4, ContractStutter DEF AppDisconnect
<1> QED BY <1>1, <1>2, <1>3, <1>4 DEF AppNext

LEMMA RunningContract ==
  ASSUME ~PullStale, IInv, AnswerInv, AnswerInv', CallNext
  PROVE  [Contract!Next]_Contract!vars
<1>1. CASE RaiseAndDisconnect /\ stage # "idle"
  BY <1>1, ContractRaise
<1>2. CASE PingProgress \/ PingPong \/ PingLost \/ ConnectOk \/ SendEndOfData \/ ReceiveSkipped
  BY <1>2, ContractStutter
     DEF PingProgress, PingPong, PingLost, ConnectOk, SendEndOfData, ReceiveSkipped,
         clientVars, serverVars
<1>3. CASE PingUnexpected \/ ConnectRefused \/ ReceiveError \/ Lost
  BY <1>1, <1>3 DEF PingUnexpected, ConnectRefused, ReceiveError, Lost, Reading
<1>4. CASE ConnectFailed
  <2>1. CASE tries + 1 < Len(hosts)
    BY <1>4, <2>1, ContractStutter DEF ConnectFailed
  <2>2. CASE ~(tries + 1 < Len(hosts))
    BY <1>1, <1>4, <2>2 DEF ConnectFailed
  <2> QED BY <2>1, <2>2
<1>5. CASE SendQuery
  <2>1. cur \in Call /\ status[cur] = "running"
    BY <1>5 DEF SendQuery, IInv, TypeOK, AnswerInv, CallStages
  <2>2. UNCHANGED <<kind, rows, answer>>
        /\ (status' = status \/ status' = [status EXCEPT ![cur] = "live"])
    BY <1>5 DEF SendQuery, EndCall
  <2> QED BY <2>1, <2>2, ContractChange, ContractStutter
<1>6. CASE ReceiveSampleBlock
  BY <1>1, <1>6, ContractStutter DEF ReceiveSampleBlock
<1>7. CASE SendChunk
  <2>1. cur \in Call /\ status[cur] = "running" /\ kind[cur] = "insert"
    BY <1>7 DEF SendChunk, IInv, TypeOK, AnswerInv, CallStages
  <2>2. Len(rows[cur]) + 1 \in 0..MaxBlocks
    <3>1. Len(rows[cur]) \in Nat
      BY <2>1, LengthTypes
    <3> QED BY <1>7, <3>1, ConstantTypes DEF SendChunk
  <2>3. Blk(cur, Len(rows[cur]) + 1) \in Block
    BY <2>1, <2>2, MessageTypes
  <2> QED BY <1>7, <2>1, <2>3, ContractPut DEF SendChunk
<1>8. CASE ReceiveEndOfQuery
  <2>1. CASE EndCall("ok") /\ ~RaiseAndDisconnect
    BY <1>8, <2>1, ContractSucceed DEF ReceiveEndOfQuery, EndCall
  <2>2. CASE ~EndCall("ok") /\ ~RaiseAndDisconnect
    BY <1>8, <2>2, ContractStutter DEF ReceiveEndOfQuery
  <2> QED BY <1>1, <1>8, <2>1, <2>2 DEF ReceiveEndOfQuery
<1>9. CASE ReceiveYielded
  <2> DEFINE p == Head(s2c)
             b == Blk(p.call, p.n)
  <2>1. stage \in {"drain", "pull"} /\ s2c # <<>> /\ UNCHANGED <<kind, status, answer>>
    BY <1>9 DEF ReceiveYielded
  <2>2. CASE p.type # "DATA"
    BY <1>9, <2>2, ContractStutter DEF ReceiveYielded
  <2>3. CASE p.type = "DATA" /\ kind[cur] = "cancel"
    <3>1. cur \in Call /\ \A q \in Call: q # cur => rows'[q] = rows[q]
      BY <1>9, <2>1, WhoReads DEF ReceiveYielded, IInv, TypeOK
    <3> QED BY <2>1, <2>3, <3>1 DEF Contract!vars, ContractSource, ContractSink, Inserting
  <2>4. CASE p.type = "DATA" /\ kind[cur] # "cancel"
    <3>1. cur \in Call /\ status[cur] \in {"running", "live"} /\ kind[cur] # "insert"
      BY <2>1, WhoReads
    <3>2. Kept(cur)
      BY <2>1, <2>4 DEF AnswerInv, CallStages, Kept, IInv, TypeOK
    <3>3. b \in Block
      <4>1. p \in Packet
        BY <2>1, TailEntries DEF IInv, TypeOK, ServerTypeOK
      <4> QED BY <2>4, <4>1, CarriesCall, MessageTypes
    <3>4. rows' = [rows EXCEPT ![cur] = Append(@, b)]
      BY <1>9, <2>4 DEF ReceiveYielded
    <3> QED BY <2>1, <2>4, <3>1, <3>2, <3>3, <3>4, ContractTake
  <2> QED BY <2>2, <2>3, <2>4
<1>10. CASE ReceiveEndOfStream
  BY <1>10, ContractSucceed DEF ReceiveEndOfStream
<1> QED BY <1>2, <1>3, <1>4, <1>5, <1>6, <1>7, <1>8, <1>9, <1>10 DEF CallNext

LEMMA ServerContract ==
  ASSUME IInv, AnswerInv, AnswerInv', UNCHANGED clientVars, ServerNext
  PROVE  [Contract!Next]_Contract!vars
<1>1. UNCHANGED <<kind, status, rows>>
  BY DEF clientVars
<1>2. CASE SendBlock
  <2>1. /\ lastQuery \in Call /\ srv.call = lastQuery /\ kind[lastQuery] \notin {"insert", "cancel"}
        /\ status[lastQuery] \in {"running", "live", "closed"}
    BY <1>2, WorksOnLastQuery DEF SendBlock, AnswerInv, LastQuerySent
  <2>2. Len(answer[lastQuery]) + 1 \in 0..MaxBlocks
    <3>1. Len(answer[lastQuery]) \in Nat
      BY <2>1, LengthTypes
    <3> QED BY <1>2, <2>1, <3>1, ConstantTypes DEF SendBlock
  <2>3. Blk(lastQuery, Len(answer[lastQuery]) + 1) \in Block
    BY <2>1, <2>2, MessageTypes
  <2> QED BY <1>1, <1>2, <2>1, <2>3, ContractPut DEF SendBlock
<1>3. CASE TakeChunk
  <2>1. /\ lastQuery \in Call /\ srv.call = lastQuery /\ kind[lastQuery] = "insert"
        /\ status[lastQuery] \in {"running", "live", "closed"}
    BY <1>3, WorksOnLastQuery DEF TakeChunk
  <2>2. CASE Head(c2s).type = "DATA"
    <3>1. Blk(Head(c2s).call, Head(c2s).n) \in Block
      <4>1. Head(c2s) \in ClientMsg
        BY <1>3, TailEntries DEF TakeChunk, IInv, TypeOK, ServerTypeOK
      <4> QED BY <2>2, <4>1, CarriesCall, MessageTypes
    <3>2. answer' = [answer EXCEPT ![lastQuery] = Append(@, Blk(Head(c2s).call, Head(c2s).n))]
      BY <1>3, <2>1, <2>2 DEF TakeChunk
    <3>3. Kept(lastQuery)
      BY <2>1 DEF Kept
    <3> QED BY <1>1, <2>1, <3>1, <3>2, <3>3, ContractTake
  <2>3. CASE Head(c2s).type # "DATA"
    BY <1>1, <1>3, <2>3, ContractStutter DEF TakeChunk
  <2> QED BY <2>2, <2>3
<1>4. CASE answer' = answer
  BY <1>1, <1>4, ContractStutter
<1>5. ServerNext => SendBlock \/ TakeChunk \/ answer' = answer
  BY DEF ServerNext, TakeRequest, TakeCancel, SendSampleBlock, SendEndOfStream,
         SendException, SendInfo
<1> QED BY <1>2, <1>3, <1>4, <1>5

\* Each call is a stream of its own, whatever happens underneath: its blocks
\* reach it once, in order, from its own query only, and it succeeds only with
\* all of them; ProtonClient implements CallContract for an application that
\* advances no result whose query was superseded (client.py:138-604).
THEOREM CallsKeepTheirContract ==
  ASSUME ~PullStale
  PROVE  Spec => KeepsContract
<1>1. Init => Contract!Init
  BY DEF Init, ServerInit, Contract!Init, Contract!Call, ContractSource, ContractSink,
         Inserting, Call
<1>2. IInv /\ AnswerInv /\ (IInv /\ AnswerInv)' /\ [Next]_vars
        => [Contract!Next]_Contract!vars
  <2> SUFFICES ASSUME IInv, AnswerInv, AnswerInv', [Next]_vars
               PROVE  [Contract!Next]_Contract!vars
    OBVIOUS
  <2>1. CASE UNCHANGED vars
    BY <2>1, ContractStutter DEF vars, clientVars, serverVars
  <2> QED BY <2>1, AppContract, RunningContract, ServerContract DEF Next
<1> QED BY <1>1, <1>2, AnswersAreTracked, PTL DEF Spec, KeepsContract, Contract!Spec
=============================================================================

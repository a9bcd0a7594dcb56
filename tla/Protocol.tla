------------------------------ MODULE Protocol ------------------------------
(***************************************************************************)
(* The packets of the native protocol, as far as the driver's control flow *)
(* tells them apart (proton_driver/protocol.py), and which of them each of *)
(* the client's receive loops accepts (proton_driver/client.py).           *)
(*                                                                         *)
(* Packets whose handling is the same share a name: "DATA" stands for DATA,*)
(* TOTALS and EXTREMES; "LOG" for LOG and TABLE_COLUMNS, which every loop  *)
(* skips; "EVENTS" for PART_UUIDS, READ_TASK_REQUEST and PROFILE_EVENTS,   *)
(* which only the result loop skips; "UNKNOWN" for every type that         *)
(* Connection.receive_packet does not know, PONG and HELLO among them when *)
(* they arrive outside ping and connect.                                   *)
(***************************************************************************)
EXTENDS Naturals

\* What the client may send. A query and the external tables that follow it,
\* closed by an empty block, are written by one call chain: one message.
ClientMsgType == {"QUERY", "INSERT", "DATA", "END_OF_DATA", "CANCEL", "PING"}

\* What the server may send.
ServerPacketType == {"DATA", "EXCEPTION", "PROGRESS", "PONG", "EOS",
                     "PROFILE_INFO", "LOG", "EVENTS", "UNKNOWN"}

\* Types Connection.receive_packet has no branch for: it disconnects and raises.
UnknownToReceivePacket == {"PONG", "UNKNOWN"}

\* What Client.receive_packet makes of a packet: a packet for the result
\* object, a packet it stores or drops itself, the end, or an exception.
YieldedByResultLoop == {"DATA", "PROGRESS"}
SkippedByResultLoop == {"PROFILE_INFO", "LOG", "EVENTS"}
StoredInLastQuery   == {"PROGRESS", "PROFILE_INFO"}

\* receive_sample_block and receive_end_of_query raise
\* UnexpectedPacketFromServerError on everything they do not list.
SkippedByInsertLoops == {"LOG"}
==============================================================================

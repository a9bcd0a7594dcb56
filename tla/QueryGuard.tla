----------------------------- MODULE QueryGuard -----------------------------
(***************************************************************************)
(* Connection.check_query_execution, called by threads that share a Client.*)
(* Python may switch threads between any two of its statements.  Pings     *)
(* succeed, connecting is one step, and connect() is called on closed      *)
(* connections only: what it does to the flag of an open one is part of    *)
(* ProtonClient.                                                           *)
(*                                                                         *)
(*   lock       is _lock held?  Nobody owns it: any thread may release it  *)
(*   executing  is_query_executing                                         *)
(*   socket     which of the sockets so far is open, or 0                  *)
(*   sockets    how many there have been                                   *)
(*   at         where each thread is: "idle", at a statement of            *)
(*              check_query_execution, "connect", "send", in its "query"   *)
(*              or "except", the handler of disconnect_on_error            *)
(*   on         the socket that its query was sent on                      *)
(***************************************************************************)
EXTENDS Naturals, FiniteSets

CONSTANTS Threads,
          MaxSockets   \* bound: connections made in a behaviour

VARIABLES lock, executing, socket, sockets, at, on

guardVars == <<lock, executing, socket, sockets, at, on>>

GuardInit ==
  /\ lock = FALSE /\ executing = FALSE
  /\ socket = 0 /\ sockets = 0
  /\ at = [t \in Threads |-> "idle"]
  /\ on = [t \in Threads |-> 0]

Goes(t, from, to) == at[t] = from /\ at' = [at EXCEPT ![t] = to]

-----------------------------------------------------------------------------

\* The result of acquire(blocking=False) is not looked at.
Acquire(t) ==
  /\ Goes(t, "idle", "check")
  /\ lock' = TRUE
  /\ UNCHANGED <<executing, socket, sockets, on>>

\* PartiallyConsumedQueryError is raised with the lock held.
Refuse(t) ==
  /\ executing
  /\ Goes(t, "check", "except")
  /\ UNCHANGED <<lock, executing, socket, sockets, on>>

Pass(t) ==
  /\ ~executing
  /\ Goes(t, "check", "set")
  /\ UNCHANGED <<lock, executing, socket, sockets, on>>

SetFlag(t) ==
  /\ Goes(t, "set", "release")
  /\ executing' = TRUE
  /\ UNCHANGED <<lock, socket, sockets, on>>

Release(t) ==
  /\ lock
  /\ Goes(t, "release", "connect")
  /\ lock' = FALSE
  /\ UNCHANGED <<executing, socket, sockets, on>>

\* RuntimeError: release unlocked lock.
ReleaseUnlocked(t) ==
  /\ ~lock
  /\ Goes(t, "release", "except")
  /\ UNCHANGED <<lock, executing, socket, sockets, on>>

\* connect(), unless there is a connection.
Connected ==
  \/ socket # 0 /\ UNCHANGED <<socket, sockets>>
  \/ /\ socket = 0 /\ sockets < MaxSockets
     /\ sockets' = sockets + 1
     /\ socket' = sockets + 1

ForceConnect(t) ==
  /\ Goes(t, "connect", "send")
  /\ Connected
  /\ UNCHANGED <<lock, executing, on>>

\* send_query connects again if another thread has disconnected meanwhile.
SendQuery(t) ==
  /\ Goes(t, "send", "query")
  /\ Connected
  /\ on' = [on EXCEPT ![t] = socket']
  /\ UNCHANGED <<lock, executing>>

\* The last packet of the answer.
EndOfStream(t) ==
  /\ on[t] = socket
  /\ Goes(t, "query", "idle")
  /\ executing' = FALSE
  /\ UNCHANGED <<lock, socket, sockets, on>>

\* Another thread has closed the socket.
Fails(t) ==
  /\ on[t] # socket
  /\ Goes(t, "query", "except")
  /\ UNCHANGED <<lock, executing, socket, sockets, on>>

\* Whatever connection there is now.
Disconnect(t) ==
  /\ Goes(t, "except", "idle")
  /\ executing' = FALSE
  /\ socket' = 0
  /\ UNCHANGED <<lock, sockets, on>>

GuardNext ==
  \E t \in Threads:
    \/ Acquire(t) \/ Refuse(t) \/ Pass(t) \/ SetFlag(t)
    \/ Release(t) \/ ReleaseUnlocked(t)
    \/ ForceConnect(t) \/ SendQuery(t) \/ EndOfStream(t)
    \/ Fails(t) \/ Disconnect(t)

GuardSpec == GuardInit /\ [][GuardNext]_guardVars

-----------------------------------------------------------------------------

\* "Simultaneous queries on single connection detected" (errors.py:453): of two
\* threads that start a query on one connection, one is stopped
\* (connection.py:669-676).
SimultaneousDetected ==
  \A s, t \in Threads:
    at[s] = "query" /\ at[t] = "query" /\ on[s] = socket /\ on[t] = socket => s = t
=============================================================================

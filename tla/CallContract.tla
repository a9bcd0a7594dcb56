---------------------------- MODULE CallContract ----------------------------
(***************************************************************************)
(* What a call to the driver promises, whatever happens underneath: each   *)
(* call is a stream of its own from a source to a sink.  For a SELECT the  *)
(* source is the server and the sink the application's result; for an      *)
(* INSERT it is the other way round.  Blocks arrive once, in order, and    *)
(* only from the call's own source; a call may fail at any point; it       *)
(* succeeds only when the sink has everything, and is final then.          *)
(***************************************************************************)
EXTENDS Naturals, Sequences

CONSTANTS MaxCalls, MaxBlocks

VARIABLES source, sink, status

vars == <<source, sink, status>>

Call == 1..MaxCalls
Started == {"running", "live", "closed", "error", "refused"}

Init == /\ source = [q \in Call |-> <<>>]
        /\ sink = [q \in Call |-> <<>>]
        /\ status = [q \in Call |-> "none"]

\* A call begins, or is refused, or its result is handed out or dropped.
Change(q, s) ==
  /\ status[q] # "ok"
  /\ s \in Started
  /\ status' = [status EXCEPT ![q] = s]
  /\ UNCHANGED <<source, sink>>

\* The source comes up with its next block.
Put(q) ==
  /\ status[q] \in Started
  /\ Len(source[q]) < MaxBlocks
  /\ source' = [source EXCEPT ![q] = Append(@, [call |-> q, n |-> Len(@) + 1])]
  /\ UNCHANGED <<sink, status>>

\* The sink gets the block it has not got yet.
Take(q) ==
  /\ status[q] \in Started
  /\ Len(sink[q]) < Len(source[q])
  /\ sink' = [sink EXCEPT ![q] = Append(@, source[q][Len(@) + 1])]
  /\ UNCHANGED <<source, status>>

\* Success: nothing is missing, and nothing changes afterwards.
Succeed(q) ==
  /\ status[q] \in Started
  /\ sink[q] = source[q]
  /\ status' = [status EXCEPT ![q] = "ok"]
  /\ UNCHANGED <<source, sink>>

Next == \E q \in Call: \/ \E s \in Started: Change(q, s)
                       \/ Put(q) \/ Take(q) \/ Succeed(q)

Spec == Init /\ [][Next]_vars
=============================================================================

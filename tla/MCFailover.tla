----------------------------- MODULE MCFailover -----------------------------
(* Failover for TLC: hosts, and who shares a deque with whom.               *)
EXTENDS Failover

TwoHosts   == <<1, 2>>
ThreeHosts == <<1, 2, 3>>

\* Two Client objects, each with the deque Connection.__init__ made for it.
OwnDeques == [c \in Clients |-> c]

\* One of them is a Client of its own, the others share a deque.
MixedDeques ==
  LET own   == CHOOSE c \in Clients: TRUE
      first == CHOOSE c \in Clients: c # own
  IN  [c \in Clients |-> IF c = own THEN own ELSE first]

\* Two cursors of one DB API connection: the deque of the first cursor.
SharedDeque == [c \in Clients |-> CHOOSE d \in Clients: TRUE]
=============================================================================

------------------------------ MODULE Failover ------------------------------
(***************************************************************************)
(* Several clients that connect to one of several hosts                    *)
(* (Connection.connect, proton_driver/connection.py), each from a thread   *)
(* of its own.  A client walks a deque of hosts: it tries the first and    *)
(* rotates the deque when that one fails.  The cursors of one DB API       *)
(* connection all walk the same deque (dbapi/connection.py).               *)
(*                                                                         *)
(*   hosts      the deques                                                 *)
(*   reach      what a host does to a client that connects to it           *)
(*   changes    how often a host has changed that                          *)
(*   stage      where each client stands in connect()                      *)
(*   target     the host it tries, or is connected to                      *)
(*   tries      hosts this connect() has found dead                        *)
(*   alwaysUp   history: hosts that were up all through this connect()     *)
(*   disturbed  history: did another client rotate the deque meanwhile?    *)
(***************************************************************************)
EXTENDS Naturals, Sequences

CONSTANTS Clients,     \* clients, one thread each
          Hosts,       \* the connection points, as Connection.__init__ orders them
          DequeOf,     \* the deque each client walks, named by a client
          Manners,     \* what a host may do to a client
          MaxChanges   \* bound: changes of what the hosts do

ASSUME HostsAssumption == Hosts \in Seq(Nat) /\ Hosts # <<>>
ASSUME DequeOfAssumption == DequeOf \in [Clients -> Clients]
ASSUME MannersAssumption == "up" \in Manners /\ Manners \subseteq {"up", "down", "hangup"}
ASSUME MaxChangesAssumption == MaxChanges \in Nat

VARIABLES hosts, reach, changes, stage, target, tries, alwaysUp, disturbed

vars == <<hosts, reach, changes, stage, target, tries, alwaysUp, disturbed>>

Host  == {Hosts[i] : i \in DOMAIN Hosts}
Stage == {"off", "pick", "trying", "on", "failed", "refused"}

\* connect() is running.
Connecting == {"pick", "trying"}

TypeOK ==
  /\ hosts \in [Clients -> Seq(Host)]
  /\ \A d \in Clients: Len(hosts[d]) = Len(Hosts)
  /\ reach \in [Host -> Manners]
  /\ changes \in 0..MaxChanges
  /\ stage \in [Clients -> Stage]
  /\ target \in [Clients -> Host]
  /\ tries \in [Clients -> 0..Len(Hosts)]
  /\ alwaysUp \in [Clients -> SUBSET Host]
  /\ disturbed \in [Clients -> BOOLEAN]

Up == {h \in Host : reach[h] = "up"}

Init ==
  /\ hosts = [d \in Clients |-> Hosts]
  /\ reach \in [Host -> Manners]
  /\ changes = 0
  /\ stage = [c \in Clients |-> "off"]
  /\ target = [c \in Clients |-> Hosts[1]]
  /\ tries = [c \in Clients |-> 0]
  /\ alwaysUp = [c \in Clients |-> {}]
  /\ disturbed = [c \in Clients |-> FALSE]

-----------------------------------------------------------------------------

\* connect(): at first, or again after a failure or a lost connection.
Connect(c) ==
  /\ stage[c] \in {"off", "failed", "refused"}
  /\ stage' = [stage EXCEPT ![c] = "pick"]
  /\ tries' = [tries EXCEPT ![c] = 0]
  /\ alwaysUp' = [alwaysUp EXCEPT ![c] = Up]
  /\ disturbed' = [disturbed EXCEPT ![c] = FALSE]
  /\ UNCHANGED <<hosts, reach, changes, target>>

\* Mutant: the loop tries the last host of the deque.
PickLast(c) ==
  /\ stage[c] = "pick"
  /\ target' = [target EXCEPT ![c] = hosts[DequeOf[c]][Len(hosts[DequeOf[c]])]]
  /\ stage' = [stage EXCEPT ![c] = "trying"]
  /\ UNCHANGED <<hosts, reach, changes, tries, alwaysUp, disturbed>>

\* host, port = self.hosts[0]
PickHost(c) ==
  /\ stage[c] = "pick"
  /\ target' = [target EXCEPT ![c] = Head(hosts[DequeOf[c]])]
  /\ stage' = [stage EXCEPT ![c] = "trying"]
  /\ UNCHANGED <<hosts, reach, changes, tries, alwaysUp, disturbed>>

\* _init_connection returns: the deque is left as it is.
Reached(c) ==
  /\ stage[c] = "trying" /\ reach[target[c]] = "up"
  /\ stage' = [stage EXCEPT ![c] = "on"]
  /\ UNCHANGED <<hosts, reach, changes, target, tries, alwaysUp, disturbed>>

\* Mutant: a dead host stays at the head of the deque.
HostFailedUnrotated(c) ==
  /\ stage[c] = "trying" /\ reach[target[c]] = "down"
  /\ hosts' = hosts
  /\ tries' = [tries EXCEPT ![c] = @ + 1]
  /\ stage' = [stage EXCEPT ![c] = IF tries[c] + 1 = Len(Hosts) THEN "failed"
                                                                ELSE "pick"]
  /\ UNCHANGED <<disturbed, reach, changes, target, alwaysUp>>

\* Mutant: the loop runs one turn too many.
HostFailedOnceMore(c) ==
  /\ stage[c] = "trying" /\ reach[target[c]] = "down"
  /\ hosts' = [hosts EXCEPT ![DequeOf[c]] = Append(Tail(@), Head(@))]
  /\ tries' = [tries EXCEPT ![c] = @ + 1]
  /\ stage' = [stage EXCEPT ![c] = IF tries[c] = Len(Hosts) THEN "failed"
                                                            ELSE "pick"]
  /\ UNCHANGED <<disturbed, reach, changes, target, alwaysUp>>

\* socket.timeout or socket.error: self.hosts.rotate(-1), whatever is at the
\* head of the deque by now; raise when this was the last turn of the loop.
HostFailed(c) ==
  /\ stage[c] = "trying" /\ reach[target[c]] = "down"
  /\ hosts' = [hosts EXCEPT ![DequeOf[c]] = Append(Tail(@), Head(@))]
  /\ tries' = [tries EXCEPT ![c] = @ + 1]
  /\ stage' = [stage EXCEPT ![c] = IF tries[c] + 1 = Len(Hosts) THEN "failed"
                                                                ELSE "pick"]
  /\ disturbed' = [e \in Clients |->
                     disturbed[e] \/ (/\ e # c /\ DequeOf[e] = DequeOf[c]
                                      /\ stage[e] \in Connecting)]
  /\ UNCHANGED <<reach, changes, target, alwaysUp>>

\* EOFError or a server exception in receive_hello is no socket.error: it
\* leaves connect() at once and the deque stays as it is.
HungUp(c) ==
  /\ stage[c] = "trying" /\ reach[target[c]] = "hangup"
  /\ stage' = [stage EXCEPT ![c] = "refused"]
  /\ UNCHANGED <<hosts, reach, changes, target, tries, alwaysUp, disturbed>>

\* The connection is lost or closed.
Drop(c) ==
  /\ stage[c] = "on"
  /\ stage' = [stage EXCEPT ![c] = "off"]
  /\ UNCHANGED <<hosts, reach, changes, target, tries, alwaysUp, disturbed>>

\* A host changes what it does.
Change(h, m) ==
  /\ changes < MaxChanges
  /\ reach[h] # m
  /\ changes' = changes + 1
  /\ reach' = [reach EXCEPT ![h] = m]
  /\ alwaysUp' = [c \in Clients |-> IF stage[c] \in Connecting
                                    THEN alwaysUp[c] \ {h} ELSE alwaysUp[c]]
  /\ UNCHANGED <<hosts, stage, target, tries, disturbed>>

ClientNext(c) == \/ Connect(c) \/ PickHost(c) \/ Reached(c) \/ HostFailed(c)
                 \/ HungUp(c)

Next == \/ \E c \in Clients: ClientNext(c) \/ Drop(c)
        \/ \E h \in Host, m \in Manners: Change(h, m)

Spec == Init /\ [][Next]_vars

\* Threads run; an application that was not given a connection asks again.
FairSpec == Spec /\ \A c \in Clients: WF_vars(ClientNext(c))

-----------------------------------------------------------------------------

\* connect() gives up with a network error only when no host was there for it
\* all the time (connection.py:318-346; "if main connection point is
\* unavailable driver will use next one", docs/features.rst:263).
LiveHostIsFound ==
  \A c \in Clients: stage[c] = "failed" => alwaysUp[c] = {}

\* The same for clients that share a deque, as far as it goes: a live host is
\* missed only by a connect() during which another client rotated the deque.
MissedOnlyIfDisturbed ==
  \A c \in Clients: stage[c] = "failed" /\ ~disturbed[c] => alwaysUp[c] = {}

\* No other client walks the deque of this one: a Client of its own, or the
\* only cursor of its DB API connection.
Alone(c) == \A e \in Clients: DequeOf[e] = DequeOf[c] => e = c

\* The host that answered last is the first one tried the next time
\* (tests/test_connect.py:195, "last host must be remembered"), for a client
\* with a deque of its own: connection.py:323-343 rotates on failures only,
\* and what the connect() of other clients rotates is theirs.
LastHostRemembered ==
  \A c \in Clients: Alone(c) /\ stage[c] = "on"
                     => Head(hosts[DequeOf[c]]) = target[c]

\* Why: an undisturbed connect() has its dead hosts at the end of the deque and
\* the host it tries at the head, and no host ever leaves a deque.
Walk(c) ==
  stage[c] \in Connecting /\ ~disturbed[c] =>
    /\ \A i \in 1..Len(Hosts):
         i > Len(Hosts) - tries[c] => hosts[DequeOf[c]][i] \notin alwaysUp[c]
    /\ stage[c] = "trying" => target[c] = hosts[DequeOf[c]][1]

Complete(d) == \A h \in Host: \E i \in 1..Len(Hosts): hosts[d][i] = h

\* Nothing moves the head of a deque from under the one client that walks it.
AtHead(c) ==
  Alone(c) /\ stage[c] \in {"trying", "on"} => target[c] = hosts[DequeOf[c]][1]

\* The inductive invariant behind LiveHostIsFound, MissedOnlyIfDisturbed and
\* LastHostRemembered: connect() walks its whole deque (connection.py:318-343).
WalkInv ==
  /\ TypeOK
  /\ \A c \in Clients:
       /\ Complete(c)
       /\ Walk(c)
       /\ AtHead(c)
       /\ stage[c] \in Connecting => tries[c] < Len(Hosts) /\ alwaysUp[c] \subseteq Up
  /\ MissedOnlyIfDisturbed

\* A client with a deque of its own that keeps asking is connected again and
\* again if some host stays up for good and none hangs up on it for good: each
\* connect() goes on from where the last one stopped (connection.py:318-346).
ConnectedUnlessHungUp ==
  (\E h \in Host: <>[](reach[h] = "up")) /\ <>[](\A h \in Host: reach[h] # "hangup")
    => \A c \in Clients: Alone(c) => []<>(stage[c] = "on")

\* The same without the condition on hosts that hang up, as the documentation
\* promises it (docs/features.rst:263).
EventuallyConnected ==
  (\E h \in Host: <>[](reach[h] = "up"))
    => \A c \in Clients: []<>(stage[c] = "on")
=============================================================================

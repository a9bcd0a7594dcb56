--------------------------- MODULE FailoverProofs ---------------------------
(***************************************************************************)
(* Failover proved for any number of clients and hosts: connect() reports  *)
(* a network error only if no host was up all the time, unless another     *)
(* client rotated the deque under it, and starts with the host that        *)
(* answered last.                                                          *)
(***************************************************************************)
EXTENDS Failover, TLAPS

N == Len(Hosts)

\* hosts.rotate(-1) moves the first element to the end (connection.py:343).
LEMMA Rotation ==
  ASSUME NEW S, NEW s \in Seq(S), s # <<>>
  PROVE  /\ Append(Tail(s), Head(s)) \in Seq(S)
         /\ Len(Append(Tail(s), Head(s))) = Len(s)
         /\ \A i \in 1..Len(s): i < Len(s) => Append(Tail(s), Head(s))[i] = s[i + 1]
         /\ Append(Tail(s), Head(s))[Len(s)] = s[1]
<1>1. Tail(s) \in Seq(S) /\ Len(Tail(s)) = Len(s) - 1 /\ Head(s) = s[1]
  OBVIOUS
<1>2. Len(s) \in Nat \ {0} /\ Head(s) \in S
  OBVIOUS
<1>3. \A i \in 1..(Len(s) - 1): Tail(s)[i] = s[i + 1]
  BY <1>2
<1>4. \A t \in Seq(S), x \in S:
        /\ Append(t, x) \in Seq(S) /\ Len(Append(t, x)) = Len(t) + 1
        /\ \A i \in 1..Len(t): Append(t, x)[i] = t[i]
        /\ Append(t, x)[Len(t) + 1] = x
  OBVIOUS
<1> DEFINE r == Append(Tail(s), Head(s))
<1>5. /\ r \in Seq(S) /\ Len(r) = (Len(s) - 1) + 1
      /\ \A i \in 1..(Len(s) - 1): r[i] = Tail(s)[i]
      /\ r[(Len(s) - 1) + 1] = s[1]
  BY <1>1, <1>2, <1>4
<1>6. (Len(s) - 1) + 1 = Len(s) /\ \A i \in 1..Len(s): i < Len(s) => i \in 1..(Len(s) - 1)
  BY <1>2
<1> QED BY <1>3, <1>5, <1>6

\* A rotated deque holds what it held before (connection.py:343).
LEMMA RotationKeeps ==
  ASSUME NEW S, NEW s \in Seq(S), s # <<>>, NEW i \in 1..Len(s)
  PROVE  \E j \in 1..Len(s): Append(Tail(s), Head(s))[j] = s[i]
<1>1. Len(s) \in Nat \ {0}
  OBVIOUS
<1>2. CASE i = 1
  BY <1>1, <1>2, Rotation
<1>3. CASE i # 1
  <2>1. i - 1 \in 1..Len(s) /\ i - 1 < Len(s) /\ (i - 1) + 1 = i
    BY <1>1, <1>3
  <2> QED BY <2>1, Rotation
<1> QED BY <1>2, <1>3

\* The constants: there is at least one host.
LEMMA SomeHost == N \in Nat \ {0} /\ Hosts \in Seq(Host) /\ Hosts[1] \in Host
<1>1. N \in Nat \ {0} /\ DOMAIN Hosts = 1..N
  BY HostsAssumption DEF N
<1>2. 1 \in DOMAIN Hosts
  BY <1>1
<1>3. \A i \in 1..N: Hosts[i] \in Host
  BY <1>1 DEF Host
<1>4. Hosts \in [1..N -> Host]
  BY <1>1, <1>3, HostsAssumption
<1>5. Hosts \in Seq(Host)
  BY <1>1, <1>4, HostsAssumption
<1> QED BY <1>1, <1>2, <1>5 DEF Host

\* The first states satisfy the inductive invariant (connection.py:146-151).
LEMMA InitInvariant == Init => WalkInv
<1> SUFFICES ASSUME Init PROVE WalkInv
  OBVIOUS
<1>1. TypeOK
  BY SomeHost, MaxChangesAssumption DEF Init, TypeOK, Stage, N
<1>2. \A c \in Clients: Complete(c)
  BY HostsAssumption DEF Init, Complete, Host
<1>3. \A c \in Clients: stage[c] = "off"
  BY DEF Init
<1> QED BY <1>1, <1>2, <1>3 DEF WalkInv, Walk, AtHead, Connecting, MissedOnlyIfDisturbed

\* A step that leaves the deques alone loses no host (connection.py:343).
LEMMA CompleteStep ==
  ASSUME NEW e \in Clients, Complete(e), hosts'[e] = hosts[e]
  PROVE  Complete(e)'
BY DEF Complete, Host

\* A client about which nothing changes goes on with its walk.
LEMMA WalkStep ==
  ASSUME NEW e \in Clients, Walk(e), hosts'[DequeOf[e]] = hosts[DequeOf[e]],
         stage'[e] = stage[e], tries'[e] = tries[e], target'[e] = target[e],
         alwaysUp'[e] \subseteq alwaysUp[e], disturbed'[e] = disturbed[e]
  PROVE  Walk(e)'
BY DEF Walk

\* No step of another client moves the head of a deque that is not its own, and
\* the one client that walks it rotates only a host it gives up (connection.py:323-343).
LEMMA HeadStep ==
  ASSUME WalkInv, [Next]_vars, NEW e \in Clients
  PROVE  AtHead(e)'
<1> USE DEF AtHead
<1>t. TypeOK /\ AtHead(e) /\ DequeOf \in [Clients -> Clients]
  BY DequeOfAssumption DEF WalkInv
<1>k. ASSUME hosts' = hosts, target'[e] = target[e],
             stage'[e] \in {"trying", "on"} => stage[e] \in {"trying", "on"}
      PROVE AtHead(e)'
  BY <1>t, <1>k DEF Alone
<1>1. ASSUME NEW c \in Clients, Connect(c) PROVE AtHead(e)'
  BY <1>1, <1>k, <1>t DEF Connect, TypeOK
<1>2. ASSUME NEW c \in Clients, PickHost(c) PROVE AtHead(e)'
  <2>1. CASE e = c
    <3>1. hosts[DequeOf[c]] \in Seq(Host)
      BY <1>t DEF TypeOK
    <3>2. target'[e] = hosts[DequeOf[e]][1] /\ hosts' = hosts
      BY <1>2, <1>t, <2>1, <3>1 DEF PickHost, TypeOK
    <3> QED BY <3>2
  <2>2. CASE e # c
    BY <1>2, <1>k, <1>t, <2>2 DEF PickHost, TypeOK
  <2> QED BY <2>1, <2>2
<1>3. ASSUME NEW c \in Clients, HostFailed(c) PROVE AtHead(e)'
  <2>1. CASE e = c
    <3>1. stage'[e] \in {"failed", "pick"}
      BY <1>3, <1>t, <2>1 DEF HostFailed, TypeOK
    <3> QED BY <3>1
  <2>2. CASE e # c
    <3>1. SUFFICES ASSUME Alone(e), stage'[e] \in {"trying", "on"}
                   PROVE target'[e] = hosts'[DequeOf[e]][1]
      BY DEF Alone
    <3>2. DequeOf[c] # DequeOf[e]
      BY <2>2, <3>1 DEF Alone
    <3>3. hosts'[DequeOf[e]] = hosts[DequeOf[e]]
      BY <1>3, <1>t, <3>2 DEF HostFailed, TypeOK
    <3>4. stage'[e] = stage[e] /\ target'[e] = target[e]
      BY <1>3, <1>t, <2>2 DEF HostFailed, TypeOK
    <3> QED BY <1>t, <3>1, <3>3, <3>4
  <2> QED BY <2>1, <2>2
<1>4. ASSUME NEW c \in Clients, Reached(c) \/ HungUp(c) \/ Drop(c) PROVE AtHead(e)'
  <2>1. hosts' = hosts /\ target' = target
    BY <1>4 DEF Reached, HungUp, Drop
  <2>2. stage'[e] = stage[e]
          \/ stage'[e] \in {"off", "refused"} \/ stage[e] = "trying"
    BY <1>4, <1>t DEF Reached, HungUp, Drop, TypeOK
  <2> QED BY <1>k, <2>1, <2>2
<1>5. ASSUME NEW h \in Host, NEW m \in Manners, Change(h, m) PROVE AtHead(e)'
  BY <1>5, <1>k DEF Change
<1>6. CASE UNCHANGED vars
  BY <1>6, <1>k DEF vars
<1> QED BY <1>1, <1>2, <1>3, <1>4, <1>5, <1>6 DEF Next, ClientNext

\* Every step keeps the inductive invariant (connection.py:311-346).
LEMMA NextInvariant == WalkInv /\ [Next]_vars => WalkInv'
<1> SUFFICES ASSUME WalkInv, [Next]_vars PROVE WalkInv'
  OBVIOUS
<1> USE SomeHost DEF N
<1>t. TypeOK
  BY DEF WalkInv
<1>w. \A e \in Clients: Complete(e) /\ Walk(e)
  BY DEF WalkInv
<1>d. ASSUME NEW c \in Clients PROVE DequeOf[c] \in Clients
  BY DequeOfAssumption
<1>h. \A e \in Clients: AtHead(e)'
  BY HeadStep
<1>1. ASSUME NEW c \in Clients, Connect(c) PROVE WalkInv'
  <2>1. TypeOK'
    BY <1>1, <1>t DEF Connect, TypeOK, Stage, Up
  <2>2. ASSUME NEW e \in Clients PROVE Complete(e)' /\ Walk(e)'
    <3>1. Complete(e)'
      BY <1>1, <1>w, CompleteStep DEF Connect
    <3>2. CASE e = c
      <4>1. tries'[e] = 0 /\ stage'[e] = "pick"
        BY <1>1, <1>t, <3>2 DEF Connect, TypeOK
      <4> QED BY <3>1, <4>1 DEF Walk
    <3>3. CASE e # c
      BY <1>1, <1>t, <1>w, <3>1, <3>3, WalkStep DEF Connect, TypeOK
    <3> QED BY <3>2, <3>3
  <2>3. ASSUME NEW e \in Clients, stage'[e] \in Connecting
        PROVE tries'[e] < N /\ alwaysUp'[e] \subseteq Up'
    BY <1>1, <1>t, <2>3 DEF Connect, TypeOK, WalkInv, Connecting, Up
  <2>4. MissedOnlyIfDisturbed'
    BY <1>1, <1>t DEF Connect, TypeOK, WalkInv, MissedOnlyIfDisturbed
  <2> QED BY <1>h, <2>1, <2>2, <2>3, <2>4 DEF WalkInv
<1>2. ASSUME NEW c \in Clients, PickHost(c) PROVE WalkInv'
  <2>0. hosts[DequeOf[c]] \in Seq(Host) /\ hosts[DequeOf[c]] # <<>>
        /\ Head(hosts[DequeOf[c]]) = hosts[DequeOf[c]][1]
        /\ Head(hosts[DequeOf[c]]) \in Host
    BY <1>t, <1>d DEF TypeOK
  <2>1. TypeOK'
    BY <1>2, <1>t, <2>0 DEF PickHost, TypeOK, Stage
  <2>2. ASSUME NEW e \in Clients PROVE Complete(e)' /\ Walk(e)'
    <3>1. Complete(e)'
      BY <1>2, <1>w, CompleteStep DEF PickHost
    <3>2. CASE e = c
      <4>1. /\ stage[e] = "pick" /\ stage'[e] = "trying" /\ Walk(e)
            /\ target'[e] = hosts[DequeOf[e]][1]
        BY <1>2, <1>t, <1>w, <2>0, <3>2 DEF PickHost, TypeOK
      <4> QED BY <1>2, <3>1, <4>1 DEF PickHost, Walk, Connecting
    <3>3. CASE e # c
      BY <1>2, <1>t, <1>w, <3>1, <3>3, WalkStep DEF PickHost, TypeOK
    <3> QED BY <3>2, <3>3
  <2>3. ASSUME NEW e \in Clients, stage'[e] \in Connecting
        PROVE tries'[e] < N /\ alwaysUp'[e] \subseteq Up'
    BY <1>2, <1>t, <2>3 DEF PickHost, TypeOK, WalkInv, Connecting, Up
  <2>4. MissedOnlyIfDisturbed'
    BY <1>2, <1>t DEF PickHost, TypeOK, WalkInv, MissedOnlyIfDisturbed
  <2> QED BY <1>h, <2>1, <2>2, <2>3, <2>4 DEF WalkInv
<1>3. ASSUME NEW c \in Clients, NEW s \in {"on", "off", "refused"},
             stage' = [stage EXCEPT ![c] = s],
             UNCHANGED <<hosts, reach, changes, target, tries, alwaysUp, disturbed>>
      PROVE WalkInv'
  <2>1. TypeOK'
    BY <1>3, <1>t DEF TypeOK, Stage
  <2>2. ASSUME NEW e \in Clients PROVE Complete(e)' /\ Walk(e)'
    <3>1. Complete(e)'
      BY <1>3, <1>w, CompleteStep
    <3>2. CASE e = c
      <4>1. stage'[e] \notin Connecting
        BY <1>3, <1>t, <3>2 DEF TypeOK, Connecting
      <4> QED BY <3>1, <4>1 DEF Walk
    <3>3. CASE e # c
      BY <1>3, <1>t, <1>w, <3>1, <3>3, WalkStep DEF TypeOK
    <3> QED BY <3>2, <3>3
  <2>3. ASSUME NEW e \in Clients, stage'[e] \in Connecting
        PROVE tries'[e] < N /\ alwaysUp'[e] \subseteq Up'
    BY <1>3, <1>t, <2>3 DEF TypeOK, WalkInv, Connecting, Up
  <2>4. MissedOnlyIfDisturbed'
    BY <1>3, <1>t DEF TypeOK, WalkInv, MissedOnlyIfDisturbed
  <2> QED BY <1>h, <2>1, <2>2, <2>3, <2>4 DEF WalkInv
<1>4. ASSUME NEW c \in Clients, HostFailed(c) PROVE WalkInv'
  <2> DEFINE d == DequeOf[c]
  <2>0. d \in Clients /\ hosts[d] \in Seq(Host) /\ Len(hosts[d]) = N /\ hosts[d] # <<>>
    BY <1>t, <1>d DEF TypeOK
  <2>r. /\ hosts'[d] \in Seq(Host) /\ Len(hosts'[d]) = N
        /\ \A i \in 1..N: i < N => hosts'[d][i] = hosts[d][i + 1]
        /\ hosts'[d][N] = hosts[d][1]
    BY <1>4, <1>t, <2>0, Rotation DEF HostFailed, TypeOK
  <2>n. \A e \in Clients: e # d => hosts'[e] = hosts[e]
    BY <1>4, <1>t, <2>0 DEF HostFailed, TypeOK
  <2>c. tries[c] < N /\ alwaysUp[c] \subseteq Up /\ tries[c] \in 0..N
    BY <1>4, <1>t DEF HostFailed, WalkInv, Connecting, TypeOK
  <2>1. TypeOK'
    <3>1. hosts' \in [Clients -> Seq(Host)] /\ \A e \in Clients: Len(hosts'[e]) = N
      BY <1>4, <1>t, <2>0, <2>r, <2>n DEF HostFailed, TypeOK
    <3>2. tries' \in [Clients -> 0..N]
      BY <1>4, <1>t, <2>c DEF HostFailed, TypeOK
    <3>3. stage' \in [Clients -> Stage]
      BY <1>4, <1>t DEF HostFailed, TypeOK, Stage
    <3>4. disturbed' \in [Clients -> BOOLEAN]
      BY <1>4, <1>t DEF HostFailed, TypeOK
    <3> QED BY <1>4, <1>t, <3>1, <3>2, <3>3, <3>4 DEF HostFailed, TypeOK
  <2>2. ASSUME NEW e \in Clients PROVE Complete(e)'
    <3>1. CASE e # d
      BY <3>1, <2>n, <1>w, CompleteStep
    <3>2. CASE e = d
      <4>1. ASSUME NEW h \in Host PROVE \E j \in 1..N: hosts'[d][j] = h
        <5>1. PICK i \in 1..N: hosts[d][i] = h
          BY <2>0, <1>w DEF Complete
        <5>2. hosts'[d] = Append(Tail(hosts[d]), Head(hosts[d]))
          BY <1>4, <1>t, <2>0 DEF HostFailed, TypeOK
        <5>3. \E j \in 1..Len(hosts[d]):
                Append(Tail(hosts[d]), Head(hosts[d]))[j] = hosts[d][i]
          BY <2>0, RotationKeeps
        <5> QED BY <5>1, <5>2, <5>3, <2>0
      <4> QED BY <3>2, <4>1 DEF Complete, Host
    <3> QED BY <3>1, <3>2
  <2>3. ASSUME NEW e \in Clients, stage'[e] \in Connecting, ~disturbed'[e]
        PROVE Walk(e)'
    <3>1. CASE e = c
      <4>1. stage'[c] = "pick" /\ tries'[c] = tries[c] + 1 /\ alwaysUp'[c] = alwaysUp[c]
            /\ ~disturbed[c]
        BY <1>4, <1>t, <2>3, <3>1 DEF HostFailed, TypeOK, Connecting
      <4>2. /\ \A i \in 1..N: i > N - tries[c] => hosts[d][i] \notin alwaysUp[c]
            /\ target[c] = hosts[d][1]
        BY <1>4, <4>1 DEF HostFailed, WalkInv, Walk, Connecting
      <4>3. hosts[d][1] \notin alwaysUp[c]
        BY <1>4, <4>2, <2>c DEF HostFailed, Up
      <4>4. ASSUME NEW i \in 1..N, i > N - tries'[c] PROVE hosts'[d][i] \notin alwaysUp[c]
        <5>1. CASE i = N
          BY <5>1, <2>r, <4>3
        <5>2. CASE i # N
          <6>1. i < N /\ i + 1 \in 1..N /\ i + 1 > N - tries[c]
            BY <5>2, <4>1, <4>4, <2>c
          <6> QED BY <6>1, <2>r, <4>2
        <5> QED BY <5>1, <5>2
      <4> QED BY <3>1, <4>1, <4>4 DEF Walk
    <3>2. CASE e # c
      <4>1. /\ stage[e] = stage'[e] /\ tries[e] = tries'[e] /\ alwaysUp'[e] = alwaysUp[e]
            /\ target'[e] = target[e] /\ ~disturbed[e] /\ DequeOf[e] # d
        BY <1>4, <1>t, <2>3, <3>2 DEF HostFailed, TypeOK, Connecting
      <4>2. hosts'[DequeOf[e]] = hosts[DequeOf[e]]
        BY <4>1, <2>n, <1>d
      <4> QED BY <4>1, <4>2 DEF WalkInv, Walk
    <3> QED BY <3>1, <3>2
  <2>4. ASSUME NEW e \in Clients PROVE Walk(e)'
    BY <2>3 DEF Walk
  <2>5. ASSUME NEW e \in Clients, stage'[e] \in Connecting
        PROVE tries'[e] < N /\ alwaysUp'[e] \subseteq Up'
    <3>1. CASE e = c
      <4>1. tries[c] + 1 # N /\ tries'[c] = tries[c] + 1
        BY <1>4, <1>t, <2>5, <3>1 DEF HostFailed, TypeOK, Connecting
      <4> QED BY <1>4, <3>1, <4>1, <2>c DEF HostFailed, Up
    <3>2. CASE e # c
      BY <1>4, <1>t, <2>5, <3>2 DEF HostFailed, TypeOK, WalkInv, Connecting, Up
    <3> QED BY <3>1, <3>2
  <2>6. ASSUME NEW e \in Clients, stage'[e] = "failed", ~disturbed'[e]
        PROVE alwaysUp'[e] = {}
    <3>1. CASE e = c
      <4>1. tries[c] + 1 = N /\ ~disturbed[c] /\ alwaysUp'[c] = alwaysUp[c]
        BY <1>4, <1>t, <2>6, <3>1 DEF HostFailed, TypeOK
      <4>2. /\ \A i \in 1..N: i > N - tries[c] => hosts[d][i] \notin alwaysUp[c]
            /\ target[c] = hosts[d][1]
        BY <1>4, <4>1 DEF HostFailed, WalkInv, Walk, Connecting
      <4>3. hosts[d][1] \notin alwaysUp[c]
        BY <1>4, <4>2, <2>c DEF HostFailed, Up
      <4>4. \A i \in 1..N: hosts[d][i] \notin alwaysUp[c]
        BY <4>1, <4>2, <4>3, <2>c
      <4>5. alwaysUp[c] \subseteq Host
        BY <1>t DEF TypeOK
      <4>6. \A h \in Host: \E i \in 1..N: hosts[d][i] = h
        BY <1>w, <2>0 DEF Complete
      <4>7. alwaysUp[c] = {}
        BY <4>4, <4>5, <4>6
      <4> QED BY <3>1, <4>1, <4>7
    <3>2. CASE e # c
      BY <1>4, <1>t, <2>6, <3>2 DEF HostFailed, TypeOK, WalkInv, MissedOnlyIfDisturbed
    <3> QED BY <3>1, <3>2
  <2> QED BY <1>h, <2>1, <2>2, <2>4, <2>5, <2>6 DEF WalkInv, MissedOnlyIfDisturbed
<1>5. ASSUME NEW h \in Host, NEW m \in Manners, Change(h, m) PROVE WalkInv'
  <2>0. \A e \in Clients: alwaysUp'[e] \subseteq alwaysUp[e]
    BY <1>5 DEF Change
  <2>1. TypeOK'
    <3>1. changes' \in 0..MaxChanges
      BY <1>5, <1>t, MaxChangesAssumption DEF Change, TypeOK
    <3>2. reach' \in [Host -> Manners] /\ alwaysUp' \in [Clients -> SUBSET Host]
      BY <1>5, <1>t DEF Change, TypeOK
    <3> QED BY <1>5, <1>t, <3>1, <3>2 DEF Change, TypeOK
  <2>2. ASSUME NEW e \in Clients PROVE Complete(e)' /\ Walk(e)'
    <3>1. Complete(e)'
      BY <1>5, <1>w, CompleteStep DEF Change
    <3> QED BY <1>5, <1>w, <2>0, <3>1, WalkStep DEF Change
  <2>3. ASSUME NEW e \in Clients, stage'[e] \in Connecting
        PROVE tries'[e] < N /\ alwaysUp'[e] \subseteq Up'
    <3>1. alwaysUp[e] \subseteq Up /\ tries[e] < N /\ alwaysUp'[e] = alwaysUp[e] \ {h}
      BY <1>5, <2>3 DEF Change, WalkInv
    <3>2. Up \ {h} \subseteq Up'
      BY <1>5, <1>t DEF Change, TypeOK, Up, Host
    <3> QED BY <1>5, <3>1, <3>2 DEF Change
  <2>4. MissedOnlyIfDisturbed'
    BY <1>5, <2>0 DEF Change, WalkInv, MissedOnlyIfDisturbed
  <2> QED BY <1>h, <2>1, <2>2, <2>3, <2>4 DEF WalkInv
<1>6. CASE UNCHANGED vars
  <2>1. TypeOK' /\ MissedOnlyIfDisturbed'
    BY <1>6 DEF vars, WalkInv, TypeOK, MissedOnlyIfDisturbed
  <2>2. ASSUME NEW e \in Clients PROVE Complete(e)' /\ Walk(e)'
    BY <1>6, <1>w, CompleteStep, WalkStep DEF vars
  <2>3. ASSUME NEW e \in Clients, stage'[e] \in Connecting
        PROVE tries'[e] < N /\ alwaysUp'[e] \subseteq Up'
    BY <1>6, <2>3 DEF vars, WalkInv, Up
  <2> QED BY <1>h, <2>1, <2>2, <2>3 DEF WalkInv
<1>7. ASSUME NEW c \in Clients, Reached(c) \/ HungUp(c) \/ Drop(c) PROVE WalkInv'
  BY <1>3, <1>7 DEF Reached, HungUp, Drop
<1> QED BY <1>1, <1>2, <1>4, <1>5, <1>6, <1>7 DEF Next, ClientNext

\* connect() walks the whole deque it started with: the inductive invariant.
THEOREM WalksTheDeque == Spec => []WalkInv
<1> QED BY InitInvariant, NextInvariant, PTL DEF Spec

\* Every client and every deque has its type, in every state of any number of
\* clients and hosts: no deque grows, shrinks or holds a host that was not given
\* (connection.py:146-151, 318-346).
THEOREM TypeCorrect == Spec => []TypeOK
<1>1. WalkInv => TypeOK
  BY DEF WalkInv
<1> QED BY <1>1, WalksTheDeque, PTL

\* A client with a deque of its own tries first, the next time it connects, the
\* host that answered last, whatever the connect() of other clients does to
\* theirs (connection.py:323-343).
THEOREM RemembersTheHost == Spec => []LastHostRemembered
<1>1. WalkInv => LastHostRemembered
  <2> SUFFICES ASSUME WalkInv, NEW c \in Clients, Alone(c), stage[c] = "on"
               PROVE Head(hosts[DequeOf[c]]) = target[c]
    BY DEF LastHostRemembered
  <2>1. target[c] = hosts[DequeOf[c]][1]
    BY DEF WalkInv, AtHead
  <2>2. hosts[DequeOf[c]] \in Seq(Host)
    BY DequeOfAssumption DEF WalkInv, TypeOK
  <2> QED BY <2>1, <2>2
<1> QED BY <1>1, WalksTheDeque, PTL

\* A live host is missed only by a connect() under which another client rotated
\* the deque they share (connection.py:318-343, dbapi/connection.py:92-95).
THEOREM MissedOnlyWhenShared == Spec => []MissedOnlyIfDisturbed
<1>1. WalkInv => MissedOnlyIfDisturbed
  BY DEF WalkInv
<1> QED BY <1>1, WalksTheDeque, PTL

\* Clients that have their deques to themselves never miss a live host
\* (connection.py:146-151, 318-343).
THEOREM FindsTheLiveHost ==
  ASSUME \A c, e \in Clients: DequeOf[c] = DequeOf[e] => c = e
  PROVE  Spec => []LiveHostIsFound
<1> DEFINE Undisturbed == \A c \in Clients: ~disturbed[c]
<1>1. Init => Undisturbed
  BY DEF Init
<1>2. WalkInv /\ Undisturbed /\ [Next]_vars => Undisturbed'
  <2> SUFFICES ASSUME WalkInv, Undisturbed, [Next]_vars PROVE Undisturbed'
    OBVIOUS
  <2>1. ASSUME NEW c \in Clients, HostFailed(c) PROVE Undisturbed'
    BY <2>1 DEF HostFailed
  <2>2. ASSUME NEW c \in Clients, Connect(c) PROVE Undisturbed'
    BY <2>2 DEF Connect, WalkInv, TypeOK
  <2>3. CASE disturbed' = disturbed
    BY <2>3
  <2> QED BY <2>1, <2>2, <2>3
          DEF Next, ClientNext, PickHost, Reached, HungUp, Drop, Change, vars
<1>3. WalkInv /\ Undisturbed => LiveHostIsFound
  BY DEF WalkInv, MissedOnlyIfDisturbed, LiveHostIsFound
<1> QED BY <1>1, <1>2, <1>3, WalksTheDeque, PTL DEF Spec
=============================================================================

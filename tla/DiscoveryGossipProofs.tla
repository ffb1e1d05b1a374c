------------------------- MODULE DiscoveryGossipProofs -------------------------
(* Theorems about DiscoveryGossip, for every cluster, configuration, timeout  *)
(* and number of faults.                                                      *)
EXTENDS DiscoveryGossip, TLAPS

LEMMA BroadcastType ==
  ASSUME NEW lk \in [Node -> [Node -> Seq(Message)]], NEW n \in Node, NEW m \in Message
  PROVE  Broadcast(lk, n, m) \in [Node -> [Node -> Seq(Message)]]
BY DEF Broadcast

LEMMA MessageType ==
  /\ \A t \in {"GossipGetPeers", "ClusterPing", "ClusterPong"} : Empty(t) \in Message
  /\ \A t \in {"GossipPeersRoster", "ClusterNodeLeft"} :
       \A S \in SUBSET Node : Naming(t, S) \in Message
BY DEF Empty, Naming, Message

LEMMA PoppedType ==
  ASSUME TypeOK, NEW p \in Node, NEW n \in Node, link[p][n] # <<>>
  PROVE  /\ Popped(p, n) \in [Node -> [Node -> Seq(Message)]]
         /\ Head(link[p][n]) \in Message
BY DEF TypeOK, Popped

(* Hearing of known or unknown nodes keeps the table well typed.              *)
LEMMA SeesType ==
  ASSUME TypeOK, NEW n \in Node, NEW S \in SUBSET Node, Sees(n, S)
  PROVE  /\ peers' \in [Node -> [Node -> Status]]
         /\ age' \in [Node -> [Node -> 0..(Timeout + 1)]]
         /\ told' \in [Node -> SUBSET Node]
BY GossipAssumption DEF TypeOK, Sees, Status

LEMMA TypeOKInit == Init => TypeOK
<1> SUFFICES ASSUME Init PROVE TypeOK
  OBVIOUS
<1>1. Timeout \in Nat /\ MaxBreaks \in Nat /\ MaxCrashes \in Nat
  BY GossipAssumption
<1>2. running \subseteq Node /\ up \subseteq SUBSET Node
  <2>1. running \subseteq Node
    BY GossipAssumption DEF Init
  <2>2. up \subseteq {{n, p} : n, p \in running}
    BY DEF Init
  <2> QED BY <2>1, <2>2
<1>3. /\ peers \in [Node -> [Node -> Status]]
      /\ age \in [Node -> [Node -> 0..(Timeout + 1)]]
  BY <1>1 DEF Init, Status
<1>4. transports \in [Node -> SUBSET Node] /\ told \in [Node -> SUBSET Node]
  BY GossipAssumption DEF Init
<1>5. link \in [Node -> [Node -> Seq(Message)]] /\ due \in [Node -> SUBSET Timers]
  BY DEF Init
<1>6. breaks = 0 /\ crashes = 0
  BY DEF Init
<1> QED BY <1>1, <1>2, <1>3, <1>4, <1>5, <1>6 DEF TypeOK

LEMMA TimerType ==
  ASSUME TypeOK, NEW n \in Node, Gossip(n)
  PROVE  TypeOK'
<1>1. ASSUME NEW t, Fires(n, t),
             peers' \in [Node -> [Node -> Status]],
             age' \in [Node -> [Node -> 0..(Timeout + 1)]],
             told' \in [Node -> SUBSET Node],
             link' \in [Node -> [Node -> Seq(Message)]]
      PROVE  TypeOK'
  BY <1>1 DEF TypeOK, Fires, netVars
<1>2. link \in [Node -> [Node -> Seq(Message)]]
  BY DEF TypeOK
<1>3. CASE GossipTick(n)
  BY <1>1, <1>2, <1>3, BroadcastType, MessageType DEF GossipTick, TypeOK
<1>4. CASE HeartbeatTick(n)
  BY <1>1, <1>2, <1>4, BroadcastType, MessageType DEF HeartbeatTick, TypeOK
<1>5. CASE FailureCheckTick(n)
  <2>1. Expired(n) \in SUBSET Node
    BY DEF Expired
  <2>2. link' \in [Node -> [Node -> Seq(Message)]]
    BY <1>2, <1>5, <2>1, BroadcastType, MessageType DEF FailureCheckTick
  <2>3. peers' \in [Node -> [Node -> Status]] /\ told' \in [Node -> SUBSET Node]
    BY <1>5, <2>1 DEF FailureCheckTick, TypeOK, Status
  <2> QED BY <1>1, <1>5, <2>2, <2>3 DEF FailureCheckTick, TypeOK
<1> QED BY <1>3, <1>4, <1>5 DEF Gossip

LEMMA HandleType ==
  ASSUME TypeOK, NEW p \in Node, NEW n \in Node, Handle(p, n)
  PROVE  TypeOK'
<1>1. ASSUME NEW t, Arrives(p, n, t),
             peers' \in [Node -> [Node -> Status]],
             age' \in [Node -> [Node -> 0..(Timeout + 1)]],
             told' \in [Node -> SUBSET Node],
             transports' \in [Node -> SUBSET Node],
             link' \in [Node -> [Node -> Seq(Message)]]
      PROVE  TypeOK'
  BY <1>1 DEF TypeOK, Arrives, netVars
<1>2. /\ link[p][n] # <<>>
      /\ Popped(p, n) \in [Node -> [Node -> Seq(Message)]]
  BY PoppedType DEF Handle, GetPeers, PeersRoster, Ping, Pong, NodeLeft, Arrives
<1>3. Alive(n) \in SUBSET Node
  BY DEF Alive
<1>4. ASSUME NEW S \in SUBSET Node, Dials(n, S) PROVE transports' \in [Node -> SUBSET Node]
  BY <1>4 DEF Dials, TypeOK
<1>5. CASE GetPeers(p, n)
  <2>1. {n, p} \cup Alive(n) \in SUBSET Node
    BY <1>3
  <2>2. link' \in [Node -> [Node -> Seq(Message)]]
    BY <1>2, <1>5, <2>1, BroadcastType, MessageType DEF GetPeers
  <2>3. {p} \in SUBSET Node
    OBVIOUS
  <2> QED BY <1>1, <1>4, <1>5, <2>2, <2>3, SeesType DEF GetPeers
<1>6. CASE PeersRoster(p, n)
  <2>1. Head(link[p][n]).nodes \ {n} \in SUBSET Node
    BY <1>2, <1>6, PoppedType DEF PeersRoster, Arrives, Message
  <2> QED BY <1>1, <1>2, <1>4, <1>6, <2>1, SeesType DEF PeersRoster
<1>7. CASE Ping(p, n)
  <2>1. link' \in [Node -> [Node -> Seq(Message)]]
    BY <1>2, <1>7, BroadcastType, MessageType DEF Ping
  <2> QED BY <1>1, <1>7, <2>1, SeesType DEF Ping, Refresh, TypeOK
<1>8. CASE Pong(p, n)
  BY <1>1, <1>2, <1>8, SeesType DEF Pong, Refresh, TypeOK
<1>9. CASE NodeLeft(p, n)
  <2>1. peers' \in [Node -> [Node -> Status]]
    BY <1>9 DEF NodeLeft, TypeOK, Status
  <2> QED BY <1>1, <1>2, <1>9, <2>1 DEF NodeLeft, TypeOK
<1> QED BY <1>5, <1>6, <1>7, <1>8, <1>9 DEF Handle

LEMMA TypeOKNext == TypeOK /\ [Next]_vars => TypeOK'
<1> SUFFICES ASSUME TypeOK, [Next]_vars PROVE TypeOK'
  OBVIOUS
<1>1. ASSUME NEW n \in Node, Crash(n) PROVE TypeOK'
  <2>1. /\ peers' \in [Node -> [Node -> Status]]
        /\ age' \in [Node -> [Node -> 0..(Timeout + 1)]]
    BY <1>1, GossipAssumption DEF Crash, TypeOK, Status
  <2>2. /\ transports' \in [Node -> SUBSET Node] /\ told' \in [Node -> SUBSET Node]
        /\ due' \in [Node -> SUBSET Timers]
    BY <1>1, GossipAssumption DEF Crash, TypeOK
  <2>3. link' \in [Node -> [Node -> Seq(Message)]]
    BY <1>1 DEF Crash, TypeOK, Disconnected
  <2>4. /\ running' \subseteq Node /\ up' \subseteq SUBSET Node
        /\ breaks' \in 0..MaxBreaks /\ crashes' \in 0..MaxCrashes
    BY <1>1, GossipAssumption DEF Crash, TypeOK
  <2> QED BY <2>1, <2>2, <2>3, <2>4 DEF TypeOK
<1>2. ASSUME NEW n \in Node, Start(n) PROVE TypeOK'
  BY <1>2 DEF Start, TypeOK, tableVars, netVars
<1>3. ASSUME NEW p \in Node, NEW n \in Node, Dial(n, p) PROVE TypeOK'
  BY <1>3 DEF Dial, TypeOK, tableVars
<1>4. ASSUME NEW e \in up, Break(e) PROVE TypeOK'
  BY <1>4, GossipAssumption DEF Break, TypeOK, Disconnected, tableVars
<1>5. CASE Period
  <2>1. age' \in [Node -> [Node -> 0..(Timeout + 1)]]
    BY <1>5, GossipAssumption DEF Period, TypeOK
  <2> QED BY <1>5, <2>1 DEF Period, TypeOK, netVars
<1>6. CASE UNCHANGED vars
  BY <1>6 DEF vars, TypeOK
<1> QED
  BY <1>1, <1>2, <1>3, <1>4, <1>5, <1>6, TimerType, HandleType DEF Next

(* The gossip actors' tables, and the messages between them, keep their types *)
(* in every cluster.                                                          *)
THEOREM TypeCorrect == Spec => []TypeOK
BY TypeOKInit, TypeOKNext, PTL DEF Spec

-----------------------------------------------------------------------------
(* What is known is dialled.                                                  *)

LEMMA DialsWhatItSees ==
  ASSUME TypeOK, KnownIsDialled, NEW n \in Node, NEW S \in SUBSET Node,
         Sees(n, S), Dials(n, S)
  PROVE  KnownIsDialled'
BY DEF TypeOK, KnownIsDialled, Sees, Dials

(* A step that makes nobody known and forgets no address.                     *)
LEMMA NothingNewIsKnown ==
  ASSUME KnownIsDialled, UNCHANGED transports,
         \A n, q \in Node : peers[n][q] = "unknown" => peers'[n][q] = "unknown"
  PROVE  KnownIsDialled'
BY DEF KnownIsDialled

LEMMA KnownIsDialledNext == TypeOK /\ KnownIsDialled /\ [Next]_vars => KnownIsDialled'
<1> SUFFICES ASSUME TypeOK, KnownIsDialled, [Next]_vars PROVE KnownIsDialled'
  OBVIOUS
<1>1. UNCHANGED <<peers, transports>> => KnownIsDialled'
  BY NothingNewIsKnown
<1>2. ASSUME NEW n \in Node, Gossip(n) PROVE KnownIsDialled'
  <2>1. CASE FailureCheckTick(n)
    BY <2>1, NothingNewIsKnown DEF FailureCheckTick, Fires, Expired, TypeOK
  <2> QED BY <1>1, <1>2, <2>1 DEF Gossip, GossipTick, HeartbeatTick, Fires
<1>3. ASSUME NEW p \in Node, NEW n \in Node, Handle(p, n) PROVE KnownIsDialled'
  <2>1. CASE GetPeers(p, n)
    <3>1. {p} \in SUBSET Node
      OBVIOUS
    <3>2. Sees(n, {p}) /\ Dials(n, {p})
      BY <2>1 DEF GetPeers
    <3> QED BY <3>1, <3>2, DialsWhatItSees
  <2>2. CASE PeersRoster(p, n)
    <3>1. Head(link[p][n]).nodes \ {n} \in SUBSET Node
      BY <2>2, PoppedType DEF PeersRoster, Arrives, Message
    <3> QED BY <2>2, <3>1, DialsWhatItSees DEF PeersRoster
  <2>3. CASE Ping(p, n) \/ Pong(p, n)
    <3>1. Refresh(n, p) /\ UNCHANGED transports
      BY <2>3 DEF Ping, Pong
    <3>2. \A i, q \in Node : peers[i][q] = "unknown" => peers'[i][q] = "unknown"
      BY <3>1 DEF Refresh, Sees, TypeOK
    <3> QED BY <3>1, <3>2, NothingNewIsKnown
  <2>4. CASE NodeLeft(p, n)
    <3>1. \A i, q \in Node : peers[i][q] = "unknown" => peers'[i][q] = "unknown"
      BY <2>4 DEF NodeLeft, Alive, TypeOK
    <3> QED BY <2>4, <3>1, NothingNewIsKnown DEF NodeLeft
  <2> QED BY <1>3, <2>1, <2>2, <2>3, <2>4 DEF Handle
<1>4. ASSUME NEW n \in Node, Crash(n) PROVE KnownIsDialled'
  BY <1>4 DEF Crash, KnownIsDialled, TypeOK
<1> QED
  BY <1>1, <1>2, <1>3, <1>4
  DEF Next, Start, Dial, Break, Period, vars, tableVars, netVars

(* Every peer in a node's table is in its active transports: what is learnt   *)
(* from a request or a roster is dialled, through every fault and restart.    *)
THEOREM PeersAreDialled == Spec => []KnownIsDialled
<1>1. Init => KnownIsDialled
  BY GossipAssumption DEF Init, KnownIsDialled
<1>2. TypeOK /\ KnownIsDialled /\ [Next]_vars => KnownIsDialled'
  BY KnownIsDialledNext
<1> QED BY <1>1, <1>2, TypeCorrect, PTL DEF Spec

-----------------------------------------------------------------------------
(* No false alarm.  A node is connected only while it runs, messages are on   *)
(* the way only between connected nodes, and nobody is in its own table.      *)
LinksInv ==
  /\ up \subseteq SUBSET running
  /\ \A p, n \in Node : link[p][n] # <<>> => p \in Connected(n)
  /\ \A n \in Node : peers[n][n] = "unknown"

(* What the messages say: only the nodes of Dead are announced as gone, and a *)
(* roster names its sender and nodes the sender takes for alive.              *)
NoticesTrue ==
  \A p, n \in Node : \A m \in OnTheWay(p, n) :
    /\ m.type = "ClusterNodeLeft" => m.nodes \subseteq Dead
    /\ m.type = "GossipPeersRoster" =>
         \A q \in m.nodes \ Dead : q = p \/ peers[p][q] = "alive"

AlarmInv == NobodyGivenUp /\ NoticesTrue /\ HeardInTime

(* The messages of a queue.                                                   *)
Held(s) == {s[i] : i \in DOMAIN s}

LEMMA HeldOnWay == \A a, b : OnTheWay(a, b) = Held(link[a][b])
BY DEF OnTheWay, Held

LEMMA TailHeld ==
  ASSUME NEW S, NEW s \in Seq(S), s # <<>>
  PROVE  Held(Tail(s)) \subseteq Held(s) /\ Held(s) \subseteq Held(Tail(s)) \cup {Head(s)}
         /\ Head(s) \in Held(s)
<1>1. /\ DOMAIN s = 1..Len(s) /\ DOMAIN Tail(s) = 1..(Len(s) - 1) /\ Len(s) \in Nat \ {0}
      /\ Head(s) = s[1] /\ \A i \in 1..(Len(s) - 1) : Tail(s)[i] = s[i + 1]
  OBVIOUS
<1>2. ASSUME NEW i \in DOMAIN Tail(s) PROVE Tail(s)[i] \in Held(s)
  <2>1. i + 1 \in DOMAIN s /\ Tail(s)[i] = s[i + 1]
    BY <1>1, <1>2
  <2> QED BY <2>1 DEF Held
<1>3. ASSUME NEW i \in DOMAIN s, i # 1 PROVE s[i] \in Held(Tail(s))
  <2>1. i - 1 \in DOMAIN Tail(s) /\ s[i] = Tail(s)[i - 1]
    BY <1>1, <1>3
  <2> QED BY <2>1 DEF Held
<1>4. Head(s) \in Held(s)
  BY <1>1 DEF Held
<1> QED BY <1>1, <1>2, <1>3, <1>4 DEF Held

LEMMA AppendHeld ==
  ASSUME NEW S, NEW s \in Seq(S), NEW m \in S
  PROVE  Held(Append(s, m)) = Held(s) \cup {m}
<1>1. /\ DOMAIN s = 1..Len(s) /\ DOMAIN Append(s, m) = 1..(Len(s) + 1) /\ Len(s) \in Nat
      /\ Append(s, m)[Len(s) + 1] = m /\ \A i \in 1..Len(s) : Append(s, m)[i] = s[i]
  OBVIOUS
<1>2. ASSUME NEW i \in DOMAIN Append(s, m) PROVE Append(s, m)[i] \in Held(s) \cup {m}
  <2>1. i \in DOMAIN s \/ i = Len(s) + 1
    BY <1>1, <1>2
  <2> QED BY <1>1, <2>1 DEF Held
<1>3. ASSUME NEW i \in DOMAIN s PROVE s[i] \in Held(Append(s, m))
  <2>1. i \in DOMAIN Append(s, m) /\ Append(s, m)[i] = s[i]
    BY <1>1, <1>3
  <2> QED BY <2>1 DEF Held
<1>4. m \in Held(Append(s, m))
  <2>1. Len(s) + 1 \in DOMAIN Append(s, m)
    BY <1>1
  <2> QED BY <1>1, <2>1 DEF Held
<1>5. Held(Append(s, m)) \subseteq Held(s) \cup {m}
  BY <1>2 DEF Held
<1>6. Held(s) \subseteq Held(Append(s, m))
  BY <1>3 DEF Held
<1> QED BY <1>4, <1>5, <1>6

(* What is on the way after a message has been taken or sent.                 *)
LEMMA PoppedCarries ==
  ASSUME TypeOK, NEW p \in Node, NEW n \in Node, link[p][n] # <<>>,
         NEW a \in Node, NEW b \in Node
  PROVE  /\ Held(Popped(p, n)[a][b]) \subseteq OnTheWay(a, b)
         /\ OnTheWay(a, b) \subseteq Held(Popped(p, n)[a][b])
              \/ (a = p /\ b = n
                   /\ OnTheWay(a, b) \subseteq Held(Popped(p, n)[a][b]) \cup {Head(link[p][n])})
<1>1. CASE ~(a = p /\ b = n)
  <2>1. Popped(p, n)[a][b] = link[a][b]
    BY <1>1 DEF Popped, TypeOK
  <2> QED BY <2>1, HeldOnWay
<1>2. CASE a = p /\ b = n
  <2> DEFINE s == link[p][n]
  <2>1. s \in Seq(Message) /\ s # <<>>
    BY DEF TypeOK
  <2>2. Popped(p, n)[a][b] = Tail(s)
    BY <1>2 DEF Popped, TypeOK
  <2> HIDE DEF s
  <2>3. Held(Tail(s)) \subseteq Held(s) /\ Held(s) \subseteq Held(Tail(s)) \cup {Head(s)}
    BY <2>1, TailHeld
  <2>4. OnTheWay(a, b) = Held(s)
    BY <1>2, HeldOnWay DEF s
  <2> QED BY <1>2, <2>2, <2>3, <2>4 DEF s
<1> QED BY <1>1, <1>2

(* The messages of next are those of lk, and m on every connection of n.      *)
Carries(next, lk, n, m) ==
  \A a, b \in Node :
    /\ Held(lk[a][b]) \subseteq Held(next[a][b])
    /\ \A x \in Held(next[a][b]) : x \in Held(lk[a][b]) \/ (a = n /\ x = m)
    /\ a = n /\ b \in Connected(n) => m \in Held(next[a][b])

LEMMA BroadcastCarries ==
  ASSUME NEW lk \in [Node -> [Node -> Seq(Message)]], NEW n \in Node, NEW m \in Message
  PROVE  Carries(Broadcast(lk, n, m), lk, n, m)
<1> DEFINE next == Broadcast(lk, n, m)
<1> SUFFICES ASSUME NEW a \in Node, NEW b \in Node
             PROVE  /\ Held(lk[a][b]) \subseteq Held(next[a][b])
                    /\ \A x \in Held(next[a][b]) : x \in Held(lk[a][b]) \/ (a = n /\ x = m)
                    /\ a = n /\ b \in Connected(n) => m \in Held(next[a][b])
  BY DEF Carries
<1> HIDE DEF next
<1>1. CASE a = n /\ b \in Connected(n)
  <2> DEFINE s == lk[a][b]
  <2>1. s \in Seq(Message)
    OBVIOUS
  <2>2. next[a][b] = Append(s, m)
    BY <1>1 DEF Broadcast, next
  <2> HIDE DEF s
  <2>3. Held(Append(s, m)) = Held(s) \cup {m}
    BY <2>1, AppendHeld
  <2>4. Held(next[a][b]) = Held(s) \cup {m}
    BY <2>2, <2>3
  <2> QED BY <1>1, <2>4 DEF s
<1>2. CASE ~(a = n /\ b \in Connected(n))
  <2>1. next[a][b] = lk[a][b]
    BY <1>2 DEF Broadcast, next
  <2> QED BY <1>2, <2>1
<1> QED BY <1>1, <1>2

-----------------------------------------------------------------------------
(* Messages are on the way only between connected nodes that run.             *)
LEMMA ConnectedBothWays ==
  \A a, b \in Node : a \in Connected(b) <=> b \in Connected(a)
<1>1. \A a, b : {a, b} = {b, a}
  OBVIOUS
<1> QED BY <1>1 DEF Connected, Others

LinksOf(lk) == \A p, n \in Node : lk[p][n] # <<>> => p \in Connected(n)

LEMMA PoppedLinks ==
  ASSUME TypeOK, LinksOf(link), NEW p \in Node, NEW n \in Node, link[p][n] # <<>>
  PROVE  LinksOf(Popped(p, n))
<1> SUFFICES ASSUME NEW a \in Node, NEW b \in Node, Popped(p, n)[a][b] # <<>>
             PROVE  a \in Connected(b)
  BY DEF LinksOf
<1>1. CASE a = p /\ b = n
  BY <1>1 DEF LinksOf
<1>2. CASE ~(a = p /\ b = n)
  <2>1. Popped(p, n)[a][b] = link[a][b]
    BY <1>2 DEF Popped, TypeOK
  <2> QED BY <2>1 DEF LinksOf
<1> QED BY <1>1, <1>2

LEMMA BroadcastLinks ==
  ASSUME NEW lk \in [Node -> [Node -> Seq(Message)]], LinksOf(lk), NEW n \in Node, NEW m
  PROVE  LinksOf(Broadcast(lk, n, m))
<1> SUFFICES ASSUME NEW a \in Node, NEW b \in Node, Broadcast(lk, n, m)[a][b] # <<>>
             PROVE  a \in Connected(b)
  BY DEF LinksOf
<1>1. CASE a = n /\ b \in Connected(n)
  BY <1>1, ConnectedBothWays
<1>2. CASE ~(a = n /\ b \in Connected(n))
  <2>1. Broadcast(lk, n, m)[a][b] = lk[a][b]
    BY <1>2 DEF Broadcast
  <2> QED BY <2>1 DEF LinksOf
<1> QED BY <1>1, <1>2

LEMMA DisconnectedLinks ==
  ASSUME LinksOf(link), NEW E, link' = Disconnected(link, E), up' = up \ E
  PROVE  LinksOf(link)'
<1> SUFFICES ASSUME NEW a \in Node, NEW b \in Node, link'[a][b] # <<>>
             PROVE  (a \in Connected(b))'
  BY DEF LinksOf
<1>1. {a, b} \notin E /\ link[a][b] # <<>>
  BY DEF Disconnected
<1>2. a \in Others(b) /\ {b, a} \in up /\ {b, a} = {a, b}
  BY <1>1 DEF LinksOf, Connected
<1> QED BY <1>1, <1>2 DEF Connected, Others

(* Nobody who hears of others hears of itself.                                *)
LEMMA SeesOthers ==
  ASSUME TypeOK, NEW n \in Node, NEW S \in SUBSET Others(n), Sees(n, S),
         \A i \in Node : peers[i][i] = "unknown"
  PROVE  \A i \in Node : peers'[i][i] = "unknown"
BY DEF TypeOK, Sees, Others

LEMMA HandleLinks ==
  ASSUME TypeOK, LinksInv, NEW p \in Node, NEW n \in Node, Handle(p, n)
  PROVE  LinksInv'
<1>1. /\ link[p][n] # <<>> /\ UNCHANGED <<running, up>>
      /\ Popped(p, n) \in [Node -> [Node -> Seq(Message)]]
  BY PoppedType DEF Handle, GetPeers, PeersRoster, Ping, Pong, NodeLeft, Arrives, netVars
<1>2. LinksOf(Popped(p, n)) /\ {p} \in SUBSET Others(n) /\ {} \in SUBSET Others(n)
  BY <1>1, PoppedLinks DEF LinksInv, LinksOf, Connected, Others
<1>3. LinksOf(link')
  <2>1. link' = Popped(p, n) \/ \E m : link' = Broadcast(Popped(p, n), n, m)
    BY DEF Handle, GetPeers, PeersRoster, Ping, Pong, NodeLeft
  <2>2. ASSUME NEW m, link' = Broadcast(Popped(p, n), n, m) PROVE LinksOf(link')
    <3>1. LinksOf(Broadcast(Popped(p, n), n, m))
      BY <1>1, <1>2, BroadcastLinks
    <3> QED BY <2>2, <3>1 DEF LinksOf
  <2> QED BY <1>2, <2>1, <2>2 DEF LinksOf
<1>4. \A i \in Node : peers'[i][i] = "unknown"
  <2>1. CASE GetPeers(p, n)
    <3>1. Sees(n, {p}) /\ \A i \in Node : peers[i][i] = "unknown"
      BY <2>1 DEF GetPeers, LinksInv
    <3> QED BY <1>2, <3>1, SeesOthers
  <2>2. CASE PeersRoster(p, n)
    <3>1. Head(link[p][n]).nodes \ {n} \in SUBSET Others(n)
      BY <2>2, <1>1, PoppedType DEF PeersRoster, Arrives, Message, Others
    <3> QED BY <2>2, <3>1, SeesOthers DEF PeersRoster, LinksInv
  <2>3. CASE Ping(p, n) \/ Pong(p, n)
    <3>1. \A i \in Node : peers[i][i] = "unknown"
      BY DEF LinksInv
    <3>2. \E S \in SUBSET Others(n) : Sees(n, S)
      BY <1>2, <2>3 DEF Ping, Pong, Refresh
    <3> QED BY <3>1, <3>2, SeesOthers
  <2>4. CASE NodeLeft(p, n)
    BY <2>4 DEF NodeLeft, Alive, TypeOK, LinksInv
  <2> QED BY <2>1, <2>2, <2>3, <2>4 DEF Handle
<1> QED BY <1>1, <1>3, <1>4 DEF LinksInv, LinksOf, Connected

LEMMA TimerLinks ==
  ASSUME TypeOK, LinksInv, NEW n \in Node, Gossip(n)
  PROVE  LinksInv'
<1>1. UNCHANGED <<running, up>> /\ link \in [Node -> [Node -> Seq(Message)]]
  BY DEF Gossip, GossipTick, HeartbeatTick, FailureCheckTick, Fires, netVars, TypeOK
<1>2. LinksOf(link')
  <2>1. link' = link \/ \E m : link' = Broadcast(link, n, m)
    BY DEF Gossip, GossipTick, HeartbeatTick, FailureCheckTick
  <2>2. LinksOf(link)
    BY DEF LinksInv, LinksOf
  <2>3. ASSUME NEW m, link' = Broadcast(link, n, m) PROVE LinksOf(link')
    <3>1. LinksOf(Broadcast(link, n, m))
      BY <1>1, <2>2, BroadcastLinks
    <3> QED BY <2>3, <3>1 DEF LinksOf
  <2> QED BY <2>1, <2>2, <2>3 DEF LinksOf
<1>3. \A i \in Node : peers'[i][i] = "unknown"
  <2>1. CASE FailureCheckTick(n)
    BY <2>1 DEF LinksInv, FailureCheckTick, Expired, TypeOK
  <2> QED BY <2>1 DEF LinksInv, Gossip, GossipTick, HeartbeatTick
<1> QED BY <1>1, <1>2, <1>3 DEF LinksInv, LinksOf, Connected

LEMMA LinksNext == TypeOK /\ LinksInv /\ [Next]_vars => LinksInv'
<1> SUFFICES ASSUME TypeOK, LinksInv, [Next]_vars PROVE LinksInv'
  OBVIOUS
<1>1. ASSUME NEW n \in Node, Crash(n) PROVE LinksInv'
  <2> DEFINE mine == {e \in up : n \in e}
  <2>1. up' = up \ mine /\ link' = Disconnected(link, mine) /\ running' = running \ {n}
    BY <1>1 DEF Crash
  <2>2. LinksOf(link)'
    <3>1. LinksOf(link)
      BY DEF LinksInv, LinksOf
    <3> QED BY <2>1, <3>1, DisconnectedLinks
  <2>3. up' \subseteq SUBSET running'
    BY <2>1 DEF LinksInv
  <2>4. \A i \in Node : peers'[i][i] = "unknown"
    BY <1>1 DEF Crash, LinksInv, TypeOK
  <2> QED BY <2>2, <2>3, <2>4 DEF LinksInv, LinksOf
<1>2. ASSUME NEW n \in Node, Start(n) PROVE LinksInv'
  BY <1>2 DEF Start, LinksInv, tableVars, netVars, Connected
<1>3. ASSUME NEW p \in Node, NEW n \in Node, Dial(n, p) PROVE LinksInv'
  <2>1. up' = up \cup {{n, p}} /\ n \in running /\ p \in running
        /\ UNCHANGED <<running, link, peers>>
    BY <1>3 DEF Dial, tableVars
  <2> QED BY <2>1 DEF LinksInv, Connected
<1>4. ASSUME NEW e \in up, Break(e) PROVE LinksInv'
  <2>1. up' = up \ {e} /\ link' = Disconnected(link, {e}) /\ UNCHANGED <<running, peers>>
    BY <1>4 DEF Break, tableVars
  <2>2. LinksOf(link)'
    <3>1. LinksOf(link)
      BY DEF LinksInv, LinksOf
    <3> QED BY <2>1, <3>1, DisconnectedLinks
  <2> QED BY <2>1, <2>2 DEF LinksInv, LinksOf
<1>5. CASE Period
  BY <1>5 DEF Period, LinksInv, netVars, Connected
<1>6. CASE UNCHANGED vars
  BY <1>6 DEF vars, LinksInv, Connected
<1> QED
  BY <1>1, <1>2, <1>3, <1>4, <1>5, <1>6, TimerLinks, HandleLinks DEF Next

(* Whatever breaks, dies or is started again: connections join running nodes  *)
(* only, messages are on the way on connections only, and no node is a peer   *)
(* of its own.                                                                *)
THEOREM LinksCorrect == Spec => []LinksInv
<1>1. Init => LinksInv
  <2> SUFFICES ASSUME Init PROVE LinksInv
    OBVIOUS
  <2>1. up \subseteq {{n, p} : n, p \in running}
    BY DEF Init
  <2>2. up \subseteq SUBSET running
    BY <2>1
  <2> QED BY <2>2 DEF Init, LinksInv
<1>2. TypeOK /\ LinksInv /\ [Next]_vars => LinksInv'
  BY LinksNext
<1> QED BY <1>1, <1>2, TypeCorrect, PTL DEF Spec

-----------------------------------------------------------------------------
(* The table of peers in a step that loses nothing: whoever is taken for      *)
(* alive stays so, nobody is given up, and who is new has been vouched for.   *)
SteadyTables ==
  \A i \in Node, q \in Node \ Dead :
    /\ peers'[i][q] # "dead"
    /\ peers[i][q] = "alive" => peers'[i][q] = "alive"
    /\ peers'[i][q] = "alive" =>
         \/ peers[i][q] = "alive" /\ age'[i][q] = age[i][q]
         \/ age'[i][q] = 0 /\ (peers[i][q] = "alive" \/ \E p \in Node : Vouches(p, i, q))

LEMMA UnchangedSteady == NobodyGivenUp /\ UNCHANGED <<peers, age>> => SteadyTables
BY DEF NobodyGivenUp, SteadyTables

LEMMA SeesSteady ==
  ASSUME TypeOK, NobodyGivenUp, NEW n \in Node, NEW S \in SUBSET Node, Sees(n, S),
         \A q \in S \ Dead : \E p \in Node : Vouches(p, n, q)
  PROVE  SteadyTables
<1> SUFFICES ASSUME NEW i \in Node, NEW q \in Node \ Dead
             PROVE  /\ peers'[i][q] # "dead"
                    /\ peers[i][q] = "alive" => peers'[i][q] = "alive"
                    /\ peers'[i][q] = "alive" =>
                         \/ peers[i][q] = "alive" /\ age'[i][q] = age[i][q]
                         \/ age'[i][q] = 0 /\ (peers[i][q] = "alive" \/ \E p \in Node : Vouches(p, i, q))
  BY DEF SteadyTables
<1>1. CASE i = n /\ q \in S
  <2>1. peers'[i][q] = "alive" /\ age'[i][q] = 0
    BY <1>1 DEF Sees, TypeOK
  <2> QED BY <1>1, <2>1
<1>2. CASE ~(i = n /\ q \in S)
  <2>1. peers'[i][q] = peers[i][q] /\ age'[i][q] = age[i][q]
    BY <1>2 DEF Sees, TypeOK
  <2> QED BY <2>1 DEF NobodyGivenUp
<1> QED BY <1>1, <1>2

LEMMA LeavesSteady ==
  ASSUME TypeOK, NobodyGivenUp, NEW n \in Node, NEW D \in SUBSET Dead, UNCHANGED age,
         peers' = [peers EXCEPT ![n] = [q \in Node |-> IF q \in D THEN "dead" ELSE peers[n][q]]]
  PROVE  SteadyTables
<1>1. ASSUME NEW i \in Node, NEW q \in Node \ Dead
      PROVE  peers'[i][q] = peers[i][q] /\ age'[i][q] = age[i][q]
  BY DEF TypeOK
<1> QED BY <1>1 DEF NobodyGivenUp, SteadyTables

(* As long as fewer connections broke than the window has periods, only the   *)
(* dead run out of it.                                                        *)
LEMMA OnlyDeadExpire ==
  ASSUME TypeOK, HeardInTime, breaks < Timeout, NEW n \in Node
  PROVE  Expired(n) \in SUBSET Dead
<1> SUFFICES ASSUME NEW q \in Expired(n), q \notin Dead PROVE FALSE
  OBVIOUS
<1>1. q \in Node \ Dead /\ peers[n][q] = "alive" /\ age[n][q] > Timeout
  BY DEF Expired
<1>2. age[n][q] \in Int /\ breaks \in Int /\ Timeout \in Int
  BY <1>1, GossipAssumption DEF TypeOK
<1>3. age[n][q] <= breaks + 1
  BY <1>1, <1>2 DEF HeardInTime
<1> QED BY <1>1, <1>2, <1>3

(* What a message that is taken says: it comes from a connected node, which   *)
(* vouches for itself, and a roster names nodes its sender vouches for.       *)
LEMMA TakenVouches ==
  ASSUME TypeOK, LinksInv, NoticesTrue, NEW p \in Node, NEW n \in Node, link[p][n] # <<>>
  PROVE  /\ p \in Connected(n) /\ Vouches(p, n, p)
         /\ Head(link[p][n]) \in OnTheWay(p, n)
         /\ Head(link[p][n]).type = "ClusterNodeLeft" => Head(link[p][n]).nodes \subseteq Dead
         /\ Head(link[p][n]).type = "GossipPeersRoster" =>
              \A q \in Head(link[p][n]).nodes \ Dead : Vouches(p, n, q)
<1>1. p \in Connected(n)
  BY DEF LinksInv
<1>2. Head(link[p][n]) \in OnTheWay(p, n)
  <2>1. link[p][n] \in Seq(Message)
    BY DEF TypeOK
  <2> QED BY <2>1, TailHeld, HeldOnWay
<1> QED BY <1>1, <1>2 DEF NoticesTrue, Vouches

LEMMA TablesSteady ==
  ASSUME TypeOK, LinksInv, NobodyGivenUp, NoticesTrue, HeardInTime, breaks < Timeout,
         (\E n \in Node : Gossip(n)) \/ (\E p, n \in Node : Handle(p, n))
  PROVE  SteadyTables
<1>1. ASSUME NEW n \in Node, Gossip(n) PROVE SteadyTables
  <2>1. CASE FailureCheckTick(n)
    <3>1. Expired(n) \in SUBSET Dead
      BY OnlyDeadExpire
    <3> QED BY <2>1, <3>1, LeavesSteady DEF FailureCheckTick
  <2> QED BY <1>1, <2>1, UnchangedSteady DEF Gossip, GossipTick, HeartbeatTick
<1>2. ASSUME NEW p \in Node, NEW n \in Node, Handle(p, n) PROVE SteadyTables
  <2>1. link[p][n] # <<>>
    BY <1>2 DEF Handle, GetPeers, PeersRoster, Ping, Pong, NodeLeft, Arrives
  <2>2. {p} \in SUBSET Node /\ \A q \in {p} \ Dead : \E v \in Node : Vouches(v, n, q)
    BY <2>1, TakenVouches
  <2>3. CASE GetPeers(p, n)
    <3>1. Sees(n, {p})
      BY <2>3 DEF GetPeers
    <3> QED BY <2>2, <3>1, SeesSteady
  <2>4. CASE PeersRoster(p, n)
    <3> DEFINE S == Head(link[p][n]).nodes \ {n}
    <3>1. S \in SUBSET Node
      BY <2>1, <2>4, PoppedType DEF PeersRoster, Arrives, Message
    <3>2. \A q \in S \ Dead : \E v \in Node : Vouches(v, n, q)
      BY <2>1, <2>4, TakenVouches DEF PeersRoster, Arrives
    <3>3. Sees(n, S)
      BY <2>4 DEF PeersRoster
    <3> HIDE DEF S
    <3> QED BY <3>1, <3>2, <3>3, SeesSteady
  <2>5. CASE Ping(p, n) \/ Pong(p, n)
    <3>1. Sees(n, {p}) \/ Sees(n, {})
      BY <2>5 DEF Ping, Pong, Refresh
    <3> QED BY <2>2, <3>1, SeesSteady
  <2>6. CASE NodeLeft(p, n)
    <3> DEFINE D == (Head(link[p][n]).nodes \cap Alive(n)) \ {n}
    <3>1. D \in SUBSET Dead
      BY <2>1, <2>6, TakenVouches DEF NodeLeft, Arrives
    <3>2. /\ UNCHANGED age
          /\ peers' = [peers EXCEPT ![n] = [q \in Node |->
                         IF q \in D THEN "dead" ELSE peers[n][q]]]
      BY <2>6 DEF NodeLeft
    <3> HIDE DEF D
    <3> QED BY <3>1, <3>2, LeavesSteady
  <2> QED BY <1>2, <2>3, <2>4, <2>5, <2>6 DEF Handle
<1> QED BY <1>1, <1>2

(* The messages after a step that took or sent some.                          *)
LEMMA HeldNext == \A a, b : OnTheWay(a, b)' = Held(link'[a][b])
BY DEF OnTheWay, Held

NoticeTrue(table, p, m) ==
  /\ m.type = "ClusterNodeLeft" => m.nodes \subseteq Dead
  /\ m.type = "GossipPeersRoster" =>
       \A q \in m.nodes \ Dead : q = p \/ table[p][q] = "alive"

LEMMA NoticesStayTrue ==
  ASSUME TypeOK, SteadyTables, NoticesTrue, link' \in [Node -> [Node -> Seq(Message)]],
         \A a, b \in Node : \A m \in Held(link'[a][b]) :
           m \in OnTheWay(a, b) \/ NoticeTrue(peers', a, m)
  PROVE  NoticesTrue'
<1> SUFFICES ASSUME NEW a \in Node, NEW b \in Node, NEW m \in OnTheWay(a, b)'
             PROVE  NoticeTrue(peers', a, m)
  BY DEF NoticesTrue, NoticeTrue
<1>1. m \in Held(link'[a][b])
  BY HeldNext
<1>2. CASE m \in OnTheWay(a, b)
  <2>1. m \in Message
    <3>1. PICK i \in DOMAIN link[a][b] : m = link[a][b][i]
      BY <1>2 DEF OnTheWay
    <3>2. link[a][b] \in Seq(Message)
      BY DEF TypeOK
    <3> QED BY <3>1, <3>2
  <2>2. NoticeTrue(peers, a, m)
    BY <1>2 DEF NoticesTrue, NoticeTrue
  <2>3. m.type = "GossipPeersRoster" => m.nodes \subseteq Node
    BY <2>1 DEF Message
  <2> QED BY <2>2, <2>3 DEF NoticeTrue, SteadyTables
<1> QED BY <1>1, <1>2

LEMMA TimerNotices ==
  ASSUME TypeOK, SteadyTables, NoticesTrue, HeardInTime, breaks < Timeout,
         NEW n \in Node, Gossip(n)
  PROVE  NoticesTrue'
<1>1. link \in [Node -> [Node -> Seq(Message)]]
  BY DEF TypeOK
<1>2. ASSUME NEW m \in Message, NoticeTrue(peers', n, m), link' = Broadcast(link, n, m)
      PROVE  NoticesTrue'
  <2>1. link' \in [Node -> [Node -> Seq(Message)]]
    BY <1>1, <1>2, BroadcastType
  <2>2. ASSUME NEW a \in Node, NEW b \in Node, NEW x \in Held(link'[a][b])
        PROVE  x \in OnTheWay(a, b) \/ NoticeTrue(peers', a, x)
    <3>1. Carries(link', link, n, m)
      BY <1>1, <1>2, BroadcastCarries
    <3>2. x \in Held(link[a][b]) \/ (a = n /\ x = m)
      BY <2>2, <3>1 DEF Carries
    <3> QED BY <1>2, <3>2, HeldOnWay
  <2> QED BY <2>1, <2>2, NoticesStayTrue
<1>3. CASE GossipTick(n) \/ HeartbeatTick(n)
  <2>1. \A t \in {"GossipGetPeers", "ClusterPing"} :
          Empty(t) \in Message /\ NoticeTrue(peers', n, Empty(t))
    BY MessageType DEF NoticeTrue, Empty
  <2> QED BY <1>2, <1>3, <2>1 DEF GossipTick, HeartbeatTick
<1>4. CASE FailureCheckTick(n)
  <2>1. Expired(n) \in SUBSET Dead /\ Expired(n) \in SUBSET Node
    BY OnlyDeadExpire DEF Expired
  <2> DEFINE m == Naming("ClusterNodeLeft", Expired(n))
  <2>2. m \in Message /\ NoticeTrue(peers', n, m)
    BY <2>1, MessageType DEF NoticeTrue, Naming
  <2>3. link' = link \/ link' = Broadcast(link, n, m)
    BY <1>4 DEF FailureCheckTick
  <2> HIDE DEF m
  <2>4. link' = link => NoticesTrue'
    BY <1>1, NoticesStayTrue, HeldOnWay
  <2> QED BY <1>2, <2>2, <2>3, <2>4
<1> QED BY <1>3, <1>4 DEF Gossip

LEMMA HandleNotices ==
  ASSUME TypeOK, LinksInv, SteadyTables, NobodyGivenUp, NoticesTrue,
         NEW p \in Node, NEW n \in Node, Handle(p, n)
  PROVE  NoticesTrue'
<1> DEFINE lk == Popped(p, n)
<1>1. link[p][n] # <<>>
  BY DEF Handle, GetPeers, PeersRoster, Ping, Pong, NodeLeft, Arrives
<1>2. lk \in [Node -> [Node -> Seq(Message)]]
  BY <1>1, PoppedType
<1>3. \A a, b \in Node : Held(lk[a][b]) \subseteq OnTheWay(a, b)
  BY <1>1, PoppedCarries
<1> HIDE DEF lk
<1>4. ASSUME NEW m \in Message, NoticeTrue(peers', n, m), link' = Broadcast(lk, n, m)
      PROVE  NoticesTrue'
  <2>1. link' \in [Node -> [Node -> Seq(Message)]]
    BY <1>2, <1>4, BroadcastType
  <2>2. ASSUME NEW a \in Node, NEW b \in Node, NEW x \in Held(link'[a][b])
        PROVE  x \in OnTheWay(a, b) \/ NoticeTrue(peers', a, x)
    <3>1. Carries(link', lk, n, m)
      BY <1>2, <1>4, BroadcastCarries
    <3>2. x \in Held(lk[a][b]) \/ (a = n /\ x = m)
      BY <2>2, <3>1 DEF Carries
    <3> QED BY <1>3, <1>4, <3>2
  <2> QED BY <2>1, <2>2, NoticesStayTrue
<1>5. link' = lk => NoticesTrue'
  BY <1>2, <1>3, NoticesStayTrue
<1>6. CASE GetPeers(p, n)
  <2> DEFINE S == {n, p} \cup Alive(n)
  <2>1. S \in SUBSET Node /\ Sees(n, {p}) /\ link' = Broadcast(lk, n, Naming("GossipPeersRoster", S))
    BY <1>6 DEF GetPeers, Alive, lk
  <2>2. \A q \in S \ Dead : q = n \/ peers'[n][q] = "alive"
    BY <2>1 DEF Sees, Alive, TypeOK
  <2> HIDE DEF S
  <2>3. Naming("GossipPeersRoster", S) \in Message /\ NoticeTrue(peers', n, Naming("GossipPeersRoster", S))
    BY <2>1, <2>2, MessageType DEF NoticeTrue, Naming
  <2> QED BY <1>4, <2>1, <2>3
<1>7. CASE Ping(p, n)
  <2>1. Empty("ClusterPong") \in Message /\ NoticeTrue(peers', n, Empty("ClusterPong"))
    BY MessageType DEF NoticeTrue, Empty
  <2> QED BY <1>4, <1>7, <2>1 DEF Ping, lk
<1>8. CASE PeersRoster(p, n) \/ Pong(p, n) \/ NodeLeft(p, n)
  BY <1>5, <1>8 DEF PeersRoster, Pong, NodeLeft, lk
<1> QED BY <1>6, <1>7, <1>8 DEF Handle

(* Who vouches keeps vouching.                                                *)
LEMMA VouchesKept ==
  ASSUME SteadyTables, up \subseteq up',
         NEW p \in Node, NEW n \in Node, NEW q \in Node \ Dead, Vouches(p, n, q)
  PROVE  Vouches(p, n, q)'
BY DEF Vouches, SteadyTables, Connected

(* The news of a peer is not lost: it is asked for, the question is answered, *)
(* and the answer counts.                                                     *)
LEMMA TimerNews ==
  ASSUME TypeOK, SteadyTables, EveryoneVouchedFor, NEW i \in Node, Gossip(i),
         NEW n \in Node, NEW q \in Node \ Dead, peers[n][q] = "alive", ToBeHeardOf(n, q)
  PROVE  ToBeHeardOf(n, q)'
<1>1. link \in [Node -> [Node -> Seq(Message)]] /\ UNCHANGED up
  BY DEF TypeOK, Gossip, GossipTick, HeartbeatTick, FailureCheckTick, Fires, netVars
<1>2. \A a, b \in Node : OnTheWay(a, b) \subseteq OnTheWay(a, b)'
  <2>1. link' = link \/ \E m \in Message : link' = Broadcast(link, i, m)
    BY MessageType DEF Gossip, GossipTick, HeartbeatTick, FailureCheckTick, Expired
  <2>2. ASSUME NEW m \in Message, link' = Broadcast(link, i, m), NEW a \in Node, NEW b \in Node
        PROVE  Held(link[a][b]) \subseteq Held(link'[a][b])
    <3>1. Carries(link', link, i, m)
      BY <1>1, <2>2, BroadcastCarries
    <3> QED BY <3>1 DEF Carries
  <2> QED BY <2>1, <2>2, HeldOnWay, HeldNext
<1>3. CASE "gossip" \in due[n] /\ GossipTick(n)
  <2>1. PICK p \in Node : Vouches(p, n, q)
    BY DEF EveryoneVouchedFor
  <2>2. Vouches(p, n, q)'
    BY <1>1, <2>1, VouchesKept
  <2>3. p \in Connected(n) /\ link' = Broadcast(link, n, Empty("GossipGetPeers"))
    BY <1>3, <2>1 DEF Vouches, GossipTick
  <2>4. Empty("GossipGetPeers") \in Held(link'[n][p])
    <3>1. Carries(link', link, n, Empty("GossipGetPeers"))
      BY <1>1, <2>3, MessageType, BroadcastCarries
    <3> QED BY <2>3, <3>1 DEF Carries
  <2> QED BY <2>2, <2>4, HeldNext DEF ToBeHeardOf
<1>4. CASE "gossip" \in due[n] /\ ~GossipTick(n)
  <2>1. "gossip" \in due'[n]
    <3>1. PICK t : Fires(i, t) /\ (i = n => t # "gossip")
      BY <1>4 DEF Gossip, GossipTick, HeartbeatTick, FailureCheckTick
    <3> QED BY <1>4, <3>1 DEF Fires, TypeOK
  <2> QED BY <2>1 DEF ToBeHeardOf
<1>5. CASE "gossip" \notin due[n]
  <2>1. CASE \E p \in Node : Vouches(p, n, q) /\ Empty("GossipGetPeers") \in OnTheWay(n, p)
    <3>1. PICK p \in Node : Vouches(p, n, q) /\ Empty("GossipGetPeers") \in OnTheWay(n, p)
      BY <2>1
    <3>2. Vouches(p, n, q)'
      BY <1>1, <3>1, VouchesKept
    <3> QED BY <1>2, <3>1, <3>2 DEF ToBeHeardOf
  <2>2. CASE \E p \in Node : \E m \in OnTheWay(p, n) : m.type = "GossipPeersRoster" /\ q \in m.nodes
    BY <1>2, <2>2 DEF ToBeHeardOf
  <2> QED BY <1>5, <2>1, <2>2 DEF ToBeHeardOf
<1> QED BY <1>3, <1>4, <1>5

LEMMA HandleNews ==
  ASSUME TypeOK, LinksInv, SteadyTables, NEW r \in Node, NEW i \in Node, Handle(r, i),
         NEW n \in Node, NEW q \in Node \ Dead, peers[n][q] = "alive", ToBeHeardOf(n, q)
  PROVE  ToBeHeardOf(n, q)' \/ age'[n][q] = 0
<1> DEFINE lk == Popped(r, i)
           taken == Head(link[r][i])
<1>1. link[r][i] # <<>> /\ UNCHANGED <<up, due>>
  BY DEF Handle, GetPeers, PeersRoster, Ping, Pong, NodeLeft, Arrives, netVars
<1>2. lk \in [Node -> [Node -> Seq(Message)]]
  BY <1>1, PoppedType
<1>3. ASSUME NEW a \in Node, NEW b \in Node, NEW m \in OnTheWay(a, b)
      PROVE  m \in OnTheWay(a, b)' \/ (a = r /\ b = i /\ m = taken)
  <2>1. m \in Held(lk[a][b]) \/ (a = r /\ b = i /\ m = taken)
    BY <1>1, <1>3, PoppedCarries
  <2>2. link' = lk \/ \E x \in Message : link' = Broadcast(lk, i, x)
    BY MessageType DEF Handle, GetPeers, PeersRoster, Ping, Pong, NodeLeft, Alive
  <2> HIDE DEF lk
  <2>3. ASSUME NEW x \in Message, link' = Broadcast(lk, i, x)
        PROVE  Held(lk[a][b]) \subseteq Held(link'[a][b])
    <3>1. Carries(link', lk, i, x)
      BY <1>2, <2>3, BroadcastCarries
    <3> QED BY <3>1 DEF Carries
  <2>4. Held(lk[a][b]) \subseteq Held(link'[a][b])
    BY <2>2, <2>3
  <2> QED BY <2>1, <2>4, HeldNext
<1>4. \A p \in Node : Vouches(p, n, q) => Vouches(p, n, q)'
  BY <1>1, VouchesKept
<1>5. CASE "gossip" \in due[n]
  BY <1>1, <1>5 DEF ToBeHeardOf
<1>6. ASSUME NEW p \in Node, Vouches(p, n, q), Empty("GossipGetPeers") \in OnTheWay(n, p)
      PROVE  ToBeHeardOf(n, q)'
  <2>1. CASE Empty("GossipGetPeers") \in OnTheWay(n, p)'
    BY <1>4, <1>6, <2>1 DEF ToBeHeardOf
  <2>2. CASE n = r /\ p = i /\ Empty("GossipGetPeers") = taken
    <3> DEFINE S == {i, r} \cup Alive(i)
               answer == Naming("GossipPeersRoster", S)
    <3>1. GetPeers(r, i)
      BY <2>2 DEF Handle, PeersRoster, Ping, Pong, NodeLeft, Arrives, Empty
    <3>2. link' = Broadcast(lk, i, answer)
      BY <3>1 DEF GetPeers
    <3>3. answer \in Message /\ answer.type = "GossipPeersRoster" /\ answer.nodes = S
      BY MessageType DEF Naming, Alive
    <3>4. q \in S /\ n \in Connected(i)
      BY <1>6, <2>2, ConnectedBothWays DEF Vouches, Alive
    <3> HIDE DEF lk, answer
    <3>5. Carries(link', lk, i, answer)
      BY <1>2, <3>2, <3>3, BroadcastCarries
    <3>6. answer \in OnTheWay(i, n)'
      BY <3>4, <3>5, HeldNext DEF Carries
    <3> QED BY <3>3, <3>4, <3>6 DEF ToBeHeardOf
  <2> QED BY <1>3, <1>6, <2>1, <2>2
<1>7. ASSUME NEW p \in Node, NEW m \in OnTheWay(p, n),
             m.type = "GossipPeersRoster", q \in m.nodes
      PROVE  ToBeHeardOf(n, q)' \/ age'[n][q] = 0
  <2>1. CASE m \in OnTheWay(p, n)'
    BY <1>7, <2>1 DEF ToBeHeardOf
  <2>2. CASE p = r /\ n = i /\ m = taken
    <3>1. PeersRoster(r, i)
      BY <1>7, <2>2 DEF Handle, GetPeers, Ping, Pong, NodeLeft, Arrives
    <3>2. q \in taken.nodes \ {n}
      BY <1>7, <2>2 DEF LinksInv
    <3> QED BY <2>2, <3>1, <3>2 DEF PeersRoster, Sees, TypeOK
  <2> QED BY <1>3, <1>7, <2>1, <2>2
<1> QED BY <1>5, <1>6, <1>7 DEF ToBeHeardOf

-----------------------------------------------------------------------------
(* The steps of time and of the network.                                      *)

(* A period ends only when the questions have been asked and answered: nobody *)
(* is left to be heard of, and what was to be heard has been.                 *)
LEMMA PeriodNews ==
  ASSUME TypeOK, LinksInv, EveryoneVouchedFor, HeardInTime, Period
  PROVE  HeardInTime'
<1> SUFFICES ASSUME NEW n \in Node, NEW q \in Node \ Dead, peers'[n][q] = "alive"
             PROVE  age'[n][q] <= breaks' \/ (age'[n][q] = breaks' + 1 /\ ToBeHeardOf(n, q)')
  BY DEF HeardInTime
<1>1. peers[n][q] = "alive" /\ breaks' = breaks /\ breaks \in Int /\ age[n][q] \in Int
      /\ UNCHANGED up
  BY DEF Period, netVars, TypeOK
<1>2. PICK p \in Node : Vouches(p, n, q)
  BY <1>1 DEF EveryoneVouchedFor
<1>3. n \in running
  BY <1>2 DEF Vouches, Connected, LinksInv
<1>4. "gossip" \notin due[n]
  BY <1>3 DEF Period
<1>5. \A a, b \in Node : OnTheWay(a, b) = {}
  BY DEF Period, OnTheWay
<1>6. ~ToBeHeardOf(n, q)
  BY <1>4, <1>5 DEF ToBeHeardOf
<1>7. age[n][q] <= breaks
  BY <1>1, <1>6 DEF HeardInTime
<1>8. "gossip" \in due'[n] /\ (age'[n][q] = age[n][q] \/ age'[n][q] = age[n][q] + 1)
  BY GossipAssumption DEF Period
<1> QED BY <1>1, <1>7, <1>8 DEF ToBeHeardOf

(* A connection that breaks costs the news of one period at most.             *)
LEMMA BreakNews ==
  ASSUME TypeOK, HeardInTime, NEW e \in up, Break(e)
  PROVE  HeardInTime'
<1> SUFFICES ASSUME NEW n \in Node, NEW q \in Node \ Dead, peers'[n][q] = "alive"
             PROVE  age'[n][q] <= breaks'
  BY DEF HeardInTime
<1>1. peers[n][q] = "alive" /\ age'[n][q] = age[n][q] /\ breaks' = breaks + 1
      /\ breaks \in Int /\ age[n][q] \in Int
  BY DEF Break, tableVars, TypeOK
<1> QED BY <1>1 DEF HeardInTime

LEMMA DisconnectedCarries ==
  ASSUME NEW E, link' = Disconnected(link, E), NEW a \in Node, NEW b \in Node
  PROVE  OnTheWay(a, b)' \subseteq OnTheWay(a, b)
<1>1. link'[a][b] = link[a][b] \/ link'[a][b] = <<>>
  BY DEF Disconnected
<1>2. CASE link'[a][b] = link[a][b]
  BY <1>2 DEF OnTheWay
<1>3. CASE link'[a][b] = <<>>
  BY <1>3 DEF OnTheWay
<1> QED BY <1>1, <1>2, <1>3

(* A step of the model without a crash, where no more connections have broken *)
(* than the window can bear, keeps everybody alive.                           *)
LEMMA AlarmNext ==
  ASSUME TypeOK, LinksInv, EveryoneVouchedFor, AlarmInv, [Next]_vars,
         breaks < Timeout, crashes' = crashes
  PROVE  AlarmInv'
<1> USE DEF AlarmInv
<1>1. ASSUME SteadyTables, UNCHANGED <<up, breaks>>, NoticesTrue',
             \A n \in Node, q \in Node \ Dead :
               peers[n][q] = "alive" /\ ToBeHeardOf(n, q) => ToBeHeardOf(n, q)' \/ age'[n][q] = 0
      PROVE  AlarmInv'
  <2>1. NobodyGivenUp'
    BY <1>1 DEF SteadyTables, NobodyGivenUp
  <2>2. HeardInTime'
    <3> SUFFICES ASSUME NEW n \in Node, NEW q \in Node \ Dead, peers'[n][q] = "alive"
                 PROVE  \/ age'[n][q] <= breaks'
                        \/ age'[n][q] = breaks' + 1 /\ ToBeHeardOf(n, q)'
      BY DEF HeardInTime
    <3>1. breaks' = breaks /\ 0 <= breaks
      BY <1>1 DEF TypeOK
    <3>2. CASE age'[n][q] = 0
      BY <3>1, <3>2
    <3>3. CASE peers[n][q] = "alive" /\ age'[n][q] = age[n][q]
      BY <1>1, <3>1, <3>2, <3>3 DEF HeardInTime
    <3> QED BY <1>1, <3>2, <3>3 DEF SteadyTables
  <2> QED BY <1>1, <2>1, <2>2
<1>2. ASSUME NEW n \in Node, Gossip(n) PROVE AlarmInv'
  <2>1. SteadyTables /\ UNCHANGED <<up, breaks>>
    BY <1>2, TablesSteady
    DEF Gossip, GossipTick, HeartbeatTick, FailureCheckTick, Fires, netVars
  <2>2. NoticesTrue'
    BY <1>2, <2>1, TimerNotices
  <2> QED BY <1>1, <1>2, <2>1, <2>2, TimerNews
<1>3. ASSUME NEW p \in Node, NEW n \in Node, Handle(p, n) PROVE AlarmInv'
  <2>1. SteadyTables /\ UNCHANGED <<up, breaks>>
    BY <1>3, TablesSteady
    DEF Handle, GetPeers, PeersRoster, Ping, Pong, NodeLeft, Arrives, netVars
  <2>2. NoticesTrue'
    BY <1>3, <2>1, HandleNotices
  <2> QED BY <1>1, <1>3, <2>1, <2>2, HandleNews
<1>4. ASSUME NEW n \in Node, Crash(n) PROVE FALSE
  BY <1>4 DEF Crash, TypeOK
<1>5. ASSUME UNCHANGED <<peers, age, link, due, breaks>>, up \subseteq up' PROVE AlarmInv'
  <2>1. SteadyTables
    BY <1>5, UnchangedSteady
  <2>2. \A a, b : OnTheWay(a, b)' = OnTheWay(a, b)
    BY <1>5 DEF OnTheWay
  <2>3. NobodyGivenUp' /\ NoticesTrue'
    BY <1>5, <2>2 DEF NobodyGivenUp, NoticesTrue
  <2>4. ASSUME NEW n \in Node, NEW q \in Node \ Dead, ToBeHeardOf(n, q)
        PROVE  ToBeHeardOf(n, q)'
    <3>1. \A p \in Node : Vouches(p, n, q) => Vouches(p, n, q)'
      BY <1>5, <2>1, VouchesKept
    <3> QED BY <1>5, <2>2, <2>4, <3>1 DEF ToBeHeardOf
  <2>5. HeardInTime'
    BY <1>5, <2>4 DEF HeardInTime
  <2> QED BY <2>3, <2>5
<1>6. CASE (\E n \in Node : Start(n)) \/ (\E p, n \in Node : Dial(n, p)) \/ UNCHANGED vars
  BY <1>5, <1>6 DEF Start, Dial, vars, tableVars, netVars
<1>7. ASSUME NEW e \in up, Break(e) PROVE AlarmInv'
  <2>1. UNCHANGED peers /\ link' = Disconnected(link, {e})
    BY <1>7 DEF Break, tableVars
  <2>2. \A a, b \in Node : OnTheWay(a, b)' \subseteq OnTheWay(a, b)
    BY <2>1, DisconnectedCarries
  <2> QED BY <1>7, <2>1, <2>2, BreakNews DEF NobodyGivenUp, NoticesTrue
<1>8. CASE Period
  <2>1. UNCHANGED <<peers, link>>
    BY <1>8 DEF Period
  <2>2. \A a, b : OnTheWay(a, b)' = OnTheWay(a, b)
    BY <2>1 DEF OnTheWay
  <2> QED BY <1>8, <2>1, <2>2, PeriodNews DEF NobodyGivenUp, NoticesTrue
<1> QED BY <1>2, <1>3, <1>4, <1>6, <1>7, <1>8 DEF Next

(* Without a fault, who vouched still does, and who is new is vouched for.    *)
LEMMA VouchedNext ==
  ASSUME TypeOK, LinksInv, EveryoneVouchedFor, AlarmInv, [Next]_vars,
         breaks < Timeout, UNCHANGED <<breaks, crashes>>
  PROVE  EveryoneVouchedFor'
<1>1. ASSUME SteadyTables, up \subseteq up' PROVE EveryoneVouchedFor'
  <2> SUFFICES ASSUME NEW n \in Node, NEW q \in Node \ Dead, peers'[n][q] = "alive"
               PROVE  \E p \in Node : Vouches(p, n, q)'
    BY DEF EveryoneVouchedFor
  <2>1. PICK p \in Node : Vouches(p, n, q)
    BY <1>1 DEF SteadyTables, EveryoneVouchedFor
  <2> QED BY <1>1, <2>1, VouchesKept
<1>2. ASSUME NEW n \in Node, Gossip(n) PROVE EveryoneVouchedFor'
  <2>1. SteadyTables /\ UNCHANGED up
    BY <1>2, TablesSteady
    DEF AlarmInv, Gossip, GossipTick, HeartbeatTick, FailureCheckTick, Fires, netVars
  <2> QED BY <1>1, <2>1
<1>3. ASSUME NEW p \in Node, NEW n \in Node, Handle(p, n) PROVE EveryoneVouchedFor'
  <2>1. SteadyTables /\ UNCHANGED up
    BY <1>3, TablesSteady
    DEF AlarmInv, Handle, GetPeers, PeersRoster, Ping, Pong, NodeLeft, Arrives, netVars
  <2> QED BY <1>1, <2>1
<1>4. ASSUME UNCHANGED peers, up \subseteq up' PROVE EveryoneVouchedFor'
  BY <1>4 DEF EveryoneVouchedFor, Vouches, Connected
<1>5. CASE (\E n \in Node : Start(n)) \/ (\E p, n \in Node : Dial(n, p)) \/ Period
           \/ UNCHANGED vars
  BY <1>4, <1>5 DEF Start, Dial, Period, vars, tableVars, netVars
<1>6. ~(\E n \in Node : Crash(n)) /\ ~(\E e \in up : Break(e))
  <2>1. breaks \in Int /\ crashes \in Int
    BY GossipAssumption DEF TypeOK
  <2>2. ASSUME NEW n \in Node, Crash(n) PROVE FALSE
    BY <2>1, <2>2 DEF Crash
  <2>3. ASSUME NEW e \in up, Break(e) PROVE FALSE
    BY <2>1, <2>3 DEF Break
  <2> QED BY <2>2, <2>3
<1> QED BY <1>2, <1>3, <1>5, <1>6 DEF Next

(* Faults are counted, and never forgotten.                                   *)
LEMMA FaultsCounted ==
  ASSUME TypeOK, [Next]_vars
  PROVE  /\ breaks' = breaks \/ breaks' = breaks + 1
         /\ crashes' = crashes \/ crashes' = crashes + 1
         /\ breaks \in Nat /\ crashes \in Nat
<1>1. breaks \in Nat /\ crashes \in Nat
  BY GossipAssumption DEF TypeOK
<1>2. ASSUME NEW n \in Node, Gossip(n) \/ Start(n) PROVE breaks' = breaks /\ crashes' = crashes
  BY <1>2 DEF Gossip, GossipTick, HeartbeatTick, FailureCheckTick, Fires, Start, netVars
<1>3. ASSUME NEW p \in Node, NEW n \in Node, Handle(p, n) \/ Dial(n, p)
      PROVE  breaks' = breaks /\ crashes' = crashes
  BY <1>3 DEF Handle, GetPeers, PeersRoster, Ping, Pong, NodeLeft, Arrives, Dial, netVars
<1>4. ASSUME NEW n \in Node, Crash(n) PROVE breaks' = breaks /\ crashes' = crashes + 1
  BY <1>4 DEF Crash
<1>5. ASSUME NEW e \in up, Break(e) PROVE breaks' = breaks + 1 /\ crashes' = crashes
  BY <1>5 DEF Break
<1>6. Period \/ UNCHANGED vars => breaks' = breaks /\ crashes' = crashes
  BY DEF Period, netVars, vars
<1>7. \/ breaks' = breaks /\ crashes' = crashes
      \/ breaks' = breaks /\ crashes' = crashes + 1
      \/ breaks' = breaks + 1 /\ crashes' = crashes
  <2>1. \/ UNCHANGED vars
        \/ \E n \in Node : Gossip(n) \/ Start(n)
        \/ \E p, n \in Node : Handle(p, n) \/ Dial(n, p)
        \/ \E n \in Node : Crash(n)
        \/ \E e \in up : Break(e)
        \/ Period
    BY DEF Next
  <2> QED BY <1>2, <1>3, <1>4, <1>5, <1>6, <2>1
<1> QED BY <1>1, <1>7

LEMMA InitCalm == Init => EveryoneVouchedFor /\ AlarmInv
<1> SUFFICES ASSUME Init PROVE EveryoneVouchedFor /\ AlarmInv
  OBVIOUS
<1>1. \A n, q \in Node : peers[n][q] # "dead" /\ age[n][q] = 0
  BY DEF Init
<1>2. breaks = 0 /\ \A a, b \in Node : OnTheWay(a, b) = {}
  BY DEF Init, OnTheWay
<1>3. EveryoneVouchedFor
  <2> SUFFICES ASSUME NEW n \in Node, NEW q \in Node \ Dead, peers[n][q] = "alive"
               PROVE  Vouches(q, n, q)
    BY DEF EveryoneVouchedFor
  <2>1. n \in running /\ q \in running /\ q # n
    BY DEF Init
  <2>2. {n, q} \notin {{i} : i \in Node}
    BY <2>1
  <2>3. {n, q} \in {{i, p} : i, p \in running}
    BY <2>1
  <2>4. {n, q} \in up
    <3>1. up = {{i, p} : i, p \in running} \ {{i} : i \in Node}
      BY DEF Init
    <3> QED BY ONLY <2>2, <2>3, <3>1
  <2> QED BY <2>1, <2>4 DEF Vouches, Connected, Others
<1> QED
  BY <1>1, <1>2, <1>3 DEF AlarmInv, NobodyGivenUp, NoticesTrue, HeardInTime

CalmInv == Calm => EveryoneVouchedFor /\ AlarmInv

LEMMA CalmCorrect == Spec => []CalmInv
<1>1. Init => CalmInv
  BY InitCalm DEF CalmInv
<1>2. TypeOK /\ LinksInv /\ CalmInv /\ [Next]_vars => CalmInv'
  <2> SUFFICES ASSUME TypeOK, LinksInv, CalmInv, [Next]_vars, Calm'
               PROVE  EveryoneVouchedFor' /\ AlarmInv'
    BY DEF CalmInv
  <2>1. Calm /\ UNCHANGED <<breaks, crashes>>
    BY FaultsCounted DEF Calm
  <2>2. EveryoneVouchedFor /\ AlarmInv /\ breaks < Timeout
    BY <2>1, GossipAssumption DEF CalmInv, Calm
  <2> QED BY <2>1, <2>2, AlarmNext, VouchedNext
<1> QED BY <1>1, <1>2, TypeCorrect, LinksCorrect, PTL DEF Spec

(* Before the first fault no living node is taken for dead anywhere, whatever *)
(* the configuration: not even by a node that it has never been connected to. *)
THEOREM NobodyFalselyDead == Spec => []NoFalseAlarm
<1>1. CalmInv => NoFalseAlarm
  BY DEF CalmInv, NoFalseAlarm, AlarmInv
<1> QED BY <1>1, CalmCorrect, PTL

(* The reason: every living node in a table is vouched for by a connected     *)
(* node, and the news of it is never more than a period late.                 *)
THEOREM NewsInTime == Spec => []AliveIsVouchedFor
<1>1. CalmInv => AliveIsVouchedFor
  BY DEF CalmInv, AliveIsVouchedFor, AlarmInv
<1> QED BY <1>1, CalmCorrect, PTL

(* Broken connections: as long as a connected node vouches for everyone who   *)
(* is taken for alive, fewer of them than the window has periods make no      *)
(* false alarm, whenever they break and however often the same one does.      *)
THEOREM NoAlarmWhileVouched ==
  Spec /\ [](crashes = 0 => EveryoneVouchedFor)
    => [](crashes = 0 /\ breaks < Timeout => NobodyGivenUp)
<1> DEFINE Bearable == crashes = 0 /\ breaks < Timeout => AlarmInv
           Vouched == crashes = 0 => EveryoneVouchedFor
<1>1. Init => Bearable
  BY InitCalm
<1>2. TypeOK /\ LinksInv /\ Vouched /\ Bearable /\ [Next]_vars => Bearable'
  <2> SUFFICES ASSUME TypeOK, LinksInv, Vouched, Bearable, [Next]_vars,
                      crashes' = 0, breaks' < Timeout
               PROVE  AlarmInv'
    OBVIOUS
  <2>1. crashes = 0 /\ breaks < Timeout /\ crashes' = crashes
    BY FaultsCounted, GossipAssumption
  <2> QED BY <2>1, AlarmNext
<1>3. Bearable => (crashes = 0 /\ breaks < Timeout => NobodyGivenUp)
  BY DEF AlarmInv
<1> HIDE DEF Bearable
<1> QED BY <1>1, <1>2, <1>3, TypeCorrect, LinksCorrect, PTL DEF Spec

====

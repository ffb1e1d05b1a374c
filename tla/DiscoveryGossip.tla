---------------------------- MODULE DiscoveryGossip ----------------------------
(***************************************************************************)
(* The discovery_gossip actor of every node: how nodes that are configured *)
(* with a few seeds find all others and get connected to them, and how     *)
(* they notice that one is gone.                                           *)
(*                                                                         *)
(* Time passes in periods of 2 s, the interval of the HeartbeatTick and    *)
(* the FailureCheckTick; the GossipTick, every 800 ms, fires at least once *)
(* in each, and is modelled as firing once.  The network is prompt: what   *)
(* is sent in a period on a connection that holds is handled in it.  A     *)
(* node is identified with its listen address.  The sequence number, the   *)
(* is_seed flag and missed_heartbeats are only written and are left out.   *)
(***************************************************************************)
EXTENDS Integers, Sequences

CONSTANTS
  Node,        \* the processes, and their listen addresses
  Seeds,       \* Seeds[n]: the addresses n is configured with
  Meshed,      \* the nodes that have been running and connected for long
  Dead,        \* those of them that died just now, for good
  Timers,      \* the timers in use
  Timeout,     \* the heartbeat window in periods (6 s: 3)
  MaxBreaks,   \* bound: broken connections
  MaxCrashes   \* bound: crashed nodes

Ticks == {"gossip", "heartbeat", "check"}

ASSUME GossipAssumption ==
  /\ Seeds \in [Node -> SUBSET Node]
  /\ Meshed \subseteq Node /\ Dead \subseteq Meshed
  /\ "gossip" \in Timers /\ Timers \subseteq Ticks
  /\ Timeout \in Nat \ {0} /\ MaxBreaks \in Nat /\ MaxCrashes \in Nat

VARIABLES
  running,     \* the nodes whose process runs
  peers,       \* peers[n][q]: what n knows of q, "unknown", "alive" or "dead"
  age,         \* age[n][q]: periods since last_seen of q at n
  transports,  \* active_transports[n]: the addresses n keeps dialling
  told,        \* told[n]: nodes whose ClusterNodeLeft the server of n got
  link,        \* link[n][p]: gossip messages on the way from n to p
  up,          \* the connected pairs of nodes
  due,         \* due[n]: the timers of n that still fire in this period
  breaks, crashes

tableVars == <<peers, age, transports, told>>
netVars == <<up, breaks, crashes>>
vars == <<running, peers, age, transports, told, link, up, due, breaks, crashes>>

Message ==
  [type : {"GossipGetPeers", "ClusterPing", "ClusterPong"}]
  \cup [type : {"GossipPeersRoster", "ClusterNodeLeft"}, nodes : SUBSET Node]

Status == {"unknown", "alive", "dead"}

(* Type invariant.                                                          *)
TypeOK ==
  /\ running \subseteq Node
  /\ peers \in [Node -> [Node -> Status]]
  /\ age \in [Node -> [Node -> 0..(Timeout + 1)]]
  /\ transports \in [Node -> SUBSET Node]
  /\ told \in [Node -> SUBSET Node]
  /\ link \in [Node -> [Node -> Seq(Message)]]
  /\ up \subseteq SUBSET Node
  /\ due \in [Node -> SUBSET Timers]
  /\ breaks \in 0..MaxBreaks /\ crashes \in 0..MaxCrashes

Others(n) == Node \ {n}

(* The nodes of Meshed have found each other; the others, and the dead, *)
(* know what they are configured with.                                     *)
Init ==
  /\ running = Meshed \ Dead
  /\ peers = [n \in Node |-> [q \in Node |->
                IF n \in running /\ q \in Meshed \ {n} THEN "alive" ELSE "unknown"]]
  /\ age = [n \in Node |-> [q \in Node |-> 0]]
  /\ transports = [n \in Node |->
                     (Seeds[n] \cup (IF n \in running THEN Meshed ELSE {})) \ {n}]
  /\ told = [n \in Node |-> {}]
  /\ link = [n \in Node |-> [p \in Node |-> <<>>]]
  /\ up = {{n, p} : n, p \in running} \ {{n} : n \in Node}
  /\ due = [n \in Node |-> Timers]
  /\ breaks = 0 /\ crashes = 0

-----------------------------------------------------------------------------
(* Sending: every message goes to every connected node, a reply too.        *)

Connected(n) == {p \in Others(n) : {n, p} \in up}

Broadcast(lk, n, m) ==
  [lk EXCEPT ![n] = [p \in Node |-> IF p \in Connected(n) THEN Append(lk[n][p], m)
                                                          ELSE lk[n][p]]]

Empty(type) == [type |-> type]
Naming(type, S) == [type |-> type, nodes |-> S]

(* mutant: a node that was given up stays dead                              *)
SeesNoDead(n, S) ==
  /\ peers' = [peers EXCEPT ![n] = [q \in Node |->
                 IF q \in S /\ peers[n][q] # "dead" THEN "alive" ELSE peers[n][q]]]
  /\ age' = [age EXCEPT ![n] = [q \in Node |-> IF q \in S THEN 0 ELSE age[n][q]]]
  /\ told' = [told EXCEPT ![n] = @ \ S]

(* n has heard of the nodes of S: it takes them for alive, and inserts the  *)
(* unknown ones.                                                            *)
Sees(n, S) ==
  /\ peers' = [peers EXCEPT ![n] = [q \in Node |-> IF q \in S THEN "alive" ELSE peers[n][q]]]
  /\ age' = [age EXCEPT ![n] = [q \in Node |-> IF q \in S THEN 0 ELSE age[n][q]]]
  /\ told' = [told EXCEPT ![n] = @ \ S]

(* Addresses added to active_transports, and given to system.network.       *)
Dials(n, S) == transports' = [transports EXCEPT ![n] = @ \cup S]

-----------------------------------------------------------------------------
(* The timers.                                                              *)

Fires(n, t) ==
  /\ n \in running /\ t \in due[n]
  /\ due' = [due EXCEPT ![n] = @ \ {t}]
  /\ UNCHANGED <<running, transports, netVars>>

GossipTick(n) ==
  /\ Fires(n, "gossip")
  /\ link' = Broadcast(link, n, Empty("GossipGetPeers"))
  /\ UNCHANGED <<peers, age, told>>

HeartbeatTick(n) ==
  /\ Fires(n, "heartbeat")
  /\ link' = Broadcast(link, n, Empty("ClusterPing"))
  /\ UNCHANGED <<peers, age, told>>

Expired(n) == {q \in Node : peers[n][q] = "alive" /\ age[n][q] > Timeout}

(* mutant: only the remote nodes are told                                   *)
CheckQuietly(n) ==
  /\ Fires(n, "check")
  /\ peers' = [peers EXCEPT ![n] = [q \in Node |->
                 IF q \in Expired(n) THEN "dead" ELSE peers[n][q]]]
  /\ link' = IF Expired(n) = {} THEN link
             ELSE Broadcast(link, n, Naming("ClusterNodeLeft", Expired(n)))
  /\ UNCHANGED <<age, told>>

(* The ClusterNodeLeft notices of one check, one after the other, go to the *)
(* connected nodes and to the server of n; not to n itself.                 *)
FailureCheckTick(n) ==
  /\ Fires(n, "check")
  /\ peers' = [peers EXCEPT ![n] = [q \in Node |->
                 IF q \in Expired(n) THEN "dead" ELSE peers[n][q]]]
  /\ told' = [told EXCEPT ![n] = @ \cup Expired(n)]
  /\ link' = IF Expired(n) = {} THEN link
             ELSE Broadcast(link, n, Naming("ClusterNodeLeft", Expired(n)))
  /\ UNCHANGED age

-----------------------------------------------------------------------------
(* The messages of the other nodes.                                         *)

Arrives(p, n, type) ==
  /\ link[p][n] # <<>> /\ Head(link[p][n]).type = type
  /\ UNCHANGED <<running, due, netVars>>

Popped(p, n) == [link EXCEPT ![p][n] = Tail(@)]

Alive(n) == {q \in Node : peers[n][q] = "alive"}

(* mutant: the roster is answered from the configuration alone              *)
GetPeersSeedsOnly(p, n) ==
  /\ Arrives(p, n, "GossipGetPeers")
  /\ Sees(n, {p})
  /\ Dials(n, {p})
  /\ link' = Broadcast(Popped(p, n), n,
                       Naming("GossipPeersRoster", {n} \cup (Alive(n) \cap Seeds[n])))

(* The sender is inserted or refreshed, dialled if its address is new, and  *)
(* the roster of the nodes taken for alive goes to every connected node.    *)
GetPeers(p, n) ==
  /\ Arrives(p, n, "GossipGetPeers")
  /\ Sees(n, {p})
  /\ Dials(n, {p})
  /\ link' = Broadcast(Popped(p, n), n,
                       Naming("GossipPeersRoster", {n, p} \cup Alive(n)))

(* mutant: a roster inserts unknown peers and refreshes none                *)
RosterInsertsOnly(p, n) ==
  /\ Arrives(p, n, "GossipPeersRoster")
  /\ LET known == {q \in Node : peers[n][q] # "unknown"}
         listed == Head(link[p][n]).nodes \ {n}
     IN  /\ Sees(n, listed \ known)
         /\ Dials(n, listed)
  /\ link' = Popped(p, n)

(* mutant: the nodes of a roster are not dialled                            *)
RosterUndialled(p, n) ==
  /\ Arrives(p, n, "GossipPeersRoster")
  /\ Sees(n, Head(link[p][n]).nodes \ {n})
  /\ link' = Popped(p, n)
  /\ UNCHANGED transports

(* Every node of the roster counts as seen just now, a known one too.       *)
PeersRoster(p, n) ==
  /\ Arrives(p, n, "GossipPeersRoster")
  /\ LET listed == Head(link[p][n]).nodes \ {n}
     IN  Sees(n, listed) /\ Dials(n, listed)
  /\ link' = Popped(p, n)

Refresh(n, p) == Sees(n, IF peers[n][p] = "unknown" THEN {} ELSE {p})

Ping(p, n) ==
  /\ Arrives(p, n, "ClusterPing")
  /\ Refresh(n, p)
  /\ link' = Broadcast(Popped(p, n), n, Empty("ClusterPong"))
  /\ UNCHANGED transports

Pong(p, n) ==
  /\ Arrives(p, n, "ClusterPong")
  /\ Refresh(n, p)
  /\ link' = Popped(p, n)
  /\ UNCHANGED transports

(* A notice of another node: the table is brought up to date, the server of *)
(* n is not told.                                                           *)
NodeLeft(p, n) ==
  /\ Arrives(p, n, "ClusterNodeLeft")
  /\ LET left == (Head(link[p][n]).nodes \cap Alive(n)) \ {n}
     IN  peers' = [peers EXCEPT ![n] = [q \in Node |->
                     IF q \in left THEN "dead" ELSE peers[n][q]]]
  /\ link' = Popped(p, n)
  /\ UNCHANGED <<age, transports, told>>

Handle(p, n) ==
  GetPeers(p, n) \/ PeersRoster(p, n) \/ Ping(p, n) \/ Pong(p, n) \/ NodeLeft(p, n)

-----------------------------------------------------------------------------
(* The network, the processes and time.                                     *)

(* system.network dials every address of active_transports until connected. *)
Dial(n, p) ==
  /\ n \in running /\ p \in running /\ p \in transports[n] /\ {n, p} \notin up
  /\ up' = up \cup {{n, p}}
  /\ UNCHANGED <<running, tableVars, link, due, breaks, crashes>>

Disconnected(lk, E) ==
  [i \in Node |-> [j \in Node |-> IF {i, j} \in E THEN <<>> ELSE lk[i][j]]]

Break(e) ==
  /\ e \in up /\ breaks < MaxBreaks
  /\ up' = up \ {e} /\ breaks' = breaks + 1
  /\ link' = Disconnected(link, {e})
  /\ UNCHANGED <<running, tableVars, due, crashes>>

(* The process dies; started again, it knows its configuration only.        *)
Crash(n) ==
  LET mine == {e \in up : n \in e}
  IN  /\ n \in running /\ crashes < MaxCrashes
      /\ running' = running \ {n} /\ crashes' = crashes + 1
      /\ peers' = [peers EXCEPT ![n] = [q \in Node |-> "unknown"]]
      /\ age' = [age EXCEPT ![n] = [q \in Node |-> 0]]
      /\ transports' = [transports EXCEPT ![n] = Seeds[n] \ {n}]
      /\ told' = [told EXCEPT ![n] = {}]
      /\ up' = up \ mine
      /\ link' = Disconnected(link, mine)
      /\ due' = [due EXCEPT ![n] = Timers]
      /\ UNCHANGED breaks

Start(n) ==
  /\ n \notin running \cup Dead
  /\ running' = running \cup {n}
  /\ UNCHANGED <<tableVars, link, netVars, due>>

(* A period ends when its timers have fired and its messages are handled.   *)
Period ==
  /\ \A n \in running : due[n] = {}
  /\ \A n, p \in Node : link[n][p] = <<>>
  /\ due' = [n \in Node |-> Timers]
  /\ age' = [n \in Node |-> [q \in Node |->
               IF peers[n][q] = "unknown" \/ age[n][q] > Timeout THEN age[n][q]
                                                                ELSE age[n][q] + 1]]
  /\ UNCHANGED <<running, peers, transports, told, link, netVars>>

Gossip(n) == GossipTick(n) \/ HeartbeatTick(n) \/ FailureCheckTick(n)

Next ==
  \/ \E n \in Node : Gossip(n) \/ Crash(n) \/ Start(n)
  \/ \E p, n \in Node : Handle(p, n) \/ Dial(n, p)
  \/ \E e \in up : Break(e)
  \/ Period

Spec == Init /\ [][Next]_vars

(* Timers fire, messages are handled, time passes and system.network keeps  *)
(* dialling.  Nothing obliges a node to be started, to die or to lose a     *)
(* connection.                                                              *)
Fairness ==
  /\ \A n \in Node : WF_vars(Gossip(n))
  /\ \A p, n \in Node : WF_vars(Handle(p, n)) /\ WF_vars(Dial(n, p))
  /\ WF_vars(Period)

FairSpec == Spec /\ Fairness

-----------------------------------------------------------------------------
(* Properties.                                                              *)

(* Discovery: when from some time on every node runs, every node ends up    *)
(* connected to every other, dials it and takes it for alive, for good.     *)
Mesh ==
  \A n \in Node : \A q \in Others(n) :
    {n, q} \in up /\ q \in transports[n] /\ peers[n][q] = "alive"
MeshForms == (<>[](running = Node)) => <>[]Mesh

(* Before the first fault nobody is taken for dead, but those who are, even *)
(* where two nodes have never been connected to each other.                 *)
Calm == breaks = 0 /\ crashes = 0

NobodyGivenUp == \A n \in Node, q \in Node \ Dead : peers[n][q] # "dead"

NoFalseAlarm == Calm => NobodyGivenUp

(* Why: whoever is taken for alive is vouched for by a node that is         *)
(* connected, itself or by its table; and who has not been heard of in this *)
(* period still will be: the question is to be asked, on its way, or        *)
(* answered.  (Each connection that breaks may cost the news of a period.)  *)
OnTheWay(n, p) == {link[n][p][i] : i \in DOMAIN link[n][p]}

Vouches(p, n, q) == p \in Connected(n) /\ (q = p \/ peers[p][q] = "alive")

ToBeHeardOf(n, q) ==
  \/ "gossip" \in due[n]
  \/ \E p \in Node : Vouches(p, n, q) /\ Empty("GossipGetPeers") \in OnTheWay(n, p)
  \/ \E p \in Node : \E m \in OnTheWay(p, n) : m.type = "GossipPeersRoster" /\ q \in m.nodes

EveryoneVouchedFor ==
  \A n \in Node, q \in Node \ Dead : peers[n][q] = "alive" => \E p \in Node : Vouches(p, n, q)

HeardInTime ==
  \A n \in Node, q \in Node \ Dead : peers[n][q] = "alive" =>
    age[n][q] <= breaks \/ (age[n][q] = breaks + 1 /\ ToBeHeardOf(n, q))

AliveIsVouchedFor == Calm => EveryoneVouchedFor /\ HeardInTime

(* A peer in the table is dialled: what becomes known gets connected.       *)
KnownIsDialled ==
  \A n, q \in Node : peers[n][q] # "unknown" => q \in transports[n]

(* A node that dies for good is timed out by every node that keeps running  *)
(* and knew it, and the server of that node hears of it.                    *)
DeadPeerReported ==
  \A n, q \in Node :
    peers[n][q] = "alive" /\ q \notin running
      ~> q \in told[n] \/ q \in running \/ n \notin running

====

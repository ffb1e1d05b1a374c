---------------------------- MODULE ChatOrderProofs ----------------------------
(* Public lines arrive in the order they were typed: a line of t goes from the *)
(* mailbox of its server to the links to the others and from there to the     *)
(* inboxes, each first in, first out, and a session is served by one way only.*)
EXTENDS ChatDeliveryProofs

-----------------------------------------------------------------------------
(* Lines in a queue.                                                          *)

IsLine(m, t) ==
  /\ m.type \in {"BroadcastRequest", "ClusterBroadcast", "DeliverToClient"}
  /\ m.msg.kind = "say" /\ m.msg.by = t

Nrs(q, t) == {m.msg.nr : m \in {x \in Elems(q) : IsLine(x, t)}}

Sorted(q, t) ==
  \A i, j \in DOMAIN q :
    i < j /\ IsLine(q[i], t) /\ IsLine(q[j], t) => q[i].msg.nr < q[j].msg.nr

Before(A, B) == \A a \in A, b \in B : a < b

(* r holds no line of t that q does not hold, and in no other order.          *)
Thins(r, q, t) ==
  (Sorted(q, t) => Sorted(r, t)) /\ Nrs(r, t) \subseteq Nrs(q, t)

LEMMA ThinsTrivially ==
  ASSUME NEW q, NEW t
  PROVE  Thins(q, q, t) /\ Thins(<<>>, q, t) /\ Nrs(<<>>, t) = {}
<1>1. Elems(<<>>) = {} /\ Sorted(<<>>, t)
  BY DEF Elems, Sorted
<1> QED BY <1>1 DEF Thins, Nrs

LEMMA ThinsTail ==
  ASSUME NEW S, NEW q \in Seq(S), q # <<>>, NEW t
  PROVE  Thins(Tail(q), q, t)
<1>1. Elems(Tail(q)) \subseteq Elems(q)
  BY ElemsTail
<1>2. ASSUME Sorted(q, t), NEW i \in DOMAIN Tail(q), NEW j \in DOMAIN Tail(q), i < j,
             IsLine(Tail(q)[i], t), IsLine(Tail(q)[j], t)
      PROVE  Tail(q)[i].msg.nr < Tail(q)[j].msg.nr
  <2>1. /\ Tail(q)[i] = q[i + 1] /\ Tail(q)[j] = q[j + 1]
        /\ i + 1 \in DOMAIN q /\ j + 1 \in DOMAIN q /\ i + 1 < j + 1
    BY <1>2
  <2> QED BY <1>2, <2>1 DEF Sorted
<1> QED BY <1>1, <1>2 DEF Thins, Sorted, Nrs

(* The line that leaves a queue is before those that stay.                    *)
LEMMA HeadFirst ==
  ASSUME NEW S, NEW q \in Seq(S), q # <<>>, NEW t, Sorted(q, t), IsLine(Head(q), t)
  PROVE  /\ Head(q).msg.nr \in Nrs(q, t)
         /\ \A k \in Nrs(Tail(q), t) : Head(q).msg.nr < k
<1>1. Head(q) \in Elems(q)
  BY ElemsTail
<1>2. ASSUME NEW j \in DOMAIN Tail(q), IsLine(Tail(q)[j], t)
      PROVE  Head(q).msg.nr < Tail(q)[j].msg.nr
  <2>1. /\ Tail(q)[j] = q[j + 1] /\ Head(q) = q[1]
        /\ 1 \in DOMAIN q /\ j + 1 \in DOMAIN q /\ 1 < j + 1
    BY <1>2
  <2> QED BY <1>2, <2>1 DEF Sorted
<1> QED BY <1>1, <1>2 DEF Nrs, Elems

LEMMA AppendLine ==
  ASSUME NEW S, NEW q \in Seq(S), NEW m \in S, NEW t, Sorted(q, t),
         IsLine(m, t) => \A k \in Nrs(q, t) : k < m.msg.nr
  PROVE  /\ Sorted(Append(q, m), t)
         /\ Nrs(Append(q, m), t) = Nrs(q, t) \cup (IF IsLine(m, t) THEN {m.msg.nr} ELSE {})
<1> DEFINE r == Append(q, m)
<1>1. DOMAIN r = 1..(Len(q) + 1) /\ DOMAIN q = 1..Len(q) /\ Len(q) \in Nat
  OBVIOUS
<1>2. r[Len(q) + 1] = m /\ \A i \in DOMAIN q : r[i] = q[i]
  OBVIOUS
<1>3. Elems(r) = Elems(q) \cup {m}
  BY ElemsAppend
<1> HIDE DEF r
<1>4. ASSUME NEW i \in DOMAIN r, NEW j \in DOMAIN r, i < j, IsLine(r[i], t), IsLine(r[j], t)
      PROVE  r[i].msg.nr < r[j].msg.nr
  <2>1. i \in DOMAIN q /\ r[i] = q[i]
    BY <1>1, <1>2, <1>4
  <2>2. CASE j \in DOMAIN q
    BY <1>2, <1>4, <2>1, <2>2 DEF Sorted
  <2>3. CASE j = Len(q) + 1
    <3>1. r[j] = m /\ IsLine(m, t) /\ r[i].msg.nr \in Nrs(q, t)
      BY <1>2, <1>4, <2>1, <2>3 DEF Nrs, Elems
    <3> QED BY <3>1
  <2> QED BY <1>1, <2>2, <2>3
<1>5. Sorted(r, t)
  BY <1>4 DEF Sorted
<1>6. Nrs(r, t) = Nrs(q, t) \cup (IF IsLine(m, t) THEN {m.msg.nr} ELSE {})
  <2>1. CASE IsLine(m, t)
    BY <1>3, <2>1 DEF Nrs
  <2>2. CASE ~ IsLine(m, t)
    BY <1>3, <2>2 DEF Nrs
  <2> QED BY <2>1, <2>2
<1> QED BY <1>5, <1>6 DEF r

LEMMA ThinsAppend ==
  ASSUME NEW S, NEW q \in Seq(S), NEW m \in S, NEW t, ~ IsLine(m, t)
  PROVE  Thins(Append(q, m), q, t)
<1>1. Elems(Append(q, m)) = Elems(q) \cup {m}
  BY ElemsAppend
<1>2. Nrs(Append(q, m), t) = Nrs(q, t)
  BY <1>1 DEF Nrs
<1>3. Sorted(q, t) => Sorted(Append(q, m), t)
  BY AppendLine
<1> QED BY <1>2, <1>3 DEF Thins

-----------------------------------------------------------------------------
(* What a step does to the lines of t in a queue: at most one action adds one. *)

LEMMA MailOrder ==
  ASSUME TypeInv, [Next]_vars, NEW n \in Node, NEW t \in Session
  PROVE  Thins(mailbox'[n], mailbox[n], t) \/ Say(t)
<1> USE DEF TypeInv
<1> DEFINE Goal == Thins(mailbox'[n], mailbox[n], t)
<1>1. ASSUME mailbox'[n] = mailbox[n] PROVE Goal
  BY <1>1, ThinsTrivially
<1>2. ASSUME NEW s \in Session, Client(s)
      PROVE  Goal \/ Say(t)
  <2>1. CASE mailbox' = mailbox
    BY <1>1, <2>1
  <2>2. CASE \E m \in ServerMessage : Post(s, m) /\ Posted(s, m)
    <3>1. PICK m \in ServerMessage : Post(s, m) /\ Posted(s, m)
      BY <2>2
    <3>2. mailbox'[n] = IF n = Host[s] THEN Append(mailbox[n], m) ELSE mailbox[n]
      BY <3>1, ConstantsAssumption DEF Post, TypeOK
    <3>3. mailbox[n] \in Seq(ServerMessage)
      BY DEF TypeOK
    <3>4. IsLine(m, t) => Say(t)
      BY <3>1 DEF Posted, IsLine, Text
    <3>5. CASE n = Host[s] /\ ~ IsLine(m, t)
      BY <3>1, <3>2, <3>3, <3>5, ThinsAppend
    <3> QED BY <1>1, <3>2, <3>4, <3>5
  <2> QED BY <1>2, <2>1, <2>2, ClientPosts
<1>3. ASSUME NEW p \in Node, ServeClient(p) PROVE Goal
  <2>1. PICK k : Takes(p, k)
    BY <1>3, ServeTakes
  <2>2. /\ mailbox'[n] = IF n = p THEN Tail(mailbox[n]) ELSE mailbox[n]
        /\ mailbox[n] \in Seq(ServerMessage) /\ mailbox[p] # <<>>
    BY <2>1 DEF Takes, TypeOK
  <2> QED BY <1>1, <2>2, ThinsTail
<1>4. ASSUME NEW p \in Node, NEW q \in Node, ServePeer(q, p) PROVE Goal
  BY <1>1, <1>4, ServePeerKeeps
<1>5. ASSUME NEW p \in Node, SyncTick(p) \/ NodeLeft(p) PROVE Goal
  BY <1>1, <1>5 DEF SyncTick, NodeLeft
<1>6. ASSUME NEW p \in Node, Crash(p) PROVE Goal
  <2>1. mailbox'[n] = IF n = p THEN <<>> ELSE mailbox[n]
    BY <1>6 DEF Crash, TypeOK
  <2> QED BY <2>1, ThinsTrivially
<1>7. ASSUME NEW p \in Node, NEW q \in Node, LinkUp(q, p) \/ LinkDown(q, p) PROVE Goal
  BY <1>1, <1>7 DEF LinkUp, LinkDown
<1>8. ASSUME UNCHANGED vars PROVE Goal
  BY <1>1, <1>8 DEF vars
<1> HIDE DEF Goal
<1>9. Goal \/ Say(t)
  BY <1>2, <1>3, <1>4, <1>5, <1>6, <1>7, <1>8 DEF Next, Server, Environment, Goal
<1> QED BY <1>9 DEF Goal

LEMMA ToPeersOrder ==
  ASSUME TypeOK, NEW n \in Node, NEW m \in ClusterMessage, ToPeers(n, m),
         NEW p \in Node, NEW q \in Node, NEW t, p = n => ~ IsLine(m, t)
  PROVE  Thins(link'[p][q], link[p][q], t)
<1>1. link'[p][q] = IF p = n /\ q \in Peers(n) THEN Append(link[p][q], m) ELSE link[p][q]
  BY DEF ToPeers, Broadcast, TypeOK
<1>2. link[p][q] \in Seq(ClusterMessage)
  BY DEF TypeOK
<1> QED BY <1>1, <1>2, ThinsTrivially, ThinsAppend

LEMMA PoppedOrder ==
  ASSUME TypeOK, NEW i \in Node, NEW n \in Node, link[i][n] # <<>>,
         NEW p \in Node, NEW q \in Node, NEW t
  PROVE  Thins(Popped(i, n)[p][q], link[p][q], t)
<1>1. Popped(i, n)[p][q] = IF p = i /\ q = n THEN Tail(link[p][q]) ELSE link[p][q]
  BY DEF Popped, TypeOK
<1>2. link[p][q] \in Seq(ClusterMessage)
  BY DEF TypeOK
<1> QED BY <1>1, <1>2, ThinsTrivially, ThinsTail

LEMMA ThinsTwice ==
  ASSUME NEW a, NEW b, NEW c, NEW t, Thins(a, b, t), Thins(b, c, t)
  PROVE  Thins(a, c, t)
BY DEF Thins

LEMMA LinkOrder ==
  ASSUME TypeInv, [Next]_vars, NEW p \in Node, NEW q \in Node, NEW t \in Session
  PROVE  \/ Thins(link'[p][q], link[p][q], t)
         \/ PublicLine(p) /\ Head(mailbox[p]).msg.by = t
<1> USE DEF TypeInv
<1> DEFINE Goal == Thins(link'[p][q], link[p][q], t)
           Sends == PublicLine(p) /\ Head(mailbox[p]).msg.by = t
<1>1. ASSUME link'[p][q] = link[p][q] PROVE Goal
  BY <1>1, ThinsTrivially
<1>2. ASSUME NEW s \in Session, Client(s) PROVE Goal
  <2>1. link' = link
    BY <1>2 DEF Client, Connect, EnterName, Joined, Say, AskUsers, PublishKey, AskKey, Tell,
       EncryptedTell, Kick, Answered, Show, Kicked, Leave, Close, Request, TypesLine, netVars
  <2> QED BY <1>1, <2>1
<1>3. ASSUME NEW n \in Node, ServeClient(n) \/ SyncTick(n) PROVE Goal \/ Sends
  <2>1. link' = link \/ \E m \in ClusterMessage : ToPeers(n, m) /\ Sent(n, m)
    BY <1>3, ServeClientSends, SyncTickSends
  <2>2. CASE \E m \in ClusterMessage : ToPeers(n, m) /\ Sent(n, m)
    <3>1. PICK m \in ClusterMessage : ToPeers(n, m) /\ Sent(n, m)
      BY <2>2
    <3>2. IsLine(m, t) => PublicLine(n) /\ Head(mailbox[n]).msg.by = t
      BY <3>1 DEF Sent, IsLine
    <3>3. CASE p = n => ~ IsLine(m, t)
      BY <3>1, <3>3, ToPeersOrder
    <3> QED BY <3>2, <3>3
  <2> QED BY <1>1, <2>1, <2>2
<1>4. ASSUME NEW n \in Node, NEW i \in Node, ServePeer(i, n) PROVE Goal
  <2> DEFINE c == [type |-> "ClusterKick", victim |-> Head(link[i][n]).name]
  <2>1. link[i][n] # <<>>
    BY <1>4, ServePeerKeeps
  <2>2. Thins(Popped(i, n)[p][q], link[p][q], t)
    BY <2>1, PoppedOrder
  <2>3. CASE link' = Popped(i, n)
    BY <2>2, <2>3
  <2>4. CASE NewClient(i, n) /\ link' = Broadcast(Popped(i, n), n, c)
    <3>1. Head(link[i][n]) \in ClusterMessage /\ Head(link[i][n]).type = "ClusterNewClient"
      BY <2>1, <2>4, PoppedType DEF NewClient, Arrives
    <3>2. c \in ClusterMessage /\ ~ IsLine(c, t)
      BY <3>1, TypeOfClusterMessage, ClusterMessageType DEF IsLine
    <3>3. Popped(i, n)[p][q] \in Seq(ClusterMessage)
      BY <2>1, PoppedType
    <3>4. link'[p][q] = IF p = n /\ q \in Peers(n) THEN Append(Popped(i, n)[p][q], c)
                                                    ELSE Popped(i, n)[p][q]
      <4>1. Popped(i, n) \in [Node -> [Node -> Seq(ClusterMessage)]]
        BY <2>1, PoppedType
      <4> QED BY <2>4, <4>1 DEF Broadcast
    <3>5. Thins(link'[p][q], Popped(i, n)[p][q], t)
      <4> HIDE DEF c
      <4> QED BY <3>2, <3>3, <3>4, ThinsTrivially, ThinsAppend
    <3> QED BY <2>2, <3>5, ThinsTwice
  <2> QED
    BY <1>4, <2>3, <2>4 DEF ServePeer, NewClient, ClientKey, ClientDisconnected, RemoteLine,
                            RemoteWhisper, RemoteKick, Sync
<1>5. ASSUME NEW n \in Node, NodeLeft(n) PROVE Goal
  BY <1>1, <1>5 DEF NodeLeft, netVars
<1>6. ASSUME NEW n \in Node, NEW i \in Node, Crash(n) \/ LinkDown(i, n) PROVE Goal
  <2>1. CASE Crash(n)
    <3>1. link'[p][q] = IF n \in {p, q} THEN <<>> ELSE link[p][q]
      BY <2>1 DEF Crash
    <3> QED BY <3>1, ThinsTrivially
  <2>2. CASE LinkDown(i, n)
    <3>1. link'[p][q] = IF <<p, q>> \in Between(i, n) THEN <<>> ELSE link[p][q]
      BY <2>2 DEF LinkDown
    <3> QED BY <3>1, ThinsTrivially
  <2> QED BY <1>6, <2>1, <2>2
<1>7. ASSUME NEW n \in Node, NEW i \in Node, LinkUp(i, n) PROVE Goal
  BY <1>1, <1>7 DEF LinkUp
<1>8. ASSUME UNCHANGED vars PROVE Goal
  BY <1>1, <1>8 DEF vars
<1> HIDE DEF Goal, Sends
<1>9. Goal \/ Sends
  BY <1>2, <1>3, <1>4, <1>5, <1>6, <1>7, <1>8 DEF Next, Server, Environment, Goal
<1> QED BY <1>9 DEF Goal, Sends

LEMMA ToClientsOrder ==
  ASSUME TypeOK, NEW S, NEW m \in ClientMessage, ToClients(S, m), NEW s \in Session, NEW t,
         s \in S => ~ IsLine(m, t)
  PROVE  Thins(inbox'[s], inbox[s], t)
<1>1. inbox'[s] = IF s \in S /\ Open(s) THEN Append(inbox[s], m) ELSE inbox[s]
  BY DEF ToClients
<1>2. inbox[s] \in Seq(ClientMessage)
  BY DEF TypeOK
<1> QED BY <1>1, <1>2, ThinsTrivially, ThinsAppend

LEMMA WhisperOrder ==
  ASSUME TypeOK, WhisperInv, NEW n \in Node, NEW k \in {"TellRequest", "EncryptedTellRequest"},
         Whisper(n, k), NEW s \in Session, NEW t
  PROVE  Thins(inbox'[s], inbox[s], t)
<1> DEFINE h == Head(mailbox[n])
           d == Deliver(h.msg)
           target == entry[n][h.msg.to]
           echo == IF k = "TellRequest" THEN {entry[n][nick[h.msg.by]]} \cap Session ELSE {}
<1>1. d \in ClientMessage /\ ~ IsLine(d, t)
  <2>1. h \in ServerMessage /\ h.type = k /\ h \in Elems(mailbox[n])
    BY TakesType, TakenGains DEF Whisper
  <2>2. h.msg \in Line /\ MailKind(h)
    BY <2>1, TypeOfMessage DEF WhisperInv
  <2>3. h.msg.kind # "say"
    BY <2>1, <2>2 DEF MailKind
  <2>4. d \in ClientMessage
    BY <2>2, DeliverType
  <2>5. d.msg = h.msg
    BY DEF Deliver
  <2> QED BY <2>3, <2>4, <2>5 DEF IsLine
<1> HIDE DEF d
<1>2. CASE inbox' = inbox
  BY <1>2, ThinsTrivially
<1>3. CASE ToClients(echo, d)
  BY <1>1, <1>3, ToClientsOrder
<1>4. CASE inbox' = [z \in Session |->
                 inbox[z] \o (IF z = target /\ Open(z) THEN <<d>> ELSE <<>>)
                          \o (IF z \in echo /\ Open(z) THEN <<d>> ELSE <<>>)]
  <2> DEFINE a == IF s = target /\ Open(s) THEN <<d>> ELSE <<>>
             b == IF s \in echo /\ Open(s) THEN <<d>> ELSE <<>>
  <2>1. inbox'[s] = (inbox[s] \o a) \o b
    BY <1>4
  <2>2. a \in {<<d>>, <<>>} /\ b \in {<<d>>, <<>>}
    OBVIOUS
  <2> HIDE DEF a, b, echo, target
  <2>3. ASSUME NEW q \in Seq(ClientMessage), NEW c \in {<<d>>, <<>>}
        PROVE  q \o c \in Seq(ClientMessage) /\ Thins(q \o c, q, t)
    <3>1. CASE c = <<d>>
      <4>1. q \o c = Append(q, d) /\ Append(q, d) \in Seq(ClientMessage)
        BY <1>1, <3>1
      <4> QED BY <1>1, <4>1, ThinsAppend
    <3>2. CASE c = <<>>
      <4>1. q \o c = q
        BY <3>2
      <4> QED BY <4>1, ThinsTrivially
    <3> QED BY <3>1, <3>2
  <2>4. inbox[s] \in Seq(ClientMessage)
    BY DEF TypeOK
  <2>5. inbox[s] \o a \in Seq(ClientMessage) /\ Thins(inbox[s] \o a, inbox[s], t)
    BY <2>2, <2>3, <2>4
  <2>6. Thins(inbox'[s], inbox[s] \o a, t)
    BY <2>1, <2>2, <2>3, <2>5
  <2> QED BY <2>5, <2>6, ThinsTwice
<1> QED
  BY <1>2, <1>3, <1>4 DEF Whisper, d

(* The line of t that n hands to its own clients, or that n got from p.       *)
Serves(n, t) == PublicLine(n) /\ Head(mailbox[n]).msg.by = t
Relays(p, n, t) == RemoteLine(p, n) /\ Head(link[p][n]).msg.by = t

LEMMA InboxOrder ==
  ASSUME TypeInv, WhisperInv, [Next]_vars, NEW s \in Session, NEW t \in Session
  PROVE  \/ Thins(inbox'[s], inbox[s], t)
         \/ \E n \in Node : Serves(n, t) /\ s \in Locals(entry[n])
         \/ \E p, n \in Node : Relays(p, n, t) /\ s \in Locals(entry[n])
<1> USE DEF TypeInv
<1> DEFINE Goal == Thins(inbox'[s], inbox[s], t)
           Served == \E n \in Node : Serves(n, t) /\ s \in Locals(entry[n])
           Relayed == \E p, n \in Node : Relays(p, n, t) /\ s \in Locals(entry[n])
<1>1. ASSUME inbox'[s] = inbox[s] PROVE Goal
  BY <1>1, ThinsTrivially
<1>2. ASSUME NEW S, ToClients(S, Deliver(Notice)) \/ ToClients(S, KickClient) PROVE Goal
  <2>1. ~ IsLine(Deliver(Notice), t) /\ ~ IsLine(KickClient, t)
    BY DEF IsLine, Deliver, Notice, KickClient
  <2> QED BY <1>2, <2>1, ToClientsOrder, DeliverType
<1>3. ASSUME NEW z \in Session, Client(z) PROVE Goal
  <2>1. CASE inbox' = inbox
    BY <1>1, <2>1
  <2>2. CASE Show(z)
    <3>1. /\ inbox'[s] = IF s = z THEN Tail(inbox[s]) ELSE inbox[s]
          /\ inbox[s] \in Seq(ClientMessage) /\ inbox[z] # <<>>
      BY <2>2 DEF Show, TypeOK
    <3> QED BY <1>1, <3>1, ThinsTail
  <2>3. CASE Close(z)
    <3>1. inbox'[s] = IF s = z THEN <<>> ELSE inbox[s]
      BY <2>3 DEF Close, TypeOK
    <3> QED BY <3>1, ThinsTrivially
  <2> HIDE DEF Goal
  <2> QED
    BY <1>3, <2>1, <2>2, <2>3 DEF Client, Connect, EnterName, Joined, Say, AskUsers, PublishKey,
       AskKey, Tell, EncryptedTell, Kick, Answered, Kicked, Leave, Request, TypesLine
<1>4. ASSUME NEW n \in Node, ServeClient(n) PROVE Goal \/ Served
  <2>1. CASE PublicLine(n)
    <3> DEFINE d == Deliver(Head(mailbox[n]).msg)
    <3>1. d \in ClientMessage
      BY <2>1, TakesType, TypeOfMessage, DeliverType DEF PublicLine
    <3>2. ToClients(Locals(entry[n]), d)
      BY <2>1 DEF PublicLine
    <3>3. IsLine(d, t) => Serves(n, t)
      BY <2>1 DEF IsLine, Deliver, Serves
    <3> HIDE DEF d
    <3>4. CASE s \in Locals(entry[n]) => ~ IsLine(d, t)
      BY <3>1, <3>2, <3>4, ToClientsOrder
    <3> QED BY <3>3, <3>4
  <2>2. CASE Whisper(n, "TellRequest") \/ Whisper(n, "EncryptedTellRequest")
    BY <2>2, WhisperOrder
  <2>3. CASE Register(n) \/ Unregister(n) \/ KickUser(n)
    BY <1>1, <1>2, <2>3 DEF Register, Unregister, KickUser
  <2>4. CASE RegisterKey(n) \/ GetKey(n) \/ ListUsers(n)
    BY <1>1, <2>4 DEF RegisterKey, GetKey, ListUsers
  <2> QED BY <1>4, <2>1, <2>2, <2>3, <2>4 DEF ServeClient
<1>5. ASSUME NEW p \in Node, NEW n \in Node, ServePeer(p, n) PROVE Goal \/ Relayed
  <2> DEFINE h == Head(link[p][n])
             d == Deliver(h.msg)
  <2>1. h \in ClusterMessage /\ h \in Elems(link[p][n])
    BY <1>5, ServePeerKeeps, PoppedType, PoppedGains
  <2>2. ASSUME h.type \in {"ClusterBroadcast", "ClusterSend"}
        PROVE  d \in ClientMessage
    BY <2>1, <2>2, TypeOfClusterMessage, DeliverType
  <2>3. CASE RemoteLine(p, n)
    <3>1. ToClients(Locals(entry[n]), d) /\ h.type = "ClusterBroadcast"
      BY <2>3 DEF RemoteLine, Arrives
    <3>2. IsLine(d, t) => Relays(p, n, t)
      BY <2>3 DEF IsLine, Deliver, Relays
    <3> HIDE DEF d
    <3>3. CASE s \in Locals(entry[n]) => ~ IsLine(d, t)
      BY <2>2, <3>1, <3>3, ToClientsOrder
    <3> QED BY <3>2, <3>3
  <2>4. CASE RemoteWhisper(p, n)
    <3>1. /\ ToClients({entry[n][h.msg.to]} \cap Session, d)
          /\ h.type = "ClusterSend"
      BY <2>4 DEF RemoteWhisper, Arrives
    <3>2. ~ IsLine(d, t)
      BY <2>1, <3>1 DEF WhisperInv, LinkKind, IsLine, Deliver
    <3> HIDE DEF d
    <3> QED BY <2>2, <3>1, <3>2, ToClientsOrder
  <2>5. CASE NewClient(p, n) \/ ClientDisconnected(p, n) \/ RemoteKick(p, n)
    BY <1>1, <1>2, <2>5 DEF NewClient, ClientDisconnected, RemoteKick
  <2>6. CASE ClientKey(p, n) \/ Sync(p, n)
    BY <1>1, <2>6 DEF ClientKey, Sync
  <2> QED BY <1>5, <2>3, <2>4, <2>5, <2>6 DEF ServePeer
<1>6. ASSUME NEW n \in Node, NodeLeft(n) PROVE Goal
  BY <1>2, <1>6 DEF NodeLeft
<1>7. ASSUME NEW n \in Node, Crash(n) PROVE Goal
  <2> DEFINE died == {z \in Session : Host[z] = n /\ phase[z] # "offline"}
  <2>1. inbox'[s] = IF s \in died THEN <<>> ELSE inbox[s]
    BY <1>7 DEF Crash
  <2> QED BY <2>1, ThinsTrivially
<1>8. ASSUME NEW n \in Node, NEW p \in Node, SyncTick(n) \/ LinkUp(p, n) \/ LinkDown(p, n)
      PROVE  Goal
  BY <1>1, <1>8 DEF SyncTick, LinkUp, LinkDown
<1>9. ASSUME UNCHANGED vars PROVE Goal
  BY <1>1, <1>9 DEF vars
<1> HIDE DEF Goal, Served, Relayed
<1>10. Goal \/ Served \/ Relayed
  BY <1>3, <1>4, <1>5, <1>6, <1>7, <1>8, <1>9 DEF Next, Server, Environment
<1> QED BY <1>10 DEF Goal, Served, Relayed

(* What s has read of t, and what t has typed.                                *)
LEMMA TtyOrder ==
  ASSUME TypeInv, [Next]_vars, NEW s \in Session, NEW t \in Session
  PROVE  /\ heard'[s][t] = heard[s][t] \/ (Show(s) /\ IsLine(Head(inbox[s]), t))
         /\ lines'[t] \in {lines[t], lines[t] + 1}
<1> USE DEF TypeInv
<1> DEFINE Goal == /\ heard'[s][t] = heard[s][t] \/ (Show(s) /\ IsLine(Head(inbox[s]), t))
                   /\ lines'[t] \in {lines[t], lines[t] + 1}
<1>1. ASSUME heard' = heard, lines' = lines PROVE Goal
  BY <1>1
<1>2. ASSUME NEW z \in Session, NEW kind, TypesLine(z, kind) PROVE Goal
  BY <1>2 DEF TypesLine, TypeOK
<1>3. ASSUME NEW z \in Session, Show(z) PROVE Goal
  <2> DEFINE h == Head(inbox[z])
  <2>1. lines' = lines /\ h.type = "DeliverToClient"
    BY <1>3 DEF Show
  <2>2. CASE h.msg.kind = "say" /\ z = s /\ h.msg.by = t
    BY <1>3, <2>1, <2>2 DEF IsLine
  <2>3. CASE ~ (h.msg.kind = "say" /\ z = s /\ h.msg.by = t)
    <3>1. heard' = IF h.msg.kind = "say" THEN [heard EXCEPT ![z][h.msg.by] = h.msg.nr] ELSE heard
      BY <1>3 DEF Show
    <3> HIDE DEF h
    <3>2. heard'[s][t] = heard[s][t]
      BY <2>3, <3>1 DEF TypeOK
    <3> QED BY <2>1, <3>2
  <2> QED BY <2>2, <2>3
<1>4. ASSUME NEW z \in Session, Client(z) PROVE Goal
  <2>1. CASE Connect(z) \/ EnterName(z) \/ Joined(z) \/ Answered(z) \/ Kicked(z) \/ Leave(z)
    BY <1>1, <2>1 DEF Connect, EnterName, Joined, Answered, Kicked, Leave, Close
  <2>2. CASE Say(z) \/ AskUsers(z) \/ PublishKey(z) \/ AskKey(z) \/ Tell(z) \/ EncryptedTell(z)
             \/ Kick(z)
    <3>1. \E kind : TypesLine(z, kind)
      BY <2>2 DEF Say, AskUsers, PublishKey, AskKey, Tell, EncryptedTell, Kick, Request
    <3> QED BY <1>2, <3>1
  <2> QED BY <1>3, <1>4, <2>1, <2>2 DEF Client
<1>5. ASSUME NEW n \in Node, ServeClient(n) PROVE Goal
  BY <1>1, <1>5, ServeTakes DEF Takes, sessionVars
<1>6. ASSUME NEW p \in Node, NEW n \in Node, ServePeer(p, n) PROVE Goal
  BY <1>1, <1>6, ServePeerKeeps
<1>7. ASSUME NEW p \in Node, NEW n \in Node,
             SyncTick(n) \/ NodeLeft(n) \/ Crash(n) \/ LinkUp(p, n) \/ LinkDown(p, n)
      PROVE  Goal
  BY <1>1, <1>7 DEF SyncTick, NodeLeft, Crash, LinkUp, LinkDown, sessionVars
<1>8. ASSUME UNCHANGED vars PROVE Goal
  BY <1>1, <1>8 DEF vars
<1> HIDE DEF Goal
<1>9. Goal
  BY <1>4, <1>5, <1>6, <1>7, <1>8 DEF Next, Server, Environment
<1> QED BY <1>9 DEF Goal

-----------------------------------------------------------------------------
(* Where the lines of t are: only its own server takes them and passes them   *)
(* on, and no server is its own peer.                                         *)

PlaceInv ==
  /\ \A n \in Node : \A m \in Elems(mailbox[n]) :
       m.type = "BroadcastRequest" => Host[m.msg.by] = n
  /\ \A p, q \in Node : \A x \in Elems(link[p][q]) :
       x.type = "ClusterBroadcast" => Host[x.msg.by] = p
  /\ \A n \in Node : {n} \notin up /\ link[n][n] = <<>>

LEMMA SelfLink ==
  ASSUME TypeInv, PlaceInv, [Next]_vars, NEW n \in Node
  PROVE  {n} \notin up' /\ link'[n][n] = <<>>
<1> USE DEF TypeInv
<1> DEFINE Goal == {n} \notin up' /\ link'[n][n] = <<>>
<1>1. ASSUME up' = up, link' = link PROVE Goal
  BY <1>1 DEF PlaceInv
<1>2. n \notin Peers(n) /\ \A i \in Node : i \notin Peers(i)
  BY DEF Peers, PlaceInv
<1>3. ASSUME NEW lk \in [Node -> [Node -> Seq(ClusterMessage)]], NEW i \in Node, NEW m
      PROVE  Broadcast(lk, i, m)[n][n] = lk[n][n]
  BY <1>2 DEF Broadcast
<1>4. ASSUME NEW s \in Session, Client(s) PROVE Goal
  <2>1. up' = up /\ link' = link
    BY <1>4 DEF Client, Connect, EnterName, Joined, Say, AskUsers, PublishKey, AskKey, Tell,
       EncryptedTell, Kick, Answered, Show, Kicked, Leave, Close, Request, TypesLine, netVars
  <2> QED BY <1>1, <2>1
<1>5. ASSUME NEW i \in Node, ServeClient(i) \/ SyncTick(i) PROVE Goal
  <2>1. up' = up
    BY <1>5, ServeTakes DEF Takes, SyncTick
  <2>2. link' = link \/ \E m : ToPeers(i, m)
    BY <1>5, ServeClientSends, SyncTickSends
  <2>3. link'[n][n] = link[n][n]
    <3>1. CASE link' = link
      BY <3>1
    <3>2. ASSUME NEW m, ToPeers(i, m) PROVE link'[n][n] = link[n][n]
      <4>1. link' = Broadcast(link, i, m)
        BY <3>2 DEF ToPeers
      <4>2. Broadcast(link, i, m)[n][n] = link[n][n]
        BY <1>3 DEF TypeOK
      <4> QED BY <4>1, <4>2
    <3> QED BY <2>2, <3>1, <3>2
  <2> QED BY <2>1, <2>3 DEF PlaceInv
<1>6. ASSUME NEW p \in Node, NEW i \in Node, ServePeer(p, i) PROVE Goal
  <2>1. up' = up /\ link[p][i] # <<>>
    BY <1>6, ServePeerKeeps
  <2>2. Popped(p, i)[n][n] = link[n][n] /\ Popped(p, i) \in [Node -> [Node -> Seq(ClusterMessage)]]
    BY <2>1, PoppedType DEF Popped, TypeOK, PlaceInv
  <2>3. link' = Popped(p, i) \/ \E m : link' = Broadcast(Popped(p, i), i, m)
    BY <1>6 DEF ServePeer, NewClient, ClientKey, ClientDisconnected, RemoteLine,
                RemoteWhisper, RemoteKick, Sync
  <2>4. link'[n][n] = link[n][n]
    <3>1. CASE link' = Popped(p, i)
      BY <2>2, <3>1
    <3>2. ASSUME NEW m, link' = Broadcast(Popped(p, i), i, m) PROVE link'[n][n] = link[n][n]
      <4>1. Broadcast(Popped(p, i), i, m)[n][n] = Popped(p, i)[n][n]
        BY <1>3, <2>2
      <4> QED BY <2>2, <3>2, <4>1
    <3> QED BY <2>3, <3>1, <3>2
  <2> QED BY <2>1, <2>4 DEF PlaceInv
<1>7. ASSUME NEW i \in Node, NodeLeft(i) PROVE Goal
  BY <1>1, <1>7 DEF NodeLeft, netVars
<1>8. ASSUME NEW i \in Node, Crash(i) PROVE Goal
  BY <1>8 DEF Crash, PlaceInv
<1>9. ASSUME NEW p \in Node, NEW i \in Node, LinkUp(p, i) PROVE Goal
  <2>1. {n} # {p, i}
    BY <1>9 DEF LinkUp
  <2> QED BY <1>9, <2>1 DEF LinkUp, PlaceInv
<1>10. ASSUME NEW p \in Node, NEW i \in Node, LinkDown(p, i) PROVE Goal
  BY <1>10 DEF LinkDown, PlaceInv
<1>11. ASSUME UNCHANGED vars PROVE Goal
  BY <1>1, <1>11 DEF vars
<1> HIDE DEF Goal
<1>12. Goal
  BY <1>4, <1>5, <1>6, <1>7, <1>8, <1>9, <1>10, <1>11 DEF Next, Server, Environment
<1> QED BY <1>12 DEF Goal

LEMMA PlaceNext ==
  TypeInv /\ PlaceInv /\ [Next]_vars => PlaceInv'
<1> SUFFICES ASSUME TypeInv, PlaceInv, [Next]_vars PROVE PlaceInv'
  OBVIOUS
<1>1. ASSUME NEW n \in Node, NEW m \in Elems(mailbox'[n]), m.type = "BroadcastRequest"
      PROVE  Host[m.msg.by] = n
  <2>1. CASE m \in Elems(mailbox[n])
    BY <1>1, <2>1 DEF PlaceInv
  <2>2. ASSUME NEW s \in Session, n = Host[s], Posted(s, m)
        PROVE  Host[m.msg.by] = n
    BY <1>1, <2>2 DEF Posted, Text
  <2> QED BY <1>1, <2>1, <2>2, MailGains
<1>2. ASSUME NEW p \in Node, NEW q \in Node, NEW x \in Elems(link'[p][q]),
             x.type = "ClusterBroadcast"
      PROVE  Host[x.msg.by] = p
  <2>1. CASE x \in Elems(link[p][q])
    BY <1>2, <2>1 DEF PlaceInv
  <2>2. CASE Sent(p, x)
    <3>1. PublicLine(p) /\ x.msg = Head(mailbox[p]).msg
      BY <1>2, <2>2 DEF Sent
    <3>2. Head(mailbox[p]) \in Elems(mailbox[p]) /\ Head(mailbox[p]).type = "BroadcastRequest"
      BY <3>1, TakenGains, TakesType DEF PublicLine, TypeInv
    <3> QED BY <3>1, <3>2 DEF PlaceInv
  <2> QED BY <1>2, <2>1, <2>2, LinkGains DEF TypeInv
<1> QED BY <1>1, <1>2, SelfLink DEF PlaceInv

-----------------------------------------------------------------------------
(* The order: along the way from t to s the lines grow older, and s has read  *)
(* the oldest.                                                                *)

Ordered(M, L, B, last, typed, t) ==
  /\ Sorted(M, t) /\ Sorted(L, t) /\ Sorted(B, t)
  /\ Before(Nrs(B, t), Nrs(L, t)) /\ Before(Nrs(B, t), Nrs(M, t)) /\ Before(Nrs(L, t), Nrs(M, t))
  /\ \A k \in Nrs(B, t) \cup Nrs(L, t) \cup Nrs(M, t) : k \in Int /\ last < k /\ k <= typed
  /\ last <= typed

OrderInv ==
  \A s, t \in Session :
    Ordered(mailbox[Host[t]], link[Host[t]][Host[s]], inbox[s], heard[s][t], lines[t], t)

(* A step that only thins the queues.                                         *)
LEMMA QuietKeepsOrder ==
  ASSUME NEW M, NEW L, NEW B, NEW M1, NEW L1, NEW B1, NEW t,
         NEW last \in Int, NEW typed \in Int, NEW typed1 \in Int, typed <= typed1,
         Ordered(M, L, B, last, typed, t),
         Thins(M1, M, t), Thins(L1, L, t), Thins(B1, B, t)
  PROVE  Ordered(M1, L1, B1, last, typed1, t)
<1>1. Sorted(M1, t) /\ Sorted(L1, t) /\ Sorted(B1, t)
  BY DEF Ordered, Thins
<1>2. Nrs(M1, t) \subseteq Nrs(M, t) /\ Nrs(L1, t) \subseteq Nrs(L, t) /\ Nrs(B1, t) \subseteq Nrs(B, t)
  BY DEF Thins
<1>3. /\ Before(Nrs(B1, t), Nrs(L1, t)) /\ Before(Nrs(B1, t), Nrs(M1, t))
      /\ Before(Nrs(L1, t), Nrs(M1, t))
  BY <1>2 DEF Ordered, Before
<1>4. ASSUME NEW k \in Nrs(B1, t) \cup Nrs(L1, t) \cup Nrs(M1, t)
      PROVE  k \in Int /\ last < k /\ k <= typed1
  BY <1>2 DEF Ordered
<1>5. last <= typed1
  BY DEF Ordered
<1> QED BY <1>1, <1>3, <1>4, <1>5 DEF Ordered

(* t types a line.                                                            *)
LEMMA NewLineIsLast ==
  ASSUME NEW S, NEW M \in Seq(S), NEW m \in S, NEW L, NEW B, NEW t,
         NEW last \in Int, NEW typed \in Int, Ordered(M, L, B, last, typed, t),
         m.msg.nr = typed + 1
  PROVE  Ordered(Append(M, m), L, B, last, typed + 1, t)
<1>1. \A k \in Nrs(M, t) \cup Nrs(L, t) \cup Nrs(B, t) : k < m.msg.nr
  BY DEF Ordered
<1>2. /\ Sorted(Append(M, m), t)
      /\ Nrs(Append(M, m), t) = Nrs(M, t) \cup (IF IsLine(m, t) THEN {m.msg.nr} ELSE {})
  <2>1. Sorted(M, t)
    BY DEF Ordered
  <2> QED BY <1>1, <2>1, AppendLine
<1>3. Nrs(Append(M, m), t) \subseteq Nrs(M, t) \cup {typed + 1}
  BY <1>2
<1>4. /\ Before(Nrs(B, t), Nrs(Append(M, m), t)) /\ Before(Nrs(L, t), Nrs(Append(M, m), t))
  BY <1>1, <1>3 DEF Ordered, Before
<1>5. ASSUME NEW k \in Nrs(B, t) \cup Nrs(L, t) \cup Nrs(Append(M, m), t)
      PROVE  k \in Int /\ last < k /\ k <= typed + 1
  BY <1>3 DEF Ordered
<1>6. last <= typed + 1 /\ Sorted(L, t) /\ Sorted(B, t) /\ Before(Nrs(B, t), Nrs(L, t))
  BY DEF Ordered
<1> QED BY <1>2, <1>4, <1>5, <1>6 DEF Ordered

(* s reads a line.                                                            *)
LEMMA ReadLineIsNext ==
  ASSUME NEW S, NEW B \in Seq(S), B # <<>>, NEW M, NEW L, NEW t,
         NEW last \in Int, NEW typed \in Int, Ordered(M, L, B, last, typed, t),
         IsLine(Head(B), t)
  PROVE  Ordered(M, L, Tail(B), Head(B).msg.nr, typed, t)
<1> DEFINE v == Head(B).msg.nr
<1>1. v \in Nrs(B, t) /\ \A k \in Nrs(Tail(B), t) : v < k
  BY HeadFirst DEF Ordered
<1>2. Sorted(Tail(B), t) /\ Nrs(Tail(B), t) \subseteq Nrs(B, t)
  BY ThinsTail DEF Ordered, Thins
<1> HIDE DEF v
<1>3. v \in Int /\ v <= typed
  BY <1>1 DEF Ordered
<1>4. ASSUME NEW k \in Nrs(Tail(B), t) \cup Nrs(L, t) \cup Nrs(M, t)
      PROVE  k \in Int /\ v < k /\ k <= typed
  <2>1. k \in Int /\ k <= typed
    BY <1>2 DEF Ordered
  <2>2. v < k
    BY <1>1 DEF Ordered, Before
  <2> QED BY <2>1, <2>2
<1>5. Before(Nrs(Tail(B), t), Nrs(L, t)) /\ Before(Nrs(Tail(B), t), Nrs(M, t))
  BY <1>2 DEF Ordered, Before
<1>6. Sorted(M, t) /\ Sorted(L, t) /\ Before(Nrs(L, t), Nrs(M, t))
  BY DEF Ordered
<1>7. Ordered(M, L, Tail(B), v, typed, t)
  BY <1>2, <1>3, <1>4, <1>5, <1>6 DEF Ordered
<1> QED BY <1>7 DEF v

(* q1 is q, or q with the line m, number v of t, at its end.                  *)
Gets(q1, q, m) == q1 \in {q, Append(q, m)}

(* The server of t hands a line to its own clients, or sends it to a peer.    *)
LEMMA ServedLineIsLast ==
  ASSUME NEW S, NEW M \in Seq(S), M # <<>>, NEW C, NEW B \in Seq(C), NEW B1, NEW d \in C,
         NEW D, NEW L \in Seq(D), NEW L1, NEW c \in D, NEW t,
         NEW last \in Int, NEW typed \in Int, Ordered(M, L, B, last, typed, t),
         IsLine(Head(M), t), d.msg = Head(M).msg, c.msg = Head(M).msg,
         Gets(B1, B, d), Gets(L1, L, c), B1 = B \/ (L1 = L /\ L = <<>>)
  PROVE  Ordered(Tail(M), L1, B1, last, typed, t)
<1> DEFINE v == Head(M).msg.nr
<1>1. v \in Nrs(M, t) /\ \A k \in Nrs(Tail(M), t) : v < k
  BY HeadFirst DEF Ordered
<1>2. Sorted(Tail(M), t) /\ Nrs(Tail(M), t) \subseteq Nrs(M, t)
  BY ThinsTail DEF Ordered, Thins
<1>3. d.msg.nr = v /\ c.msg.nr = v
  OBVIOUS
<1> HIDE DEF v
<1>4. v \in Int /\ last < v /\ v <= typed
  BY <1>1 DEF Ordered
<1>5. \A k \in Nrs(B, t) \cup Nrs(L, t) : k < v
  BY <1>1 DEF Ordered, Before
<1>6. Sorted(B1, t) /\ Nrs(B1, t) \subseteq Nrs(B, t) \cup {v}
  <2>1. CASE B1 = B
    BY <2>1 DEF Ordered
  <2>2. CASE B1 = Append(B, d)
    <3>1. Sorted(B, t)
      BY DEF Ordered
    <3> QED BY <1>3, <1>5, <2>2, <3>1, AppendLine
  <2> QED BY <2>1, <2>2 DEF Gets
<1>7. Sorted(L1, t) /\ Nrs(L1, t) \subseteq Nrs(L, t) \cup {v}
  <2>1. CASE L1 = L
    BY <2>1 DEF Ordered
  <2>2. CASE L1 = Append(L, c)
    <3>1. Sorted(L, t)
      BY DEF Ordered
    <3> QED BY <1>3, <1>5, <2>2, <3>1, AppendLine
  <2> QED BY <2>1, <2>2 DEF Gets
<1>8. /\ Before(Nrs(B1, t), Nrs(Tail(M), t)) /\ Before(Nrs(L1, t), Nrs(Tail(M), t))
  BY <1>1, <1>2, <1>6, <1>7 DEF Ordered, Before
<1>9. Before(Nrs(B1, t), Nrs(L1, t))
  <2>1. CASE B1 = B
    BY <1>5, <1>7, <2>1 DEF Ordered, Before
  <2>2. CASE L1 = L /\ L = <<>>
    BY <2>2, ThinsTrivially DEF Before
  <2> QED BY <2>1, <2>2
<1>10. ASSUME NEW k \in Nrs(B1, t) \cup Nrs(L1, t) \cup Nrs(Tail(M), t)
       PROVE  k \in Int /\ last < k /\ k <= typed
  BY <1>2, <1>4, <1>6, <1>7 DEF Ordered
<1>11. last <= typed
  BY DEF Ordered
<1> QED BY <1>2, <1>6, <1>7, <1>8, <1>9, <1>10, <1>11 DEF Ordered

(* The server of s hands it a line that came from the server of t.            *)
LEMMA RelayedLineIsLast ==
  ASSUME NEW D, NEW L \in Seq(D), L # <<>>, NEW C, NEW B \in Seq(C), NEW B1, NEW d \in C,
         NEW M, NEW t,
         NEW last \in Int, NEW typed \in Int, Ordered(M, L, B, last, typed, t),
         IsLine(Head(L), t), d.msg = Head(L).msg, Gets(B1, B, d)
  PROVE  Ordered(M, Tail(L), B1, last, typed, t)
<1> DEFINE v == Head(L).msg.nr
<1>1. v \in Nrs(L, t) /\ \A k \in Nrs(Tail(L), t) : v < k
  BY HeadFirst DEF Ordered
<1>2. Sorted(Tail(L), t) /\ Nrs(Tail(L), t) \subseteq Nrs(L, t)
  BY ThinsTail DEF Ordered, Thins
<1>3. d.msg.nr = v
  OBVIOUS
<1> HIDE DEF v
<1>4. v \in Int /\ last < v /\ v <= typed
  BY <1>1 DEF Ordered
<1>5. \A k \in Nrs(B, t) : k < v
  BY <1>1 DEF Ordered, Before
<1>6. Sorted(B1, t) /\ Nrs(B1, t) \subseteq Nrs(B, t) \cup {v}
  <2>1. CASE B1 = B
    BY <2>1 DEF Ordered
  <2>2. CASE B1 = Append(B, d)
    <3>1. Sorted(B, t)
      BY DEF Ordered
    <3> QED BY <1>3, <1>5, <2>2, <3>1, AppendLine
  <2> QED BY <2>1, <2>2 DEF Gets
<1>7. /\ Before(Nrs(B1, t), Nrs(Tail(L), t)) /\ Before(Nrs(B1, t), Nrs(M, t))
      /\ Before(Nrs(Tail(L), t), Nrs(M, t))
  BY <1>1, <1>2, <1>6 DEF Ordered, Before
<1>8. ASSUME NEW k \in Nrs(B1, t) \cup Nrs(Tail(L), t) \cup Nrs(M, t)
      PROVE  k \in Int /\ last < k /\ k <= typed
  BY <1>2, <1>4, <1>6 DEF Ordered
<1>9. last <= typed /\ Sorted(M, t)
  BY DEF Ordered
<1> QED BY <1>2, <1>6, <1>7, <1>8, <1>9 DEF Ordered

(* The four steps that move a line of t towards s, and all the others.        *)
LEMMA OrderStep ==
  ASSUME TypeInv, OwnershipInv, WhisperInv, PlaceInv, [Next]_vars,
         NEW s \in Session, NEW t \in Session,
         Ordered(mailbox[Host[t]], link[Host[t]][Host[s]], inbox[s], heard[s][t], lines[t], t)
  PROVE  Ordered(mailbox'[Host[t]], link'[Host[t]][Host[s]], inbox'[s], heard'[s][t], lines'[t], t)
<1> USE DEF TypeInv
<1> DEFINE a == Host[t]
           b == Host[s]
           M == mailbox[a]
           L == link[a][b]
           B == inbox[s]
           last == heard[s][t]
           typed == lines[t]
<1>1. /\ a \in Node /\ b \in Node
      /\ M \in Seq(ServerMessage) /\ L \in Seq(ClusterMessage) /\ B \in Seq(ClientMessage)
      /\ last \in Int /\ typed \in Int
  BY ConstantsAssumption DEF TypeOK
<1>2. CASE Say(t)
  <2> DEFINE m == [type |-> "BroadcastRequest", msg |-> Text(t, "say", NoName)]
  <2>1. m \in ServerMessage /\ m.msg.nr = typed + 1
    <3>1. Text(t, "say", NoName) \in Line
      BY <1>2, TextType DEF Say, TypesLine
    <3>2. m \in ServerMessage
      BY <3>1, MessageType
    <3> QED BY <3>2 DEF Text
  <2>2. mailbox'[a] = Append(M, m)
    BY <1>1, <1>2 DEF Say, Post, TypeOK
  <2>3. /\ link' = link /\ inbox' = inbox /\ heard' = heard
        /\ lines'[t] = typed + 1
    BY <1>2 DEF Say, TypesLine, netVars, TypeOK
  <2> HIDE DEF m, M, L, B, last, typed
  <2>4. Ordered(Append(M, m), L, B, last, typed + 1, t)
    BY <1>1, <2>1, NewLineIsLast DEF M, L, B, last, typed
  <2> QED BY <2>2, <2>3, <2>4 DEF L, B, last
<1>3. CASE Show(s) /\ IsLine(Head(B), t)
  <2>1. B # <<>> /\ inbox'[s] = Tail(B) /\ heard'[s][t] = Head(B).msg.nr
    <3>1. Head(B).msg.kind = "say" /\ Head(B).msg.by = t
      BY <1>3 DEF IsLine
    <3>2. heard' = [heard EXCEPT ![s][Head(B).msg.by] = Head(B).msg.nr]
      BY <1>3, <3>1 DEF Show
    <3> QED BY <1>3, <3>1, <3>2 DEF Show, TypeOK
  <2>2. mailbox' = mailbox /\ link' = link /\ lines' = lines
    BY <1>3 DEF Show, netVars
  <2>3. Ordered(M, L, Tail(B), Head(B).msg.nr, typed, t)
    <3> HIDE DEF M, L, B, last, typed
    <3> QED BY <1>1, <1>3, <2>1, ReadLineIsNext DEF M, L, B, last, typed
  <2> QED BY <2>1, <2>2, <2>3
<1>4. CASE Serves(a, t)
  <2> DEFINE h == Head(M)
             d == Deliver(h.msg)
             c == [type |-> "ClusterBroadcast", msg |-> h.msg]
  <2>1. /\ M # <<>> /\ mailbox'[a] = Tail(M) /\ heard' = heard /\ lines' = lines
        /\ h.type = "BroadcastRequest" /\ h \in ServerMessage /\ h \in Elems(M)
    <3>1. Takes(a, "BroadcastRequest")
      BY <1>4 DEF Serves, PublicLine
    <3>2. h.type = "BroadcastRequest" /\ h \in ServerMessage /\ h \in Elems(M)
      BY <1>1, <3>1, TakesType, TakenGains
    <3>3. M # <<>> /\ mailbox'[a] = Tail(M) /\ heard' = heard /\ lines' = lines
      BY <1>1, <3>1 DEF Takes, sessionVars, TypeOK
    <3> QED BY <3>2, <3>3
  <2>2. IsLine(h, t) /\ h.msg \in Line
    BY <1>1, <1>4, <2>1, TypeOfMessage DEF WhisperInv, MailKind, IsLine, Serves
  <2>3. d \in ClientMessage /\ c \in ClusterMessage /\ d.msg = h.msg /\ c.msg = h.msg
    BY <2>2, DeliverType, ClusterMessageType DEF Deliver
  <2>4. ToClients(Locals(entry[a]), d) /\ ToPeers(a, c)
    BY <1>4 DEF Serves, PublicLine
  <2> HIDE DEF d, c
  <2>5. Gets(inbox'[s], B, d) /\ (s \notin Locals(entry[a]) => inbox'[s] = B)
    BY <2>4 DEF ToClients, Gets
  <2>6. Gets(link'[a][b], L, c) /\ (b \notin Peers(a) => link'[a][b] = L)
    BY <1>1, <2>4 DEF ToPeers, Broadcast, Gets, TypeOK
  <2>7. inbox'[s] = B \/ (link'[a][b] = L /\ L = <<>>)
    <3>1. CASE s \in Locals(entry[a])
      <4>1. b = a
        BY <1>1, <3>1, EntryCarriesName DEF Locals
      <4> QED BY <1>1, <2>6, <4>1 DEF PlaceInv, Peers
    <3>2. CASE s \notin Locals(entry[a])
      BY <2>5, <3>2
    <3> QED BY <3>1, <3>2
  <2>8. Ordered(Tail(M), link'[a][b], inbox'[s], last, typed, t)
    <3> HIDE DEF M, L, B, last, typed, a, b, h
    <3> QED
      BY <1>1, <2>1, <2>2, <2>3, <2>5, <2>6, <2>7, ServedLineIsLast DEF M, L, B, last, typed, a, b, h
  <2> QED BY <2>1, <2>8
<1>5. CASE Relays(a, b, t)
  <2> DEFINE h == Head(L)
             d == Deliver(h.msg)
  <2>1. /\ L # <<>> /\ link'[a][b] = Tail(L)
        /\ mailbox' = mailbox /\ heard' = heard /\ lines' = lines
        /\ h.type = "ClusterBroadcast" /\ h \in ClusterMessage /\ h \in Elems(L)
    <3>1. Arrives(a, b, "ClusterBroadcast") /\ link' = Popped(a, b)
      BY <1>5 DEF Relays, RemoteLine
    <3>2. /\ L # <<>> /\ h.type = "ClusterBroadcast"
          /\ mailbox' = mailbox /\ heard' = heard /\ lines' = lines
      BY <3>1 DEF Arrives, sessionVars
    <3>3. h \in ClusterMessage /\ h \in Elems(L)
      BY <1>1, <3>2, PoppedType, PoppedGains
    <3>4. link'[a][b] = Tail(L)
      BY <1>1, <3>1 DEF Popped, TypeOK
    <3> QED BY <3>2, <3>3, <3>4
  <2>2. IsLine(h, t) /\ h.msg \in Line
    BY <1>1, <1>5, <2>1, TypeOfClusterMessage DEF WhisperInv, LinkKind, IsLine, Relays
  <2>3. d \in ClientMessage /\ d.msg = h.msg
    BY <2>2, DeliverType DEF Deliver
  <2>4. ToClients(Locals(entry[b]), d)
    BY <1>5 DEF Relays, RemoteLine
  <2> HIDE DEF d
  <2>5. Gets(inbox'[s], B, d)
    BY <2>4 DEF ToClients, Gets
  <2>6. Ordered(M, Tail(L), inbox'[s], last, typed, t)
    <3> HIDE DEF M, L, B, last, typed, a, b, h
    <3> QED
      BY <1>1, <2>1, <2>2, <2>3, <2>5, RelayedLineIsLast DEF M, L, B, last, typed, a, b, h
  <2> QED BY <2>1, <2>6
<1>6. CASE /\ ~ Say(t) /\ ~ (Show(s) /\ IsLine(Head(B), t))
           /\ ~ Serves(a, t) /\ ~ Relays(a, b, t)
  <2>1. Thins(mailbox'[a], M, t)
    BY <1>1, <1>6, MailOrder
  <2>2. Thins(link'[a][b], L, t)
    BY <1>1, <1>6, LinkOrder DEF Serves
  <2>3. Thins(inbox'[s], B, t)
    <3>1. ASSUME NEW n \in Node, Serves(n, t), s \in Locals(entry[n]) PROVE FALSE
      <4>1. Head(mailbox[n]) \in Elems(mailbox[n]) /\ Head(mailbox[n]).type = "BroadcastRequest"
        BY <3>1, TakenGains, TakesType DEF Serves, PublicLine
      <4>2. n = a
        BY <3>1, <4>1 DEF PlaceInv, Serves
      <4> QED BY <1>6, <3>1, <4>2
    <3>2. ASSUME NEW p \in Node, NEW n \in Node, Relays(p, n, t), s \in Locals(entry[n])
          PROVE  FALSE
      <4>1. Head(link[p][n]) \in Elems(link[p][n]) /\ Head(link[p][n]).type = "ClusterBroadcast"
        BY <3>2, PoppedGains DEF Relays, RemoteLine, Arrives
      <4>2. p = a
        BY <3>2, <4>1 DEF PlaceInv, Relays
      <4>3. n = b
        BY <3>2, EntryCarriesName DEF Locals
      <4> QED BY <1>6, <3>2, <4>2, <4>3
    <3> QED BY <3>1, <3>2, InboxOrder
  <2>4. heard'[s][t] = last /\ lines'[t] \in Int /\ typed <= lines'[t]
    <3>1. heard'[s][t] = last /\ lines'[t] \in {typed, typed + 1}
      BY <1>6, TtyOrder
    <3> QED BY <1>1, <3>1
  <2> HIDE DEF M, L, B, last, typed, a, b
  <2>5. Ordered(M, L, B, last, typed, t)
    BY DEF M, L, B, last, typed, a, b
  <2>6. Ordered(mailbox'[a], link'[a][b], inbox'[s], last, lines'[t], t)
    BY <1>1, <2>1, <2>2, <2>3, <2>4, <2>5, QuietKeepsOrder
  <2> QED BY <2>4, <2>6 DEF a, b
<1> QED BY <1>2, <1>3, <1>4, <1>5, <1>6

LEMMA OrderInit == Init => PlaceInv /\ OrderInv
<1> SUFFICES ASSUME Init PROVE PlaceInv /\ OrderInv
  OBVIOUS
<1>1. PlaceInv
  <2>1. \A p, q \in Node : Elems(mailbox[p]) = {} /\ Elems(link[p][q]) = {}
    BY DEF Init, Elems
  <2>2. ASSUME NEW n \in Node PROVE {n} \notin up /\ link[n][n] = <<>>
    <3>1. \A e \in up : \E p, q \in Node : p # q /\ e = {p, q}
      BY ConstantsAssumption DEF Init
    <3>2. {n} \notin up
      BY <3>1
    <3> QED BY <3>2 DEF Init
  <2> QED BY <2>1, <2>2 DEF PlaceInv
<1>2. ASSUME NEW s \in Session, NEW t \in Session
      PROVE  Ordered(mailbox[Host[t]], link[Host[t]][Host[s]], inbox[s], heard[s][t], lines[t], t)
  <2>1. /\ mailbox[Host[t]] = <<>> /\ link[Host[t]][Host[s]] = <<>> /\ inbox[s] = <<>>
        /\ heard[s][t] = 0 /\ lines[t] = 0
    BY <1>2, ConstantsAssumption DEF Init
  <2>2. Sorted(<<>>, t) /\ Nrs(<<>>, t) = {}
    <3>1. Sorted(<<>>, t)
      BY DEF Sorted
    <3> QED BY <3>1, ThinsTrivially
  <2> QED BY <2>1, <2>2 DEF Ordered, Before
<1> QED BY <1>1, <1>2 DEF OrderInv

(* Public lines of one session are shown to another in the order in which     *)
(* they were typed, none twice, whatever the interleaving, the collisions and *)
(* the failures on the way.                                                   *)
THEOREM LinesKeepOrder == Spec => []LinesInOrder
<1>1. Init => PlaceInv /\ OrderInv
  BY OrderInit
<1>2. /\ TypeInv /\ OwnershipInv /\ WhisperInv
      /\ PlaceInv /\ OrderInv /\ [Next]_vars
      => (PlaceInv /\ OrderInv)'
  BY PlaceNext, OrderStep DEF OrderInv
<1>3. TypeInv /\ OrderInv => LinesInOrder
  <2> SUFFICES ASSUME TypeInv, OrderInv, NEW s \in Session, NEW t \in Session,
                      NEW i \in DOMAIN inbox[s], inbox[s][i].type = "DeliverToClient",
                      inbox[s][i].msg.kind = "say", inbox[s][i].msg.by = t
               PROVE  /\ inbox[s][i].msg.nr > heard[s][t]
                      /\ \A j \in 1..(i - 1) :
                           /\ j \in DOMAIN inbox[s] /\ inbox[s][j].type = "DeliverToClient"
                           /\ inbox[s][j].msg.kind = "say" /\ inbox[s][j].msg.by = t
                           => inbox[s][j].msg.nr < inbox[s][i].msg.nr
    BY DEF LinesInOrder
  <2>1. Ordered(mailbox[Host[t]], link[Host[t]][Host[s]], inbox[s], heard[s][t], lines[t], t)
    BY DEF OrderInv
  <2>2. IsLine(inbox[s][i], t)
    BY DEF IsLine
  <2>3. inbox[s][i].msg.nr \in Nrs(inbox[s], t)
    BY <2>2 DEF Nrs, Elems
  <2>4. heard[s][t] < inbox[s][i].msg.nr /\ inbox[s][i].msg.nr \in Int /\ heard[s][t] \in Int
    BY <2>1, <2>3, ConstantsAssumption DEF Ordered, TypeInv, TypeOK
  <2>5. ASSUME NEW j \in 1..(i - 1), j \in DOMAIN inbox[s], IsLine(inbox[s][j], t)
        PROVE  inbox[s][j].msg.nr < inbox[s][i].msg.nr
    <3>1. j < i
      BY DEF TypeInv, TypeOK
    <3> QED BY <2>1, <2>2, <2>5, <3>1 DEF Ordered, Sorted
  <2> QED BY <2>4, <2>5 DEF IsLine
<1> QED
  BY <1>1, <1>2, <1>3, Whispers, PTL DEF Spec

====

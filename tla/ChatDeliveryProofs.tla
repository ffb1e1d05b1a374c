--------------------------- MODULE ChatDeliveryProofs ---------------------------
(* More theorems about ChatCluster: who gets which whisper and which key.       *)
EXTENDS ChatClusterProofs

-----------------------------------------------------------------------------
(* A session that has a name keeps it, to its end and beyond.                 *)

KeepNames ==
  \A s \in Session : ~ Nameless(s) => ~ Nameless(s)' /\ nick'[s] = nick[s]

LEMMA ClientKeepsNames ==
  ASSUME TypeOK, NEW s \in Session, Client(s)
  PROVE  KeepNames
<1>1. CASE Connect(s) \/ EnterName(s)
  BY <1>1 DEF Connect, EnterName, KeepNames, Nameless, TypeOK
<1>2. CASE Joined(s)
  BY <1>2 DEF Joined, Respond, KeepNames, Nameless, TypeOK
<1>3. CASE Answered(s)
  BY <1>3 DEF Answered, Respond, KeepNames, Nameless, TypeOK
<1>4. CASE Show(s)
  BY <1>4 DEF Show, KeepNames, Nameless
<1>5. ASSUME NEW kind, TypesLine(s, kind), phase' \in {phase, [phase EXCEPT ![s] = "asking"]}
      PROVE  KeepNames
  BY <1>5 DEF TypesLine, KeepNames, Nameless, TypeOK
<1>6. CASE Say(s)
  BY <1>5, <1>6 DEF Say
<1>7. CASE AskUsers(s) \/ PublishKey(s) \/ AskKey(s) \/ Tell(s) \/ EncryptedTell(s) \/ Kick(s)
  BY <1>5, <1>7 DEF AskUsers, PublishKey, AskKey, Tell, EncryptedTell, Kick, Request
<1>8. CASE Kicked(s) \/ Leave(s)
  BY <1>8 DEF Kicked, Leave, Close, KeepNames, Nameless, TypeOK
<1> QED
  BY <1>1, <1>2, <1>3, <1>4, <1>6, <1>7, <1>8 DEF Client

(* The server answers only who has no answer yet, and leaves the rest to the  *)
(* client.                                                                    *)
LEMMA ServerAnswers ==
  ASSUME TypeOK, OwnershipInv, NEW n \in Node, ServeClient(n)
  PROVE  /\ phase' = phase /\ nick' = nick
         /\ \A s \in Session : reply'[s] # reply[s] => reply[s] = NoReply
<1> DEFINE Reacts(t) ==
      /\ Takes(n, t)
      /\ \/ reply' = reply
         \/ t \in Blocking /\ \E r : Respond(Head(mailbox[n]).client, r)
<1>1. PICK t : Reacts(t)
  <2>1. CASE Register(n)
    <3>1. Reacts("RegisterClient")
      BY <2>1 DEF Register, Blocking
    <3> QED BY <3>1
  <2>2. CASE RegisterKey(n)
    <3>1. Reacts("RegisterKeyRequest")
      BY <2>2 DEF RegisterKey, Blocking
    <3> QED BY <3>1
  <2>3. CASE GetKey(n)
    <3>1. Reacts("GetKeyRequest")
      BY <2>3 DEF GetKey, Blocking
    <3> QED BY <3>1
  <2>4. CASE Unregister(n)
    <3>1. Takes(n, "UnregisterClient") /\ reply' = reply
      BY <2>4 DEF Unregister
    <3>2. Reacts("UnregisterClient")
      BY <3>1
    <3> QED BY <3>2
  <2>5. CASE PublicLine(n)
    <3>1. Takes(n, "BroadcastRequest") /\ reply' = reply
      BY <2>5 DEF PublicLine
    <3>2. Reacts("BroadcastRequest")
      BY <3>1
    <3> QED BY <3>2
  <2>6. ASSUME NEW t \in {"TellRequest", "EncryptedTellRequest"}, Whisper(n, t)
        PROVE  \E q : Reacts(q)
    <3>1. Reacts(t)
      BY <2>6 DEF Whisper, Blocking
    <3> QED BY <3>1
  <2>7. CASE KickUser(n)
    <3>1. Reacts("KickRequest")
      BY <2>7 DEF KickUser, Blocking
    <3> QED BY <3>1
  <2>8. CASE ListUsers(n)
    <3>1. Reacts("ListUsersRequest")
      BY <2>8 DEF ListUsers, Blocking
    <3> QED BY <3>1
  <2> QED BY <2>1, <2>2, <2>3, <2>4, <2>5, <2>6, <2>7, <2>8 DEF ServeClient
<1>2. phase' = phase /\ nick' = nick
  BY <1>1 DEF Takes, sessionVars
<1>3. ASSUME NEW s \in Session, reply'[s] # reply[s]
      PROVE  reply[s] = NoReply
  <2>1. /\ s = mailbox[n][1].client /\ mailbox[n][1].type \in Blocking
        /\ 1 \in DOMAIN mailbox[n]
    <3>1. PICK r : t \in Blocking /\ Respond(Head(mailbox[n]).client, r)
      BY <1>1, <1>3
    <3>2. Takes(n, t)
      BY <1>1
    <3>3. 1 \in DOMAIN mailbox[n] /\ Head(mailbox[n]) = mailbox[n][1] /\ mailbox[n][1].type = t
      BY <3>2, HeadOfMail
    <3> QED BY <1>3, <3>1, <3>3 DEF Respond, TypeOK
  <2>2. Matches(n, mailbox[n][1])
    BY <2>1 DEF OwnershipInv, MailMatchesSender
  <2> QED BY <2>1, <2>2 DEF Matches
<1> QED BY <1>2, <1>3

LEMMA NamesStay ==
  ASSUME TypeInv, OwnershipInv, [Next]_vars
  PROVE  KeepNames
<1> USE DEF TypeInv
<1>1. CASE UNCHANGED <<phase, nick, reply>>
  BY <1>1 DEF KeepNames, Nameless
<1>2. ASSUME NEW s \in Session, Client(s) PROVE KeepNames
  BY <1>2, ClientKeepsNames
<1>3. ASSUME NEW n \in Node, ServeClient(n) PROVE KeepNames
  BY <1>3, ServerAnswers, MarkersDiffer DEF KeepNames, Nameless
<1>4. ASSUME NEW n \in Node, NEW p \in Node, ServePeer(p, n) PROVE KeepNames
  BY <1>1, <1>4 DEF ServePeer, NewClient, ClientKey, ClientDisconnected, RemoteLine,
                    RemoteWhisper, RemoteKick, Sync, Arrives, sessionVars
<1>5. ASSUME NEW n \in Node, SyncTick(n) \/ NodeLeft(n) PROVE KeepNames
  BY <1>1, <1>5 DEF SyncTick, NodeLeft, sessionVars
<1>6. ASSUME NEW n \in Node, Crash(n) PROVE KeepNames
  BY <1>6 DEF Crash, KeepNames, Nameless
<1>7. ASSUME NEW n \in Node, NEW p \in Node, LinkUp(p, n) \/ LinkDown(p, n) PROVE KeepNames
  BY <1>1, <1>7 DEF LinkUp, LinkDown, sessionVars
<1>8. CASE UNCHANGED vars
  BY <1>1, <1>8 DEF vars
<1> QED
  BY <1>2, <1>3, <1>4, <1>5, <1>6, <1>7, <1>8 DEF Next, Server, Environment

-----------------------------------------------------------------------------
(* What a step may add to the queues.                                         *)

Elems(q) == {q[i] : i \in DOMAIN q}

LEMMA ElemsAppend ==
  ASSUME NEW S, NEW q \in Seq(S), NEW m \in S
  PROVE  Elems(Append(q, m)) = Elems(q) \cup {m}
<1>1. DOMAIN Append(q, m) = 1..(Len(q) + 1) /\ DOMAIN q = 1..Len(q) /\ Len(q) \in Nat
  OBVIOUS
<1>2. \A i \in DOMAIN q : Append(q, m)[i] = q[i]
  OBVIOUS
<1>3. Append(q, m)[Len(q) + 1] = m
  OBVIOUS
<1>4. DOMAIN Append(q, m) = DOMAIN q \cup {Len(q) + 1}
  BY <1>1
<1> QED BY <1>2, <1>3, <1>4 DEF Elems

LEMMA ElemsTail ==
  ASSUME NEW S, NEW q \in Seq(S), q # <<>>
  PROVE  Elems(Tail(q)) \subseteq Elems(q) /\ Head(q) \in Elems(q)
BY DEF Elems

LEMMA ElemsOf ==
  ASSUME NEW S, NEW q \in Seq(S)
  PROVE  Elems(q) \subseteq S
BY DEF Elems

LEMMA ToClientsGains ==
  ASSUME TypeOK, NEW S, NEW m \in ClientMessage, ToClients(S, m), NEW s \in Session,
         NEW x \in Elems(inbox'[s])
  PROVE  x \in Elems(inbox[s]) \/ (x = m /\ s \in S)
<1>1. inbox[s] \in Seq(ClientMessage)
  BY DEF TypeOK
<1>2. CASE inbox'[s] = inbox[s]
  BY <1>2
<1>3. CASE s \in S /\ inbox'[s] = Append(inbox[s], m)
  BY <1>1, <1>3, ElemsAppend
<1> QED BY <1>2, <1>3 DEF ToClients

LEMMA BroadcastGains ==
  ASSUME NEW lk \in [Node -> [Node -> Seq(ClusterMessage)]], NEW n \in Node,
         NEW m \in ClusterMessage, NEW p \in Node, NEW q \in Node,
         NEW x \in Elems(Broadcast(lk, n, m)[p][q])
  PROVE  x \in Elems(lk[p][q]) \/ (x = m /\ p = n)
<1>1. lk[p][q] \in Seq(ClusterMessage)
  OBVIOUS
<1>2. Broadcast(lk, n, m)[p][q] = IF p = n /\ q \in Peers(n) THEN Append(lk[p][q], m)
                                                           ELSE lk[p][q]
  BY DEF Broadcast
<1>3. CASE p = n /\ q \in Peers(n)
  <2>1. Elems(Append(lk[p][q], m)) = Elems(lk[p][q]) \cup {m}
    BY <1>1, ElemsAppend
  <2> QED BY <1>2, <1>3, <2>1
<1>4. CASE ~ (p = n /\ q \in Peers(n))
  BY <1>2, <1>4
<1> QED BY <1>3, <1>4

LEMMA PoppedGains ==
  ASSUME TypeOK, NEW p \in Node, NEW n \in Node, link[p][n] # <<>>
  PROVE  /\ Head(link[p][n]) \in Elems(link[p][n])
         /\ \A i, j \in Node : Elems(Popped(p, n)[i][j]) \subseteq Elems(link[i][j])
<1>1. link[p][n] \in Seq(ClusterMessage)
  BY DEF TypeOK
<1>2. Elems(Tail(link[p][n])) \subseteq Elems(link[p][n]) /\ Head(link[p][n]) \in Elems(link[p][n])
  BY <1>1, ElemsTail
<1>3. \A i, j \in Node : Popped(p, n)[i][j] = IF i = p /\ j = n THEN Tail(link[p][n])
                                                               ELSE link[i][j]
  BY DEF Popped, TypeOK
<1> QED BY <1>2, <1>3

(* What the session s may post.                                               *)
Posted(s, m) ==
  \/ /\ EnterName(s)
     /\ \E x \in Wish[s], k \in Keyring[s] \cup {NoKey} :
          m = [type |-> "RegisterClient", client |-> s, name |-> x, pubkey |-> k]
  \/ /\ PublishKey(s)
     /\ \E k \in Keyring[s] :
          m = [type |-> "RegisterKeyRequest", client |-> s, name |-> nick[s], pubkey |-> k]
  \/ /\ Say(s)
     /\ m = [type |-> "BroadcastRequest", msg |-> Text(s, "say", NoName)]
  \/ \E x \in Name : m = [type |-> "TellRequest", client |-> s, msg |-> Text(s, "tell", x)]
  \/ \E x \in Name :
       m = [type |-> "EncryptedTellRequest", client |-> s, msg |-> Text(s, "etell", x)]
  \/ m.type \in {"ListUsersRequest", "GetKeyRequest", "KickRequest", "UnregisterClient"}

LEMMA PostGains ==
  ASSUME TypeOK, NEW s \in Session, NEW m \in ServerMessage, Post(s, m), NEW n \in Node,
         NEW x \in Elems(mailbox'[n])
  PROVE  x \in Elems(mailbox[n]) \/ (x = m /\ n = Host[s])
BY PostedMail DEF Elems

LEMMA TakenGains ==
  ASSUME TypeOK, NEW n \in Node, NEW t, Takes(n, t)
  PROVE  /\ Head(mailbox[n]) \in Elems(mailbox[n])
         /\ \A p \in Node : Elems(mailbox'[p]) \subseteq Elems(mailbox[p])
<1>1. mailbox[n] \in Seq(ServerMessage) /\ mailbox[n] # <<>>
  BY DEF TypeOK, Takes
<1>2. \A p \in Node : mailbox'[p] = IF p = n THEN Tail(mailbox[n]) ELSE mailbox[p]
  BY DEF Takes, TypeOK
<1> QED BY <1>1, <1>2, ElemsTail

LEMMA ClientPosts ==
  ASSUME TypeInv, NEW s \in Session, Client(s)
  PROVE  \/ mailbox' = mailbox
         \/ \E m \in ServerMessage : Post(s, m) /\ Posted(s, m)
<1> USE DEF TypeInv
<1>1. CASE EnterName(s)
  <2>1. PICK x \in Wish[s], k \in Keyring[s] \cup {NoKey} :
          Post(s, [type |-> "RegisterClient", client |-> s, name |-> x, pubkey |-> k])
    BY <1>1 DEF EnterName
  <2>2. x \in Name /\ k \in MaybeKey
    BY ConstantsAssumption DEF MaybeKey
  <2>3. Posted(s, [type |-> "RegisterClient", client |-> s, name |-> x, pubkey |-> k])
    BY <1>1 DEF Posted
  <2> QED BY <2>1, <2>2, <2>3, MessageType
<1>2. CASE PublishKey(s)
  <2>1. PICK k \in Keyring[s] :
          Request(s, "pubkey", [type |-> "RegisterKeyRequest", client |-> s,
                                name |-> nick[s], pubkey |-> k])
    BY <1>2 DEF PublishKey
  <2>2. nick[s] \in Name /\ k \in Key
    BY <2>1, ConstantsAssumption DEF Request, TypesLine, Named
  <2>3. Posted(s, [type |-> "RegisterKeyRequest", client |-> s,
                   name |-> nick[s], pubkey |-> k])
    BY <1>2 DEF Posted
  <2> QED BY <2>1, <2>2, <2>3, MessageType DEF Request
<1>3. CASE Say(s)
  <2>1. Text(s, "say", NoName) \in Line
    BY <1>3, TextType DEF Say, TypesLine
  <2>2. Posted(s, [type |-> "BroadcastRequest", msg |-> Text(s, "say", NoName)])
    BY <1>3 DEF Posted
  <2> QED BY <1>3, <2>1, <2>2, MessageType DEF Say
<1>4. CASE Tell(s)
  <2>1. PICK x \in Name :
          Request(s, "tell", [type |-> "TellRequest", client |-> s,
                              msg |-> Text(s, "tell", x)])
    BY <1>4 DEF Tell
  <2>2. Text(s, "tell", x) \in Line
    BY <2>1, TextType DEF Request, TypesLine
  <2>3. Posted(s, [type |-> "TellRequest", client |-> s, msg |-> Text(s, "tell", x)])
    BY DEF Posted
  <2> QED BY <2>1, <2>2, <2>3, MessageType DEF Request
<1>5. CASE EncryptedTell(s)
  <2>1. PICK x \in Name :
          Request(s, "etell", [type |-> "EncryptedTellRequest", client |-> s,
                               msg |-> Text(s, "etell", x)])
    BY <1>5 DEF EncryptedTell
  <2>2. Text(s, "etell", x) \in Line
    BY <2>1, TextType DEF Request, TypesLine
  <2>3. Posted(s, [type |-> "EncryptedTellRequest", client |-> s, msg |-> Text(s, "etell", x)])
    BY DEF Posted
  <2> QED BY <2>1, <2>2, <2>3, MessageType DEF Request
<1>6. CASE AskUsers(s) \/ AskKey(s) \/ Kick(s)
  <2>1. PICK m \in ServerMessage :
          Post(s, m) /\ m.type \in {"ListUsersRequest", "GetKeyRequest", "KickRequest"}
    BY <1>6, MessageType DEF AskUsers, AskKey, Kick, Request
  <2> QED BY <2>1 DEF Posted
<1>7. CASE Kicked(s) \/ Leave(s)
  <2>1. CASE phase[s] = "chatting"
    <3>1. nick[s] \in Name
      BY <2>1 DEF Named
    <3>2. Post(s, [type |-> "UnregisterClient", client |-> s, name |-> nick[s]])
      BY <1>7, <2>1 DEF Kicked, Leave, Close
    <3>3. Posted(s, [type |-> "UnregisterClient", client |-> s, name |-> nick[s]])
      BY DEF Posted
    <3> QED BY <3>1, <3>2, <3>3, MessageType
  <2>2. CASE phase[s] # "chatting"
    BY <1>7, <2>2 DEF Kicked, Leave, Close
  <2> QED BY <2>1, <2>2
<1>8. CASE Connect(s) \/ Joined(s) \/ Answered(s) \/ Show(s)
  BY <1>8 DEF Connect, Joined, Answered, Show
<1> QED
  BY <1>1, <1>2, <1>3, <1>4, <1>5, <1>6, <1>7, <1>8 DEF Client

(* Whoever serves a client takes one message and posts none.                  *)
LEMMA ServeTakes ==
  ASSUME NEW n \in Node, ServeClient(n)
  PROVE  \E t : Takes(n, t)
BY DEF ServeClient, Register, RegisterKey, GetKey, Unregister, PublicLine, Whisper,
       KickUser, ListUsers

LEMMA ServePeerKeeps ==
  ASSUME NEW p \in Node, NEW n \in Node, ServePeer(p, n)
  PROVE  /\ UNCHANGED <<mailbox, phase, nick, lines, heard, reply, up, faults>>
         /\ link[p][n] # <<>>
BY DEF ServePeer, NewClient, ClientKey, ClientDisconnected, RemoteLine, RemoteWhisper,
       RemoteKick, Sync, Arrives, sessionVars

LEMMA MailGains ==
  ASSUME TypeInv, [Next]_vars, NEW n \in Node, NEW x \in Elems(mailbox'[n])
  PROVE  \/ x \in Elems(mailbox[n])
         \/ \E s \in Session : n = Host[s] /\ Client(s) /\ Posted(s, x)
<1>1. CASE mailbox' = mailbox
  BY <1>1
<1>2. ASSUME NEW s \in Session, Client(s)
      PROVE  x \in Elems(mailbox[n]) \/ (n = Host[s] /\ Posted(s, x))
  <2>1. CASE \E m \in ServerMessage : Post(s, m) /\ Posted(s, m)
    <3>1. PICK m \in ServerMessage : Post(s, m) /\ Posted(s, m)
      BY <2>1
    <3> QED BY <3>1, PostGains DEF TypeInv
  <2> QED BY <1>1, <1>2, <2>1, ClientPosts
<1>3. ASSUME NEW p \in Node, ServeClient(p)
      PROVE  x \in Elems(mailbox[n])
  BY <1>3, ServeTakes, TakenGains DEF TypeInv
<1>4. ASSUME NEW p \in Node, NEW q \in Node, ServePeer(q, p)
      PROVE  x \in Elems(mailbox[n])
  BY <1>1, <1>4, ServePeerKeeps
<1>5. ASSUME NEW p \in Node, SyncTick(p) \/ NodeLeft(p)
      PROVE  x \in Elems(mailbox[n])
  BY <1>1, <1>5 DEF SyncTick, NodeLeft
<1>6. ASSUME NEW p \in Node, Crash(p)
      PROVE  x \in Elems(mailbox[n])
  <2>1. mailbox'[n] = IF n = p THEN <<>> ELSE mailbox[n]
    BY <1>6 DEF Crash, TypeInv, TypeOK
  <2> QED BY <2>1 DEF Elems
<1>7. ASSUME NEW p \in Node, NEW q \in Node, LinkUp(q, p) \/ LinkDown(q, p)
      PROVE  x \in Elems(mailbox[n])
  BY <1>1, <1>7 DEF LinkUp, LinkDown
<1>8. CASE UNCHANGED vars
  BY <1>1, <1>8 DEF vars
<1> QED
  BY <1>2, <1>3, <1>4, <1>5, <1>6, <1>7, <1>8 DEF Next, Server, Environment

(* What the server p may send to its peers.                                   *)
Sent(p, x) ==
  LET h == Head(mailbox[p])
  IN  \/ x.type \in {"ClusterClientDisconnected", "ClusterKick"}
      \/ /\ Register(p) /\ entry[p][h.name] = Absent
         /\ x = [type |-> "ClusterNewClient", name |-> h.name, pubkey |-> h.pubkey]
      \/ /\ RegisterKey(p)
         /\ x = [type |-> "ClusterClientKey", name |-> h.name, pubkey |-> h.pubkey]
      \/ PublicLine(p) /\ x = [type |-> "ClusterBroadcast", msg |-> h.msg]
      \/ /\ \E t \in {"TellRequest", "EncryptedTellRequest"} : Whisper(p, t)
         /\ x = [type |-> "ClusterSend", msg |-> h.msg]
      \/ \E mine \in SUBSET Name :
           /\ \A y \in mine : entry[p][y] \in Session
           /\ x = [type |-> "ClusterSync", clients |-> [y \in mine |-> pubkey[p][y]]]

LEMMA ToPeersGains ==
  ASSUME TypeOK, NEW n \in Node, NEW m \in ClusterMessage, ToPeers(n, m),
         NEW p \in Node, NEW q \in Node, NEW x \in Elems(link'[p][q])
  PROVE  x \in Elems(link[p][q]) \/ (x = m /\ p = n)
BY BroadcastGains DEF ToPeers, TypeOK

LEMMA ServeClientSends ==
  ASSUME TypeOK, NEW n \in Node, ServeClient(n)
  PROVE  \/ link' = link
         \/ \E m \in ClusterMessage : ToPeers(n, m) /\ Sent(n, m)
<1> DEFINE h == Head(mailbox[n])
<1>1. CASE Register(n)
  <2>1. h.name \in Name /\ h.pubkey \in MaybeKey
    BY <1>1, TakesType, TypeOfMessage DEF Register
  <2>2. CASE entry[n][h.name] = Absent
    <3> DEFINE c == [type |-> "ClusterNewClient", name |-> h.name, pubkey |-> h.pubkey]
    <3>1. ToPeers(n, c)
      BY <1>1, <2>2 DEF Register
    <3>2. c \in ClusterMessage /\ Sent(n, c)
      BY <1>1, <2>1, <2>2, ClusterMessageType DEF Sent
    <3> QED BY <3>1, <3>2
  <2>3. CASE entry[n][h.name] # Absent
    BY <1>1, <2>3 DEF Register
  <2> QED BY <2>2, <2>3
<1>2. CASE RegisterKey(n)
  <2>1. h.name \in Name /\ h.pubkey \in Key
    BY <1>2, TakesType, TypeOfMessage DEF RegisterKey
  <2>2. CASE entry[n][h.name] # Absent
    <3> DEFINE c == [type |-> "ClusterClientKey", name |-> h.name, pubkey |-> h.pubkey]
    <3>1. ToPeers(n, c)
      BY <1>2, <2>2 DEF RegisterKey
    <3>2. c \in ClusterMessage /\ Sent(n, c)
      BY <1>2, <2>1, ClusterMessageType DEF Sent
    <3> QED BY <3>1, <3>2
  <2>3. CASE entry[n][h.name] = Absent
    BY <1>2, <2>3 DEF RegisterKey
  <2> QED BY <2>2, <2>3
<1>3. CASE Unregister(n)
  <2> DEFINE c == [type |-> "ClusterClientDisconnected", name |-> h.name]
  <2>1. h.name \in Name
    BY <1>3, TakesType, TypeOfMessage DEF Unregister
  <2>2. c \in ClusterMessage /\ Sent(n, c)
    BY <2>1, ClusterMessageType DEF Sent
  <2>3. link' = link \/ ToPeers(n, c)
    BY <1>3 DEF Unregister
  <2> QED BY <2>2, <2>3
<1>4. CASE PublicLine(n)
  <2> DEFINE c == [type |-> "ClusterBroadcast", msg |-> h.msg]
  <2>1. h.msg \in Line
    BY <1>4, TakesType, TypeOfMessage DEF PublicLine
  <2>2. c \in ClusterMessage /\ Sent(n, c)
    BY <1>4, <2>1, ClusterMessageType DEF Sent
  <2> QED BY <1>4, <2>2 DEF PublicLine
<1>5. ASSUME NEW t \in {"TellRequest", "EncryptedTellRequest"}, Whisper(n, t)
      PROVE  link' = link \/ \E m \in ClusterMessage : ToPeers(n, m) /\ Sent(n, m)
  <2> DEFINE c == [type |-> "ClusterSend", msg |-> h.msg]
  <2>1. h.msg \in Line
    BY <1>5, TakesType, TypeOfMessage DEF Whisper
  <2>2. c \in ClusterMessage /\ Sent(n, c)
    BY <1>5, <2>1, ClusterMessageType DEF Sent
  <2>3. link' = link \/ ToPeers(n, c)
    BY <1>5 DEF Whisper
  <2> QED BY <2>2, <2>3
<1>6. CASE KickUser(n)
  <2> DEFINE c == [type |-> "ClusterKick", victim |-> h.victim]
  <2>1. h.victim \in Name
    BY <1>6, TakesType, TypeOfMessage DEF KickUser
  <2>2. c \in ClusterMessage /\ Sent(n, c)
    BY <2>1, ClusterMessageType DEF Sent
  <2>3. link' = link \/ ToPeers(n, c)
    BY <1>6 DEF KickUser
  <2> QED BY <2>2, <2>3
<1>7. CASE GetKey(n) \/ ListUsers(n)
  BY <1>7 DEF GetKey, ListUsers
<1> QED
  BY <1>1, <1>2, <1>3, <1>4, <1>5, <1>6, <1>7 DEF ServeClient

LEMMA ServePeerSends ==
  ASSUME TypeOK, NEW p \in Node, NEW n \in Node, ServePeer(p, n),
         NEW i \in Node, NEW j \in Node, NEW x \in Elems(link'[i][j])
  PROVE  x \in Elems(link[i][j]) \/ (i = n /\ x.type = "ClusterKick")
<1> DEFINE h == Head(link[p][n])
<1>1. link[p][n] # <<>>
  BY ServePeerKeeps
<1>2. CASE link' = Popped(p, n)
  BY <1>1, <1>2, PoppedGains
<1>3. CASE /\ NewClient(p, n)
           /\ link' = Broadcast(Popped(p, n), n, [type |-> "ClusterKick", victim |-> h.name])
  <2> DEFINE c == [type |-> "ClusterKick", victim |-> h.name]
  <2>1. h \in ClusterMessage /\ h.type = "ClusterNewClient"
    BY <1>1, <1>3, PoppedType DEF NewClient, Arrives
  <2>2. c \in ClusterMessage
    BY <2>1, TypeOfClusterMessage, ClusterMessageType
  <2>3. Popped(p, n) \in [Node -> [Node -> Seq(ClusterMessage)]]
    BY <1>1, PoppedType
  <2>4. x \in Elems(Broadcast(Popped(p, n), n, c)[i][j])
    BY <1>3
  <2>5. c.type = "ClusterKick"
    OBVIOUS
  <2> HIDE DEF c
  <2>6. x \in Elems(Popped(p, n)[i][j]) \/ (x = c /\ i = n)
    BY <2>2, <2>3, <2>4, BroadcastGains
  <2>7. Elems(Popped(p, n)[i][j]) \subseteq Elems(link[i][j])
    BY <1>1, PoppedGains
  <2> QED BY <2>5, <2>6, <2>7
<1> QED
  BY <1>2, <1>3 DEF ServePeer, NewClient, ClientKey, ClientDisconnected, RemoteLine,
                    RemoteWhisper, RemoteKick, Sync

LEMMA SyncTickSends ==
  ASSUME TypeOK, NEW n \in Node, SyncTick(n)
  PROVE  \E m \in ClusterMessage : ToPeers(n, m) /\ Sent(n, m)
<1> DEFINE mine == {x \in Name : entry[n][x] \in Session}
           infos == [x \in mine |-> pubkey[n][x]]
           c == [type |-> "ClusterSync", clients |-> infos]
<1>1. mine \in SUBSET Name /\ infos \in [mine -> MaybeKey]
  BY DEF TypeOK
<1>2. c \in ClusterMessage
  BY <1>1, ClusterMessageType
<1>3. ToPeers(n, c)
  BY DEF SyncTick
<1>4. Sent(n, c)
  BY <1>1 DEF Sent
<1> QED BY <1>2, <1>3, <1>4

LEMMA LinkGains ==
  ASSUME TypeOK, [Next]_vars, NEW p \in Node, NEW q \in Node, NEW x \in Elems(link'[p][q])
  PROVE  x \in Elems(link[p][q]) \/ Sent(p, x)
<1>1. CASE link' = link
  BY <1>1
<1>2. ASSUME NEW s \in Session, Client(s) PROVE link' = link
  BY <1>2 DEF Client, Connect, EnterName, Joined, Say, AskUsers, PublishKey, AskKey, Tell,
     EncryptedTell, Kick, Answered, Show, Kicked, Leave, Close, Request, TypesLine, netVars
<1>3. ASSUME NEW n \in Node, ServeClient(n) \/ SyncTick(n)
      PROVE  x \in Elems(link[p][q]) \/ Sent(p, x)
  <2>1. link' = link \/ \E m \in ClusterMessage : ToPeers(n, m) /\ Sent(n, m)
    BY <1>3, ServeClientSends, SyncTickSends
  <2>2. CASE \E m \in ClusterMessage : ToPeers(n, m) /\ Sent(n, m)
    <3>1. PICK m \in ClusterMessage : ToPeers(n, m) /\ Sent(n, m)
      BY <2>2
    <3> QED BY <3>1, ToPeersGains
  <2> QED BY <1>1, <2>1, <2>2
<1>4. ASSUME NEW n \in Node, NEW r \in Node, ServePeer(r, n)
      PROVE  x \in Elems(link[p][q]) \/ Sent(p, x)
  BY <1>4, ServePeerSends DEF Sent
<1>5. ASSUME NEW n \in Node, NodeLeft(n) PROVE link' = link
  BY <1>5 DEF NodeLeft, netVars
<1>6. ASSUME NEW n \in Node, NEW r \in Node, Crash(n) \/ LinkDown(r, n)
      PROVE  x \in Elems(link[p][q])
  <2>1. CASE Crash(n)
    <3>1. link'[p][q] = IF n \in {p, q} THEN <<>> ELSE link[p][q]
      BY <2>1 DEF Crash
    <3> QED BY <3>1 DEF Elems
  <2>2. CASE LinkDown(r, n)
    <3>1. link'[p][q] = IF <<p, q>> \in Between(r, n) THEN <<>> ELSE link[p][q]
      BY <2>2 DEF LinkDown
    <3> QED BY <3>1 DEF Elems
  <2> QED BY <1>6, <2>1, <2>2
<1>7. ASSUME NEW n \in Node, NEW r \in Node, LinkUp(r, n) PROVE link' = link
  BY <1>7 DEF LinkUp
<1>8. CASE UNCHANGED vars
  BY <1>1, <1>8 DEF vars
<1> QED
  BY <1>1, <1>2, <1>3, <1>4, <1>5, <1>6, <1>7, <1>8 DEF Next, Server, Environment

(* What the servers may send to the client actor of s.                        *)
Delivered(s, x) ==
  \/ x \in {Deliver(Notice), KickClient}
  \/ \E n \in Node :
       LET msg == Head(mailbox[n]).msg
       IN  /\ x = Deliver(msg)
           /\ \/ PublicLine(n) /\ s \in Locals(entry[n])
              \/ /\ Whisper(n, "TellRequest")
                 /\ s \in {entry[n][msg.to], entry[n][nick[msg.by]]}
              \/ Whisper(n, "EncryptedTellRequest") /\ s = entry[n][msg.to]
  \/ \E p, n \in Node :
       LET msg == Head(link[p][n]).msg
       IN  /\ x = Deliver(msg)
           /\ \/ RemoteLine(p, n) /\ s \in Locals(entry[n])
              \/ RemoteWhisper(p, n) /\ s = entry[n][msg.to]

LEMMA ElemsOne ==
  ASSUME NEW S, NEW m \in S
  PROVE  Elems(<<m>>) = {m}
<1>1. DOMAIN <<m>> = {1} /\ <<m>>[1] = m
  OBVIOUS
<1> QED BY <1>1 DEF Elems

LEMMA ElemsConcat ==
  ASSUME NEW S, NEW q \in Seq(S), NEW m \in S, NEW r \in {<<m>>, <<>>}, NEW x \in Elems(q \o r)
  PROVE  x \in Elems(q) \/ (x = m /\ r = <<m>>)
<1>1. CASE r = <<m>>
  <2>1. q \o <<m>> = Append(q, m)
    OBVIOUS
  <2>2. x \in Elems(Append(q, m))
    BY <1>1, <2>1
  <2>3. Elems(Append(q, m)) = Elems(q) \cup {m}
    BY ElemsAppend
  <2> QED BY <1>1, <2>2, <2>3
<1>2. CASE r = <<>>
  <2>1. q \o <<>> = q
    OBVIOUS
  <2> QED BY <1>2, <2>1
<1> QED BY <1>1, <1>2

LEMMA WhisperDelivers ==
  ASSUME TypeOK, NEW n \in Node, NEW t \in {"TellRequest", "EncryptedTellRequest"},
         Whisper(n, t), NEW s \in Session, NEW x \in Elems(inbox'[s])
  PROVE  x \in Elems(inbox[s]) \/ Delivered(s, x)
<1> DEFINE h == Head(mailbox[n])
           d == Deliver(h.msg)
           target == entry[n][h.msg.to]
           echo == IF t = "TellRequest" THEN {entry[n][nick[h.msg.by]]} \cap Session ELSE {}
<1>1. h.msg \in Line /\ d \in ClientMessage
  <2>1. h \in ServerMessage /\ h.type = t
    BY TakesType DEF Whisper
  <2>2. h.msg \in Line
    BY <2>1, TypeOfMessage
  <2> QED BY <2>2, DeliverType
<1>2. ASSUME x = d, s = target \/ s \in echo
      PROVE  Delivered(s, x)
  <2>1. CASE t = "TellRequest"
    BY <1>2, <2>1 DEF Delivered
  <2>2. CASE t = "EncryptedTellRequest"
    BY <1>2, <2>2 DEF Delivered
  <2> QED BY <2>1, <2>2
<1> HIDE DEF d
<1>3. CASE inbox' = inbox
  BY <1>3
<1>4. CASE ToClients(echo, d)
  BY <1>1, <1>2, <1>4, ToClientsGains
<1>5. CASE inbox' = [z \in Session |->
                 inbox[z] \o (IF z = target /\ Open(z) THEN <<d>> ELSE <<>>)
                          \o (IF z \in echo /\ Open(z) THEN <<d>> ELSE <<>>)]
  <2> DEFINE a == IF s = target /\ Open(s) THEN <<d>> ELSE <<>>
             b == IF s \in echo /\ Open(s) THEN <<d>> ELSE <<>>
  <2>1. inbox'[s] = (inbox[s] \o a) \o b
    BY <1>5
  <2>2. inbox[s] \in Seq(ClientMessage)
    BY DEF TypeOK
  <2>3. /\ a \in {<<d>>, <<>>} /\ (a = <<d>> => s = target)
        /\ b \in {<<d>>, <<>>} /\ (b = <<d>> => s \in echo)
    OBVIOUS
  <2> HIDE DEF a, b, echo, target
  <2>4. inbox[s] \o a \in Seq(ClientMessage)
    <3>1. <<d>> \in Seq(ClientMessage) /\ <<>> \in Seq(ClientMessage)
      BY <1>1
    <3>2. a \in Seq(ClientMessage)
      BY <2>3, <3>1
    <3> QED BY <2>2, <3>2
  <2>5. x \in Elems(inbox[s] \o a) \/ (x = d /\ b = <<d>>)
    BY <1>1, <2>1, <2>3, <2>4, ElemsConcat
  <2>6. x \in Elems(inbox[s] \o a) => x \in Elems(inbox[s]) \/ (x = d /\ a = <<d>>)
    BY <1>1, <2>2, <2>3, ElemsConcat
  <2> QED BY <1>2, <2>3, <2>5, <2>6
<1> QED
  BY <1>3, <1>4, <1>5 DEF Whisper, d

LEMMA InboxGains ==
  ASSUME TypeOK, [Next]_vars, NEW s \in Session, NEW x \in Elems(inbox'[s])
  PROVE  x \in Elems(inbox[s]) \/ Delivered(s, x)
<1>1. CASE inbox' = inbox
  BY <1>1
<1>2. ASSUME NEW S, ToClients(S, Deliver(Notice)) \/ ToClients(S, KickClient)
      PROVE  x \in Elems(inbox[s]) \/ Delivered(s, x)
  BY <1>2, ToClientsGains, DeliverType DEF Delivered
<1>3. ASSUME NEW z \in Session, Client(z)
      PROVE  x \in Elems(inbox[s])
  <2>1. CASE inbox' = inbox
    BY <2>1
  <2>2. CASE Show(z)
    <3>1. inbox'[s] = IF s = z THEN Tail(inbox[z]) ELSE inbox[s]
      BY <2>2 DEF Show, TypeOK
    <3>2. Elems(Tail(inbox[z])) \subseteq Elems(inbox[z])
      BY <2>2, ElemsTail DEF Show, TypeOK
    <3> QED BY <3>1, <3>2
  <2>3. CASE Close(z)
    <3>1. inbox'[s] = IF s = z THEN <<>> ELSE inbox[s]
      BY <2>3 DEF Close, TypeOK
    <3> QED BY <3>1 DEF Elems
  <2> QED
    BY <1>3, <2>1, <2>2, <2>3 DEF Client, Connect, EnterName, Joined, Say, AskUsers, PublishKey,
       AskKey, Tell, EncryptedTell, Kick, Answered, Kicked, Leave, Request, TypesLine
<1>4. ASSUME NEW n \in Node, ServeClient(n)
      PROVE  x \in Elems(inbox[s]) \/ Delivered(s, x)
  <2>1. CASE PublicLine(n)
    <3> DEFINE msg == Head(mailbox[n]).msg
    <3>1. Deliver(msg) \in ClientMessage
      BY <2>1, TakesType, TypeOfMessage, DeliverType DEF PublicLine
    <3>2. ToClients(Locals(entry[n]), Deliver(msg))
      BY <2>1 DEF PublicLine
    <3>3. x \in Elems(inbox[s]) \/ (x = Deliver(msg) /\ s \in Locals(entry[n]))
      BY <3>1, <3>2, ToClientsGains
    <3> QED BY <2>1, <3>3 DEF Delivered
  <2>2. CASE Whisper(n, "TellRequest") \/ Whisper(n, "EncryptedTellRequest")
    BY <2>2, WhisperDelivers
  <2>3. CASE Register(n) \/ Unregister(n) \/ KickUser(n)
    BY <1>1, <1>2, <2>3 DEF Register, Unregister, KickUser
  <2>4. CASE RegisterKey(n) \/ GetKey(n) \/ ListUsers(n)
    BY <1>1, <2>4 DEF RegisterKey, GetKey, ListUsers
  <2> QED BY <1>4, <2>1, <2>2, <2>3, <2>4 DEF ServeClient
<1>5. ASSUME NEW p \in Node, NEW n \in Node, ServePeer(p, n)
      PROVE  x \in Elems(inbox[s]) \/ Delivered(s, x)
  <2> DEFINE h == Head(link[p][n])
  <2>1. h \in ClusterMessage
    BY <1>5, ServePeerKeeps, PoppedType
  <2>2. ASSUME h.type \in {"ClusterBroadcast", "ClusterSend"}
        PROVE  Deliver(h.msg) \in ClientMessage
    BY <2>1, <2>2, TypeOfClusterMessage, DeliverType
  <2>3. CASE RemoteLine(p, n)
    <3>1. ToClients(Locals(entry[n]), Deliver(h.msg)) /\ h.type = "ClusterBroadcast"
      BY <2>3 DEF RemoteLine, Arrives
    <3>2. x \in Elems(inbox[s]) \/ (x = Deliver(h.msg) /\ s \in Locals(entry[n]))
      BY <2>2, <3>1, ToClientsGains
    <3> QED BY <2>3, <3>2 DEF Delivered
  <2>4. CASE RemoteWhisper(p, n)
    <3>1. /\ ToClients({entry[n][h.msg.to]} \cap Session, Deliver(h.msg))
          /\ h.type = "ClusterSend"
      BY <2>4 DEF RemoteWhisper, Arrives
    <3>2. x \in Elems(inbox[s]) \/ (x = Deliver(h.msg) /\ s = entry[n][h.msg.to])
      <4> DEFINE A == {entry[n][h.msg.to]} \cap Session
                 d == Deliver(h.msg)
      <4>1. ToClients(A, d) /\ d \in ClientMessage /\ A \subseteq Session
        BY <2>2, <3>1
      <4>2. s \in A => s = entry[n][h.msg.to]
        OBVIOUS
      <4> HIDE DEF A, d
      <4>3. x \in Elems(inbox[s]) \/ (x = d /\ s \in A)
        BY <4>1, ToClientsGains
      <4> QED BY <4>2, <4>3 DEF d
    <3> QED BY <2>4, <3>2 DEF Delivered
  <2>5. CASE NewClient(p, n) \/ ClientDisconnected(p, n) \/ RemoteKick(p, n)
    BY <1>1, <1>2, <2>5 DEF NewClient, ClientDisconnected, RemoteKick
  <2>6. CASE ClientKey(p, n) \/ Sync(p, n)
    BY <1>1, <2>6 DEF ClientKey, Sync
  <2> QED BY <1>5, <2>3, <2>4, <2>5, <2>6 DEF ServePeer
<1>6. ASSUME NEW n \in Node, NodeLeft(n)
      PROVE  x \in Elems(inbox[s]) \/ Delivered(s, x)
  BY <1>2, <1>6 DEF NodeLeft
<1>7. ASSUME NEW n \in Node, Crash(n)
      PROVE  x \in Elems(inbox[s])
  <2> DEFINE died == {z \in Session : Host[z] = n /\ phase[z] # "offline"}
  <2>1. inbox'[s] = IF s \in died THEN <<>> ELSE inbox[s]
    BY <1>7 DEF Crash
  <2> QED BY <2>1 DEF Elems
<1>8. ASSUME NEW n \in Node, NEW p \in Node, SyncTick(n) \/ LinkUp(p, n) \/ LinkDown(p, n)
      PROVE  x \in Elems(inbox[s])
  BY <1>1, <1>8 DEF SyncTick, LinkUp, LinkDown
<1>9. CASE UNCHANGED vars
  BY <1>1, <1>9 DEF vars
<1> QED
  BY <1>3, <1>4, <1>5, <1>6, <1>7, <1>8, <1>9 DEF Next, Server, Environment

-----------------------------------------------------------------------------
(* Whispers.  What is on its way is what its type says, a whisper is handed   *)
(* to the entry of a name, the entry belongs to a session that carries the    *)
(* name (OwnershipInv), and that session carries it for good (NamesStay).     *)

MailKind(m) ==
  /\ m.type = "BroadcastRequest" => m.msg.kind = "say"
  /\ m.type = "TellRequest" =>
       m.msg.kind = "tell" /\ m.msg.by = m.client /\ m.msg.to \in Name
  /\ m.type = "EncryptedTellRequest" => m.msg.kind = "etell" /\ m.msg.to \in Name

LinkKind(x) ==
  /\ x.type = "ClusterBroadcast" => x.msg.kind = "say"
  /\ x.type = "ClusterSend" => x.msg.kind \in {"tell", "etell"} /\ x.msg.to \in Name

Addressed(s, x) ==
  x.type = "DeliverToClient" /\ x.msg.kind \in {"tell", "etell"} =>
    /\ ~ Nameless(s)
    /\ \/ nick[s] = x.msg.to
       \/ x.msg.kind = "tell" /\ ~ Nameless(x.msg.by) /\ nick[s] = nick[x.msg.by]

WhisperInv ==
  /\ \A n \in Node : \A m \in Elems(mailbox[n]) : MailKind(m)
  /\ \A p, q \in Node : \A x \in Elems(link[p][q]) : LinkKind(x)
  /\ \A s \in Session : \A x \in Elems(inbox[s]) : Addressed(s, x)

LEMMA PostedKind ==
  ASSUME NEW s \in Session, NEW m, Posted(s, m)
  PROVE  MailKind(m)
BY DEF Posted, MailKind, Text

LEMMA SentKind ==
  ASSUME TypeOK, WhisperInv, NEW p \in Node, NEW x, Sent(p, x)
  PROVE  LinkKind(x)
<1> DEFINE h == Head(mailbox[p])
<1>1. ASSUME NEW t, Takes(p, t) PROVE h.type = t /\ MailKind(h)
  BY <1>1, TakenGains, TakesType DEF WhisperInv
<1>2. CASE PublicLine(p) /\ x = [type |-> "ClusterBroadcast", msg |-> h.msg]
  <2>1. h.type = "BroadcastRequest" /\ MailKind(h)
    BY <1>1, <1>2 DEF PublicLine
  <2> QED BY <1>2, <2>1 DEF MailKind, LinkKind
<1>3. ASSUME NEW t \in {"TellRequest", "EncryptedTellRequest"}, Whisper(p, t),
             x = [type |-> "ClusterSend", msg |-> h.msg]
      PROVE  LinkKind(x)
  <2>1. h.type = t /\ MailKind(h)
    BY <1>1, <1>3 DEF Whisper
  <2> QED BY <1>3, <2>1 DEF MailKind, LinkKind
<1>4. CASE x.type \notin {"ClusterBroadcast", "ClusterSend"}
  BY <1>4 DEF LinkKind
<1> QED BY <1>2, <1>3, <1>4 DEF Sent

LEMMA EntryCarriesName ==
  ASSUME OwnershipInv, NEW n \in Node, NEW y \in Name, NEW s \in Session, entry[n][y] = s
  PROVE  ~ Nameless(s) /\ nick[s] = y /\ Host[s] = n
BY OwnerHasName DEF OwnershipInv, LocalEntryHasOwner

LEMMA DeliveredIsAddressed ==
  ASSUME TypeInv, OwnershipInv, WhisperInv, NEW s \in Session, NEW x, Delivered(s, x)
  PROVE  Addressed(s, x)
<1> USE DEF TypeInv
<1>1. CASE x \in {Deliver(Notice), KickClient}
  BY <1>1 DEF Addressed, Deliver, Notice, KickClient
<1>2. ASSUME NEW n \in Node, NEW msg, msg.to \in Name, s = entry[n][msg.to]
      PROVE  Addressed(s, Deliver(msg))
  BY <1>2, EntryCarriesName DEF Addressed, Deliver
<1>3. ASSUME NEW msg, msg.kind = "say"
      PROVE  Addressed(s, Deliver(msg))
  BY <1>3 DEF Addressed, Deliver
<1>4. ASSUME NEW n \in Node, NEW t, Takes(n, t)
      PROVE  LET h == Head(mailbox[n])
             IN  h \in ServerMessage /\ h \in Elems(mailbox[n]) /\ h.type = t /\ MailKind(h)
  BY <1>4, TakenGains, TakesType DEF WhisperInv
<1>5. ASSUME NEW n \in Node, PublicLine(n), x = Deliver(Head(mailbox[n]).msg)
      PROVE  Addressed(s, x)
  <2>1. Head(mailbox[n]).msg.kind = "say"
    BY <1>4, <1>5 DEF PublicLine, MailKind
  <2> QED BY <1>3, <1>5, <2>1
<1>6. ASSUME NEW n \in Node, NEW t \in {"TellRequest", "EncryptedTellRequest"}, Whisper(n, t),
             x = Deliver(Head(mailbox[n]).msg),
             \/ s = entry[n][Head(mailbox[n]).msg.to]
             \/ t = "TellRequest" /\ s = entry[n][nick[Head(mailbox[n]).msg.by]]
      PROVE  Addressed(s, x)
  <2> DEFINE h == Head(mailbox[n])
  <2>1. h \in ServerMessage /\ h.type = t /\ h \in Elems(mailbox[n]) /\ MailKind(h)
    BY <1>4, <1>6 DEF Whisper
  <2>2. CASE s = entry[n][h.msg.to]
    BY <1>2, <1>6, <2>1, <2>2 DEF MailKind
  <2>3. CASE t = "TellRequest" /\ s = entry[n][nick[h.msg.by]]
    <3>1. h.client \in Session /\ h.msg.kind = "tell" /\ h.msg.by = h.client
      BY <2>1, <2>3, TypeOfMessage DEF MailKind
    <3>2. Matches(n, h)
      BY <2>1 DEF OwnershipInv, MailMatchesSender, Elems
    <3>3. phase[h.client] = "asking" /\ ~ Nameless(h.client)
      <4>1. h.type = "TellRequest"
        BY <2>1, <2>3
      <4>2. phase[h.client] = "asking"
        BY <3>2, <4>1 DEF Matches, Blocking
      <4> QED BY <4>2 DEF Nameless
    <3>4. nick[h.client] \in Name
      BY <3>1, <3>3 DEF Named
    <3>5. entry[n][nick[h.client]] = s
      BY <2>3, <3>1
    <3>6. ~ Nameless(s) /\ nick[s] = nick[h.client]
      BY <3>4, <3>5, EntryCarriesName
    <3> QED BY <1>6, <3>1, <3>3, <3>6 DEF Addressed, Deliver
  <2> QED BY <1>6, <2>2, <2>3
<1>7. ASSUME NEW p \in Node, NEW n \in Node, NEW t, Arrives(p, n, t)
      PROVE  Head(link[p][n]).type = t /\ LinkKind(Head(link[p][n]))
  BY <1>7, PoppedGains DEF Arrives, WhisperInv
<1>8. ASSUME NEW p \in Node, NEW n \in Node, RemoteLine(p, n), x = Deliver(Head(link[p][n]).msg)
      PROVE  Addressed(s, x)
  <2>1. Head(link[p][n]).msg.kind = "say"
    BY <1>7, <1>8 DEF RemoteLine, LinkKind
  <2> QED BY <1>3, <1>8, <2>1
<1>9. ASSUME NEW p \in Node, NEW n \in Node, RemoteWhisper(p, n),
             x = Deliver(Head(link[p][n]).msg), s = entry[n][Head(link[p][n]).msg.to]
      PROVE  Addressed(s, x)
  <2>1. Head(link[p][n]).msg.to \in Name
    BY <1>7, <1>9 DEF RemoteWhisper, LinkKind
  <2> QED BY <1>2, <1>9, <2>1
<1> QED
  BY <1>1, <1>5, <1>6, <1>8, <1>9 DEF Delivered

LEMMA WhisperNext ==
  TypeInv /\ OwnershipInv /\ WhisperInv /\ [Next]_vars => WhisperInv'
<1> SUFFICES ASSUME TypeInv, OwnershipInv, WhisperInv, [Next]_vars PROVE WhisperInv'
  OBVIOUS
<1>1. ASSUME NEW n \in Node, NEW m \in Elems(mailbox'[n]) PROVE MailKind(m)
  BY <1>1, MailGains, PostedKind DEF WhisperInv
<1>2. ASSUME NEW p \in Node, NEW q \in Node, NEW x \in Elems(link'[p][q]) PROVE LinkKind(x)
  BY <1>2, LinkGains, SentKind DEF WhisperInv, TypeInv
<1>3. ASSUME NEW s \in Session, NEW x \in Elems(inbox'[s]) PROVE Addressed(s, x)'
  <2>1. inbox' \in [Session -> Seq(ClientMessage)]
    BY TypeInvNext DEF TypeInv, TypeOK
  <2>2. x \in ClientMessage
    BY <1>3, <2>1, ElemsOf
  <2>3. Addressed(s, x)
    BY <1>3, InboxGains, DeliveredIsAddressed DEF WhisperInv, TypeInv
  <2>4. x.type = "DeliverToClient" /\ x.msg.kind \in {"tell", "etell"} => x.msg.by \in Session
    BY <2>2 DEF ClientMessage, ChatMessage, Line, Notice, KickClient
  <2>5. KeepNames
    BY NamesStay DEF TypeInv
  <2> QED BY <2>3, <2>4, <2>5 DEF Addressed, KeepNames
<1> QED BY <1>1, <1>2, <1>3 DEF WhisperInv

LEMMA Whispers == Spec => [](TypeInv /\ OwnershipInv /\ WhisperInv)
<1>1. Init => WhisperInv
  BY DEF Init, WhisperInv, Elems
<1>2. TypeInv /\ OwnershipInv /\ WhisperInv /\ [Next]_vars => WhisperInv'
  BY WhisperNext
<1> QED
  BY <1>1, <1>2, Ownership, PTL DEF Spec

(* Whatever the interleaving, the collisions and the failures: the text of a  *)
(* whisper is only ever in the mailbox of a client actor whose session        *)
(* carries the addressee's name, or, for the echo of a plain /tell, the       *)
(* sender's.                                                                  *)
THEOREM WhispersReachAddressee == Spec => []WhisperReachesAddressee
<1>1. TypeInv /\ OwnershipInv /\ WhisperInv => WhisperReachesAddressee
  <2> SUFFICES ASSUME WhisperInv, NEW s \in Session, NEW i \in DOMAIN inbox[s],
                      inbox[s][i].type = "DeliverToClient",
                      inbox[s][i].msg.kind \in {"tell", "etell"}
               PROVE  \/ nick[s] = inbox[s][i].msg.to
                      \/ /\ inbox[s][i].msg.kind = "tell"
                         /\ nick[s] = nick[inbox[s][i].msg.by]
    BY DEF WhisperReachesAddressee
  <2>1. Addressed(s, inbox[s][i])
    BY DEF WhisperInv, Elems
  <2> QED BY <2>1 DEF Addressed
<1> QED BY <1>1, Whispers, PTL

-----------------------------------------------------------------------------
(* Keys.  A key on its way to a table, in one, or on its way from one, belongs *)
(* to a session that has the name it goes with.                               *)

Owned(x, k) ==
  k # NoKey => \E s \in Session : ~ Nameless(s) /\ nick[s] = x /\ k \in Keyring[s]

KeyMail(m) ==
  /\ m.type = "RegisterClient" => m.pubkey \in Keyring[m.client] \cup {NoKey}
  /\ m.type = "RegisterKeyRequest" => Owned(m.name, m.pubkey)

KeyLink(x) ==
  /\ x.type \in {"ClusterNewClient", "ClusterClientKey"} => Owned(x.name, x.pubkey)
  /\ x.type = "ClusterSync" => \A y \in DOMAIN x.clients : Owned(y, x.clients[y])

KeyInv ==
  /\ \A n \in Node, x \in Name : Owned(x, pubkey[n][x])
  /\ \A s \in Session : reply[s].kind = "key" => Owned(reply[s].of, reply[s].key)
  /\ \A n \in Node : \A m \in Elems(mailbox[n]) : KeyMail(m)
  /\ \A p, q \in Node : \A x \in Elems(link[p][q]) : KeyLink(x)

LEMMA OwnedStays ==
  ASSUME KeepNames, NEW x, NEW k, Owned(x, k)
  PROVE  Owned(x, k)'
BY DEF KeepNames, Owned

LEMMA PostedKey ==
  ASSUME NEW s \in Session, NEW m, Posted(s, m)
  PROVE  KeyMail(m)
<1>1. CASE m.type = "RegisterClient"
  BY <1>1 DEF Posted, KeyMail, Text
<1>2. CASE m.type = "RegisterKeyRequest"
  <2>1. /\ PublishKey(s)
        /\ \E k \in Keyring[s] :
             m = [type |-> "RegisterKeyRequest", client |-> s, name |-> nick[s], pubkey |-> k]
    BY <1>2 DEF Posted, Text
  <2>2. phase[s] = "chatting"
    BY <2>1 DEF PublishKey, Request, TypesLine
  <2> QED BY <2>1, <2>2 DEF KeyMail, Owned, Nameless
<1> QED BY <1>1, <1>2 DEF KeyMail

(* An accepted registration makes its sender the owner of its key.            *)
LEMMA RegisteredOwns ==
  ASSUME TypeInv, OwnershipInv, KeyInv, NEW n \in Node, Register(n),
         entry[n][Head(mailbox[n]).name] = Absent, NEW x, NEW k,
         x = Head(mailbox[n]).name, k = Head(mailbox[n]).pubkey
  PROVE  Owned(x, k)'
<1> DEFINE h == Head(mailbox[n])
<1>1. h \in ServerMessage /\ h.type = "RegisterClient" /\ h \in Elems(mailbox[n])
  BY TakesType, TakenGains DEF Register, TypeInv
<1>2. PICK c \in Session : c = h.client
  BY <1>1, TypeOfMessage
<1>3. k \in Keyring[c] \cup {NoKey}
  BY <1>1, <1>2 DEF KeyInv, KeyMail
<1>4. phase[c] = "joining" /\ nick[c] = x
  BY <1>1, <1>2 DEF OwnershipInv, MailMatchesSender, Elems, Matches, Blocking
<1>5. phase' = phase /\ nick' = nick /\ reply'[c] = Ok
  BY <1>2 DEF Register, Takes, sessionVars, Respond, TypeInv, TypeOK
<1>6. ~ Nameless(c)'
  BY <1>4, <1>5 DEF Nameless
<1> QED BY <1>3, <1>4, <1>5, <1>6 DEF Owned

LEMMA MailOwns ==
  ASSUME TypeInv, KeyInv, NEW n \in Node, RegisterKey(n)
  PROVE  Owned(Head(mailbox[n]).name, Head(mailbox[n]).pubkey)
<1> DEFINE h == Head(mailbox[n])
<1>1. h.type = "RegisterKeyRequest" /\ h \in Elems(mailbox[n])
  BY TakesType, TakenGains DEF RegisterKey, TypeInv
<1> QED BY <1>1 DEF KeyInv, KeyMail

LEMMA SentKey ==
  ASSUME TypeInv, OwnershipInv, KeyInv, [Next]_vars, NEW p \in Node, NEW x, Sent(p, x)
  PROVE  KeyLink(x)'
<1> DEFINE h == Head(mailbox[p])
<1>1. ASSUME Register(p), entry[p][h.name] = Absent,
             x = [type |-> "ClusterNewClient", name |-> h.name, pubkey |-> h.pubkey]
      PROVE  KeyLink(x)'
  <2>1. x.name = h.name /\ x.pubkey = h.pubkey /\ x.type = "ClusterNewClient"
    BY <1>1
  <2>2. Owned(x.name, x.pubkey)'
    BY <1>1, <2>1, RegisteredOwns
  <2> QED BY <2>1, <2>2 DEF KeyLink
<1>2. ASSUME RegisterKey(p),
             x = [type |-> "ClusterClientKey", name |-> h.name, pubkey |-> h.pubkey]
      PROVE  KeyLink(x)'
  <2>1. x.name = h.name /\ x.pubkey = h.pubkey /\ x.type = "ClusterClientKey"
    BY <1>2
  <2>2. Owned(x.name, x.pubkey)
    BY <1>2, <2>1, MailOwns
  <2>3. Owned(x.name, x.pubkey)'
    BY <2>2, OwnedStays, NamesStay
  <2> QED BY <2>1, <2>3 DEF KeyLink
<1>3. ASSUME NEW mine \in SUBSET Name,
             x = [type |-> "ClusterSync", clients |-> [y \in mine |-> pubkey[p][y]]]
      PROVE  KeyLink(x)'
  <2>1. x.type = "ClusterSync" /\ DOMAIN x.clients = mine
        /\ \A y \in mine : x.clients[y] = pubkey[p][y]
    BY <1>3
  <2>2. ASSUME NEW y \in mine PROVE Owned(y, x.clients[y])'
    <3>1. Owned(y, x.clients[y])
      BY <2>1 DEF KeyInv
    <3> QED BY <3>1, OwnedStays, NamesStay
  <2> QED BY <2>1, <2>2 DEF KeyLink
<1>4. CASE x.type \notin {"ClusterNewClient", "ClusterClientKey", "ClusterSync"}
  BY <1>4 DEF KeyLink
<1> QED BY <1>1, <1>2, <1>3, <1>4 DEF Sent

LEMMA ReplyOwned ==
  ASSUME TypeInv, KeyInv, [Next]_vars, NEW s \in Session, reply'[s].kind = "key"
  PROVE  Owned(reply'[s].of, reply'[s].key)
<1> USE DEF TypeInv
<1>1. CASE reply'[s] = reply[s]
  BY <1>1 DEF KeyInv
<1>2. ASSUME NEW c, NEW r, Respond(c, r), r \in {NoReply, Ok, Err} \cup {[kind |-> "users", names |-> N] : N \in SUBSET Name}
      PROVE  reply'[s] = reply[s]
  BY <1>2 DEF Respond, TypeOK, NoReply, Ok, Err
<1>3. ASSUME NEW z \in Session, Client(z) PROVE reply'[s] = reply[s]
  BY <1>2, <1>3 DEF Client, Connect, EnterName, Joined, Say, AskUsers, PublishKey, AskKey, Tell,
     EncryptedTell, Kick, Answered, Show, Kicked, Leave, Close, Request, TypesLine
<1>4. ASSUME NEW n \in Node, GetKey(n)
      PROVE  reply'[s] = reply[s] \/ Owned(reply'[s].of, reply'[s].key)
  <2> DEFINE h == Head(mailbox[n])
             k == pubkey[n][h.target]
  <2>1. h.target \in Name
    BY <1>4, TakesType, TypeOfMessage DEF GetKey
  <2>2. Owned(h.target, k)
    BY <2>1 DEF KeyInv
  <2>3. Respond(h.client, [kind |-> "key", of |-> h.target, key |-> k]) \/ Respond(h.client, Err)
    BY <1>4 DEF GetKey
  <2> HIDE DEF h, k
  <2>4. \/ reply'[s] = reply[s]
        \/ reply'[s] = [kind |-> "key", of |-> h.target, key |-> k]
    BY <1>2, <2>3 DEF Respond, TypeOK
  <2> QED BY <2>2, <2>4
<1>5. ASSUME NEW n \in Node, ServeClient(n), ~ GetKey(n) PROVE reply'[s] = reply[s]
  BY <1>2, <1>5 DEF ServeClient, Register, RegisterKey, Unregister, PublicLine, Whisper,
     KickUser, ListUsers
<1>6. ASSUME NEW n \in Node, NEW p \in Node, ServePeer(p, n) PROVE reply'[s] = reply[s]
  BY <1>6, ServePeerKeeps
<1>7. ASSUME NEW n \in Node, SyncTick(n) \/ NodeLeft(n) PROVE reply'[s] = reply[s]
  BY <1>7 DEF SyncTick, NodeLeft
<1>8. ASSUME NEW n \in Node, Crash(n) PROVE reply'[s] = reply[s]
  BY <1>8 DEF Crash, NoReply
<1>9. ASSUME NEW n \in Node, NEW p \in Node, LinkUp(p, n) \/ LinkDown(p, n)
      PROVE  reply'[s] = reply[s]
  BY <1>9 DEF LinkUp, LinkDown
<1>10. ASSUME UNCHANGED vars PROVE reply'[s] = reply[s]
  BY <1>10 DEF vars
<1>11. reply'[s] = reply[s] \/ Owned(reply'[s].of, reply'[s].key)
  BY <1>3, <1>4, <1>5, <1>6, <1>7, <1>8, <1>9, <1>10 DEF Next, Server, Environment
<1> QED BY <1>1, <1>11

(* Keys that a step files.                                                    *)
LEMMA TableOwned ==
  ASSUME TypeInv, OwnershipInv, KeyInv, [Next]_vars, NEW n \in Node, NEW x \in Name,
         NEW k, k = pubkey'[n][x]
  PROVE  Owned(x, k)'
<1> USE DEF TypeInv
<1>1. ASSUME Owned(x, k) PROVE Owned(x, k)'
  BY <1>1, NamesStay, OwnedStays
<1>2. ASSUME pubkey'[n][x] \in {pubkey[n][x], NoKey} PROVE Owned(x, k)
  BY <1>2 DEF KeyInv, Owned
<1>3. ASSUME NEW p \in Node, NEW y, NEW e, NEW z, SetEntry(p, y, e, z), ~ (n = p /\ x = y)
      PROVE  pubkey'[n][x] = pubkey[n][x]
  BY <1>3 DEF SetEntry, TypeOK
<1>4. ASSUME NEW p \in Node, NEW y, RemoveEntry(p, y)
      PROVE  pubkey'[n][x] \in {pubkey[n][x], NoKey}
  BY <1>4 DEF SetEntry, RemoveEntry, TypeOK
<1>5. ASSUME NEW s \in Session, Client(s) PROVE pubkey' = pubkey
  BY <1>5 DEF Client, Connect, EnterName, Joined, Say, AskUsers, PublishKey, AskKey, Tell,
     EncryptedTell, Kick, Answered, Show, Kicked, Leave, Close, Request, TypesLine, tableVars
<1>6. ASSUME NEW p \in Node, ServeClient(p)
      PROVE  Owned(x, k) \/ Owned(x, k)'
  <2> DEFINE h == Head(mailbox[p])
  <2>1. CASE Register(p)
    <3>1. CASE entry[p][h.name] = Absent /\ n = p /\ x = h.name
      <4>1. pubkey'[n][x] = h.pubkey
        BY <2>1, <3>1 DEF Register, SetEntry, TypeOK
      <4> QED BY <2>1, <3>1, <4>1, RegisteredOwns
    <3>2. CASE ~ (entry[p][h.name] = Absent /\ n = p /\ x = h.name)
      <4>1. pubkey'[n][x] = pubkey[n][x]
        BY <1>3, <2>1, <3>2 DEF Register, tableVars
      <4> QED BY <1>2, <4>1
    <3> QED BY <3>1, <3>2
  <2>2. CASE RegisterKey(p)
    <3>1. CASE n = p /\ x = h.name /\ entry[p][h.name] # Absent
      <4>1. pubkey'[n][x] = h.pubkey
        BY <2>2, <3>1 DEF RegisterKey, TypeOK
      <4> QED BY <2>2, <3>1, <4>1, MailOwns
    <3>2. CASE ~ (n = p /\ x = h.name /\ entry[p][h.name] # Absent)
      <4>1. pubkey'[n][x] = pubkey[n][x]
        BY <2>2, <3>2 DEF RegisterKey, TypeOK
      <4> QED BY <1>2, <4>1
    <3> QED BY <3>1, <3>2
  <2>3. CASE Unregister(p)
    <3>1. RemoveEntry(p, h.name)
      BY <2>3 DEF Unregister
    <3> QED BY <1>2, <1>4, <3>1
  <2>4. ASSUME pubkey' = pubkey PROVE Owned(x, k)
    BY <1>2, <2>4
  <2> QED
    BY <1>6, <2>1, <2>2, <2>3, <2>4 DEF ServeClient, GetKey, PublicLine, Whisper, KickUser,
       ListUsers, tableVars
<1>7. ASSUME NEW p \in Node, NEW q \in Node, ServePeer(p, q)
      PROVE  Owned(x, k)
  <2> DEFINE h == Head(link[p][q])
  <2>1. KeyLink(h) /\ h \in ClusterMessage
    BY <1>7, ServePeerKeeps, PoppedGains, PoppedType DEF KeyInv
  <2>2. ASSUME pubkey'[n][x] = h.pubkey, x = h.name,
               h.type \in {"ClusterNewClient", "ClusterClientKey"}
        PROVE  Owned(x, k)
    BY <2>1, <2>2 DEF KeyLink
  <2>3. CASE NewClient(p, q)
    <3>1. \/ UNCHANGED tableVars
          \/ SetEntry(q, h.name, Remote, h.pubkey) /\ h.type = "ClusterNewClient"
      BY <2>3 DEF NewClient, Arrives
    <3>2. \/ pubkey'[n][x] = pubkey[n][x]
          \/ pubkey'[n][x] = h.pubkey /\ x = h.name /\ h.type = "ClusterNewClient"
      <4>1. CASE UNCHANGED tableVars
        BY <4>1 DEF tableVars
      <4>2. CASE SetEntry(q, h.name, Remote, h.pubkey) /\ h.type = "ClusterNewClient"
        <5>1. CASE n = q /\ x = h.name
          BY <4>2, <5>1 DEF SetEntry, TypeOK
        <5>2. CASE ~ (n = q /\ x = h.name)
          BY <1>3, <4>2, <5>2
        <5> QED BY <5>1, <5>2
      <4> QED BY <3>1, <4>1, <4>2
    <3> QED BY <1>2, <2>2, <3>2
  <2>4. CASE ClientKey(p, q)
    <3>1. \/ pubkey'[n][x] = pubkey[n][x]
          \/ pubkey'[n][x] = h.pubkey /\ x = h.name /\ h.type = "ClusterClientKey"
      BY <2>4 DEF ClientKey, Arrives, TypeOK
    <3> QED BY <1>2, <2>2, <3>1
  <2>5. CASE ClientDisconnected(p, q)
    <3>1. RemoveEntry(q, h.name)
      BY <2>5 DEF ClientDisconnected
    <3> QED BY <1>2, <1>4, <3>1
  <2>6. CASE Sync(p, q)
    <3>1. \/ pubkey'[n][x] = pubkey[n][x]
          \/ x \in DOMAIN h.clients /\ pubkey'[n][x] = h.clients[x]
      <4>1. pubkey' = [pubkey EXCEPT ![q] = [y \in Name |->
                         IF y \in DOMAIN h.clients /\ pubkey[q][y] = NoKey
                           THEN h.clients[y] ELSE pubkey[q][y]]]
        BY <2>6 DEF Sync
      <4>2. CASE n = q
        <5>1. pubkey'[q] = [y \in Name |->
                 IF y \in DOMAIN h.clients /\ pubkey[q][y] = NoKey
                   THEN h.clients[y] ELSE pubkey[q][y]]
          BY <4>1 DEF TypeOK
        <5> HIDE DEF h
        <5>2. pubkey'[q][x] = IF x \in DOMAIN h.clients /\ pubkey[q][x] = NoKey
                                THEN h.clients[x] ELSE pubkey[q][x]
          BY <5>1
        <5> QED BY <4>2, <5>2
      <4>3. CASE n # q
        BY <4>1, <4>3 DEF TypeOK
      <4> QED BY <4>2, <4>3
    <3>2. h.type = "ClusterSync"
      BY <2>6 DEF Sync, Arrives
    <3>3. x \in DOMAIN h.clients => Owned(x, h.clients[x])
      BY <2>1, <3>2 DEF KeyLink
    <3> QED BY <1>2, <3>1, <3>3
  <2>7. ASSUME pubkey' = pubkey PROVE Owned(x, k)
    BY <1>2, <2>7
  <2> QED
    BY <1>7, <2>3, <2>4, <2>5, <2>6, <2>7 DEF ServePeer, RemoteLine, RemoteWhisper, RemoteKick,
       tableVars
<1>8. ASSUME NEW p \in Node, SyncTick(p) \/ NodeLeft(p) PROVE pubkey' = pubkey
  BY <1>8 DEF SyncTick, NodeLeft, tableVars
<1>9. ASSUME NEW p \in Node, Crash(p) PROVE pubkey'[n][x] \in {pubkey[n][x], NoKey}
  BY <1>9 DEF Crash, TypeOK
<1>10. ASSUME NEW p \in Node, NEW q \in Node, LinkUp(q, p) \/ LinkDown(q, p)
       PROVE  pubkey' = pubkey
  BY <1>10 DEF LinkUp, LinkDown, tableVars
<1>11. ASSUME UNCHANGED vars PROVE pubkey' = pubkey
  BY <1>11 DEF vars
<1>12. Owned(x, k) \/ Owned(x, k)'
  BY <1>2, <1>5, <1>6, <1>7, <1>8, <1>9, <1>10, <1>11 DEF Next, Server, Environment
<1> QED BY <1>1, <1>12

LEMMA KeyNext ==
  TypeInv /\ OwnershipInv /\ KeyInv /\ [Next]_vars => KeyInv'
<1> SUFFICES ASSUME TypeInv, OwnershipInv, KeyInv, [Next]_vars PROVE KeyInv'
  OBVIOUS
<1>1. KeepNames
  BY NamesStay
<1>2. ASSUME NEW n \in Node, NEW x \in Name PROVE Owned(x, pubkey[n][x])'
  <2>1. PICK k : k = pubkey'[n][x]
    OBVIOUS
  <2>2. Owned(x, k)'
    BY <2>1, TableOwned
  <2> QED BY <2>1, <2>2 DEF Owned
<1>3. ASSUME NEW s \in Session, reply'[s].kind = "key"
      PROVE  Owned(reply[s].of, reply[s].key)'
  <2>1. PICK x, k : x = reply'[s].of /\ k = reply'[s].key
    OBVIOUS
  <2>2. Owned(x, k)
    BY <1>3, <2>1, ReplyOwned
  <2>3. Owned(x, k)'
    BY <1>1, <2>2, OwnedStays
  <2> QED BY <2>1, <2>3 DEF Owned
<1>4. ASSUME NEW n \in Node, NEW m \in Elems(mailbox'[n]) PROVE KeyMail(m)'
  <2>1. KeyMail(m)
    BY <1>4, MailGains, PostedKey DEF KeyInv
  <2> QED BY <1>1, <2>1, OwnedStays DEF KeyMail
<1>5. ASSUME NEW p \in Node, NEW q \in Node, NEW x \in Elems(link'[p][q]) PROVE KeyLink(x)'
  <2>1. CASE x \in Elems(link[p][q])
    <3>1. KeyLink(x)
      BY <2>1 DEF KeyInv
    <3> QED BY <1>1, <3>1, OwnedStays DEF KeyLink
  <2>2. CASE Sent(p, x)
    BY <2>2, SentKey
  <2> QED BY <1>5, <2>1, <2>2, LinkGains DEF TypeInv
<1> QED BY <1>2, <1>3, <1>4, <1>5 DEF KeyInv

(* Whatever the interleaving and the failures: a key that a table holds for a *)
(* name, or that /getkey returns, was published by a session that carries the *)
(* name.                                                                      *)
THEOREM KeysHaveOwners == Spec => []KeyProvenance
<1>1. Init => KeyInv
  BY DEF Init, KeyInv, Elems, Owned, NoReply
<1>2. TypeInv /\ OwnershipInv /\ KeyInv /\ [Next]_vars => KeyInv'
  BY KeyNext
<1>3. TypeInv /\ KeyInv => KeyProvenance
  <2> SUFFICES ASSUME TypeInv, KeyInv PROVE KeyProvenance
    OBVIOUS
  <2> DEFINE Published(x, k) == \E s \in Session : nick[s] = x /\ k \in Keyring[s]
  <2>1. ASSUME NEW n \in Node, NEW x \in Name, pubkey[n][x] # NoKey
        PROVE  Published(x, pubkey[n][x])
    BY <2>1 DEF KeyInv, Owned
  <2>2. ASSUME NEW s \in Session, reply[s].kind = "key"
        PROVE  Published(reply[s].of, reply[s].key)
    <3>1. reply[s].key \in Key
      <4>1. reply[s] \in Reply
        BY DEF TypeInv, TypeOK
      <4>2. reply[s] \in [kind : {"key"}, of : Name, key : Key]
        BY <2>2, <4>1 DEF Reply, NoReply, Ok, Err
      <4> QED BY <4>2
    <3> QED BY <2>2, <3>1, MarkersAssumption DEF KeyInv, Owned
  <2> QED BY <2>1, <2>2 DEF KeyProvenance
<1> QED
  BY <1>1, <1>2, <1>3, Ownership, PTL DEF Spec

====

--------------------------- MODULE ChatClusterProofs ---------------------------
(* Theorems about ChatCluster, for every set of nodes, sessions, names and    *)
(* keys and every bound.                                                      *)
EXTENDS ChatProperties, TLAPS

-----------------------------------------------------------------------------
(* What sending and receiving do to the types of the queues.                  *)

LEMMA MarkersDiffer ==
  /\ NoReply # Ok /\ NoReply # Err /\ Ok # Err
  /\ \A x, k : [kind |-> "key", of |-> x, key |-> k] \notin {NoReply, Ok, Err}
  /\ \A S : [kind |-> "users", names |-> S] \notin {NoReply, Ok, Err}
  /\ \A msg : Deliver(msg) # KickClient
BY DEF NoReply, Ok, Err, Deliver, KickClient

LEMMA ToClientsType ==
  ASSUME TypeOK, NEW S, NEW m \in ClientMessage, ToClients(S, m)
  PROVE  inbox' \in [Session -> Seq(ClientMessage)]
BY DEF TypeOK, ToClients

LEMMA BroadcastType ==
  ASSUME NEW lk \in [Node -> [Node -> Seq(ClusterMessage)]],
         NEW n \in Node, NEW m \in ClusterMessage
  PROVE  Broadcast(lk, n, m) \in [Node -> [Node -> Seq(ClusterMessage)]]
BY DEF Broadcast

LEMMA PoppedType ==
  ASSUME TypeOK, NEW p \in Node, NEW n \in Node, link[p][n] # <<>>
  PROVE  /\ Popped(p, n) \in [Node -> [Node -> Seq(ClusterMessage)]]
         /\ Head(link[p][n]) \in ClusterMessage
BY DEF TypeOK, Popped

LEMMA PostType ==
  ASSUME TypeOK, NEW s \in Session, NEW m \in ServerMessage, Post(s, m)
  PROVE  mailbox' \in [Node -> Seq(ServerMessage)]
BY ConstantsAssumption DEF TypeOK, Post

LEMMA TakesType ==
  ASSUME TypeOK, NEW n \in Node, NEW t, Takes(n, t)
  PROVE  /\ mailbox' \in [Node -> Seq(ServerMessage)]
         /\ Head(mailbox[n]) \in ServerMessage
         /\ Head(mailbox[n]).type = t
BY DEF TypeOK, Takes

LEMMA DeliverType ==
  /\ Deliver(Notice) \in ClientMessage
  /\ KickClient \in ClientMessage
  /\ \A m \in Line : Deliver(m) \in ClientMessage
BY DEF Deliver, KickClient, ClientMessage, ChatMessage

LEMMA RespondType ==
  ASSUME TypeOK, NEW s, NEW r \in Reply, Respond(s, r)
  PROVE  reply' \in [Session -> Reply]
BY DEF TypeOK, Respond

LEMMA ReplyType ==
  /\ Ok \in Reply /\ Err \in Reply /\ NoReply \in Reply
  /\ \A x \in Name, k \in Key : [kind |-> "key", of |-> x, key |-> k] \in Reply
  /\ \A S \in SUBSET Name : [kind |-> "users", names |-> S] \in Reply
BY DEF Reply

LEMMA SetEntryType ==
  ASSUME TypeOK, NEW n \in Node, NEW x, NEW e \in Session \cup {Absent, Remote},
         NEW k \in MaybeKey, SetEntry(n, x, e, k)
  PROVE  /\ entry' \in [Node -> [Name -> Session \cup {Absent, Remote}]]
         /\ pubkey' \in [Node -> [Name -> MaybeKey]]
BY DEF TypeOK, SetEntry

(* The messages clients, servers and the text of a line are made of.          *)
LEMMA MessageType ==
  /\ \A s \in Session, x \in Name, k \in MaybeKey :
       [type |-> "RegisterClient", client |-> s, name |-> x, pubkey |-> k] \in ServerMessage
  /\ \A s \in Session, x \in Name, k \in Key :
       [type |-> "RegisterKeyRequest", client |-> s, name |-> x, pubkey |-> k] \in ServerMessage
  /\ \A s \in Session, x \in Name :
       /\ [type |-> "GetKeyRequest", client |-> s, target |-> x] \in ServerMessage
       /\ [type |-> "UnregisterClient", client |-> s, name |-> x] \in ServerMessage
       /\ [type |-> "KickRequest", client |-> s, victim |-> x] \in ServerMessage
  /\ \A m \in Line : [type |-> "BroadcastRequest", msg |-> m] \in ServerMessage
  /\ \A s \in Session, m \in Line :
       /\ [type |-> "TellRequest", client |-> s, msg |-> m] \in ServerMessage
       /\ [type |-> "EncryptedTellRequest", client |-> s, msg |-> m] \in ServerMessage
  /\ \A s \in Session : [type |-> "ListUsersRequest", client |-> s] \in ServerMessage
BY DEF ServerMessage

LEMMA ClusterMessageType ==
  /\ \A x \in Name, k \in MaybeKey :
       [type |-> "ClusterNewClient", name |-> x, pubkey |-> k] \in ClusterMessage
  /\ \A x \in Name, k \in Key :
       [type |-> "ClusterClientKey", name |-> x, pubkey |-> k] \in ClusterMessage
  /\ \A x \in Name :
       /\ [type |-> "ClusterClientDisconnected", name |-> x] \in ClusterMessage
       /\ [type |-> "ClusterKick", victim |-> x] \in ClusterMessage
  /\ \A m \in Line :
       /\ [type |-> "ClusterBroadcast", msg |-> m] \in ClusterMessage
       /\ [type |-> "ClusterSend", msg |-> m] \in ClusterMessage
  /\ \A D \in SUBSET Name : \A f \in [D -> MaybeKey] :
       [type |-> "ClusterSync", clients |-> f] \in ClusterMessage
BY DEF ClusterMessage

(* What the type field of a received message says of its other fields.        *)
LEMMA TypeOfMessage ==
  \A m \in ServerMessage :
    /\ m.type # "BroadcastRequest" => m.client \in Session
    /\ m.type = "RegisterClient" => m.name \in Name /\ m.pubkey \in MaybeKey
    /\ m.type = "RegisterKeyRequest" => m.name \in Name /\ m.pubkey \in Key
    /\ m.type = "GetKeyRequest" => m.target \in Name
    /\ m.type = "UnregisterClient" => m.name \in Name
    /\ m.type = "KickRequest" => m.victim \in Name
    /\ m.type \in {"BroadcastRequest", "TellRequest", "EncryptedTellRequest"} => m.msg \in Line
BY DEF ServerMessage

LEMMA TypeOfClusterMessage ==
  \A m \in ClusterMessage :
    /\ m.type = "ClusterNewClient" => m.name \in Name /\ m.pubkey \in MaybeKey
    /\ m.type = "ClusterClientKey" => m.name \in Name /\ m.pubkey \in Key
    /\ m.type = "ClusterClientDisconnected" => m.name \in Name
    /\ m.type = "ClusterKick" => m.victim \in Name
    /\ m.type \in {"ClusterBroadcast", "ClusterSend"} => m.msg \in Line
    /\ m.type = "ClusterSync" => \E D \in SUBSET Name : m.clients \in [D -> MaybeKey]
BY DEF ClusterMessage

LEMMA TextType ==
  ASSUME TypeOK, NEW s \in Session, NEW kind \in {"say", "tell", "etell"},
         NEW to \in Name \cup {NoName}, lines[s] < MaxLines
  PROVE  Text(s, kind, to) \in Line
BY ConstantsAssumption DEF TypeOK, Text, Line

-----------------------------------------------------------------------------
(* Type correctness.                                                          *)

LEMMA TypeOKInit == Init => TypeOK
<1> SUFFICES ASSUME Init PROVE TypeOK
  OBVIOUS
<1>1. /\ MaxLines \in Nat /\ MaxFaults \in Nat
      /\ Linked \subseteq SUBSET Node
  BY ConstantsAssumption
<1>2. /\ entry \in [Node -> [Name -> Session \cup {Absent, Remote}]]
      /\ pubkey \in [Node -> [Name -> MaybeKey]]
      /\ mailbox \in [Node -> Seq(ServerMessage)]
      /\ link \in [Node -> [Node -> Seq(ClusterMessage)]]
  BY DEF Init, MaybeKey
<1>3. /\ phase \in [Session -> Phase]
      /\ nick \in [Session -> Name \cup {NoName}]
      /\ reply \in [Session -> Reply]
      /\ inbox \in [Session -> Seq(ClientMessage)]
  BY ReplyType DEF Init, Phase
<1>4. /\ lines \in [Session -> 0..MaxLines]
      /\ heard \in [Session -> [Session -> 0..MaxLines]]
      /\ up \subseteq SUBSET Node
      /\ faults \in 0..MaxFaults
  BY <1>1 DEF Init
<1> QED BY <1>2, <1>3, <1>4 DEF TypeOK

(* A chat line: Say, or a request that blocks its client.                     *)
LEMMA RequestType ==
  ASSUME TypeOK, NEW s \in Session, NEW kind, NEW m \in ServerMessage,
         Request(s, kind, m)
  PROVE  TypeOK'
<1>1. mailbox' \in [Node -> Seq(ServerMessage)]
  BY PostType DEF Request
<1>2. phase' \in [Session -> Phase]
  BY DEF TypeOK, Request, Phase
<1>3. lines' \in [Session -> 0..MaxLines]
  BY ConstantsAssumption DEF TypeOK, Request, TypesLine
<1> QED
  BY <1>1, <1>2, <1>3 DEF TypeOK, Request, TypesLine, tableVars, netVars

LEMMA CloseType ==
  ASSUME TypeOK, NEW s \in Session, Close(s), phase[s] = "chatting" => nick[s] \in Name
  PROVE  TypeOK'
<1>1. mailbox' \in [Node -> Seq(ServerMessage)]
  BY PostType, MessageType DEF Close, TypeOK
<1>2. phase' \in [Session -> Phase] /\ inbox' \in [Session -> Seq(ClientMessage)]
  BY DEF TypeOK, Close, Phase
<1> QED
  BY <1>1, <1>2 DEF TypeOK, Close, tableVars, netVars

(* TypeOK alone is not inductive: what a client sends is well typed because   *)
(* it has a name from the prompt on.                                          *)
Named ==
  \A s \in Session : phase[s] \in {"joining", "chatting", "asking"} => nick[s] \in Name

TypeInv == TypeOK /\ Named

LEMMA ClientType ==
  ASSUME TypeInv, NEW s \in Session, Client(s)
  PROVE  TypeInv'
<1> USE DEF TypeInv
<1>1. CASE Connect(s)
  BY <1>1 DEF Connect, TypeOK, Named, Phase, tableVars, netVars
<1>2. CASE EnterName(s)
  <2>1. PICK x \in Wish[s], k \in Keyring[s] \cup {NoKey} :
          /\ nick' = [nick EXCEPT ![s] = x]
          /\ Post(s, [type |-> "RegisterClient", client |-> s, name |-> x, pubkey |-> k])
    BY <1>2 DEF EnterName
  <2>2. x \in Name /\ k \in MaybeKey
    BY ConstantsAssumption DEF MaybeKey
  <2>3. mailbox' \in [Node -> Seq(ServerMessage)]
    BY <2>1, <2>2, PostType, MessageType
  <2>4. /\ nick' \in [Session -> Name \cup {NoName}]
        /\ phase' \in [Session -> Phase]
    BY <1>2, <2>1, <2>2 DEF EnterName, TypeOK, Phase
  <2>5. TypeOK'
    BY <1>2, <2>3, <2>4 DEF EnterName, TypeOK, tableVars, netVars
  <2>6. Named'
    BY <1>2, <2>1, <2>2 DEF EnterName, TypeOK, Named
  <2> QED BY <2>5, <2>6
<1>3. CASE Joined(s)
  <2>1. /\ nick' \in [Session -> Name \cup {NoName}]
        /\ phase' \in [Session -> Phase]
        /\ Named'
    <3>1. CASE reply[s] = Ok
      BY <1>3, <3>1 DEF Joined, TypeOK, Named, Phase
    <3>2. CASE reply[s] # Ok
      <4>1. /\ phase' = [phase EXCEPT ![s] = "login"]
            /\ nick' = [nick EXCEPT ![s] = NoName]
        BY <1>3, <3>2 DEF Joined
      <4> QED BY <4>1 DEF TypeOK, Named, Phase
    <3> QED BY <3>1, <3>2
  <2>2. reply' \in [Session -> Reply]
    BY <1>3, RespondType, ReplyType DEF Joined
  <2> QED BY <1>3, <2>1, <2>2 DEF Joined, TypeOK, tableVars, netVars
<1>4. CASE Say(s)
  <2>1. Text(s, "say", NoName) \in Line
    BY <1>4, TextType DEF Say, TypesLine
  <2>2. mailbox' \in [Node -> Seq(ServerMessage)]
    BY <1>4, <2>1, PostType, MessageType DEF Say
  <2>3. lines' \in [Session -> 0..MaxLines]
    BY <1>4, ConstantsAssumption DEF Say, TypesLine, TypeOK
  <2> QED
    BY <1>4, <2>2, <2>3 DEF Say, TypesLine, TypeOK, Named, tableVars, netVars
<1>5. ASSUME NEW kind, NEW m \in ServerMessage, Request(s, kind, m)
      PROVE  TypeInv'
  <2>1. TypeOK'
    BY <1>5, RequestType
  <2>2. Named'
    BY <1>5 DEF Request, TypesLine, Named, TypeOK
  <2> QED BY <2>1, <2>2
<1>6. CASE AskUsers(s)
  BY <1>6, <1>5, MessageType DEF AskUsers
<1>7. CASE PublishKey(s)
  <2>1. PICK k \in Keyring[s] :
          Request(s, "pubkey", [type |-> "RegisterKeyRequest", client |-> s,
                                name |-> nick[s], pubkey |-> k])
    BY <1>7 DEF PublishKey
  <2>2. nick[s] \in Name /\ k \in Key
    BY <2>1, ConstantsAssumption DEF Request, TypesLine, Named
  <2> QED BY <2>1, <2>2, <1>5, MessageType
<1>8. CASE AskKey(s)
  BY <1>8, <1>5, MessageType DEF AskKey
<1>9. CASE Tell(s)
  <2>1. PICK x \in Name :
          Request(s, "tell", [type |-> "TellRequest", client |-> s,
                              msg |-> Text(s, "tell", x)])
    BY <1>9 DEF Tell
  <2>2. Text(s, "tell", x) \in Line
    BY <2>1, TextType DEF Request, TypesLine
  <2> QED BY <2>1, <2>2, <1>5, MessageType
<1>10. CASE EncryptedTell(s)
  <2>1. PICK x \in Name :
          Request(s, "etell", [type |-> "EncryptedTellRequest", client |-> s,
                               msg |-> Text(s, "etell", x)])
    BY <1>10 DEF EncryptedTell
  <2>2. Text(s, "etell", x) \in Line
    BY <2>1, TextType DEF Request, TypesLine
  <2> QED BY <2>1, <2>2, <1>5, MessageType
<1>11. CASE Kick(s)
  BY <1>11, <1>5, MessageType DEF Kick
<1>12. CASE Answered(s)
  <2>1. reply' \in [Session -> Reply]
    BY <1>12, RespondType, ReplyType DEF Answered
  <2>2. phase' \in [Session -> Phase] /\ Named'
    BY <1>12 DEF Answered, TypeOK, Named, Phase
  <2> QED BY <1>12, <2>1, <2>2 DEF Answered, TypeOK, tableVars, netVars
<1>13. CASE Show(s)
  <2>1. /\ inbox' \in [Session -> Seq(ClientMessage)]
        /\ Head(inbox[s]) \in ClientMessage
    BY <1>13 DEF Show, TypeOK
  <2>2. Head(inbox[s]).msg \in ChatMessage
    BY <1>13, <2>1 DEF Show, ClientMessage
  <2>3. heard' \in [Session -> [Session -> 0..MaxLines]]
    <3>1. CASE Head(inbox[s]).msg.kind = "say"
      <4>1. Head(inbox[s]).msg \in Line
        BY <2>2, <3>1 DEF ChatMessage, Notice
      <4>2. Head(inbox[s]).msg.by \in Session /\ Head(inbox[s]).msg.nr \in 0..MaxLines
        BY <4>1, ConstantsAssumption DEF Line
      <4> QED BY <1>13, <3>1, <4>2 DEF Show, TypeOK
    <3>2. CASE Head(inbox[s]).msg.kind # "say"
      BY <1>13, <3>2 DEF Show, TypeOK
    <3> QED BY <3>1, <3>2
  <2> QED BY <1>13, <2>1, <2>3 DEF Show, TypeOK, Named, tableVars, netVars
<1>14. ASSUME Close(s), phase[s] \in {"login", "chatting"}
       PROVE  TypeInv'
  <2>1. TypeOK'
    BY <1>14, CloseType DEF Named
  <2>2. Named'
    BY <1>14 DEF Close, Named, TypeOK
  <2> QED BY <2>1, <2>2
<1>15. CASE Kicked(s)
  BY <1>15, <1>14 DEF Kicked
<1>16. CASE Leave(s)
  BY <1>16, <1>14 DEF Leave
<1> QED
  BY <1>1, <1>2, <1>3, <1>4, <1>6, <1>7, <1>8, <1>9, <1>10, <1>11, <1>12, <1>13,
     <1>15, <1>16 DEF Client

LEMMA ServeClientType ==
  ASSUME TypeOK, NEW n \in Node, ServeClient(n)
  PROVE  TypeOK'
<1> DEFINE m == Head(mailbox[n])
<1>1. ASSUME NEW t, Takes(n, t),
             entry' \in [Node -> [Name -> Session \cup {Absent, Remote}]],
             pubkey' \in [Node -> [Name -> MaybeKey]],
             reply' \in [Session -> Reply],
             inbox' \in [Session -> Seq(ClientMessage)],
             link' \in [Node -> [Node -> Seq(ClusterMessage)]]
      PROVE  TypeOK'
  BY <1>1, TakesType DEF TypeOK, Takes, sessionVars
<1>2. ASSUME NEW t, Takes(n, t)
      PROVE  m \in ServerMessage /\ m.type = t
  BY <1>2, TakesType
<1>3. CASE Register(n)
  <2>1. m.client \in Session /\ m.name \in Name /\ m.pubkey \in MaybeKey
    BY <1>2, <1>3, TypeOfMessage DEF Register
  <2>2. reply' \in [Session -> Reply]
    BY <1>3, RespondType, ReplyType DEF Register
  <2>3. CASE entry[n][m.name] # Absent
    BY <1>1, <1>3, <2>2, <2>3 DEF Register, TypeOK, tableVars
  <2>4. CASE entry[n][m.name] = Absent
    <3>1. /\ SetEntry(n, m.name, m.client, m.pubkey)
          /\ ToClients(Locals(entry'[n]), Deliver(Notice))
          /\ ToPeers(n, [type |-> "ClusterNewClient", name |-> m.name, pubkey |-> m.pubkey])
      BY <1>3, <2>4 DEF Register
    <3>2. /\ entry' \in [Node -> [Name -> Session \cup {Absent, Remote}]]
          /\ pubkey' \in [Node -> [Name -> MaybeKey]]
      BY <2>1, <3>1, SetEntryType
    <3>3. inbox' \in [Session -> Seq(ClientMessage)]
      BY <3>1, ToClientsType, DeliverType
    <3>4. link' \in [Node -> [Node -> Seq(ClusterMessage)]]
      BY <2>1, <3>1, BroadcastType, ClusterMessageType DEF ToPeers, TypeOK
    <3> QED BY <1>1, <1>3, <2>2, <3>2, <3>3, <3>4 DEF Register
  <2> QED BY <2>3, <2>4
<1>4. CASE RegisterKey(n)
  <2>1. m.client \in Session /\ m.name \in Name /\ m.pubkey \in Key
    BY <1>2, <1>4, TypeOfMessage DEF RegisterKey
  <2>2. reply' \in [Session -> Reply]
    BY <1>4, RespondType, ReplyType DEF RegisterKey
  <2>3. CASE entry[n][m.name] # Absent
    <3>1. /\ pubkey' = [pubkey EXCEPT ![n][m.name] = m.pubkey]
          /\ ToPeers(n, [type |-> "ClusterClientKey", name |-> m.name, pubkey |-> m.pubkey])
          /\ UNCHANGED <<entry, inbox>>
      BY <1>4, <2>3 DEF RegisterKey
    <3>2. m.pubkey \in MaybeKey
      BY <2>1 DEF MaybeKey
    <3>3. pubkey' \in [Node -> [Name -> MaybeKey]]
      BY <3>1, <3>2 DEF TypeOK
    <3>4. link' \in [Node -> [Node -> Seq(ClusterMessage)]]
      BY <2>1, <3>1, BroadcastType, ClusterMessageType DEF ToPeers, TypeOK
    <3>5. /\ entry' \in [Node -> [Name -> Session \cup {Absent, Remote}]]
          /\ inbox' \in [Session -> Seq(ClientMessage)]
      BY <3>1 DEF TypeOK
    <3>6. Takes(n, "RegisterKeyRequest")
      BY <1>4 DEF RegisterKey
    <3> QED BY <1>1, <2>2, <3>3, <3>4, <3>5, <3>6
  <2>4. CASE entry[n][m.name] = Absent
    BY <1>1, <1>4, <2>2, <2>4 DEF RegisterKey, TypeOK
  <2> QED BY <2>3, <2>4
<1>5. CASE GetKey(n)
  <2>1. m.target \in Name
    BY <1>2, <1>5, TypeOfMessage DEF GetKey
  <2>2. pubkey[n][m.target] # NoKey => pubkey[n][m.target] \in Key
    BY <2>1 DEF TypeOK, MaybeKey
  <2>3. reply' \in [Session -> Reply]
    BY <1>5, <2>1, <2>2, RespondType, ReplyType DEF GetKey
  <2> QED BY <1>1, <1>5, <2>3 DEF GetKey, TypeOK, tableVars
<1>6. CASE Unregister(n)
  <2>1. m.name \in Name
    BY <1>2, <1>6, TypeOfMessage DEF Unregister
  <2>2. /\ entry' \in [Node -> [Name -> Session \cup {Absent, Remote}]]
        /\ pubkey' \in [Node -> [Name -> MaybeKey]]
    BY <1>6, <2>1, SetEntryType DEF Unregister, RemoveEntry, MaybeKey
  <2>3. CASE entry[n][m.name] \in Session
    <3>1. /\ ToClients(Locals(entry'[n]), Deliver(Notice))
          /\ ToPeers(n, [type |-> "ClusterClientDisconnected", name |-> m.name])
      BY <1>6, <2>3 DEF Unregister
    <3>2. inbox' \in [Session -> Seq(ClientMessage)]
      BY <3>1, ToClientsType, DeliverType
    <3>3. link' \in [Node -> [Node -> Seq(ClusterMessage)]]
      BY <2>1, <3>1, BroadcastType, ClusterMessageType DEF ToPeers, TypeOK
    <3> QED BY <1>1, <1>6, <2>2, <3>2, <3>3 DEF Unregister, TypeOK
  <2>4. CASE entry[n][m.name] \notin Session
    BY <1>1, <1>6, <2>2, <2>4 DEF Unregister, TypeOK
  <2> QED BY <2>3, <2>4
<1>7. CASE PublicLine(n)
  <2>1. m.msg \in Line
    BY <1>2, <1>7, TypeOfMessage DEF PublicLine
  <2>2. inbox' \in [Session -> Seq(ClientMessage)]
    BY <1>7, <2>1, ToClientsType, DeliverType DEF PublicLine
  <2>3. link' \in [Node -> [Node -> Seq(ClusterMessage)]]
    BY <1>7, <2>1, BroadcastType, ClusterMessageType DEF PublicLine, ToPeers, TypeOK
  <2> QED BY <1>1, <1>7, <2>2, <2>3 DEF PublicLine, TypeOK, tableVars
<1>8. ASSUME NEW t \in {"TellRequest", "EncryptedTellRequest"}, Whisper(n, t)
      PROVE  TypeOK'
  <2>1. m.msg \in Line /\ Deliver(m.msg) \in ClientMessage
    BY <1>2, <1>8, TypeOfMessage, DeliverType DEF Whisper
  <2>2. reply' \in [Session -> Reply]
    BY <1>8, RespondType, ReplyType DEF Whisper
  <2>3. inbox' \in [Session -> Seq(ClientMessage)]
    <3> DEFINE echo == IF t = "TellRequest" THEN {entry[n][nick[m.msg.by]]} \cap Session
                                            ELSE {}
    <3>1. CASE entry[n][m.msg.to] = Absent
      BY <1>8, <3>1, MarkersAssumption DEF Whisper, TypeOK
    <3>2. CASE entry[n][m.msg.to] \in Session
      <4>1. inbox' = [s \in Session |->
               inbox[s] \o (IF s = entry[n][m.msg.to] /\ Open(s)
                              THEN <<Deliver(m.msg)>> ELSE <<>>)
                        \o (IF s \in echo /\ Open(s) THEN <<Deliver(m.msg)>> ELSE <<>>)]
        BY <1>8, <3>2, MarkersAssumption DEF Whisper
      <4>2. <<Deliver(m.msg)>> \in Seq(ClientMessage) /\ <<>> \in Seq(ClientMessage)
        BY <2>1
      <4> HIDE DEF m, echo
      <4> QED BY <4>1, <4>2 DEF TypeOK
    <3>3. CASE entry[n][m.msg.to] = Remote
      <4>1. ToClients(echo, Deliver(m.msg))
        BY <1>8, <3>3, MarkersAssumption DEF Whisper
      <4> QED BY <2>1, <4>1, ToClientsType
    <3> QED BY <1>8, <3>1, <3>2, <3>3 DEF Whisper
  <2>4. link' \in [Node -> [Node -> Seq(ClusterMessage)]]
    <3>1. [type |-> "ClusterSend", msg |-> m.msg] \in ClusterMessage
      BY <2>1, ClusterMessageType
    <3>2. Broadcast(link, n, [type |-> "ClusterSend", msg |-> m.msg])
            \in [Node -> [Node -> Seq(ClusterMessage)]]
      BY <3>1, BroadcastType DEF TypeOK
    <3>3. \/ ToPeers(n, [type |-> "ClusterSend", msg |-> m.msg])
          \/ UNCHANGED link
      BY <1>8 DEF Whisper
    <3> QED BY <3>2, <3>3 DEF ToPeers, TypeOK
  <2> QED BY <1>1, <1>8, <2>2, <2>3, <2>4 DEF Whisper, TypeOK, tableVars
<1>9. CASE KickUser(n)
  <2>1. m.victim \in Name
    BY <1>2, <1>9, TypeOfMessage DEF KickUser
  <2>2. reply' \in [Session -> Reply]
    BY <1>9, RespondType, ReplyType DEF KickUser
  <2>3. inbox' \in [Session -> Seq(ClientMessage)]
    BY <1>9, ToClientsType, DeliverType DEF KickUser, TypeOK
  <2>4. link' \in [Node -> [Node -> Seq(ClusterMessage)]]
    <3>1. [type |-> "ClusterKick", victim |-> m.victim] \in ClusterMessage
      BY <2>1, ClusterMessageType
    <3>2. Broadcast(link, n, [type |-> "ClusterKick", victim |-> m.victim])
            \in [Node -> [Node -> Seq(ClusterMessage)]]
      BY <3>1, BroadcastType DEF TypeOK
    <3>3. \/ ToPeers(n, [type |-> "ClusterKick", victim |-> m.victim])
          \/ UNCHANGED link
      BY <1>9 DEF KickUser
    <3> QED BY <3>2, <3>3 DEF ToPeers, TypeOK
  <2> QED BY <1>1, <1>9, <2>2, <2>3, <2>4 DEF KickUser, TypeOK, tableVars
<1>10. CASE ListUsers(n)
  <2>1. {x \in Name : entry[n][x] # Absent} \in SUBSET Name
    OBVIOUS
  <2>2. [kind |-> "users", names |-> {x \in Name : entry[n][x] # Absent}] \in Reply
    BY <2>1, ReplyType
  <2>3. reply' \in [Session -> Reply]
    BY <1>10, <2>2, RespondType DEF ListUsers
  <2> QED BY <1>1, <1>10, <2>3 DEF ListUsers, TypeOK, tableVars
<1> QED
  BY <1>3, <1>4, <1>5, <1>6, <1>7, <1>8, <1>9, <1>10 DEF ServeClient

LEMMA ServePeerType ==
  ASSUME TypeOK, NEW p \in Node, NEW n \in Node, ServePeer(p, n)
  PROVE  TypeOK'
<1> DEFINE m == Head(link[p][n])
<1>1. ASSUME NEW t, Arrives(p, n, t),
             entry' \in [Node -> [Name -> Session \cup {Absent, Remote}]],
             pubkey' \in [Node -> [Name -> MaybeKey]],
             inbox' \in [Session -> Seq(ClientMessage)],
             link' \in [Node -> [Node -> Seq(ClusterMessage)]]
      PROVE  TypeOK'
  BY <1>1 DEF TypeOK, Arrives, sessionVars
<1>2. ASSUME NEW t, Arrives(p, n, t)
      PROVE  /\ m \in ClusterMessage /\ m.type = t
             /\ Popped(p, n) \in [Node -> [Node -> Seq(ClusterMessage)]]
  BY <1>2, PoppedType DEF Arrives
<1>3. CASE NewClient(p, n)
  <2>1. m.name \in Name /\ m.pubkey \in MaybeKey
    BY <1>2, <1>3, TypeOfClusterMessage DEF NewClient
  <2>2. Popped(p, n) \in [Node -> [Node -> Seq(ClusterMessage)]]
    BY <1>2, <1>3 DEF NewClient
  <2>3. link' \in [Node -> [Node -> Seq(ClusterMessage)]]
    <3>1. [type |-> "ClusterKick", victim |-> m.name] \in ClusterMessage
      BY <2>1, ClusterMessageType
    <3>2. Broadcast(Popped(p, n), n, [type |-> "ClusterKick", victim |-> m.name])
            \in [Node -> [Node -> Seq(ClusterMessage)]]
      BY <2>2, <3>1, BroadcastType
    <3> QED BY <1>3, <2>2, <3>2 DEF NewClient
  <2>4. inbox' \in [Session -> Seq(ClientMessage)]
    BY <1>3, ToClientsType, DeliverType DEF NewClient, TypeOK
  <2>5. /\ entry' \in [Node -> [Name -> Session \cup {Absent, Remote}]]
        /\ pubkey' \in [Node -> [Name -> MaybeKey]]
    BY <1>3, <2>1, SetEntryType DEF NewClient, TypeOK, tableVars
  <2> QED BY <1>1, <1>3, <2>3, <2>4, <2>5 DEF NewClient
<1>4. CASE ClientKey(p, n)
  <2>1. m.name \in Name /\ m.pubkey \in MaybeKey
    BY <1>2, <1>4, TypeOfClusterMessage DEF ClientKey, MaybeKey
  <2>2. pubkey' \in [Node -> [Name -> MaybeKey]]
    BY <1>4, <2>1 DEF ClientKey, TypeOK
  <2> QED BY <1>1, <1>2, <1>4, <2>2 DEF ClientKey, TypeOK
<1>5. CASE ClientDisconnected(p, n)
  <2>1. m.name \in Name
    BY <1>2, <1>5, TypeOfClusterMessage DEF ClientDisconnected
  <2>2. /\ entry' \in [Node -> [Name -> Session \cup {Absent, Remote}]]
        /\ pubkey' \in [Node -> [Name -> MaybeKey]]
    BY <1>5, <2>1, SetEntryType DEF ClientDisconnected, RemoveEntry, MaybeKey
  <2>3. inbox' \in [Session -> Seq(ClientMessage)]
    BY <1>5, ToClientsType, DeliverType DEF ClientDisconnected, TypeOK
  <2> QED BY <1>1, <1>2, <1>5, <2>2, <2>3 DEF ClientDisconnected
<1>6. CASE RemoteLine(p, n)
  <2>1. Deliver(m.msg) \in ClientMessage
    <3>1. m.msg \in Line
      BY <1>2, <1>6, TypeOfClusterMessage DEF RemoteLine
    <3> HIDE DEF m
    <3> QED BY <3>1, DeliverType
  <2>2. inbox' \in [Session -> Seq(ClientMessage)]
    BY <1>6, <2>1, ToClientsType DEF RemoteLine
  <2> QED BY <1>1, <1>2, <1>6, <2>2 DEF RemoteLine, TypeOK, tableVars
<1>7. CASE RemoteWhisper(p, n)
  <2>1. Deliver(m.msg) \in ClientMessage
    <3>1. m.msg \in Line
      BY <1>2, <1>7, TypeOfClusterMessage DEF RemoteWhisper
    <3> HIDE DEF m
    <3> QED BY <3>1, DeliverType
  <2>2. inbox' \in [Session -> Seq(ClientMessage)]
    BY <1>7, <2>1, ToClientsType DEF RemoteWhisper
  <2> QED BY <1>1, <1>2, <1>7, <2>2 DEF RemoteWhisper, TypeOK, tableVars
<1>8. CASE RemoteKick(p, n)
  <2>1. inbox' \in [Session -> Seq(ClientMessage)]
    BY <1>8, ToClientsType, DeliverType DEF RemoteKick
  <2> QED BY <1>1, <1>2, <1>8, <2>1 DEF RemoteKick, TypeOK, tableVars
<1>9. CASE Sync(p, n)
  <2>1. PICK D \in SUBSET Name : m.clients \in [D -> MaybeKey]
    BY <1>2, <1>9, TypeOfClusterMessage DEF Sync
  <2>2. entry' \in [Node -> [Name -> Session \cup {Absent, Remote}]]
    BY <1>9 DEF Sync, TypeOK
  <2>3. pubkey' \in [Node -> [Name -> MaybeKey]]
    BY <1>9, <2>1 DEF Sync, TypeOK
  <2> QED BY <1>1, <1>2, <1>9, <2>2, <2>3 DEF Sync, TypeOK
<1> QED
  BY <1>3, <1>4, <1>5, <1>6, <1>7, <1>8, <1>9 DEF ServePeer

LEMMA SyncTickType ==
  ASSUME TypeOK, NEW n \in Node, SyncTick(n)
  PROVE  TypeOK'
<1> DEFINE mine == {x \in Name : entry[n][x] \in Session}
           infos == [x \in mine |-> pubkey[n][x]]
<1>1. mine \in SUBSET Name /\ infos \in [mine -> MaybeKey]
  BY DEF TypeOK
<1>2. [type |-> "ClusterSync", clients |-> infos] \in ClusterMessage
  BY <1>1, ClusterMessageType
<1>3. link' \in [Node -> [Node -> Seq(ClusterMessage)]]
  BY <1>2, BroadcastType DEF SyncTick, ToPeers, TypeOK
<1> QED
  BY <1>3 DEF SyncTick, TypeOK, tableVars, sessionVars

LEMMA EnvironmentType ==
  ASSUME TypeInv, Environment
  PROVE  TypeInv'
<1> USE DEF TypeInv
<1>1. ASSUME NEW n \in Node, NodeLeft(n) PROVE TypeInv'
  <2>1. inbox' \in [Session -> Seq(ClientMessage)]
    BY <1>1, ToClientsType, DeliverType DEF NodeLeft
  <2> QED BY <1>1, <2>1 DEF NodeLeft, TypeOK, Named, tableVars, sessionVars, netVars
<1>2. ASSUME NEW n \in Node, Crash(n) PROVE TypeInv'
  <2>1. /\ entry' \in [Node -> [Name -> Session \cup {Absent, Remote}]]
        /\ pubkey' \in [Node -> [Name -> MaybeKey]]
    BY <1>2 DEF Crash, TypeOK, MaybeKey
  <2>2. /\ mailbox' \in [Node -> Seq(ServerMessage)]
        /\ inbox' \in [Session -> Seq(ClientMessage)]
        /\ link' \in [Node -> [Node -> Seq(ClusterMessage)]]
    BY <1>2 DEF Crash, TypeOK
  <2>3. /\ phase' \in [Session -> Phase]
        /\ reply' \in [Session -> Reply]
        /\ Named'
    BY <1>2, ReplyType DEF Crash, TypeOK, Phase, Named
  <2>4. faults' \in 0..MaxFaults /\ up' \subseteq SUBSET Node
    BY <1>2, ConstantsAssumption DEF Crash, TypeOK
  <2> QED BY <1>2, <2>1, <2>2, <2>3, <2>4 DEF Crash, TypeOK
<1>3. ASSUME NEW p \in Node, NEW n \in Node, LinkUp(p, n) PROVE TypeInv'
  BY <1>3 DEF LinkUp, TypeOK, Named, tableVars, sessionVars
<1>4. ASSUME NEW p \in Node, NEW n \in Node, LinkDown(p, n) PROVE TypeInv'
  <2>1. /\ link' \in [Node -> [Node -> Seq(ClusterMessage)]]
        /\ faults' \in 0..MaxFaults /\ up' \subseteq SUBSET Node
    BY <1>4, ConstantsAssumption DEF LinkDown, TypeOK
  <2> QED BY <1>4, <2>1 DEF LinkDown, TypeOK, Named, tableVars, sessionVars
<1> QED
  BY <1>1, <1>2, <1>3, <1>4 DEF Environment

LEMMA TypeInvNext == TypeInv /\ [Next]_vars => TypeInv'
<1> SUFFICES ASSUME TypeInv, [Next]_vars PROVE TypeInv'
  OBVIOUS
<1>1. ASSUME NEW s \in Session, Client(s) PROVE TypeInv'
  BY <1>1, ClientType
<1>2. ASSUME NEW n \in Node, Server(n) PROVE TypeInv'
  <2>1. TypeOK'
    BY <1>2, ServeClientType, ServePeerType, SyncTickType DEF Server, TypeInv
  <2>2. UNCHANGED <<phase, nick>>
    <3>1. CASE ServeClient(n)
      BY <3>1 DEF ServeClient, Register, RegisterKey, GetKey, Unregister, PublicLine,
                  Whisper, KickUser, ListUsers, Takes, sessionVars
    <3>2. ASSUME NEW p \in Node, ServePeer(p, n) PROVE UNCHANGED <<phase, nick>>
      BY <3>2 DEF ServePeer, NewClient, ClientKey, ClientDisconnected, RemoteLine,
                  RemoteWhisper, RemoteKick, Sync, Arrives, sessionVars
    <3>3. CASE SyncTick(n)
      BY <3>3 DEF SyncTick, sessionVars
    <3> QED BY <1>2, <3>1, <3>2, <3>3 DEF Server
  <2> QED BY <2>1, <2>2 DEF TypeInv, Named
<1>3. CASE Environment
  BY <1>3, EnvironmentType
<1>4. CASE UNCHANGED vars
  BY <1>4 DEF vars, TypeInv, TypeOK, Named
<1> QED
  BY <1>1, <1>2, <1>3, <1>4 DEF Next

(* The state of the servers, the clients and the links is always well typed;  *)
(* in particular every message a handler takes has the fields it reads.       *)
THEOREM TypeCorrect == Spec => []TypeOK
<1>1. Init => TypeInv
  BY TypeOKInit DEF Init, TypeInv, Named
<1>2. TypeInv => TypeOK
  BY DEF TypeInv
<1> QED
  BY <1>1, <1>2, TypeInvNext, PTL DEF Spec

-----------------------------------------------------------------------------
(* Ownership of names.  The invariant follows a session from its request for  *)
(* a name to the release of it: RegisterClient in the mailbox (no entry), Ok  *)
(* in the reply or a live main loop (entry, if any, is its own), and          *)
(* UnregisterClient in the mailbox (entry, if any, about to go).              *)

(* A client's queue of one: nothing of s that an answer or a removal follows. *)
NoMail(s) ==
  \A n \in Node : \A i \in DOMAIN mailbox[n] :
    mailbox[n][i].type \in Blocking \cup {"UnregisterClient"} => mailbox[n][i].client # s

LEMMA NoMailOf ==
  ASSUME MailMatchesSender, NEW s \in Session,
         \/ phase[s] \in {"offline", "login", "chatting"}
         \/ phase[s] # "closed" /\ reply[s] # NoReply
  PROVE  NoMail(s)
<1> SUFFICES ASSUME NEW n \in Node, NEW i \in DOMAIN mailbox[n],
                    mailbox[n][i].type \in Blocking \cup {"UnregisterClient"},
                    mailbox[n][i].client = s
             PROVE  FALSE
  BY DEF NoMail
<1>1. Matches(n, mailbox[n][i])
  BY DEF MailMatchesSender
<1> QED BY <1>1 DEF Matches

LEMMA PostedMail ==
  ASSUME TypeOK, NEW s \in Session, NEW m \in ServerMessage, Post(s, m), NEW n \in Node
  PROVE  /\ \A i \in DOMAIN mailbox'[n] :
              \/ i \in DOMAIN mailbox[n] /\ mailbox'[n][i] = mailbox[n][i]
              \/ n = Host[s] /\ i = Len(mailbox[n]) + 1 /\ mailbox'[n][i] = m
         /\ \A i \in DOMAIN mailbox[n] :
              i \in DOMAIN mailbox'[n] /\ mailbox'[n][i] = mailbox[n][i]
BY ConstantsAssumption DEF TypeOK, Post

LEMMA TakenMail ==
  ASSUME TypeOK, NEW n \in Node, NEW t, Takes(n, t), NEW p \in Node
  PROVE  /\ \A i \in DOMAIN mailbox'[p] :
              LET j == IF p = n THEN i + 1 ELSE i
              IN  j \in DOMAIN mailbox[p] /\ mailbox'[p][i] = mailbox[p][j]
         /\ \A j \in DOMAIN mailbox[p] :
              LET i == IF p = n THEN j - 1 ELSE j
              IN  \/ p = n /\ j = 1
                  \/ i \in DOMAIN mailbox'[p] /\ mailbox'[p][i] = mailbox[p][j]
BY DEF TypeOK, Takes

LEMMA HeadOfMail ==
  ASSUME TypeOK, NEW n \in Node, NEW t, Takes(n, t)
  PROVE  /\ 1 \in DOMAIN mailbox[n]
         /\ Head(mailbox[n]) = mailbox[n][1]
         /\ mailbox[n][1] \in ServerMessage
         /\ mailbox[n][1].type = t
BY DEF TypeOK, Takes

(* A client step keeps the mail of the others, and posts what it matches.     *)
LEMMA MailAfterClient ==
  ASSUME TypeOK, MailMatchesSender, OneRequest, NEW s \in Session, NoMail(s),
         \A t \in Session \ {s} :
           phase'[t] = phase[t] /\ nick'[t] = nick[t] /\ reply'[t] = reply[t],
         \/ mailbox' = mailbox
         \/ \E m \in ServerMessage :
              /\ Post(s, m)
              /\ Matches(Host[s], m)'
              /\ m.type # "BroadcastRequest" => m.client = s
  PROVE  MailMatchesSender' /\ OneRequest'
<1>1. \A n \in Node : \A i \in DOMAIN mailbox[n] : mailbox[n][i] \in ServerMessage
  BY DEF TypeOK
<1>2. ASSUME NEW n \in Node, NEW i \in DOMAIN mailbox[n], NEW q, q = mailbox[n][i]
      PROVE  Matches(n, q)'
  <2>1. q \in ServerMessage /\ Matches(n, q)
    BY <1>1, <1>2 DEF MailMatchesSender
  <2>2. q.type \in Blocking \cup {"UnregisterClient"} => q.client \in Session \ {s}
    BY <1>2, <2>1, TypeOfMessage DEF NoMail, Blocking
  <2>3. q.type = "RegisterClient" => q.type \in Blocking
    BY DEF Blocking
  <2> QED BY <2>1, <2>2, <2>3 DEF Matches
<1>3. CASE mailbox' = mailbox
  BY <1>2, <1>3 DEF MailMatchesSender, OneRequest
<1>4. ASSUME NEW m \in ServerMessage, Post(s, m), Matches(Host[s], m)',
             m.type # "BroadcastRequest" => m.client = s
      PROVE  MailMatchesSender' /\ OneRequest'
  <2>1. MailMatchesSender'
    BY <1>2, <1>4, PostedMail DEF MailMatchesSender
  <2>2. OneRequest'
    <3> SUFFICES ASSUME NEW n \in Node, NEW i \in DOMAIN mailbox'[n], NEW j \in DOMAIN mailbox'[n],
                        mailbox'[n][i].type \in Blocking, mailbox'[n][j].type \in Blocking,
                        mailbox'[n][i].client = mailbox'[n][j].client
                 PROVE  i = j
      BY DEF OneRequest
    <3>1. /\ \/ i \in DOMAIN mailbox[n] /\ mailbox'[n][i] = mailbox[n][i]
             \/ i = Len(mailbox[n]) + 1 /\ mailbox'[n][i] = m
          /\ \/ j \in DOMAIN mailbox[n] /\ mailbox'[n][j] = mailbox[n][j]
             \/ j = Len(mailbox[n]) + 1 /\ mailbox'[n][j] = m
      BY <1>4, PostedMail
    <3>2. m.type \in Blocking => m.client = s
      BY <1>4 DEF Blocking
    <3> QED BY <3>1, <3>2 DEF OneRequest, NoMail
  <2> QED BY <2>1, <2>2
<1> QED BY <1>3, <1>4

(* A server step takes the first message away, and answers nobody else.       *)
LEMMA MailAfterServer ==
  ASSUME TypeOK, MailMatchesSender, OneRequest, NEW n \in Node, NEW t, Takes(n, t),
         \/ reply' = reply
         \/ t \in Blocking /\ \E r : Respond(Head(mailbox[n]).client, r)
  PROVE  MailMatchesSender' /\ OneRequest'
<1>1. OneRequest'
  <2> SUFFICES ASSUME NEW p \in Node, NEW i \in DOMAIN mailbox'[p], NEW j \in DOMAIN mailbox'[p],
                      mailbox'[p][i].type \in Blocking, mailbox'[p][j].type \in Blocking,
                      mailbox'[p][i].client = mailbox'[p][j].client
               PROVE  i = j
    BY DEF OneRequest
  <2> DEFINE i1 == IF p = n THEN i + 1 ELSE i
             j1 == IF p = n THEN j + 1 ELSE j
  <2>1. /\ i1 \in DOMAIN mailbox[p] /\ mailbox'[p][i] = mailbox[p][i1]
        /\ j1 \in DOMAIN mailbox[p] /\ mailbox'[p][j] = mailbox[p][j1]
    BY TakenMail
  <2>2. i1 = j1
    BY <2>1 DEF OneRequest
  <2>3. i \in Nat /\ j \in Nat
    <3>1. mailbox'[p] \in Seq(ServerMessage)
      BY TakesType
    <3> QED BY <3>1
  <2> QED BY <2>2, <2>3
<1>2. MailMatchesSender'
  <2> SUFFICES ASSUME NEW p \in Node, NEW i \in DOMAIN mailbox'[p]
               PROVE  Matches(p, mailbox[p][i])'
    BY DEF MailMatchesSender
  <2> DEFINE j == IF p = n THEN i + 1 ELSE i
  <2>0. PICK q : q = mailbox[p][j]
    OBVIOUS
  <2>1. j \in DOMAIN mailbox[p] /\ mailbox'[p][i] = q
    BY <2>0, TakenMail
  <2>2. q \in ServerMessage /\ Matches(p, q)
    BY <2>0, <2>1 DEF MailMatchesSender, TypeOK
  <2>3. phase' = phase /\ nick' = nick
    BY DEF Takes, sessionVars
  <2>4. q.type \in Blocking => reply'[q.client] = reply[q.client]
    <3>1. CASE reply' = reply
      BY <3>1
    <3>2. ASSUME t \in Blocking, NEW r, Respond(Head(mailbox[n]).client, r), q.type \in Blocking
          PROVE  reply'[q.client] = reply[q.client]
      <4>1. mailbox[n][1].type \in Blocking /\ Head(mailbox[n]) = mailbox[n][1]
        BY <3>2, HeadOfMail
      <4>2. Matches(n, mailbox[n][1])
        BY HeadOfMail DEF MailMatchesSender
      <4>3. Host[mailbox[n][1].client] = n /\ Host[q.client] = p
        BY <2>2, <3>2, <4>1, <4>2 DEF Matches
      <4>4. p = n => j # 1
        <5>1. mailbox'[p] \in Seq(ServerMessage)
          BY TakesType
        <5> QED BY <5>1
      <4>5. q.client # mailbox[n][1].client
        BY <2>0, <2>1, <3>2, <4>1, <4>3, <4>4, HeadOfMail DEF OneRequest
      <4> QED BY <3>2, <4>1, <4>5 DEF Respond, TypeOK
    <3> QED BY <3>1, <3>2
  <2>5. Matches(p, q)'
    BY <2>2, <2>3, <2>4 DEF Matches, Blocking
  <2> QED BY <2>1, <2>5 DEF Matches
<1> QED BY <1>1, <1>2

(* No step but an accepted RegisterClient makes an entry Local.               *)
OwnersShrink ==
  \A n \in Node, x \in Name, s \in Session : entry'[n][x] = s => entry[n][x] = s

(* No step but the kick of a Local entry's session adds a kick.               *)
KicksSpareNameless ==
  \A s \in Session : Nameless(s) /\ HasKick(s)' => HasKick(s)

LEMMA OwnerHasName ==
  ASSUME LocalEntryHasOwner, NEW n \in Node, NEW x \in Name, NEW s \in Session,
         entry[n][x] = s
  PROVE  ~ Nameless(s)
BY DEF LocalEntryHasOwner, Nameless

LEMMA DeliverAddsNoKick ==
  ASSUME TypeOK, NEW S, NEW x, Deliver(x) \in ClientMessage, ToClients(S, Deliver(x))
  PROVE  KicksSpareNameless
<1> SUFFICES ASSUME NEW s \in Session, HasKick(s)' PROVE HasKick(s)
  BY DEF KicksSpareNameless
<1>1. PICK i \in DOMAIN inbox'[s] : inbox'[s][i] = KickClient
  BY DEF HasKick
<1>2. CASE inbox'[s] = inbox[s]
  BY <1>1, <1>2 DEF HasKick
<1>3. CASE inbox'[s] = Append(inbox[s], Deliver(x))
  <2>1. i = Len(inbox[s]) + 1 => inbox'[s][i] = Deliver(x)
    BY <1>3 DEF TypeOK
  <2>2. i # Len(inbox[s]) + 1
    BY <1>1, <2>1, MarkersDiffer
  <2>3. i \in DOMAIN inbox[s] /\ inbox'[s][i] = inbox[s][i]
    BY <1>3, <2>2 DEF TypeOK
  <2> QED BY <1>1, <2>3 DEF HasKick
<1> QED BY <1>2, <1>3 DEF ToClients

LEMMA KickSparesNameless ==
  ASSUME TypeOK, NEW S, ToClients(S, KickClient), \A s \in S \cap Session : ~ Nameless(s)
  PROVE  KicksSpareNameless
BY DEF KicksSpareNameless, HasKick, ToClients

LEMMA PendingAfterTake ==
  ASSUME TypeOK, NEW n \in Node, NEW t, Takes(n, t), NEW s \in Session, Pending(s),
         ~ (Host[s] = n /\ t = "UnregisterClient" /\ Head(mailbox[n]).name = nick[s])
  PROVE  Pending(s)'
<1>1. PICK j \in DOMAIN mailbox[Host[s]] :
        mailbox[Host[s]][j] = [type |-> "UnregisterClient", client |-> s, name |-> nick[s]]
  BY DEF Pending
<1>2. ~ (Host[s] = n /\ j = 1)
  BY <1>1, HeadOfMail
<1>3. Host[s] \in Node
  BY ConstantsAssumption
<1>4. \E i \in DOMAIN mailbox'[Host[s]] : mailbox'[Host[s]][i] = mailbox[Host[s]][j]
  BY <1>2, <1>3, TakenMail
<1> QED BY <1>1, <1>4 DEF Pending, Takes, sessionVars

(* A step that leaves the clients, their answers and their mail alone.        *)
LEMMA QuietStepKeeps ==
  ASSUME TypeOK, OwnershipInv, UNCHANGED <<mailbox, phase, nick, reply>>,
         OwnersShrink, KicksSpareNameless
  PROVE  OwnershipInv'
<1>1. LocalEntryHasOwner'
  BY DEF OwnershipInv, LocalEntryHasOwner, OwnersShrink, Pending
<1>2. MailMatchesSender' /\ OneRequest' /\ ReplyIsAwaited'
  BY DEF OwnershipInv, MailMatchesSender, Matches, OneRequest, ReplyIsAwaited
<1>3. KicksNeedName'
  BY DEF OwnershipInv, KicksNeedName, KicksSpareNameless, Nameless
<1> QED BY <1>1, <1>2, <1>3 DEF OwnershipInv

(* A server step on a client's message that registers nobody.                 *)
LEMMA ServerStepKeeps ==
  ASSUME TypeOK, OwnershipInv, NEW n \in Node, NEW t, Takes(n, t),
         \/ reply' = reply
         \/ t \in Blocking /\ \E r : Respond(Head(mailbox[n]).client, r),
         OwnersShrink, KicksSpareNameless,
         t = "UnregisterClient" => RemoveEntry(n, Head(mailbox[n]).name)
  PROVE  OwnershipInv'
<1> USE DEF OwnershipInv
<1>1. MailMatchesSender' /\ OneRequest'
  BY MailAfterServer
<1>2. phase' = phase /\ nick' = nick
  BY DEF Takes, sessionVars
<1>3. \A s \in Session : reply'[s] # reply[s] =>
        reply[s] = NoReply /\ phase[s] \in {"joining", "asking"}
  <2>1. CASE reply' = reply
    BY <2>1
  <2>2. ASSUME t \in Blocking, NEW r, Respond(Head(mailbox[n]).client, r),
               NEW s \in Session, reply'[s] # reply[s]
        PROVE  reply[s] = NoReply /\ phase[s] \in {"joining", "asking"}
    <3>1. s = mailbox[n][1].client /\ mailbox[n][1].type \in Blocking
      BY <2>2, HeadOfMail DEF Respond, TypeOK
    <3>2. Matches(n, mailbox[n][1])
      BY HeadOfMail DEF MailMatchesSender
    <3> QED BY <3>1, <3>2 DEF Matches
  <2> QED BY <2>1, <2>2
<1>4. \A s \in Session : phase[s] = "joining" /\ reply[s] = Ok => reply'[s] = Ok
  BY <1>3, MarkersDiffer
<1>5. LocalEntryHasOwner'
  <2> SUFFICES ASSUME NEW p \in Node, NEW x \in Name, NEW s \in Session, entry'[p][x] = s
               PROVE  /\ Host[s] = p /\ nick'[s] = x
                      /\ \/ phase'[s] = "joining" /\ reply'[s] = Ok
                         \/ phase'[s] \in {"chatting", "asking"}
                         \/ phase'[s] = "closed" /\ Pending(s)'
    BY DEF LocalEntryHasOwner
  <2>1. entry[p][x] = s
    BY DEF OwnersShrink
  <2>2. /\ Host[s] = p /\ nick[s] = x
        /\ \/ phase[s] = "joining" /\ reply[s] = Ok
           \/ phase[s] \in {"chatting", "asking"}
           \/ phase[s] = "closed" /\ Pending(s)
    BY <2>1 DEF LocalEntryHasOwner
  <2>3. ~ (Host[s] = n /\ t = "UnregisterClient" /\ Head(mailbox[n]).name = nick[s])
    <3>1. ASSUME Host[s] = n, RemoveEntry(n, nick[s]) PROVE FALSE
      <4>1. entry'[n][x] = Absent
        BY <2>2, <3>1 DEF RemoveEntry, SetEntry, TypeOK
      <4> QED BY <2>2, <3>1, <4>1, MarkersAssumption
    <3> QED BY <3>1
  <2>4. Pending(s) => Pending(s)'
    BY <2>3, PendingAfterTake
  <2> QED BY <1>2, <1>4, <2>2, <2>4
<1>6. ReplyIsAwaited'
  BY <1>2, <1>3 DEF ReplyIsAwaited
<1>7. KicksNeedName'
  BY <1>2, <1>4 DEF KicksNeedName, KicksSpareNameless, Nameless
<1> QED BY <1>1, <1>5, <1>6, <1>7

(* A step of the client s that leaves the tables alone and keeps its inbox.   *)
LEMMA ClientOwnership ==
  ASSUME TypeInv, OwnershipInv, NEW s \in Session, Client(s)
  PROVE  OwnershipInv'
<1> USE DEF TypeInv, OwnershipInv
<1>1. ASSUME UNCHANGED entry, NEW t \in Session \ {s}, NEW n \in Node, NEW x \in Name,
             entry[n][x] = t, phase'[t] = phase[t], nick'[t] = nick[t], reply'[t] = reply[t],
             \/ mailbox' = mailbox
             \/ \E m \in ServerMessage : Post(s, m)
      PROVE  /\ Host[t] = n /\ nick'[t] = x
             /\ \/ phase'[t] = "joining" /\ reply'[t] = Ok
                \/ phase'[t] \in {"chatting", "asking"}
                \/ phase'[t] = "closed" /\ Pending(t)'
  <2>1. /\ Host[t] = n /\ nick[t] = x
        /\ \/ phase[t] = "joining" /\ reply[t] = Ok
           \/ phase[t] \in {"chatting", "asking"}
           \/ phase[t] = "closed" /\ Pending(t)
    BY <1>1 DEF LocalEntryHasOwner
  <2>2. Pending(t) => Pending(t)'
    <3>1. Host[t] \in Node
      BY ConstantsAssumption
    <3>2. \A i \in DOMAIN mailbox[Host[t]] :
            i \in DOMAIN mailbox'[Host[t]] /\ mailbox'[Host[t]][i] = mailbox[Host[t]][i]
      BY <1>1, <3>1, PostedMail
    <3> QED BY <1>1, <3>2 DEF Pending
  <2> QED BY <1>1, <2>1, <2>2
<1>2. ASSUME UNCHANGED entry,
             \A t \in Session \ {s} :
               phase'[t] = phase[t] /\ nick'[t] = nick[t] /\ reply'[t] = reply[t],
             \/ mailbox' = mailbox
             \/ \E m \in ServerMessage : Post(s, m),
             \A n \in Node, x \in Name : entry[n][x] = s =>
               /\ nick'[s] = nick[s]
               /\ \/ phase'[s] = "joining" /\ reply'[s] = Ok
                  \/ phase'[s] \in {"chatting", "asking"}
                  \/ phase'[s] = "closed" /\ Pending(s)'
      PROVE  LocalEntryHasOwner'
  <2> SUFFICES ASSUME NEW n \in Node, NEW x \in Name, NEW t \in Session, entry[n][x] = t
               PROVE  /\ Host[t] = n /\ nick'[t] = x
                      /\ \/ phase'[t] = "joining" /\ reply'[t] = Ok
                         \/ phase'[t] \in {"chatting", "asking"}
                         \/ phase'[t] = "closed" /\ Pending(t)'
    BY <1>2 DEF LocalEntryHasOwner
  <2>1. CASE t = s
    BY <1>2, <2>1 DEF LocalEntryHasOwner
  <2>2. CASE t # s
    BY <1>1, <1>2, <2>2
  <2> QED BY <2>1, <2>2
<1>3. ASSUME UNCHANGED inbox, \A t \in Session : Nameless(t)' => Nameless(t)
      PROVE  KicksNeedName'
  BY <1>3 DEF KicksNeedName, HasKick
<1>4. Nameless(s) => \A n \in Node, x \in Name : entry[n][x] # s
  BY OwnerHasName
<1>5. CASE Connect(s)
  <2>1. NoMail(s) /\ Nameless(s) /\ reply[s] = NoReply
    BY <1>5, NoMailOf DEF Connect, Nameless, ReplyIsAwaited
  <2>2. /\ UNCHANGED <<entry, mailbox, nick, reply, inbox>>
        /\ phase' = [phase EXCEPT ![s] = "login"]
    BY <1>5 DEF Connect, tableVars
  <2>3. \A t \in Session \ {s} : phase'[t] = phase[t]
    BY <2>2 DEF TypeOK
  <2>4. MailMatchesSender' /\ OneRequest'
    BY <2>1, <2>2, <2>3, MailAfterClient
  <2>5. LocalEntryHasOwner'
    BY <1>2, <1>4, <2>1, <2>2, <2>3
  <2>6. ReplyIsAwaited'
    BY <2>1, <2>2, <2>3 DEF ReplyIsAwaited
  <2>7. KicksNeedName'
    BY <1>3, <2>1, <2>2, <2>3 DEF Nameless
  <2> QED BY <2>4, <2>5, <2>6, <2>7
<1>6. CASE EnterName(s)
  <2>1. NoMail(s) /\ Nameless(s) /\ reply[s] = NoReply
    BY <1>6, NoMailOf DEF EnterName, Nameless, ReplyIsAwaited
  <2>2. PICK x \in Wish[s], k \in Keyring[s] \cup {NoKey} :
          /\ nick' = [nick EXCEPT ![s] = x]
          /\ Post(s, [type |-> "RegisterClient", client |-> s, name |-> x, pubkey |-> k])
    BY <1>6 DEF EnterName
  <2> DEFINE m == [type |-> "RegisterClient", client |-> s, name |-> x, pubkey |-> k]
  <2>3. m \in ServerMessage
    BY ConstantsAssumption, MessageType DEF MaybeKey
  <2>4. /\ UNCHANGED <<entry, reply, inbox>>
        /\ phase' = [phase EXCEPT ![s] = "joining"]
    BY <1>6 DEF EnterName, tableVars
  <2>5. /\ \A t \in Session \ {s} : phase'[t] = phase[t] /\ nick'[t] = nick[t]
        /\ phase'[s] = "joining" /\ nick'[s] = x
    BY <2>2, <2>4 DEF TypeOK
  <2>6. Matches(Host[s], m)'
    BY <2>1, <2>4, <2>5 DEF Matches
  <2>7. MailMatchesSender' /\ OneRequest'
    BY <2>1, <2>2, <2>3, <2>4, <2>5, <2>6, MailAfterClient
  <2>8. LocalEntryHasOwner'
    BY <1>2, <1>4, <2>1, <2>2, <2>3, <2>4, <2>5
  <2>9. ReplyIsAwaited'
    BY <2>1, <2>4, <2>5 DEF ReplyIsAwaited
  <2>10. KicksNeedName'
    BY <1>3, <2>1, <2>4, <2>5 DEF Nameless
  <2> QED BY <2>7, <2>8, <2>9, <2>10
<1>7. CASE Joined(s)
  <2>1. NoMail(s)
    BY <1>7, NoMailOf DEF Joined
  <2>2. /\ UNCHANGED <<entry, mailbox, inbox>>
        /\ reply' = [reply EXCEPT ![s] = NoReply]
        /\ phase[s] = "joining"
    BY <1>7 DEF Joined, tableVars, Respond
  <2>3. CASE reply[s] = Ok
    <3>1. /\ phase' = [phase EXCEPT ![s] = "chatting"]
          /\ nick' = nick
      BY <1>7, <2>3 DEF Joined
    <3>2. /\ \A t \in Session \ {s} : phase'[t] = phase[t] /\ reply'[t] = reply[t]
          /\ phase'[s] = "chatting" /\ reply'[s] = NoReply
      BY <2>2, <3>1 DEF TypeOK
    <3>3. MailMatchesSender' /\ OneRequest'
      BY <2>1, <2>2, <3>1, <3>2, MailAfterClient
    <3>4. LocalEntryHasOwner'
      BY <1>2, <2>2, <3>1, <3>2
    <3>5. ReplyIsAwaited'
      BY <3>2 DEF ReplyIsAwaited
    <3>6. KicksNeedName'
      BY <1>3, <2>2, <3>2 DEF Nameless
    <3> QED BY <3>3, <3>4, <3>5, <3>6
  <2>4. CASE reply[s] # Ok
    <3>1. /\ phase' = [phase EXCEPT ![s] = "login"]
          /\ nick' = [nick EXCEPT ![s] = NoName]
      BY <1>7, <2>4 DEF Joined
    <3>2. /\ \A t \in Session \ {s} :
               phase'[t] = phase[t] /\ nick'[t] = nick[t] /\ reply'[t] = reply[t]
          /\ phase'[s] = "login" /\ reply'[s] = NoReply
      BY <2>2, <3>1 DEF TypeOK
    <3>3. Nameless(s)
      BY <2>2, <2>4 DEF Nameless
    <3>4. MailMatchesSender' /\ OneRequest'
      BY <2>1, <2>2, <3>2, MailAfterClient
    <3>5. LocalEntryHasOwner'
      BY <1>2, <1>4, <2>2, <3>2, <3>3
    <3>6. ReplyIsAwaited'
      BY <3>2 DEF ReplyIsAwaited
    <3>7. KicksNeedName'
      BY <1>3, <2>2, <3>2, <3>3 DEF Nameless
    <3> QED BY <3>4, <3>5, <3>6, <3>7
  <2> QED BY <2>3, <2>4
<1>8. CASE Say(s)
  <2>1. NoMail(s)
    BY <1>8, NoMailOf DEF Say, TypesLine
  <2>2. UNCHANGED <<entry, phase, nick, reply, inbox>>
    BY <1>8 DEF Say, TypesLine, tableVars
  <2>3. PICK m \in ServerMessage : Post(s, m) /\ m.type = "BroadcastRequest"
    BY <1>8, TextType, MessageType DEF Say, TypesLine
  <2>4. Matches(Host[s], m)'
    BY <2>3 DEF Matches, Blocking
  <2>5. MailMatchesSender' /\ OneRequest'
    BY <2>1, <2>2, <2>3, <2>4, MailAfterClient
  <2>6. LocalEntryHasOwner'
    <3>1. \A n \in Node, x \in Name : entry[n][x] = s => phase[s] \in {"chatting", "asking"}
      BY <1>8 DEF LocalEntryHasOwner, Say, TypesLine
    <3> QED BY <1>2, <2>2, <2>3, <3>1
  <2>7. ReplyIsAwaited' /\ KicksNeedName'
    BY <1>3, <2>2 DEF ReplyIsAwaited, Nameless
  <2> QED BY <2>5, <2>6, <2>7
<1>9. ASSUME NEW kind, NEW m \in ServerMessage, Request(s, kind, m), m.client = s,
             m.type \in Blocking \ {"RegisterClient"}
      PROVE  OwnershipInv'
  <2>1. NoMail(s) /\ reply[s] = NoReply
    BY <1>9, NoMailOf DEF Request, TypesLine, ReplyIsAwaited
  <2>2. /\ UNCHANGED <<entry, nick, reply, inbox>>
        /\ Post(s, m)
        /\ phase' = [phase EXCEPT ![s] = "asking"]
        /\ phase[s] = "chatting"
    BY <1>9 DEF Request, TypesLine, tableVars
  <2>3. /\ \A t \in Session \ {s} : phase'[t] = phase[t]
        /\ phase'[s] = "asking"
    BY <2>2 DEF TypeOK
  <2>4. Matches(Host[s], m)'
    BY <1>9, <2>1, <2>2, <2>3 DEF Matches, Blocking
  <2>5. MailMatchesSender' /\ OneRequest'
    BY <1>9, <2>1, <2>2, <2>3, <2>4, MailAfterClient
  <2>6. LocalEntryHasOwner'
    BY <1>2, <2>2, <2>3
  <2>7. ReplyIsAwaited' /\ KicksNeedName'
    BY <1>3, <2>2, <2>3 DEF ReplyIsAwaited, Nameless
  <2> QED BY <2>5, <2>6, <2>7
<1>10. CASE AskUsers(s)
  BY <1>9, <1>10, MessageType DEF AskUsers, Blocking
<1>11. CASE PublishKey(s)
  <2>1. PICK k \in Keyring[s] :
          Request(s, "pubkey", [type |-> "RegisterKeyRequest", client |-> s,
                                name |-> nick[s], pubkey |-> k])
    BY <1>11 DEF PublishKey
  <2>2. nick[s] \in Name /\ k \in Key
    BY <2>1, ConstantsAssumption DEF Request, TypesLine, Named
  <2> QED BY <1>9, <2>1, <2>2, MessageType DEF Blocking
<1>12. CASE AskKey(s)
  BY <1>9, <1>12, MessageType DEF AskKey, Blocking
<1>13. CASE Tell(s)
  <2>1. PICK x \in Name :
          Request(s, "tell", [type |-> "TellRequest", client |-> s,
                              msg |-> Text(s, "tell", x)])
    BY <1>13 DEF Tell
  <2>2. Text(s, "tell", x) \in Line
    BY <2>1, TextType DEF Request, TypesLine
  <2> QED BY <1>9, <2>1, <2>2, MessageType DEF Blocking
<1>14. CASE EncryptedTell(s)
  <2>1. PICK x \in Name :
          Request(s, "etell", [type |-> "EncryptedTellRequest", client |-> s,
                               msg |-> Text(s, "etell", x)])
    BY <1>14 DEF EncryptedTell
  <2>2. Text(s, "etell", x) \in Line
    BY <2>1, TextType DEF Request, TypesLine
  <2> QED BY <1>9, <2>1, <2>2, MessageType DEF Blocking
<1>15. CASE Kick(s)
  BY <1>9, <1>15, MessageType DEF Kick, Blocking
<1>16. CASE Answered(s)
  <2>1. NoMail(s)
    BY <1>16, NoMailOf DEF Answered
  <2>2. /\ UNCHANGED <<entry, mailbox, nick, inbox>>
        /\ phase' = [phase EXCEPT ![s] = "chatting"]
        /\ reply' = [reply EXCEPT ![s] = NoReply]
        /\ phase[s] = "asking"
    BY <1>16 DEF Answered, Respond, tableVars
  <2>3. /\ \A t \in Session \ {s} : phase'[t] = phase[t] /\ reply'[t] = reply[t]
        /\ phase'[s] = "chatting" /\ reply'[s] = NoReply
    BY <2>2 DEF TypeOK
  <2>4. MailMatchesSender' /\ OneRequest'
    BY <2>1, <2>2, <2>3, MailAfterClient
  <2>5. LocalEntryHasOwner'
    BY <1>2, <2>2, <2>3
  <2>6. ReplyIsAwaited' /\ KicksNeedName'
    BY <1>3, <2>2, <2>3 DEF ReplyIsAwaited, Nameless
  <2> QED BY <2>4, <2>5, <2>6
<1>17. CASE Show(s)
  <2>1. /\ UNCHANGED <<mailbox, phase, nick, reply>>
        /\ OwnersShrink
    BY <1>17 DEF Show, tableVars, OwnersShrink
  <2>2. KicksSpareNameless
    <3>1. ASSUME NEW t \in Session, NEW i \in DOMAIN inbox'[t]
          PROVE  \E j \in DOMAIN inbox[t] : inbox[t][j] = inbox'[t][i]
      <4>1. CASE t = s
        <5>1. inbox'[s] = Tail(inbox[s]) /\ inbox[s] # <<>> /\ inbox[s] \in Seq(ClientMessage)
          BY <1>17 DEF Show, TypeOK
        <5>2. i + 1 \in DOMAIN inbox[s] /\ inbox'[s][i] = inbox[s][i + 1]
          BY <3>1, <4>1, <5>1
        <5> QED BY <4>1, <5>2
      <4>2. CASE t # s
        BY <1>17, <4>2 DEF Show, TypeOK
      <4> QED BY <4>1, <4>2
    <3> QED BY <3>1 DEF KicksSpareNameless, HasKick
  <2> QED BY <2>1, <2>2, QuietStepKeeps
<1>18. ASSUME Close(s), phase[s] \in {"login", "chatting"}
       PROVE  OwnershipInv'
  <2>1. NoMail(s) /\ reply[s] = NoReply
    BY <1>18, NoMailOf DEF ReplyIsAwaited
  <2> DEFINE m == [type |-> "UnregisterClient", client |-> s, name |-> nick[s]]
  <2>2. /\ UNCHANGED <<entry, nick, reply>>
        /\ phase' = [phase EXCEPT ![s] = "closed"]
        /\ inbox' = [inbox EXCEPT ![s] = <<>>]
    BY <1>18 DEF Close, tableVars
  <2>3. /\ \A t \in Session \ {s} : phase'[t] = phase[t] /\ inbox'[t] = inbox[t]
        /\ phase'[s] = "closed"
    BY <2>2 DEF TypeOK
  <2>4. CASE phase[s] = "chatting"
    <3>1. Post(s, m)
      BY <1>18, <2>4 DEF Close
    <3>2. m \in ServerMessage
      BY <2>4, MessageType DEF Named
    <3>3. Matches(Host[s], m)'
      BY <2>2, <2>3 DEF Matches, Blocking
    <3>4. MailMatchesSender' /\ OneRequest'
      BY <2>1, <2>2, <2>3, <3>1, <3>2, <3>3, MailAfterClient
    <3>5. Pending(s)'
      <4>1. Host[s] \in Node
        BY ConstantsAssumption
      <4>2. mailbox'[Host[s]] = Append(mailbox[Host[s]], m)
        BY <3>1, <4>1 DEF Post, TypeOK
      <4>3. mailbox[Host[s]] \in Seq(ServerMessage)
        BY <4>1 DEF TypeOK
      <4> HIDE DEF m
      <4>4. /\ Len(mailbox[Host[s]]) + 1 \in DOMAIN mailbox'[Host[s]]
            /\ mailbox'[Host[s]][Len(mailbox[Host[s]]) + 1] = m
        BY <3>2, <4>2, <4>3
      <4> QED BY <2>2, <4>4 DEF Pending, m
    <3>6. LocalEntryHasOwner'
      BY <1>2, <2>2, <2>3, <3>1, <3>2, <3>5
    <3> QED
      <4>1. ReplyIsAwaited'
        BY <2>1, <2>2, <2>3 DEF ReplyIsAwaited
      <4>2. KicksNeedName'
        BY <2>2, <2>3 DEF KicksNeedName, Nameless, HasKick
      <4> QED BY <3>4, <3>6, <4>1, <4>2
  <2>5. CASE phase[s] = "login"
    <3>1. mailbox' = mailbox
      BY <1>18, <2>5 DEF Close
    <3>2. MailMatchesSender' /\ OneRequest'
      BY <2>1, <2>2, <2>3, <3>1, MailAfterClient
    <3>3. LocalEntryHasOwner'
      BY <1>2, <1>4, <2>2, <2>3, <2>5, <3>1 DEF Nameless
    <3>4. ReplyIsAwaited'
      BY <2>1, <2>2, <2>3 DEF ReplyIsAwaited
    <3>5. KicksNeedName'
      BY <2>2, <2>3 DEF KicksNeedName, Nameless, HasKick
    <3> QED BY <3>2, <3>3, <3>4, <3>5
  <2> QED BY <1>18, <2>4, <2>5
<1>19. CASE Kicked(s)
  BY <1>18, <1>19 DEF Kicked
<1>20. CASE Leave(s)
  BY <1>18, <1>20 DEF Leave
<1> QED
  BY <1>5, <1>6, <1>7, <1>8, <1>10, <1>11, <1>12, <1>13, <1>14, <1>15, <1>16, <1>17,
     <1>19, <1>20 DEF Client

LEMMA ServeClientOwnership ==
  ASSUME TypeOK, OwnershipInv, NEW n \in Node, ServeClient(n)
  PROVE  OwnershipInv'
<1> DEFINE m == Head(mailbox[n])
<1>1. UNCHANGED entry => OwnersShrink
  BY DEF OwnersShrink
<1>2. UNCHANGED inbox => KicksSpareNameless
  BY DEF KicksSpareNameless, HasKick
<1>3. ASSUME NEW x \in Name PROVE entry[n][x] \in Session => ~ Nameless(entry[n][x])
  BY OwnerHasName DEF OwnershipInv
<1>4. ASSUME NEW t, Takes(n, t)
      PROVE  m \in ServerMessage /\ m.type = t
  BY <1>4, TakesType
<1>5. CASE Register(n)
  <2>1. m.client \in Session /\ m.name \in Name /\ m.pubkey \in MaybeKey
    BY <1>4, <1>5, TypeOfMessage DEF Register
  <2>2. Takes(n, "RegisterClient") /\ "RegisterClient" \in Blocking
    BY <1>5 DEF Register, Blocking
  <2>3. CASE entry[n][m.name] # Absent
    <3>1. Respond(m.client, Err) /\ UNCHANGED <<entry, inbox>>
      BY <1>5, <2>3 DEF Register, tableVars
    <3> QED BY <1>1, <1>2, <2>2, <3>1, ServerStepKeeps
  <2>4. CASE entry[n][m.name] = Absent
    <3>1. PICK s \in Session, x \in Name : s = m.client /\ x = m.name
      BY <2>1
    <3>2. /\ entry' = [entry EXCEPT ![n][x] = s]
          /\ reply' = [reply EXCEPT ![s] = Ok]
          /\ ToClients(Locals(entry'[n]), Deliver(Notice))
      BY <1>5, <2>4, <3>1 DEF Register, SetEntry, Respond
    <3>3. MailMatchesSender' /\ OneRequest'
      <4>1. Respond(m.client, Ok)
        BY <3>1, <3>2 DEF Respond
      <4> QED BY <2>2, <4>1, MailAfterServer DEF OwnershipInv
    <3>4. /\ Host[s] = n /\ reply[s] = NoReply /\ phase[s] = "joining" /\ nick[s] = x
      <4>1. Matches(n, m)
        BY <2>2, HeadOfMail DEF OwnershipInv, MailMatchesSender
      <4>2. m.type = "RegisterClient"
        BY <2>2, <1>4
      <4> HIDE DEF m
      <4> QED BY <2>2, <3>1, <4>1, <4>2 DEF Matches
    <3>5. phase' = phase /\ nick' = nick
      BY <2>2 DEF Takes, sessionVars
    <3>6. reply'[s] = Ok /\ \A t \in Session \ {s} : reply'[t] = reply[t]
      BY <3>2 DEF TypeOK
    <3>7. LocalEntryHasOwner'
      <4> SUFFICES ASSUME NEW p \in Node, NEW z \in Name, NEW t \in Session, entry'[p][z] = t
                   PROVE  /\ Host[t] = p /\ nick'[t] = z
                          /\ \/ phase'[t] = "joining" /\ reply'[t] = Ok
                             \/ phase'[t] \in {"chatting", "asking"}
                             \/ phase'[t] = "closed" /\ Pending(t)'
        BY DEF LocalEntryHasOwner
      <4>1. CASE t = s
        <5>1. p = n /\ z = x
          <6>1. entry[p][z] # s
            BY <3>4, OwnerHasName, MarkersDiffer DEF OwnershipInv, Nameless
          <6> QED BY <3>2, <4>1, <6>1 DEF TypeOK
        <5> QED BY <3>4, <3>5, <3>6, <4>1, <5>1
      <4>2. CASE t # s
        <5>1. entry[p][z] = t
          BY <3>2, <4>2 DEF TypeOK
        <5>2. /\ Host[t] = p /\ nick[t] = z
              /\ \/ phase[t] = "joining" /\ reply[t] = Ok
                 \/ phase[t] \in {"chatting", "asking"}
                 \/ phase[t] = "closed" /\ Pending(t)
          BY <5>1 DEF OwnershipInv, LocalEntryHasOwner
        <5>3. Pending(t) => Pending(t)'
          BY <2>2, PendingAfterTake
        <5> QED BY <3>5, <3>6, <4>2, <5>2, <5>3
      <4> QED BY <4>1, <4>2
    <3>8. ReplyIsAwaited'
      BY <3>4, <3>5, <3>6 DEF OwnershipInv, ReplyIsAwaited
    <3>9. KicksNeedName'
      <4>1. KicksSpareNameless
        BY <3>2, DeliverAddsNoKick, DeliverType
      <4>2. \A t \in Session : Nameless(t)' => Nameless(t)
        BY <3>4, <3>5, <3>6, MarkersDiffer DEF Nameless
      <4> QED BY <4>1, <4>2 DEF OwnershipInv, KicksNeedName, KicksSpareNameless
    <3> QED BY <3>3, <3>7, <3>8, <3>9 DEF OwnershipInv
  <2> QED BY <2>3, <2>4
<1>6. CASE RegisterKey(n)
  <2>1. /\ Takes(n, "RegisterKeyRequest") /\ UNCHANGED <<entry, inbox>>
        /\ \E r : Respond(m.client, r)
    BY <1>6 DEF RegisterKey
  <2> QED BY <1>1, <1>2, <2>1, ServerStepKeeps DEF Blocking
<1>7. CASE GetKey(n)
  <2>1. /\ Takes(n, "GetKeyRequest") /\ UNCHANGED <<entry, inbox>>
        /\ \E r : Respond(m.client, r)
    BY <1>7 DEF GetKey, tableVars
  <2> QED BY <1>1, <1>2, <2>1, ServerStepKeeps DEF Blocking
<1>8. CASE Unregister(n)
  <2>1. /\ Takes(n, "UnregisterClient") /\ RemoveEntry(n, m.name) /\ UNCHANGED reply
        /\ m.name \in Name
    BY <1>4, <1>8, TypeOfMessage DEF Unregister
  <2>2. OwnersShrink
    BY <2>1, MarkersAssumption DEF OwnersShrink, RemoveEntry, SetEntry, TypeOK
  <2>3. KicksSpareNameless
    BY <1>2, <1>8, DeliverAddsNoKick, DeliverType DEF Unregister
  <2> QED BY <2>1, <2>2, <2>3, ServerStepKeeps
<1>9. CASE PublicLine(n)
  <2>1. /\ Takes(n, "BroadcastRequest") /\ UNCHANGED <<entry, reply>>
        /\ ToClients(Locals(entry[n]), Deliver(m.msg))
    BY <1>9 DEF PublicLine, tableVars
  <2>2. Deliver(m.msg) \in ClientMessage
    <3>1. m.msg \in Line
      BY <1>4, <2>1, TypeOfMessage
    <3> HIDE DEF m
    <3> QED BY <3>1, DeliverType
  <2>3. KicksSpareNameless
    BY <2>1, <2>2, DeliverAddsNoKick
  <2> QED BY <1>1, <2>1, <2>3, ServerStepKeeps
<1>10. ASSUME NEW t \in {"TellRequest", "EncryptedTellRequest"}, Whisper(n, t)
       PROVE  OwnershipInv'
  <2> DEFINE echo == IF t = "TellRequest" THEN {entry[n][nick[m.msg.by]]} \cap Session
                                          ELSE {}
  <2>1. /\ Takes(n, t) /\ UNCHANGED entry
        /\ \E r : Respond(m.client, r)
    BY <1>10 DEF Whisper, tableVars
  <2>2. m.msg \in Line /\ Deliver(m.msg) \in ClientMessage
    BY <1>4, <2>1, TypeOfMessage, DeliverType
  <2>3. PICK d \in ClientMessage : d = Deliver(m.msg)
    BY <2>2
  <2>4. d # KickClient
    BY <2>3, MarkersDiffer
  <2>5. KicksSpareNameless
    <3>1. CASE entry[n][m.msg.to] = Absent
      BY <1>2, <1>10, <3>1, MarkersAssumption DEF Whisper
    <3>2. CASE entry[n][m.msg.to] \in Session
      <4>1. inbox' = [s \in Session |->
               inbox[s] \o (IF s = entry[n][m.msg.to] /\ Open(s) THEN <<d>> ELSE <<>>)
                        \o (IF s \in echo /\ Open(s) THEN <<d>> ELSE <<>>)]
        BY <1>10, <2>3, <3>2, MarkersAssumption DEF Whisper
      <4> HIDE DEF m, echo
      <4> SUFFICES ASSUME NEW s \in Session, HasKick(s)' PROVE HasKick(s)
        BY DEF KicksSpareNameless
      <4>2. PICK i \in DOMAIN inbox'[s] : inbox'[s][i] = KickClient
        BY DEF HasKick
      <4>3. \E u, v \in {<<>>, <<d>>} : inbox'[s] = inbox[s] \o u \o v
        BY <4>1
      <4>4. inbox[s] \in Seq(ClientMessage)
        BY DEF TypeOK
      <4>5. i \in DOMAIN inbox[s] /\ inbox'[s][i] = inbox[s][i]
        <5>1. CASE inbox'[s] = inbox[s]
          BY <4>2, <5>1
        <5>2. CASE inbox'[s] = inbox[s] \o <<d>>
          BY <2>4, <4>2, <4>4, <5>2
        <5>3. CASE inbox'[s] = inbox[s] \o <<d>> \o <<d>>
          BY <2>4, <4>2, <4>4, <5>3
        <5>4. \A q \in Seq(ClientMessage) : q \o <<>> = q
          OBVIOUS
        <5>5. inbox[s] \o <<d>> \in Seq(ClientMessage)
          BY <4>4
        <5>6. PICK u, v \in {<<>>, <<d>>} : inbox'[s] = inbox[s] \o u \o v
          BY <4>3
        <5>7. \/ inbox'[s] = inbox[s]
              \/ inbox'[s] = inbox[s] \o <<d>>
              \/ inbox'[s] = inbox[s] \o <<d>> \o <<d>>
          BY <4>4, <5>4, <5>5, <5>6
        <5> QED BY <5>1, <5>2, <5>3, <5>7
      <4> QED BY <4>2, <4>5 DEF HasKick
    <3>3. CASE entry[n][m.msg.to] = Remote
      <4>1. ToClients(echo, Deliver(m.msg))
        BY <1>10, <3>3, MarkersAssumption DEF Whisper
      <4> QED BY <2>2, <4>1, DeliverAddsNoKick
    <3> QED BY <1>10, <3>1, <3>2, <3>3 DEF Whisper
  <2> QED BY <1>1, <2>1, <2>5, ServerStepKeeps DEF Blocking
<1>11. CASE KickUser(n)
  <2>1. /\ Takes(n, "KickRequest") /\ UNCHANGED entry
        /\ \E r : Respond(m.client, r)
    BY <1>11 DEF KickUser, tableVars
  <2>2. m.victim \in Name
    BY <1>4, <2>1, TypeOfMessage
  <2>3. KicksSpareNameless
    <3>1. CASE entry[n][m.victim] \in Session
      <4>1. ToClients({entry[n][m.victim]}, KickClient)
        BY <1>11, <3>1, MarkersAssumption DEF KickUser
      <4> QED BY <1>3, <2>2, <3>1, <4>1, KickSparesNameless
    <3>2. CASE entry[n][m.victim] \notin Session
      BY <1>2, <1>11, <3>2 DEF KickUser
    <3> QED BY <3>1, <3>2
  <2> QED BY <1>1, <2>1, <2>3, ServerStepKeeps DEF Blocking
<1>12. CASE ListUsers(n)
  <2>1. /\ Takes(n, "ListUsersRequest") /\ UNCHANGED <<entry, inbox>>
        /\ \E r : Respond(m.client, r)
    BY <1>12 DEF ListUsers, tableVars
  <2> QED BY <1>1, <1>2, <2>1, ServerStepKeeps DEF Blocking
<1> QED
  BY <1>5, <1>6, <1>7, <1>8, <1>9, <1>10, <1>11, <1>12 DEF ServeClient

LEMMA ServePeerOwnership ==
  ASSUME TypeOK, OwnershipInv, NEW p \in Node, NEW n \in Node, ServePeer(p, n)
  PROVE  OwnershipInv'
<1> DEFINE m == Head(link[p][n])
<1>1. UNCHANGED entry => OwnersShrink
  BY DEF OwnersShrink
<1>2. UNCHANGED inbox => KicksSpareNameless
  BY DEF KicksSpareNameless, HasKick
<1>3. ASSUME NEW x \in Name PROVE entry[n][x] \in Session => ~ Nameless(entry[n][x])
  BY OwnerHasName DEF OwnershipInv
<1>4. ASSUME NEW t, Arrives(p, n, t)
      PROVE  m \in ClusterMessage /\ m.type = t
  BY <1>4, PoppedType DEF Arrives
<1>5. UNCHANGED <<mailbox, phase, nick, reply>>
  BY DEF ServePeer, NewClient, ClientKey, ClientDisconnected, RemoteLine, RemoteWhisper,
         RemoteKick, Sync, Arrives, sessionVars
<1>6. ASSUME NEW x \in Name, NEW e \in {Absent, Remote}, NEW k, SetEntry(n, x, e, k)
      PROVE  OwnersShrink
  BY <1>6, MarkersAssumption DEF OwnersShrink, SetEntry, TypeOK
<1>7. CASE NewClient(p, n)
  <2>1. m.name \in Name
    BY <1>4, <1>7, TypeOfClusterMessage DEF NewClient
  <2>2. CASE entry[n][m.name] \in Session
    <3>1. ToClients({entry[n][m.name]}, KickClient) /\ UNCHANGED entry
      BY <1>7, <2>2, MarkersAssumption DEF NewClient, tableVars
    <3>2. KicksSpareNameless
      BY <1>3, <2>1, <2>2, <3>1, KickSparesNameless
    <3> QED BY <1>1, <1>5, <3>1, <3>2, QuietStepKeeps
  <2>3. CASE entry[n][m.name] = Remote
    BY <1>1, <1>2, <1>5, <1>7, <2>3, MarkersAssumption, QuietStepKeeps DEF NewClient, tableVars
  <2>4. CASE entry[n][m.name] = Absent
    <3>1. /\ SetEntry(n, m.name, Remote, m.pubkey)
          /\ ToClients(Locals(entry[n]), Deliver(Notice))
      BY <1>7, <2>4, MarkersAssumption DEF NewClient
    <3>2. OwnersShrink /\ KicksSpareNameless
      BY <1>6, <2>1, <3>1, DeliverAddsNoKick, DeliverType
    <3> QED BY <1>5, <3>2, QuietStepKeeps
  <2> QED BY <2>1, <2>2, <2>3, <2>4 DEF TypeOK
<1>8. CASE ClientKey(p, n)
  BY <1>1, <1>2, <1>5, <1>8, QuietStepKeeps DEF ClientKey
<1>9. CASE ClientDisconnected(p, n)
  <2>1. m.name \in Name
    BY <1>4, <1>9, TypeOfClusterMessage DEF ClientDisconnected
  <2>2. OwnersShrink
    BY <1>6, <1>9, <2>1 DEF ClientDisconnected, RemoveEntry
  <2>3. KicksSpareNameless
    BY <1>2, <1>9, DeliverAddsNoKick, DeliverType DEF ClientDisconnected
  <2> QED BY <1>5, <2>2, <2>3, QuietStepKeeps
<1>10. ASSUME NEW S, NEW t \in {"ClusterBroadcast", "ClusterSend"}, Arrives(p, n, t),
              ToClients(S, Deliver(m.msg)), UNCHANGED tableVars
       PROVE  OwnershipInv'
  <2>1. m.msg \in Line
    BY <1>4, <1>10, TypeOfClusterMessage
  <2>2. PICK q \in Line : q = m.msg
    BY <2>1
  <2>3. ToClients(S, Deliver(q)) /\ Deliver(q) \in ClientMessage
    BY <1>10, <2>2, DeliverType
  <2>4. OwnersShrink /\ KicksSpareNameless
    BY <1>1, <1>10, <2>3, DeliverAddsNoKick DEF tableVars
  <2> QED BY <1>5, <2>4, QuietStepKeeps
<1>11. CASE RemoteLine(p, n)
  BY <1>10, <1>11 DEF RemoteLine
<1>12. CASE RemoteWhisper(p, n)
  BY <1>10, <1>12 DEF RemoteWhisper
<1>13. CASE RemoteKick(p, n)
  <2>1. m.victim \in Name
    BY <1>4, <1>13, TypeOfClusterMessage DEF RemoteKick
  <2>2. KicksSpareNameless
    BY <1>3, <1>13, <2>1, KickSparesNameless DEF RemoteKick
  <2> QED BY <1>1, <1>5, <1>13, <2>2, QuietStepKeeps DEF RemoteKick, tableVars
<1>14. CASE Sync(p, n)
  <2>1. OwnersShrink
    BY <1>14, MarkersAssumption DEF Sync, OwnersShrink, TypeOK
  <2> QED BY <1>2, <1>5, <1>14, <2>1, QuietStepKeeps DEF Sync
<1> QED
  BY <1>7, <1>8, <1>9, <1>11, <1>12, <1>13, <1>14 DEF ServePeer

LEMMA CrashOwnership ==
  ASSUME TypeOK, OwnershipInv, NEW n \in Node, Crash(n)
  PROVE  OwnershipInv'
<1> USE DEF OwnershipInv
<1> DEFINE died == {s \in Session : Host[s] = n /\ phase[s] # "offline"}
<1>1. \A s \in Session :
        /\ s \in died => phase'[s] = "closed" /\ reply'[s] = NoReply /\ inbox'[s] = <<>>
        /\ s \notin died => phase'[s] = phase[s] /\ reply'[s] = reply[s] /\ inbox'[s] = inbox[s]
        /\ nick'[s] = nick[s]
  BY DEF Crash
<1>2. /\ mailbox'[n] = <<>>
      /\ \A p \in Node \ {n} : mailbox'[p] = mailbox[p] /\ entry'[p] = entry[p]
      /\ \A x \in Name : entry'[n][x] = Absent
  BY DEF Crash, TypeOK
<1>3. LocalEntryHasOwner'
  <2> SUFFICES ASSUME NEW p \in Node, NEW x \in Name, NEW s \in Session, entry'[p][x] = s
               PROVE  /\ Host[s] = p /\ nick'[s] = x
                      /\ \/ phase'[s] = "joining" /\ reply'[s] = Ok
                         \/ phase'[s] \in {"chatting", "asking"}
                         \/ phase'[s] = "closed" /\ Pending(s)'
    BY DEF LocalEntryHasOwner
  <2>1. p # n /\ entry[p][x] = s
    BY <1>2, MarkersAssumption
  <2>2. /\ Host[s] = p /\ nick[s] = x
        /\ \/ phase[s] = "joining" /\ reply[s] = Ok
           \/ phase[s] \in {"chatting", "asking"}
           \/ phase[s] = "closed" /\ Pending(s)
    BY <2>1 DEF LocalEntryHasOwner
  <2>3. Pending(s) => Pending(s)'
    BY <1>1, <1>2, <2>1, <2>2 DEF Pending
  <2> QED BY <1>1, <2>1, <2>2, <2>3
<1>4. MailMatchesSender'
  <2> SUFFICES ASSUME NEW p \in Node, NEW i \in DOMAIN mailbox'[p]
               PROVE  Matches(p, mailbox[p][i])'
    BY DEF MailMatchesSender
  <2>1. p # n /\ i \in DOMAIN mailbox[p] /\ mailbox'[p][i] = mailbox[p][i]
    BY <1>2
  <2>2. PICK q \in ServerMessage : q = mailbox[p][i]
    BY <2>1 DEF TypeOK
  <2>3. Matches(p, q)
    BY <2>1, <2>2 DEF MailMatchesSender
  <2>4. q.type \in Blocking \cup {"UnregisterClient"} => q.client \in Session /\ Host[q.client] = p
    BY <2>3, TypeOfMessage DEF Matches, Blocking
  <2>5. Matches(p, q)'
    BY <1>1, <2>1, <2>3, <2>4 DEF Matches, Blocking
  <2> QED BY <2>1, <2>2, <2>5
<1>5. OneRequest'
  BY <1>2 DEF OneRequest
<1>6. ReplyIsAwaited' /\ KicksNeedName'
  BY <1>1 DEF ReplyIsAwaited, KicksNeedName, Nameless, HasKick
<1> QED BY <1>3, <1>4, <1>5, <1>6

LEMMA OwnershipNext ==
  TypeInv /\ OwnershipInv /\ [Next]_vars => OwnershipInv'
<1> SUFFICES ASSUME TypeInv, OwnershipInv, [Next]_vars PROVE OwnershipInv'
  OBVIOUS
<1>1. TypeOK
  BY DEF TypeInv
<1>2. UNCHANGED entry => OwnersShrink
  BY DEF OwnersShrink
<1>3. UNCHANGED inbox => KicksSpareNameless
  BY DEF KicksSpareNameless, HasKick
<1>4. ASSUME NEW s \in Session, Client(s) PROVE OwnershipInv'
  BY <1>4, ClientOwnership
<1>5. ASSUME NEW n \in Node, Server(n) PROVE OwnershipInv'
  <2>1. CASE SyncTick(n)
    BY <1>1, <1>2, <1>3, <2>1, QuietStepKeeps DEF SyncTick, tableVars, sessionVars
  <2> QED BY <1>1, <1>5, <2>1, ServeClientOwnership, ServePeerOwnership DEF Server
<1>6. ASSUME NEW n \in Node, NodeLeft(n) PROVE OwnershipInv'
  <2>1. KicksSpareNameless
    BY <1>1, <1>6, DeliverAddsNoKick, DeliverType DEF NodeLeft
  <2> QED BY <1>1, <1>2, <1>6, <2>1, QuietStepKeeps DEF NodeLeft, tableVars, sessionVars
<1>7. ASSUME NEW n \in Node, Crash(n) PROVE OwnershipInv'
  BY <1>1, <1>7, CrashOwnership
<1>8. ASSUME NEW p \in Node, NEW n \in Node, LinkUp(p, n) \/ LinkDown(p, n)
      PROVE  OwnershipInv'
  BY <1>1, <1>2, <1>3, <1>8, QuietStepKeeps DEF LinkUp, LinkDown, tableVars, sessionVars
<1>9. CASE UNCHANGED vars
  BY <1>1, <1>2, <1>3, <1>9, QuietStepKeeps DEF vars
<1> QED
  BY <1>4, <1>5, <1>6, <1>7, <1>8, <1>9 DEF Next, Environment

LEMMA OwnershipInit == Init => OwnershipInv
<1> SUFFICES ASSUME Init PROVE OwnershipInv
  OBVIOUS
<1>1. LocalEntryHasOwner
  BY MarkersAssumption DEF Init, LocalEntryHasOwner
<1>2. MailMatchesSender /\ OneRequest
  BY DEF Init, MailMatchesSender, OneRequest
<1>3. ReplyIsAwaited /\ KicksNeedName
  BY DEF Init, ReplyIsAwaited, KicksNeedName, HasKick
<1> QED BY <1>1, <1>2, <1>3 DEF OwnershipInv

(* The inductive invariant behind the ownership of names.                     *)
THEOREM Ownership == Spec => [](TypeInv /\ OwnershipInv)
<1>1. Init => TypeInv /\ OwnershipInv
  BY TypeOKInit, OwnershipInit DEF Init, TypeInv, Named
<1>2. TypeInv /\ OwnershipInv /\ [Next]_vars => (TypeInv /\ OwnershipInv)'
  BY TypeInvNext, OwnershipNext
<1> QED BY <1>1, <1>2, PTL DEF Spec

(* Every Local entry belongs to a live session of its node with that name, or *)
(* to one whose UnregisterClient the server is still to handle: whatever      *)
(* breaks, no table keeps a name for a session that is gone.                  *)
THEOREM EntriesAreOwned == Spec => []LocalEntryHasOwner
<1>1. TypeInv /\ OwnershipInv => LocalEntryHasOwner
  BY DEF OwnershipInv
<1> QED BY <1>1, Ownership, PTL

(* No KickClient is ever in the mailbox of a client actor that is at its name *)
(* prompt: the Kick branch of the login loop loses no registered name.        *)
THEOREM PromptIsNeverKicked == Spec => []NoKickBeforeLogin
<1>1. TypeInv /\ OwnershipInv => NoKickBeforeLogin
  BY DEF OwnershipInv, KicksNeedName, NoKickBeforeLogin, Nameless
<1> QED BY <1>1, Ownership, PTL

-----------------------------------------------------------------------------
(* Refinement: a node's Local entries are the abstract table.                 *)

LEMMA HoldersShape ==
  /\ Holders = [p \in Node |-> [z \in Name |-> Holders[p][z]]]
  /\ Holders' = [p \in Node |-> [z \in Name |-> Holders'[p][z]]]
BY DEF Holders

(* Two tables that differ in one place.                                       *)
LEMMA UpdateIs ==
  ASSUME NEW D, NEW E, NEW f, NEW g,
         f = [c \in D |-> [d \in E |-> f[c][d]]], g = [c \in D |-> [d \in E |-> g[c][d]]],
         NEW a \in D, NEW b \in E,
         \A c \in D, d \in E : ~(c = a /\ d = b) => g[c][d] = f[c][d]
  PROVE  g = [f EXCEPT ![a][b] = g[a][b]]
OBVIOUS

(* An entry that is removed or becomes Remote is a release, if it was Local.  *)
LEMMA EntryCleared ==
  ASSUME TypeOK, NEW n \in Node, NEW x \in Name, NEW e \in {Absent, Remote},
         NEW k, SetEntry(n, x, e, k)
  PROVE  [Table!Next]_Holders
<1>1. /\ \A z \in Name \ {x} : entry'[n][z] = entry[n][z]
      /\ \A p \in Node \ {n} : entry'[p] = entry[p]
      /\ entry'[n][x] \notin Session
  BY MarkersAssumption DEF SetEntry, TypeOK
<1>2. Holders' = [Holders EXCEPT ![n][x] = Absent]
  <2>1. Holders'[n][x] = Absent
    BY <1>1 DEF Holders
  <2>2. \A p \in Node, z \in Name : ~(p = n /\ z = x) => Holders'[p][z] = Holders[p][z]
    BY <1>1 DEF Holders
  <2> QED BY <2>1, <2>2, HoldersShape, UpdateIs
<1>3. CASE Holders[n][x] = Absent
  <2>1. entry[n][x] \notin Session
    BY <1>3, MarkersAssumption DEF Holders
  <2>2. Holders' = Holders
    BY <1>1, <2>1 DEF Holders
  <2> QED BY <2>2
<1>4. CASE Holders[n][x] # Absent
  <2>1. Table!Release(n, x)
    BY <1>2, <1>4 DEF Table!Release
  <2> QED BY <2>1 DEF Table!Next
<1> QED BY <1>3, <1>4

LEMMA EntryClaimed ==
  ASSUME TypeOK, NEW n \in Node, NEW x \in Name, NEW s \in Session,
         entry' = [entry EXCEPT ![n][x] = s]
  PROVE  Holders' = [Holders EXCEPT ![n][x] = s]
<1>1. /\ \A z \in Name \ {x} : entry'[n][z] = entry[n][z]
      /\ \A p \in Node \ {n} : entry'[p] = entry[p]
      /\ entry'[n][x] = s
  BY DEF TypeOK
<1>2. Holders'[n][x] = s
  BY <1>1 DEF Holders
<1>3. \A p \in Node, z \in Name : ~(p = n /\ z = x) => Holders'[p][z] = Holders[p][z]
  BY <1>1 DEF Holders
<1> QED BY <1>2, <1>3, HoldersShape, UpdateIs

(* A registration is a claim: its sender is blocked on the answer, so it has  *)
(* no name on any node.                                                       *)
LEMMA RegistrationClaims ==
  ASSUME TypeOK, OwnershipInv, NEW n \in Node, Register(n)
  PROVE  [Table!Next]_Holders
<1> DEFINE m == Head(mailbox[n])
           s == m.client
<1>1. /\ m \in ServerMessage /\ m.type = "RegisterClient"
      /\ s \in Session /\ m.name \in Name
  BY TakesType, TypeOfMessage DEF Register
<1>2. Matches(n, m)
  <2>1. 1 \in DOMAIN mailbox[n] /\ m = mailbox[n][1]
    BY DEF Register, Takes, TypeOK
  <2> QED BY <2>1 DEF OwnershipInv, MailMatchesSender
<1>3. Host[s] = n /\ reply[s] = NoReply /\ phase[s] = "joining"
  BY <1>1, <1>2 DEF Matches, Blocking
<1>4. CASE entry[n][m.name] # Absent
  <2>1. Holders' = Holders
    BY <1>4 DEF Register, tableVars, Holders
  <2> QED BY <2>1
<1>5. CASE entry[n][m.name] = Absent
  <2>1. entry' = [entry EXCEPT ![n][m.name] = s]
    BY <1>5 DEF Register, SetEntry
  <2>2. \A p \in Node, z \in Name : Holders[p][z] # s
    <3>1. \A p \in Node, z \in Name : entry[p][z] # s
      BY <1>1, <1>3, MarkersDiffer DEF OwnershipInv, LocalEntryHasOwner
    <3> QED BY <1>1, <3>1, MarkersAssumption DEF Holders
  <2>3. Holders[n][m.name] = Absent
    BY <1>1, <1>5, MarkersAssumption DEF Holders
  <2> HIDE DEF m
  <2>4. Holders' = [Holders EXCEPT ![n][m.name] = s]
    <3>1. PICK t \in Session, x \in Name : t = s /\ x = m.name
      BY <1>1
    <3> QED BY <2>1, <3>1, EntryClaimed
  <2>5. Table!Claim(n, m.name, s)
    BY <1>3, <2>2, <2>3, <2>4 DEF Table!Claim
  <2> QED BY <1>1, <2>5 DEF Table!Next
<1> QED BY <1>4, <1>5

LEMMA StepImplementsTable ==
  TypeInv /\ OwnershipInv /\ [Next]_vars => [Table!Next]_Holders
<1> SUFFICES ASSUME TypeInv, OwnershipInv, [Next]_vars PROVE [Table!Next]_Holders
  OBVIOUS
<1>1. TypeOK
  BY DEF TypeInv
<1>2. UNCHANGED entry => [Table!Next]_Holders
  BY DEF Holders
<1>3. ASSUME NEW s \in Session, Client(s) PROVE UNCHANGED entry
  BY <1>3 DEF Client, Connect, EnterName, Joined, Say, AskUsers, PublishKey, AskKey, Tell,
              EncryptedTell, Kick, Answered, Show, Kicked, Leave, Close, Request, TypesLine,
              tableVars
<1>4. ASSUME NEW n \in Node, Unregister(n) PROVE [Table!Next]_Holders
  <2>1. Head(mailbox[n]).name \in Name
    BY <1>1, <1>4, TakesType, TypeOfMessage DEF Unregister
  <2> QED BY <1>1, <1>4, <2>1, EntryCleared DEF Unregister, RemoveEntry
<1>5. ASSUME NEW n \in Node, ServeClient(n) PROVE [Table!Next]_Holders
  <2>1. Register(n) \/ Unregister(n) \/ UNCHANGED entry
    BY <1>5 DEF ServeClient, RegisterKey, GetKey, PublicLine, Whisper, KickUser, ListUsers,
                tableVars
  <2> QED BY <1>1, <1>2, <1>4, <2>1, RegistrationClaims
<1>6. ASSUME NEW p \in Node, NEW n \in Node, NewClient(p, n) PROVE [Table!Next]_Holders
  <2>1. /\ Head(link[p][n]) \in ClusterMessage
        /\ Head(link[p][n]).type = "ClusterNewClient"
    BY <1>1, <1>6, PoppedType DEF NewClient, Arrives
  <2>2. Head(link[p][n]).name \in Name
    BY <2>1, TypeOfClusterMessage
  <2>3. \/ UNCHANGED entry
        \/ SetEntry(n, Head(link[p][n]).name, Remote, Head(link[p][n]).pubkey)
    BY <1>6 DEF NewClient, tableVars
  <2> QED BY <1>1, <1>2, <2>2, <2>3, EntryCleared
<1>7. ASSUME NEW p \in Node, NEW n \in Node, ClientDisconnected(p, n)
      PROVE  [Table!Next]_Holders
  <2>1. /\ Head(link[p][n]) \in ClusterMessage
        /\ Head(link[p][n]).type = "ClusterClientDisconnected"
    BY <1>1, <1>7, PoppedType DEF ClientDisconnected, Arrives
  <2>2. Head(link[p][n]).name \in Name
    BY <2>1, TypeOfClusterMessage
  <2> QED BY <1>1, <1>7, <2>2, EntryCleared DEF ClientDisconnected, RemoveEntry
<1>8. ASSUME NEW p \in Node, NEW n \in Node, Sync(p, n) PROVE [Table!Next]_Holders
  <2> DEFINE infos == Head(link[p][n]).clients
             new == [x \in Name |-> IF x \in DOMAIN infos /\ entry[n][x] = Absent
                                      THEN Remote ELSE entry[n][x]]
  <2>1. entry' = [entry EXCEPT ![n] = new]
    BY <1>8 DEF Sync
  <2>2. \A x \in Name : new[x] = entry[n][x] \/ (entry[n][x] = Absent /\ new[x] = Remote)
    OBVIOUS
  <2> HIDE DEF new
  <2>3. \A q \in Node : entry'[q] = entry[q] \/ (q = n /\ entry'[q] = new)
    BY <1>1, <2>1 DEF TypeOK
  <2>4. \A q \in Node, x \in Name :
          entry'[q][x] # entry[q][x] => entry[q][x] = Absent /\ entry'[q][x] = Remote
    BY <2>2, <2>3
  <2>5. Holders' = Holders
    BY <2>4, MarkersAssumption DEF Holders
  <2> QED BY <2>5
<1>9. ASSUME NEW p \in Node, NEW n \in Node, ServePeer(p, n) PROVE [Table!Next]_Holders
  <2>1. \/ NewClient(p, n) \/ ClientDisconnected(p, n) \/ Sync(p, n)
        \/ UNCHANGED entry
    BY <1>9 DEF ServePeer, ClientKey, RemoteLine, RemoteWhisper, RemoteKick, tableVars
  <2> QED BY <1>2, <1>6, <1>7, <1>8, <2>1
<1>10. ASSUME NEW n \in Node, Crash(n) PROVE [Table!Next]_Holders
  <2>1. /\ \A p \in Node \ {n} : entry'[p] = entry[p]
        /\ \A x \in Name : entry'[n][x] = Absent
    BY <1>1, <1>10 DEF Crash, TypeOK
  <2>2. Holders' = [Holders EXCEPT ![n] = [x \in Name |-> Absent]]
    BY <2>1, MarkersAssumption DEF Holders
  <2> QED BY <2>2 DEF Table!Next, Table!Restart
<1>11. ASSUME Environment PROVE [Table!Next]_Holders
  <2>1. UNCHANGED entry \/ \E n \in Node : Crash(n)
    BY <1>11 DEF Environment, NodeLeft, LinkUp, LinkDown, tableVars
  <2> QED BY <1>2, <1>10, <2>1
<1>12. ASSUME NEW n \in Node, SyncTick(n) PROVE UNCHANGED entry
  BY <1>12 DEF SyncTick, tableVars
<1>13. CASE UNCHANGED vars
  BY <1>2, <1>13 DEF vars
<1> QED
  BY <1>2, <1>3, <1>5, <1>9, <1>11, <1>12, <1>13 DEF Next, Server

(* Per node the Local entries are a table of leases: a name goes to one       *)
(* session at a time, a session has one name, and no name changes hands       *)
(* without a release in between.                                              *)
THEOREM ImplementsTable == Spec => ImplementsNameTable
<1>1. Init => Table!Init
  BY MarkersAssumption DEF Init, Table!Init, Holders
<1>2. TypeInv /\ OwnershipInv /\ [Next]_vars => [Table!Next]_Holders
  BY StepImplementsTable
<1> QED
  BY <1>1, <1>2, Ownership, PTL DEF Spec, ImplementsNameTable, Table!Spec

====

------------------------------ MODULE ChatCluster ------------------------------
(***************************************************************************)
(* The core of distrib-chat: the `server` actor of every node, the client  *)
(* actors connected to it, and the network between the servers.            *)
(*                                                                         *)
(* A server keeps one table of the names it knows: a name is Local(client) *)
(* or Remote, with an optional public key.  It handles the requests of its *)
(* own clients, the Cluster* messages of the other servers and its own     *)
(* SyncTick one at a time; a handler is one action, because it only reads  *)
(* and writes its own table, and what it sends goes to FIFO mailboxes.     *)
(*                                                                         *)
(* A Session is one accepted TCP connection (one client_id); a user who    *)
(* comes back is another Session that wishes for the same name.            *)
(***************************************************************************)
EXTENDS Integers, Sequences

CONSTANTS
  Node,       \* the processes of the cluster
  Session,    \* TCP connections, each served by one client actor
  Name,       \* nicknames
  Key,        \* public keys
  Host,       \* the node a session connects to
  Wish,       \* the names a session's user may type at the prompt
  Keyring,    \* the public keys a session's user may publish
  Linked,     \* the pairs of nodes connected from the start
  Typed,      \* the kinds of chat lines a session's user types
  MaxLines,   \* bound: chat lines a session types
  MaxFaults,  \* bound: broken links and crashed nodes
  Absent, Remote, NoName, NoKey

LineKinds == {"say", "users", "pubkey", "getkey", "tell", "etell", "kick"}

ASSUME ConstantsAssumption ==
  /\ Host \in [Session -> Node]
  /\ Wish \in [Session -> SUBSET Name]
  /\ Keyring \in [Session -> SUBSET Key]
  /\ \A e \in Linked : \E p, n \in Node : p # n /\ e = {p, n}
  /\ Typed \in [Session -> SUBSET LineKinds]
  /\ MaxLines \in Nat /\ MaxFaults \in Nat

ASSUME MarkersAssumption ==
  /\ Absent \notin Session /\ Remote \notin Session /\ Absent # Remote
  /\ NoName \notin Name
  /\ NoKey \notin Key

VARIABLES
  entry,    \* entry[n][x]: Absent, Remote, or the session s of Local(s)
  pubkey,   \* pubkey[n][x]: the key the table of n holds for x
  mailbox,  \* mailbox[n]: what the clients of n sent to the server of n
  phase,    \* phase[s]: where the client actor of s is
  nick,     \* nick[s]: the name s asked for; kept after it closes
  reply,    \* reply[s]: the answer to the request s is blocked on
  inbox,    \* inbox[s]: what the server sent to the client actor of s
  lines,    \* lines[s]: chat lines typed so far
  heard,    \* heard[s][t]: the last public line of t written to the TTY of s
  link,     \* link[n][p]: Cluster* messages on the way from n to p
  up,       \* the connected pairs of nodes
  faults    \* faults so far

tableVars == <<entry, pubkey>>
sessionVars == <<phase, nick, lines, heard>>
netVars == <<link, up, faults>>
vars == <<entry, pubkey, mailbox, phase, nick, reply, inbox, lines, heard,
          link, up, faults>>

-----------------------------------------------------------------------------
(* Messages.  The text of a line is abstracted to who typed it (`by`, the   *)
(* session behind the `from` name), its number and its addressee.           *)

Line == [kind : {"say", "tell", "etell"}, by : Session, nr : 1..MaxLines,
         to : Name \cup {NoName}]
Notice == [kind |-> "notice"]
ChatMessage == Line \cup {Notice}

MaybeKey == Key \cup {NoKey}

ServerMessage ==
  [type : {"RegisterClient"}, client : Session, name : Name, pubkey : MaybeKey]
  \cup [type : {"RegisterKeyRequest"}, client : Session, name : Name, pubkey : Key]
  \cup [type : {"GetKeyRequest"}, client : Session, target : Name]
  \cup [type : {"UnregisterClient"}, client : Session, name : Name]
  \cup [type : {"BroadcastRequest"}, msg : Line]
  \cup [type : {"TellRequest", "EncryptedTellRequest"}, client : Session, msg : Line]
  \cup [type : {"KickRequest"}, client : Session, victim : Name]
  \cup [type : {"ListUsersRequest"}, client : Session]

ClusterMessage ==
  [type : {"ClusterNewClient"}, name : Name, pubkey : MaybeKey]
  \cup [type : {"ClusterClientKey"}, name : Name, pubkey : Key]
  \cup [type : {"ClusterClientDisconnected"}, name : Name]
  \cup [type : {"ClusterBroadcast", "ClusterSend"}, msg : Line]
  \cup [type : {"ClusterKick"}, victim : Name]
  \cup [type : {"ClusterSync"}, clients : UNION {[D -> MaybeKey] : D \in SUBSET Name}]

ClientMessage ==
  [type : {"DeliverToClient"}, msg : ChatMessage] \cup {[type |-> "KickClient"]}

NoReply == [kind |-> "none"]
Ok == [kind |-> "ok"]
Err == [kind |-> "err"]
Reply ==
  {NoReply, Ok, Err}
  \cup [kind : {"key"}, of : Name, key : Key]
  \cup [kind : {"users"}, names : SUBSET Name]

Phase == {"offline", "login", "joining", "chatting", "asking", "closed"}

(* Type invariant.                                                          *)
TypeOK ==
  /\ entry \in [Node -> [Name -> Session \cup {Absent, Remote}]]
  /\ pubkey \in [Node -> [Name -> MaybeKey]]
  /\ mailbox \in [Node -> Seq(ServerMessage)]
  /\ phase \in [Session -> Phase]
  /\ nick \in [Session -> Name \cup {NoName}]
  /\ reply \in [Session -> Reply]
  /\ inbox \in [Session -> Seq(ClientMessage)]
  /\ lines \in [Session -> 0..MaxLines]
  /\ heard \in [Session -> [Session -> 0..MaxLines]]
  /\ link \in [Node -> [Node -> Seq(ClusterMessage)]]
  /\ up \subseteq SUBSET Node
  /\ faults \in 0..MaxFaults

Init ==
  /\ entry = [n \in Node |-> [x \in Name |-> Absent]]
  /\ pubkey = [n \in Node |-> [x \in Name |-> NoKey]]
  /\ mailbox = [n \in Node |-> <<>>]
  /\ phase = [s \in Session |-> "offline"]
  /\ nick = [s \in Session |-> NoName]
  /\ reply = [s \in Session |-> NoReply]
  /\ inbox = [s \in Session |-> <<>>]
  /\ lines = [s \in Session |-> 0]
  /\ heard = [s \in Session |-> [t \in Session |-> 0]]
  /\ link = [n \in Node |-> [p \in Node |-> <<>>]]
  /\ up = Linked
  /\ faults = 0

-----------------------------------------------------------------------------
(* Sending.                                                                 *)

(* The client ids of a server's Local entries.                              *)
Locals(table) == {table[x] : x \in Name} \cap Session

(* A session whose actor is running.  What is sent to another spawns an     *)
(* actor that finds no socket and returns: it is lost.                      *)
Open(s) == phase[s] \notin {"offline", "closed"}

ToClients(S, m) ==
  inbox' = [s \in Session |->
              IF s \in S /\ Open(s) THEN Append(inbox[s], m) ELSE inbox[s]]

Deliver(msg) == [type |-> "DeliverToClient", msg |-> msg]
KickClient == [type |-> "KickClient"]

Peers(n) == {p \in Node : {n, p} \in up}

(* lk with m sent by n to every connected node (route 4, Outcome::Broadcast) *)
Broadcast(lk, n, m) ==
  [lk EXCEPT ![n] = [p \in Node |-> IF p \in Peers(n) THEN Append(lk[n][p], m)
                                                      ELSE lk[n][p]]]

ToPeers(n, m) == link' = Broadcast(link, n, m)

(* Bound: a node ticks again when its last ClusterSync has been handled.    *)
SyncInFlight(n) ==
  \E p \in Node : \E i \in DOMAIN link[n][p] : link[n][p][i].type = "ClusterSync"

Respond(s, r) == reply' = [reply EXCEPT ![s] = r]

SetEntry(n, x, e, k) ==
  /\ entry' = [entry EXCEPT ![n][x] = e]
  /\ pubkey' = [pubkey EXCEPT ![n][x] = k]

RemoveEntry(n, x) == SetEntry(n, x, Absent, NoKey)

-----------------------------------------------------------------------------
(* The client actor.                                                        *)

(* Accepted, its socket taken by the actor spawned for it, prompted.        *)
Connect(s) ==
  /\ phase[s] = "offline"
  /\ phase' = [phase EXCEPT ![s] = "login"]
  /\ UNCHANGED <<tableVars, mailbox, nick, reply, inbox, lines, heard, netVars>>

Post(s, m) == mailbox' = [mailbox EXCEPT ![Host[s]] = Append(@, m)]

(* A line at the prompt: RegisterClient, and the actor blocks.              *)
EnterName(s) ==
  /\ phase[s] = "login"
  /\ \E x \in Wish[s], k \in Keyring[s] \cup {NoKey} :
       /\ nick' = [nick EXCEPT ![s] = x]
       /\ Post(s, [type |-> "RegisterClient", client |-> s, name |-> x, pubkey |-> k])
  /\ phase' = [phase EXCEPT ![s] = "joining"]
  /\ UNCHANGED <<tableVars, reply, inbox, lines, heard, netVars>>

(* The answer to RegisterClient: into the main loop, or prompted again.     *)
Joined(s) ==
  /\ phase[s] = "joining" /\ reply[s] # NoReply
  /\ IF reply[s] = Ok
       THEN /\ phase' = [phase EXCEPT ![s] = "chatting"]
            /\ UNCHANGED nick
       ELSE /\ phase' = [phase EXCEPT ![s] = "login"]
            /\ nick' = [nick EXCEPT ![s] = NoName]
  /\ Respond(s, NoReply)
  /\ UNCHANGED <<tableVars, mailbox, inbox, lines, heard, netVars>>

TypesLine(s, kind) ==
  /\ kind \in Typed[s]
  /\ phase[s] = "chatting"
  /\ lines[s] < MaxLines
  /\ lines' = [lines EXCEPT ![s] = @ + 1]
  /\ UNCHANGED <<tableVars, nick, reply, inbox, heard, netVars>>

Text(s, kind, to) == [kind |-> kind, by |-> s, nr |-> lines[s] + 1, to |-> to]

(* A command that blocks the actor until the server has answered.           *)
Request(s, kind, m) ==
  /\ TypesLine(s, kind)
  /\ phase' = [phase EXCEPT ![s] = "asking"]
  /\ Post(s, m)

Say(s) ==
  /\ TypesLine(s, "say")
  /\ Post(s, [type |-> "BroadcastRequest", msg |-> Text(s, "say", NoName)])
  /\ UNCHANGED phase

AskUsers(s) == Request(s, "users", [type |-> "ListUsersRequest", client |-> s])

PublishKey(s) ==
  \E k \in Keyring[s] :
    Request(s, "pubkey", [type |-> "RegisterKeyRequest", client |-> s,
                          name |-> nick[s], pubkey |-> k])

AskKey(s) ==
  \E x \in Name :
    Request(s, "getkey", [type |-> "GetKeyRequest", client |-> s, target |-> x])

Tell(s) ==
  \E x \in Name :
    Request(s, "tell", [type |-> "TellRequest", client |-> s,
                        msg |-> Text(s, "tell", x)])

EncryptedTell(s) ==
  \E x \in Name :
    Request(s, "etell", [type |-> "EncryptedTellRequest", client |-> s,
                         msg |-> Text(s, "etell", x)])

Kick(s) ==
  \E x \in Name :
    Request(s, "kick", [type |-> "KickRequest", client |-> s, victim |-> x])

(* The answer to a command, written to the TTY.                             *)
Answered(s) ==
  /\ phase[s] = "asking" /\ reply[s] # NoReply
  /\ phase' = [phase EXCEPT ![s] = "chatting"]
  /\ Respond(s, NoReply)
  /\ UNCHANGED <<tableVars, mailbox, nick, inbox, lines, heard, netVars>>

(* Both loops write a delivered message to the TTY.                         *)
Show(s) ==
  /\ phase[s] \in {"login", "chatting"}
  /\ inbox[s] # <<>> /\ Head(inbox[s]).type = "DeliverToClient"
  /\ LET msg == Head(inbox[s]).msg
     IN  heard' = IF msg.kind = "say" THEN [heard EXCEPT ![s][msg.by] = msg.nr]
                                      ELSE heard
  /\ inbox' = [inbox EXCEPT ![s] = Tail(@)]
  /\ UNCHANGED <<tableVars, mailbox, phase, nick, reply, lines, netVars>>

(* The actor ends.  The main loop is followed by UnregisterClient; the      *)
(* login loop is not.                                                       *)
Close(s) ==
  /\ phase' = [phase EXCEPT ![s] = "closed"]
  /\ inbox' = [inbox EXCEPT ![s] = <<>>]
  /\ IF phase[s] = "chatting"
       THEN Post(s, [type |-> "UnregisterClient", client |-> s, name |-> nick[s]])
       ELSE UNCHANGED mailbox
  /\ UNCHANGED <<tableVars, nick, reply, lines, heard, netVars>>

(* mutant: a kick in the main loop returns as it does in the login loop     *)
KickedReturns(s) ==
  /\ phase[s] \in {"login", "chatting"}
  /\ inbox[s] # <<>> /\ Head(inbox[s]).type = "KickClient"
  /\ phase' = [phase EXCEPT ![s] = "closed"]
  /\ inbox' = [inbox EXCEPT ![s] = <<>>]
  /\ UNCHANGED <<tableVars, mailbox, nick, reply, lines, heard, netVars>>

Kicked(s) ==
  /\ phase[s] \in {"login", "chatting"}
  /\ inbox[s] # <<>> /\ Head(inbox[s]).type = "KickClient"
  /\ Close(s)

(* /quit, or the end of the TCP stream.                                     *)
Leave(s) == phase[s] \in {"login", "chatting"} /\ Close(s)

Client(s) ==
  \/ Connect(s) \/ EnterName(s) \/ Joined(s)
  \/ Say(s) \/ AskUsers(s) \/ PublishKey(s) \/ AskKey(s)
  \/ Tell(s) \/ EncryptedTell(s) \/ Kick(s) \/ Answered(s)
  \/ Show(s) \/ Kicked(s) \/ Leave(s)

-----------------------------------------------------------------------------
(* The server actor: requests of its own clients.                           *)

(* The server takes the next message of its clients, one of type t.         *)
Takes(n, t) ==
  /\ mailbox[n] # <<>> /\ Head(mailbox[n]).type = t
  /\ mailbox' = [mailbox EXCEPT ![n] = Tail(@)]
  /\ UNCHANGED <<sessionVars, up, faults>>

(* mutants of Register: the name is inserted before it is checked, with the *)
(* refusal coming too late; is never checked; is checked after the key is   *)
(* stored; a refusal is not sent                                            *)
RegisterFirst(n) ==
  /\ Takes(n, "RegisterClient")
  /\ LET m == Head(mailbox[n])
     IN  /\ SetEntry(n, m.name, m.client, m.pubkey)
         /\ Respond(m.client, IF entry[n][m.name] # Absent THEN Err ELSE Ok)
  /\ UNCHANGED <<inbox, link>>

RegisterAnyway(n) ==
  /\ Takes(n, "RegisterClient")
  /\ LET m == Head(mailbox[n])
     IN  SetEntry(n, m.name, m.client, m.pubkey) /\ Respond(m.client, Ok)
  /\ UNCHANGED <<inbox, link>>

RegisterTakesKey(n) ==
  /\ Takes(n, "RegisterClient")
  /\ LET m == Head(mailbox[n])
         taken == entry[n][m.name] # Absent
     IN  /\ SetEntry(n, m.name, IF taken THEN entry[n][m.name] ELSE m.client, m.pubkey)
         /\ Respond(m.client, IF taken THEN Err ELSE Ok)
  /\ UNCHANGED <<inbox, link>>

RegisterSilently(n) ==
  /\ Takes(n, "RegisterClient")
  /\ LET m == Head(mailbox[n])
     IN  \/ entry[n][m.name] # Absent /\ UNCHANGED <<tableVars, reply>>
         \/ /\ entry[n][m.name] = Absent
            /\ SetEntry(n, m.name, m.client, m.pubkey) /\ Respond(m.client, Ok)
  /\ UNCHANGED <<inbox, link>>

Register(n) ==
  /\ Takes(n, "RegisterClient")
  /\ LET m == Head(mailbox[n])
     IN  \/ /\ entry[n][m.name] # Absent
            /\ Respond(m.client, Err)
            /\ UNCHANGED <<tableVars, inbox, link>>
         \/ /\ entry[n][m.name] = Absent
            /\ SetEntry(n, m.name, m.client, m.pubkey)
            /\ Respond(m.client, Ok)
            /\ ToClients(Locals(entry'[n]), Deliver(Notice))
            /\ ToPeers(n, [type |-> "ClusterNewClient", name |-> m.name,
                           pubkey |-> m.pubkey])

RegisterKey(n) ==
  /\ Takes(n, "RegisterKeyRequest")
  /\ LET m == Head(mailbox[n])
     IN  IF entry[n][m.name] # Absent
         THEN /\ pubkey' = [pubkey EXCEPT ![n][m.name] = m.pubkey]
              /\ Respond(m.client, Ok)
              /\ ToPeers(n, [type |-> "ClusterClientKey", name |-> m.name,
                             pubkey |-> m.pubkey])
         ELSE /\ Respond(m.client, Err)
              /\ UNCHANGED <<pubkey, link>>
  /\ UNCHANGED <<entry, inbox>>

(* mutant: a client without a key is answered as if it had one              *)
GetKeyUnchecked(n) ==
  /\ Takes(n, "GetKeyRequest")
  /\ LET m == Head(mailbox[n])
     IN  Respond(m.client, IF entry[n][m.target] # Absent
                             THEN [kind |-> "key", of |-> m.target, key |-> pubkey[n][m.target]]
                             ELSE Err)
  /\ UNCHANGED <<tableVars, inbox, link>>

GetKey(n) ==
  /\ Takes(n, "GetKeyRequest")
  /\ LET m == Head(mailbox[n])
         k == pubkey[n][m.target]
     IN  Respond(m.client, IF entry[n][m.target] # Absent /\ k # NoKey
                             THEN [kind |-> "key", of |-> m.target, key |-> k]
                             ELSE Err)
  /\ UNCHANGED <<tableVars, inbox, link>>

(* The client_id of the message is not compared with the entry's.           *)
Unregister(n) ==
  /\ Takes(n, "UnregisterClient")
  /\ LET x == Head(mailbox[n]).name
     IN  /\ RemoveEntry(n, x)
         /\ IF entry[n][x] \in Session
              THEN /\ ToClients(Locals(entry'[n]), Deliver(Notice))
                   /\ ToPeers(n, [type |-> "ClusterClientDisconnected", name |-> x])
              ELSE UNCHANGED <<inbox, link>>
  /\ UNCHANGED reply

(* mutant: a public line stays on its node                                  *)
PublicLineLocally(n) ==
  /\ Takes(n, "BroadcastRequest")
  /\ ToClients(Locals(entry[n]), Deliver(Head(mailbox[n]).msg))
  /\ UNCHANGED <<tableVars, reply, link>>

PublicLine(n) ==
  /\ Takes(n, "BroadcastRequest")
  /\ LET msg == Head(mailbox[n]).msg
     IN  /\ ToClients(Locals(entry[n]), Deliver(msg))
         /\ ToPeers(n, [type |-> "ClusterBroadcast", msg |-> msg])
  /\ UNCHANGED <<tableVars, reply>>

(* /tell and /etell differ in the echo: a plain whisper is also delivered   *)
(* to the Local entry of its sender's name.                                 *)
Whisper(n, t) ==
  /\ Takes(n, t)
  /\ LET m == Head(mailbox[n])
         target == entry[n][m.msg.to]
         echo == IF t = "TellRequest" THEN {entry[n][nick[m.msg.by]]} \cap Session
                                      ELSE {}
     IN  \/ /\ target = Absent
            /\ Respond(m.client, Err)
            /\ UNCHANGED <<inbox, link>>
         \/ /\ target \in Session
            /\ inbox' = [s \in Session |->
                 inbox[s] \o (IF s = target /\ Open(s) THEN <<Deliver(m.msg)>> ELSE <<>>)
                          \o (IF s \in echo /\ Open(s) THEN <<Deliver(m.msg)>> ELSE <<>>)]
            /\ Respond(m.client, Ok)
            /\ UNCHANGED link
         \/ /\ target = Remote
            /\ ToPeers(n, [type |-> "ClusterSend", msg |-> m.msg])
            /\ ToClients(echo, Deliver(m.msg))
            /\ Respond(m.client, Ok)
  /\ UNCHANGED tableVars

(* mutant: no arm for a victim that is not in the table                     *)
KickKnownUser(n) ==
  /\ Takes(n, "KickRequest")
  /\ LET m == Head(mailbox[n])
     IN  /\ entry[n][m.victim] \in Session
         /\ ToClients({entry[n][m.victim]}, KickClient)
         /\ Respond(m.client, Ok)
  /\ UNCHANGED <<tableVars, link>>

KickUser(n) ==
  /\ Takes(n, "KickRequest")
  /\ LET m == Head(mailbox[n])
         target == entry[n][m.victim]
     IN  \/ /\ target = Absent
            /\ Respond(m.client, Err)
            /\ UNCHANGED <<inbox, link>>
         \/ /\ target \in Session
            /\ ToClients({target}, KickClient)
            /\ Respond(m.client, Ok)
            /\ UNCHANGED link
         \/ /\ target = Remote
            /\ ToPeers(n, [type |-> "ClusterKick", victim |-> m.victim])
            /\ Respond(m.client, Ok)
            /\ UNCHANGED inbox
  /\ UNCHANGED tableVars

ListUsers(n) ==
  /\ Takes(n, "ListUsersRequest")
  /\ Respond(Head(mailbox[n]).client,
             [kind |-> "users", names |-> {x \in Name : entry[n][x] # Absent}])
  /\ UNCHANGED <<tableVars, inbox, link>>

ServeClient(n) ==
  \/ Register(n) \/ RegisterKey(n) \/ GetKey(n) \/ Unregister(n) \/ PublicLine(n)
  \/ Whisper(n, "TellRequest") \/ Whisper(n, "EncryptedTellRequest")
  \/ KickUser(n) \/ ListUsers(n)

-----------------------------------------------------------------------------
(* The server actor: messages of the other servers.                         *)

(* The next message from p reaches n and is one of type t.                  *)
Arrives(p, n, t) ==
  /\ link[p][n] # <<>> /\ Head(link[p][n]).type = t
  /\ UNCHANGED <<mailbox, sessionVars, reply, up, faults>>

Popped(p, n) == [link EXCEPT ![p][n] = Tail(@)]

(* A name that is Local here was taken elsewhere: both holders are kicked.  *)
NewClient(p, n) ==
  /\ Arrives(p, n, "ClusterNewClient")
  /\ LET m == Head(link[p][n])
         existing == entry[n][m.name]
     IN  \/ /\ existing \in Session
            /\ ToClients({existing}, KickClient)
            /\ link' = Broadcast(Popped(p, n), n,
                                 [type |-> "ClusterKick", victim |-> m.name])
            /\ UNCHANGED tableVars
         \/ /\ existing = Remote
            /\ link' = Popped(p, n)
            /\ UNCHANGED <<tableVars, inbox>>
         \/ /\ existing = Absent
            /\ SetEntry(n, m.name, Remote, m.pubkey)
            /\ ToClients(Locals(entry[n]), Deliver(Notice))
            /\ link' = Popped(p, n)

ClientKey(p, n) ==
  /\ Arrives(p, n, "ClusterClientKey")
  /\ LET m == Head(link[p][n])
     IN  pubkey' = IF entry[n][m.name] # Absent
                     THEN [pubkey EXCEPT ![n][m.name] = m.pubkey]
                     ELSE pubkey
  /\ link' = Popped(p, n)
  /\ UNCHANGED <<entry, inbox>>

(* The entry goes whether it is Remote or Local.                            *)
ClientDisconnected(p, n) ==
  /\ Arrives(p, n, "ClusterClientDisconnected")
  /\ LET x == Head(link[p][n]).name
     IN  /\ RemoveEntry(n, x)
         /\ IF entry[n][x] = Remote
              THEN ToClients(Locals(entry[n]), Deliver(Notice))
              ELSE UNCHANGED inbox
  /\ link' = Popped(p, n)

(* mutant: a line from a peer is passed on like a line of a client          *)
RemoteLineFlooded(p, n) ==
  /\ Arrives(p, n, "ClusterBroadcast")
  /\ ToClients(Locals(entry[n]), Deliver(Head(link[p][n]).msg))
  /\ link' = Broadcast(Popped(p, n), n, Head(link[p][n]))
  /\ UNCHANGED tableVars

RemoteLine(p, n) ==
  /\ Arrives(p, n, "ClusterBroadcast")
  /\ ToClients(Locals(entry[n]), Deliver(Head(link[p][n]).msg))
  /\ link' = Popped(p, n)
  /\ UNCHANGED tableVars

(* mutant: a whisper from a peer is delivered like a public line            *)
RemoteWhisperToAll(p, n) ==
  /\ Arrives(p, n, "ClusterSend")
  /\ ToClients(Locals(entry[n]), Deliver(Head(link[p][n]).msg))
  /\ link' = Popped(p, n)
  /\ UNCHANGED tableVars

RemoteWhisper(p, n) ==
  /\ Arrives(p, n, "ClusterSend")
  /\ LET msg == Head(link[p][n]).msg
     IN  ToClients({entry[n][msg.to]} \cap Session, Deliver(msg))
  /\ link' = Popped(p, n)
  /\ UNCHANGED tableVars

RemoteKick(p, n) ==
  /\ Arrives(p, n, "ClusterKick")
  /\ ToClients({entry[n][Head(link[p][n]).victim]} \cap Session, KickClient)
  /\ link' = Popped(p, n)
  /\ UNCHANGED tableVars

(* mutant: reconciliation completes known names and inserts none            *)
SyncKnownOnly(p, n) ==
  /\ Arrives(p, n, "ClusterSync")
  /\ LET infos == Head(link[p][n]).clients
     IN  pubkey' = [pubkey EXCEPT ![n] = [x \in Name |->
                      IF x \in DOMAIN infos /\ entry[n][x] # Absent /\ pubkey[n][x] = NoKey
                        THEN infos[x] ELSE pubkey[n][x]]]
  /\ link' = Popped(p, n)
  /\ UNCHANGED <<entry, inbox>>

(* Reconciliation adds what is missing; it removes and overwrites nothing.  *)
Sync(p, n) ==
  /\ Arrives(p, n, "ClusterSync")
  /\ LET infos == Head(link[p][n]).clients
     IN  /\ entry' = [entry EXCEPT ![n] = [x \in Name |->
                        IF x \in DOMAIN infos /\ entry[n][x] = Absent
                          THEN Remote ELSE entry[n][x]]]
         /\ pubkey' = [pubkey EXCEPT ![n] = [x \in Name |->
                        IF x \in DOMAIN infos /\ pubkey[n][x] = NoKey
                          THEN infos[x] ELSE pubkey[n][x]]]
  /\ link' = Popped(p, n)
  /\ UNCHANGED inbox

ServePeer(p, n) ==
  \/ NewClient(p, n) \/ ClientKey(p, n) \/ ClientDisconnected(p, n)
  \/ RemoteLine(p, n) \/ RemoteWhisper(p, n) \/ RemoteKick(p, n) \/ Sync(p, n)

(* The one-second tick: the Local entries, if any, to every peer.           *)
SyncTick(n) ==
  LET mine == {x \in Name : entry[n][x] \in Session}
  IN  /\ mine # {} /\ Peers(n) # {}
      /\ ~ SyncInFlight(n)
      /\ ToPeers(n, [type |-> "ClusterSync", clients |-> [x \in mine |-> pubkey[n][x]]])
      /\ UNCHANGED <<tableVars, mailbox, sessionVars, reply, inbox, up, faults>>

(* The local gossip actor reports that a peer is gone: its clients are told, *)
(* and the table keeps the names of that peer.                              *)
NodeLeft(n) ==
  /\ Peers(n) # Node \ {n} /\ faults > 0
  /\ \A s \in Locals(entry[n]) : inbox[s] = <<>>   \* bound: notices pending
  /\ ToClients(Locals(entry[n]), Deliver(Notice))
  /\ UNCHANGED <<tableVars, mailbox, sessionVars, reply, netVars>>

-----------------------------------------------------------------------------
(* The network and the processes.                                           *)

Between(p, n) == {<<p, n>>, <<n, p>>}

LinkUp(p, n) ==
  /\ p # n /\ {p, n} \notin up
  /\ up' = up \cup {{p, n}}
  /\ UNCHANGED <<tableVars, mailbox, sessionVars, reply, inbox, link, faults>>

(* A broken connection loses what was on it.                                *)
LinkDown(p, n) ==
  /\ {p, n} \in up /\ faults < MaxFaults
  /\ up' = up \ {{p, n}}
  /\ link' = [i \in Node |-> [j \in Node |->
                IF <<i, j>> \in Between(p, n) THEN <<>> ELSE link[i][j]]]
  /\ faults' = faults + 1
  /\ UNCHANGED <<tableVars, mailbox, sessionVars, reply, inbox>>

(* The process of n dies and is started again with an empty table.          *)
Crash(n) ==
  LET died == {s \in Session : Host[s] = n /\ phase[s] # "offline"}
  IN  /\ faults < MaxFaults
      /\ faults' = faults + 1
      /\ entry' = [entry EXCEPT ![n] = [x \in Name |-> Absent]]
      /\ pubkey' = [pubkey EXCEPT ![n] = [x \in Name |-> NoKey]]
      /\ mailbox' = [mailbox EXCEPT ![n] = <<>>]
      /\ phase' = [s \in Session |-> IF s \in died THEN "closed" ELSE phase[s]]
      /\ reply' = [s \in Session |-> IF s \in died THEN NoReply ELSE reply[s]]
      /\ inbox' = [s \in Session |-> IF s \in died THEN <<>> ELSE inbox[s]]
      /\ up' = {e \in up : n \notin e}
      /\ link' = [i \in Node |-> [j \in Node |->
                    IF n \in {i, j} THEN <<>> ELSE link[i][j]]]
      /\ UNCHANGED <<nick, lines, heard>>

Server(n) == ServeClient(n) \/ (\E p \in Node : ServePeer(p, n)) \/ SyncTick(n)

Environment ==
  \/ \E n \in Node : NodeLeft(n) \/ Crash(n)
  \/ \E p, n \in Node : LinkUp(p, n) \/ LinkDown(p, n)

Next ==
  \/ \E s \in Session : Client(s)
  \/ \E n \in Node : Server(n)
  \/ Environment

Spec == Init /\ [][Next]_vars

(* The actors run whenever they have something to do, and a link that can   *)
(* be connected eventually is.  Nothing obliges a user to type, a link to   *)
(* break or a process to die.                                               *)
Fairness ==
  /\ \A s \in Session : WF_vars(Joined(s) \/ Answered(s) \/ Show(s) \/ Kicked(s))
  /\ \A n \in Node : WF_vars(ServeClient(n)) /\ WF_vars(SyncTick(n))
  /\ \A p, n \in Node : WF_vars(ServePeer(p, n)) /\ WF_vars(LinkUp(p, n))

FairSpec == Spec /\ Fairness

====

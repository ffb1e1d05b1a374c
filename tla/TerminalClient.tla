----------------------------- MODULE TerminalClient -----------------------------
(***************************************************************************)
(* The terminal client (distrib-chat-client) at work: terminals, their     *)
(* connections, and the server that keeps the public keys.                 *)
(*                                                                         *)
(* A terminal is one run of the client.  It makes one key pair, so a       *)
(* terminal also stands for its public key: what is sealed with the key t  *)
(* is opened by t and by nobody else.  It sends lines without waiting for  *)
(* the answers, keeps the keys it is told in a cache, and queues whispers  *)
(* whose key it has asked for.                                             *)
(*                                                                         *)
(* The other side is one server.  The actor of a connection handles a line *)
(* and its request in one step: it is blocked until the server answers.    *)
(* The answers and the messages of other clients, which wait in the        *)
(* actor's mailbox meanwhile, share the way back.                          *)
(***************************************************************************)
EXTENDS Integers, Sequences

CONSTANTS
  Terminal,   \* runs of the client, and their public keys
  Name,       \* nicknames
  Nick,       \* Nick[t]: the nickname t is started with
  Typed,      \* Typed[t]: what the user of t may enter
  Watching,   \* bound: the terminals whose sidebar is looked at
  Backlog,    \* bound: the timer of t fires when less than Backlog[t] is under
              \* way between t and the server
  Mortal,     \* bound: the terminals whose process may die
  MaxTyped,   \* bound: the number of entries of each user
  NoName, NoKey, Nobody,
  Stray,      \* a well-formed key that is none of the terminals'
  Garbled     \* any text that is no key

(* The words commands begin with.  A server at the prompt takes any word    *)
(* for a nickname, so these are names too.                                  *)
Command == {"/users", "/getkey", "/etell", "/tell", "/kick", "/pubkey", "/quit"}
Names == Name \cup Command

Keys == Terminal \cup {Stray}
KeyText == Keys \cup {Garbled}
MaybeKey == KeyText \cup {NoKey}

(* What a user enters: a command, whom it is about, and the key text it     *)
(* publishes.  "/plain" is the unencrypted whisper.  The ciphertext of an   *)
(* /etell is given by the key that opens it, if any.  "text" is any other   *)
(* line; `to` and `key` are its first two words.                            *)
Entry ==
  [cmd : {"/tell", "/plain", "/getkey", "/kick"}, to : Names]
  \cup [cmd : {"/users", "/quit"}]
  \cup [cmd : {"/pubkey"}, key : KeyText]
  \cup [cmd : {"/etell"}, to : Names, key : KeyText]
  \cup [cmd : {"text"}, to : Name, key : MaybeKey]

ASSUME TerminalAssumption ==
  /\ Nick \in [Terminal -> Name]
  /\ Typed \in [Terminal -> SUBSET Entry]
  /\ Watching \subseteq Terminal /\ Mortal \subseteq Terminal
  /\ MaxTyped \in [Terminal -> Nat] /\ Backlog \in [Terminal -> Nat]

ASSUME TerminalMarkers ==
  /\ NoName \notin Names /\ Nobody \notin Terminal
  /\ NoKey \notin KeyText /\ Garbled \notin Keys /\ Stray \notin Terminal

VARIABLES
  tui,        \* tui[t]: "off", "on" or "over"
  peerKeys,   \* peer_keys[t][x]: the cached key of x
  pending,    \* pending_whispers[t][x]: whispers to x that wait for its key
  asked,      \* asked[t][x]: whispers to x the user of t has entered
  sent,       \* sent[t][x]: whispers to x shown as sent, each with its key
  read,       \* read[t]: the whispers t has opened and shown
  unread,     \* unread[t]: those t could not open
  missed,     \* missed[t]: the names for which t has shown a failed lookup
  users,      \* users[t]: the sidebar, names with their badge
  typed,      \* typed[t]: entries so far
  toServer,   \* toServer[t]: lines on the way to the actor of t
  toTerm,     \* toTerm[t]: lines on the way to t
  conn,       \* conn[t]: where the actor of t is
  nick,       \* nick[t]: the name t got; kept when it has left
  inbox,      \* inbox[t]: what the server sent to the actor of t
  holder,     \* holder[x]: whose name x is
  key,        \* key[x]: the key registered for x
  published   \* published[t]: history, the keys t has had registered

shownVars == <<asked, sent, read, unread, missed, users>>
tuiVars == <<tui, peerKeys, pending, shownVars, typed>>
tableVars == <<holder, key, published>>
actorVars == <<conn, nick, inbox, tableVars>>
vars == <<tuiVars, toServer, toTerm, actorVars>>

-----------------------------------------------------------------------------
(* Lines.                                                                   *)

(* The nr-th whisper of `by` to `to`, sealed with `key`.  A ciphertext that *)
(* was typed by hand, whatever it is, has the number 0.                     *)
Seal == [by : Terminal, to : Names, nr : Nat, key : KeyText]

(* Public-key encryption: a seal is opened with the secret of its key.      *)
EncryptMessage(t, x, nr, k) == [by |-> t, to |-> x, nr |-> nr, key |-> k]
Decrypts(t, s) == s.key = t

Line ==
  [cmd : {"text"}, to : Name, key : MaybeKey]
  \cup [cmd : {"/users", "/quit"}]
  \cup [cmd : {"/pubkey"}, key : KeyText]
  \cup [cmd : {"/getkey", "/tell", "/kick"}, to : Names]
  \cup [cmd : {"/etell"}, to : Names, seal : Seal]

(* Lines that only go to the screen (public lines, plain whispers, usage,   *)
(* refusals) are left out, and so are the lines that only change a sidebar  *)
(* nobody looks at.                                                         *)
Delivery == [kind : {"sealed"}, from : Names, seal : Seal] \cup [kind : {"presence"}]

Answer ==
  [kind : {"key"}, of : Names, key : KeyText]
  \cup [kind : {"nokey"}, of : Names]
  \cup [kind : {"users"}, list : SUBSET (Names \X BOOLEAN)]

Presence == [kind |-> "presence"]
KickClient == [kind |-> "kick"]

(* Type invariant.                                                          *)
TypeOK ==
  /\ tui \in [Terminal -> {"off", "on", "over"}]
  /\ peerKeys \in [Terminal -> [Names -> Keys \cup {NoKey}]]
  /\ pending \in [Terminal -> [Names -> Seq(Nat)]]
  /\ asked \in [Terminal -> [Names -> Nat]]
  /\ sent \in [Terminal -> [Names -> Seq(Seal)]]
  /\ read \in [Terminal -> Seq([from : Names, seal : Seal])]
  /\ unread \in [Terminal -> SUBSET Seal]
  /\ missed \in [Terminal -> SUBSET Names]
  /\ users \in [Terminal -> SUBSET (Names \X BOOLEAN)]
  /\ typed \in [Terminal -> Nat]
  /\ toServer \in [Terminal -> Seq(Line)]
  /\ toTerm \in [Terminal -> Seq(Delivery \cup Answer)]
  /\ conn \in [Terminal -> {"none", "login", "chatting", "leaving", "closed"}]
  /\ nick \in [Terminal -> Names \cup {NoName}]
  /\ inbox \in [Terminal -> Seq(Delivery \cup {KickClient})]
  /\ holder \in [Names -> Terminal \cup {Nobody}]
  /\ key \in [Names -> MaybeKey]
  /\ published \in [Terminal -> SUBSET MaybeKey]

Init ==
  /\ tui = [t \in Terminal |-> "off"]
  /\ peerKeys = [t \in Terminal |-> [x \in Names |-> NoKey]]
  /\ pending = [t \in Terminal |-> [x \in Names |-> <<>>]]
  /\ asked = [t \in Terminal |-> [x \in Names |-> 0]]
  /\ sent = [t \in Terminal |-> [x \in Names |-> <<>>]]
  /\ read = [t \in Terminal |-> <<>>]
  /\ unread = [t \in Terminal |-> {}]
  /\ missed = [t \in Terminal |-> {}]
  /\ users = [t \in Terminal |-> {<<Nick[t], TRUE>>}]
  /\ typed = [t \in Terminal |-> 0]
  /\ toServer = [t \in Terminal |-> <<>>]
  /\ toTerm = [t \in Terminal |-> <<>>]
  /\ conn = [t \in Terminal |-> "none"]
  /\ nick = [t \in Terminal |-> NoName]
  /\ inbox = [t \in Terminal |-> <<>>]
  /\ holder = [x \in Names |-> Nobody]
  /\ key = [x \in Names |-> NoKey]
  /\ published = [t \in Terminal |-> {}]

-----------------------------------------------------------------------------
(* The terminal.                                                            *)

(* What a terminal writes; it is lost when the actor is gone.               *)
Sends(t, lns) ==
  toServer' = [toServer EXCEPT ![t] = IF conn[t] \in {"leaving", "closed"} THEN @
                                                                           ELSE @ \o lns]

UsersLine == [cmd |-> "/users"]

(* The prompt is answered with the nickname and the key; a first /users     *)
(* follows at once, whatever the answer will be.                            *)
Launch(t) ==
  /\ tui[t] = "off"
  /\ tui' = [tui EXCEPT ![t] = "on"]
  /\ conn' = [conn EXCEPT ![t] = "login"]
  /\ Sends(t, <<[cmd |-> "text", to |-> Nick[t], key |-> t], UsersLine>>)
  /\ UNCHANGED <<peerKeys, pending, shownVars, typed, toTerm, nick, inbox, tableVars>>

(* The timer of the event loop.  Its first tick comes at once.              *)
SyncTicker(t) ==
  /\ tui[t] = "on" /\ Len(toServer[t] \o inbox[t] \o toTerm[t]) < Backlog[t]
  /\ Sends(t, <<UsersLine>>)
  /\ UNCHANGED <<tuiVars, toTerm, actorVars>>

Exits(t) ==
  /\ tui' = [tui EXCEPT ![t] = "over"]
  /\ toTerm' = [toTerm EXCEPT ![t] = <<>>]

(* The user enters e.                                                       *)
Enters(t, e) ==
  /\ tui[t] = "on" /\ typed[t] < MaxTyped[t]
  /\ e \in Typed[t]
  /\ typed' = [typed EXCEPT ![t] = @ + 1]
  /\ UNCHANGED <<read, unread, missed, users, peerKeys, actorVars>>

EtellLine(s) == [cmd |-> "/etell", to |-> s.to, seal |-> s]

(* mutant: a queued whisper is put in front                                 *)
WhisperQueuedFirst(t, x) ==
  /\ Enters(t, [cmd |-> "/tell", to |-> x])
  /\ x # Nick[t]
  /\ asked' = [asked EXCEPT ![t][x] = @ + 1]
  /\ IF peerKeys[t][x] # NoKey
       THEN LET s == EncryptMessage(t, x, asked'[t][x], peerKeys[t][x])
            IN  /\ Sends(t, <<EtellLine(s)>>)
                /\ sent' = [sent EXCEPT ![t][x] = Append(@, s)]
                /\ UNCHANGED pending
       ELSE /\ pending' = [pending EXCEPT ![t][x] = <<asked'[t][x]>> \o @]
            /\ Sends(t, <<[cmd |-> "/getkey", to |-> x]>>)
            /\ UNCHANGED sent
  /\ UNCHANGED <<tui, toTerm>>

(* /tell: sealed at once with the cached key, or queued until the key that  *)
(* is asked for comes.  To whisper to the own nickname is refused.          *)
WhisperTo(t, x) ==
  /\ Enters(t, [cmd |-> "/tell", to |-> x])
  /\ \/ /\ x = Nick[t]
        /\ UNCHANGED <<asked, sent, pending, toServer>>
     \/ /\ x # Nick[t] /\ peerKeys[t][x] # NoKey
        /\ asked' = [asked EXCEPT ![t][x] = @ + 1]
        /\ LET s == EncryptMessage(t, x, asked[t][x] + 1, peerKeys[t][x])
           IN  /\ Sends(t, <<EtellLine(s)>>)
               /\ sent' = [sent EXCEPT ![t][x] = Append(@, s)]
        /\ UNCHANGED pending
     \/ /\ x # Nick[t] /\ peerKeys[t][x] = NoKey
        /\ asked' = [asked EXCEPT ![t][x] = @ + 1]
        /\ pending' = [pending EXCEPT ![t][x] = Append(@, asked[t][x] + 1)]
        /\ Sends(t, <<[cmd |-> "/getkey", to |-> x]>>)
        /\ UNCHANGED sent
  /\ UNCHANGED <<tui, toTerm>>

(* What is passed on to the server as it is; /plain becomes its /tell.      *)
PassedOn(t, e) ==
  CASE e.cmd = "/plain" -> [cmd |-> "/tell", to |-> e.to]
    [] e.cmd = "/etell" -> EtellLine(EncryptMessage(t, e.to, 0, e.key))
    [] OTHER            -> e

PassThrough(t, e) ==
  /\ e.cmd \notin {"/tell", "/quit"}
  /\ Enters(t, e)
  /\ Sends(t, <<PassedOn(t, e)>>)
  /\ UNCHANGED <<tui, pending, asked, sent, toTerm>>

(* /quit, Esc or Ctrl-C.                                                    *)
Quit(t) ==
  /\ Enters(t, [cmd |-> "/quit"])
  /\ Sends(t, <<[cmd |-> "/quit"]>>)
  /\ Exits(t)
  /\ UNCHANGED <<pending, asked, sent>>

(* The process ends without a word: a panic, a closed window.               *)
Die(t) ==
  /\ t \in Mortal /\ tui[t] = "on"
  /\ Exits(t)
  /\ UNCHANGED <<peerKeys, pending, shownVars, typed, toServer, actorVars>>

(* The stream has ended.                                                    *)
Disconnected(t) ==
  /\ tui[t] = "on" /\ conn[t] \in {"leaving", "closed"} /\ toTerm[t] = <<>>
  /\ Exits(t)
  /\ UNCHANGED <<peerKeys, pending, shownVars, typed, toServer, actorVars>>

(* The terminal takes the next line of the server, one of the kind k.       *)
Takes(t, k) ==
  /\ tui[t] = "on" /\ toTerm[t] # <<>> /\ Head(toTerm[t]).kind = k
  /\ toTerm' = [toTerm EXCEPT ![t] = Tail(@)]
  /\ UNCHANGED <<tui, asked, typed, actorVars>>

(* mutant: what cannot be opened is shown nevertheless                      *)
ShowsAnyWhisper(t) ==
  /\ Takes(t, "sealed")
  /\ LET m == Head(toTerm[t])
     IN  read' = [read EXCEPT ![t] = Append(@, [from |-> m.from, seal |-> m.seal])]
  /\ UNCHANGED <<peerKeys, pending, sent, unread, missed, users, toServer>>

(* A sealed whisper is opened and shown, or an error is.                    *)
EncryptedWhisper(t) ==
  /\ Takes(t, "sealed")
  /\ LET m == Head(toTerm[t])
     IN  IF Decrypts(t, m.seal)
         THEN /\ read' = [read EXCEPT ![t] = Append(@, [from |-> m.from, seal |-> m.seal])]
              /\ UNCHANGED unread
         ELSE /\ unread' = [unread EXCEPT ![t] = @ \cup {m.seal}]
              /\ UNCHANGED read
  /\ UNCHANGED <<peerKeys, pending, sent, missed, users, toServer>>

(* The whispers that waited for the key k of x, sealed, in order.           *)
Flushed(t, x, k) ==
  [i \in 1..Len(pending[t][x]) |-> EncryptMessage(t, x, pending[t][x][i], k)]

(* mutant: the queue is flushed and kept                                    *)
KeyLineKeepsQueue(t) ==
  /\ Takes(t, "key")
  /\ LET x == Head(toTerm[t]).of
         k == Head(toTerm[t]).key
         seals == Flushed(t, x, k)
     IN  /\ k # Garbled
         /\ peerKeys' = [peerKeys EXCEPT ![t][x] = k]
         /\ sent' = [sent EXCEPT ![t][x] = @ \o seals]
         /\ Sends(t, [i \in 1..Len(pending[t][x]) |-> EtellLine(seals[i])])
  /\ UNCHANGED <<read, unread, missed, users, pending>>

(* mutant: any text is taken for a key                                      *)
KeyLineUnchecked(t) ==
  /\ Takes(t, "key")
  /\ LET x == Head(toTerm[t]).of
         k == Head(toTerm[t]).key
         seals == Flushed(t, x, k)
     IN  /\ peerKeys' = [peerKeys EXCEPT ![t][x] = k]
         /\ pending' = [pending EXCEPT ![t][x] = <<>>]
         /\ sent' = [sent EXCEPT ![t][x] = @ \o seals]
         /\ Sends(t, [i \in 1..Len(pending[t][x]) |-> EtellLine(seals[i])])
  /\ UNCHANGED <<read, unread, missed, users>>

(* *** KEY x k: the key goes into the cache, over an older one, and the     *)
(* whispers that waited for it are sealed and sent.  A text that is no key  *)
(* is reported, and they wait on.                                           *)
KeyLine(t) ==
  /\ Takes(t, "key")
  /\ LET x == Head(toTerm[t]).of
         k == Head(toTerm[t]).key
         seals == Flushed(t, x, k)
     IN  \/ /\ k # Garbled
            /\ peerKeys' = [peerKeys EXCEPT ![t][x] = k]
            /\ pending' = [pending EXCEPT ![t][x] = <<>>]
            /\ sent' = [sent EXCEPT ![t][x] = @ \o seals]
            /\ Sends(t, [i \in 1..Len(pending[t][x]) |-> EtellLine(seals[i])])
            /\ UNCHANGED missed
         \/ /\ k = Garbled
            /\ missed' = [missed EXCEPT ![t] = @ \cup {x}]
            /\ UNCHANGED <<peerKeys, pending, sent, toServer>>
  /\ UNCHANGED <<read, unread, users>>

(* The lookup failed: shown as an error; what is queued stays queued.       *)
NoKeyLine(t) ==
  /\ Takes(t, "nokey")
  /\ missed' = [missed EXCEPT ![t] = @ \cup {Head(toTerm[t]).of}]
  /\ UNCHANGED <<peerKeys, pending, sent, read, unread, users, toServer>>

(* mutant: the own nickname is not kept                                    *)
UserListOthers(t) ==
  /\ Takes(t, "users")
  /\ users' = [users EXCEPT ![t] = Head(toTerm[t]).list]
  /\ UNCHANGED <<peerKeys, pending, sent, read, unread, missed, toServer>>

(* The sidebar: the own nickname, and the others of the line.               *)
UserList(t) ==
  /\ Takes(t, "users")
  /\ users' = [users EXCEPT ![t] =
       {<<Nick[t], TRUE>>} \cup {u \in Head(toTerm[t]).list : u[1] # Nick[t]}]
  /\ UNCHANGED <<peerKeys, pending, sent, read, unread, missed, toServer>>

(* Somebody has connected or disconnected: the list is asked for again.     *)
PresenceNotice(t) ==
  /\ Takes(t, "presence")
  /\ Sends(t, <<UsersLine>>)
  /\ UNCHANGED <<peerKeys, pending, sent, read, unread, missed, users>>

ServerLine(t) ==
  \/ EncryptedWhisper(t) \/ KeyLine(t) \/ NoKeyLine(t) \/ UserList(t) \/ PresenceNotice(t)

User(t) ==
  \/ Launch(t) \/ Quit(t) \/ Die(t)
  \/ \E x \in Names : WhisperTo(t, x)
  \/ \E e \in Typed[t] : PassThrough(t, e)

-----------------------------------------------------------------------------
(* The actor of a connection, and the server.                               *)

(* Written to the terminal, if it still runs.                               *)
Writes(t, l) ==
  toTerm' = [toTerm EXCEPT ![t] = IF tui[t] = "on" THEN Append(@, l) ELSE @]

(* The actor of t, in the state c, reads the next line.                     *)
Reads(t, c) ==
  /\ conn[t] = c /\ toServer[t] # <<>>
  /\ toServer' = [toServer EXCEPT ![t] = Tail(@)]
  /\ UNCHANGED tuiVars

Chatting == {s \in Terminal : conn[s] = "chatting"}
Clients == {holder[x] : x \in Names} \cap Chatting
Watchers == Clients \cap Watching

Delivered(S, m) ==
  [s \in Terminal |-> IF s \in S THEN Append(inbox[s], m) ELSE inbox[s]]

(* At the prompt the first word of a line is a nickname, the second a key.  *)
NameIn(l) == IF l.cmd = "text" THEN l.to ELSE l.cmd
KeyIn(l) ==
  CASE l.cmd \in {"text", "/pubkey"}  -> l.key
    [] l.cmd \in {"/users", "/quit"}   -> NoKey
    [] OTHER                           -> Garbled

(* mutant: the key is stored though the name is refused                     *)
RegisterTakesKey(t) ==
  /\ Reads(t, "login")
  /\ LET x == NameIn(Head(toServer[t]))
         free == holder[x] = Nobody
     IN  /\ holder' = [holder EXCEPT ![x] = IF free THEN t ELSE @]
         /\ key' = [key EXCEPT ![x] = KeyIn(Head(toServer[t]))]
         /\ published' = [published EXCEPT ![t] = IF free THEN @ \cup {key'[x]} ELSE @]
         /\ nick' = [nick EXCEPT ![t] = IF free THEN x ELSE @]
         /\ conn' = [conn EXCEPT ![t] = IF free THEN "chatting" ELSE @]
         /\ inbox' = IF free THEN Delivered(Watchers \cup ({t} \cap Watching), Presence)
                             ELSE inbox
  /\ UNCHANGED toTerm

Register(t) ==
  /\ Reads(t, "login")
  /\ LET x == NameIn(Head(toServer[t]))
     IN  \/ /\ holder[x] # Nobody
            /\ UNCHANGED actorVars
         \/ /\ holder[x] = Nobody
            /\ holder' = [holder EXCEPT ![x] = t]
            /\ key' = [key EXCEPT ![x] = KeyIn(Head(toServer[t]))]
            /\ published' = [published EXCEPT ![t] = @ \cup {KeyIn(Head(toServer[t]))}]
            /\ nick' = [nick EXCEPT ![t] = x]
            /\ conn' = [conn EXCEPT ![t] = "chatting"]
            /\ inbox' = Delivered(Watchers \cup ({t} \cap Watching), Presence)
  /\ UNCHANGED toTerm

(* A command of the main loop that reads the table and answers.             *)
ReadsCommand(t, c) ==
  /\ Reads(t, "chatting") /\ Head(toServer[t]).cmd = c
  /\ UNCHANGED <<conn, nick>>

ListUsers(t) ==
  /\ ReadsCommand(t, "/users")
  /\ LET others == {x \in Names : holder[x] # Nobody /\ x # nick[t]}
     IN  IF t \in Watching
         THEN Writes(t, [kind |-> "users", list |-> {<<x, key[x] # NoKey>> : x \in others}])
         ELSE UNCHANGED toTerm
  /\ UNCHANGED <<inbox, tableVars>>

(* mutant: no answer when there is no key                                   *)
GetKeyUnanswered(t) ==
  /\ ReadsCommand(t, "/getkey")
  /\ LET x == Head(toServer[t]).to
     IN  IF holder[x] # Nobody /\ key[x] # NoKey
         THEN Writes(t, [kind |-> "key", of |-> x, key |-> key[x]])
         ELSE UNCHANGED toTerm
  /\ UNCHANGED <<inbox, tableVars>>

GetKey(t) ==
  /\ ReadsCommand(t, "/getkey")
  /\ LET x == Head(toServer[t]).to
     IN  Writes(t, IF holder[x] # Nobody /\ key[x] # NoKey
                     THEN [kind |-> "key", of |-> x, key |-> key[x]]
                     ELSE [kind |-> "nokey", of |-> x])
  /\ UNCHANGED <<inbox, tableVars>>

(* Any text is stored for the key of the name.                              *)
PublishKey(t) ==
  /\ ReadsCommand(t, "/pubkey")
  /\ LET k == Head(toServer[t]).key
     IN  \/ /\ holder[nick[t]] # Nobody
            /\ key' = [key EXCEPT ![nick[t]] = k]
            /\ published' = [published EXCEPT ![t] = @ \cup {k}]
         \/ /\ holder[nick[t]] = Nobody
            /\ UNCHANGED <<key, published>>
  /\ UNCHANGED <<toTerm, inbox, holder>>

(* mutant: a sealed whisper is passed on to everybody                       *)
EncryptedTellToAll(t) ==
  /\ ReadsCommand(t, "/etell")
  /\ inbox' = Delivered(Clients, [kind |-> "sealed", from |-> nick[t],
                                  seal |-> Head(toServer[t]).seal])
  /\ UNCHANGED <<toTerm, tableVars>>

(* A sealed whisper goes, unread, to whoever holds the name; if nobody does *)
(* the sender is told.                                                      *)
EncryptedTell(t) ==
  /\ ReadsCommand(t, "/etell")
  /\ LET l == Head(toServer[t])
     IN  inbox' = Delivered({holder[l.to]} \cap Chatting,
                            [kind |-> "sealed", from |-> nick[t], seal |-> l.seal])
  /\ UNCHANGED <<toTerm, tableVars>>

Kick(t) ==
  /\ ReadsCommand(t, "/kick")
  /\ inbox' = Delivered({holder[Head(toServer[t]).to]} \cap Chatting, KickClient)
  /\ UNCHANGED <<toTerm, tableVars>>

(* A plain whisper or a public line ends on the screens of its readers.     *)
PlainLine(t) ==
  /\ \E c \in {"/tell", "text"} : ReadsCommand(t, c)
  /\ UNCHANGED <<toTerm, inbox, tableVars>>

(* DeliverToClient, in the main loop.                                       *)
Relay(t) ==
  /\ conn[t] = "chatting" /\ inbox[t] # <<>> /\ Head(inbox[t]) # KickClient
  /\ Writes(t, Head(inbox[t]))
  /\ inbox' = [inbox EXCEPT ![t] = Tail(@)]
  /\ UNCHANGED <<tuiVars, toServer, conn, nick, tableVars>>

(* The actor ends; the main loop is followed by UnregisterClient.           *)
Ends(t) ==
  /\ conn' = [conn EXCEPT ![t] = IF conn[t] = "chatting" THEN "leaving" ELSE "closed"]
  /\ inbox' = [inbox EXCEPT ![t] = <<>>]
  /\ toServer' = [toServer EXCEPT ![t] = <<>>]
  /\ UNCHANGED <<tuiVars, nick, tableVars>>

Kicked(t) ==
  /\ conn[t] = "chatting" /\ inbox[t] # <<>> /\ Head(inbox[t]) = KickClient
  /\ Ends(t)
  /\ UNCHANGED toTerm

Quits(t) ==
  /\ conn[t] = "chatting" /\ toServer[t] # <<>> /\ Head(toServer[t]).cmd = "/quit"
  /\ Ends(t)
  /\ UNCHANGED toTerm

(* The stream of a terminal that is over has been read to its end.          *)
Eof(t) ==
  /\ conn[t] \in {"login", "chatting"} /\ tui[t] = "over" /\ toServer[t] = <<>>
  /\ Ends(t)
  /\ UNCHANGED toTerm

(* The server handles UnregisterClient.                                     *)
Unregister(t) ==
  /\ conn[t] = "leaving"
  /\ conn' = [conn EXCEPT ![t] = "closed"]
  /\ holder' = [holder EXCEPT ![nick[t]] = Nobody]
  /\ key' = [key EXCEPT ![nick[t]] = NoKey]
  /\ UNCHANGED published
  /\ inbox' = Delivered(Watchers \ {holder[nick[t]]}, Presence)
  /\ UNCHANGED <<tuiVars, toServer, toTerm, nick>>

Actor(t) ==
  \/ Register(t) \/ ListUsers(t) \/ GetKey(t) \/ PublishKey(t) \/ EncryptedTell(t)
  \/ Kick(t) \/ PlainLine(t) \/ Quits(t) \/ Eof(t) \/ Kicked(t)

-----------------------------------------------------------------------------
Next ==
  \E t \in Terminal :
    \/ User(t) \/ SyncTicker(t) \/ ServerLine(t) \/ Disconnected(t)
    \/ Actor(t) \/ Relay(t) \/ Unregister(t)

Spec == Init /\ [][Next]_vars

(* The event loop of the terminal, the actors and the server run whenever   *)
(* they have something to do.  Nothing obliges a user to start, type or     *)
(* leave.                                                                   *)
Fairness ==
  /\ \A t \in Terminal :
       /\ WF_vars(ServerLine(t) \/ Disconnected(t))
       /\ WF_vars(Actor(t) \/ Relay(t) \/ Unregister(t))
  /\ \A t \in Watching : WF_vars(SyncTicker(t))

FairSpec == Spec /\ Fairness

====

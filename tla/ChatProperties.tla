---------------------------- MODULE ChatProperties ----------------------------
(* The correctness properties of ChatCluster: what the checks and the proofs  *)
(* establish, and what the documentation promises but the code does not keep. *)
EXTENDS ChatCluster

-----------------------------------------------------------------------------
(* Safety.                                                                  *)

Pending(s) ==
  \E i \in DOMAIN mailbox[Host[s]] :
    mailbox[Host[s]][i] = [type |-> "UnregisterClient", client |-> s, name |-> nick[s]]

HasKick(s) == \E i \in DOMAIN inbox[s] : inbox[s][i] = KickClient

(* A Local entry is never an orphan: the session it names runs on this node *)
(* under this very name and is past its login, or its UnregisterClient is   *)
(* still to be handled.  (The login loop ends without unregistering, the    *)
(* main loop does not, and the answer Ok is read after the entry exists.)   *)
LocalEntryHasOwner ==
  \A n \in Node, x \in Name, s \in Session :
    entry[n][x] = s =>
      /\ Host[s] = n /\ nick[s] = x
      /\ \/ phase[s] = "joining" /\ reply[s] = Ok
         \/ phase[s] \in {"chatting", "asking"}
         \/ phase[s] = "closed" /\ Pending(s)

(* No kick can reach the login loop, whose Kick branch returns without      *)
(* unregistering anything.                                                  *)
NoKickBeforeLogin ==
  \A s \in Session :
    phase[s] = "login" => ~ HasKick(s)

(* Why the two above hold, as an inductive invariant.                       *)

(* The requests whose sender is blocked until they are answered.            *)
Blocking == {"RegisterClient", "RegisterKeyRequest", "GetKeyRequest", "TellRequest",
             "EncryptedTellRequest", "KickRequest", "ListUsersRequest"}

(* What is in a server's mailbox matches where its sender is.               *)
Matches(n, m) ==
  /\ m.type \in Blocking =>
       /\ Host[m.client] = n /\ reply[m.client] = NoReply
       /\ phase[m.client] = IF m.type = "RegisterClient" THEN "joining" ELSE "asking"
  /\ m.type = "RegisterClient" => m.name = nick[m.client]
  /\ m.type = "UnregisterClient" =>
       /\ Host[m.client] = n /\ phase[m.client] = "closed"
       /\ m.name = nick[m.client]

MailMatchesSender ==
  \A n \in Node : \A i \in DOMAIN mailbox[n] : Matches(n, mailbox[n][i])

(* A client waits for one answer at a time.                                 *)
OneRequest ==
  \A n \in Node : \A i, j \in DOMAIN mailbox[n] :
    LET m == mailbox[n][i]
        k == mailbox[n][j]
    IN  m.type \in Blocking /\ k.type \in Blocking /\ m.client = k.client => i = j

(* An answer waits for a client that is still there to read it.             *)
ReplyIsAwaited ==
  \A s \in Session : reply[s] # NoReply => phase[s] \in {"joining", "asking"}

(* A session with no name of its own, which the next RegisterClient may     *)
(* still have to give it.                                                   *)
Nameless(s) ==
  \/ phase[s] \in {"offline", "login"}
  \/ phase[s] = "joining" /\ reply[s] # Ok

KicksNeedName ==
  \A s \in Session : Nameless(s) => ~ HasKick(s)

OwnershipInv ==
  LocalEntryHasOwner /\ MailMatchesSender /\ OneRequest /\ ReplyIsAwaited /\ KicksNeedName

(* A whisper is only ever handed to a session that carries the addressee's  *)
(* name; the echo of a plain /tell to one that carries its sender's name.   *)
WhisperReachesAddressee ==
  \A s \in Session : \A i \in DOMAIN inbox[s] :
    LET m == inbox[s][i]
    IN  m.type = "DeliverToClient" /\ m.msg.kind \in {"tell", "etell"}
          => \/ nick[s] = m.msg.to
             \/ m.msg.kind = "tell" /\ nick[s] = nick[m.msg.by]

(* Public lines of one session reach another in the order they were typed,  *)
(* none twice, whatever breaks on the way.                                  *)
LinesInOrder ==
  \A s, t \in Session :
    LET Said(i) == /\ i \in DOMAIN inbox[s]
                   /\ inbox[s][i].type = "DeliverToClient"
                   /\ inbox[s][i].msg.kind = "say" /\ inbox[s][i].msg.by = t
    IN  \A i \in DOMAIN inbox[s] : Said(i) =>
          /\ inbox[s][i].msg.nr > heard[s][t]
          /\ \A j \in 1..(i - 1) : Said(j) => inbox[s][j].msg.nr < inbox[s][i].msg.nr

(* A key filed under a name was published by a session that carries that    *)
(* name: nobody whispers to x under a key x never had.  It holds for the    *)
(* tables and for the answers to /getkey.                                   *)
KeyProvenance ==
  LET Published(x, k) == \E s \in Session : nick[s] = x /\ k \in Keyring[s]
  IN  /\ \A n \in Node, x \in Name : pubkey[n][x] # NoKey => Published(x, pubkey[n][x])
      /\ \A s \in Session : reply[s].kind = "key" => Published(reply[s].of, reply[s].key)

(* Per node, the Local entries implement the abstract table: one holder per *)
(* name, one name per session, and no hand-over without a release.          *)
Holders ==
  [n \in Node |-> [x \in Name |-> IF entry[n][x] \in Session THEN entry[n][x] ELSE Absent]]
Table == INSTANCE NameTable WITH own <- Holders, Free <- Absent
ImplementsNameTable == Table!Spec

-----------------------------------------------------------------------------
(* Liveness.                                                                *)

(* Every request of a client is answered, a refused nickname and a failed   *)
(* lookup too: no actor stays blocked.                                      *)
RequestAnswered ==
  \A s \in Session : []<>(phase[s] \notin {"joining", "asking"})

(* A kick that reached a client's mailbox ends that client, whatever it is  *)
(* doing, and the name it held on its node is free again.                   *)
KickReleases ==
  \A s \in Session :
    HasKick(s) ~> phase[s] = "closed" /\ \A n \in Node, x \in Name : entry[n][x] # s

(* A public line sent while t was registered, on the same node or on one    *)
(* linked to it, is shown to t unless t goes away first.                    *)
LineDelivered ==
  \A s, t \in Session, i \in 1..MaxLines :
    /\ \E j \in DOMAIN mailbox[Host[s]] :
         mailbox[Host[s]][j] = [type |-> "BroadcastRequest",
                                msg |-> [kind |-> "say", by |-> s, nr |-> i, to |-> NoName]]
    /\ \E x \in Name : entry[Host[t]][x] = t
    /\ Host[t] = Host[s] \/ {Host[s], Host[t]} \in up
    ~> heard[t][s] >= i \/ phase[t] = "closed"

(* Every server knows exactly the registered names, each with the key its   *)
(* own server holds.                                                        *)
Converged ==
  \A n \in Node, x \in Name :
    LET holders == {s \in Session : entry[Host[s]][x] = s}
    IN  /\ entry[n][x] = Absent <=> holders = {}
        /\ \A s \in holders : pubkey[n][x] = pubkey[Host[s]][x]

(* Once the users are quiet the tables agree, for good.  With connections   *)
(* that break this is what README.md:407 promises, convergence "even after  *)
(* network hiccups".                                                        *)
DirectoriesConverge == <>[]Converged

-----------------------------------------------------------------------------
(* What the documentation promises and the code does not keep; so does      *)
(* DirectoriesConverge when connections break.                              *)

(* README.md:21: the user list shows every client that is active.           *)
ChattersListed ==
  <>[](\A s \in Session : phase[s] = "chatting" => entry[Host[s]][nick[s]] # Absent)

====

--------------------------- MODULE TerminalProperties ---------------------------
(* The correctness properties of TerminalClient.                              *)
EXTENDS TerminalClient

-----------------------------------------------------------------------------
(* Safety.                                                                  *)

(* No whisper is lost, doubled or overtaken on its way through the queue:   *)
(* to each name the whispers sent so far and those that still wait are, in  *)
(* this order, exactly the whispers the user has entered; and none waits    *)
(* for a key that is in the cache.                                          *)
WhispersInOrder ==
  \A t \in Terminal, x \in Names :
    /\ Len(sent[t][x]) + Len(pending[t][x]) = asked[t][x]
    /\ \A i \in DOMAIN sent[t][x] : sent[t][x][i].nr = i
    /\ \A i \in DOMAIN pending[t][x] : pending[t][x][i] = Len(sent[t][x]) + i
    /\ peerKeys[t][x] # NoKey => pending[t][x] = <<>>

(* A whisper to x is sealed only with a key that was registered for x by a  *)
(* terminal of that name, however late the answer that brought it: never    *)
(* with one meant for another name, or from somebody who was refused it.    *)
Published(x, k) == \E u \in Terminal : nick[u] = x /\ k \in published[u]

SealedAsPublished ==
  \A t \in Terminal, x \in Names :
    /\ \A i \in DOMAIN sent[t][x] : Published(x, sent[t][x][i].key)
    /\ peerKeys[t][x] # NoKey => Published(x, peerKeys[t][x])

(* What a terminal shows as read was sealed for itself under the name it is *)
(* registered with, and comes from the name its sender is registered with,  *)
(* though anybody may have registered its key, for any name.                *)
ReadByAddressee ==
  \A u \in Terminal : \A i \in DOMAIN read[u] :
    LET s == read[u][i].seal
    IN  s.key = u /\ nick[u] = s.to /\ nick[s.by] = read[u][i].from

(* A whisper that arrives and cannot be opened has a reason: it was typed   *)
(* by hand; or it is sealed with another key, and that was registered for   *)
(* the name by the receiver, or by an earlier holder, who is gone: the      *)
(* sender kept that key.                                                    *)
UnreadableHasReason ==
  \A u \in Terminal : \A s \in unread[u] :
    /\ s.key # u /\ nick[u] = s.to
    /\ \/ s.nr = 0
       \/ \E v \in Terminal :
            nick[v] = s.to /\ s.key \in published[v] /\ (v = u \/ conn[v] = "closed")

(* The whispers as a whole: queued, sealed in order, read in order, once.   *)
Mail == INSTANCE SealedMail WITH
  Key <- Keys,
  sealed <- [t \in Terminal |-> [x \in Names |->
               [i \in DOMAIN sent[t][x] |-> sent[t][x][i].key]]],
  read <- [u \in Terminal |-> [i \in DOMAIN read[u] |->
             [by |-> read[u][i].seal.by, to |-> read[u][i].seal.to,
              nr |-> read[u][i].seal.nr]]]
ImplementsSealedMail == Mail!Spec

-----------------------------------------------------------------------------
(* Liveness.                                                                *)

(* A whisper does not wait in silence: it is sent, or an error about the    *)
(* name is shown, or the terminal ends.                                     *)
Addressees(t) == {e.to : e \in {f \in Typed[t] : f.cmd = "/tell"}}
WhisperSettles ==
  \A t \in Terminal : \A x \in Addressees(t) :
    []<>(pending[t][x] = <<>> \/ x \in missed[t] \/ tui[t] = "over")

(* Once nobody comes or goes, every sidebar shows the registered names, with *)
(* the badge of those that have a key.                                      *)
SidebarRight(t) ==
  users[t] = {<<Nick[t], TRUE>>} \cup
    {<<x, key[x] # NoKey>> : x \in {y \in Names \ {Nick[t], nick[t]} : holder[y] # Nobody}}
SidebarsConverge == <>[](\A t \in Watching : tui[t] = "on" => SidebarRight(t))

-----------------------------------------------------------------------------
(* What the code says of itself and does not keep.                          *)

(* bin/client.rs:243: the /users sent after the nickname is a query, never  *)
(* an answer to the prompt.                                                 *)
QueryIsNoName == holder["/users"] = Nobody

====

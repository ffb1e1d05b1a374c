------------------------------- MODULE SealedMail -------------------------------
(***************************************************************************)
(* What a user may expect of encrypted whispers: one that has been entered *)
(* waits until a key is known, all that wait for a name are then sealed    *)
(* with the one key, in the order they were entered, and only the owner of *)
(* that key ever reads them, each at most once and in that order.  What    *)
(* was not sealed here may be read too, it has the number 0.               *)
(***************************************************************************)
EXTENDS Integers, Sequences

CONSTANTS
  Terminal, Names,
  Key      \* a terminal is its own key; other keys are nobody's

VARIABLES
  asked,   \* asked[t][x]: whispers t was told to send to x
  sealed,  \* sealed[t][x]: the keys of those that are sealed
  read     \* read[u]: the whispers u has read

vars == <<asked, sealed, read>>

Init ==
  /\ asked = [t \in Terminal |-> [x \in Names |-> 0]]
  /\ sealed = [t \in Terminal |-> [x \in Names |-> <<>>]]
  /\ read = [u \in Terminal |-> <<>>]

Enter(t, x) == asked' = [asked EXCEPT ![t][x] = @ + 1]

Queue(t, x) == Enter(t, x) /\ UNCHANGED <<sealed, read>>

(* All that is not sealed yet, with the key k.                              *)
SealAll(t, x, k) ==
  /\ sealed' = [sealed EXCEPT ![t][x] =
                  @ \o [i \in 1..(asked'[t][x] - Len(@)) |-> k]]
  /\ UNCHANGED read

Open(u, t, x, nr) ==
  /\ nr \in DOMAIN sealed[t][x] /\ sealed[t][x][nr] = u
  /\ \A i \in DOMAIN read[u] :
       read[u][i].by = t /\ read[u][i].to = x => read[u][i].nr < nr
  /\ read' = [read EXCEPT ![u] = Append(@, [by |-> t, to |-> x, nr |-> nr])]
  /\ UNCHANGED <<asked, sealed>>

OpenOther(u, t, x) ==
  /\ read' = [read EXCEPT ![u] = Append(@, [by |-> t, to |-> x, nr |-> 0])]
  /\ UNCHANGED <<asked, sealed>>

Next ==
  \E t \in Terminal, x \in Names :
    \/ Queue(t, x)
    \/ \E k \in Key : (Enter(t, x) \/ UNCHANGED asked) /\ SealAll(t, x, k)
    \/ \E u \in Terminal :
         OpenOther(u, t, x) \/ \E nr \in DOMAIN sealed[t][x] : Open(u, t, x, nr)

Spec == Init /\ [][Next]_vars

====

------------------------------- MODULE NameTable -------------------------------
(***************************************************************************)
(* What the servers' tables promise about the sessions of their own nodes: *)
(* a free name is claimed by a session of that node that holds none, a     *)
(* held name is released before anybody else has it, and the death of a    *)
(* node frees all its names.  Nothing is promised between nodes.           *)
(***************************************************************************)
CONSTANTS
  Node, Session, Name,
  Host,   \* the node of a session
  Free    \* no session

VARIABLE own    \* own[n][x]: the session of n that holds the name x, or Free

Init == own = [n \in Node |-> [x \in Name |-> Free]]

Claim(n, x, s) ==
  /\ Host[s] = n
  /\ \A p \in Node, z \in Name : own[p][z] # s
  /\ own[n][x] = Free
  /\ own' = [own EXCEPT ![n][x] = s]

Release(n, x) ==
  /\ own[n][x] # Free
  /\ own' = [own EXCEPT ![n][x] = Free]

Restart(n) == own' = [own EXCEPT ![n] = [x \in Name |-> Free]]

Next ==
  \E n \in Node :
    \/ \E x \in Name : Release(n, x) \/ \E s \in Session : Claim(n, x, s)
    \/ Restart(n)

Spec == Init /\ [][Next]_own

====

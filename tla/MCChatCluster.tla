----------------------------- MODULE MCChatCluster -----------------------------
(* Instances of ChatCluster for TLC: the nodes, sessions and names are model  *)
(* values; the functions on sessions are given here, one set per question.    *)
EXTENDS ChatProperties

CONSTANTS n1, n2, n3, a, b, c, ann, bea, k1, k2

(* a and c connect to n1, b to n2 *)
TwoHosts == [s \in Session |-> IF s = b THEN n2 ELSE n1]

(* everybody wants the name ann *)
WishX == [s \in Session |-> {ann}]
(* b is bea, everybody else ann *)
WishApart == [s \in Session |-> IF s = b THEN {bea} ELSE {ann}]
(* all contend for ann; c on n1 may also be bea *)
WishContended == [s \in Session |-> IF s = c THEN {ann, bea} ELSE {ann}]
(* everybody may be ann, b also bea *)
WishEither == [s \in Session |-> IF s = b THEN {ann, bea} ELSE {ann}]

NoKeys == [s \in Session |-> {}]
(* a and c have a key of their own, b has none *)
OwnKey == [s \in Session |-> CASE s = a -> {k1} [] s = b -> {} [] s = c -> {k2}]

Silent == [s \in Session |-> {}]
SayerAndKicker == [s \in Session |-> IF s = a THEN {"say"} ELSE {"kick"}]
Meddler == [s \in Session |-> IF s = b THEN {"kick", "tell", "etell"} ELSE {}]
KeyUsers ==
  [s \in Session |-> CASE s = a -> {"pubkey"} [] s = b -> {"getkey"} [] s = c -> {}]
Everyday ==
  [s \in Session |-> {"say", "kick"} \cup (IF s = b THEN {"etell"} ELSE {"users", "tell"})]

AllLinked == {{n, p} : n, p \in Node} \ {{n} : n \in Node}

====

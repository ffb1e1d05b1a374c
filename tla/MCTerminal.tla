------------------------------- MODULE MCTerminal -------------------------------
(* Instances of TerminalClient for TLC.                                       *)
EXTENDS TerminalProperties

CONSTANTS a, b, c, ann, bea

(* a is ann; b and c both want to be bea *)
OneAnn == [t \in Terminal |-> IF t = a THEN ann ELSE bea]

(* ann whispers to bea; b does one thing of many: it publishes nonsense or   *)
(* the key of c, talks, quits, kicks whoever is called "/users", which may   *)
(* be b or c, or sends them a ciphertext it types by hand and c can open     *)
Whisperer ==
  [t \in Terminal |->
     CASE t = a -> {[cmd |-> "/tell", to |-> bea]}
       [] t = b -> [cmd : {"/pubkey"}, key : {Garbled, c}]
                   \cup {[cmd |-> "text", to |-> bea, key |-> NoKey],
                         [cmd |-> "/quit"], [cmd |-> "/kick", to |-> "/users"],
                         [cmd |-> "/etell", to |-> "/users", key |-> c]}
       [] t = c -> {}]
TwoWhispers == [t \in Terminal |-> CASE t = a -> 2 [] t = b -> 1 [] t = c -> 0]

(* the timer of b fires at any time, those of the others are left out        *)
OneTimer == [t \in Terminal |-> IF t = b THEN 1 ELSE 0]

(* nobody types anything *)
Silent == [t \in Terminal |-> {}]
Never == [t \in Terminal |-> 0]

====

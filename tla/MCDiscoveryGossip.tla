--------------------------- MODULE MCDiscoveryGossip ---------------------------
(* Instances of DiscoveryGossip for TLC.                                      *)
EXTENDS DiscoveryGossip

CONSTANTS n1, n2, n3

(* n1 is the one seed; it is configured with no other node *)
OneSeed == [n \in Node |-> IF n = n1 THEN {} ELSE {n1}]

====

------------------------------ MODULE MCGossip ------------------------------
(* Instances of Gossip for TLC. *)
EXTENDS Gossip

CONSTANTS n1, n2, n3

\* n1 writes; the others only learn.
OneWriter(max) == [n \in Node |-> IF n = n1 THEN max ELSE 0]
Writes1 == OneWriter(1)
Writes2 == OneWriter(2)
Writes5 == OneWriter(5)

\* n2 joins n1 and n3 joins n2: what n1 writes reaches n3 directly or through n2.
Chain == [n \in Node |-> CASE n = n1 -> {} [] n = n2 -> {n1} [] n = n3 -> {n2}]
=============================================================================

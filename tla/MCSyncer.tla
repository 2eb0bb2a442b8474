------------------------------ MODULE MCSyncer ------------------------------
(* Instances of Syncer for TLC. *)
EXTENDS Syncer

CONSTANTS n1, n2, e1

Keys == {proxy_addr, admin_addr, e1}
Values == {Addr} \cup 1..MaxListeners

\* n1 has upstreams; n2 only learns.
OneWriter(max) == [n \in Node |-> IF n = n1 THEN max ELSE 0]
Writes7 == OneWriter(7)
Writes8 == OneWriter(8)

\* n2 joins n1.
Pair == [n \in Node |-> IF n = n2 THEN {n1} ELSE {}]
=============================================================================

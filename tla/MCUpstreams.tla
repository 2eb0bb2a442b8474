---------------------------- MODULE MCUpstreams -----------------------------
(* Instances of Upstreams for TLC. *)
EXTENDS Upstreams

CONSTANTS u1, u2, r1, r2, e1

SameEndpoint == [u \in Conn |-> e1]
=============================================================================

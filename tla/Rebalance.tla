----------------------------- MODULE Rebalance ------------------------------
(***************************************************************************)
(* How many of its upstream connections a node closes when it has too many *)
(* (Server.Rebalance and shedSessions in server/upstream/server.go).       *)
(*                                                                         *)
(* Threshold and ShedRate are fractions of Denominator; the code's floats  *)
(* are taken to be exact.                                                  *)
(***************************************************************************)
EXTENDS Integers, FiniteSetsExt

CONSTANTS Threshold, ShedRate, Denominator, MinConns

ASSUME RateAssumption ==
    /\ Denominator \in Nat \ {0}
    /\ Threshold \in Nat \ {0}  \* 0 disables rebalancing
    /\ ShedRate \in 0..Denominator
    /\ MinConns \in Nat

\* Mutant: a node at the average counts as unbalanced.
UnbalancedAtAverage(local, avg) == local >= avg

\* balance >= Threshold, where balance is (local - avg) / avg, or infinite.
Unbalanced(local, avg) ==
    avg = 0 \/ (local - avg) * Denominator >= Threshold * avg

\* The number passed to shedSessions: local * balance, unless that exceeds the
\* shed rate.
Shedding(local, avg) ==
    LET rate == avg * ShedRate  \* times 1 / Denominator
    IN  IF avg = 0 \/ local * (local - avg) * Denominator > rate * avg
        THEN (rate + Denominator - 1) \div Denominator
        ELSE (local * (local - avg)) \div avg

\* How many of the sessions shedSessions(n) closes: it adds one before it
\* compares with n.
Closed(n, sessions) == Min({sessions, Max({n, 1})})

Rebalances(local, avg) ==
    /\ local # 0 /\ local >= MinConns
    /\ Unbalanced(local, avg)
=============================================================================

---------------------------- MODULE MCMembership ----------------------------
(* Instances of Membership for TLC. *)
EXTENDS Membership, TLC

CONSTANTS n1, n2, n3

\* n1 and n2 watch n3, and n2 may go without a report for long, so that it is
\* slower to judge.  A check may race with n1's first report.
TwoObservers == {<<n1, n3>>, <<n2, n3>>}
SlowSecond == (<<n1, n3>> :> {0, 1}) @@ (<<n2, n3>> :> {7})
=============================================================================

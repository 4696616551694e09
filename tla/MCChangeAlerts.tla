---------------------------- MODULE MCChangeAlerts ----------------------------
(***************************************************************************)
(* One listing whose price comes, goes and comes back: 1 and 2 observe the *)
(* same price at different times, and 3 doubts it from a source that is    *)
(* trusted less.  Two threads serve one spec, an alert a run.              *)
(***************************************************************************)
EXTENDS ChangeAlerts, TLC

CONSTANTS l1, price, low, high, s1, r1, r2

OneListing == {l1}
OneField == {price}
TwoValues == {low, high}
ThreeFacts == 1..3
OneSpec == {s1}
TwoRunners == {r1, r2}
Since02 == {0, 2}

Observed(v, trust, at) ==
  [field |-> price, value |-> v, trust |-> trust, at |-> at, confidence |-> 1, usable |-> TRUE]

MCFactOf == <<Observed(low, 1, 1), Observed(low, 1, 3), Observed(high, 0, 4)>>

MCBatches == [l \in Listings |-> {{}, {1}, {1, 3}, {2}}]
===============================================================================

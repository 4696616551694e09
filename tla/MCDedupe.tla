--------------------------------- MODULE MCDedupe ---------------------------------
(***************************************************************************)
(* Four listings of two buildings, one of them observed twice.  1 and 3    *)
(* are different units (0.6, on the boundary of review), 2 and 4 do not    *)
(* say which unit they are, and the second observation of 1 moves it.      *)
(***************************************************************************)
EXTENDS Dedupe, TLC

CONSTANTS elm, oak, words

Seen(id, addresses, units, prices) ==
  [id |-> id, addresses |-> addresses, units |-> units, prices |-> prices]

One == Seen(1, {elm}, {1}, {10})
OneMoved == Seen(1, {oak}, {1}, {words})
Two == Seen(2, {elm}, {}, {12, words})
Three == Seen(3, {elm, oak}, {2}, {30})
Four == Seen(4, {oak}, {}, {})
Listings == {One, OneMoved, Two, Three, Four}

MCInputs == {in \in UNION {[1..n -> Listings] : n \in 1..4} :
               \A j, k \in DOMAIN in :
                 /\ in[j] = in[k] => j = k
                 /\ in[j] = One /\ in[k] = OneMoved => j < k}
MCOverrides == {[pair |-> <<2, 3>>, score |-> <<1, 2>>]}
===============================================================================

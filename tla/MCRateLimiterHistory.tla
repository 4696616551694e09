-------------------------- MODULE MCRateLimiterHistory --------------------------
(***************************************************************************)
(* A domain that takes one request at a time and one that takes two, asked *)
(* by the same two workers.  Delays are long enough for a window to end in *)
(* the middle of a pause and for a pause to outlast a request.             *)
(***************************************************************************)
EXTENDS RateLimiterHistory, TLC

CONSTANTS serial, wide, w1, w2

MCDomains == {serial, wide}
MCCallers == {w1, w2}

SerialLimits ==
  [ cap |-> 1, minDelay |-> 1, errorBackoff |-> 2, maxBackoff |-> 3,
    budget |-> 1, window |-> 3 ]
WideLimits ==
  [ cap |-> 2, minDelay |-> 1, errorBackoff |-> 2, maxBackoff |-> 3,
    budget |-> 2, window |-> 2 ]

MCLimits == [d \in Domains |-> IF d = wide THEN WideLimits ELSE SerialLimits]
===============================================================================

----------------------------- MODULE DomainLimits -----------------------------
(***************************************************************************)
(* The arithmetic of DomainRateLimiter (services/acquisition/              *)
(* rate_limiter.py): what each of its methods computes from the            *)
(* DomainState and the DomainPolicy of one domain.                         *)
(*                                                                         *)
(* The code keeps instants and compares them with the clock; only the      *)
(* differences matter, so a state here holds the time LEFT until each      *)
(* instant, 0 once it is past.  Advancing the clock lowers the timers.     *)
(*   delayLeft     last_request_at + min_delay_seconds - now               *)
(*   cooldownLeft  cooldown_until - now              (None: 0)             *)
(*   windowLeft    window_start + window_seconds - now  (None: 0)          *)
(***************************************************************************)
EXTENDS Integers

CONSTANTS Domains,   \* the domains tasks are addressed to
          Limits     \* the DomainPolicy of each domain, set before work starts

DomainPolicy ==
  [ cap: Nat, minDelay: Nat, errorBackoff: Nat, maxBackoff: Nat,
    budget: Nat, window: Nat ]

ASSUME LimitsAssumption == Limits \in [Domains -> DomainPolicy]

DomainState ==
  [ inflight: Nat, delayLeft: Nat, errors: Nat, cooldownLeft: Nat,
    windowLeft: Nat, windowCount: Nat ]

\* state_for: the state of a domain nobody has asked about yet.
NewDomainState ==
  [ inflight |-> 0, delayLeft |-> 0, errors |-> 0, cooldownLeft |-> 0,
    windowLeft |-> 0, windowCount |-> 0 ]

Later(a, b) == IF a >= b THEN a ELSE b
Less(n) == IF n > 0 THEN n - 1 ELSE 0

\* Mutant: the count starts afresh at every call.
RefreshedAlways(d, s) ==
  [s EXCEPT !.windowLeft = Limits[d].window, !.windowCount = 0]

\* _refresh_window: open a window if there is none or the last one is over.
Refreshed(d, s) ==
  IF s.windowLeft > 0
  THEN s
  ELSE [s EXCEPT !.windowLeft = Limits[d].window, !.windowCount = 0]

\* Mutant: the minimum delay is forgotten.
WaitForNoDelay(d, s) ==
  Later(s.cooldownLeft,
        IF s.windowCount >= Limits[d].budget THEN s.windowLeft ELSE 0)

\* next_available_time, less now, of a state whose window is refreshed.
\* The concurrency cap plays no part in it.
WaitFor(d, s) ==
  Later(Later(s.delayLeft, s.cooldownLeft),
        IF s.windowCount >= Limits[d].budget THEN s.windowLeft ELSE 0)

\* Mutant: one request too many.
CanAcquireOver(d, s) == s.inflight <= Limits[d].cap /\ WaitFor(d, s) = 0

\* can_acquire, of a state whose window is refreshed.
CanAcquire(d, s) == s.inflight < Limits[d].cap /\ WaitFor(d, s) = 0

\* The part of acquire that grants the request.
Admitted(d, s) ==
  [s EXCEPT !.inflight = @ + 1, !.delayLeft = Limits[d].minDelay,
            !.windowCount = @ + 1]

\* The pause after the n-th error in a row: the base doubled for every
\* error before it, and at most maxBackoff.
Backoff(d, n) ==
  LET doubled == Limits[d].errorBackoff * 2^(n - 1)
  IN  IF doubled \in 0..Limits[d].maxBackoff THEN doubled
      ELSE Limits[d].maxBackoff

\* register_error.
Errored(d, s) ==
  [s EXCEPT !.errors = @ + 1, !.cooldownLeft = Backoff(d, s.errors + 1)]

\* Mutant: only a success hands the slot back.
ReleasedOnSuccess(s, success) ==
  [s EXCEPT !.inflight = IF success THEN Less(@) ELSE @,
            !.errors = IF success THEN 0 ELSE @,
            !.cooldownLeft = IF success THEN 0 ELSE @]

\* Mutant: a failure forgets the cooldown, too.
ReleasedAfresh(s, success) ==
  [s EXCEPT !.inflight = Less(@), !.errors = 0, !.cooldownLeft = 0]

\* release: a success forgets the errors AND the cooldown, whoever caused it.
Released(s, success) ==
  [s EXCEPT !.inflight = Less(@),
            !.errors = IF success THEN 0 ELSE @,
            !.cooldownLeft = IF success THEN 0 ELSE @]

\* One unit of time passes.
Elapsed(s) ==
  [s EXCEPT !.delayLeft = Less(@), !.cooldownLeft = Less(@),
            !.windowLeft = Less(@)]
===============================================================================

-------------------------- MODULE RateLimiterHistory --------------------------
(***************************************************************************)
(* RateLimiter with an observer that sits at the target domain: it times   *)
(* the requests that arrive and the errors it answers, and never looks at  *)
(* the limiter's own counters.  The politeness rules are stated on what    *)
(* the observer sees.                                                      *)
(***************************************************************************)
EXTENDS RateLimiter, FiniteSetsExt

CONSTANT MaxErrors   \* bound: errors in a row the target answers

VARIABLES sinceStart, \* time since the last request to a domain, up to minDelay
          quiet,      \* time left of the pause its last error asked for
          recent      \* requests it saw 0, 1, ... window - 1 ago
hist == <<sinceStart, quiet, recent>>
hVars == <<limiter, holding, sinceStart, quiet, recent>>

Ages(d) == 0..(Limits[d].window - 1)

(***************************************************************************)
(* The limiter and what the observer has seen of it are well typed.        *)
(***************************************************************************)
HTypeOK ==
  /\ RLTypeOK
  /\ sinceStart \in [Domains -> Nat]
  /\ quiet \in [Domains -> Nat]
  /\ DOMAIN recent = Domains
  /\ \A d \in Domains : recent[d] \in [Ages(d) -> Nat]

HInit ==
  /\ RLInit
  /\ sinceStart = [d \in Domains |-> Limits[d].minDelay]
  /\ quiet = [d \in Domains |-> 0]
  /\ recent = [d \in Domains |-> [a \in Ages(d) |-> 0]]

NoteRequest(d) ==
  /\ sinceStart' = [sinceStart EXCEPT ![d] = 0]
  /\ recent' = [recent EXCEPT ![d] =
                  [a \in Ages(d) |-> IF a = 0 THEN @[a] + 1 ELSE @[a]]]
  /\ UNCHANGED quiet

HQuery(d) == Query(d) /\ UNCHANGED hist

HAdmit(c, d) == Acquire(c, d) /\ holding'[c] = d /\ NoteRequest(d)

HRefuse(c, d) == Acquire(c, d) /\ holding'[c] # d /\ UNCHANGED hist

HRelease(c, d, success) == Release(c, d, success) /\ UNCHANGED hist

HBackOff(c, d) ==
  /\ limiter[d].errors < MaxErrors
  /\ BackOff(c, d)
  /\ quiet' = [quiet EXCEPT ![d] = Backoff(d, limiter[d].errors + 1)]
  /\ UNCHANGED <<sinceStart, recent>>

\* Nothing reaches the target, though the limiter counts it as a request.
HTouch(c, d) == Touch(c, d) /\ UNCHANGED hist

HTick ==
  /\ Tick
  /\ sinceStart' = [d \in Domains |->
                      IF sinceStart[d] < Limits[d].minDelay
                      THEN sinceStart[d] + 1 ELSE sinceStart[d]]
  /\ quiet' = [d \in Domains |-> Less(quiet[d])]
  /\ recent' = [d \in Domains |->
                  [a \in Ages(d) |-> IF a = 0 THEN 0 ELSE recent[d][a - 1]]]

HNext ==
  \/ \E d \in Domains : HQuery(d)
  \/ \E c \in Callers, d \in Domains :
       \/ HAdmit(c, d)
       \/ HRefuse(c, d)
       \/ \E success \in BOOLEAN : HRelease(c, d, success)
       \/ HBackOff(c, d)
       \/ HTouch(c, d)
  \/ HTick

HSpec == HInit /\ [][HNext]_hVars

\* The step sends a request to d.
Requested(d) == \E c \in Callers : holding'[c] = d /\ holding[c] # d

(***************************************************************************)
(* T2-RATE-002: two requests to a domain are at least its minimum delay    *)
(* apart, whichever workers send them and however they overlap.            *)
(***************************************************************************)
RequestsSpaced ==
  [][\A d \in Domains : Requested(d) => sinceStart[d] >= Limits[d].minDelay]_hVars

(***************************************************************************)
(* T2-RATE-004, as an outsider can measure it: the limiter's windows do    *)
(* not slide, so any span of one window length meets at most two of them.  *)
(***************************************************************************)
SpanBudget ==
  \A d \in Domains :
    MapThenSumSet(LAMBDA a : recent[d][a], Ages(d)) <= 2 * Limits[d].budget

\* No request to d begins in a pause.
Quiet(d) == quiet[d] > 0 => ~Requested(d)

(***************************************************************************)
(* T2-RATE-003 / T2-ERR-003: after an error the domain is left alone until *)
(* the pause is over.  Stated for the domains that allow one request at a  *)
(* time, where it holds; a late success cannot then cancel the pause.      *)
(***************************************************************************)
CooldownKeptWhenSerial ==
  [][\A d \in Domains : Limits[d].cap = 1 => Quiet(d)]_hVars
===============================================================================

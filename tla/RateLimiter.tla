------------------------------ MODULE RateLimiter ------------------------------
(***************************************************************************)
(* DomainRateLimiter as its callers see it.  A caller (a worker thread)    *)
(* asks for a slot of a domain, performs its request, and hands the slot   *)
(* back; the scheduler asks when a slot will be free.  Each method is one  *)
(* step: the code between two calls of the request handler performs no I/O.*)
(***************************************************************************)
EXTENDS DomainLimits, FiniteSets

CONSTANTS Callers,   \* the workers
          NoDomain   \* what an idle caller holds

ASSUME CallersAssumption == IsFiniteSet(Callers) /\ NoDomain \notin Domains

VARIABLES limiter,   \* the DomainState of every domain
          holding    \* the domain whose slot each caller occupies
rlVars == <<limiter, holding>>

(***************************************************************************)
(* The limiter and its callers are well typed: no counter and no timer is  *)
(* ever negative.                                                          *)
(***************************************************************************)
RLTypeOK ==
  /\ limiter \in [Domains -> DomainState]
  /\ holding \in [Callers -> Domains \cup {NoDomain}]

RLInit ==
  /\ limiter = [d \in Domains |-> NewDomainState]
  /\ holding = [c \in Callers |-> NoDomain]

\* next_available_time called by itself, by the scheduler: it may open a window.
Query(d) ==
  /\ limiter' = [limiter EXCEPT ![d] = Refreshed(d, @)]
  /\ UNCHANGED holding

\* acquire: granted, or refused having at most opened a window.
Acquire(c, d) ==
  /\ holding[c] = NoDomain
  /\ LET s == Refreshed(d, limiter[d])
     IN  \/ /\ CanAcquire(d, s)
            /\ limiter' = [limiter EXCEPT ![d] = Admitted(d, s)]
            /\ holding' = [holding EXCEPT ![c] = d]
         \/ /\ ~CanAcquire(d, s)
            /\ limiter' = [limiter EXCEPT ![d] = s]
            /\ UNCHANGED holding

\* release, after a success or after a failure that calls for no pause.
Release(c, d, success) ==
  /\ holding[c] = d
  /\ limiter' = [limiter EXCEPT ![d] = Released(@, success)]
  /\ holding' = [holding EXCEPT ![c] = NoDomain]

\* register_error and then release, after a failure that calls for a pause.
BackOff(c, d) ==
  /\ holding[c] = d
  /\ limiter' = [limiter EXCEPT ![d] = Released(Errored(d, @), FALSE)]
  /\ holding' = [holding EXCEPT ![c] = NoDomain]

\* A task that needs no request: acquire and release in one go.
Touch(c, d) ==
  /\ holding[c] = NoDomain
  /\ LET s == Refreshed(d, limiter[d])
     IN  /\ CanAcquire(d, s)
         /\ limiter' = [limiter EXCEPT ![d] = Released(Admitted(d, s), TRUE)]
  /\ UNCHANGED holding

Tick ==
  /\ limiter' = [d \in Domains |-> Elapsed(limiter[d])]
  /\ UNCHANGED holding

RLNext ==
  \/ \E d \in Domains : Query(d)
  \/ \E c \in Callers, d \in Domains :
       \/ Acquire(c, d)
       \/ \E success \in BOOLEAN : Release(c, d, success)
       \/ BackOff(c, d)
       \/ Touch(c, d)
  \/ Tick

RLSpec == RLInit /\ [][RLNext]_rlVars

Holders(d) == {c \in Callers : holding[c] = d}

(***************************************************************************)
(* Every slot is accounted for: inflight is exactly the number of callers  *)
(* between acquire and release, so neither the clamp of release at 0 nor a *)
(* missed release ever distorts it ...                                     *)
(***************************************************************************)
SlotsExact ==
  \A d \in Domains : limiter[d].inflight = Cardinality(Holders(d))

(***************************************************************************)
(* ... and a domain never has more requests in flight than its cap         *)
(* (T2-RATE-001), nor more admissions counted in a window than its budget  *)
(* (a window of length 0 restarts at every call and counts nothing).       *)
(***************************************************************************)
WithinLimits ==
  \A d \in Domains :
    /\ Cardinality(Holders(d)) <= Limits[d].cap
    /\ Limits[d].window > 0 => limiter[d].windowCount <= Limits[d].budget
===============================================================================

---------------------- MODULE RateLimiterHistory_proofs ------------------------
(***************************************************************************)
(* For any domains, callers and limits: the slots of the rate limiter are  *)
(* accounted for, and the target domain observes the politeness it was     *)
(* promised.                                                               *)
(***************************************************************************)
EXTENDS RateLimiterHistory, FiniteSetTheorems, WellFoundedInduction, TLAPS

(***************************************************************************)
(* What the methods of DomainRateLimiter do to a DomainState.              *)
(***************************************************************************)
LEMMA LimitsTyped ==
  ASSUME NEW d \in Domains
  PROVE  /\ Limits[d] \in DomainPolicy
         /\ Limits[d].cap \in Nat
         /\ Limits[d].minDelay \in Nat
         /\ Limits[d].maxBackoff \in Nat
         /\ Limits[d].budget \in Nat
         /\ Limits[d].window \in Nat
  BY LimitsAssumption DEF DomainPolicy

\* The backoff is a natural number no larger than its ceiling, for whatever
\* the doubling computes.
LEMMA BackoffBounded ==
  ASSUME NEW d \in Domains, NEW n
  PROVE  /\ Backoff(d, n) \in Nat
         /\ Backoff(d, n) <= Limits[d].maxBackoff
<1>1. Limits[d].maxBackoff \in Nat
  BY LimitsTyped
<1> DEFINE e == Limits[d].errorBackoff * 2^(n - 1)
<1> HIDE DEF e
<1>2. Backoff(d, n) = IF e \in 0..Limits[d].maxBackoff THEN e
                      ELSE Limits[d].maxBackoff
  BY DEF Backoff, e
<1>3. QED BY <1>1, <1>2

LEMMA LessNat ==
  ASSUME NEW n \in Nat
  PROVE  Less(n) \in Nat
  BY DEF Less

\* No method leaves the type, and each touches inflight and the timers only
\* as its name says.
LEMMA RefreshedState ==
  ASSUME NEW d \in Domains, NEW s \in DomainState
  PROVE  /\ Refreshed(d, s) \in DomainState
         /\ Refreshed(d, s).inflight = s.inflight
         /\ Refreshed(d, s).delayLeft = s.delayLeft
         /\ Refreshed(d, s).cooldownLeft = s.cooldownLeft
         /\ s.windowCount <= Limits[d].budget
              => Refreshed(d, s).windowCount <= Limits[d].budget
         /\ Limits[d].window > 0 => Refreshed(d, s).windowLeft > 0
<1>1. Limits[d].window \in Nat /\ Limits[d].budget \in Nat
  BY LimitsTyped
<1>2. Refreshed(d, s) \in DomainState
  BY <1>1 DEF Refreshed, DomainState
<1>3. s.windowCount <= Limits[d].budget
        => Refreshed(d, s).windowCount <= Limits[d].budget
  BY <1>1 DEF Refreshed, DomainState
<1>4. Limits[d].window > 0 => Refreshed(d, s).windowLeft > 0
  BY <1>1 DEF Refreshed, DomainState
<1>5. QED BY <1>2, <1>3, <1>4 DEF Refreshed, DomainState

LEMMA GrantedState ==
  ASSUME NEW d \in Domains, NEW s \in DomainState, CanAcquire(d, s)
  PROVE  /\ s.inflight < Limits[d].cap
         /\ s.delayLeft = 0
         /\ s.cooldownLeft = 0
         /\ s.windowLeft > 0 => s.windowCount < Limits[d].budget
<1>1. Limits[d].budget \in Nat
  BY LimitsTyped
<1>2. QED BY <1>1 DEF CanAcquire, WaitFor, Later, DomainState

LEMMA AdmittedState ==
  ASSUME NEW d \in Domains, NEW s \in DomainState
  PROVE  /\ Admitted(d, s) \in DomainState
         /\ Admitted(d, s).inflight = s.inflight + 1
         /\ Admitted(d, s).delayLeft = Limits[d].minDelay
         /\ Admitted(d, s).cooldownLeft = s.cooldownLeft
         /\ Admitted(d, s).windowCount = s.windowCount + 1
         /\ Admitted(d, s).windowLeft = s.windowLeft
<1>1. /\ Limits[d].minDelay \in Nat
      /\ s.inflight + 1 \in Nat
      /\ s.windowCount + 1 \in Nat
  BY LimitsTyped DEF DomainState
<1>2. Admitted(d, s) \in DomainState
  BY <1>1 DEF Admitted, DomainState
<1>3. QED BY <1>2 DEF Admitted, DomainState

LEMMA ReleasedState ==
  ASSUME NEW s \in DomainState, NEW success \in BOOLEAN
  PROVE  /\ Released(s, success) \in DomainState
         /\ Released(s, success).inflight = Less(s.inflight)
         /\ Released(s, success).delayLeft = s.delayLeft
         /\ Released(s, success).cooldownLeft =
              IF success THEN 0 ELSE s.cooldownLeft
         /\ Released(s, success).windowCount = s.windowCount
         /\ Released(s, success).windowLeft = s.windowLeft
<1>1. Less(s.inflight) \in Nat
  BY LessNat DEF DomainState
<1>2. QED BY <1>1 DEF Released, DomainState

LEMMA ErroredState ==
  ASSUME NEW d \in Domains, NEW s \in DomainState
  PROVE  /\ Errored(d, s) \in DomainState
         /\ Errored(d, s).inflight = s.inflight
         /\ Errored(d, s).delayLeft = s.delayLeft
         /\ Errored(d, s).cooldownLeft = Backoff(d, s.errors + 1)
         /\ Errored(d, s).windowCount = s.windowCount
         /\ Errored(d, s).windowLeft = s.windowLeft
<1>1. Backoff(d, s.errors + 1) \in Nat /\ s.errors + 1 \in Nat
  BY BackoffBounded DEF DomainState
<1>2. Errored(d, s) \in DomainState
  BY <1>1 DEF Errored, DomainState
<1>3. QED BY <1>2 DEF Errored, DomainState

LEMMA ElapsedState ==
  ASSUME NEW s \in DomainState
  PROVE  /\ Elapsed(s) \in DomainState
         /\ Elapsed(s).inflight = s.inflight
         /\ Elapsed(s).delayLeft = Less(s.delayLeft)
         /\ Elapsed(s).cooldownLeft = Less(s.cooldownLeft)
         /\ Elapsed(s).windowCount = s.windowCount
         /\ Elapsed(s).windowLeft = Less(s.windowLeft)
<1>1. /\ Less(s.delayLeft) \in Nat
      /\ Less(s.cooldownLeft) \in Nat
      /\ Less(s.windowLeft) \in Nat
  BY LessNat DEF DomainState
<1>2. QED BY <1>1 DEF Elapsed, DomainState

LEMMA NewState ==
  /\ NewDomainState \in DomainState
  /\ NewDomainState.inflight = 0
  /\ NewDomainState.delayLeft = 0
  /\ NewDomainState.cooldownLeft = 0
  /\ NewDomainState.windowCount = 0
  /\ NewDomainState.windowLeft = 0
  BY DEF NewDomainState, DomainState

-------------------------------------------------------------------------------
(***************************************************************************)
(* What a step does to a slot count: it moves by one with the one caller   *)
(* that takes or returns the slot.                                         *)
(***************************************************************************)
LEMMA HoldersFinite ==
  ASSUME NEW d
  PROVE  /\ IsFiniteSet(Holders(d))
         /\ Cardinality(Holders(d)) \in Nat
<1>1. Holders(d) \subseteq Callers
  BY DEF Holders
<1>2. QED BY <1>1, CallersAssumption, FS_Subset, FS_CardinalityType

LEMMA HolderJoins ==
  ASSUME RLTypeOK, NEW c \in Callers, NEW d \in Domains,
         holding[c] = NoDomain, holding' = [holding EXCEPT ![c] = d]
  PROVE  /\ Cardinality(Holders(d)') = Cardinality(Holders(d)) + 1
         /\ \A e \in Domains \ {d} : Holders(e)' = Holders(e)
<1>1. c \notin Holders(d) /\ NoDomain \notin Domains
  BY CallersAssumption DEF Holders
<1>2. Holders(d)' = Holders(d) \cup {c}
  BY DEF Holders, RLTypeOK
<1>3. Cardinality(Holders(d) \cup {c}) = Cardinality(Holders(d)) + 1
  BY <1>1, HoldersFinite, FS_AddElement
<1>4. \A e \in Domains \ {d} : Holders(e)' = Holders(e)
  BY <1>1 DEF Holders, RLTypeOK
<1>5. QED BY <1>2, <1>3, <1>4

LEMMA HolderLeaves ==
  ASSUME RLTypeOK, NEW c \in Callers, NEW d \in Domains,
         holding[c] = d, holding' = [holding EXCEPT ![c] = NoDomain]
  PROVE  /\ Cardinality(Holders(d)) > 0
         /\ Cardinality(Holders(d)') = Cardinality(Holders(d)) - 1
         /\ \A e \in Domains \ {d} : Holders(e)' = Holders(e)
<1>1. c \in Holders(d) /\ NoDomain \notin Domains
  BY CallersAssumption DEF Holders
<1>2. Holders(d)' = Holders(d) \ {c}
  BY <1>1 DEF Holders, RLTypeOK
<1>3. Cardinality(Holders(d) \ {c}) = Cardinality(Holders(d)) - 1
  BY <1>1, HoldersFinite, FS_RemoveElement
<1>4. Cardinality(Holders(d)) # 0
  BY <1>1, HoldersFinite, FS_EmptySet
<1>5. \A e \in Domains \ {d} : Holders(e)' = Holders(e)
  BY <1>1 DEF Holders, RLTypeOK
<1>6. QED BY <1>2, <1>3, <1>4, <1>5, HoldersFinite

-------------------------------------------------------------------------------
(***************************************************************************)
(* Every reachable state of the limiter is well typed.                     *)
(***************************************************************************)
LEMMA RLTypeInit == RLInit => RLTypeOK
  BY NewState DEF RLInit, RLTypeOK

LEMMA RLTypeStep == RLTypeOK /\ [RLNext]_rlVars => RLTypeOK'
<1> SUFFICES ASSUME RLTypeOK, [RLNext]_rlVars PROVE RLTypeOK'
  OBVIOUS
<1>1. ASSUME NEW d \in Domains PROVE limiter[d] \in DomainState
  BY DEF RLTypeOK
<1>2. ASSUME NEW d \in Domains, Query(d) PROVE RLTypeOK'
  <2>1. Refreshed(d, limiter[d]) \in DomainState
    BY <1>1, RefreshedState
  <2>2. QED BY <1>2, <2>1 DEF Query, RLTypeOK
<1>3. ASSUME NEW c \in Callers, NEW d \in Domains, Acquire(c, d)
      PROVE RLTypeOK'
  <2> DEFINE s == Refreshed(d, limiter[d])
  <2>1. s \in DomainState /\ Admitted(d, s) \in DomainState
    BY <1>1, RefreshedState, AdmittedState
  <2> HIDE DEF s
  <2>2. /\ limiter' \in {[limiter EXCEPT ![d] = s],
                         [limiter EXCEPT ![d] = Admitted(d, s)]}
        /\ holding' \in {holding, [holding EXCEPT ![c] = d]}
    BY <1>3 DEF Acquire, s
  <2>3. QED BY <2>1, <2>2 DEF RLTypeOK
<1>4. ASSUME NEW c \in Callers, NEW d \in Domains, NEW success \in BOOLEAN,
             Release(c, d, success)
      PROVE RLTypeOK'
  <2>1. Released(limiter[d], success) \in DomainState
    BY <1>1, ReleasedState
  <2>2. QED BY <1>4, <2>1 DEF Release, RLTypeOK
<1>5. ASSUME NEW c \in Callers, NEW d \in Domains, BackOff(c, d)
      PROVE RLTypeOK'
  <2>1. Errored(d, limiter[d]) \in DomainState
    BY <1>1, ErroredState
  <2>2. Released(Errored(d, limiter[d]), FALSE) \in DomainState
    BY <2>1, ReleasedState
  <2>3. QED BY <1>5, <2>2 DEF BackOff, RLTypeOK
<1>6. ASSUME NEW c \in Callers, NEW d \in Domains, Touch(c, d)
      PROVE RLTypeOK'
  <2> DEFINE s == Refreshed(d, limiter[d])
  <2>1. Admitted(d, s) \in DomainState
    BY <1>1, RefreshedState, AdmittedState
  <2>2. Released(Admitted(d, s), TRUE) \in DomainState
    BY <2>1, ReleasedState
  <2>3. QED BY <1>6, <2>2 DEF Touch, RLTypeOK
<1>7. ASSUME Tick PROVE RLTypeOK'
  BY <1>1, <1>7, ElapsedState DEF Tick, RLTypeOK
<1>8. CASE UNCHANGED rlVars
  BY <1>8 DEF rlVars, RLTypeOK
<1>9. QED
  BY <1>2, <1>3, <1>4, <1>5, <1>6, <1>7, <1>8 DEF RLNext

(***************************************************************************)
(* The limiter is well typed in every reachable state.                     *)
(***************************************************************************)
THEOREM RLTyped == RLSpec => []RLTypeOK
  BY RLTypeInit, RLTypeStep, PTL DEF RLSpec

-------------------------------------------------------------------------------
(***************************************************************************)
(* No slot is leaked or returned twice: inflight counts the callers        *)
(* between acquire and release, so the clamp in release never bites.       *)
(***************************************************************************)
LEMMA SlotsInit == RLInit => SlotsExact
<1> SUFFICES ASSUME RLInit, NEW d \in Domains
             PROVE  limiter[d].inflight = Cardinality(Holders(d))
  BY DEF SlotsExact
<1>1. Holders(d) = {}
  BY CallersAssumption DEF RLInit, Holders
<1>2. QED BY <1>1, NewState, FS_EmptySet DEF RLInit

LEMMA SlotsStep ==
  RLTypeOK /\ SlotsExact /\ [RLNext]_rlVars => SlotsExact'
<1> SUFFICES ASSUME RLTypeOK, SlotsExact, [RLNext]_rlVars
             PROVE  SlotsExact'
  OBVIOUS
<1> DEFINE Exact(d) == limiter[d].inflight = Cardinality(Holders(d))
<1>1. ASSUME NEW d \in Domains
      PROVE /\ limiter[d] \in DomainState
            /\ Exact(d)
            /\ Cardinality(Holders(d)) \in Nat
  BY HoldersFinite DEF RLTypeOK, SlotsExact
<1>2. ASSUME UNCHANGED holding, NEW d \in Domains,
             \A e \in Domains \ {d} : limiter'[e] = limiter[e],
             limiter'[d].inflight = limiter[d].inflight
      PROVE  SlotsExact'
  BY <1>1, <1>2 DEF SlotsExact, Holders
<1>3. ASSUME NEW d \in Domains, Query(d) PROVE SlotsExact'
  <2>1. Refreshed(d, limiter[d]).inflight = limiter[d].inflight
    BY <1>1, RefreshedState
  <2>2. QED BY <1>2, <1>3, <2>1 DEF Query, RLTypeOK
<1>4. ASSUME NEW c \in Callers, NEW d \in Domains, Acquire(c, d)
      PROVE SlotsExact'
  <2> DEFINE s == Refreshed(d, limiter[d])
  <2>1. /\ s \in DomainState
        /\ s.inflight = limiter[d].inflight
        /\ Admitted(d, s).inflight = limiter[d].inflight + 1
    BY <1>1, RefreshedState, AdmittedState
  <2> HIDE DEF s
  <2>2. CASE /\ limiter' = [limiter EXCEPT ![d] = Admitted(d, s)]
             /\ holding' = [holding EXCEPT ![c] = d]
    <3>1. holding[c] = NoDomain
      BY <1>4 DEF Acquire
    <3>2. /\ Cardinality(Holders(d)') = Cardinality(Holders(d)) + 1
          /\ \A e \in Domains \ {d} : Holders(e)' = Holders(e)
      BY <2>2, <3>1, HolderJoins
    <3>3. \A e \in Domains \ {d} : limiter'[e] = limiter[e]
      BY <2>2 DEF RLTypeOK
    <3>4. limiter'[d].inflight = Cardinality(Holders(d)')
      BY <1>1, <2>1, <2>2, <3>2 DEF RLTypeOK
    <3>5. ASSUME NEW e \in Domains \ {d}
          PROVE  limiter'[e].inflight = Cardinality(Holders(e)')
      BY <1>1, <3>2, <3>3
    <3>6. QED BY <3>4, <3>5 DEF SlotsExact
  <2>3. CASE limiter' = [limiter EXCEPT ![d] = s] /\ UNCHANGED holding
    BY <1>2, <2>1, <2>3 DEF RLTypeOK
  <2>4. QED BY <1>4, <2>2, <2>3 DEF Acquire, s
<1>5. ASSUME NEW c \in Callers, NEW d \in Domains, NEW s \in DomainState,
             s.inflight = Less(limiter[d].inflight), holding[c] = d,
             limiter' = [limiter EXCEPT ![d] = s],
             holding' = [holding EXCEPT ![c] = NoDomain]
      PROVE  SlotsExact'
  <2>1. /\ Cardinality(Holders(d)) > 0
        /\ Cardinality(Holders(d)') = Cardinality(Holders(d)) - 1
        /\ \A e \in Domains \ {d} : Holders(e)' = Holders(e)
    BY <1>5, HolderLeaves
  <2>2. s.inflight = Cardinality(Holders(d)')
    BY <1>1, <1>5, <2>1 DEF Less
  <2>3. ASSUME NEW e \in Domains \ {d}
        PROVE  limiter'[e].inflight = Cardinality(Holders(e)')
    <3>1. limiter'[e] = limiter[e]
      BY <1>5 DEF RLTypeOK
    <3>2. QED BY <1>1, <2>1, <3>1
  <2>4. limiter'[d] = s
    BY <1>5 DEF RLTypeOK
  <2>5. QED BY <2>2, <2>3, <2>4 DEF SlotsExact
<1>6. ASSUME NEW c \in Callers, NEW d \in Domains, NEW success \in BOOLEAN,
             Release(c, d, success)
      PROVE SlotsExact'
  <2>1. /\ Released(limiter[d], success) \in DomainState
        /\ Released(limiter[d], success).inflight = Less(limiter[d].inflight)
    BY <1>1, ReleasedState
  <2>2. QED BY <1>5, <1>6, <2>1 DEF Release
<1>7. ASSUME NEW c \in Callers, NEW d \in Domains, BackOff(c, d)
      PROVE SlotsExact'
  <2>1. /\ Errored(d, limiter[d]) \in DomainState
        /\ Errored(d, limiter[d]).inflight = limiter[d].inflight
    BY <1>1, ErroredState
  <2>2. /\ Released(Errored(d, limiter[d]), FALSE) \in DomainState
        /\ Released(Errored(d, limiter[d]), FALSE).inflight
             = Less(limiter[d].inflight)
    BY <2>1, ReleasedState
  <2>3. QED BY <1>5, <1>7, <2>2 DEF BackOff
<1>8. ASSUME NEW c \in Callers, NEW d \in Domains, Touch(c, d)
      PROVE SlotsExact'
  <2> DEFINE s == Refreshed(d, limiter[d])
  <2>1. /\ Admitted(d, s) \in DomainState
        /\ Admitted(d, s).inflight = limiter[d].inflight + 1
    BY <1>1, RefreshedState, AdmittedState
  <2>2. Released(Admitted(d, s), TRUE).inflight = Less(limiter[d].inflight + 1)
    BY <2>1, ReleasedState
  <2>3. Less(limiter[d].inflight + 1) = limiter[d].inflight
    BY <1>1 DEF Less, DomainState
  <2>4. QED BY <1>2, <1>8, <2>2, <2>3 DEF Touch, RLTypeOK
<1>9. ASSUME Tick PROVE SlotsExact'
  <2>1. ASSUME NEW d \in Domains PROVE limiter'[d].inflight = limiter[d].inflight
    BY <1>1, <1>9, ElapsedState DEF Tick
  <2>2. QED BY <1>1, <1>9, <2>1 DEF Tick, SlotsExact, Holders
<1>10. CASE UNCHANGED rlVars
  BY <1>10 DEF rlVars, SlotsExact, Holders
<1>11. QED
  BY <1>3, <1>4, <1>6, <1>7, <1>8, <1>9, <1>10 DEF RLNext

(***************************************************************************)
(* inflight is always the number of callers between acquire and release.   *)
(***************************************************************************)
THEOREM SlotsAreExact == RLSpec => []SlotsExact
  BY SlotsInit, SlotsStep, RLTyped, PTL DEF RLSpec

-------------------------------------------------------------------------------
(***************************************************************************)
(* No domain ever has more requests in flight than its cap allows, nor     *)
(* counts more admissions in a window than its budget.                     *)
(***************************************************************************)
LEMMA LimitsInit == RLInit => WithinLimits
<1> SUFFICES ASSUME RLInit, NEW d \in Domains
             PROVE  /\ Cardinality(Holders(d)) <= Limits[d].cap
                    /\ limiter[d].windowCount <= Limits[d].budget
  BY DEF WithinLimits
<1>1. Holders(d) = {}
  BY CallersAssumption DEF RLInit, Holders
<1>2. limiter[d].windowCount = 0
  BY NewState DEF RLInit
<1>3. QED BY <1>1, <1>2, LimitsTyped, FS_EmptySet

LEMMA LimitsStep ==
  RLTypeOK /\ SlotsExact /\ WithinLimits /\ [RLNext]_rlVars => WithinLimits'
<1> SUFFICES ASSUME RLTypeOK, SlotsExact, WithinLimits, [RLNext]_rlVars
             PROVE  WithinLimits'
  OBVIOUS
<1> DEFINE InCap(d) == Cardinality(Holders(d)) <= Limits[d].cap
           InBudget(s, d) ==
             Limits[d].window > 0 => s.windowCount <= Limits[d].budget
<1>1. ASSUME NEW d \in Domains
      PROVE /\ limiter[d] \in DomainState
            /\ limiter[d].inflight = Cardinality(Holders(d))
            /\ InCap(d)
            /\ InBudget(limiter[d], d)
            /\ Cardinality(Holders(d)) \in Nat
            /\ Limits[d].cap \in Nat
            /\ Limits[d].budget \in Nat
            /\ Limits[d].window \in Nat
  BY HoldersFinite, LimitsTyped DEF RLTypeOK, SlotsExact, WithinLimits
<1>2. ASSUME NEW d \in Domains, NEW s \in DomainState, InBudget(s, d),
             limiter' = [limiter EXCEPT ![d] = s],
             Cardinality(Holders(d)') <= Limits[d].cap,
             \A e \in Domains \ {d} : Holders(e)' = Holders(e)
      PROVE  WithinLimits'
  <2>1. ASSUME NEW e \in Domains \ {d}
        PROVE  InCap(e)' /\ InBudget(limiter'[e], e)
    <3>1. limiter'[e] = limiter[e]
      BY <1>2 DEF RLTypeOK
    <3>2. QED BY <1>1, <1>2, <3>1
  <2>2. limiter'[d] = s
    BY <1>2 DEF RLTypeOK
  <2>3. QED BY <1>2, <2>1, <2>2 DEF WithinLimits
<1>3. ASSUME UNCHANGED holding, NEW d \in Domains
      PROVE  /\ Cardinality(Holders(d)') <= Limits[d].cap
             /\ \A e \in Domains \ {d} : Holders(e)' = Holders(e)
  BY <1>1, <1>3 DEF Holders
<1>4. ASSUME NEW d \in Domains
      PROVE  /\ Refreshed(d, limiter[d]) \in DomainState
             /\ InBudget(Refreshed(d, limiter[d]), d)
  BY <1>1, RefreshedState
<1>5. ASSUME NEW d \in Domains, CanAcquire(d, Refreshed(d, limiter[d]))
      PROVE  LET s == Admitted(d, Refreshed(d, limiter[d]))
             IN  /\ s \in DomainState
                 /\ InBudget(s, d)
                 /\ limiter[d].inflight < Limits[d].cap
  <2> DEFINE r == Refreshed(d, limiter[d])
  <2>1. /\ r \in DomainState
        /\ r.inflight = limiter[d].inflight
        /\ Limits[d].window > 0 => r.windowLeft > 0
    BY <1>1, RefreshedState
  <2>2. CanAcquire(d, r)
    BY <1>5
  <2> HIDE DEF r
  <2>3. /\ r.inflight < Limits[d].cap
        /\ r.windowLeft > 0 => r.windowCount < Limits[d].budget
    BY <2>1, <2>2, GrantedState
  <2>4. /\ Admitted(d, r) \in DomainState
        /\ Admitted(d, r).windowCount = r.windowCount + 1
    BY <2>1, AdmittedState
  <2>5. InBudget(Admitted(d, r), d)
    BY <1>1, <2>1, <2>3, <2>4 DEF DomainState
  <2>6. QED BY <2>1, <2>3, <2>4, <2>5 DEF r
<1>6. ASSUME NEW d \in Domains, Query(d) PROVE WithinLimits'
  BY <1>2, <1>3, <1>4, <1>6 DEF Query
<1>7. ASSUME NEW c \in Callers, NEW d \in Domains, Acquire(c, d)
      PROVE WithinLimits'
  <2> DEFINE s == Refreshed(d, limiter[d])
  <2>1. CASE /\ CanAcquire(d, s)
             /\ limiter' = [limiter EXCEPT ![d] = Admitted(d, s)]
             /\ holding' = [holding EXCEPT ![c] = d]
    <3>1. /\ Cardinality(Holders(d)') = Cardinality(Holders(d)) + 1
          /\ \A e \in Domains \ {d} : Holders(e)' = Holders(e)
      BY <1>7, <2>1, HolderJoins DEF Acquire
    <3>2. /\ Admitted(d, s) \in DomainState
          /\ InBudget(Admitted(d, s), d)
          /\ limiter[d].inflight < Limits[d].cap
      BY <1>5, <2>1
    <3>3. Cardinality(Holders(d)') <= Limits[d].cap
      BY <1>1, <3>1, <3>2
    <3>4. QED BY <1>2, <2>1, <3>1, <3>2, <3>3
  <2>2. CASE limiter' = [limiter EXCEPT ![d] = s] /\ UNCHANGED holding
    BY <1>2, <1>3, <1>4, <2>2
  <2>3. QED BY <1>7, <2>1, <2>2 DEF Acquire
<1>8. ASSUME NEW c \in Callers, NEW d \in Domains, NEW s \in DomainState,
             s.windowCount = limiter[d].windowCount, holding[c] = d,
             limiter' = [limiter EXCEPT ![d] = s],
             holding' = [holding EXCEPT ![c] = NoDomain]
      PROVE  WithinLimits'
  <2>1. /\ Cardinality(Holders(d)') = Cardinality(Holders(d)) - 1
        /\ \A e \in Domains \ {d} : Holders(e)' = Holders(e)
    BY <1>8, HolderLeaves
  <2>2. Cardinality(Holders(d)') <= Limits[d].cap
    BY <1>1, <2>1
  <2>3. InBudget(s, d)
    BY <1>1, <1>8
  <2>4. QED BY <1>2, <1>8, <2>1, <2>2, <2>3
<1>9. ASSUME NEW c \in Callers, NEW d \in Domains, NEW success \in BOOLEAN,
             Release(c, d, success)
      PROVE WithinLimits'
  <2>1. /\ Released(limiter[d], success) \in DomainState
        /\ Released(limiter[d], success).windowCount = limiter[d].windowCount
    BY <1>1, ReleasedState
  <2>2. QED BY <1>8, <1>9, <2>1 DEF Release
<1>10. ASSUME NEW c \in Callers, NEW d \in Domains, BackOff(c, d)
      PROVE WithinLimits'
  <2>1. /\ Errored(d, limiter[d]) \in DomainState
        /\ Errored(d, limiter[d]).windowCount = limiter[d].windowCount
    BY <1>1, ErroredState
  <2>2. /\ Released(Errored(d, limiter[d]), FALSE) \in DomainState
        /\ Released(Errored(d, limiter[d]), FALSE).windowCount
             = limiter[d].windowCount
    BY <2>1, ReleasedState
  <2>3. QED BY <1>8, <1>10, <2>2 DEF BackOff
<1>11. ASSUME NEW c \in Callers, NEW d \in Domains, Touch(c, d)
      PROVE WithinLimits'
  <2> DEFINE s == Admitted(d, Refreshed(d, limiter[d]))
  <2>1. s \in DomainState /\ InBudget(s, d)
    BY <1>5, <1>11 DEF Touch
  <2> HIDE DEF s
  <2>2. /\ Released(s, TRUE) \in DomainState
        /\ Released(s, TRUE).windowCount = s.windowCount
    BY <2>1, ReleasedState
  <2>3. limiter' = [limiter EXCEPT ![d] = Released(s, TRUE)]
    BY <1>11 DEF Touch, s
  <2>4. QED BY <1>2, <1>3, <1>11, <2>1, <2>2, <2>3 DEF Touch
<1>12. ASSUME Tick PROVE WithinLimits'
  <2>1. ASSUME NEW d \in Domains
        PROVE  limiter'[d].windowCount = limiter[d].windowCount
    BY <1>1, <1>12, ElapsedState DEF Tick
  <2>2. QED BY <1>1, <1>12, <2>1 DEF Tick, WithinLimits, Holders
<1>13. CASE UNCHANGED rlVars
  BY <1>13 DEF rlVars, WithinLimits, Holders
<1>14. QED
  BY <1>6, <1>7, <1>9, <1>10, <1>11, <1>12, <1>13 DEF RLNext

(***************************************************************************)
(* No domain ever has more requests in flight than its cap, nor counts     *)
(* more in a window than its budget, for any policies and any number of    *)
(* callers.                                                                *)
(***************************************************************************)
THEOREM LimitsAreKept == RLSpec => []WithinLimits
  BY LimitsInit, LimitsStep, RLTyped, SlotsAreExact, PTL DEF RLSpec

-------------------------------------------------------------------------------
\* The history only watches.
LEMMA HistoryWatches == HInit => RLInit
  BY DEF HInit

LEMMA HistoryStepWatches == [HNext]_hVars => [RLNext]_rlVars
<1> SUFFICES ASSUME [HNext]_hVars PROVE [RLNext]_rlVars
  OBVIOUS
<1>1. CASE UNCHANGED hVars
  BY <1>1 DEF hVars, rlVars
<1>2. CASE HNext
  BY <1>2 DEF HNext, RLNext, HQuery, HAdmit, HRefuse, HRelease, HBackOff, HTouch, HTick
<1>3. QED BY <1>1, <1>2

\* So everything proved of the limiter holds with its history.
LEMMA LimiterFacts == HSpec => [](RLTypeOK /\ SlotsExact /\ WithinLimits)
<1>1. HSpec => RLSpec
  BY HistoryWatches, HistoryStepWatches, PTL DEF HSpec, RLSpec
<1>2. QED BY <1>1, RLTyped, SlotsAreExact, LimitsAreKept, PTL

-------------------------------------------------------------------------------
(***************************************************************************)
(* The history is well typed.                                              *)
(***************************************************************************)
LEMMA HTypeInit == HInit => HTypeOK
<1> SUFFICES ASSUME HInit PROVE HTypeOK
  OBVIOUS
<1>1. RLTypeOK
  BY RLTypeInit DEF HInit
<1>2. QED BY <1>1, LimitsTyped DEF HInit, HTypeOK

LEMMA HTypeStep == HTypeOK /\ [HNext]_hVars => HTypeOK'
<1> SUFFICES ASSUME HTypeOK, [HNext]_hVars PROVE HTypeOK'
  OBVIOUS
<1>1. RLTypeOK /\ RLTypeOK'
  BY RLTypeStep, HistoryStepWatches DEF HTypeOK
<1>2. ASSUME UNCHANGED hist PROVE HTypeOK'
  BY <1>1, <1>2 DEF HTypeOK, hist
<1>3. ASSUME NEW d \in Domains, HQuery(d) PROVE HTypeOK'
  BY <1>2, <1>3 DEF HQuery
<1>4. ASSUME NEW c \in Callers, NEW d \in Domains, HAdmit(c, d) PROVE HTypeOK'
  <2> DEFINE seen == [a \in Ages(d) |-> IF a = 0 THEN recent[d][a] + 1 ELSE recent[d][a]]
  <2>1. seen \in [Ages(d) -> Nat]
    BY DEF HTypeOK
  <2>2. /\ sinceStart' = [sinceStart EXCEPT ![d] = 0]
        /\ recent' = [recent EXCEPT ![d] = seen]
        /\ UNCHANGED quiet
    BY <1>4 DEF HAdmit, NoteRequest
  <2> HIDE DEF seen
  <2>3. QED BY <1>1, <2>1, <2>2 DEF HTypeOK
<1>5. ASSUME NEW c \in Callers, NEW d \in Domains, HRefuse(c, d) PROVE HTypeOK'
  BY <1>2, <1>5 DEF HRefuse
<1>6. ASSUME NEW c \in Callers, NEW d \in Domains, NEW success \in BOOLEAN,
             HRelease(c, d, success)
      PROVE  HTypeOK'
  BY <1>2, <1>6 DEF HRelease
<1>7. ASSUME NEW c \in Callers, NEW d \in Domains, HBackOff(c, d) PROVE HTypeOK'
  <2> DEFINE pause == Backoff(d, limiter[d].errors + 1)
  <2>1. pause \in Nat
    BY BackoffBounded
  <2>2. quiet' = [quiet EXCEPT ![d] = pause] /\ UNCHANGED <<sinceStart, recent>>
    BY <1>7 DEF HBackOff
  <2> HIDE DEF pause
  <2>3. QED BY <1>1, <2>1, <2>2 DEF HTypeOK
<1>8. ASSUME NEW c \in Callers, NEW d \in Domains, HTouch(c, d) PROVE HTypeOK'
  BY <1>2, <1>8 DEF HTouch
<1>9. ASSUME HTick PROVE HTypeOK'
  <2>1. sinceStart' \in [Domains -> Nat]
    BY <1>9, LimitsTyped DEF HTick, HTypeOK
  <2>2. quiet' \in [Domains -> Nat]
    BY <1>9, LessNat DEF HTick, HTypeOK
  <2>3. ASSUME NEW d \in Domains PROVE recent'[d] \in [Ages(d) -> Nat]
    <3>1. Limits[d].window \in Nat
      BY LimitsTyped
    <3>2. \A a \in Ages(d) : a # 0 => a - 1 \in Ages(d)
      BY <3>1 DEF Ages
    <3>3. recent[d] \in [Ages(d) -> Nat]
      BY DEF HTypeOK
    <3>4. recent'[d] = [a \in Ages(d) |-> IF a = 0 THEN 0 ELSE recent[d][a - 1]]
      BY <1>9 DEF HTick
    <3>5. QED BY <3>2, <3>3, <3>4
  <2>4. DOMAIN recent' = Domains
    BY <1>9 DEF HTick
  <2>5. QED BY <1>1, <2>1, <2>2, <2>3, <2>4 DEF HTypeOK
<1>10. CASE UNCHANGED hVars
  BY <1>2, <1>10 DEF hVars, hist
<1>11. QED
  BY <1>3, <1>4, <1>5, <1>6, <1>7, <1>8, <1>9, <1>10 DEF HNext

(***************************************************************************)
(* The limiter and its observer are well typed in every reachable state.   *)
(***************************************************************************)
THEOREM HistoryTyped == HSpec => []HTypeOK
  BY HTypeInit, HTypeStep, PTL DEF HSpec

-------------------------------------------------------------------------------
(***************************************************************************)
(* Spacing.  The inductive invariant relates the limiter's timer to the    *)
(* observer's: what is left of the delay and what has passed since the     *)
(* last request make up the minimum delay.                                 *)
(***************************************************************************)
DelayTimed ==
  \A d \in Domains : sinceStart[d] + limiter[d].delayLeft >= Limits[d].minDelay

LEMMA DelayInit == HInit => DelayTimed
<1> SUFFICES ASSUME HInit, NEW d \in Domains
             PROVE  sinceStart[d] + limiter[d].delayLeft >= Limits[d].minDelay
  BY DEF DelayTimed
<1>1. sinceStart[d] = Limits[d].minDelay /\ limiter[d].delayLeft = 0
  BY NewState DEF HInit, RLInit
<1>2. QED BY <1>1, LimitsTyped

\* One domain's share of DelayTimed.
Timed(d) == sinceStart[d] + limiter[d].delayLeft >= Limits[d].minDelay

\* What the steps that reach the limiter do to one domain's timers.
LEMMA TimersTyped ==
  ASSUME HTypeOK, NEW d \in Domains
  PROVE  /\ limiter[d] \in DomainState
         /\ limiter[d].delayLeft \in Nat /\ limiter[d].cooldownLeft \in Nat
         /\ sinceStart[d] \in Nat /\ quiet[d] \in Nat
         /\ Limits[d].minDelay \in Nat
  BY LimitsTyped DEF HTypeOK, RLTypeOK, DomainState

LEMMA DelayStep == HTypeOK /\ DelayTimed /\ [HNext]_hVars => DelayTimed'
<1> SUFFICES ASSUME HTypeOK, DelayTimed, [HNext]_hVars, NEW e \in Domains
             PROVE  Timed(e)'
  BY DEF DelayTimed, Timed
<1>1. Timed(e) /\ limiter \in [Domains -> DomainState]
  BY DEF DelayTimed, Timed, HTypeOK, RLTypeOK
<1>2. ASSUME NEW d \in Domains, NEW s \in DomainState,
             limiter' = [limiter EXCEPT ![d] = s], UNCHANGED sinceStart,
             s.delayLeft = limiter[d].delayLeft \/ limiter[d].delayLeft = 0
      PROVE  Timed(e)'
  <2>1. limiter'[e].delayLeft \in Nat /\ limiter'[e].delayLeft >= limiter[e].delayLeft
    BY <1>1, <1>2, TimersTyped DEF DomainState
  <2>2. QED BY <1>1, <1>2, <2>1, TimersTyped DEF Timed
<1>3. ASSUME NEW d \in Domains
      PROVE  /\ limiter[d] \in DomainState
             /\ Refreshed(d, limiter[d]) \in DomainState
             /\ Refreshed(d, limiter[d]).delayLeft = limiter[d].delayLeft
             /\ limiter[d].delayLeft \in Nat
  BY TimersTyped, RefreshedState
<1>4. ASSUME NEW d \in Domains, HQuery(d) PROVE Timed(e)'
  BY <1>2, <1>3, <1>4 DEF HQuery, Query, hist
<1>5. ASSUME NEW c \in Callers, NEW d \in Domains, HAdmit(c, d) PROVE Timed(e)'
  <2> DEFINE s == Refreshed(d, limiter[d])
  <2>1. d # NoDomain
    BY CallersAssumption
  <2>2. /\ limiter' = [limiter EXCEPT ![d] = Admitted(d, s)]
        /\ sinceStart' = [sinceStart EXCEPT ![d] = 0]
    BY <1>5, <2>1 DEF HAdmit, Acquire, NoteRequest
  <2>3. Admitted(d, s).delayLeft = Limits[d].minDelay
    BY <1>3, AdmittedState
  <2> HIDE DEF s
  <2>4. CASE e = d
    <3>1. limiter'[e].delayLeft = Limits[e].minDelay /\ sinceStart'[e] = 0
      BY <1>1, <2>2, <2>3, <2>4 DEF HTypeOK
    <3>2. QED BY <3>1, TimersTyped DEF Timed
  <2>5. CASE e # d
    <3>1. limiter'[e] = limiter[e] /\ sinceStart'[e] = sinceStart[e]
      BY <1>1, <2>2, <2>5 DEF HTypeOK
    <3>2. QED BY <1>1, <3>1 DEF Timed
  <2>6. QED BY <2>4, <2>5
<1>6. ASSUME NEW c \in Callers, NEW d \in Domains, HRefuse(c, d) PROVE Timed(e)'
  <2>1. limiter' = [limiter EXCEPT ![d] = Refreshed(d, limiter[d])]
        /\ UNCHANGED sinceStart
    BY <1>6 DEF HRefuse, Acquire, hist, HTypeOK, RLTypeOK
  <2>2. QED BY <1>2, <1>3, <2>1
<1>7. ASSUME NEW c \in Callers, NEW d \in Domains, NEW success \in BOOLEAN,
             HRelease(c, d, success)
      PROVE  Timed(e)'
  <2>1. /\ Released(limiter[d], success) \in DomainState
        /\ Released(limiter[d], success).delayLeft = limiter[d].delayLeft
    BY <1>3, ReleasedState
  <2>2. QED BY <1>2, <1>3, <1>7, <2>1 DEF HRelease, Release, hist
<1>8. ASSUME NEW c \in Callers, NEW d \in Domains, HBackOff(c, d) PROVE Timed(e)'
  <2> DEFINE u == Errored(d, limiter[d])
             s == Released(u, FALSE)
  <2>1. u \in DomainState /\ u.delayLeft = limiter[d].delayLeft
    BY <1>3, ErroredState
  <2>2. s \in DomainState /\ s.delayLeft = limiter[d].delayLeft
    BY <2>1, ReleasedState
  <2>3. limiter' = [limiter EXCEPT ![d] = s] /\ UNCHANGED sinceStart
    BY <1>8 DEF HBackOff, BackOff
  <2> HIDE DEF s
  <2>4. QED BY <1>2, <1>3, <2>2, <2>3
<1>9. ASSUME NEW c \in Callers, NEW d \in Domains, HTouch(c, d) PROVE Timed(e)'
  <2> DEFINE s == Refreshed(d, limiter[d])
             u == Released(Admitted(d, s), TRUE)
  <2>1. CanAcquire(d, s) /\ limiter' = [limiter EXCEPT ![d] = u] /\ UNCHANGED sinceStart
    BY <1>9 DEF HTouch, Touch, hist
  <2>2. limiter[d].delayLeft = 0
    BY <1>3, <2>1, GrantedState
  <2>3. Admitted(d, s) \in DomainState
    BY <1>3, AdmittedState
  <2>4. u \in DomainState
    BY <2>3, ReleasedState
  <2> HIDE DEF s, u
  <2>5. QED BY <1>2, <2>1, <2>2, <2>4
<1>10. ASSUME HTick PROVE Timed(e)'
  <2>1. /\ limiter'[e].delayLeft = Less(limiter[e].delayLeft)
        /\ sinceStart'[e] = IF sinceStart[e] < Limits[e].minDelay
                            THEN sinceStart[e] + 1 ELSE sinceStart[e]
    BY <1>3, <1>10, ElapsedState DEF HTick, Tick
  <2>2. Less(limiter[e].delayLeft) \in Nat
        /\ Less(limiter[e].delayLeft) >= limiter[e].delayLeft - 1
    BY <1>3 DEF Less
  <2>3. QED BY <1>1, <2>1, <2>2, TimersTyped DEF Timed
<1>11. CASE UNCHANGED hVars
  BY <1>1, <1>11 DEF hVars, Timed
<1>12. QED
  BY <1>4, <1>5, <1>6, <1>7, <1>8, <1>9, <1>10, <1>11 DEF HNext

LEMMA SpacedStep ==
  HTypeOK /\ DelayTimed /\ [HNext]_hVars =>
    [\A d \in Domains : Requested(d) => sinceStart[d] >= Limits[d].minDelay]_hVars
<1> SUFFICES ASSUME HTypeOK, DelayTimed, HNext, NEW d \in Domains,
                    NEW c \in Callers, holding'[c] = d, holding[c] # d
             PROVE  sinceStart[d] >= Limits[d].minDelay
  BY DEF Requested
<1>1. RLTypeOK /\ d # NoDomain
  BY CallersAssumption DEF HTypeOK
<1>2. ASSUME NEW b \in Callers, NEW e \in Domains, HAdmit(b, e)
      PROVE  sinceStart[d] >= Limits[d].minDelay
  <2>1. /\ CanAcquire(e, Refreshed(e, limiter[e]))
        /\ holding' = [holding EXCEPT ![b] = e]
    BY <1>2, CallersAssumption DEF HAdmit, Acquire
  <2>2. e = d
    BY <1>1, <2>1 DEF RLTypeOK
  <2>3. limiter[d].delayLeft = 0
    BY <2>1, <2>2, TimersTyped, RefreshedState, GrantedState
  <2>4. QED BY <2>3, TimersTyped DEF DelayTimed
<1>3. ASSUME NEW b \in Callers, holding' = [holding EXCEPT ![b] = NoDomain]
      PROVE  FALSE
  BY <1>1, <1>3 DEF RLTypeOK
<1>4. ASSUME NEW b \in Callers, NEW e \in Domains, HRefuse(b, e)
      PROVE  FALSE
  BY <1>1, <1>4 DEF HRefuse, Acquire, RLTypeOK
<1>5. CASE UNCHANGED holding
  BY <1>5
<1>6. QED
  BY <1>2, <1>3, <1>4, <1>5
     DEF HNext, HQuery, Query, HRelease, Release, HBackOff, BackOff, HTouch, Touch,
         HTick, Tick

(***************************************************************************)
(* Two requests to one domain are never closer than its minimum delay, for *)
(* any number of callers and any policies.                                 *)
(***************************************************************************)
THEOREM RequestsAreSpaced == HSpec => RequestsSpaced
  BY HistoryTyped, DelayInit, DelayStep, SpacedStep, PTL DEF HSpec, RequestsSpaced

-------------------------------------------------------------------------------
(***************************************************************************)
(* Cooldowns.  With a cap of one, a pause asked for is a pause kept: while *)
(* it lasts nobody holds the slot, so nobody can succeed and clear it.     *)
(***************************************************************************)
Paused(d) ==
  Limits[d].cap = 1 /\ quiet[d] > 0
    => Holders(d) = {} /\ limiter[d].cooldownLeft >= quiet[d]

PausesKept == \A d \in Domains : Paused(d)

LEMMA PauseInit == HInit => PausesKept
  BY DEF HInit, PausesKept, Paused

\* A step that admits nobody to e and leaves its timers alone.
LEMMA PauseLeft ==
  ASSUME HTypeOK, NEW e \in Domains, Paused(e), UNCHANGED quiet,
         Holders(e)' \subseteq Holders(e),
         quiet[e] > 0 /\ Limits[e].cap = 1
           => limiter'[e].cooldownLeft = limiter[e].cooldownLeft
  PROVE  Paused(e)'
  BY DEF Paused

\* While a pause lasts, nothing is granted.
LEMMA PauseRefuses ==
  ASSUME HTypeOK, NEW d \in Domains, Paused(d), Limits[d].cap = 1,
         CanAcquire(d, Refreshed(d, limiter[d]))
  PROVE  quiet[d] = 0
<1>1. limiter[d].cooldownLeft = 0
  BY TimersTyped, RefreshedState, GrantedState
<1>2. QED BY <1>1, TimersTyped DEF Paused

LEMMA PauseStep ==
  HTypeOK /\ WithinLimits /\ PausesKept /\ [HNext]_hVars => PausesKept'
<1> SUFFICES ASSUME HTypeOK, WithinLimits, PausesKept, [HNext]_hVars, NEW e \in Domains
             PROVE  Paused(e)'
  BY DEF PausesKept
<1>1. /\ RLTypeOK /\ Paused(e) /\ Limits[e].cap \in Nat
      /\ limiter[e].cooldownLeft \in Nat /\ quiet[e] \in Nat
      /\ \A d \in Domains : d # NoDomain
  BY LimitsTyped, TimersTyped, CallersAssumption DEF PausesKept, HTypeOK
<1>2. CASE Limits[e].cap # 1
  BY <1>2 DEF Paused
<1>3. CASE Limits[e].cap = 1
  <2>1. ASSUME NEW d \in Domains, UNCHANGED <<holding, quiet>>,
               limiter' = [limiter EXCEPT ![d] = Refreshed(d, limiter[d])]
        PROVE  Paused(e)'
    <3>1. limiter'[e].cooldownLeft = limiter[e].cooldownLeft
      BY <1>1, <2>1, TimersTyped, RefreshedState DEF RLTypeOK
    <3>2. QED BY <1>1, <2>1, <3>1, PauseLeft DEF Holders
  <2>2. ASSUME NEW d \in Domains, HQuery(d) PROVE Paused(e)'
    BY <2>1, <2>2 DEF HQuery, Query, hist
  <2>3. ASSUME NEW c \in Callers, NEW d \in Domains, HRefuse(c, d) PROVE Paused(e)'
    <3>1. UNCHANGED <<holding, quiet>>
          /\ limiter' = [limiter EXCEPT ![d] = Refreshed(d, limiter[d])]
      BY <1>1, <2>3 DEF HRefuse, Acquire, hist, RLTypeOK
    <3>2. QED BY <2>1, <3>1
  <2>4. ASSUME NEW c \in Callers, NEW d \in Domains, HAdmit(c, d) PROVE Paused(e)'
    <3>1. /\ CanAcquire(d, Refreshed(d, limiter[d]))
          /\ limiter' = [limiter EXCEPT ![d] = Admitted(d, Refreshed(d, limiter[d]))]
          /\ holding' = [holding EXCEPT ![c] = d]
          /\ UNCHANGED quiet
      BY <1>1, <2>4 DEF HAdmit, Acquire, NoteRequest
    <3>2. CASE d = e
      BY <1>1, <1>3, <3>1, <3>2, PauseRefuses DEF Paused
    <3>3. CASE d # e
      <4>1. limiter'[e] = limiter[e] /\ Holders(e)' \subseteq Holders(e)
        BY <1>1, <3>1, <3>3 DEF RLTypeOK, Holders
      <4>2. QED BY <1>1, <3>1, <4>1, PauseLeft
    <3>4. QED BY <3>2, <3>3
  <2>5. ASSUME NEW c \in Callers, NEW d \in Domains, NEW success \in BOOLEAN,
               HRelease(c, d, success)
        PROVE  Paused(e)'
    <3>1. /\ holding[c] = d
          /\ limiter' = [limiter EXCEPT ![d] = Released(limiter[d], success)]
          /\ holding' = [holding EXCEPT ![c] = NoDomain]
          /\ UNCHANGED quiet
      BY <2>5 DEF HRelease, Release, hist
    <3>2. Holders(e)' \subseteq Holders(e)
      BY <1>1, <3>1 DEF RLTypeOK, Holders
    <3>3. CASE d = e
      <4>1. c \in Holders(e)
        BY <3>1, <3>3 DEF Holders
      <4>2. QED BY <1>1, <1>3, <3>1, <4>1 DEF Paused
    <3>4. CASE d # e
      <4>1. limiter'[e] = limiter[e]
        BY <1>1, <3>1, <3>4 DEF RLTypeOK
      <4>2. QED BY <1>1, <3>1, <3>2, <4>1, PauseLeft
    <3>5. QED BY <3>3, <3>4
  <2>6. ASSUME NEW c \in Callers, NEW d \in Domains, HBackOff(c, d) PROVE Paused(e)'
    <3> DEFINE u == Errored(d, limiter[d])
               pause == Backoff(d, limiter[d].errors + 1)
    <3>1. /\ holding[c] = d
          /\ limiter' = [limiter EXCEPT ![d] = Released(u, FALSE)]
          /\ holding' = [holding EXCEPT ![c] = NoDomain]
          /\ quiet' = [quiet EXCEPT ![d] = pause]
      BY <2>6 DEF HBackOff, BackOff
    <3>2. u \in DomainState /\ u.cooldownLeft = pause /\ pause \in Nat
      BY TimersTyped, ErroredState, BackoffBounded
    <3>3. Released(u, FALSE).cooldownLeft = pause
      BY <3>2, ReleasedState
    <3>4. Holders(e)' = Holders(e) \ {c}
      BY <1>1, <3>1 DEF RLTypeOK, Holders
    <3> HIDE DEF u, pause
    <3>5. CASE d = e
      <4>1. c \in Holders(e)
        BY <3>1, <3>5 DEF Holders
      <4>2. Cardinality(Holders(e) \ {c}) = Cardinality(Holders(e)) - 1
        BY <4>1, HoldersFinite, FS_RemoveElement
      <4>3. Cardinality(Holders(e)) <= 1 /\ Cardinality(Holders(e)) \in Nat
        BY <1>3, HoldersFinite DEF WithinLimits
      <4>4. IsFiniteSet(Holders(e) \ {c}) /\ Cardinality(Holders(e) \ {c}) \in Nat
        BY HoldersFinite, FS_RemoveElement, FS_CardinalityType
      <4>5. Holders(e)' = {}
        BY <3>4, <4>2, <4>3, <4>4, FS_EmptySet
      <4>6. limiter'[e].cooldownLeft = pause /\ quiet'[e] = pause
        BY <1>1, <3>1, <3>3, <3>5 DEF RLTypeOK, HTypeOK
      <4>7. QED BY <3>2, <4>5, <4>6 DEF Paused
    <3>6. CASE d # e
      <4>1. limiter'[e] = limiter[e] /\ quiet'[e] = quiet[e]
        BY <1>1, <3>1, <3>6 DEF RLTypeOK, HTypeOK
      <4>2. QED BY <1>1, <3>4, <4>1 DEF Paused
    <3>7. QED BY <3>5, <3>6
  <2>7. ASSUME NEW c \in Callers, NEW d \in Domains, HTouch(c, d) PROVE Paused(e)'
    <3> DEFINE s == Released(Admitted(d, Refreshed(d, limiter[d])), TRUE)
    <3>1. /\ CanAcquire(d, Refreshed(d, limiter[d]))
          /\ limiter' = [limiter EXCEPT ![d] = s]
          /\ UNCHANGED <<holding, quiet>>
      BY <2>7 DEF HTouch, Touch, hist
    <3> HIDE DEF s
    <3>2. CASE d = e
      BY <1>1, <1>3, <3>1, <3>2, PauseRefuses DEF Paused
    <3>3. CASE d # e
      <4>1. limiter'[e] = limiter[e] /\ Holders(e)' = Holders(e)
        BY <1>1, <3>1, <3>3 DEF RLTypeOK, Holders
      <4>2. QED BY <1>1, <3>1, <4>1, PauseLeft
    <3>4. QED BY <3>2, <3>3
  <2>8. ASSUME HTick PROVE Paused(e)'
    <3>1. /\ limiter'[e].cooldownLeft = Less(limiter[e].cooldownLeft)
          /\ quiet'[e] = Less(quiet[e])
          /\ Holders(e)' = Holders(e)
      BY <2>8, TimersTyped, ElapsedState DEF HTick, Tick, Holders
    <3>2. quiet[e] > 0 => limiter[e].cooldownLeft >= quiet[e] /\ Holders(e) = {}
      BY <1>1, <1>3 DEF Paused
    <3>3. QED BY <1>1, <3>1, <3>2 DEF Paused, Less
  <2>9. CASE UNCHANGED hVars
    BY <1>1, <2>9 DEF hVars, Paused, Holders
  <2>10. QED
    BY <2>2, <2>3, <2>4, <2>5, <2>6, <2>7, <2>8, <2>9 DEF HNext
<1>4. QED BY <1>2, <1>3

LEMMA QuietStep ==
  HTypeOK /\ PausesKept /\ [HNext]_hVars =>
    [\A d \in Domains : Limits[d].cap = 1 => Quiet(d)]_hVars
<1> SUFFICES ASSUME HTypeOK, PausesKept, HNext, NEW d \in Domains,
                    Limits[d].cap = 1, quiet[d] > 0, NEW c \in Callers, holding'[c] = d
             PROVE  holding[c] = d
  BY DEF Quiet, Requested
<1>1. RLTypeOK /\ Paused(d) /\ d # NoDomain /\ quiet[d] \in Nat
  BY TimersTyped, CallersAssumption DEF PausesKept, HTypeOK
<1>2. CASE UNCHANGED holding
  BY <1>2
<1>3. ASSUME NEW b \in Callers, NEW e \in Domains, HAdmit(b, e) PROVE holding[c] = d
  <2>1. /\ CanAcquire(e, Refreshed(e, limiter[e]))
        /\ holding' = [holding EXCEPT ![b] = e]
    BY <1>3, CallersAssumption DEF HAdmit, Acquire
  <2>2. e # d
    BY <1>1, <2>1, PauseRefuses
  <2>3. QED BY <1>1, <2>1, <2>2 DEF RLTypeOK
<1>4. ASSUME NEW b \in Callers, holding' = [holding EXCEPT ![b] = NoDomain]
      PROVE  holding[c] = d
  BY <1>1, <1>4 DEF RLTypeOK
<1>5. ASSUME NEW b \in Callers, NEW e \in Domains, HRefuse(b, e) PROVE holding[c] = d
  BY <1>1, <1>2, <1>5 DEF HRefuse, Acquire, RLTypeOK
<1>6. QED
  BY <1>2, <1>3, <1>4, <1>5
     DEF HNext, HQuery, Query, HRelease, Release, HBackOff, BackOff, HTouch, Touch,
         HTick, Tick

(***************************************************************************)
(* Where one request is allowed at a time, no request begins within the    *)
(* pause the last error asked for.                                         *)
(***************************************************************************)
THEOREM SerialCooldowns == HSpec => CooldownKeptWhenSerial
<1>1. HTypeOK /\ (RLTypeOK /\ SlotsExact /\ WithinLimits) /\ PausesKept /\ [HNext]_hVars
        => PausesKept'
  BY PauseStep
<1>2. QED
  BY <1>1, HistoryTyped, LimiterFacts, PauseInit, QuietStep, PTL
     DEF HSpec, CooldownKeptWhenSerial
-------------------------------------------------------------------------------
(***************************************************************************)
(* Sums over finite sets.                                                  *)
(***************************************************************************)
LEMMA LeastExists ==
  ASSUME NEW S, S \subseteq Nat, S # {}
  PROVE  \E n \in S : \A m \in S : n <= m
<1>1. PICK n \in S : \A m \in S : <<m, n>> \notin OpToRel(<, Nat)
  BY WFMin, NatLessThanWellFounded, Zenon
<1>2. ASSUME NEW m \in S PROVE ~(m < n)
  BY <1>1, Zenon DEF OpToRel
<1>3. QED BY <1>2

Sum(f, S) == MapThenSumSet(LAMBDA x : f[x], S)

\* g is what a sum is computed by: whatever element is taken first.
SumsUp(g, f, S) ==
  /\ g[{}] = 0
  /\ \A T \in SUBSET S : g[T] \in Nat
  /\ \A T \in SUBSET S : \A x \in T : g[T] = f[x] + g[T \ {x}]

LEMMA SumIs ==
  ASSUME NEW S, IsFiniteSet(S), NEW f, \A x \in S : f[x] \in Nat
  PROVE  \E g : Sum(f, S) = g[S] /\ SumsUp(g, f, S)
<1> DEFINE First(T) == CHOOSE x \in T : TRUE
           Step(g, T) == IF T = {} THEN 0 ELSE f[First(T)] + g[T \ {First(T)}]
           Small(n) == {T \in SUBSET S : Cardinality(T) <= n}
           Upto(n) == \E g : g = [T \in Small(n) |-> Step(g, T)]
           sum == CHOOSE g : g = [T \in SUBSET S |-> Step(g, T)]
<1>1. Sum(f, S) = sum[S]
  BY DEF Sum, MapThenSumSet, MapThenFoldSet
<1>2. \A T \in SUBSET S : IsFiniteSet(T) /\ Cardinality(T) \in Nat /\ Cardinality(T) <= Cardinality(S)
      /\ (Cardinality(T) = 0 <=> T = {})
  BY FS_Subset, FS_CardinalityType, FS_EmptySet
<1>3. ASSUME NEW T \in SUBSET S, NEW x \in T
      PROVE  T \ {x} \in SUBSET S /\ Cardinality(T \ {x}) = Cardinality(T) - 1
  BY <1>2, FS_RemoveElement
<1>4. ASSUME NEW T \in SUBSET S, T # {} PROVE First(T) \in T
  BY <1>4
<1>5. \A n \in Nat : Upto(n)
  <2> DEFINE Bad == {n \in Nat : ~Upto(n)}
  <2>1. SUFFICES ASSUME Bad # {} PROVE FALSE
    OBVIOUS
  <2>2. PICK n \in Bad : \A k \in Bad : n <= k
    <3> HIDE DEF Upto
    <3>1. Bad \subseteq Nat
      OBVIOUS
    <3> HIDE DEF Bad
    <3>2. QED BY <2>1, <3>1, LeastExists
  <2>3. n # 0
    <3> DEFINE g == [T \in Small(0) |-> 0]
    <3>1. \A T \in Small(0) : T = {}
      BY <1>2
    <3>2. g = [T \in Small(0) |-> Step(g, T)]
      <4> HIDE DEF Small
      <4>1. \A T \in Small(0) : Step(g, T) = 0
        BY <3>1
      <4> HIDE DEF Step
      <4>2. QED BY <4>1
    <3> HIDE DEF g, Step, Small
    <3>3. Upto(0)
      BY <3>2
    <3>4. QED BY <3>3
  <2>4. n \in Nat /\ n - 1 \in Nat /\ Upto(n - 1)
    <3>1. n \in Nat /\ n - 1 \in Nat /\ n - 1 < n
      BY <2>3
    <3>2. n - 1 \notin Bad
      <4> HIDE DEF Bad
      <4>1. QED BY <3>1, <2>2
    <3>3. QED BY <3>1, <3>2
  <2>5. PICK g : g = [T \in Small(n - 1) |-> Step(g, T)]
    BY <2>4
  <2> DEFINE h == [T \in Small(n) |-> Step(g, T)]
  <2>6. ASSUME NEW T \in Small(n) PROVE Step(g, T) = Step(h, T)
    <3>1. CASE T = {}
      BY <3>1
    <3>2. CASE T # {}
      <4> DEFINE R == T \ {First(T)}
      <4>1. R \in Small(n - 1) /\ R \in Small(n)
        <5>1. First(T) \in T /\ T \in SUBSET S /\ Cardinality(T) <= n /\ Cardinality(T) \in Nat
          BY <1>2, <1>4, <3>2
        <5> HIDE DEF First
        <5>2. R \in SUBSET S /\ Cardinality(R) = Cardinality(T) - 1
          BY <1>3, <5>1
        <5>3. QED BY <2>4, <5>1, <5>2
      <4> HIDE DEF R
      <4>2. g[R] = Step(g, R)
        <5> HIDE DEF Step, Small
        <5>1. QED BY <2>5, <4>1
      <4>3. h[R] = Step(g, R)
        <5> HIDE DEF Step, Small
        <5>1. QED BY <4>1
      <4> HIDE DEF h, First
      <4>4. QED BY <3>2, <4>2, <4>3 DEF R
    <3>3. QED BY <3>1, <3>2
  <2>7. h = [T \in Small(n) |-> Step(h, T)]
    <3> HIDE DEF Step, Small
    <3>1. QED BY <2>6
  <2>8. Upto(n)
    <3> HIDE DEF h
    <3>1. QED BY <2>7
  <2>9. QED BY <2>8
<1>6. sum = [T \in SUBSET S |-> Step(sum, T)]
  <2>1. Small(Cardinality(S)) = SUBSET S
    BY <1>2
  <2>2. Cardinality(S) \in Nat
    BY <1>2
  <2> HIDE DEF Small
  <2>3. Upto(Cardinality(S))
    BY <1>5, <2>2
  <2> HIDE DEF Step
  <2>4. QED BY <2>1, <2>3
<1>7. ASSUME NEW T \in SUBSET S PROVE sum[T] = Step(sum, T)
  <2> HIDE DEF Step, sum
  <2>1. QED BY <1>6
<1> HIDE DEF sum
<1>8. sum[{}] = 0
  BY <1>7
<1> DEFINE Fine(T) == sum[T] \in Nat /\ \A x \in T : sum[T] = f[x] + sum[T \ {x}]
<1>9. \A T \in SUBSET S : Fine(T)
  <2> DEFINE Bad == {Cardinality(T) : T \in {R \in SUBSET S : ~Fine(R)}}
  <2>1. SUFFICES ASSUME NEW R \in SUBSET S, ~Fine(R) PROVE FALSE
    OBVIOUS
  <2>2. PICK n \in Bad : \A k \in Bad : n <= k
    <3> HIDE DEF Fine
    <3>1. Bad \subseteq Nat
      BY <1>2
    <3>2. Cardinality(R) \in Bad
      BY <2>1
    <3> HIDE DEF Bad
    <3>3. QED BY <3>1, <3>2, LeastExists
  <2>3. PICK T \in SUBSET S : ~Fine(T) /\ n = Cardinality(T)
    <3> HIDE DEF Fine
    <3>1. QED OBVIOUS
  <2>4. ASSUME NEW P \in SUBSET S, Cardinality(P) < Cardinality(T) PROVE Fine(P)
    <3> HIDE DEF Fine
    <3>1. ~Fine(P) => Cardinality(P) \in Bad
      OBVIOUS
    <3> HIDE DEF Bad
    <3>2. Cardinality(P) \in Nat /\ Cardinality(T) \in Nat
      BY <1>2
    <3>3. QED BY <2>2, <2>3, <2>4, <3>1, <3>2
  <2>5. T # {}
    <3>1. T = {} => sum[T] = 0 /\ \A x \in T : FALSE
      BY <1>8
    <3>2. ~(sum[T] \in Nat /\ \A x \in T : sum[T] = f[x] + sum[T \ {x}])
      BY <2>3
    <3>3. QED BY <3>1, <3>2
  <2> DEFINE c == First(T)
  <2>6. c \in T
    BY <1>4, <2>5
  <2>7. sum[T] = f[c] + sum[T \ {c}]
    BY <1>7, <2>5
  <2> HIDE DEF c, First, Step
  <2>8. ASSUME NEW x \in T PROVE T \ {x} \in SUBSET S /\ Fine(T \ {x})
    <3>1. T \ {x} \in SUBSET S /\ Cardinality(T \ {x}) = Cardinality(T) - 1 /\ Cardinality(T) \in Nat
      BY <1>2, <1>3
    <3>2. Cardinality(T \ {x}) < Cardinality(T)
      BY <3>1
    <3>3. QED BY <2>4, <3>1, <3>2
  <2>9. sum[T] \in Nat
    <3>1. sum[T \ {c}] \in Nat /\ f[c] \in Nat
      BY <2>6, <2>8
    <3>2. QED BY <2>7, <3>1
  <2>10. ASSUME NEW x \in T PROVE sum[T] = f[x] + sum[T \ {x}]
    <3>1. CASE x = c
      BY <2>7, <3>1
    <3>2. CASE x # c
      <4> DEFINE both == T \ {x, c}
      <4>1. (T \ {c}) \ {x} = both /\ (T \ {x}) \ {c} = both /\ x \in T \ {c} /\ c \in T \ {x}
        BY <2>6, <3>2
      <4>2. sum[T \ {c}] = f[x] + sum[both]
        BY <2>6, <2>8, <4>1
      <4>3. sum[T \ {x}] = f[c] + sum[both]
        BY <2>8, <4>1
      <4>4. sum[both] \in Nat
        <5>1. both \in SUBSET S /\ Cardinality(both) < Cardinality(T)
          <6>1. T \ {c} \in SUBSET S /\ Cardinality(T \ {c}) = Cardinality(T) - 1
            BY <1>3, <2>6
          <6>2. both \in SUBSET S /\ Cardinality(both) = Cardinality(T \ {c}) - 1
            BY <1>3, <4>1, <6>1
          <6>3. Cardinality(T) \in Nat
            BY <1>2
          <6>4. QED BY <6>1, <6>2, <6>3
        <5>2. QED BY <2>4, <5>1
      <4>5. f[x] \in Nat /\ f[c] \in Nat
        BY <2>6
      <4> HIDE DEF both
      <4>6. QED BY <2>7, <4>2, <4>3, <4>4, <4>5
    <3>3. QED BY <3>1, <3>2
  <2>11. QED BY <2>3, <2>9, <2>10
<1>10. QED BY <1>1, <1>8, <1>9 DEF SumsUp

\* What two functions agree on has one sum.
LEMMA SumsAgree ==
  ASSUME NEW S, IsFiniteSet(S), NEW f, NEW e, NEW g, SumsUp(g, f, S), NEW h, SumsUp(h, e, S),
         NEW T \in SUBSET S, \A x \in T : f[x] = e[x]
  PROVE  g[T] = h[T]
<1> DEFINE Bad == {Cardinality(R) : R \in {Q \in SUBSET T : g[Q] # h[Q]}}
<1>1. \A R \in SUBSET T : R \in SUBSET S /\ IsFiniteSet(R) /\ Cardinality(R) \in Nat
  BY FS_Subset, FS_CardinalityType
<1>2. SUFFICES ASSUME g[T] # h[T] PROVE FALSE
  OBVIOUS
<1>3. PICK n \in Bad : \A k \in Bad : n <= k
  <2>1. Bad \subseteq Nat
    BY <1>1
  <2>2. Cardinality(T) \in Bad
    BY <1>2
  <2> HIDE DEF Bad
  <2>3. QED BY <2>1, <2>2, LeastExists
<1>4. PICK R \in SUBSET T : g[R] # h[R] /\ n = Cardinality(R)
  OBVIOUS
<1>5. R # {}
  BY <1>4 DEF SumsUp
<1>6. PICK x \in R : TRUE
  BY <1>5
<1>7. R \ {x} \in SUBSET T /\ Cardinality(R \ {x}) = Cardinality(R) - 1 /\ Cardinality(R) \in Nat
  BY <1>1, FS_RemoveElement
<1>8. g[R \ {x}] = h[R \ {x}]
  <2>1. g[R \ {x}] # h[R \ {x}] => Cardinality(R \ {x}) \in Bad
    BY <1>7
  <2> HIDE DEF Bad
  <2>2. QED BY <1>3, <1>4, <1>7, <2>1
<1>9. g[R] = f[x] + g[R \ {x}] /\ h[R] = e[x] + h[R \ {x}] /\ f[x] = e[x]
  BY <1>1 DEF SumsUp
<1>10. QED BY <1>4, <1>8, <1>9

\* What is before place k of a sequence that starts at 0.
Before(f, k) == Sum(f, 0..(k - 1))

LEMMA BeforeSteps ==
  ASSUME NEW n \in Nat, NEW f, \A x \in 0..(n - 1) : f[x] \in Nat
  PROVE  /\ Before(f, 0) = 0
         /\ \A k \in 0..n : Before(f, k) \in Nat
         /\ \A k \in 0..(n - 1) : Before(f, k + 1) = Before(f, k) + f[k]
<1> DEFINE S == 0..(n - 1)
<1>1. IsFiniteSet(S)
  BY FS_Interval
<1>2. PICK g : SumsUp(g, f, S)
  BY <1>1, SumIs
<1>3. ASSUME NEW k \in 0..n PROVE Before(f, k) = g[0..(k - 1)] /\ 0..(k - 1) \in SUBSET S
  <2> DEFINE T == 0..(k - 1)
  <2>1. T \in SUBSET S
    OBVIOUS
  <2>2. IsFiniteSet(T)
    BY <1>1, <2>1, FS_Subset
  <2>3. Before(f, k) = Sum(f, T)
    BY DEF Before
  <2> HIDE DEF T, S
  <2>4. \A x \in T : f[x] \in Nat
    BY <2>1 DEF S
  <2>5. PICK h : Sum(f, T) = h[T] /\ SumsUp(h, f, T)
    BY <2>2, <2>4, SumIs
  <2>6. SumsUp(g, f, T)
    BY <1>2, <2>1 DEF SumsUp
  <2>7. T \in SUBSET T /\ \A x \in T : f[x] = f[x]
    OBVIOUS
  <2>8. g[T] = h[T]
    BY <2>2, <2>5, <2>6, <2>7, SumsAgree
  <2>9. QED BY <2>1, <2>3, <2>5, <2>8 DEF T
<1>4. Before(f, 0) = 0
  <2>1. 0..(0 - 1) = {} /\ 0 \in 0..n
    OBVIOUS
  <2> HIDE DEF S
  <2>2. QED BY <1>2, <1>3, <2>1 DEF SumsUp
<1>5. ASSUME NEW k \in 0..n PROVE Before(f, k) \in Nat
  <2> HIDE DEF S
  <2>1. QED BY <1>2, <1>3 DEF SumsUp
<1>6. ASSUME NEW k \in 0..(n - 1) PROVE Before(f, k + 1) = Before(f, k) + f[k]
  <2> DEFINE T == 0..k
  <2>1. k \in T /\ T \ {k} = 0..(k - 1) /\ k + 1 \in 0..n /\ k \in 0..n /\ 0..(k + 1 - 1) = T
    OBVIOUS
  <2> HIDE DEF T
  <2> HIDE DEF S
  <2>2. Before(f, k + 1) = g[T] /\ T \in SUBSET S /\ Before(f, k) = g[T \ {k}]
    <3>1. Before(f, k + 1) = g[0..(k + 1 - 1)] /\ 0..(k + 1 - 1) \in SUBSET S
      BY <1>3, <2>1
    <3>2. Before(f, k) = g[0..(k - 1)]
      BY <1>3, <2>1
    <3>3. QED BY <2>1, <3>1, <3>2, Zenon
  <2>3. g[T] = f[k] + g[T \ {k}] /\ g[T \ {k}] \in Nat
    BY <1>2, <2>1, <2>2 DEF SumsUp
  <2>4. f[k] \in Nat
    BY DEF S
  <2>5. QED BY <2>2, <2>3, <2>4
<1>7. QED BY <1>4, <1>5, <1>6

\* One request more, just now.
LEMMA OneMore ==
  ASSUME NEW n \in Nat, NEW f, \A x \in 0..(n - 1) : f[x] \in Nat,
         NEW h, \A x \in 0..(n - 1) : h[x] = IF x = 0 THEN f[x] + 1 ELSE f[x]
  PROVE  \A k \in 1..n : Before(h, k) = Before(f, k) + 1
<1> DEFINE Bad == {k \in 1..n : Before(h, k) # Before(f, k) + 1}
<1>1. SUFFICES ASSUME Bad # {} PROVE FALSE
  OBVIOUS
<1>2. PICK k \in Bad : \A l \in Bad : k <= l
  <2>1. Bad \subseteq Nat
    OBVIOUS
  <2> HIDE DEF Bad
  <2>2. QED BY <1>1, <2>1, LeastExists
<1>3. \A x \in 0..(n - 1) : h[x] \in Nat
  OBVIOUS
<1>4. k \in 1..n /\ Before(h, k) # Before(f, k) + 1
  OBVIOUS
<1>5. k - 1 \in 0..(n - 1) /\ k - 1 \in 0..n /\ (k - 1) + 1 = k
  BY <1>4
<1>6. /\ Before(f, 0) = 0 /\ Before(h, 0) = 0
      /\ Before(f, k - 1) \in Nat /\ Before(h, k - 1) \in Nat
      /\ Before(f, k) = Before(f, k - 1) + f[k - 1]
      /\ Before(h, k) = Before(h, k - 1) + h[k - 1]
  <2>1. \A l \in 0..(n - 1) : Before(f, l + 1) = Before(f, l) + f[l] /\ Before(h, l + 1) = Before(h, l) + h[l]
    BY <1>3, BeforeSteps
  <2>2. /\ Before(f, 0) = 0 /\ Before(h, 0) = 0
        /\ \A l \in 0..n : Before(f, l) \in Nat /\ Before(h, l) \in Nat
    BY <1>3, BeforeSteps
  <2> HIDE DEF Bad
  <2>3. QED BY <1>5, <2>1, <2>2
<1>7. CASE k = 1
  BY <1>4, <1>5, <1>6, <1>7
<1>8. CASE k # 1
  <2>1. k - 1 \in 1..n /\ k - 1 < k /\ k - 1 # 0
    BY <1>4, <1>8
  <2>2. Before(h, k - 1) = Before(f, k - 1) + 1
    <3>1. k - 1 \notin Bad
      <4> HIDE DEF Bad
      <4>1. k \in Int
        BY <1>4
      <4>2. QED BY <1>2, <2>1, <4>1
    <3>2. QED BY <2>1, <3>1
  <2>3. h[k - 1] = f[k - 1] /\ f[k - 1] \in Nat
    BY <1>5, <2>1
  <2>4. QED BY <1>4, <1>6, <2>2, <2>3
<1>9. QED BY <1>7, <1>8

\* A unit of time later.
LEMMA OneOlder ==
  ASSUME NEW n \in Nat, NEW f, \A x \in 0..(n - 1) : f[x] \in Nat,
         NEW h, \A x \in 0..(n - 1) : h[x] = IF x = 0 THEN 0 ELSE f[x - 1]
  PROVE  \A k \in 0..(n - 1) : Before(h, k + 1) = Before(f, k)
<1> DEFINE Bad == {k \in 0..(n - 1) : Before(h, k + 1) # Before(f, k)}
<1>1. SUFFICES ASSUME Bad # {} PROVE FALSE
  OBVIOUS
<1>2. PICK k \in Bad : \A l \in Bad : k <= l
  <2>1. Bad \subseteq Nat
    OBVIOUS
  <2> HIDE DEF Bad
  <2>2. QED BY <1>1, <2>1, LeastExists
<1>3. \A x \in 0..(n - 1) : h[x] \in Nat
  <2>1. TAKE x \in 0..(n - 1)
  <2>2. x # 0 => x - 1 \in 0..(n - 1)
    OBVIOUS
  <2>3. QED BY <2>2
<1>4. k \in 0..(n - 1) /\ Before(h, k + 1) # Before(f, k)
  OBVIOUS
<1>5. \A l \in 0..(n - 1) : Before(f, l + 1) = Before(f, l) + f[l] /\ Before(h, l + 1) = Before(h, l) + h[l]
  BY <1>3, BeforeSteps
<1>6. /\ Before(f, 0) = 0 /\ Before(h, 0) = 0
      /\ \A l \in 0..n : Before(f, l) \in Nat /\ Before(h, l) \in Nat
  BY <1>3, BeforeSteps
<1>7. CASE k = 0
  <2>1. h[0] = 0 /\ Before(h, k + 1) = Before(h, 0) + h[0]
    BY <1>4, <1>5, <1>7
  <2>2. QED BY <1>4, <1>6, <1>7, <2>1
<1>8. CASE k # 0
  <2>1. k - 1 \in 0..(n - 1) /\ k - 1 < k /\ (k - 1) + 1 = k
    BY <1>4, <1>8
  <2>2. Before(h, k) = Before(f, k - 1)
    <3>1. k - 1 \notin Bad
      <4> HIDE DEF Bad
      <4>1. k \in Int
        BY <1>4
      <4>2. QED BY <1>2, <2>1, <4>1
    <3>2. QED BY <2>1, <3>1
  <2>3. h[k] = f[k - 1]
    BY <1>4, <1>8
  <2>4. Before(h, k + 1) = Before(h, k) + h[k] /\ Before(f, k) = Before(f, k - 1) + f[k - 1]
    <3> HIDE DEF Bad
    <3>1. Before(h, k + 1) = Before(h, k) + h[k]
      BY <1>4, <1>5
    <3>2. Before(f, (k - 1) + 1) = Before(f, k - 1) + f[k - 1]
      BY <1>5, <2>1
    <3>3. QED BY <2>1, <3>1, <3>2
  <2>5. QED BY <1>4, <2>2, <2>3, <2>4
<1>9. QED BY <1>7, <1>8

-------------------------------------------------------------------------------
(***************************************************************************)
(* Budgets.  What the observer sees is split at the opening of the window: *)
(* the requests since then are among those the window counts, and those    *)
(* before it are of one window, which had a budget of its own.  Once a     *)
(* window is over, all that is seen was of it.                             *)
(***************************************************************************)
SeenFor(d, s, f) ==
  LET W == Limits[d].window
      B == Limits[d].budget
      Since == Before(f, W - s.windowLeft + 1)
  IN W > 0 =>
       /\ s.windowLeft <= W
       /\ s.windowLeft > 0 => Since <= s.windowCount /\ Before(f, W) <= Since + B
       /\ s.windowLeft = 0 => f[0] = 0 /\ Before(f, W) <= B

WindowsSeen == \A d \in Domains : SeenFor(d, limiter[d], recent[d])

\* What there is to know of the numbers of a domain.
LEMMA SeenTyped ==
  ASSUME HTypeOK, NEW d \in Domains
  PROVE  LET W == Limits[d].window
             f == recent[d]
         IN /\ W \in Nat /\ Limits[d].budget \in Nat /\ Ages(d) = 0..(W - 1)
            /\ limiter[d] \in DomainState /\ limiter[d].windowLeft \in Nat /\ limiter[d].windowCount \in Nat
            /\ \A x \in 0..(W - 1) : f[x] \in Nat
            /\ Before(f, 0) = 0
            /\ \A k \in 0..W : Before(f, k) \in Nat
            /\ \A k \in 0..(W - 1) : Before(f, k + 1) = Before(f, k) + f[k]
<1>1. Limits[d].window \in Nat /\ Limits[d].budget \in Nat
  BY LimitsTyped
<1>2. limiter[d] \in DomainState /\ limiter[d].windowLeft \in Nat /\ limiter[d].windowCount \in Nat
  BY DEF HTypeOK, RLTypeOK, DomainState
<1>3. \A x \in 0..(Limits[d].window - 1) : recent[d][x] \in Nat
  BY DEF HTypeOK, Ages
<1>4. QED BY <1>1, <1>2, <1>3, BeforeSteps, Zenon DEF Ages

LEMMA SeenRefreshed ==
  ASSUME HTypeOK, NEW d \in Domains, SeenFor(d, limiter[d], recent[d])
  PROVE  SeenFor(d, Refreshed(d, limiter[d]), recent[d])
<1> DEFINE W == Limits[d].window
           B == Limits[d].budget
           f == recent[d]
           s == limiter[d]
           r == Refreshed(d, s)
<1>1. /\ W \in Nat /\ B \in Nat /\ s \in DomainState /\ s.windowLeft \in Nat
      /\ Before(f, 0) = 0
      /\ \A k \in 0..W : Before(f, k) \in Nat
      /\ \A k \in 0..(W - 1) : Before(f, k + 1) = Before(f, k) + f[k]
  BY SeenTyped
<1>2. CASE s.windowLeft > 0
  BY <1>2 DEF Refreshed
<1>3. CASE s.windowLeft = 0 /\ W > 0
  <2>1. r.windowLeft = W /\ r.windowCount = 0
    BY <1>1, <1>3 DEF Refreshed, DomainState
  <2>2. f[0] = 0 /\ Before(f, W) <= B
    BY <1>3 DEF SeenFor
  <2>3. Before(f, 0 + 1) = Before(f, 0) + f[0]
    <3>1. 0 \in 0..(W - 1)
      BY <1>1, <1>3
    <3> HIDE DEF f, W
    <3>2. QED BY <1>1, <3>1
  <2>4. W - r.windowLeft + 1 = 0 + 1
    BY <1>1, <2>1
  <2>5. Before(f, W - r.windowLeft + 1) = 0 /\ Before(f, W) \in Nat
    <3>1. W \in 0..W
      BY <1>1
    <3>2. Before(f, W - r.windowLeft + 1) = 0 + 0
      BY <1>1, <2>2, <2>3, <2>4
    <3> HIDE DEF f, W
    <3>3. QED BY <1>1, <3>1, <3>2
  <2> HIDE DEF f, r
  <2>6. QED BY <1>1, <1>3, <2>1, <2>2, <2>5 DEF SeenFor, f, r
<1>4. CASE W = 0
  BY <1>4 DEF SeenFor
<1>5. QED BY <1>1, <1>2, <1>3, <1>4

\* A state that counts one request more, seen or not.
LEMMA SeenAdmitted ==
  ASSUME HTypeOK, NEW d \in Domains, NEW s \in DomainState, SeenFor(d, s, recent[d]),
         NEW t \in DomainState, t.windowLeft = s.windowLeft, t.windowCount = s.windowCount + 1,
         NEW h, \/ h = recent[d]
                \/ /\ h = [a \in Ages(d) |-> IF a = 0 THEN recent[d][a] + 1 ELSE recent[d][a]]
                   /\ Limits[d].window > 0 => s.windowLeft > 0
  PROVE  SeenFor(d, t, h)
<1> DEFINE W == Limits[d].window
           B == Limits[d].budget
           f == recent[d]
<1>1. /\ W \in Nat /\ B \in Nat /\ Ages(d) = 0..(W - 1)
      /\ \A x \in 0..(W - 1) : f[x] \in Nat
      /\ \A k \in 0..W : Before(f, k) \in Nat
  BY SeenTyped
<1>2. s.windowLeft \in Nat /\ s.windowCount \in Nat
  BY DEF DomainState
<1>3. CASE W = 0
  BY <1>3 DEF SeenFor
<1>4. CASE W > 0 /\ s.windowLeft = 0
  <2>1. h = f
    BY <1>4
  <2>2. f[0] = 0 /\ Before(f, W) <= B
    BY <1>4 DEF SeenFor
  <2> HIDE DEF f
  <2>3. QED BY <1>1, <1>2, <1>4, <2>1, <2>2 DEF SeenFor
<1>5. CASE W > 0 /\ s.windowLeft > 0
  <2> DEFINE k == W - s.windowLeft + 1
  <2>1. s.windowLeft <= W /\ Before(f, k) <= s.windowCount /\ Before(f, W) <= Before(f, k) + B
    BY <1>5 DEF SeenFor
  <2>2. k \in 1..W /\ W \in 1..W /\ k \in 0..W /\ W \in 0..W
    BY <1>1, <1>2, <1>5, <2>1
  <2> HIDE DEF f, k
  <2>3. Before(f, k) \in Nat /\ Before(f, W) \in Nat
    BY <1>1, <2>2
  <2>4. CASE h = f
    <3>1. Before(h, k) <= t.windowCount /\ Before(h, W) <= Before(h, k) + B
      BY <1>2, <2>1, <2>3, <2>4
    <3>2. QED BY <1>2, <1>5, <2>1, <3>1 DEF SeenFor, k
  <2>5. CASE h = [a \in Ages(d) |-> IF a = 0 THEN f[a] + 1 ELSE f[a]]
    <3>1. \A x \in 0..(W - 1) : h[x] = IF x = 0 THEN f[x] + 1 ELSE f[x]
      BY <1>1, <2>5
    <3> HIDE DEF W
    <3>2. Before(h, k) = Before(f, k) + 1 /\ Before(h, W) = Before(f, W) + 1
      <4>1. \A l \in 1..W : Before(h, l) = Before(f, l) + 1
        BY <1>1, <3>1, OneMore, Zenon
      <4>2. QED BY <2>2, <4>1
    <3>3. Before(h, k) <= t.windowCount /\ Before(h, W) <= Before(h, k) + B
      BY <1>1, <1>2, <2>1, <2>3, <3>2
    <3>4. QED BY <1>2, <1>5, <2>1, <3>3 DEF SeenFor, k, W
  <2>6. QED BY <2>4, <2>5 DEF f
<1>6. QED BY <1>1, <1>2, <1>3, <1>4, <1>5

\* A state of the same window.
LEMMA SeenSame ==
  ASSUME NEW d, NEW s, NEW f, SeenFor(d, s, f), NEW t, t.windowLeft = s.windowLeft,
         t.windowCount = s.windowCount
  PROVE  SeenFor(d, t, f)
BY DEF SeenFor

\* h is the history f, a unit of time later.
IsOlder(n, f, h) == /\ n \in Nat /\ \A x \in 0..(n - 1) : f[x] \in Nat
                    /\ \A x \in 0..(n - 1) : h[x] = IF x = 0 THEN 0 ELSE f[x - 1]

SumsOlder(n, f, h) == \A k \in 0..(n - 1) : Before(h, k + 1) = Before(f, k)

LEMMA OlderSums ==
  ASSUME NEW n, NEW f, NEW h, IsOlder(n, f, h)
  PROVE  SumsOlder(n, f, h)
BY OneOlder, Zenon DEF IsOlder, SumsOlder

LEMMA SeenElapsed ==
  ASSUME HTypeOK, NEW d \in Domains, SeenFor(d, limiter[d], recent[d]),
         Limits[d].window > 0 => limiter[d].windowCount <= Limits[d].budget,
         NEW h, \A a \in Ages(d) : h[a] = IF a = 0 THEN 0 ELSE recent[d][a - 1]
  PROVE  SeenFor(d, Elapsed(limiter[d]), h)
<1> DEFINE W == Limits[d].window
           B == Limits[d].budget
           f == recent[d]
           s == limiter[d]
           t == Elapsed(s)
<1>1. /\ W \in Nat /\ B \in Nat /\ Ages(d) = 0..(W - 1) /\ s \in DomainState
      /\ s.windowLeft \in Nat /\ s.windowCount \in Nat
      /\ \A x \in 0..(W - 1) : f[x] \in Nat
      /\ \A k \in 0..W : Before(f, k) \in Nat
      /\ \A k \in 0..(W - 1) : Before(f, k + 1) = Before(f, k) + f[k]
  BY SeenTyped
<1>2. t.windowLeft = Less(s.windowLeft) /\ t.windowCount = s.windowCount
  BY <1>1, ElapsedState
<1> DEFINE w == s.windowLeft
<1>6. w \in Nat /\ W \in Nat /\ t.windowLeft = IF w > 0 THEN w - 1 ELSE 0
  BY <1>1, <1>2 DEF Less
<1>3. CASE W = 0
  BY <1>3 DEF SeenFor
<1>4. CASE W > 0
  <2>1. /\ s.windowLeft <= W
        /\ s.windowLeft > 0 => /\ Before(f, W - s.windowLeft + 1) <= s.windowCount
                               /\ Before(f, W) <= Before(f, W - s.windowLeft + 1) + B
        /\ s.windowLeft = 0 => Before(f, W) <= B
    BY <1>4 DEF SeenFor
  <2>2. \A x \in 0..(W - 1) : h[x] = IF x = 0 THEN 0 ELSE f[x - 1]
    BY <1>1
  <2> HIDE DEF f, W
  <2>3. \A k \in 0..(W - 1) : Before(h, k + 1) = Before(f, k)
    <3>1. IsOlder(W, f, h)
      BY <1>1, <2>2, Zenon DEF IsOlder
    <3>2. SumsOlder(W, f, h)
      BY <3>1, OlderSums, Zenon
    <3>3. QED BY <3>2 DEF SumsOlder
  <2>4. h[0] = 0
    BY <1>1, <1>4, <2>2
  <2>5. Before(h, W) = Before(f, W - 1) /\ Before(f, W - 1) \in Nat /\ Before(f, W) \in Nat
        /\ Before(f, W - 1) <= Before(f, W)
    <3>1. W - 1 \in 0..(W - 1) /\ W - 1 \in 0..W /\ W \in 0..W /\ (W - 1) + 1 = W
      BY <1>1, <1>4
    <3>2. Before(h, (W - 1) + 1) = Before(f, W - 1) /\ Before(f, (W - 1) + 1) = Before(f, W - 1) + f[W - 1]
      BY <1>1, <2>3, <3>1
    <3>3. f[W - 1] \in Nat /\ Before(f, W - 1) \in Nat /\ Before(f, W) \in Nat
      BY <1>1, <3>1
    <3> HIDE DEF f
    <3>4. QED BY <3>1, <3>2, <3>3
  <2>10. w <= W
    BY <2>1
  <2> HIDE DEF s, t, B, w
  <2>6. CASE s.windowLeft = 0
    <3>1. t.windowLeft = 0
      BY <1>2, <2>6 DEF Less
    <3>2. Before(h, W) <= B
      BY <1>1, <2>1, <2>5, <2>6
    <3>3. QED BY <1>1, <2>4, <3>1, <3>2 DEF SeenFor, W, B, t, s
  <2>7. CASE s.windowLeft = 1
    <3>1. t.windowLeft = 0
      BY <1>2, <2>7 DEF Less
    <3>2. W - s.windowLeft + 1 = W
      BY <1>1, <2>7
    <3>3. Before(h, W) <= B
      <4>1. s.windowCount <= B
        BY <1>4 DEF s, B, W
      <4>2. QED BY <1>1, <2>1, <2>5, <2>7, <3>2, <4>1
    <3>4. QED BY <1>1, <2>4, <3>1, <3>3 DEF SeenFor, W, B, t, s
  <2>8. CASE s.windowLeft > 1
    <3> DEFINE k == W - s.windowLeft + 1
    <3>1. t.windowLeft = s.windowLeft - 1 /\ t.windowLeft > 0 /\ t.windowLeft <= W
      <4>1. w > 1
        BY <2>8 DEF w
      <4>2. t.windowLeft = w - 1 /\ t.windowLeft > 0 /\ t.windowLeft <= W
        BY <1>6, <2>10, <4>1
      <4>3. QED BY <4>2 DEF w
    <3>2. k \in 0..(W - 1) /\ W - t.windowLeft + 1 = k + 1
      <4>1. w > 1 /\ t.windowLeft = w - 1
        BY <2>8, <3>1 DEF w
      <4>2. W - w + 1 \in 0..(W - 1) /\ W - (w - 1) + 1 = (W - w + 1) + 1
        BY <1>6, <2>10, <4>1
      <4>3. QED BY <4>1, <4>2 DEF w
    <3>3. Before(f, k) <= s.windowCount /\ Before(f, W) <= Before(f, k) + B
      BY <1>1, <2>1, <2>8
    <3> HIDE DEF k
    <3>4. Before(h, k + 1) = Before(f, k) /\ Before(f, k) \in Nat
      <4>1. k \in 0..W
        BY <1>1, <3>2
      <4>2. QED BY <1>1, <2>3, <3>2, <4>1
    <3>5. Before(h, W - t.windowLeft + 1) <= t.windowCount /\ Before(h, W) <= Before(h, W - t.windowLeft + 1) + B
      <4>1. Before(f, W - 1) <= Before(f, k) + B
        BY <1>1, <2>5, <3>3, <3>4
      <4>2. QED BY <1>2, <2>5, <3>2, <3>3, <3>4, <4>1
    <3>6. QED BY <3>1, <3>5 DEF SeenFor, W, B, t, s
  <2>9. w = 0 \/ w = 1 \/ w > 1
    BY <1>6
  <2>11. QED BY <2>6, <2>7, <2>8, <2>9 DEF w
<1>5. QED BY <1>1, <1>3, <1>4

LEMMA SeenInit == HInit => WindowsSeen
<1> SUFFICES ASSUME HInit, NEW d \in Domains PROVE SeenFor(d, limiter[d], recent[d])
  BY DEF WindowsSeen
<1> DEFINE W == Limits[d].window
           f == recent[d]
<1>1. HTypeOK
  BY HTypeInit
<1>2. /\ W \in Nat /\ Limits[d].budget \in Nat /\ Ages(d) = 0..(W - 1)
      /\ Before(f, 0) = 0
      /\ \A k \in 0..W : Before(f, k) \in Nat
      /\ \A k \in 0..(W - 1) : Before(f, k + 1) = Before(f, k) + f[k]
  BY <1>1, SeenTyped
<1>3. limiter[d].windowLeft = 0 /\ \A x \in 0..(W - 1) : f[x] = 0
  BY <1>2, NewState DEF HInit, RLInit
<1> HIDE DEF f
<1>4. \A k \in 0..W : Before(f, k) = 0
  <2> DEFINE Bad == {k \in 0..W : Before(f, k) # 0}
  <2>1. SUFFICES ASSUME Bad # {} PROVE FALSE
    OBVIOUS
  <2>2. PICK k \in Bad : \A l \in Bad : k <= l
    <3>1. Bad \subseteq Nat
      BY <1>2
    <3> HIDE DEF Bad
    <3>2. QED BY <2>1, <3>1, LeastExists
  <2>3. k \in 0..W /\ k # 0 /\ Before(f, k) # 0
    BY <1>2
  <2>4. k - 1 \in 0..(W - 1) /\ k - 1 \in 0..W /\ k - 1 < k /\ (k - 1) + 1 = k
    BY <1>2, <2>3
  <2>5. Before(f, k - 1) = 0
    <3>1. k - 1 \notin Bad
      <4> HIDE DEF Bad
      <4>1. k \in Int
        BY <2>3
      <4>2. QED BY <2>2, <2>4, <4>1
    <3>2. QED BY <2>4, <3>1
  <2>6. Before(f, (k - 1) + 1) = Before(f, k - 1) + f[k - 1] /\ f[k - 1] = 0
    <3> HIDE DEF Bad
    <3>1. QED BY <1>2, <1>3, <2>4
  <2>7. QED BY <2>3, <2>4, <2>5, <2>6
<1>5. W > 0 => f[0] = 0 /\ Before(f, W) = 0
  BY <1>2, <1>3, <1>4
<1>6. QED BY <1>2, <1>3, <1>5 DEF SeenFor, f

LEMMA SeenStep == HTypeOK /\ WithinLimits /\ WindowsSeen /\ [HNext]_hVars => WindowsSeen'
<1> SUFFICES ASSUME HTypeOK, WithinLimits, WindowsSeen, [HNext]_hVars, NEW e \in Domains
             PROVE  SeenFor(e, limiter'[e], recent'[e])
  BY DEF WindowsSeen
<1>1. limiter \in [Domains -> DomainState] /\ DOMAIN recent = Domains /\ SeenFor(e, limiter[e], recent[e])
  BY DEF HTypeOK, RLTypeOK, WindowsSeen
<1>2. ASSUME NEW d \in Domains
      PROVE  /\ limiter[d] \in DomainState
             /\ Refreshed(d, limiter[d]) \in DomainState
             /\ SeenFor(d, Refreshed(d, limiter[d]), recent[d])
             /\ SeenFor(d, limiter[d], recent[d])
  BY <1>1, RefreshedState, SeenRefreshed DEF WindowsSeen
<1>3. ASSUME NEW d \in Domains, NEW t, limiter' = [limiter EXCEPT ![d] = t], UNCHANGED recent,
             SeenFor(d, t, recent[d])
      PROVE  SeenFor(e, limiter'[e], recent'[e])
  BY <1>1, <1>3
<1>4. ASSUME NEW d \in Domains, HQuery(d) PROVE SeenFor(e, limiter'[e], recent'[e])
  BY <1>2, <1>3, <1>4 DEF HQuery, Query, hist
<1>5. ASSUME NEW c \in Callers, NEW d \in Domains, HAdmit(c, d) PROVE SeenFor(e, limiter'[e], recent'[e])
  <2> DEFINE s == Refreshed(d, limiter[d])
             seen == [a \in Ages(d) |-> IF a = 0 THEN recent[d][a] + 1 ELSE recent[d][a]]
  <2>1. d # NoDomain
    BY CallersAssumption
  <2>2. /\ limiter' = [limiter EXCEPT ![d] = Admitted(d, s)]
        /\ recent' = [recent EXCEPT ![d] = seen]
    BY <1>5, <2>1 DEF HAdmit, Acquire, NoteRequest
  <2>3. s \in DomainState /\ SeenFor(d, s, recent[d]) /\ (Limits[d].window > 0 => s.windowLeft > 0)
    BY <1>2, RefreshedState
  <2>4. /\ Admitted(d, s) \in DomainState /\ Admitted(d, s).windowLeft = s.windowLeft
        /\ Admitted(d, s).windowCount = s.windowCount + 1
    BY <2>3, AdmittedState
  <2> HIDE DEF s
  <2>5. SeenFor(d, Admitted(d, s), seen)
    BY <2>3, <2>4, SeenAdmitted
  <2> HIDE DEF seen
  <2>6. QED BY <1>1, <2>2, <2>5
<1>6. ASSUME NEW c \in Callers, NEW d \in Domains, HRefuse(c, d) PROVE SeenFor(e, limiter'[e], recent'[e])
  <2>1. limiter' = [limiter EXCEPT ![d] = Refreshed(d, limiter[d])] /\ UNCHANGED recent
    BY <1>6 DEF HRefuse, Acquire, hist, HTypeOK, RLTypeOK
  <2>2. QED BY <1>2, <1>3, <2>1
<1>7. ASSUME NEW c \in Callers, NEW d \in Domains, NEW success \in BOOLEAN, HRelease(c, d, success)
      PROVE  SeenFor(e, limiter'[e], recent'[e])
  <2> DEFINE t == Released(limiter[d], success)
  <2>1. t.windowLeft = limiter[d].windowLeft /\ t.windowCount = limiter[d].windowCount
    BY <1>2, ReleasedState
  <2>2. limiter' = [limiter EXCEPT ![d] = t] /\ UNCHANGED recent
    BY <1>7 DEF HRelease, Release, hist
  <2> HIDE DEF t
  <2>3. SeenFor(d, t, recent[d])
    BY <1>2, <2>1, SeenSame
  <2>4. QED BY <1>3, <2>2, <2>3
<1>8. ASSUME NEW c \in Callers, NEW d \in Domains, HBackOff(c, d) PROVE SeenFor(e, limiter'[e], recent'[e])
  <2> DEFINE u == Errored(d, limiter[d])
             t == Released(u, FALSE)
  <2>1. u \in DomainState /\ u.windowLeft = limiter[d].windowLeft /\ u.windowCount = limiter[d].windowCount
    BY <1>2, ErroredState
  <2>2. t.windowLeft = limiter[d].windowLeft /\ t.windowCount = limiter[d].windowCount
    BY <2>1, ReleasedState
  <2>3. limiter' = [limiter EXCEPT ![d] = t] /\ UNCHANGED recent
    BY <1>8 DEF HBackOff, BackOff
  <2> HIDE DEF t
  <2>4. SeenFor(d, t, recent[d])
    BY <1>2, <2>2, SeenSame
  <2>5. QED BY <1>3, <2>3, <2>4
<1>9. ASSUME NEW c \in Callers, NEW d \in Domains, HTouch(c, d) PROVE SeenFor(e, limiter'[e], recent'[e])
  <2> DEFINE s == Refreshed(d, limiter[d])
             u == Admitted(d, s)
             t == Released(u, TRUE)
  <2>1. limiter' = [limiter EXCEPT ![d] = t] /\ UNCHANGED recent
    BY <1>9 DEF HTouch, Touch, hist
  <2>2. u \in DomainState /\ u.windowLeft = s.windowLeft /\ u.windowCount = s.windowCount + 1
    BY <1>2, AdmittedState
  <2>3. t.windowLeft = u.windowLeft /\ t.windowCount = u.windowCount
    BY <2>2, ReleasedState
  <2> HIDE DEF s, u, t
  <2>4. SeenFor(d, u, recent[d])
    BY <1>2, <2>2, SeenAdmitted DEF s
  <2>5. SeenFor(d, t, recent[d])
    BY <2>3, <2>4, SeenSame
  <2>6. QED BY <1>3, <2>1, <2>5
<1>10. ASSUME HTick PROVE SeenFor(e, limiter'[e], recent'[e])
  <2> DEFINE h == [a \in Ages(e) |-> IF a = 0 THEN 0 ELSE recent[e][a - 1]]
  <2>1. limiter'[e] = Elapsed(limiter[e]) /\ recent'[e] = h
    BY <1>10 DEF HTick, Tick
  <2>2. Limits[e].window > 0 => limiter[e].windowCount <= Limits[e].budget
    BY DEF WithinLimits
  <2>3. \A a \in Ages(e) : h[a] = IF a = 0 THEN 0 ELSE recent[e][a - 1]
    OBVIOUS
  <2> HIDE DEF h
  <2>4. SeenFor(e, Elapsed(limiter[e]), h)
    BY <1>1, <2>2, <2>3, SeenElapsed
  <2>5. QED BY <2>1, <2>4
<1>11. CASE UNCHANGED hVars
  BY <1>1, <1>11 DEF hVars
<1>12. QED
  BY <1>4, <1>5, <1>6, <1>7, <1>8, <1>9, <1>10, <1>11 DEF HNext

LEMMA BudgetSeen == HTypeOK /\ WithinLimits /\ WindowsSeen => SpanBudget
<1> SUFFICES ASSUME HTypeOK, WithinLimits, WindowsSeen, NEW d \in Domains
             PROVE  MapThenSumSet(LAMBDA a : recent[d][a], Ages(d)) <= 2 * Limits[d].budget
  BY DEF SpanBudget
<1> DEFINE W == Limits[d].window
           B == Limits[d].budget
           f == recent[d]
           s == limiter[d]
<1>1. /\ W \in Nat /\ B \in Nat /\ Ages(d) = 0..(W - 1)
      /\ s.windowLeft \in Nat /\ s.windowCount \in Nat
      /\ Before(f, 0) = 0
      /\ \A k \in 0..W : Before(f, k) \in Nat
  BY SeenTyped
<1>2. MapThenSumSet(LAMBDA a : recent[d][a], Ages(d)) = Before(f, W)
  BY <1>1 DEF Before, Sum
<1>3. CASE W = 0
  BY <1>1, <1>2, <1>3
<1>4. CASE W > 0
  <2> DEFINE k == W - s.windowLeft + 1
  <2>1. /\ s.windowLeft <= W
        /\ s.windowLeft > 0 => Before(f, k) <= s.windowCount /\ Before(f, W) <= Before(f, k) + B
        /\ s.windowLeft = 0 => Before(f, W) <= B
    BY <1>4 DEF WindowsSeen, SeenFor
  <2>2. s.windowCount <= B
    BY <1>4 DEF WithinLimits
  <2>3. W \in 0..W /\ (s.windowLeft > 0 => k \in 0..W)
    BY <1>1, <2>1
  <2> HIDE DEF f, W, B, s, k
  <2>4. Before(f, W) \in Nat /\ (s.windowLeft > 0 => Before(f, k) \in Nat)
    BY <1>1, <2>3
  <2>5. Before(f, W) <= 2 * B
    BY <1>1, <2>1, <2>2, <2>4
  <2>6. QED BY <1>2, <2>5 DEF B
<1>5. QED BY <1>1, <1>3, <1>4

(***************************************************************************)
(* In any span of one window length a domain sees at most two budgets of   *)
(* requests, for any number of callers and any policies, although windows  *)
(* are opened at any time and do not slide.                                *)
(***************************************************************************)
THEOREM SpansAreBounded == HSpec => []SpanBudget
<1>1. HTypeOK /\ (RLTypeOK /\ SlotsExact /\ WithinLimits) /\ WindowsSeen /\ [HNext]_hVars
        => WindowsSeen'
  BY SeenStep
<1>2. HTypeOK /\ (RLTypeOK /\ SlotsExact /\ WithinLimits) /\ WindowsSeen => SpanBudget
  BY BudgetSeen
<1>3. QED
  BY <1>1, <1>2, HistoryTyped, LimiterFacts, SeenInit, PTL DEF HSpec
====

-------------------------- MODULE ChangeAlerts_proofs --------------------------
(***************************************************************************)
(* The choice of canonical facts is well defined; the change log is exact  *)
(* and append-only; alerts respect the hard constraints.  For every set of *)
(* facts, listings, specs and threads.                                     *)
(***************************************************************************)
EXTENDS ChangeAlerts, FiniteSetTheorems, TLAPS

-------------------------------------------------------------------------------
(***************************************************************************)
(* The ranking is a strict total order, so a finite set has a best fact.   *)
(***************************************************************************)
LEMMA FactTyped ==
  ASSUME NEW f \in FactIds
  PROVE  /\ f \in Nat /\ FactOf[f] \in Fact
         /\ FactOf[f].trust \in Nat /\ FactOf[f].at \in Nat /\ FactOf[f].confidence \in Nat
         /\ FactOf[f].value \in Values /\ FactOf[f].value # NoValue
         /\ f # NoFact
  BY FactsAssumption DEF Fact

LEMMA RankingTotal ==
  ASSUME NEW f \in FactIds, NEW g \in FactIds, f # g
  PROVE  Outranks(f, g) \/ Outranks(g, f)
  BY FactTyped DEF Outranks

LEMMA RankingStrict ==
  ASSUME NEW f \in FactIds, NEW g \in FactIds, Outranks(f, g)
  PROVE  ~Outranks(g, f) /\ f # g
  BY FactTyped DEF Outranks

LEMMA RankingTransitive ==
  ASSUME NEW f \in FactIds, NEW g \in FactIds, NEW h \in FactIds,
         Outranks(f, g), Outranks(g, h)
  PROVE  Outranks(f, h)
  BY FactTyped DEF Outranks

LEMMA BestExists ==
  ASSUME NEW S \in SUBSET FactIds, S # {}
  PROVE  \E f \in S : \A g \in S \ {f} : Outranks(f, g)
<1> DEFINE Above(f) == {g \in S : Outranks(g, f)}
           T == {Above(f) : f \in S}
<1>1. IsFiniteSet(S)
  BY FactsAssumption, FS_Subset
<1>2. T \subseteq FiniteSubsetsOf(S) /\ T # {}
  <2>1. FiniteSubsetsOf(S) = SUBSET S
    BY <1>1, FS_FiniteSubsetsOfFinite
  <2>2. PICK f : f \in S
    OBVIOUS
  <2>3. Above(f) \in T /\ T \subseteq SUBSET S
    BY <2>2
  <2> HIDE DEF T
  <2>4. QED BY <2>1, <2>3
<1>3. IsWellFoundedOn(StrictSubsetOrdering(S), FiniteSubsetsOf(S))
  BY FS_StrictSubsetOrderingWellFounded
<1>4. PICK x \in T : \A y \in T : ~(<<y, x>> \in StrictSubsetOrdering(S))
  <2> HIDE DEF T
  <2> QED BY <1>2, <1>3, WFMin
<1>5. PICK f \in S : x = Above(f)
  OBVIOUS
<1>6. ASSUME NEW g \in S, Outranks(g, f) PROVE FALSE
  <2>1. Above(g) \subseteq Above(f)
    BY <1>6, RankingTransitive
  <2>2. g \in Above(f) /\ g \notin Above(g)
    BY <1>6, RankingStrict
  <2>3. <<Above(g), x>> \in StrictSubsetOrdering(S)
    BY <1>5, <2>1, <2>2 DEF StrictSubsetOrdering
  <2>4. QED BY <1>4, <2>3
<1>7. QED BY <1>6, RankingTotal

(***************************************************************************)
(* The fact canonicalize chooses outranks every other usable fact of the   *)
(* field it was given: in particular no fact is trusted more.              *)
(***************************************************************************)
THEOREM WinnerOutranksAll ==
  ASSUME NEW S \in SUBSET FactIds, S # {}
  PROVE  /\ Winner(S) \in S
         /\ \A g \in S \ {Winner(S)} : Outranks(Winner(S), g)
         /\ \A g \in S : FactOf[Winner(S)].trust >= FactOf[g].trust
<1>1. Winner(S) \in S /\ \A g \in S \ {Winner(S)} : Outranks(Winner(S), g)
  BY BestExists DEF Winner
<1>2. ASSUME NEW g \in S PROVE FactOf[Winner(S)].trust >= FactOf[g].trust
  BY <1>1, FactTyped DEF Outranks
<1>3. QED BY <1>1, <1>2

-------------------------------------------------------------------------------
(***************************************************************************)
(* What canonicalize computes.                                             *)
(***************************************************************************)
LEMMA ChosenTyped ==
  ASSUME NEW inputs \in SUBSET FactIds
  PROVE  /\ Chosen(inputs) \in Canonical
         /\ \A p \in Fields : Candidates(inputs, p) # {} =>
              Chosen(inputs)[p] = Winner(Candidates(inputs, p))
         /\ \A p \in Fields : Candidates(inputs, p) = {} => Chosen(inputs)[p] = NoFact
<1>1. ASSUME NEW p \in Fields, Candidates(inputs, p) # {}
      PROVE  Winner(Candidates(inputs, p)) \in FactIds
  <2>1. Candidates(inputs, p) \in SUBSET FactIds
    BY DEF Candidates
  <2>2. QED BY <1>1, <2>1, WinnerOutranksAll
<1>2. QED BY <1>1 DEF Chosen, Canonical

LEMMA ChosenOfNothing == Chosen({}) = NoFields
  BY DEF Chosen, NoFields, Candidates

LEMMA DiffTyped ==
  ASSUME NEW l \in Listings, NEW old \in Canonical, NEW new \in Canonical
  PROVE  Diff(l, old, new) \subseteq Change
<1> SUFFICES ASSUME NEW p \in ChangedFields(old, new)
             PROVE  [ listing |-> l, field |-> p,
                      old |-> ValueOf(old[p]), new |-> ValueOf(new[p]),
                      at |-> FactOf[IF new[p] # NoFact THEN new[p] ELSE old[p]].at ] \in Change
  BY DEF Diff
<1>1. /\ p \in Fields /\ ValueOf(old[p]) # ValueOf(new[p])
      /\ old[p] \in FactIds \cup {NoFact} /\ new[p] \in FactIds \cup {NoFact}
  BY DEF ChangedFields, Canonical
<1>2. ValueOf(old[p]) \in MaybeValue /\ ValueOf(new[p]) \in MaybeValue
  BY <1>1, FactTyped DEF ValueOf, MaybeValue
<1>3. (IF new[p] # NoFact THEN new[p] ELSE old[p]) \in FactIds
  BY <1>1
<1>4. FactOf[IF new[p] # NoFact THEN new[p] ELSE old[p]].at \in Nat
  BY <1>3, FactTyped
<1>5. QED BY <1>1, <1>2, <1>4 DEF Change

LEMMA DiffExact ==
  ASSUME NEW l \in Listings, NEW old \in Canonical, NEW new \in Canonical
  PROVE  /\ \A c, d \in Diff(l, old, new) : SameId(c, d) => c = d
         /\ \A p \in ChangedFields(old, new) : \E c \in Diff(l, old, new) :
              /\ c.listing = l /\ c.field = p
              /\ c.old = ValueOf(old[p]) /\ c.new = ValueOf(new[p])
<1> DEFINE E(p) ==
             [ listing |-> l, field |-> p,
               old |-> ValueOf(old[p]), new |-> ValueOf(new[p]),
               at |-> FactOf[IF new[p] # NoFact THEN new[p] ELSE old[p]].at ]
<1>1. Diff(l, old, new) = {E(p) : p \in ChangedFields(old, new)}
  BY DEF Diff
<1>2. \A p : /\ E(p).listing = l /\ E(p).field = p
             /\ E(p).old = ValueOf(old[p]) /\ E(p).new = ValueOf(new[p])
  OBVIOUS
<1> HIDE DEF E
<1>3. QED BY <1>1, <1>2 DEF SameId

(***************************************************************************)
(* Recording the changes of a canonicalization a second time, as a rerun   *)
(* with the same arguments does (T4.09), records nothing.                  *)
(***************************************************************************)
THEOREM RecordingIsIdempotent ==
  ASSUME NEW store, NEW diff
  PROVE  Recorded(Recorded(store, diff), diff) = Recorded(store, diff)
<1>1. ASSUME NEW c \in diff, \A d \in Recorded(store, diff) : ~SameId(c, d)
      PROVE  c \in Recorded(store, diff)
  <2>1. \A d \in store : ~SameId(c, d)
    BY <1>1 DEF Recorded
  <2>2. QED BY <2>1 DEF Recorded
<1>2. QED BY <1>1 DEF Recorded

-------------------------------------------------------------------------------
(***************************************************************************)
(* Types.  The step of each action, then of the specification.             *)
(***************************************************************************)
LEMMA InitTyped == Init => TypeOK
<1> SUFFICES ASSUME Init PROVE TypeOK
  OBVIOUS
<1>1. Idle \in Run
  BY DEF Idle, Run
<1>2. NoFields \in Canonical
  BY DEF NoFields, Canonical
<1>3. [stored |-> FALSE, fits |-> {}] \in [stored: BOOLEAN, fits: SUBSET Specs]
  OBVIOUS
<1>4. RunsConsistent
  BY DEF Init, RunsConsistent, Idle
<1>5. QED BY <1>1, <1>2, <1>3, <1>4 DEF Init, TypeOK

\* Remembering is typed if the store is.
LEMMA RememberTyped ==
  ASSUME fitted \subseteq Specs \X Change, changes' \subseteq Change, Remember
  PROVE  fitted' \subseteq Specs \X Change
  BY DEF Remember, Fitting

LEMMA CanonicalizeTyped ==
  ASSUME TypeOK, NEW l \in Listings, NEW inputs \in Batches[l], Canonicalize(l, inputs)
  PROVE  TypeOK' /\ changes \subseteq changes'
<1>1. inputs \in SUBSET FactIds
  BY AlertsAssumption
<1>2. canonical' \in [Listings -> Canonical] /\ given' \in [Listings -> SUBSET FactIds]
  BY <1>1, ChosenTyped DEF Canonicalize, TypeOK
<1>3. Diff(l, canonical[l], Chosen(inputs)) \subseteq Change
  BY <1>1, ChosenTyped, DiffTyped DEF TypeOK
<1>4. changes \subseteq changes' /\ changes' \subseteq Change
  BY <1>3 DEF Canonicalize, Recorded, TypeOK
<1>5. fitted' \subseteq Specs \X Change
  BY <1>4, RememberTyped DEF Canonicalize, TypeOK
<1>6. RunsConsistent'
  BY <1>4 DEF Canonicalize, TypeOK, RunsConsistent
<1>7. QED BY <1>2, <1>4, <1>5, <1>6 DEF Canonicalize, TypeOK

LEMMA StoreTyped ==
  ASSUME TypeOK, NEW l \in Listings, NEW specs \in SUBSET Specs, Store(l, specs)
  PROVE  TypeOK'
<1>1. fitted' \subseteq Specs \X Change
  BY RememberTyped DEF Store, TypeOK
<1>2. stock' \in [Listings -> [stored: BOOLEAN, fits: SUBSET Specs]]
  BY DEF Store, TypeOK
<1>3. RunsConsistent'
  BY DEF Store, TypeOK, RunsConsistent
<1>4. QED BY <1>1, <1>2, <1>3 DEF Store, TypeOK

\* What is to be shown of a step that only moves runner r on.
Moved(r, e) ==
  /\ e \in Run
  /\ e.todo \subseteq changes
  /\ IF e.at = "adding" THEN e.current \in e.todo ELSE e.current = NoChange
  /\ e.at = "scanning" => e.todo # {}
  /\ e.at # "idle" => e.spec \in Specs

LEMMA MovedTyped ==
  ASSUME TypeOK, NEW r \in Runners, NEW e, Moved(r, e),
         run' = [run EXCEPT ![r] = e],
         UNCHANGED <<canonical, given, changes, stock>>,
         alerts' \subseteq Specs \X Change, Remember
  PROVE  TypeOK'
<1>1. run' \in [Runners -> Run]
  BY DEF Moved, TypeOK
<1>2. RunsConsistent'
  BY DEF Moved, TypeOK, RunsConsistent
<1>3. fitted' \subseteq Specs \X Change
  BY RememberTyped DEF TypeOK
<1>4. QED BY <1>1, <1>2, <1>3 DEF TypeOK

LEMMA IdleMoved ==
  ASSUME NEW r PROVE Moved(r, Idle)
  BY DEF Moved, Idle, Run

LEMMA RestMoved ==
  ASSUME NEW r, NEW e \in Run, NEW c \in e.todo, e.todo \subseteq changes, e.spec \in Specs
  PROVE  Moved(r, Rest(e, c))
<1>1. CASE e.todo = {c}
  BY <1>1, IdleMoved DEF Rest
<1>2. CASE e.todo # {c}
  BY <1>2 DEF Rest, Moved, Run
<1>3. QED BY <1>1, <1>2

LEMMA StartTyped ==
  ASSUME TypeOK, NEW r \in Runners, NEW s \in Specs, NEW since \in Sinces,
         StartRun(r, s, since)
  PROVE  TypeOK'
<1> DEFINE e == [Idle EXCEPT !.at = "scanning", !.spec = s, !.since = since, !.todo = changes]
<1>1. since \in Nat
  BY AlertsAssumption
<1>2. Moved(r, e)
  BY <1>1 DEF Moved, Idle, Run, StartRun, TypeOK
<1>3. run' = [run EXCEPT ![r] = e]
  BY DEF StartRun
<1> HIDE DEF e
<1>4. QED BY <1>2, <1>3, MovedTyped DEF StartRun, TypeOK

LEMMA ExamineTyped ==
  ASSUME TypeOK, NEW r \in Runners, Examine(r)
  PROVE  TypeOK'
<1> DEFINE e == run[r]
<1>1. /\ e \in Run /\ e.todo \subseteq changes /\ e.spec \in Specs
  BY DEF Examine, TypeOK, RunsConsistent
<1>2. PICK c \in Earliest(e.todo) :
        run' = [run EXCEPT ![r] =
                  IF Passes(e, c)
                  THEN [e EXCEPT !.at = "adding", !.current = c,
                                 !.fresh = <<e.spec, c>> \notin alerts]
                  ELSE Rest(e, c)]
  BY DEF Examine
<1>3. c \in e.todo /\ c \in Change
  BY <1>1 DEF Earliest, Run
<1>4. Moved(r, [e EXCEPT !.at = "adding", !.current = c,
                         !.fresh = <<e.spec, c>> \notin alerts])
  BY <1>1, <1>3 DEF Moved, Run
<1>5. Moved(r, Rest(e, c))
  BY <1>1, <1>3, RestMoved
<1> HIDE DEF e
<1>6. CASE Passes(e, c)
  BY <1>2, <1>4, <1>6, MovedTyped DEF Examine, TypeOK
<1>7. CASE ~Passes(e, c)
  BY <1>2, <1>5, <1>7, MovedTyped DEF Examine, TypeOK
<1>8. QED BY <1>6, <1>7

LEMMA AddTyped ==
  ASSUME TypeOK, NEW r \in Runners, AddAlert(r)
  PROVE  TypeOK'
<1> DEFINE e == run[r]
           n == Counted(e)
           rest == Rest([e EXCEPT !.created = n], e.current)
<1>1. /\ e \in Run /\ e.todo \subseteq changes /\ e.spec \in Specs /\ e.current \in e.todo
  BY DEF AddAlert, TypeOK, RunsConsistent
<1>2. n \in Nat
  BY <1>1 DEF Counted, Run
<1>3. [e EXCEPT !.created = n] \in Run /\ [e EXCEPT !.created = n].todo = e.todo
      /\ [e EXCEPT !.created = n].spec = e.spec
  <2> HIDE DEF n
  <2> QED BY <1>1, <1>2 DEF Run
<1>4. Moved(r, rest)
  <2> HIDE DEF n
  <2> QED BY <1>1, <1>3, RestMoved
<1>5. run' = [run EXCEPT ![r] = IF LimitReached(n) THEN Idle ELSE rest]
  BY DEF AddAlert
<1>6. alerts' \subseteq Specs \X Change
  <2>1. e.current \in Change
    BY <1>1 DEF Run
  <2>2. QED BY <1>1, <2>1 DEF AddAlert, TypeOK
<1> HIDE DEF e, n, rest
<1>7. CASE LimitReached(n)
  BY <1>5, <1>6, <1>7, IdleMoved, MovedTyped DEF AddAlert
<1>8. CASE ~LimitReached(n)
  BY <1>4, <1>5, <1>6, <1>8, MovedTyped DEF AddAlert
<1>9. QED BY <1>7, <1>8

LEMMA StepTyped == TypeOK /\ [Next]_vars => TypeOK'
<1> SUFFICES ASSUME TypeOK, [Next]_vars PROVE TypeOK'
  OBVIOUS
<1>1. CASE UNCHANGED vars
  BY <1>1 DEF vars, TypeOK, RunsConsistent
<1>2. QED
  BY <1>1, CanonicalizeTyped, StoreTyped, StartTyped, ExamineTyped, AddTyped DEF Next

(***************************************************************************)
(* Runs and stores keep their types, and no run is overtaken by the store. *)
(***************************************************************************)
THEOREM AlwaysTyped == Spec => []TypeOK
  BY InitTyped, StepTyped, PTL DEF Spec

-------------------------------------------------------------------------------
(***************************************************************************)
(* The change log.  Only canonicalize writes it.                           *)
(***************************************************************************)
\* A step canonicalizes one listing, or leaves what canonicalize writes alone.
LEMMA OnlyCanonicalize ==
  ASSUME [Next]_vars
  PROVE  \/ UNCHANGED <<canonical, given, changes>>
         \/ \E l \in Listings : \E inputs \in Batches[l] : Canonicalize(l, inputs)
  BY DEF Next, Store, StartRun, Examine, AddAlert, vars

LEMMA LogStep == TypeOK /\ OneChangePerId /\ [Next]_vars => OneChangePerId'
<1> SUFFICES ASSUME TypeOK, OneChangePerId, [Next]_vars PROVE OneChangePerId'
  OBVIOUS
<1>1. CASE UNCHANGED changes
  BY <1>1 DEF OneChangePerId
<1>2. ASSUME NEW l \in Listings, NEW inputs \in Batches[l], Canonicalize(l, inputs)
      PROVE  OneChangePerId'
  <2> DEFINE D == Diff(l, canonical[l], Chosen(inputs))
  <2>1. inputs \in SUBSET FactIds /\ canonical[l] \in Canonical
    BY AlertsAssumption DEF TypeOK
  <2>2. \A c, d \in D : SameId(c, d) => c = d
    BY <2>1, ChosenTyped, DiffExact
  <2>3. changes' = Recorded(changes, D)
    BY <1>2 DEF Canonicalize
  <2> HIDE DEF D
  <2>4. QED BY <2>2, <2>3 DEF OneChangePerId, Recorded, SameId
<1>3. QED BY <1>1, <1>2, OnlyCanonicalize

(***************************************************************************)
(* However often a field takes a value again, the log has one record of    *)
(* the change.                                                             *)
(***************************************************************************)
THEOREM LogIsUnique == Spec => []OneChangePerId
<1>1. Init => OneChangePerId
  BY DEF Init, OneChangePerId
<1>2. QED BY <1>1, AlwaysTyped, LogStep, PTL DEF Spec

LEMMA KeepStep == TypeOK /\ [Next]_vars => [changes \subseteq changes']_vars
<1> SUFFICES ASSUME TypeOK, [Next]_vars PROVE changes \subseteq changes'
  OBVIOUS
<1>1. QED BY OnlyCanonicalize, CanonicalizeTyped

(***************************************************************************)
(* The log is append-only: a recorded change is never replaced or redated. *)
(***************************************************************************)
THEOREM LogIsAppendOnly == Spec => ChangesKept
  BY AlwaysTyped, KeepStep, PTL DEF Spec, ChangesKept

\* The transition of field p of listing l is in the log.
Logged(l, p) ==
  ValueOf(canonical'[l][p]) # ValueOf(canonical[l][p]) =>
    \E c \in changes' :
      /\ c.listing = l /\ c.field = p
      /\ c.old = ValueOf(canonical[l][p])
      /\ c.new = ValueOf(canonical'[l][p])

LEMMA LoggedStep ==
  TypeOK /\ [Next]_vars => [\A l \in Listings, p \in Fields : Logged(l, p)]_vars
<1> SUFFICES ASSUME TypeOK, [Next]_vars, NEW l \in Listings, NEW p \in Fields,
                    ValueOf(canonical'[l][p]) # ValueOf(canonical[l][p])
             PROVE  \E c \in changes' :
                      /\ c.listing = l /\ c.field = p
                      /\ c.old = ValueOf(canonical[l][p])
                      /\ c.new = ValueOf(canonical'[l][p])
  BY DEF Logged
<1>1. PICK m \in Listings : \E inputs \in Batches[m] : Canonicalize(m, inputs)
  BY OnlyCanonicalize
<1>2. PICK inputs \in Batches[m] : Canonicalize(m, inputs)
  BY <1>1
<1>3. inputs \in SUBSET FactIds /\ canonical[l] \in Canonical
  BY AlertsAssumption DEF TypeOK
<1>4. m = l /\ canonical'[l] = Chosen(inputs)
  BY <1>2 DEF Canonicalize, TypeOK
<1> DEFINE D == Diff(l, canonical[l], Chosen(inputs))
<1>5. p \in ChangedFields(canonical[l], Chosen(inputs))
  BY <1>4 DEF ChangedFields
<1>6. PICK d \in D :
        /\ d.listing = l /\ d.field = p
        /\ d.old = ValueOf(canonical[l][p]) /\ d.new = ValueOf(Chosen(inputs)[p])
  BY <1>3, <1>5, ChosenTyped, DiffExact
<1>7. changes' = Recorded(changes, D)
  BY <1>2, <1>4 DEF Canonicalize
<1> HIDE DEF D
<1>8. CASE d \in changes'
  BY <1>4, <1>6, <1>8
<1>9. CASE d \notin changes'
  <2>1. PICK c \in changes : SameId(d, c)
    BY <1>7, <1>9 DEF Recorded
  <2>2. c \in changes'
    BY <1>7 DEF Recorded
  <2>3. QED BY <1>4, <1>6, <2>1, <2>2 DEF SameId
<1>10. QED BY <1>8, <1>9

(***************************************************************************)
(* No canonical value changes without its change in the log.               *)
(***************************************************************************)
THEOREM LogIsComplete == Spec => TransitionsLogged
  BY AlwaysTyped, LoggedStep, PTL DEF Spec, TransitionsLogged, Logged

-------------------------------------------------------------------------------
(***************************************************************************)
(* Trust.  A canonical fact is the best of those last given, so one that   *)
(* is given again is only displaced by a better one.                       *)
(***************************************************************************)
Justified == \A l \in Listings : canonical[l] = Chosen(given[l])

LEMMA JustifiedStep == TypeOK /\ Justified /\ [Next]_vars => Justified'
<1> SUFFICES ASSUME TypeOK, Justified, [Next]_vars PROVE Justified'
  OBVIOUS
<1>1. CASE UNCHANGED <<canonical, given, changes>>
  BY <1>1 DEF Justified
<1>2. ASSUME NEW l \in Listings, NEW inputs \in Batches[l], Canonicalize(l, inputs)
      PROVE  Justified'
  BY <1>2 DEF Canonicalize, Justified, TypeOK
<1>3. QED BY <1>1, <1>2, OnlyCanonicalize

\* The trust of field p of listing l is not lost.
TrustKept(l, p) ==
  canonical[l][p] \in given'[l] =>
    /\ canonical'[l][p] # NoFact
    /\ FactOf[canonical'[l][p]].trust >= FactOf[canonical[l][p]].trust

LEMMA TrustStep ==
  TypeOK /\ Justified /\ Justified' /\ TypeOK' =>
    [\A l \in Listings, p \in Fields : TrustKept(l, p)]_vars
<1> SUFFICES ASSUME TypeOK, Justified, Justified', TypeOK',
                    NEW l \in Listings, NEW p \in Fields, canonical[l][p] \in given'[l]
             PROVE  /\ canonical'[l][p] # NoFact
                    /\ FactOf[canonical'[l][p]].trust >= FactOf[canonical[l][p]].trust
  BY DEF TrustKept
<1> DEFINE f == canonical[l][p]
           S == Candidates(given'[l], p)
<1>1. given[l] \in SUBSET FactIds /\ given'[l] \in SUBSET FactIds
  BY DEF TypeOK
<1>2. f \in FactIds /\ f # NoFact
  BY <1>1, FactsAssumption
<1>3. f \in Candidates(given[l], p)
  <2>1. Candidates(given[l], p) # {}
    BY <1>1, <1>2, ChosenTyped DEF Justified
  <2>2. f = Winner(Candidates(given[l], p)) /\ Candidates(given[l], p) \in SUBSET FactIds
    BY <1>1, <2>1, ChosenTyped DEF Justified, Candidates
  <2>3. QED BY <2>1, <2>2, WinnerOutranksAll
<1>4. f \in S /\ S \in SUBSET FactIds
  BY <1>1, <1>3 DEF Candidates
<1>5. canonical'[l][p] = Winner(S)
  BY <1>1, <1>4, ChosenTyped DEF Justified
<1>6. Winner(S) \in S /\ FactOf[Winner(S)].trust >= FactOf[f].trust
  BY <1>4, WinnerOutranksAll
<1>7. QED BY <1>4, <1>5, <1>6, FactsAssumption

(***************************************************************************)
(* While the facts of a listing still hold the canonical one, its field    *)
(* does not go to a source that is trusted less.                           *)
(***************************************************************************)
THEOREM TrustIsKept == Spec => TrustNeverLost
<1>1. Init => Justified
  BY ChosenOfNothing DEF Init, Justified
<1>2. QED
  BY <1>1, AlwaysTyped, StepTyped, JustifiedStep, TrustStep, PTL
     DEF Spec, TrustNeverLost, TrustKept

-------------------------------------------------------------------------------
(***************************************************************************)
(* Alerts.  A runner about to insert holds a change that has fitted.       *)
(***************************************************************************)
Vetted ==
  /\ AlertsVetted
  /\ \A r \in Runners : run[r].at = "adding" => <<run[r].spec, run[r].current>> \in fitted

LEMMA VettedStep == TypeOK /\ Vetted /\ [Next]_vars => Vetted'
<1> SUFFICES ASSUME TypeOK, Vetted, [Next]_vars PROVE Vetted'
  OBVIOUS
<1>1. CASE UNCHANGED vars
  BY <1>1 DEF vars, Vetted, AlertsVetted
<1>2. CASE Next
  <2>1. fitted \subseteq fitted' /\ Fitting' \subseteq fitted'
    BY <1>2 DEF Next, Canonicalize, Store, StartRun, Examine, AddAlert, Remember
  <2>2. CASE UNCHANGED <<run, alerts>>
    BY <2>1, <2>2 DEF Vetted, AlertsVetted
  <2>3. ASSUME NEW r \in Runners, NEW s \in Specs, NEW since \in Sinces,
               StartRun(r, s, since)
        PROVE  Vetted'
    BY <2>1, <2>3 DEF StartRun, Vetted, AlertsVetted, TypeOK
  <2>4. ASSUME NEW r \in Runners, Examine(r) PROVE Vetted'
    <3>1. /\ run[r] \in Run /\ run[r].todo \subseteq changes /\ run[r].spec \in Specs
      BY <2>4 DEF Examine, TypeOK, RunsConsistent
    <3>2. PICK c \in Earliest(run[r].todo) :
            run' = [run EXCEPT ![r] =
                      IF Passes(run[r], c)
                      THEN [run[r] EXCEPT !.at = "adding", !.current = c,
                                          !.fresh = <<run[r].spec, c>> \notin alerts]
                      ELSE Rest(run[r], c)]
      BY <2>4 DEF Examine
    <3>3. c \in changes
      BY <3>1 DEF Earliest
    <3>4. CASE Passes(run[r], c)
      <4>1. <<run[r].spec, c>> \in Fitting'
        BY <2>4, <3>1, <3>3, <3>4 DEF Passes, Fits, Fitting, Examine
      <4>2. /\ run'[r].spec = run[r].spec /\ run'[r].current = c
            /\ \A q \in Runners \ {r} : run'[q] = run[q]
        BY <3>1, <3>2, <3>4 DEF TypeOK, Run
      <4>3. UNCHANGED alerts
        BY <2>4 DEF Examine
      <4>4. QED BY <2>1, <4>1, <4>2, <4>3 DEF Vetted, AlertsVetted
    <3>5. CASE ~Passes(run[r], c)
      <4>1. run'[r].at # "adding" /\ \A q \in Runners \ {r} : run'[q] = run[q]
        BY <3>1, <3>2, <3>5 DEF Rest, Idle, Run, TypeOK
      <4>2. UNCHANGED alerts
        BY <2>4 DEF Examine
      <4>3. QED BY <2>1, <4>1, <4>2 DEF Vetted, AlertsVetted
    <3>6. QED BY <3>4, <3>5
  <2>5. ASSUME NEW r \in Runners, AddAlert(r) PROVE Vetted'
    <3>1. run[r] \in Run /\ <<run[r].spec, run[r].current>> \in fitted
      BY <2>5 DEF AddAlert, Vetted, TypeOK
    <3>2. alerts' \subseteq fitted'
      BY <2>1, <2>5, <3>1 DEF AddAlert, Vetted, AlertsVetted
    <3>3. run'[r].at # "adding" /\ \A q \in Runners \ {r} : run'[q] = run[q]
      BY <2>5, <3>1 DEF AddAlert, Rest, Idle, Run, TypeOK
    <3>4. QED BY <2>1, <3>2, <3>3 DEF Vetted, AlertsVetted
  <2>6. QED
    BY <1>2, <2>2, <2>3, <2>4, <2>5 DEF Next, Canonicalize, Store
<1>3. QED BY <1>1, <1>2

(***************************************************************************)
(* Every alert is for a change whose listing has met the hard constraints  *)
(* since the change was recorded, however runs and stores interleave.      *)
(***************************************************************************)
THEOREM AlertsAreVetted == Spec => []AlertsVetted
<1>1. Init => Vetted
  BY DEF Init, Vetted, AlertsVetted, Idle
<1>2. QED BY <1>1, AlwaysTyped, VettedStep, PTL DEF Spec, Vetted
===============================================================================

---------------------------- MODULE CanonicalChoice ----------------------------
(***************************************************************************)
(* How CanonicalizationService (services/dedupe/service.py) picks the      *)
(* canonical fact of a field, and why.  A fact id is a number here: ids    *)
(* are only ever compared.  A fact is usable if it has a value, a          *)
(* confidence and evidence, and its field belongs to the listing.          *)
(***************************************************************************)
EXTENDS Integers, FiniteSets

CONSTANTS FactIds, Fields, Values,
          NoFact,    \* a field without a canonical fact
          NoValue,   \* its value
          FactOf     \* what extraction and the trust of the source say of a fact

Fact == [ field: Fields, value: Values, trust: Nat, at: Nat,
          confidence: Nat, usable: BOOLEAN ]

ASSUME FactsAssumption ==
  /\ FactIds \subseteq Nat /\ IsFiniteSet(FactIds)
  /\ FactOf \in [FactIds -> Fact]
  /\ NoFact \notin FactIds
  /\ NoValue \notin Values

ValueOf(f) == IF f = NoFact THEN NoValue ELSE FactOf[f].value

Candidates(inputs, p) == {f \in inputs : FactOf[f].usable /\ FactOf[f].field = p}

\* Mutant: the newest observation wins, whatever its source.
OutranksByRecency(f, g) ==
  LET x == FactOf[f]
      y == FactOf[g]
  IN  x.at > y.at \/ (x.at = y.at /\ f > g)

\* The order of _ranking_tuple: trust, then recency, confidence and the id.
Outranks(f, g) ==
  LET x == FactOf[f]
      y == FactOf[g]
  IN  \/ x.trust > y.trust
      \/ /\ x.trust = y.trust
         /\ \/ x.at > y.at
            \/ /\ x.at = y.at
               /\ \/ x.confidence > y.confidence
                  \/ x.confidence = y.confidence /\ f > g

\* The last of the candidates in that order.
Winner(S) == CHOOSE f \in S : \A g \in S \ {f} : Outranks(f, g)

\* The canonical fact of each field, given the facts of a cluster's members.
Chosen(inputs) ==
  [p \in Fields |-> IF Candidates(inputs, p) = {} THEN NoFact
                    ELSE Winner(Candidates(inputs, p))]
===============================================================================

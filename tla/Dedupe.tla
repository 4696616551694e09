---------------------------------- MODULE Dedupe ----------------------------------
(***************************************************************************)
(* DedupeService.run (services/dedupe/service.py), one run after another   *)
(* on listings given in any order: blocking, scoring, threshold bands and  *)
(* clusters by union-find.                                                 *)
(*                                                                         *)
(* An observation is the id of its listing and the normalized addresses,   *)
(* units and prices of it.  A run may be given several of one listing.     *)
(* Scores are rational numbers <<n, d>> and thresholds count twentieths.   *)
(***************************************************************************)
EXTENDS Integers, SequencesExt

CONSTANTS
  Inputs,          \* the sequences of observations a run may be given
  AutoMerge, Review,
  PriceTolerance,
  Overrides,       \* score_overrides: [pair, score]
  NotANumber,      \* a price float() refuses
  MaxRuns          \* bound on the runs

ASSUME InputsAssumption ==
  \A in \in Inputs : /\ Len(in) \in Nat /\ DOMAIN in = 1..Len(in)
                     /\ \A k \in DOMAIN in : in[k].id \in Nat

ASSUME MaxRunsAssumption == MaxRuns \in Nat

ASSUME ThresholdsAssumption == 0 <= Review /\ Review <= AutoMerge /\ AutoMerge <= 20

VARIABLES
  input,     \* what the run was given
  todo,      \* its auto_merge decisions, still to be united
  queue,     \* its review queue
  parent,    \* the union-find
  results    \* what the runs so far were given and returned
vars == <<input, todo, queue, parent, results>>

IdsOf(in) == {in[k].id : k \in DOMAIN in}
AllIds == UNION {IdsOf(in) : in \in Inputs}

-------------------------------------------------------------------------------
(***************************************************************************)
(* Blocking and scoring.                                                   *)
(***************************************************************************)
\* The keys that hold a unit as well find no pair the address alone does not find.
BlockingKeys(obs) == obs.addresses

\* Mutant: big blocks are left out to save work.
CandidatePairsCapped(in) ==
  LET places == DOMAIN in
      Members(key) == {k \in places : key \in BlockingKeys(in[k])}
      keys == {key \in UNION {BlockingKeys(in[k]) : k \in places} : Cardinality(Members(key)) < 3}
  IN {<<in[p[1]].id, in[p[2]].id>> : p \in
       {q \in places \X places : /\ q[1] # q[2] /\ in[q[1]].id <= in[q[2]].id
                                 /\ \E key \in keys : q[1] \in Members(key) /\ q[2] \in Members(key)}}

\* block: every two observations in one block; a listing observed twice pairs with itself.
CandidatePairs(in) ==
  LET places == DOMAIN in
  IN {<<in[p[1]].id, in[p[2]].id>> : p \in
       {q \in places \X places : /\ q[1] # q[2] /\ in[q[1]].id <= in[q[2]].id
                                 /\ BlockingKeys(in[q[1]]) \cap BlockingKeys(in[q[2]]) # {}}}

\* listing_map keeps the last observation of a listing.
Latest(in, id) == in[CHOOSE k \in DOMAIN in : in[k].id = id /\ \A j \in DOMAIN in : in[j].id = id => j <= k]

\* _feature_value_match, for the terms of the score: nothing when a side is silent.
ValueMatch(weight, left, right) ==
  IF left = {} \/ right = {} THEN <<0, 0>>
  ELSE <<IF left \cap right # {} THEN weight ELSE 0, weight>>

Distance(x, y) == IF x < y THEN y - x ELSE x - y

\* _price_match, between the prices that are numbers.
PriceMatch(weight, left, right) ==
  LET l == left \ {NotANumber}
      r == right \ {NotANumber}
  IN IF l = {} \/ r = {} THEN <<0, 0>>
     ELSE <<IF \E x \in l, y \in r : Distance(x, y) <= PriceTolerance THEN weight ELSE 0, weight>>

\* _score_features of the three features, with the default weights.
ScoreOf(a, b) ==
  LET address == ValueMatch(6, a.addresses, b.addresses)
      unit == ValueMatch(3, a.units, b.units)
      price == PriceMatch(1, a.prices, b.prices)
      total == address[2] + unit[2] + price[2]
  IN IF total = 0 THEN <<0, 1>> ELSE <<address[1] + unit[1] + price[1], total>>

\* score: of the latest observations, unless it is overridden.
PairScore(in, pair) ==
  IF \E o \in Overrides : o.pair = pair THEN (CHOOSE o \in Overrides : o.pair = pair).score
  ELSE ScoreOf(Latest(in, pair[1]), Latest(in, pair[2]))

AtLeast(score, threshold) == 20 * score[1] >= threshold * score[2]

\* Mutant: a score at the threshold of review is below it.
BandAbove(score) ==
  IF AtLeast(score, AutoMerge) THEN "auto_merge"
  ELSE IF 20 * score[1] > Review * score[2] THEN "review" ELSE "auto_separate"

\* band_for_score
BandForScore(score) ==
  IF AtLeast(score, AutoMerge) THEN "auto_merge"
  ELSE IF AtLeast(score, Review) THEN "review" ELSE "auto_separate"

\* The decisions of one band.
Decided(in, band) == {pair \in CandidatePairs(in) : BandForScore(PairScore(in, pair)) = band}

\* decisions.sort
Before(p, q) == p[1] < q[1] \/ (p[1] = q[1] /\ p[2] < q[2])
InOrder(pairs) ==
  [n \in 1..Cardinality(pairs) |->
     CHOOSE p \in pairs : Cardinality({q \in pairs : Before(q, p)}) = n - 1]

-------------------------------------------------------------------------------
(***************************************************************************)
(* Union-find.                                                             *)
(***************************************************************************)
Path(up, i) ==
  LET above[j \in DOMAIN up] == {j} \cup (IF up[j] = j THEN {} ELSE above[up[j]])
  IN above[i]

Root(up, i) == CHOOSE r \in Path(up, i) : up[r] = r

\* find hangs the whole path under its root.
Found(up, i) ==
  LET path == Path(up, i)
      root == Root(up, i)
  IN [j \in DOMAIN up |-> IF j \in path THEN root ELSE up[j]]

\* Mutant: the listing, and not the root above it, is hung under the other.
UnitedMember(up, left, right) ==
  LET found == Found(Found(up, left), right)
  IN [found EXCEPT ![right] = IF found[left] < found[right] THEN found[left] ELSE @]

\* Mutant: the left root wins, be it the smaller or not.
UnitedLeft(up, left, right) ==
  LET found == Found(Found(up, left), right)
  IN [found EXCEPT ![found[right]] = found[left]]

\* union: the smaller root wins.
United(up, left, right) ==
  LET found == Found(Found(up, left), right)
      l == found[left]
      r == found[right]
  IN IF l < r THEN [found EXCEPT ![r] = l] ELSE [found EXCEPT ![l] = r]

\* groups: a cluster is its members, of which its id is a hash.
Groups(up) == {{j \in DOMAIN up : Root(up, j) = r} : r \in {Root(up, i) : i \in DOMAIN up}}

-------------------------------------------------------------------------------
Init ==
  /\ input = <<>> /\ todo = <<>> /\ queue = {}
  /\ parent = [i \in {} |-> i] /\ results = {}

\* Nothing of a run is left to do.
Returned == [input |-> input, clusters |-> Groups(parent), review |-> queue]
Idle == todo = <<>> /\ (input = <<>> \/ Returned \in results)

\* run, up to the decisions.
Run(in) ==
  /\ Idle /\ Cardinality(results) < MaxRuns
  /\ input' = in
  /\ todo' = InOrder(Decided(in, "auto_merge"))
  /\ queue' = Decided(in, "review")
  /\ parent' = [i \in IdsOf(in) |-> i]
  /\ UNCHANGED results

\* One round of cluster.
Unite ==
  /\ todo # <<>>
  /\ parent' = United(parent, Head(todo)[1], Head(todo)[2])
  /\ todo' = Tail(todo)
  /\ UNCHANGED <<input, queue, results>>

Return ==
  /\ todo = <<>> /\ ~Idle
  /\ results' = results \cup {Returned}
  /\ UNCHANGED <<input, todo, queue, parent>>

Next == (\E in \in Inputs : Run(in)) \/ Unite \/ Return

Spec == Init /\ [][Next]_vars

-------------------------------------------------------------------------------
(***************************************************************************)
(* Properties.                                                             *)
(***************************************************************************)
(***************************************************************************)
(* The state is that of one run, and the union-find hangs every listing    *)
(* under a smaller one or itself: find always comes to an end.             *)
(***************************************************************************)
TypeOK ==
  /\ DOMAIN parent = IdsOf(input)
  /\ \A i \in DOMAIN parent : parent[i] \in DOMAIN parent /\ parent[i] <= i
  /\ \A k \in DOMAIN todo : \A side \in 1..2 : todo[k][side] \in DOMAIN parent
  /\ Cardinality(results) <= MaxRuns

\* Two listings seen at one address, and how they score, whatever block says.
Neighbours(in, a, b) ==
  \E j, k \in DOMAIN in :
    in[j].id = a /\ in[k].id = b /\ in[j].addresses \cap in[k].addresses # {}
Same(in, a, b) ==
  Neighbours(in, a, b) /\ AtLeast(PairScore(in, IF a < b THEN <<a, b>> ELSE <<b, a>>), AutoMerge)

\* Nothing outside is the same listing, and however c is cut in two, a pair is cut.
Separate(in, c) == \A a \in c, b \in IdsOf(in) : Same(in, a, b) => b \in c
Connected(in, c) ==
  \A S \in SUBSET c : S # {} /\ S # c => \E a \in S, b \in c \ S : Same(in, a, b)

(***************************************************************************)
(* A cluster is a listing and all that chains of auto_merge pairs lead to, *)
(* and nothing else: neither the order of the listings, of the decisions,  *)
(* nor the pairs for review make a difference (T4.01, T4.02, T4.05).       *)
(***************************************************************************)
ClustersAreComponents ==
  \A r \in results :
    /\ UNION r.clusters = IdsOf(r.input) /\ {} \notin r.clusters
    /\ \A c \in r.clusters : Separate(r.input, c) /\ Connected(r.input, c)

(***************************************************************************)
(* Two listings seen at one address are one listing, or are queued for     *)
(* review, or score below the bands: no score falls into a gap, and none   *)
(* into two bands (T4.04).                                                 *)
(***************************************************************************)
EveryPairDecided ==
  \A r \in results : \A a, b \in IdsOf(r.input) :
    a < b /\ Neighbours(r.input, a, b) =>
      LET score == PairScore(r.input, <<a, b>>)
      IN /\ \/ \E c \in r.clusters : {a, b} \subseteq c
            \/ <<a, b>> \in r.review
            \/ ~AtLeast(score, Review)
         /\ <<a, b>> \in r.review => AtLeast(score, Review) /\ ~AtLeast(score, AutoMerge)

\* The observations of in, with those of other listings anywhere between them.
Extends(more, in) ==
  LET kept == {k \in DOMAIN more : more[k].id \in IdsOf(in)}
  IN \E at \in [DOMAIN in -> kept] :
       /\ \A k \in kept : \E j \in DOMAIN in : at[j] = k
       /\ \A j, k \in DOMAIN in : j < k => at[j] < at[k]
       /\ \A k \in DOMAIN in : in[k] = more[at[k]]

(***************************************************************************)
(* New listings never take apart what was one: every cluster of a run is   *)
(* within a cluster of any run on the same observations and more.  Its id  *)
(* does not survive, being that of the members.                            *)
(***************************************************************************)
ClustersOnlyGrow ==
  \A r, s \in results : Extends(s.input, r.input) =>
    \A c \in r.clusters : \E d \in s.clusters : c \subseteq d

(***************************************************************************)
(* Union-find merges as a partition does.                                  *)
(***************************************************************************)
Partition == INSTANCE ListingPartition WITH
  Ids <- AllIds, blocks <- Groups(parent), links <- {todo[k] : k \in DOMAIN todo}
MergesAsSpecified == Partition!PartitionSpec
===============================================================================

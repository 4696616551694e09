------------------------------- MODULE Search_proofs -------------------------------
(***************************************************************************)
(* Proofs about Search, for every set of ids, documents, specs, payloads,  *)
(* limits, caps and aliases that its assumptions allow.                    *)
(*                                                                         *)
(* What is stored is settled because normalization is idempotent.  Of a    *)
(* request on its way SInv says that its candidates are distinct and are   *)
(* there, and that what was read are documents of their ids; everything    *)
(* about an answer is then a fact about the one step, Rank, that gives it. *)
(* Sums and caps are recursive functions: what they reach is shown by the  *)
(* first place at which it would fail.                                     *)
(***************************************************************************)
EXTENDS Search, SequenceTheorems, FiniteSetTheorems, WellFoundedInduction, TLAPS
LEMMA LeastExists ==
  ASSUME NEW S, S \subseteq Nat, S # {}
  PROVE  \E n \in S : \A m \in S : n <= m
<1>1. PICK n \in S : \A m \in S : <<m, n>> \notin OpToRel(<, Nat)
  BY WFMin, NatLessThanWellFounded, Zenon
<1>2. ASSUME NEW m \in S PROVE ~(m < n)
  BY <1>1, Zenon DEF OpToRel
<1>3. QED BY <1>2

-------------------------------------------------------------------------------
(***************************************************************************)
(* InOrder lists its pairs from the top.                                   *)
(***************************************************************************)
\* How many come before p, in a strict order.
RankIn(S, R, p) == Cardinality({q \in S : <<q, p>> \in R})

LEMMA RanksAreTaken ==
  ASSUME NEW S, IsFiniteSet(S), NEW R,
         \A p \in S : <<p, p>> \notin R,
         \A p, q \in S : p = q \/ <<p, q>> \in R \/ <<q, p>> \in R,
         \A p, q, r \in S : <<p, q>> \in R /\ <<q, r>> \in R => <<p, r>> \in R
  PROVE  /\ Cardinality(S) \in Nat
         /\ \A p \in S : RankIn(S, R, p) \in 0..(Cardinality(S) - 1)
         /\ \A p, q \in S : <<p, q>> \in R => RankIn(S, R, p) < RankIn(S, R, q)
         /\ \A k \in 1..Cardinality(S) : \E p \in S : RankIn(S, R, p) = k - 1
<1> DEFINE below(p) == {q \in S : <<q, p>> \in R}
           n == Cardinality(S)
           place == [p \in S |-> RankIn(S, R, p) + 1]
<1>1. n \in Nat
  BY FS_CardinalityType
<1>2. \A p \in S : below(p) \subseteq S /\ p \notin below(p) /\ RankIn(S, R, p) = Cardinality(below(p))
  BY DEF RankIn
<1>3. \A p, q \in S : <<p, q>> \in R => below(p) \subseteq below(q) /\ p \in below(q)
  OBVIOUS
<1>4. \A p \in S : place[p] = RankIn(S, R, p) + 1
  OBVIOUS
<1> HIDE DEF below, place
<1>5. ASSUME NEW p \in S PROVE IsFiniteSet(below(p)) /\ RankIn(S, R, p) \in 0..(n - 1)
  <2>1. below(p) \subseteq S /\ below(p) # S
    BY <1>2
  <2>2. /\ IsFiniteSet(below(p)) /\ Cardinality(below(p)) <= n
        /\ Cardinality(below(p)) = n => below(p) = S
    BY <2>1, FS_Subset
  <2>3. Cardinality(below(p)) \in Nat
    BY <2>2, FS_CardinalityType
  <2> HIDE DEF n
  <2>4. Cardinality(below(p)) \in 0..(n - 1)
    BY <1>1, <2>1, <2>2, <2>3
  <2>5. QED BY <1>2, <2>2, <2>4
<1>6. ASSUME NEW p \in S, NEW q \in S, <<p, q>> \in R
      PROVE  RankIn(S, R, p) < RankIn(S, R, q)
  <2>1. below(p) \subseteq below(q) /\ below(p) # below(q)
    BY <1>2, <1>3, <1>6
  <2>2. /\ Cardinality(below(p)) <= Cardinality(below(q))
        /\ Cardinality(below(p)) = Cardinality(below(q)) => below(p) = below(q)
    BY <1>5, <2>1, FS_Subset
  <2>3. RankIn(S, R, p) \in Nat /\ RankIn(S, R, q) \in Nat
    BY <1>5
  <2>4. RankIn(S, R, p) = Cardinality(below(p)) /\ RankIn(S, R, q) = Cardinality(below(q))
    BY <1>2
  <2>5. QED BY <2>1, <2>2, <2>3, <2>4
<1>7. \A p \in S : place[p] \in 1..n
  <2> HIDE DEF n
  <2>1. QED BY <1>1, <1>4, <1>5
<1>8. \A p, q \in S : place[p] = place[q] => p = q
  <2>1. SUFFICES ASSUME NEW p \in S, NEW q \in S, place[p] = place[q], p # q PROVE FALSE
    OBVIOUS
  <2>2. RankIn(S, R, p) \in Int /\ RankIn(S, R, q) \in Int
    BY <1>5
  <2>3. RankIn(S, R, p) = RankIn(S, R, q)
    BY <1>4, <2>1, <2>2
  <2>4. RankIn(S, R, p) < RankIn(S, R, q) \/ RankIn(S, R, q) < RankIn(S, R, p)
    BY <1>6, <2>1
  <2>5. QED BY <2>2, <2>3, <2>4
<1>9. place \in Injection(S, 1..n)
  <2>1. place \in [S -> 1..n]
    BY <1>7 DEF place
  <2>2. QED BY <1>8, <2>1, Zenon DEF Injection, IsInjective
<1>10. place \in Surjection(S, 1..n)
  <2>1. IsFiniteSet(1..n) /\ Cardinality(1..n) = n
    BY <1>1, FS_Interval
  <2>2. QED BY <1>9, <2>1, FS_Injection
<1>11. ASSUME NEW k \in 1..n PROVE \E p \in S : RankIn(S, R, p) = k - 1
  <2>1. PICK p \in S : place[p] = k
    BY <1>10 DEF Surjection
  <2>2. RankIn(S, R, p) \in Int /\ k \in Int
    BY <1>1, <1>5
  <2>3. QED BY <1>4, <2>1, <2>2
<1>12. QED BY <1>1, <1>5, <1>6, <1>11

\* The order of InOrder.
Above(p, q) == p[1] > q[1] \/ (p[1] = q[1] /\ p[2] < q[2])

\* s lists, from the top, what at lists of S.
ListedAs(s, at, S, limit) ==
  LET L == IF Cardinality(S) < limit THEN Cardinality(S) ELSE limit
  IN /\ Cardinality(S) \in Nat /\ Len(s) = L /\ DOMAIN s = 1..L /\ s \in Seq({p[2] : p \in S})
     /\ \A k \in 1..L : at[k] \in S /\ s[k] = at[k][2]
     /\ \A k, l \in 1..L : k < l => Above(at[k], at[l])
     /\ Cardinality(S) <= limit => \A p \in S : \E k \in 1..L : at[k] = p

LEMMA Ordered ==
  ASSUME NEW S, IsFiniteSet(S), S \subseteq Int \X Int, NEW limit \in Nat
  PROVE  \E at : ListedAs(InOrder(S, limit), at, S, limit)
<1> DEFINE R == {d \in S \X S : Above(d[1], d[2])}
           n == Cardinality(S)
           L == IF n < limit THEN n ELSE limit
           at == [k \in 1..L |-> CHOOSE p \in S : RankIn(S, R, p) = k - 1]
           s == InOrder(S, limit)
<1>1. \A p, q \in S : <<p, q>> \in R <=> Above(p, q)
  OBVIOUS
<1>2. \A p \in S : p[1] \in Int /\ p[2] \in Int /\ p = <<p[1], p[2]>>
  OBVIOUS
<1>3. \A p \in S : ~Above(p, p)
  BY <1>2 DEF Above
<1>4. \A p, q \in S : p = q \/ Above(p, q) \/ Above(q, p)
  BY <1>2 DEF Above
<1>5. ASSUME NEW p \in S, NEW q \in S, NEW r \in S, Above(p, q), Above(q, r) PROVE Above(p, r)
  <2>1. PICK a \in Int, b \in Int, c \in Int, d \in Int, e \in Int, f \in Int :
          p[1] = a /\ p[2] = b /\ q[1] = c /\ q[2] = d /\ r[1] = e /\ r[2] = f
    BY <1>2
  <2>2. (a > c \/ (a = c /\ b < d)) /\ (c > e \/ (c = e /\ d < f))
    BY <1>5, <2>1 DEF Above
  <2>3. a > e \/ (a = e /\ b < f)
    BY <2>2
  <2>4. QED BY <2>1, <2>3 DEF Above
<1>6. \A p \in S : RankIn(S, R, p) = Cardinality({q \in S : Above(q, p)})
  <2>1. \A p \in S : {q \in S : <<q, p>> \in R} = {q \in S : Above(q, p)}
    OBVIOUS
  <2>2. QED BY <2>1 DEF RankIn
<1> HIDE DEF R
<1>7. /\ n \in Nat
      /\ \A p \in S : RankIn(S, R, p) \in 0..(n - 1)
      /\ \A p, q \in S : <<p, q>> \in R => RankIn(S, R, p) < RankIn(S, R, q)
      /\ \A k \in 1..n : \E p \in S : RankIn(S, R, p) = k - 1
  BY <1>1, <1>3, <1>4, <1>5, RanksAreTaken
<1>8. s = [k \in 1..L |-> (CHOOSE p \in S : Cardinality({q \in S : Above(q, p)}) = k - 1)[2]]
  BY DEF InOrder, Above
<1>9. \A k : (CHOOSE p \in S : Cardinality({q \in S : Above(q, p)}) = k - 1)
               = (CHOOSE p \in S : RankIn(S, R, p) = k - 1)
  BY <1>6
<1> HIDE DEF n
<1>10. L \in Nat /\ L <= n /\ 1..L \subseteq 1..n
  BY <1>7
<1> HIDE DEF L
<1>11. ASSUME NEW k \in 1..L PROVE at[k] \in S /\ RankIn(S, R, at[k]) = k - 1
  <2>1. \E p \in S : RankIn(S, R, p) = k - 1
    BY <1>7, <1>10
  <2>2. at[k] = CHOOSE p \in S : RankIn(S, R, p) = k - 1
    OBVIOUS
  <2> HIDE DEF at
  <2>3. QED BY <2>1, <2>2
<1>12. s = [k \in 1..L |-> at[k][2]]
  BY <1>8, <1>9
<1> HIDE DEF s, at
<1>13. \A k \in 1..L : s[k] = at[k][2]
  BY <1>12
<1>14. s \in Seq({p[2] : p \in S}) /\ Len(s) = L /\ DOMAIN s = 1..L
  <2>1. s \in [1..L -> {p[2] : p \in S}]
    BY <1>11, <1>12
  <2>2. QED BY <1>10, <2>1
<1>15. ASSUME NEW k \in 1..L, NEW l \in 1..L, k < l PROVE Above(at[k], at[l])
  <2>1. RankIn(S, R, at[k]) = k - 1 /\ RankIn(S, R, at[l]) = l - 1 /\ k \in Int /\ l \in Int
    BY <1>10, <1>11
  <2>2. at[k] # at[l]
    BY <1>15, <2>1
  <2>3. ~(RankIn(S, R, at[l]) < RankIn(S, R, at[k]))
    BY <1>15, <2>1
  <2>4. at[k] \in S /\ at[l] \in S
    BY <1>11
  <2>5. QED BY <1>1, <1>4, <1>7, <2>2, <2>3, <2>4
<1>16. ASSUME n <= limit, NEW p \in S PROVE \E k \in 1..L : at[k] = p
  <2>1. L = n
    BY <1>7, <1>16 DEF L
  <2> DEFINE k == RankIn(S, R, p) + 1
  <2>2. k \in 1..L /\ k - 1 = RankIn(S, R, p)
    BY <1>7, <2>1
  <2>3. at[k] \in S /\ RankIn(S, R, at[k]) = RankIn(S, R, p)
    BY <1>11, <2>2
  <2>4. RankIn(S, R, p) \in Int
    BY <1>7
  <2> HIDE DEF k
  <2>5. ASSUME at[k] # p PROVE FALSE
    <3>1. <<at[k], p>> \in R \/ <<p, at[k]>> \in R
      BY <1>1, <1>4, <2>3, <2>5
    <3>2. RankIn(S, R, at[k]) < RankIn(S, R, p) \/ RankIn(S, R, p) < RankIn(S, R, at[k])
      BY <1>7, <2>3, <3>1
    <3>3. QED BY <2>3, <2>4, <3>2
  <2>6. QED BY <2>2, <2>5
<1>17. QED BY <1>7, <1>11, <1>13, <1>14, <1>15, <1>16 DEF ListedAs, n, L, s
-------------------------------------------------------------------------------
(***************************************************************************)
(* What is stored of a spec is settled.                                    *)
(***************************************************************************)
LEMMA UndressedWords ==
  ASSUME NEW names, Blank \notin names
  PROVE  /\ Parser!Filled(Parser!Undressed(names)) = names
         /\ Parser!Words(Parser!Undressed(names)) = names
<1>1. Parser!Words(Parser!Undressed(names)) = names
  <2> DEFINE Bare(word) == [word |-> word, dressed |-> FALSE]
  <2>1. \A word : Bare(word).word = word
    OBVIOUS
  <2>2. Parser!Undressed(names) = {Bare(word) : word \in names}
    BY DEF Parser!Undressed
  <2> HIDE DEF Bare
  <2>3. \A word : word \in Parser!Words(Parser!Undressed(names)) <=> word \in names
    BY <2>1, <2>2 DEF Parser!Words
  <2>4. QED BY <2>3
<1>2. Parser!Filled(Parser!Undressed(names)) = Parser!Words(Parser!Undressed(names)) \ {Blank}
  BY DEF Parser!Filled, Parser!Words
<1>3. QED BY <1>1, <1>2

LEMMA PlacesSettle ==
  ASSUME NEW texts
  PROVE  Parser!Neighborhoods(Parser!Undressed(Parser!Neighborhoods(texts))) = Parser!Neighborhoods(texts)
<1> DEFINE names == Parser!Neighborhoods(texts)
<1>1. \A name \in names : name # Blank /\ Parser!Applied(NeighborhoodAlias, name) = name
  <2>1. SUFFICES ASSUME NEW word \in Parser!Filled(texts), NEW name,
                        name = Parser!Applied(NeighborhoodAlias, word)
                 PROVE  name # Blank /\ Parser!Applied(NeighborhoodAlias, name) = name
    BY DEF Parser!Neighborhoods
  <2>2. word # Blank
    BY DEF Parser!Filled
  <2>3. CASE word \in DOMAIN NeighborhoodAlias
    BY <2>1, <2>3, AliasesAssumption DEF Parser!Applied
  <2>4. CASE word \notin DOMAIN NeighborhoodAlias
    BY <2>1, <2>2, <2>4 DEF Parser!Applied
  <2>5. QED BY <2>3, <2>4
<1> HIDE DEF names
<1>2. Parser!Filled(Parser!Undressed(names)) = names
  BY <1>1, UndressedWords
<1>3. Parser!Neighborhoods(Parser!Undressed(names)) = {Parser!Applied(NeighborhoodAlias, word) : word \in names}
  BY <1>2 DEF Parser!Neighborhoods
<1>4. QED BY <1>1, <1>3 DEF names

LEMMA FeaturesSettle ==
  ASSUME NEW texts
  PROVE  /\ Parser!Features(Parser!Undressed(Parser!Features(texts))) = Parser!Features(texts)
         /\ Parser!Words(Parser!Undressed(Parser!Features(texts))) = Parser!Features(texts)
<1> DEFINE names == Parser!Features(texts)
<1>1. \A name \in names : name # Blank /\ Parser!Feature(name) = name
  <2>1. SUFFICES ASSUME NEW word \in Parser!Filled(texts), NEW name, name = Parser!Feature(word)
                 PROVE  name # Blank /\ Parser!Feature(name) = name
    BY DEF Parser!Features
  <2>2. word # Blank
    BY DEF Parser!Filled
  <2>3. CASE word \in DOMAIN FeatureAlias \cup DOMAIN Underscored
    BY <2>1, <2>3, AliasesAssumption
  <2>4. CASE word \notin DOMAIN FeatureAlias \cup DOMAIN Underscored
    <3>1. Parser!Feature(word) = word
      BY <2>4 DEF Parser!Feature, Parser!Applied
    <3>2. QED BY <2>1, <2>2, <3>1
  <2>5. QED BY <2>3, <2>4
<1> HIDE DEF names
<1>2. Parser!Filled(Parser!Undressed(names)) = names /\ Parser!Words(Parser!Undressed(names)) = names
  BY <1>1, UndressedWords
<1>3. Parser!Features(Parser!Undressed(names)) = {Parser!Feature(word) : word \in names}
  BY <1>2 DEF Parser!Features
<1>4. QED BY <1>1, <1>2, <1>3 DEF names

\* What normalization makes of a spec, part by part.
PlainLimits(limits) ==
  {[label |-> Parser!Plain(limit.label), mode |-> limit.mode, max |-> limit.max] : limit \in limits}
Places(texts) == Parser!Undressed(Parser!Neighborhoods(texts))
Wishes(texts) == Parser!Undressed(Parser!Features(texts))

\* The hard constraints with all of their texts replaced.
HasConstraints(hard) ==
  hard =
    [ price_min |-> hard.price_min, price_max |-> hard.price_max,
      beds_min |-> hard.beds_min, baths_min |-> hard.baths_min,
      include |-> hard.include, exclude |-> hard.exclude, commute_max |-> hard.commute_max,
      must_have |-> hard.must_have, must_not |-> hard.must_not,
      available_now |-> hard.available_now, move_in_after |-> hard.move_in_after ]

Updated(hard, I, E, M, N, L) ==
  [hard EXCEPT !.include = I, !.exclude = E, !.must_have = M, !.must_not = N, !.commute_max = L]

LEMMA HardUpdated ==
  ASSUME NEW hard, HasConstraints(hard), NEW I, NEW E, NEW M, NEW N, NEW L
  PROVE  Updated(hard, I, E, M, N, L) =
           [ price_min |-> hard.price_min, price_max |-> hard.price_max,
             beds_min |-> hard.beds_min, baths_min |-> hard.baths_min,
             include |-> I, exclude |-> E, commute_max |-> L,
             must_have |-> M, must_not |-> N,
             available_now |-> hard.available_now, move_in_after |-> hard.move_in_after ]
<1> DEFINE h1 == [hard EXCEPT !.include = I]
           h2 == [h1 EXCEPT !.exclude = E]
           h3 == [h2 EXCEPT !.must_have = M]
           h4 == [h3 EXCEPT !.must_not = N]
           h5 == [h4 EXCEPT !.commute_max = L]
<1>1. Updated(hard, I, E, M, N, L) = h5
  BY DEF Updated
<1>2. h1 =
          [ price_min |-> hard.price_min, price_max |-> hard.price_max,
            beds_min |-> hard.beds_min, baths_min |-> hard.baths_min,
            include |-> I, exclude |-> hard.exclude, commute_max |-> hard.commute_max,
            must_have |-> hard.must_have, must_not |-> hard.must_not,
            available_now |-> hard.available_now, move_in_after |-> hard.move_in_after ]
  BY DEF HasConstraints
<1> HIDE DEF h1
<1>3. h2 =
          [ price_min |-> hard.price_min, price_max |-> hard.price_max,
            beds_min |-> hard.beds_min, baths_min |-> hard.baths_min,
            include |-> I, exclude |-> E, commute_max |-> hard.commute_max,
            must_have |-> hard.must_have, must_not |-> hard.must_not,
            available_now |-> hard.available_now, move_in_after |-> hard.move_in_after ]
  BY <1>2
<1> HIDE DEF h2
<1>4. h3 =
          [ price_min |-> hard.price_min, price_max |-> hard.price_max,
            beds_min |-> hard.beds_min, baths_min |-> hard.baths_min,
            include |-> I, exclude |-> E, commute_max |-> hard.commute_max,
            must_have |-> M, must_not |-> hard.must_not,
            available_now |-> hard.available_now, move_in_after |-> hard.move_in_after ]
  BY <1>3
<1> HIDE DEF h3
<1>5. h4 =
          [ price_min |-> hard.price_min, price_max |-> hard.price_max,
            beds_min |-> hard.beds_min, baths_min |-> hard.baths_min,
            include |-> I, exclude |-> E, commute_max |-> hard.commute_max,
            must_have |-> M, must_not |-> N,
            available_now |-> hard.available_now, move_in_after |-> hard.move_in_after ]
  BY <1>4
<1> HIDE DEF h4
<1>6. h5 =
          [ price_min |-> hard.price_min, price_max |-> hard.price_max,
            beds_min |-> hard.beds_min, baths_min |-> hard.baths_min,
            include |-> I, exclude |-> E, commute_max |-> L,
            must_have |-> M, must_not |-> N,
            available_now |-> hard.available_now, move_in_after |-> hard.move_in_after ]
  BY <1>5
<1> HIDE DEF h5
<1>7. QED BY <1>1, <1>6, Zenon

LEMMA NormalIs ==
  ASSUME NEW spec, Parser!IsSpec(spec)
  PROVE  Parser!Normal(spec) =
           [ day |-> spec.day,
             prompt |-> [k \in DOMAIN spec.prompt |-> Parser!Plain(spec.prompt[k])],
             hard |->
               [ price_min |-> spec.hard.price_min, price_max |-> spec.hard.price_max,
                 beds_min |-> spec.hard.beds_min, baths_min |-> spec.hard.baths_min,
                 include |-> Places(spec.hard.include), exclude |-> Places(spec.hard.exclude),
                 commute_max |-> PlainLimits(spec.hard.commute_max),
                 must_have |-> Wishes(spec.hard.must_have), must_not |-> Wishes(spec.hard.must_not),
                 available_now |-> spec.hard.available_now,
                 move_in_after |-> spec.hard.move_in_after ] ]
<1> DEFINE hard == spec.hard
           limits == {[limit EXCEPT !.label = Parser!Plain(@)] : limit \in hard.commute_max}
           prompt == [k \in DOMAIN spec.prompt |-> Parser!Plain(spec.prompt[k])]
           I == Places(hard.include)  E == Places(hard.exclude)
           M == Wishes(hard.must_have)  N == Wishes(hard.must_not)
<1>1. limits = PlainLimits(hard.commute_max)
  <2> DEFINE To(limit) == [limit EXCEPT !.label = Parser!Plain(@)]
             Anew(limit) == [label |-> Parser!Plain(limit.label), mode |-> limit.mode, max |-> limit.max]
  <2>1. ASSUME NEW limit \in hard.commute_max PROVE To(limit) = Anew(limit)
    <3>1. limit = [label |-> limit.label, mode |-> limit.mode, max |-> limit.max]
      BY Zenon DEF Parser!IsSpec
    <3>2. QED BY <3>1
  <2>2. limits = {To(limit) : limit \in hard.commute_max}
        /\ PlainLimits(hard.commute_max) = {Anew(limit) : limit \in hard.commute_max}
    BY DEF PlainLimits
  <2> HIDE DEF To, Anew, limits
  <2>3. QED BY <2>1, <2>2
<1> DEFINE settled == Updated(hard, I, E, M, N, limits)
<1>2. Parser!Normal(spec) = [spec EXCEPT !.prompt = prompt, !.hard = settled]
  BY Zenon DEF Parser!Normal, Parser!NormalHard, Places, Wishes, Updated
<1>3. spec = [day |-> spec.day, prompt |-> spec.prompt, hard |-> hard]
  BY DEF Parser!IsSpec
<1>4. HasConstraints(hard)
  BY DEF Parser!IsSpec, HasConstraints
<1> DEFINE p1 == [spec EXCEPT !.prompt = prompt]
<1> HIDE DEF limits, prompt, I, E, M, N, hard
<1>5. [spec EXCEPT !.prompt = prompt, !.hard = settled] = [p1 EXCEPT !.hard = settled]
  OBVIOUS
<1>6. settled =
          [ price_min |-> hard.price_min, price_max |-> hard.price_max,
            beds_min |-> hard.beds_min, baths_min |-> hard.baths_min,
            include |-> I, exclude |-> E, commute_max |-> limits,
            must_have |-> M, must_not |-> N,
            available_now |-> hard.available_now, move_in_after |-> hard.move_in_after ]
  BY <1>4, HardUpdated
<1> HIDE DEF settled
<1>7. p1 = [day |-> spec.day, prompt |-> prompt, hard |-> hard]
  BY <1>3
<1> HIDE DEF p1
<1>8. [p1 EXCEPT !.hard = settled] = [day |-> spec.day, prompt |-> prompt, hard |-> settled]
  BY <1>7
<1>9. QED BY <1>1, <1>2, <1>5, <1>6, <1>8, Zenon DEF I, E, M, N, prompt, hard

\* What may be stored: settled, and its features are spelled somehow.
IsSettled(spec) ==
  /\ Parser!IsSpec(spec) /\ Parser!Problems(spec) = {} /\ Parser!Normal(spec) = spec
  /\ IsFiniteSet(spec.hard.commute_max)
  /\ Parser!Words(spec.hard.must_have \cup spec.hard.must_not) \subseteq DOMAIN Spellings

LEMMA WishesTogether ==
  ASSUME NEW S, NEW T
  PROVE  /\ Parser!Features(S \cup T) = Parser!Features(S) \cup Parser!Features(T)
         /\ Parser!Words(S \cup T) = Parser!Words(S) \cup Parser!Words(T)
<1>1. Parser!Filled(S \cup T) = Parser!Filled(S) \cup Parser!Filled(T)
  BY DEF Parser!Filled
<1>2. QED BY <1>1 DEF Parser!Features, Parser!Words

LEMMA NormalIsSpec ==
  ASSUME NEW spec, Parser!IsSpec(spec)
  PROVE  /\ Parser!IsSpec(Parser!Normal(spec))
         /\ Parser!Normal(Parser!Normal(spec)) = Parser!Normal(spec)
         /\ IsFiniteSet(spec.hard.commute_max) => IsFiniteSet(Parser!Normal(spec).hard.commute_max)
<1> DEFINE hard == spec.hard
           N == Parser!Normal(spec)
           prompt == [k \in DOMAIN spec.prompt |-> Parser!Plain(spec.prompt[k])]
           limits == PlainLimits(hard.commute_max)
<1>1. N = [ day |-> spec.day, prompt |-> prompt, hard |-> N.hard ]
      /\ N.hard =
           [ price_min |-> hard.price_min, price_max |-> hard.price_max,
             beds_min |-> hard.beds_min, baths_min |-> hard.baths_min,
             include |-> Places(hard.include), exclude |-> Places(hard.exclude),
             commute_max |-> limits,
             must_have |-> Wishes(hard.must_have), must_not |-> Wishes(hard.must_not),
             available_now |-> hard.available_now, move_in_after |-> hard.move_in_after ]
  <2> HIDE DEF prompt, limits
  <2>1. N = [ day |-> spec.day, prompt |-> prompt, hard |->
         [ price_min |-> hard.price_min, price_max |-> hard.price_max,
             beds_min |-> hard.beds_min, baths_min |-> hard.baths_min,
             include |-> Places(hard.include), exclude |-> Places(hard.exclude),
             commute_max |-> limits,
             must_have |-> Wishes(hard.must_have), must_not |-> Wishes(hard.must_not),
             available_now |-> hard.available_now, move_in_after |-> hard.move_in_after ] ]
    BY NormalIs DEF prompt, limits
  <2> HIDE DEF N
  <2>2. QED BY <2>1
<1> HIDE DEF N
<1>2. /\ N.day = spec.day /\ N.prompt = prompt
      /\ N.hard.price_min = hard.price_min /\ N.hard.price_max = hard.price_max
      /\ N.hard.beds_min = hard.beds_min /\ N.hard.baths_min = hard.baths_min
      /\ N.hard.include = Places(hard.include) /\ N.hard.exclude = Places(hard.exclude)
      /\ N.hard.commute_max = limits
      /\ N.hard.must_have = Wishes(hard.must_have) /\ N.hard.must_not = Wishes(hard.must_not)
      /\ N.hard.available_now = hard.available_now /\ N.hard.move_in_after = hard.move_in_after
  <2> HIDE DEF hard, limits, prompt
  <2>1. QED BY <1>1
<1>3. /\ spec.day \in Int /\ Len(spec.prompt) \in Nat /\ DOMAIN spec.prompt = 1..Len(spec.prompt)
      /\ Parser!IsOptional(hard.price_max) /\ Parser!IsOptional(hard.price_min)
      /\ Parser!IsOptional(hard.beds_min) /\ Parser!IsOptional(hard.baths_min)
      /\ \A limit \in hard.commute_max :
           limit = [label |-> limit.label, mode |-> limit.mode, max |-> limit.max] /\ limit.max \in Int
  BY DEF Parser!IsSpec
<1> HIDE DEF hard
<1>4. Len(prompt) \in Nat /\ DOMAIN prompt = 1..Len(prompt)
  <2> DEFINE n == Len(spec.prompt)
             e(k) == Parser!Plain(spec.prompt[k])
             S == {e(k) : k \in 1..n}
  <2>1. prompt = [k \in 1..n |-> e(k)] /\ n \in Nat
    BY <1>3
  <2> HIDE DEF e, n, prompt
  <2>2. prompt \in [1..n -> S] /\ DOMAIN prompt = 1..n
    BY <2>1
  <2> HIDE DEF S
  <2>3. Len(prompt) = n
    BY <2>1, <2>2
  <2>4. QED BY <2>1, <2>2, <2>3
<1>5. IsFiniteSet(hard.commute_max) => IsFiniteSet(limits)
  <2> DEFINE e(limit) == [label |-> Parser!Plain(limit.label), mode |-> limit.mode, max |-> limit.max]
             f == [limit \in hard.commute_max |-> e(limit)]
  <2>1. limits = {e(limit) : limit \in hard.commute_max}
    BY DEF PlainLimits
  <2> HIDE DEF e, limits
  <2>2. f \in Surjection(hard.commute_max, limits)
    BY <2>1 DEF Surjection
  <2>3. QED BY <2>2, FS_Surjection
<1>6. \A limit \in limits :
        limit = [label |-> limit.label, mode |-> limit.mode, max |-> limit.max] /\ limit.max \in Int
        /\ limit.label = Parser!Plain(limit.label)
  <2>1. SUFFICES ASSUME NEW l \in hard.commute_max, NEW limit,
                        limit = [label |-> Parser!Plain(l.label), mode |-> l.mode, max |-> l.max]
                 PROVE  /\ limit = [label |-> limit.label, mode |-> limit.mode, max |-> limit.max]
                        /\ limit.max \in Int
                        /\ limit.label = Parser!Plain(limit.label)
    BY Zenon DEF PlainLimits
  <2>2. limit.label = Parser!Plain(l.label) /\ limit.max = l.max /\ limit.mode = l.mode
    BY <2>1
  <2>3. Parser!Plain(Parser!Plain(l.label)) = Parser!Plain(l.label)
    BY DEF Parser!Plain
  <2>4. QED BY <1>3, <2>1, <2>2, <2>3
<1> HIDE DEF prompt, limits
<1>7. Parser!IsSpec(N)
  <2>1. N = [day |-> N.day, prompt |-> N.prompt, hard |-> N.hard]
    BY <1>1, <1>2
  <2>2. N.hard =
           [ price_min |-> N.hard.price_min, price_max |-> N.hard.price_max,
             beds_min |-> N.hard.beds_min, baths_min |-> N.hard.baths_min,
             include |-> N.hard.include, exclude |-> N.hard.exclude,
             commute_max |-> N.hard.commute_max,
             must_have |-> N.hard.must_have, must_not |-> N.hard.must_not,
             available_now |-> N.hard.available_now, move_in_after |-> N.hard.move_in_after ]
    BY <1>1, <1>2, Zenon
  <2>3. /\ N.day \in Int /\ Len(N.prompt) \in Nat /\ DOMAIN N.prompt = 1..Len(N.prompt)
        /\ Parser!IsOptional(N.hard.price_max) /\ Parser!IsOptional(N.hard.price_min)
        /\ Parser!IsOptional(N.hard.beds_min) /\ Parser!IsOptional(N.hard.baths_min)
    BY <1>2, <1>3, <1>4, <1>5
  <2>4. \A limit \in N.hard.commute_max :
           limit = [label |-> limit.label, mode |-> limit.mode, max |-> limit.max] /\ limit.max \in Int
    BY <1>2, <1>6, Zenon
  <2>5. QED BY <2>1, <2>2, <2>3, <2>4 DEF Parser!IsSpec
<1>8. [k \in DOMAIN prompt |-> Parser!Plain(prompt[k])] = prompt
  BY DEF prompt, Parser!Plain
<1>9. PlainLimits(limits) = limits
  <2> DEFINE e(limit) == [label |-> Parser!Plain(limit.label), mode |-> limit.mode, max |-> limit.max]
  <2>1. \A limit \in limits : e(limit) = limit
    BY <1>6, Zenon
  <2>2. PlainLimits(limits) = {e(limit) : limit \in limits}
    BY DEF PlainLimits
  <2> HIDE DEF e
  <2>3. QED BY <2>1, <2>2
<1>10. \A texts : Places(Places(texts)) = Places(texts) /\ Wishes(Wishes(texts)) = Wishes(texts)
  BY PlacesSettle, FeaturesSettle, Zenon DEF Places, Wishes
<1>11. Parser!Normal(N) =
        [ day |-> N.day, prompt |-> [k \in DOMAIN N.prompt |-> Parser!Plain(N.prompt[k])],
          hard |->
            [ price_min |-> N.hard.price_min, price_max |-> N.hard.price_max,
              beds_min |-> N.hard.beds_min, baths_min |-> N.hard.baths_min,
              include |-> Places(N.hard.include), exclude |-> Places(N.hard.exclude),
              commute_max |-> PlainLimits(N.hard.commute_max),
              must_have |-> Wishes(N.hard.must_have), must_not |-> Wishes(N.hard.must_not),
              available_now |-> N.hard.available_now, move_in_after |-> N.hard.move_in_after ] ]
  BY <1>7, NormalIs, Zenon
<1>12. Parser!Normal(N) =
        [ day |-> spec.day, prompt |-> prompt,
          hard |->
            [ price_min |-> hard.price_min, price_max |-> hard.price_max,
              beds_min |-> hard.beds_min, baths_min |-> hard.baths_min,
              include |-> Places(hard.include), exclude |-> Places(hard.exclude),
              commute_max |-> limits,
              must_have |-> Wishes(hard.must_have), must_not |-> Wishes(hard.must_not),
              available_now |-> hard.available_now, move_in_after |-> hard.move_in_after ] ]
  BY <1>2, <1>8, <1>9, <1>10, <1>11, Zenon
<1>13. Parser!Normal(N) = N
  BY <1>1, <1>12, Zenon
<1>14. QED BY <1>2, <1>5, <1>7, <1>13 DEF N, hard

LEMMA NormalSettles ==
  ASSUME NEW spec, Parser!IsSpec(spec), Parser!Problems(Parser!Normal(spec)) = {},
         IsFiniteSet(spec.hard.commute_max),
         Parser!Features(spec.hard.must_have \cup spec.hard.must_not) \subseteq DOMAIN Spellings
  PROVE  IsSettled(Parser!Normal(spec))
<1> DEFINE N == Parser!Normal(spec)
<1>1. N.hard.must_have = Wishes(spec.hard.must_have) /\ N.hard.must_not = Wishes(spec.hard.must_not)
  BY NormalIs
<1> HIDE DEF N
<1>2. Parser!Words(N.hard.must_have) = Parser!Features(spec.hard.must_have)
      /\ Parser!Words(N.hard.must_not) = Parser!Features(spec.hard.must_not)
  BY <1>1, FeaturesSettle DEF Wishes
<1>3. Parser!Words(N.hard.must_have \cup N.hard.must_not) \subseteq DOMAIN Spellings
  <2>1. Parser!Words(N.hard.must_have \cup N.hard.must_not)
          = Parser!Words(N.hard.must_have) \cup Parser!Words(N.hard.must_not)
    BY WishesTogether
  <2>2. Parser!Features(spec.hard.must_have \cup spec.hard.must_not)
          = Parser!Features(spec.hard.must_have) \cup Parser!Features(spec.hard.must_not)
    BY WishesTogether
  <2>3. QED BY <1>2, <2>1, <2>2
<1>4. QED BY <1>3, NormalIsSpec DEF IsSettled, N

-------------------------------------------------------------------------------
(***************************************************************************)
(* A field resolves to one of its strongest alternatives.                  *)
(***************************************************************************)
BestOf(field, n, k) ==
  /\ k \in 1..n
  /\ \A j \in 1..n : ~Stronger(field[j], field[k]) /\ (j < k => Stronger(field[k], field[j]))

LEMMA StrongerIsWeakOrder ==
  ASSUME NEW field, IsField(field), NEW i \in DOMAIN field, NEW j \in DOMAIN field, NEW k \in DOMAIN field
  PROVE  /\ ~Stronger(field[i], field[i])
         /\ Stronger(field[i], field[j]) => ~Stronger(field[j], field[i])
         /\ Stronger(field[i], field[k]) /\ ~Stronger(field[j], field[k]) => Stronger(field[i], field[j])
<1>1. PICK a \in Int, b \in Int, c \in Int, d \in Int, e \in Int, f \in Int :
        /\ field[i].confidence = a /\ field[i].value.str = b
        /\ field[j].confidence = c /\ field[j].value.str = d
        /\ field[k].confidence = e /\ field[k].value.str = f
  BY DEF IsField
<1>2. /\ Stronger(field[i], field[j]) <=> (a > c \/ (a = c /\ b < d))
      /\ Stronger(field[j], field[i]) <=> (c > a \/ (c = a /\ d < b))
      /\ Stronger(field[i], field[k]) <=> (a > e \/ (a = e /\ b < f))
      /\ Stronger(field[j], field[k]) <=> (c > e \/ (c = e /\ d < f))
      /\ Stronger(field[i], field[i]) <=> (a > a \/ (a = a /\ b < b))
  BY <1>1 DEF Stronger
<1>3. QED BY <1>2

LEMMA BestExists ==
  ASSUME NEW field, IsField(field), NEW n \in 1..Len(field)
  PROVE  \E k : BestOf(field, n, k)
<1> DEFINE Bad == {m \in 1..Len(field) : ~\E k : BestOf(field, m, k)}
<1>1. Len(field) \in Nat /\ DOMAIN field = 1..Len(field)
  BY DEF IsField
<1>2. SUFFICES ASSUME Bad # {} PROVE FALSE
  OBVIOUS
<1>3. Bad \subseteq Nat
  BY <1>1
<1>4. PICK m \in Bad : \A l \in Bad : m <= l
  <2> HIDE DEF Bad
  <2>1. QED BY <1>2, <1>3, LeastExists
<1>5. m \in 1..Len(field) /\ m \in Nat /\ ~\E k : BestOf(field, m, k)
  BY <1>1
<1>6. CASE m = 1
  <2>1. 1..1 = {1} /\ 1 \in DOMAIN field
    BY <1>1, <1>5, <1>6
  <2>2. ~Stronger(field[1], field[1])
    BY <2>1, StrongerIsWeakOrder
  <2>3. BestOf(field, 1, 1)
    BY <2>1, <2>2 DEF BestOf
  <2>4. QED BY <1>5, <1>6, <2>3
<1>7. CASE m # 1
  <2>1. m - 1 \in 1..Len(field) /\ m - 1 < m /\ 1..(m - 1) \subseteq 1..m /\ 1..m \subseteq DOMAIN field
    BY <1>1, <1>5, <1>7
  <2>2. \E k : BestOf(field, m - 1, k)
    <3>1. m - 1 \notin Bad
      <4> HIDE DEF Bad
      <4>1. QED BY <1>4, <1>5, <2>1
    <3>2. QED BY <2>1, <3>1
  <2>3. PICK k : BestOf(field, m - 1, k)
    BY <2>2
  <2>4. k \in 1..(m - 1) /\ k < m /\ m \in 1..m
    BY <1>5, <2>3 DEF BestOf
  <2>5. \A j \in 1..m : j \in 1..(m - 1) \/ j = m
    BY <1>5
  <2>6. CASE Stronger(field[m], field[k])
    <3>1. ASSUME NEW j \in 1..(m - 1) PROVE Stronger(field[m], field[j]) /\ ~Stronger(field[j], field[m])
      <4>1. ~Stronger(field[j], field[k])
        BY <2>3 DEF BestOf
      <4>2. j \in DOMAIN field /\ k \in DOMAIN field /\ m \in DOMAIN field
        BY <2>1, <2>4
      <4>3. QED BY <2>6, <4>1, <4>2, StrongerIsWeakOrder
    <3>2. ~Stronger(field[m], field[m])
      BY <2>1, <2>4, StrongerIsWeakOrder
    <3>3. \A j \in 1..m : ~Stronger(field[j], field[m]) /\ (j < m => Stronger(field[m], field[j]))
      <4>1. \A j \in 1..m : j < m => j \in 1..(m - 1)
        BY <1>5
      <4>2. QED BY <2>5, <3>1, <3>2, <4>1, Zenon
    <3>4. BestOf(field, m, m)
      BY <2>4, <3>3 DEF BestOf
    <3>5. QED BY <1>5, <3>4
  <2>7. CASE ~Stronger(field[m], field[k])
    <3>1. ~(m < k)
      BY <1>5, <2>4
    <3>2. BestOf(field, m, k)
      <4>1. k \in 1..m
        BY <2>1, <2>4
      <4>2. \A j \in 1..(m - 1) : ~Stronger(field[j], field[k]) /\ (j < k => Stronger(field[k], field[j]))
        BY <2>3 DEF BestOf
      <4>3. QED BY <2>5, <2>7, <3>1, <4>1, <4>2, Zenon DEF BestOf
    <3>3. QED BY <1>5, <3>2
  <2>8. QED BY <2>6, <2>7
<1>8. QED BY <1>6, <1>7

LEMMA ResolvedIsStrongest ==
  ASSUME NEW field, IsField(field)
  PROVE  \E k \in DOMAIN field :
           /\ Resolved(field) = field[k]
           /\ field[k].confidence \in Int /\ field[k].value.size \in Int
           /\ \A j \in DOMAIN field : field[j].confidence <= field[k].confidence
<1> DEFINE Best(k) == \A j \in DOMAIN field :
             ~Stronger(field[j], field[k]) /\ (j < k => Stronger(field[k], field[j]))
<1>1. Len(field) \in Nat \ {0} /\ DOMAIN field = 1..Len(field)
  BY DEF IsField
<1>2. PICK b : BestOf(field, Len(field), b)
  BY <1>1, BestExists
<1>3. b \in DOMAIN field /\ Best(b)
  BY <1>1, <1>2 DEF BestOf
<1> DEFINE k == CHOOSE c \in DOMAIN field : Best(c)
<1>4. Resolved(field) = field[k]
  BY DEF Resolved
<1> HIDE DEF Best
<1>5. k \in DOMAIN field /\ Best(k)
  BY <1>3
<1> HIDE DEF k
<1>6. ASSUME NEW j \in DOMAIN field PROVE field[j].confidence <= field[k].confidence
  <2>1. ~Stronger(field[j], field[k])
    BY <1>5 DEF Best
  <2>2. field[j].confidence \in Int /\ field[k].confidence \in Int
    BY <1>5 DEF IsField
  <2>3. QED BY <2>1, <2>2 DEF Stronger
<1>7. QED BY <1>4, <1>5, <1>6 DEF IsField

-------------------------------------------------------------------------------
(***************************************************************************)
(* Scores are integers.                                                    *)
(***************************************************************************)
LEMMA TotalIsInt ==
  ASSUME NEW amounts, Len(amounts) \in Nat, \A k \in 1..Len(amounts) : amounts[k] \in Int
  PROVE  Total(amounts) \in Int
<1> DEFINE n == Len(amounts)
           Step(f, i) == IF i = 0 THEN 0 ELSE f[i - 1] + amounts[i]
           Upto(m) == \E f : f = [i \in 0..m |-> Step(f, i)]
           sum == CHOOSE f : f = [i \in 0..n |-> Step(f, i)]
<1>1. Total(amounts) = sum[n]
  BY DEF Total
<1>2. \A m \in Nat : Upto(m)
  <2> DEFINE Bad == {m \in Nat : ~Upto(m)}
  <2>1. SUFFICES ASSUME Bad # {} PROVE FALSE
    OBVIOUS
  <2>2. PICK m \in Bad : \A k \in Bad : m <= k
    <3> HIDE DEF Upto
    <3>1. Bad \subseteq Nat
      OBVIOUS
    <3> HIDE DEF Bad
    <3>2. QED BY <2>1, <3>1, LeastExists
  <2>3. m # 0
    <3> DEFINE f == [i \in 0..0 |-> 0]
    <3>1. f = [i \in 0..0 |-> Step(f, i)]
      OBVIOUS
    <3> HIDE DEF f, Step
    <3>2. Upto(0)
      BY <3>1
    <3>3. QED BY <3>2
  <2>4. m - 1 \in Nat /\ Upto(m - 1)
    <3>1. m \in Nat /\ m - 1 \in Nat /\ m - 1 < m
      BY <2>3
    <3>2. m - 1 \notin Bad
      <4> HIDE DEF Bad
      <4>1. QED BY <3>1, <2>2
    <3>3. QED BY <3>1, <3>2
  <2>5. PICK f : f = [i \in 0..(m - 1) |-> Step(f, i)]
    BY <2>4
  <2> DEFINE g == [i \in 0..m |-> Step(f, i)]
  <2>6. ASSUME NEW i \in 0..m PROVE Step(f, i) = Step(g, i)
    <3>1. CASE i = 0
      BY <3>1
    <3>2. CASE i # 0
      <4>1. i - 1 \in 0..(m - 1) /\ i - 1 \in 0..m
        BY <3>2, <2>4
      <4>2. f[i - 1] = Step(f, i - 1)
        <5> HIDE DEF Step
        <5>1. QED BY <2>5, <4>1
      <4>3. g[i - 1] = Step(f, i - 1)
        BY <4>1
      <4>4. QED BY <3>2, <4>2, <4>3
    <3>3. QED BY <3>1, <3>2
  <2>7. g = [i \in 0..m |-> Step(g, i)]
    <3> HIDE DEF Step
    <3>1. QED BY <2>6
  <2>8. Upto(m)
    <3> HIDE DEF g
    <3>1. QED BY <2>7
  <2>9. QED BY <2>8
<1>3. sum = [i \in 0..n |-> Step(sum, i)]
  <2>1. Upto(n)
    BY <1>2
  <2> HIDE DEF Step
  <2>2. QED BY <2>1
<1>4. ASSUME NEW i \in 0..n PROVE sum[i] = Step(sum, i)
  <2> HIDE DEF Step, sum
  <2>1. QED BY <1>3
<1> HIDE DEF sum
<1>5. \A i \in 0..n : sum[i] \in Int
  <2> DEFINE Bad == {i \in 0..n : sum[i] \notin Int}
  <2>1. SUFFICES ASSUME Bad # {} PROVE FALSE
    OBVIOUS
  <2>2. PICK i \in Bad : \A k \in Bad : i <= k
    <3>1. Bad \subseteq Nat
      OBVIOUS
    <3> HIDE DEF Bad
    <3>2. QED BY <2>1, <3>1, LeastExists
  <2>3. i \in 0..n /\ sum[i] \notin Int
    OBVIOUS
  <2>4. i # 0
    BY <1>4, <2>3
  <2>5. i - 1 \in 0..n /\ i - 1 < i /\ i \in 1..n
    BY <2>3, <2>4
  <2>6. sum[i - 1] \in Int
    <3>1. i - 1 \notin Bad
      <4> HIDE DEF Bad
      <4>1. QED BY <2>2, <2>5
    <3>2. QED BY <2>5, <3>1
  <2>7. sum[i] = sum[i - 1] + amounts[i]
    BY <1>4, <2>3, <2>4
  <2>8. QED BY <2>3, <2>5, <2>6, <2>7
<1>6. n \in 0..n
  OBVIOUS
<1>7. QED BY <1>1, <1>5, <1>6

\* A request is what was read of a settled spec.
IsRequest(spec) ==
  LET hard == spec.hard
  IN /\ spec.day \in Int /\ IsFiniteSet(DOMAIN spec.keywords)
     /\ hard.price_max = Absent \/ hard.price_max \in Nat
     /\ Parser!IsOptional(hard.price_min)
     /\ Parser!IsOptional(hard.beds_min) /\ Parser!IsOptional(hard.baths_min)
     /\ IsFiniteSet(hard.commute_max)
     /\ \A limit \in hard.commute_max : limit.max \in Int
     /\ hard.must_have \cup hard.must_not \subseteq DOMAIN Spellings

TermSet == [gain : Int, confidence : Int]

LEMMA TermIs ==
  ASSUME NEW g \in Int, NEW c \in Int
  PROVE  [gain |-> g, confidence |-> c] \in TermSet
  BY DEF TermSet

LEMMA PriceTermTyped ==
  ASSUME NEW doc, IsDescribed(doc), NEW hard, hard.price_max = Absent \/ hard.price_max \in Nat
  PROVE  PriceTerm(doc, hard) \in Seq(TermSet)
<1>1. CASE "price" \notin DOMAIN doc.fields \/ hard.price_max \in {Absent, 0}
  BY <1>1 DEF PriceTerm, NoTerm
<1>2. CASE ~("price" \notin DOMAIN doc.fields \/ hard.price_max \in {Absent, 0})
  <2> DEFINE best == Resolved(doc.fields["price"])
             gain == IF ~IsNumber(best.value) THEN 0
                     ELSE Above0(((hard.price_max - best.value.size) * 10000) \div hard.price_max)
  <2>1. IsField(doc.fields["price"])
    BY <1>2 DEF IsDescribed
  <2>2. best.confidence \in Int /\ best.value.size \in Int
    BY <2>1, ResolvedIsStrongest
  <2>3. PriceTerm(doc, hard) = <<[gain |-> gain, confidence |-> best.confidence]>>
    BY <1>2 DEF PriceTerm
  <2>4. gain \in Int
    <3> HIDE DEF best
    <3>1. PICK m \in Nat : m = hard.price_max /\ m > 0
      BY <1>2
    <3>2. PICK s \in Int : s = best.value.size
      BY <2>2
    <3>3. ((m - s) * 10000) \div m \in Int
      BY <3>1
    <3>4. Above0(((m - s) * 10000) \div m) \in Int
      BY <3>3 DEF Above0
    <3>5. QED BY <3>1, <3>2, <3>4
  <2> HIDE DEF best, gain
  <2>5. [gain |-> gain, confidence |-> best.confidence] \in TermSet
    BY <2>2, <2>4, TermIs
  <2>6. QED BY <2>3, <2>5
<1>3. QED BY <1>1, <1>2

LEMMA AtLeastTermTyped ==
  ASSUME NEW doc, IsDescribed(doc), NEW name, NEW min, NEW gain \in Int
  PROVE  AtLeastTerm(doc, name, min, gain) \in Seq(TermSet)
<1> DEFINE best == Resolved(doc.fields[name])
           got == IF best.value.size >= min THEN gain ELSE 0
<1>1. CASE name \notin DOMAIN doc.fields \/ min = Absent \/ ~IsNumber(best.value)
  BY <1>1 DEF AtLeastTerm, NoTerm
<1>2. CASE ~(name \notin DOMAIN doc.fields \/ min = Absent \/ ~IsNumber(best.value))
  <2>1. IsField(doc.fields[name])
    BY <1>2 DEF IsDescribed
  <2>2. best.confidence \in Int
    BY <2>1, ResolvedIsStrongest
  <2>3. AtLeastTerm(doc, name, min, gain) = <<[gain |-> got, confidence |-> best.confidence]>>
    BY <1>2 DEF AtLeastTerm
  <2>4. got \in Int
    OBVIOUS
  <2> HIDE DEF best, got
  <2>5. [gain |-> got, confidence |-> best.confidence] \in TermSet
    BY <2>2, <2>4, TermIs
  <2>6. QED BY <2>3, <2>5
<1>3. QED BY <1>1, <1>2

LEMMA CommuteTermTyped ==
  ASSUME NEW doc, IsDescribed(doc), NEW limit, limit.max \in Int, limit.label \in DOMAIN doc.commutes
  PROVE  CommuteTerm(doc, limit) \in TermSet
<1> DEFINE found == doc.commutes[limit.label]
           max == IF limit.max < 1 THEN 1 ELSE limit.max
           gain == Above0(((max - found.duration) * 10000) \div max)
<1>1. found.duration \in Int /\ found.confidence \in Int
  BY DEF IsDescribed
<1>2. max \in Int /\ max > 0
  OBVIOUS
<1>3. CommuteTerm(doc, limit) = [gain |-> gain, confidence |-> found.confidence]
  BY DEF CommuteTerm
<1>4. gain \in Int
  <2> HIDE DEF found, max
  <2>1. PICK m \in Int : m = max /\ m > 0
    BY <1>2
  <2>2. PICK d \in Int : d = found.duration
    BY <1>1
  <2>3. ((m - d) * 10000) \div m \in Int
    BY <2>1
  <2>4. Above0(((m - d) * 10000) \div m) \in Int
    BY <2>3 DEF Above0
  <2>5. QED BY <2>1, <2>2, <2>4
<1> HIDE DEF found, gain
<1>5. QED BY <1>1, <1>3, <1>4, TermIs

LEMMA SetToSeqLists ==
  ASSUME NEW S, IsFiniteSet(S)
  PROVE  \E n \in Nat : SetToSeq(S) \in [1..n -> S]
<1> DEFINE n == Cardinality(S)
<1>1. n \in Nat /\ ExistsBijection(1..n, S)
  BY FS_CardinalityType
<1>2. \E f \in [1..n -> S] : IsInjective(f)
  <2>1. PICK f : f \in Bijection(1..n, S)
    BY <1>1 DEF ExistsBijection
  <2>2. f \in [1..n -> S] /\ IsInjective(f)
    BY <2>1 DEF Bijection, Injection
  <2>3. QED BY <2>2
<1>3. SetToSeq(S) = CHOOSE f \in [1..n -> S] : IsInjective(f)
  BY DEF SetToSeq
<1> HIDE DEF n
<1>4. QED BY <1>1, <1>2, <1>3

LEMMA FinalIsInt ==
  ASSUME NEW doc, IsDescribed(doc), NEW spec, IsRequest(spec)
  PROVE  Final(doc, spec) \in Int
<1> DEFINE hard == spec.hard
           reached == {limit \in hard.commute_max : limit.label \in DOMAIN doc.commutes}
           limits == SetToSeq(reached)
           rides == [k \in DOMAIN limits |-> CommuteTerm(doc, limits[k])]
           price == PriceTerm(doc, hard)
           beds == AtLeastTerm(doc, "beds", hard.beds_min, 5000)
           baths == AtLeastTerm(doc, "baths", hard.baths_min, 2500)
           terms == price \o beds \o baths \o rides
           gains == [k \in DOMAIN terms |-> terms[k].gain]
           sures == [k \in DOMAIN terms |-> terms[k].confidence]
           n == Len(terms)
<1>1. price \in Seq(TermSet)
  BY PriceTermTyped DEF IsRequest
<1>2. beds \in Seq(TermSet) /\ baths \in Seq(TermSet)
  BY AtLeastTermTyped
<1>3. rides \in Seq(TermSet)
  <2>1. IsFiniteSet(reached)
    BY FS_Subset DEF IsRequest
  <2>2. PICK m \in Nat : limits \in [1..m -> reached]
    BY <2>1, SetToSeqLists
  <2>3. \A k \in 1..m : limits[k] \in reached
    BY <2>2
  <2>4. \A k \in 1..m : CommuteTerm(doc, limits[k]) \in TermSet
    BY <2>3, CommuteTermTyped DEF IsRequest
  <2>5. DOMAIN limits = 1..m
    BY <2>2
  <2> HIDE DEF limits
  <2>6. rides \in [1..m -> TermSet]
    BY <2>4, <2>5
  <2>7. QED BY <2>6
<1>4. Final(doc, spec) = IF n = 0 THEN 0 ELSE (2 * Total(gains) * Total(sures) + 10 * n) \div (20 * n)
  BY DEF Final
<1> HIDE DEF price, beds, baths, rides
<1>5. terms \in Seq(TermSet)
  BY <1>1, <1>2, <1>3
<1> HIDE DEF terms
<1>6. n \in Nat /\ DOMAIN terms = 1..n /\ \A k \in 1..n : terms[k].gain \in Int /\ terms[k].confidence \in Int
  <2>1. n \in Nat /\ DOMAIN terms = 1..n /\ \A k \in 1..n : terms[k] \in TermSet
    BY <1>5
  <2>2. \A t \in TermSet : t.gain \in Int /\ t.confidence \in Int
    BY DEF TermSet
  <2>3. QED BY <2>1, <2>2
<1> HIDE DEF n
<1>7. Len(gains) = n /\ Len(sures) = n /\ \A k \in 1..n : gains[k] \in Int /\ sures[k] \in Int
  <2>1. gains \in [1..n -> Int] /\ sures \in [1..n -> Int]
    BY <1>6
  <2>2. QED BY <1>6, <2>1
<1> HIDE DEF gains, sures
<1>8. Total(gains) \in Int /\ Total(sures) \in Int
  BY <1>6, <1>7, TotalIsInt
<1>9. PICK u \in Int, c \in Int : u = Total(gains) /\ c = Total(sures)
  BY <1>8
<1>10. n # 0 => (2 * u * c + 10 * n) \div (20 * n) \in Int
  <2>1. 2 * u * c + 10 * n \in Int /\ 20 * n \in Int
    BY <1>6
  <2>2. n # 0 => 20 * n > 0
    BY <1>6
  <2>3. QED BY <2>1, <2>2
<1>11. QED BY <1>4, <1>9, <1>10

-------------------------------------------------------------------------------
(***************************************************************************)
(* Ids by their scores.                                                    *)
(***************************************************************************)
ScoreIn(S, i) == (CHOOSE p \in S : p[2] = i)[1]

HasAll(s, S) == \A p \in S : \E k \in 1..Len(s) : s[k] = p[2]

LEMMA OrderedIds ==
  ASSUME NEW S, IsFiniteSet(S), S \subseteq Int \X Int, NEW limit \in Nat,
         \A p, q \in S : p[2] = q[2] => p = q
  PROVE  LET s == InOrder(S, limit)
         IN /\ s \in Seq({p[2] : p \in S}) /\ DOMAIN s = 1..Len(s) /\ Len(s) \in Nat /\ Len(s) <= limit
            /\ \A k, l \in 1..Len(s) : k < l =>
                 s[k] # s[l] /\ ScoreIn(S, s[k]) >= ScoreIn(S, s[l])
            /\ Cardinality(S) <= limit => HasAll(s, S)
<1> DEFINE s == InOrder(S, limit)
           L == IF Cardinality(S) < limit THEN Cardinality(S) ELSE limit
<1>1. PICK at : ListedAs(s, at, S, limit)
  BY Ordered
<1>2. /\ Cardinality(S) \in Nat /\ Len(s) = L /\ DOMAIN s = 1..L /\ s \in Seq({p[2] : p \in S})
      /\ \A k \in 1..L : at[k] \in S /\ s[k] = at[k][2]
      /\ \A k, l \in 1..L : k < l => Above(at[k], at[l])
      /\ Cardinality(S) <= limit => \A p \in S : \E k \in 1..L : at[k] = p
  BY <1>1 DEF ListedAs
<1>3. L \in Nat /\ L <= limit
  BY <1>2
<1> HIDE DEF L, s
<1>4. ASSUME NEW k \in 1..L PROVE ScoreIn(S, s[k]) = at[k][1]
  <2>1. \E p \in S : p[2] = s[k]
    BY <1>2
  <2> DEFINE c == CHOOSE p \in S : p[2] = s[k]
  <2>2. c \in S /\ c[2] = s[k]
    BY <2>1
  <2> HIDE DEF c
  <2>3. c = at[k]
    BY <1>2, <2>2
  <2>4. QED BY <2>3 DEF ScoreIn, c
<1>5. ASSUME NEW k \in 1..L, NEW l \in 1..L, k < l
      PROVE  s[k] # s[l] /\ ScoreIn(S, s[k]) >= ScoreIn(S, s[l])
  <2>1. at[k] \in S /\ at[l] \in S /\ Above(at[k], at[l])
    BY <1>2, <1>5
  <2>2. PICK a \in Int, b \in Int, c \in Int, d \in Int : at[k] = <<a, b>> /\ at[l] = <<c, d>>
    BY <2>1
  <2>3. a > c \/ (a = c /\ b < d)
    BY <2>1, <2>2 DEF Above
  <2>4. at[k] # at[l]
    <3>1. at[k] = at[l] => a = c /\ b = d
      BY <2>2
    <3>2. QED BY <2>3, <3>1
  <2>5. s[k] # s[l]
    BY <1>2, <2>1, <2>4
  <2>6. ScoreIn(S, s[k]) = a /\ ScoreIn(S, s[l]) = c
    BY <1>4, <2>2
  <2>7. QED BY <2>3, <2>5, <2>6
<1>6. ASSUME Cardinality(S) <= limit, NEW p \in S PROVE \E k \in 1..L : s[k] = p[2]
  <2>1. PICK k \in 1..L : at[k] = p
    BY <1>2, <1>6
  <2>2. s[k] = at[k][2]
    BY <1>2
  <2>3. QED BY <2>1, <2>2
<1>7. QED BY <1>2, <1>3, <1>5, <1>6 DEF s, HasAll

LEMMA FtsScoreIsInt ==
  ASSUME NEW doc, NEW keywords, IsFiniteSet(DOMAIN keywords),
         IsFiniteSet(DOMAIN doc.title), IsFiniteSet(DOMAIN doc.body)
  PROVE  FtsScore(doc, keywords) \in Int
<1>1. ASSUME NEW tokens, IsFiniteSet(DOMAIN tokens) PROVE Counted(tokens, keywords) \in Nat
  <2> DEFINE P == (DOMAIN keywords) \X (DOMAIN tokens)
             C == {p \in P : keywords[p[1]] = tokens[p[2]]}
  <2>1. IsFiniteSet(P)
    BY <1>1, FS_Product
  <2>2. C \subseteq P
    OBVIOUS
  <2>3. Counted(tokens, keywords) = Cardinality(C)
    BY DEF Counted
  <2> HIDE DEF P, C
  <2>4. QED BY <2>1, <2>2, <2>3, FS_Subset, FS_CardinalityType
<1>2. QED BY <1>1 DEF FtsScore

LEMMA RetrievedIds ==
  ASSUME NEW keywords, IsFiniteSet(DOMAIN keywords),
         \A i \in Ids : docs[i] = Absent \/ docs[i] \in Documents[i]
  PROVE  LET ids == Retrieved(keywords)
         IN /\ ids \in Seq(Ids) /\ DOMAIN ids = 1..Len(ids) /\ Len(ids) \in Nat
            /\ \A k \in 1..Len(ids) : docs[ids[k]] # Absent
            /\ \A k, l \in 1..Len(ids) : k < l => ids[k] # ids[l]
<1> DEFINE stored == {j \in Ids : docs[j] # Absent}
           scored == {<<FtsScore(docs[i], keywords), i>> : i \in stored}
           S == {p \in scored : p[1] > 0}
           f == [i \in stored |-> <<FtsScore(docs[i], keywords), i>>]
           ids == Retrieved(keywords)
<1>1. ids = InOrder(S, CandidateLimit)
  BY DEF Retrieved
<1>2. \A i \in stored : FtsScore(docs[i], keywords) \in Int /\ i \in Int
  <2>1. TAKE i \in stored
  <2>2. docs[i] \in Documents[i] /\ i \in Ids
    OBVIOUS
  <2>3. IsFiniteSet(DOMAIN docs[i].title) /\ IsFiniteSet(DOMAIN docs[i].body)
    BY <2>2, DocumentsAssumption
  <2>4. QED BY <2>2, <2>3, FtsScoreIsInt, IdsAssumption
<1>3. IsFiniteSet(scored)
  <2>1. IsFiniteSet(stored)
    BY IdsAssumption, FS_Subset
  <2> HIDE DEF stored
  <2>2. f \in Surjection(stored, scored)
    BY DEF Surjection
  <2> HIDE DEF f, scored
  <2>3. QED BY <2>1, <2>2, FS_Surjection
<1>4. IsFiniteSet(S)
  <2>1. S \subseteq scored
    OBVIOUS
  <2> HIDE DEF S, scored
  <2>2. QED BY <1>3, <2>1, FS_Subset
<1>5. \A p \in S : p \in Int \X Int /\ p[2] \in stored /\ p = <<FtsScore(docs[p[2]], keywords), p[2]>>
  <2> HIDE DEF stored
  <2>1. \A p \in scored : p \in Int \X Int /\ p[2] \in stored /\ p = <<FtsScore(docs[p[2]], keywords), p[2]>>
    BY <1>2
  <2>2. QED BY <2>1
<1> HIDE DEF S
<1>6. S \subseteq Int \X Int /\ \A p, q \in S : p[2] = q[2] => p = q
  <2>1. \A p \in S : p \in Int \X Int
    BY <1>5, Zenon
  <2>2. \A p, q \in S : p[2] = q[2] => p = q
    BY <1>5, Zenon
  <2>3. QED BY <2>1, <2>2
<1>7. CandidateLimit \in Nat
  BY LimitsAssumption
<1> DEFINE s == InOrder(S, CandidateLimit)
<1>8. /\ s \in Seq({p[2] : p \in S}) /\ DOMAIN s = 1..Len(s) /\ Len(s) \in Nat
      /\ \A k, l \in 1..Len(s) : k < l => s[k] # s[l]
  <2>1. /\ s \in Seq({p[2] : p \in S}) /\ DOMAIN s = 1..Len(s) /\ Len(s) \in Nat /\ Len(s) <= CandidateLimit
        /\ \A k, l \in 1..Len(s) : k < l =>
             s[k] # s[l] /\ ScoreIn(S, s[k]) >= ScoreIn(S, s[l])
    <3> HIDE DEF scored
    <3>1. QED BY <1>4, <1>6, <1>7, OrderedIds, Zenon
  <2>2. QED BY <2>1, Zenon
<1>9. {p[2] : p \in S} \subseteq stored
  BY <1>5
<1> HIDE DEF s, stored
<1>10. s \in Seq(stored) /\ \A k \in 1..Len(s) : s[k] \in stored
  BY <1>8, <1>9
<1>11. stored \subseteq Ids /\ \A i \in stored : docs[i] # Absent
  BY DEF stored
<1>12. s \in Seq(Ids)
  BY <1>10, <1>11
<1>13. s = ids
  BY <1>1 DEF s
<1> HIDE DEF ids
<1>14. /\ ids \in Seq(Ids) /\ DOMAIN ids = 1..Len(ids) /\ Len(ids) \in Nat
       /\ \A k \in 1..Len(ids) : docs[ids[k]] # Absent
       /\ \A k, l \in 1..Len(ids) : k < l => ids[k] # ids[l]
  BY <1>8, <1>10, <1>11, <1>12, <1>13
<1>15. QED BY <1>14 DEF ids

-------------------------------------------------------------------------------
(***************************************************************************)
(* What holds of the repositories and of a request on its way.             *)
(***************************************************************************)
\* What was read: for each id at most one of its documents.
AreRead(reads) ==
  /\ \A r \in reads : r = <<r[1], r[2]>> /\ r[1] \in Ids /\ r[2] \in Documents[r[1]]
  /\ \A r, q \in reads : r[1] = q[1] => r = q

Stored ==
  docs = [i \in Ids |-> docs[i]] /\ \A i \in Ids : docs[i] = Absent \/ docs[i] \in Documents[i]
Kept ==
  specs = [s \in SpecIds |-> specs[s]] /\ \A s \in SpecIds : specs[s] = Absent \/ IsSettled(specs[s])
Asked == request = Absent \/ IsRequest(request)
Listed ==
  /\ todo \in Seq(Ids)
  /\ \A k \in 1..Len(todo) : docs[todo[k]] # Absent
  /\ \A k, l \in 1..Len(todo) : k < l => todo[k] # todo[l]
Hydrated ==
  /\ AreRead(read)
  /\ \A r \in read : docs[r[1]] # Absent /\ \A k \in 1..Len(todo) : todo[k] # r[1]
SInv == Stored /\ Kept /\ Asked /\ Listed /\ Hydrated

LEMMA ReadIsRequest ==
  ASSUME NEW spec, IsSettled(spec)
  PROVE  IsRequest(Parser!Read(spec))
<1> DEFINE hard == spec.hard
           limits == {[limit EXCEPT !.label = @.word] : limit \in hard.commute_max}
           I == Parser!Words(hard.include)  E == Parser!Words(hard.exclude)
           M == Parser!Words(hard.must_have)  N == Parser!Words(hard.must_not)
           words == Updated(hard, I, E, M, N, limits)
           keywords == [k \in DOMAIN spec.prompt |-> spec.prompt[k].word]
           r == Parser!Read(spec)
<1>1. r = [day |-> spec.day, keywords |-> keywords, hard |-> words]
  BY Zenon DEF Parser!Read, Updated
<1>2. /\ spec.day \in Int /\ Len(spec.prompt) \in Nat /\ DOMAIN spec.prompt = 1..Len(spec.prompt)
      /\ Parser!IsOptional(hard.price_max) /\ Parser!IsOptional(hard.price_min)
      /\ Parser!IsOptional(hard.beds_min) /\ Parser!IsOptional(hard.baths_min)
      /\ IsFiniteSet(hard.commute_max)
      /\ \A limit \in hard.commute_max :
           limit = [label |-> limit.label, mode |-> limit.mode, max |-> limit.max] /\ limit.max \in Int
  BY DEF IsSettled, Parser!IsSpec
<1>3. HasConstraints(hard)
  BY DEF IsSettled, Parser!IsSpec, HasConstraints
<1>4. hard.price_max = Absent \/ hard.price_max \in Nat
  <2>1. Parser!Problems(spec) = {}
    BY DEF IsSettled
  <2> DEFINE OutOf(field) == IF Parser!Negative(hard[field]) THEN {<<"value_range", field>>} ELSE {}
  <2>2. UNION {OutOf(field) : field \in {"price_min", "price_max", "beds_min", "baths_min"}} \subseteq Parser!Problems(spec)
    BY DEF Parser!Problems
  <2>3. OutOf("price_max") = {}
    <3> HIDE DEF OutOf
    <3>1. QED BY <2>1, <2>2
  <2>4. ~Parser!Negative(hard.price_max)
    BY <2>3
  <2> HIDE DEF hard
  <2>5. QED BY <1>2, <2>4 DEF Parser!Negative, Parser!IsOptional
<1>5. Parser!Words(hard.must_have \cup hard.must_not) = M \cup N
      /\ Parser!Words(hard.must_have \cup hard.must_not) \subseteq DOMAIN Spellings
  BY WishesTogether DEF IsSettled
<1> HIDE DEF hard, I, E, M, N
<1>6. IsFiniteSet(limits)
  <2> DEFINE f == [limit \in hard.commute_max |-> [limit EXCEPT !.label = @.word]]
  <2>1. f \in Surjection(hard.commute_max, limits)
    BY DEF Surjection
  <2> HIDE DEF f, limits
  <2>2. QED BY <1>2, <2>1, FS_Surjection
<1>7. \A limit \in limits : limit.max \in Int
  <2>1. ASSUME NEW l \in hard.commute_max PROVE [l EXCEPT !.label = @.word].max \in Int
    <3>1. l = [label |-> l.label, mode |-> l.mode, max |-> l.max] /\ l.max \in Int
      BY <1>2
    <3>2. QED BY <3>1
  <2>2. QED BY <2>1
<1> HIDE DEF limits
<1>8. words =
           [ price_min |-> hard.price_min, price_max |-> hard.price_max,
             beds_min |-> hard.beds_min, baths_min |-> hard.baths_min,
             include |-> I, exclude |-> E, commute_max |-> limits,
             must_have |-> M, must_not |-> N,
             available_now |-> hard.available_now, move_in_after |-> hard.move_in_after ]
  BY <1>3, HardUpdated
<1> HIDE DEF words
<1>9. /\ words.price_max = hard.price_max /\ words.price_min = hard.price_min
      /\ words.beds_min = hard.beds_min /\ words.baths_min = hard.baths_min
      /\ words.commute_max = limits /\ words.must_have = M /\ words.must_not = N
  BY <1>8
<1>10. IsFiniteSet(DOMAIN keywords)
  <2>1. DOMAIN keywords = 1..Len(spec.prompt)
    BY <1>2
  <2> HIDE DEF keywords
  <2>2. PICK n \in Int : n = Len(spec.prompt)
    BY <1>2
  <2>3. IsFiniteSet(1..n)
    BY FS_Interval
  <2>4. QED BY <2>1, <2>2, <2>3
<1> HIDE DEF keywords, r
<1>11. r.day = spec.day /\ r.keywords = keywords /\ r.hard = words
  BY <1>1
<1>12. QED BY <1>2, <1>4, <1>5, <1>6, <1>7, <1>9, <1>10, <1>11 DEF IsRequest, r

LEMMA SInvInit == Init => SInv
<1>1. SUFFICES ASSUME Init PROVE SInv
  OBVIOUS
<1>2. todo = <<>> /\ read = {} /\ request = Absent
      /\ docs = [i \in Ids |-> Absent] /\ specs = [s \in SpecIds |-> Absent]
  BY <1>1 DEF Init
<1>3. Stored /\ Kept /\ Asked
  BY <1>2 DEF Stored, Kept, Asked
<1>4. Listed
  BY <1>2 DEF Listed
<1>5. Hydrated
  BY <1>2 DEF Hydrated, AreRead
<1>6. QED BY <1>3, <1>4, <1>5 DEF SInv

LEMMA SInvNext == SInv /\ [Next]_vars => SInv'
<1> SUFFICES ASSUME SInv, [Next]_vars PROVE SInv'
  OBVIOUS
<1> USE DEF SInv
<1>1. ASSUME NEW i \in Ids, NEW doc \in Documents[i], Add(i, doc) PROVE SInv'
  <2>1. docs' = [docs EXCEPT ![i] = doc] /\ UNCHANGED <<specs, request, todo, read>>
    BY <1>1 DEF Add
  <2>2. doc # Absent
    BY DocumentsAssumption
  <2>3. docs = [j \in Ids |-> docs[j]]
    BY DEF Stored
  <2>4. docs' = [j \in Ids |-> docs'[j]] /\ \A j \in Ids : docs'[j] = IF j = i THEN doc ELSE docs[j]
    BY <2>1, <2>3
  <2>5. Stored'
    BY <2>4 DEF Stored
  <2>6. \A j \in Ids : docs[j] # Absent => docs'[j] # Absent
    BY <2>2, <2>4
  <2>7. Listed'
    <3>1. \A k \in 1..Len(todo) : todo[k] \in Ids
      BY DEF Listed
    <3>2. \A k \in 1..Len(todo) : docs'[todo[k]] # Absent
      BY <2>6, <3>1 DEF Listed
    <3>3. todo' = todo
      BY <2>1
    <3>4. QED BY <3>2, <3>3 DEF Listed
  <2>8. Hydrated'
    <3>1. read' = read /\ todo' = todo
      BY <2>1
    <3>2. \A r \in read : docs'[r[1]] # Absent
      BY <2>6 DEF Hydrated, AreRead
    <3>3. QED BY <3>1, <3>2 DEF Hydrated, AreRead
  <2>9. Kept' /\ Asked'
    BY <2>1 DEF Kept, Asked
  <2>10. QED BY <2>5, <2>7, <2>8, <2>9
<1>2. ASSUME NEW s \in SpecIds, NEW payload \in Payloads[s], Create(s, payload) PROVE SInv'
  <2> DEFINE parsed == Parser!Parsed(payload)
  <2>1. parsed.errors = {} /\ specs' = [specs EXCEPT ![s] = parsed.spec] /\ UNCHANGED <<docs, request, todo, read>>
    BY <1>2 DEF Create
  <2>2. IsSettled(parsed.spec)
    <3> DEFINE spec == Parser!Normal(payload.spec)
               problems == Parser!Problems(spec)
    <3>1. payload.parses /\ payload.schema_version = SchemaVersion
      <4>1. CASE ~payload.parses
        <5>1. parsed = [spec |-> Absent, errors |-> {<<"schema_error", "">>}]
          BY <4>1 DEF Parser!Parsed
        <5> HIDE DEF parsed
        <5>2. parsed.errors = {<<"schema_error", "">>}
          BY <5>1
        <5>3. QED BY <2>1, <5>2
      <4>2. CASE payload.parses /\ payload.schema_version # SchemaVersion
        <5>1. parsed = [spec |-> Absent, errors |-> {<<"schema_version_mismatch", "schema_version">>}]
          BY <4>2 DEF Parser!Parsed
        <5> HIDE DEF parsed
        <5>2. parsed.errors = {<<"schema_version_mismatch", "schema_version">>}
          BY <5>1
        <5>3. QED BY <2>1, <5>2
      <4>3. QED BY <4>1, <4>2
    <3>2. parsed = [spec |-> IF problems = {} THEN spec ELSE Absent, errors |-> problems]
      BY <3>1 DEF Parser!Parsed
    <3> HIDE DEF spec, problems, parsed
    <3>3. problems = {} /\ parsed.spec = spec
      BY <2>1, <3>2
    <3>4. /\ Parser!IsSpec(payload.spec) /\ IsFiniteSet(payload.spec.hard.commute_max)
          /\ Parser!Features(payload.spec.hard.must_have \cup payload.spec.hard.must_not) \subseteq DOMAIN Spellings
      BY <3>1, PayloadsAssumption
    <3>5. QED BY <3>3, <3>4, NormalSettles DEF spec, problems
  <2> HIDE DEF parsed
  <2>3. Kept'
    <3>1. specs = [t \in SpecIds |-> specs[t]]
      BY DEF Kept
    <3>2. specs' = [t \in SpecIds |-> specs'[t]] /\ \A t \in SpecIds : specs'[t] = IF t = s THEN parsed.spec ELSE specs[t]
      BY <2>1, <3>1
    <3>3. \A t \in SpecIds : specs[t] = Absent \/ IsSettled(specs[t])
      BY DEF Kept
    <3> DEFINE Fine(spec) == spec = Absent \/ IsSettled(spec)
    <3>4. \A t \in SpecIds : Fine(specs[t])
      BY <3>3
    <3>5. Fine(parsed.spec)
      BY <2>2
    <3> HIDE DEF Fine
    <3>6. \A t \in SpecIds : Fine(specs'[t])
      BY <3>2, <3>4, <3>5
    <3>7. QED BY <3>2, <3>6 DEF Kept, Fine
  <2>4. Stored' /\ Asked' /\ Listed' /\ Hydrated'
    BY <2>1 DEF Stored, Asked, Listed, Hydrated, AreRead
  <2>5. QED BY <2>3, <2>4
<1>3. ASSUME NEW s \in SpecIds, Request(s) PROVE SInv'
  <2>1. /\ specs[s] # Absent /\ request' = Parser!Read(specs[s]) /\ todo' = Retrieved(request'.keywords)
        /\ read' = {} /\ UNCHANGED <<docs, specs>>
    BY <1>3 DEF Request
  <2>2. IsSettled(specs[s])
    BY <2>1 DEF Kept
  <2>3. IsRequest(request')
    BY <2>1, <2>2, ReadIsRequest
  <2>4. IsFiniteSet(DOMAIN request'.keywords)
    BY <2>3 DEF IsRequest
  <2>5. \A i \in Ids : docs[i] = Absent \/ docs[i] \in Documents[i]
    BY DEF Stored
  <2>6. /\ todo' \in Seq(Ids) /\ \A k \in 1..Len(todo') : docs[todo'[k]] # Absent
        /\ \A k, l \in 1..Len(todo') : k < l => todo'[k] # todo'[l]
    <3> DEFINE keywords == request'.keywords
    <3>1. IsFiniteSet(DOMAIN keywords) /\ todo' = Retrieved(keywords)
      BY <2>1, <2>4
    <3> HIDE DEF keywords
    <3>2. QED BY <2>5, <3>1, RetrievedIds
  <2>7. docs' = docs /\ specs' = specs /\ read' = {}
    BY <2>1
  <2>8. Stored' /\ Kept'
    BY <2>7 DEF Stored, Kept
  <2>9. Asked'
    BY <2>3 DEF Asked
  <2>10. Listed'
    BY <2>6, <2>7 DEF Listed
  <2>11. Hydrated'
    BY <2>7 DEF Hydrated, AreRead
  <2>12. QED BY <2>8, <2>9, <2>10, <2>11
<1>4. ASSUME Hydrate PROVE SInv'
  <2> DEFINE i == Head(todo)
             n == Len(todo)
  <2>1. /\ todo # <<>> /\ todo' = Tail(todo) /\ UNCHANGED <<docs, specs, request>>
        /\ read' = IF docs[i] = Absent THEN read ELSE read \cup {<<i, docs[i]>>}
    BY <1>4 DEF Hydrate
  <2>2. /\ todo \in Seq(Ids) /\ \A k \in 1..n : docs[todo[k]] # Absent
        /\ \A k, l \in 1..n : k < l => todo[k] # todo[l]
    BY DEF Listed
  <2>3. n \in Nat /\ n # 0 /\ i = todo[1] /\ i \in Ids
    BY <2>1, <2>2
  <2>4. todo' \in Seq(Ids) /\ Len(todo') = n - 1 /\ \A k \in 1..(n - 1) : todo'[k] = todo[k + 1]
    BY <2>1, <2>2
  <2> HIDE DEF i, n
  <2>5. docs[i] # Absent /\ docs[i] \in Documents[i]
    <3>1. docs[i] # Absent
      BY <2>2, <2>3
    <3>2. QED BY <2>3, <3>1 DEF Stored
  <2>6. read' = read \cup {<<i, docs[i]>>}
    BY <2>1, <2>5
  <2>7. \A k \in 1..(n - 1) : k + 1 \in 1..n /\ 1 < k + 1
    BY <2>3
  <2>8. Listed'
    <3>1. \A k \in 1..Len(todo') : docs[todo'[k]] # Absent
      BY <2>2, <2>4, <2>7
    <3>2. \A k, l \in 1..Len(todo') : k < l => todo'[k] # todo'[l]
      <4>1. \A k, l \in 1..(n - 1) : k < l => k + 1 < l + 1
        BY <2>3
      <4>2. QED BY <2>2, <2>4, <2>7, <4>1
    <3>3. docs' = docs
      BY <2>1
    <3>4. QED BY <2>4, <3>1, <3>2, <3>3 DEF Listed
  <2>9. Hydrated'
    <3>1. \A r \in read : r[1] # i /\ r[1] \in Ids /\ r = <<r[1], r[2]>> /\ docs[r[1]] # Absent
      <4>1. 1 \in 1..n
        BY <2>3
      <4>2. n = Len(todo)
        BY DEF n
      <4>3. QED BY <2>3, <4>1, <4>2 DEF Hydrated, AreRead
    <3>2. AreRead(read')
      <4> DEFINE new == <<i, docs[i]>>
      <4>1. new[1] = i /\ new[2] = docs[i]
        OBVIOUS
      <4>2. new = <<new[1], new[2]>> /\ new[1] \in Ids /\ new[2] \in Documents[new[1]]
        BY <2>3, <2>5
      <4>3. read' = read \cup {new}
        BY <2>6
      <4> HIDE DEF new
      <4>4. \A r \in read' : r = <<r[1], r[2]>> /\ r[1] \in Ids /\ r[2] \in Documents[r[1]]
        BY <4>2, <4>3 DEF Hydrated, AreRead
      <4>5. ASSUME NEW r \in read', NEW q \in read', r[1] = q[1] PROVE r = q
        <5>1. r \in read /\ q \in read => r = q
          BY <4>5 DEF Hydrated, AreRead
        <5>2. r \in read => r[1] # i
          BY <3>1
        <5>3. q \in read => q[1] # i
          BY <3>1
        <5>4. QED BY <4>1, <4>3, <4>5, <5>1, <5>2, <5>3
      <4>6. QED BY <4>4, <4>5 DEF AreRead
    <3>3. ASSUME NEW r \in read' PROVE docs[r[1]] # Absent /\ \A k \in 1..Len(todo') : todo'[k] # r[1]
      <4>1. CASE r \in read
        <5>1. \A k \in 1..n : todo[k] # r[1]
          BY <4>1 DEF Hydrated, n
        <5>2. QED BY <2>4, <2>7, <3>1, <4>1, <5>1
      <4>2. CASE r = <<i, docs[i]>>
        <5>1. r[1] = i
          BY <4>2
        <5>2. \A k \in 1..(n - 1) : todo[1] # todo[k + 1]
          <6>1. 1 \in 1..n
            BY <2>3
          <6>2. QED BY <2>2, <2>7, <6>1
        <5>3. QED BY <2>3, <2>4, <2>5, <5>1, <5>2
      <4>3. QED BY <2>6, <4>1, <4>2
    <3>4. docs' = docs
      BY <2>1
    <3>5. QED BY <3>2, <3>3, <3>4 DEF Hydrated
  <2>10. Stored' /\ Kept' /\ Asked'
    BY <2>1 DEF Stored, Kept, Asked
  <2>11. QED BY <2>8, <2>9, <2>10
<1>5. ASSUME Rank PROVE SInv'
  <2>1. todo = <<>> /\ request' = Absent /\ read' = {} /\ UNCHANGED <<docs, specs, todo>>
    BY <1>5 DEF Rank
  <2>2. Stored' /\ Kept' /\ Asked'
    BY <2>1 DEF Stored, Kept, Asked
  <2>3. Listed' /\ Hydrated'
    BY <2>1 DEF Listed, Hydrated, AreRead
  <2>4. QED BY <2>2, <2>3
<1>6. CASE UNCHANGED vars
  BY <1>6 DEF vars, Stored, Kept, Asked, Listed, Hydrated, AreRead
<1>7. QED BY <1>1, <1>2, <1>3, <1>4, <1>5, <1>6 DEF Next

(***************************************************************************)
(* A stored spec is settled, whatever the payloads and the aliases: it     *)
(* breaks no rule as it is stored, and parsing it again changes nothing    *)
(* (SearchSpecParser.parse, SearchSpecService.create_from_payload).        *)
(***************************************************************************)
THEOREM SpecsStaySettled == Spec => []SpecsSettled
<1>1. SInv => SpecsSettled
  BY DEF SInv, Kept, IsSettled, SpecsSettled
<1>2. QED BY <1>1, SInvInit, SInvNext, PTL DEF Spec

-------------------------------------------------------------------------------
(***************************************************************************)
(* The order of a ranking.                                                 *)
(***************************************************************************)
Scored(reads, spec) == {<<Final(r[2], spec), r[1]>> : r \in Filtered(reads, spec)}
Order(reads, spec) == InOrder(Scored(reads, spec), Cardinality(Scored(reads, spec)))

LEMMA ReadsAreFinite ==
  ASSUME NEW reads, AreRead(reads)
  PROVE  IsFiniteSet(reads)
<1> DEFINE f == [r \in reads |-> r[1]]
<1>1. f \in Injection(reads, Ids)
  BY DEF AreRead, Injection, IsInjective
<1> HIDE DEF f
<1>2. QED BY <1>1, IdsAssumption, FS_Injection

LEMMA RankedOrder ==
  ASSUME NEW reads, AreRead(reads), NEW spec, IsRequest(spec)
  PROVE  LET kept == Filtered(reads, spec)
             order == Order(reads, spec)
         IN /\ DOMAIN order = 1..Len(order) /\ Len(order) \in Nat
            /\ \A k \in 1..Len(order) : \E r \in kept : r[1] = order[k]
            /\ \A r \in kept : \E k \in 1..Len(order) : order[k] = r[1]
            /\ \A k, l \in 1..Len(order) : k < l =>
                 /\ order[k] # order[l]
                 /\ ScoreIn(Scored(reads, spec), order[k]) >= ScoreIn(Scored(reads, spec), order[l])
<1> DEFINE kept == Filtered(reads, spec)
           S == Scored(reads, spec)
           s == Order(reads, spec)
           pair(r) == <<Final(r[2], spec), r[1]>>
           f == [r \in kept |-> pair(r)]
<1>1. kept \subseteq reads
  BY DEF Filtered
<1>2. S = {pair(r) : r \in kept}
  BY DEF Scored
<1>3. \A r \in kept : Final(r[2], spec) \in Int /\ r[1] \in Int
  <2>1. TAKE r \in kept
  <2>2. r[1] \in Ids /\ r[2] \in Documents[r[1]]
    BY <1>1 DEF AreRead
  <2>3. IsDescribed(r[2])
    BY <2>2, DocumentsAssumption
  <2>4. Final(r[2], spec) \in Int
    BY <2>3, FinalIsInt
  <2>5. r[1] \in Int
    <3>1. PICK i \in Ids : i = r[1]
      BY <2>2
    <3>2. i \in Int
      BY IdsAssumption
    <3>3. QED BY <3>1, <3>2
  <2>6. QED BY <2>4, <2>5
<1> HIDE DEF kept, S, s
<1>4. IsFiniteSet(S)
  <2>1. IsFiniteSet(kept)
    BY <1>1, ReadsAreFinite, FS_Subset
  <2> HIDE DEF pair
  <2>2. f \in Surjection(kept, S)
    BY <1>2 DEF Surjection
  <2> HIDE DEF f
  <2>3. QED BY <2>1, <2>2, FS_Surjection
<1>5. \A r \in kept : pair(r) \in Int \X Int /\ pair(r)[2] = r[1]
  BY <1>3
<1>6. \A r, q \in kept : r[1] = q[1] => r = q
  BY <1>1 DEF AreRead
<1> HIDE DEF pair
<1>7. S \subseteq Int \X Int /\ \A p, q \in S : p[2] = q[2] => p = q
  <2>1. S \subseteq Int \X Int
    BY <1>2, <1>5
  <2>2. \A p, q \in S : p[2] = q[2] => p = q
    <3>1. TAKE p, q \in S
    <3>2. HAVE p[2] = q[2]
    <3>3. PICK r \in kept, u \in kept : p = pair(r) /\ q = pair(u)
      BY <1>2
    <3>4. r = u
      BY <1>5, <1>6, <3>2, <3>3
    <3>5. QED BY <3>3, <3>4
  <2>3. QED BY <2>1, <2>2
<1>8. Cardinality(S) \in Nat
  BY <1>4, FS_CardinalityType
<1>9. s = InOrder(S, Cardinality(S))
  BY DEF Order, S, s
<1>10. /\ s \in Seq({p[2] : p \in S}) /\ DOMAIN s = 1..Len(s) /\ Len(s) \in Nat /\ Len(s) <= Cardinality(S)
       /\ \A k, l \in 1..Len(s) : k < l => s[k] # s[l] /\ ScoreIn(S, s[k]) >= ScoreIn(S, s[l])
       /\ Cardinality(S) <= Cardinality(S) => HasAll(s, S)
  <2> DEFINE c == Cardinality(S)
             o == InOrder(S, c)
  <2>1. c \in Nat
    BY <1>8
  <2> HIDE DEF c
  <2>2. /\ o \in Seq({p[2] : p \in S}) /\ DOMAIN o = 1..Len(o) /\ Len(o) \in Nat /\ Len(o) <= c
        /\ \A k, l \in 1..Len(o) : k < l => o[k] # o[l] /\ ScoreIn(S, o[k]) >= ScoreIn(S, o[l])
        /\ Cardinality(S) <= c => HasAll(o, S)
    BY <1>4, <1>7, <2>1, OrderedIds, Zenon
  <2>3. s = o /\ c = Cardinality(S)
    BY <1>9 DEF c
  <2> HIDE DEF o
  <2>4. QED BY <2>2, <2>3, Zenon
<1>11. \A p \in S : \E k \in 1..Len(s) : s[k] = p[2]
  <2>1. Cardinality(S) <= Cardinality(S)
    BY <1>8
  <2>2. QED BY <1>10, <2>1 DEF HasAll
<1>12. \A r \in kept : \E k \in 1..Len(s) : s[k] = r[1]
  <2>1. TAKE r \in kept
  <2>2. pair(r) \in S
    BY <1>2
  <2>3. QED BY <1>5, <1>11, <2>2
<1>13. \A k \in 1..Len(s) : \E r \in kept : r[1] = s[k]
  <2>1. TAKE k \in 1..Len(s)
  <2>2. s[k] \in {p[2] : p \in S}
    BY <1>10
  <2>3. PICK p \in S : p[2] = s[k]
    BY <2>2
  <2>4. QED BY <1>2, <1>5, <2>3
<1>14. QED BY <1>10, <1>12, <1>13 DEF kept, S, s

-------------------------------------------------------------------------------
(***************************************************************************)
(* What the caps leave of an order.                                        *)
(***************************************************************************)
LEMMA DiversifiedSteps ==
  ASSUME NEW order, Len(order) \in Nat, NEW lookup
  PROVE  \E t : /\ Diversified(order, lookup) = t[Len(order)] /\ t[0] = <<>>
                /\ \A n \in 1..Len(order) : t[n] = Taken(t[n - 1], order[n], lookup)
<1> DEFINE n == Len(order)
           Step(f, i) == IF i = 0 THEN <<>> ELSE Taken(f[i - 1], order[i], lookup)
           Upto(m) == \E f : f = [i \in 0..m |-> Step(f, i)]
           t == CHOOSE f : f = [i \in 0..n |-> Step(f, i)]
<1>1. Diversified(order, lookup) = t[n]
  BY DEF Diversified
<1>2. \A m \in Nat : Upto(m)
  <2> DEFINE Bad == {m \in Nat : ~Upto(m)}
  <2>1. SUFFICES ASSUME Bad # {} PROVE FALSE
    OBVIOUS
  <2>2. PICK m \in Bad : \A k \in Bad : m <= k
    <3> HIDE DEF Upto
    <3>1. Bad \subseteq Nat
      OBVIOUS
    <3> HIDE DEF Bad
    <3>2. QED BY <2>1, <3>1, LeastExists
  <2>3. m # 0
    <3> DEFINE f == [i \in 0..0 |-> <<>>]
    <3>1. f = [i \in 0..0 |-> Step(f, i)]
      OBVIOUS
    <3> HIDE DEF f, Step
    <3>2. Upto(0)
      BY <3>1
    <3>3. QED BY <3>2
  <2>4. m - 1 \in Nat /\ Upto(m - 1)
    <3>1. m \in Nat /\ m - 1 \in Nat /\ m - 1 < m
      BY <2>3
    <3>2. m - 1 \notin Bad
      <4> HIDE DEF Bad
      <4>1. QED BY <3>1, <2>2
    <3>3. QED BY <3>1, <3>2
  <2>5. PICK f : f = [i \in 0..(m - 1) |-> Step(f, i)]
    BY <2>4
  <2> DEFINE g == [i \in 0..m |-> Step(f, i)]
  <2>6. ASSUME NEW i \in 0..m PROVE Step(f, i) = Step(g, i)
    <3>1. CASE i = 0
      BY <3>1
    <3>2. CASE i # 0
      <4>1. i - 1 \in 0..(m - 1) /\ i - 1 \in 0..m
        BY <3>2, <2>4
      <4>2. f[i - 1] = Step(f, i - 1)
        <5> HIDE DEF Step
        <5>1. QED BY <2>5, <4>1
      <4>3. g[i - 1] = Step(f, i - 1)
        BY <4>1
      <4>4. QED BY <3>2, <4>2, <4>3
    <3>3. QED BY <3>1, <3>2
  <2>7. g = [i \in 0..m |-> Step(g, i)]
    <3> HIDE DEF Step
    <3>1. QED BY <2>6
  <2>8. Upto(m)
    <3> HIDE DEF g
    <3>1. QED BY <2>7
  <2>9. QED BY <2>8
<1>3. t = [i \in 0..n |-> Step(t, i)]
  <2>1. Upto(n)
    BY <1>2
  <2> HIDE DEF Step
  <2>2. QED BY <2>1
<1>4. ASSUME NEW i \in 0..n PROVE t[i] = Step(t, i)
  <2> HIDE DEF Step, t
  <2>1. QED BY <1>3
<1> HIDE DEF t
<1>5. t[0] = <<>>
  BY <1>4
<1>6. ASSUME NEW i \in 1..n PROVE t[i] = Taken(t[i - 1], order[i], lookup)
  BY <1>4
<1>7. QED BY <1>1, <1>5, <1>6

PlaceIn(order, i) == CHOOSE n \in DOMAIN order : order[n] = i
HeldBefore(order, s, lookup, b, m) == {k \in Holding(s, lookup, b) : PlaceIn(order, s[k]) < m}

\* s is what the caps leave of the first n of an order.
Spread(order, lookup, s, n) ==
  /\ s \in Seq({order[m] : m \in 1..Len(order)})
  /\ \A k \in 1..Len(s) : PlaceIn(order, s[k]) \in 1..n
  /\ \A k, l \in 1..Len(s) : k < l => PlaceIn(order, s[k]) < PlaceIn(order, s[l])
  /\ \A k \in 1..Len(s) : lookup[s[k]] # Absent =>
       \A b \in Buckets(lookup[s[k]]) : Cardinality(Holding(s, lookup, b)) <= CapOf(b)
  /\ \A m \in 1..n :
       \/ \E k \in 1..Len(s) : s[k] = order[m]
       \/ \E b \in Buckets(lookup[order[m]]) : Cardinality(HeldBefore(order, s, lookup, b, m)) >= CapOf(b)

LEMMA PlacesAre ==
  ASSUME NEW order, DOMAIN order = 1..Len(order), Len(order) \in Nat,
         \A k, l \in 1..Len(order) : k < l => order[k] # order[l],
         NEW m \in 1..Len(order)
  PROVE  PlaceIn(order, order[m]) = m
<1> DEFINE n == PlaceIn(order, order[m])
<1>1. n \in 1..Len(order) /\ order[n] = order[m]
  <2>1. \E k \in DOMAIN order : order[k] = order[m]
    OBVIOUS
  <2>2. n = CHOOSE k \in DOMAIN order : order[k] = order[m]
    BY DEF PlaceIn
  <2> HIDE DEF n
  <2>3. QED BY <2>1, <2>2
<1> HIDE DEF n
<1>2. ~(n < m) /\ ~(m < n)
  BY <1>1
<1>3. n = m
  BY <1>1, <1>2
<1>4. QED BY <1>3 DEF n

LEMMA CapsAreNat ==
  ASSUME NEW b
  PROVE  CapOf(b) \in Nat
  BY LimitsAssumption DEF CapOf

LEMMA HoldingIsFinite ==
  ASSUME NEW s, Len(s) \in Nat, DOMAIN s = 1..Len(s), NEW lookup, NEW b
  PROVE  /\ Holding(s, lookup, b) \subseteq 1..Len(s)
         /\ \A T \in SUBSET Holding(s, lookup, b) :
              IsFiniteSet(T) /\ Cardinality(T) \in Nat /\ Cardinality(T) <= Cardinality(Holding(s, lookup, b))
<1> DEFINE H == Holding(s, lookup, b)
<1>1. H \subseteq 1..Len(s)
  BY DEF Holding
<1>2. IsFiniteSet(1..Len(s))
  <2> DEFINE n == Len(s)
  <2>1. n \in Int
    OBVIOUS
  <2> HIDE DEF n
  <2>2. IsFiniteSet(1..n)
    BY <2>1, FS_Interval
  <2>3. QED BY <2>2 DEF n
<1> HIDE DEF H
<1>3. IsFiniteSet(H)
  BY <1>1, <1>2, FS_Subset
<1>4. ASSUME NEW T \in SUBSET H
      PROVE  IsFiniteSet(T) /\ Cardinality(T) \in Nat /\ Cardinality(T) <= Cardinality(H)
  <2>1. IsFiniteSet(T) /\ Cardinality(T) <= Cardinality(H)
    BY <1>3, FS_Subset
  <2>2. QED BY <2>1, FS_CardinalityType
<1>5. QED BY <1>1, <1>4 DEF H

LEMMA HoldingAppended ==
  ASSUME NEW S, NEW s \in Seq(S), NEW x \in S, NEW lookup, NEW b
  PROVE  Holding(Append(s, x), lookup, b) =
           Holding(s, lookup, b) \cup
             (IF lookup[x] # Absent /\ b \in Buckets(lookup[x]) THEN {Len(s) + 1} ELSE {})
<1> DEFINE t == Append(s, x)
           n == Len(s)
           Held(i) == lookup[i] # Absent /\ b \in Buckets(lookup[i])
<1>1. n \in Nat /\ DOMAIN s = 1..n /\ DOMAIN t = 1..(n + 1)
      /\ (\A k \in 1..n : t[k] = s[k]) /\ t[n + 1] = x
  OBVIOUS
<1>2. Holding(t, lookup, b) = {k \in DOMAIN t : Held(t[k])} /\ Holding(s, lookup, b) = {k \in DOMAIN s : Held(s[k])}
  BY DEF Holding
<1>3. (IF lookup[x] # Absent /\ b \in Buckets(lookup[x]) THEN {n + 1} ELSE {}) = IF Held(x) THEN {n + 1} ELSE {}
  OBVIOUS
<1> HIDE DEF t, n, Held
<1>4. \A k : k \in 1..(n + 1) <=> k \in 1..n \/ k = n + 1
  BY <1>1
<1>5. ~(n + 1 \in 1..n)
  BY <1>1
<1>6. {k \in DOMAIN t : Held(t[k])} = {k \in DOMAIN s : Held(s[k])} \cup (IF Held(x) THEN {n + 1} ELSE {})
  <2>1. \A k : k \in {j \in DOMAIN t : Held(t[j])}
                <=> k \in {j \in DOMAIN s : Held(s[j])} \/ (Held(x) /\ k = n + 1)
    BY <1>1, <1>4, <1>5
  <2>2. QED BY <2>1
<1>7. QED BY <1>2, <1>3, <1>6 DEF t, n

LEMMA SpreadStep ==
  ASSUME NEW order, DOMAIN order = 1..Len(order), Len(order) \in Nat,
         \A k, l \in 1..Len(order) : k < l => order[k] # order[l],
         NEW lookup, NEW s, NEW n \in 1..Len(order), Spread(order, lookup, s, n - 1)
  PROVE  Spread(order, lookup, Taken(s, order[n], lookup), n)
<1> DEFINE S == {order[m] : m \in 1..Len(order)}
           x == order[n]
           L == Len(s)
           t == Append(s, x)
           Place(i) == PlaceIn(order, i)
           Card(b) == Cardinality(Holding(s, lookup, b))
           Full == lookup[x] # Absent /\ \E b \in Buckets(lookup[x]) : Card(b) >= CapOf(b)
<1>1. /\ s \in Seq(S) /\ L \in Nat /\ DOMAIN s = 1..L
      /\ \A k \in 1..L : Place(s[k]) \in 1..(n - 1)
      /\ \A k, l \in 1..L : k < l => Place(s[k]) < Place(s[l])
      /\ \A k \in 1..L : lookup[s[k]] # Absent =>
           \A b \in Buckets(lookup[s[k]]) : Card(b) <= CapOf(b)
      /\ \A m \in 1..(n - 1) :
           \/ \E k \in 1..L : s[k] = order[m]
           \/ \E b \in Buckets(lookup[order[m]]) : Cardinality(HeldBefore(order, s, lookup, b, m)) >= CapOf(b)
  BY DEF Spread
<1>2. n \in Nat /\ n - 1 \in Nat /\ x \in S /\ Place(x) = n
  BY PlacesAre
<1>3. Taken(s, x, lookup) = IF Full THEN s ELSE t
  BY DEF Taken
<1>4. \A m \in 1..n : m \in 1..(n - 1) \/ m = n
  BY <1>2
<1>5. \A b : Holding(s, lookup, b) \subseteq 1..L /\ Card(b) \in Nat /\ IsFiniteSet(Holding(s, lookup, b))
  BY <1>1, HoldingIsFinite
<1> HIDE DEF Place, Card, L
<1>6. CASE Full
  <2>1. PICK b \in Buckets(lookup[x]) : Card(b) >= CapOf(b)
    BY <1>6
  <2>2. HeldBefore(order, s, lookup, b, n) = Holding(s, lookup, b)
    <3>1. \A k \in Holding(s, lookup, b) : PlaceIn(order, s[k]) < n
      <4>1. \A k \in 1..L : Place(s[k]) < n
        BY <1>1, <1>2
      <4>2. QED BY <1>5, <4>1 DEF Place
    <3>2. QED BY <3>1 DEF HeldBefore
  <2>3. Cardinality(HeldBefore(order, s, lookup, b, n)) >= CapOf(b)
    BY <2>1, <2>2 DEF Card
  <2>4. \A m \in 1..n :
           \/ \E k \in 1..L : s[k] = order[m]
           \/ \E c \in Buckets(lookup[order[m]]) : Cardinality(HeldBefore(order, s, lookup, c, m)) >= CapOf(c)
    BY <1>1, <1>4, <2>1, <2>3
  <2>5. \A k \in 1..L : Place(s[k]) \in 1..n
    BY <1>1, <1>2
  <2>6. Spread(order, lookup, s, n)
    BY <1>1, <2>4, <2>5 DEF Spread, Place, Card, L
  <2>7. QED BY <1>3, <1>6, <2>6
<1>7. CASE ~Full
  <2>1. t \in Seq(S) /\ Len(t) = L + 1 /\ (\A k \in 1..L : t[k] = s[k]) /\ t[L + 1] = x
    BY <1>1, <1>2 DEF L
  <2> HIDE DEF t
  <2>2. \A k \in 1..(L + 1) : k \in 1..L \/ k = L + 1
    BY <1>1
  <2>3. L + 1 \notin 1..L /\ 1..L \subseteq 1..(L + 1) /\ L + 1 \in 1..(L + 1)
    BY <1>1
  <2>4. \A k \in 1..(L + 1) : Place(t[k]) \in 1..n
    <3>1. TAKE k \in 1..(L + 1)
    <3>2. CASE k \in 1..L
      <4>1. Place(s[k]) \in 1..(n - 1) /\ t[k] = s[k]
        BY <1>1, <2>1, <3>2
      <4>2. QED BY <1>2, <4>1
    <3>3. CASE k = L + 1
      BY <1>2, <2>1, <3>3
    <3>4. QED BY <2>2, <3>2, <3>3
  <2>5. \A k, l \in 1..(L + 1) : k < l => Place(t[k]) < Place(t[l])
    <3>1. TAKE k, l \in 1..(L + 1)
    <3>2. HAVE k < l
    <3>3. k \in 1..L
      BY <1>1, <3>2
    <3>4. CASE l \in 1..L
      BY <1>1, <2>1, <3>2, <3>3, <3>4
    <3>5. CASE l = L + 1
      <4>1. Place(s[k]) \in 1..(n - 1)
        BY <1>1, <3>3
      <4>2. QED BY <1>2, <2>1, <3>3, <3>5, <4>1
    <3>6. QED BY <2>2, <3>4, <3>5
  <2> DEFINE In(b) == lookup[x] # Absent /\ b \in Buckets(lookup[x])
  <2>6. \A b : Holding(t, lookup, b) = Holding(s, lookup, b) \cup (IF In(b) THEN {L + 1} ELSE {})
    <3>1. TAKE b
    <3>2. Holding(Append(s, x), lookup, b) =
            Holding(s, lookup, b) \cup
              (IF lookup[x] # Absent /\ b \in Buckets(lookup[x]) THEN {Len(s) + 1} ELSE {})
      <4> HIDE DEF x, S
      <4>1. QED BY <1>1, <1>2, HoldingAppended
    <3>3. QED BY <3>2 DEF t, L
  <2>7. ASSUME NEW b, In(b) PROVE Cardinality(Holding(t, lookup, b)) <= CapOf(b)
    <3>1. ~(Card(b) >= CapOf(b))
      BY <1>7, <2>7
    <3>2. Holding(t, lookup, b) = Holding(s, lookup, b) \cup {L + 1}
      BY <2>6, <2>7
    <3>3. Cardinality(Holding(s, lookup, b) \cup {L + 1}) = Card(b) + 1
      <4>1. L + 1 \notin Holding(s, lookup, b)
        BY <1>5, <2>3
      <4>2. QED BY <1>5, <4>1, FS_AddElement DEF Card
    <3>4. Card(b) \in Nat /\ CapOf(b) \in Nat
      BY <1>5, CapsAreNat
    <3>5. Card(b) + 1 <= CapOf(b)
      BY <3>1, <3>4
    <3>6. QED BY <3>2, <3>3, <3>5
  <2>8. ASSUME NEW b, ~In(b) PROVE Holding(t, lookup, b) = Holding(s, lookup, b)
    BY <2>6, <2>8
  <2>9. \A k \in 1..(L + 1) : lookup[t[k]] # Absent =>
           \A b \in Buckets(lookup[t[k]]) : Cardinality(Holding(t, lookup, b)) <= CapOf(b)
    <3>1. TAKE k \in 1..(L + 1)
    <3>2. HAVE lookup[t[k]] # Absent
    <3>3. TAKE b \in Buckets(lookup[t[k]])
    <3>4. CASE In(b)
      BY <2>7, <3>4
    <3>5. CASE ~In(b)
      <4>1. k # L + 1
        BY <2>1, <3>2, <3>5
      <4>2. k \in 1..L /\ t[k] = s[k]
        BY <2>1, <2>2, <4>1
      <4>3. Card(b) <= CapOf(b)
        BY <1>1, <3>2, <4>2
      <4>4. Cardinality(Holding(t, lookup, b)) = Card(b)
        BY <2>8, <3>5 DEF Card
      <4>5. QED BY <4>3, <4>4
    <3>6. QED BY <3>4, <3>5
  <2>10. ASSUME NEW m \in 1..(n - 1), NEW b
         PROVE  HeldBefore(order, t, lookup, b, m) = HeldBefore(order, s, lookup, b, m)
    <3>1. ~(Place(t[L + 1]) < m)
      BY <1>2, <2>1
    <3>2. \A k \in Holding(s, lookup, b) : t[k] = s[k]
      BY <1>5, <2>1
    <3>3. HeldBefore(order, t, lookup, b, m) = {k \in Holding(t, lookup, b) : Place(t[k]) < m}
          /\ HeldBefore(order, s, lookup, b, m) = {k \in Holding(s, lookup, b) : Place(s[k]) < m}
      BY DEF HeldBefore, Place
    <3>4. \A k : k \in Holding(t, lookup, b) => k \in Holding(s, lookup, b) \/ k = L + 1
      BY <2>6
    <3>5. \A k : k \in Holding(s, lookup, b) => k \in Holding(t, lookup, b)
      BY <2>6
    <3> HIDE DEF In
    <3>6. \A k : k \in {j \in Holding(t, lookup, b) : Place(t[j]) < m}
                  <=> k \in {j \in Holding(s, lookup, b) : Place(s[j]) < m}
      BY <3>1, <3>2, <3>4, <3>5
    <3>7. QED BY <3>3, <3>6
  <2>11. \A m \in 1..n :
           \/ \E k \in 1..(L + 1) : t[k] = order[m]
           \/ \E b \in Buckets(lookup[order[m]]) : Cardinality(HeldBefore(order, t, lookup, b, m)) >= CapOf(b)
    <3>1. TAKE m \in 1..n
    <3>2. CASE m = n
      BY <2>1, <2>3, <3>2
    <3>3. CASE m \in 1..(n - 1)
      <4>1. CASE \E k \in 1..L : s[k] = order[m]
        BY <2>1, <2>3, <4>1
      <4>2. CASE \E b \in Buckets(lookup[order[m]]) : Cardinality(HeldBefore(order, s, lookup, b, m)) >= CapOf(b)
        BY <2>10, <3>3, <4>2
      <4>3. QED BY <1>1, <3>3, <4>1, <4>2
    <3>4. QED BY <1>4, <3>2, <3>3
  <2>12. Spread(order, lookup, t, n)
    BY <2>1, <2>4, <2>5, <2>9, <2>11 DEF Spread, Place
  <2>13. QED BY <1>3, <1>7, <2>12 DEF t
<1>8. QED BY <1>6, <1>7

LEMMA DiversifiedIsSpread ==
  ASSUME NEW order, DOMAIN order = 1..Len(order), Len(order) \in Nat,
         \A k, l \in 1..Len(order) : k < l => order[k] # order[l],
         NEW lookup
  PROVE  Spread(order, lookup, Diversified(order, lookup), Len(order))
<1> DEFINE L == Len(order)
<1>1. PICK t : /\ Diversified(order, lookup) = t[L] /\ t[0] = <<>>
               /\ \A n \in 1..L : t[n] = Taken(t[n - 1], order[n], lookup)
  BY DiversifiedSteps
<1> DEFINE Bad == {n \in 0..L : ~Spread(order, lookup, t[n], n)}
<1>2. ASSUME Bad # {} PROVE FALSE
  <2>1. Bad \subseteq Nat
    OBVIOUS
  <2>2. PICK n \in Bad : \A m \in Bad : n <= m
    <3> HIDE DEF Bad
    <3>1. QED BY <1>2, <2>1, LeastExists
  <2>3. n \in 0..L /\ ~Spread(order, lookup, t[n], n)
    OBVIOUS
  <2>4. n # 0
    <3>1. Spread(order, lookup, <<>>, 0)
      BY DEF Spread
    <3>2. QED BY <1>1, <2>3, <3>1
  <2>5. n \in 1..L /\ n - 1 \in 0..L /\ n - 1 < n
    BY <2>3, <2>4
  <2>6. Spread(order, lookup, t[n - 1], n - 1)
    <3>1. n - 1 \notin Bad
      <4> HIDE DEF Bad
      <4>1. QED BY <2>2, <2>3, <2>5
    <3>2. QED BY <2>5, <3>1
  <2>7. Spread(order, lookup, Taken(t[n - 1], order[n], lookup), n)
    BY <2>5, <2>6, SpreadStep
  <2>8. QED BY <1>1, <2>3, <2>5, <2>7
<1>3. L \in 0..L
  OBVIOUS
<1>4. QED BY <1>1, <1>2, <1>3

-------------------------------------------------------------------------------
(***************************************************************************)
(* What Rank answers.                                                      *)
(***************************************************************************)
Shown(taken) == 1..(IF ResultLimit < Len(taken) THEN ResultLimit ELSE Len(taken))

LEMMA RankAnswers ==
  ASSUME SInv, Rank
  PROVE  LET kept == Filtered(read, request)
             S == Scored(read, request)
             order == Order(read, request)
             taken == Diversified(order, docs)
         IN /\ AreRead(read) /\ IsRequest(request) /\ \A r \in read : docs[r[1]] # Absent
            /\ answer'.spec = request /\ answer'.read = read /\ answer'.by = docs /\ answer'.order = order
            /\ answer'.rerank_payload = RerankPayload(kept)
            /\ DOMAIN answer'.results = Shown(taken)
            /\ \A k \in Shown(taken) :
                 /\ answer'.results[k].listing_id = taken[k]
                 /\ answer'.results[k].final = ScoreIn(S, taken[k])
                 /\ answer'.results[k].flags =
                      Evaluated((CHOOSE r \in kept : r[1] = taken[k])[2], request).flags
<1> DEFINE kept == Filtered(read, request)
           S == Scored(read, request)
           order == Order(read, request)
           taken == Diversified(order, docs)
           Flags(i) == Evaluated((CHOOSE r \in kept : r[1] = i)[2], request).flags
           Result(i, k) == [ listing_id |-> i, rank |-> k, final |-> (CHOOSE p \in S : p[2] = i)[1], flags |-> Flags(i) ]
           results == [k \in Shown(taken) |-> Result(taken[k], k)]
<1>1. request # Absent
      /\ answer' = [ spec |-> request, read |-> read, by |-> docs, order |-> order, results |-> results,
                     rerank_payload |-> RerankPayload(kept) ]
  BY DEF Rank, Scored, Order, Shown
<1>2. AreRead(read) /\ IsRequest(request) /\ \A r \in read : docs[r[1]] # Absent
  BY <1>1 DEF SInv, Hydrated, Asked
<1> HIDE DEF kept, S, order, taken, Flags
<1>3. \A k \in Shown(taken) :
        /\ results[k].listing_id = taken[k]
        /\ results[k].final = ScoreIn(S, taken[k])
        /\ results[k].flags = Flags(taken[k])
  BY DEF ScoreIn
<1>4. DOMAIN results = Shown(taken)
  OBVIOUS
<1> HIDE DEF results
<1>5. /\ answer'.spec = request /\ answer'.read = read /\ answer'.by = docs /\ answer'.order = order
      /\ answer'.rerank_payload = RerankPayload(kept) /\ answer'.results = results
  BY <1>1
<1>6. QED BY <1>2, <1>3, <1>4, <1>5, Zenon DEF kept, S, order, taken, Flags

\* CapsJust, of an answer.
IdsIn(a) == [k \in DOMAIN a.results |-> a.results[k].listing_id]
JustIn(a) ==
  /\ \A i \in {a.results[k].listing_id : k \in DOMAIN a.results} : \A b \in Buckets(a.by[i]) :
       Cardinality(Holding(IdsIn(a), a.by, b)) <= CapOf(b)
  /\ \A n \in DOMAIN a.order :
       \/ a.order[n] \in {a.results[k].listing_id : k \in DOMAIN a.results}
       \/ \E b \in Buckets(a.by[a.order[n]]) :
            Cardinality({k \in Holding(IdsIn(a), a.by, b) : PlaceIn(a.order, IdsIn(a)[k]) < n}) >= CapOf(b)
       \/ /\ Len(IdsIn(a)) = ResultLimit
          /\ \A k \in DOMAIN IdsIn(a) : PlaceIn(a.order, IdsIn(a)[k]) < n
  /\ \A k, l \in DOMAIN a.results : k < l =>
       /\ a.results[k].final >= a.results[l].final
       /\ PlaceIn(a.order, IdsIn(a)[k]) < PlaceIn(a.order, IdsIn(a)[l])

LEMMA RankSpreads ==
  ASSUME SInv, Rank
  PROVE  CapsJust'
<1> DEFINE kept == Filtered(read, request)
           S == Scored(read, request)
           order == Order(read, request)
           taken == Diversified(order, docs)
           L == Len(order)
           T == Len(taken)
           m == IF ResultLimit < T THEN ResultLimit ELSE T
           Place(i) == PlaceIn(order, i)
           ids == [k \in DOMAIN answer'.results |-> answer'.results[k].listing_id]
<1>1. /\ AreRead(read) /\ IsRequest(request) /\ \A r \in read : docs[r[1]] # Absent
      /\ answer'.by = docs /\ answer'.order = order
      /\ DOMAIN answer'.results = 1..m
      /\ \A k \in 1..m : answer'.results[k].listing_id = taken[k] /\ answer'.results[k].final = ScoreIn(S, taken[k])
  BY RankAnswers DEF Shown
<1>2. /\ DOMAIN order = 1..L /\ L \in Nat
      /\ \A k \in 1..L : \E r \in kept : r[1] = order[k]
      /\ \A k, l \in 1..L : k < l => order[k] # order[l] /\ ScoreIn(S, order[k]) >= ScoreIn(S, order[l])
  BY <1>1, RankedOrder
<1>3. \A k \in 1..L : Place(order[k]) = k
  BY <1>2, PlacesAre
<1>4. kept \subseteq read
  BY DEF Filtered
<1> HIDE DEF kept, S, order
<1>5. /\ taken \in Seq({order[n] : n \in 1..L})
      /\ \A k \in 1..T : Place(taken[k]) \in 1..L
      /\ \A k, l \in 1..T : k < l => Place(taken[k]) < Place(taken[l])
      /\ \A k \in 1..T : docs[taken[k]] # Absent =>
           \A b \in Buckets(docs[taken[k]]) : Cardinality(Holding(taken, docs, b)) <= CapOf(b)
      /\ \A n \in 1..L :
           \/ \E k \in 1..T : taken[k] = order[n]
           \/ \E b \in Buckets(docs[order[n]]) : Cardinality(HeldBefore(order, taken, docs, b, n)) >= CapOf(b)
  <2>1. Spread(order, docs, taken, L)
    BY <1>2, DiversifiedIsSpread
  <2> HIDE DEF taken
  <2>2. QED BY <2>1 DEF Spread
<1> HIDE DEF L, taken
<1>6. T \in Nat /\ DOMAIN taken = 1..T /\ \A k \in 1..T : \E n \in 1..L : taken[k] = order[n]
  BY <1>5
<1> HIDE DEF T
<1>7. m \in Nat /\ m <= T /\ 1..m \subseteq 1..T /\ (m < T => m = ResultLimit)
  BY <1>6, LimitsAssumption
<1> HIDE DEF m
<1>8. ids = [k \in 1..m |-> taken[k]]
  BY <1>1
<1>9. Len(ids) = m /\ DOMAIN ids = 1..m /\ \A k \in 1..m : ids[k] = taken[k]
  <2>1. ids \in [1..m -> {taken[k] : k \in 1..m}]
    BY <1>8
  <2> HIDE DEF ids
  <2>2. QED BY <1>7, <1>8, <2>1
<1> HIDE DEF ids
<1>10. \A k \in 1..T : taken[k] = order[Place(taken[k])] /\ Place(taken[k]) \in 1..L /\ docs[taken[k]] # Absent
  <2>1. TAKE k \in 1..T
  <2>2. PICK n \in 1..L : taken[k] = order[n]
    BY <1>6
  <2>3. Place(taken[k]) = n
    BY <1>3, <2>2
  <2>4. PICK r \in kept : r[1] = order[n]
    BY <1>2
  <2>5. docs[taken[k]] # Absent
    BY <1>1, <1>4, <2>2, <2>4
  <2>6. QED BY <2>2, <2>3, <2>5
<1> HIDE DEF Place
<1>11. \A b : Holding(ids, docs, b) = {k \in Holding(taken, docs, b) : k \in 1..m}
  <2>1. TAKE b
  <2>2. Holding(ids, docs, b) = {k \in 1..m : docs[ids[k]] # Absent /\ b \in Buckets(docs[ids[k]])}
        /\ Holding(taken, docs, b) = {k \in 1..T : docs[taken[k]] # Absent /\ b \in Buckets(docs[taken[k]])}
    BY <1>6, <1>9 DEF Holding
  <2>3. \A k : k \in Holding(ids, docs, b) <=> k \in Holding(taken, docs, b) /\ k \in 1..m
    BY <1>7, <1>9, <2>2
  <2>4. QED BY <2>3
<1>12. ASSUME NEW b
       PROVE  /\ Cardinality(Holding(ids, docs, b)) \in Nat /\ Cardinality(Holding(taken, docs, b)) \in Nat
              /\ Cardinality(Holding(ids, docs, b)) <= Cardinality(Holding(taken, docs, b))
  <2>1. Holding(ids, docs, b) \in SUBSET Holding(taken, docs, b)
    BY <1>11
  <2>2. QED BY <1>6, <2>1, HoldingIsFinite
<1>13. ASSUME NEW k \in 1..m, NEW b \in Buckets(docs[ids[k]])
       PROVE  Cardinality(Holding(ids, docs, b)) <= CapOf(b)
  <2>1. ids[k] = taken[k] /\ k \in 1..T
    BY <1>7, <1>9
  <2>2. Cardinality(Holding(taken, docs, b)) <= CapOf(b)
    BY <1>5, <1>10, <1>13, <2>1
  <2>3. CapOf(b) \in Nat
    BY CapsAreNat
  <2>4. QED BY <1>12, <2>2, <2>3
<1> DEFINE Before(b, n) == {k \in Holding(ids, docs, b) : Place(ids[k]) < n}
<1>14. ASSUME NEW n \in 1..L
       PROVE  \/ \E k \in 1..m : ids[k] = order[n]
              \/ \E b \in Buckets(docs[order[n]]) : Cardinality(Before(b, n)) >= CapOf(b)
              \/ m = ResultLimit /\ \A k \in 1..m : Place(ids[k]) < n
  <2>1. ASSUME NEW h \in 1..T, h \notin 1..m, Place(taken[h]) <= n
        PROVE  m = ResultLimit /\ \A k \in 1..m : Place(ids[k]) < n
    <3>1. m < h /\ m < T
      BY <1>6, <1>7, <2>1
    <3>2. ASSUME NEW k \in 1..m PROVE Place(ids[k]) < n
      <4>1. k < h /\ k \in 1..T /\ ids[k] = taken[k]
        BY <1>7, <1>9, <3>1
      <4>2. Place(taken[k]) < Place(taken[h])
        BY <1>5, <4>1 DEF Place
      <4>3. Place(taken[k]) \in Int /\ Place(taken[h]) \in Int /\ n \in Int
        BY <1>2, <1>10, <4>1
      <4>4. QED BY <2>1, <4>1, <4>2, <4>3
    <3>3. QED BY <1>7, <3>1, <3>2
  <2>2. CASE \E k \in 1..T : taken[k] = order[n]
    <3>1. PICK k \in 1..T : taken[k] = order[n]
      BY <2>2
    <3>2. CASE k \in 1..m
      BY <1>9, <3>1, <3>2
    <3>3. CASE k \notin 1..m
      <4>1. Place(taken[k]) = n
        BY <1>3, <3>1 DEF Place
      <4>2. n <= n
        BY <1>2
      <4>3. QED BY <2>1, <3>3, <4>1, <4>2
    <3>4. QED BY <3>2, <3>3
  <2>3. CASE \E b \in Buckets(docs[order[n]]) : Cardinality(HeldBefore(order, taken, docs, b, n)) >= CapOf(b)
    <3>1. PICK b \in Buckets(docs[order[n]]) : Cardinality(HeldBefore(order, taken, docs, b, n)) >= CapOf(b)
      BY <2>3
    <3>2. CASE HeldBefore(order, taken, docs, b, n) \subseteq 1..m
      <4>1. \A k : k \in HeldBefore(order, taken, docs, b, n) <=> k \in Before(b, n)
        BY <1>9, <1>11, <3>2 DEF HeldBefore, Place
      <4>2. HeldBefore(order, taken, docs, b, n) = Before(b, n)
        BY <4>1
      <4> HIDE DEF Before
      <4>3. QED BY <3>1, <4>2
    <3>3. CASE ~(HeldBefore(order, taken, docs, b, n) \subseteq 1..m)
      <4>1. PICK h \in HeldBefore(order, taken, docs, b, n) : h \notin 1..m
        BY <3>3
      <4>2. h \in Holding(taken, docs, b) /\ Place(taken[h]) < n
        BY DEF HeldBefore, Place
      <4>3. h \in 1..T
        BY <1>6, <4>2 DEF Holding
      <4>4. Place(taken[h]) <= n
        BY <1>2, <1>10, <4>2, <4>3
      <4>5. QED BY <2>1, <4>1, <4>3, <4>4
    <3>4. QED BY <3>2, <3>3
  <2>4. QED BY <1>5, <2>2, <2>3
<1>15. ASSUME NEW k \in 1..m, NEW l \in 1..m, k < l
       PROVE  /\ answer'.results[k].final >= answer'.results[l].final
              /\ Place(ids[k]) < Place(ids[l])
  <2>1. k \in 1..T /\ l \in 1..T /\ ids[k] = taken[k] /\ ids[l] = taken[l]
    BY <1>7, <1>9
  <2>2. Place(taken[k]) < Place(taken[l])
    BY <1>5, <1>15, <2>1 DEF Place
  <2>3. ScoreIn(S, taken[k]) >= ScoreIn(S, taken[l])
    <3>1. PICK p \in 1..L, q \in 1..L : p = Place(taken[k]) /\ q = Place(taken[l])
      BY <1>10, <2>1
    <3>2. taken[k] = order[p] /\ taken[l] = order[q] /\ p < q
      BY <1>10, <2>1, <2>2, <3>1
    <3>3. QED BY <1>2, <3>2
  <2>4. QED BY <1>1, <2>1, <2>2, <2>3
<1>16. Ranked' = {ids[k] : k \in 1..m}
  <2>1. Ranked' = {answer'.results[k].listing_id : k \in 1..m}
    BY <1>1 DEF Ranked
  <2>2. \A k \in 1..m : ids[k] = answer'.results[k].listing_id
    BY <1>1, <1>9
  <2>3. QED BY <2>1, <2>2
<1>17. /\ \A i \in Ranked' : \A b \in Buckets(docs[i]) : Cardinality(Holding(ids, docs, b)) <= CapOf(b)
       /\ \A n \in DOMAIN order :
            \/ order[n] \in Ranked'
            \/ \E b \in Buckets(docs[order[n]]) : Cardinality(Before(b, n)) >= CapOf(b)
            \/ Len(ids) = ResultLimit /\ \A k \in DOMAIN ids : Place(ids[k]) < n
       /\ \A k, l \in DOMAIN answer'.results : k < l =>
            answer'.results[k].final >= answer'.results[l].final /\ Place(ids[k]) < Place(ids[l])
  <2> HIDE DEF Before
  <2>1. \A i \in Ranked' : \A b \in Buckets(docs[i]) : Cardinality(Holding(ids, docs, b)) <= CapOf(b)
    BY <1>13, <1>16
  <2>2. \A n \in DOMAIN order :
            \/ order[n] \in Ranked'
            \/ \E b \in Buckets(docs[order[n]]) : Cardinality(Before(b, n)) >= CapOf(b)
            \/ Len(ids) = ResultLimit /\ \A k \in DOMAIN ids : Place(ids[k]) < n
    BY <1>2, <1>9, <1>14, <1>16
  <2>3. \A k, l \in DOMAIN answer'.results : k < l =>
            answer'.results[k].final >= answer'.results[l].final /\ Place(ids[k]) < Place(ids[l])
    BY <1>1, <1>15
  <2>4. QED BY <2>1, <2>2, <2>3
<1>18. JustIn(answer')
  <2>1. IdsIn(answer') = ids
    BY DEF IdsIn, ids
  <2>2. \A b, n : {k \in Holding(ids, docs, b) : PlaceIn(order, ids[k]) < n} = Before(b, n)
    BY DEF Place
  <2>3. \A i : PlaceIn(order, i) = Place(i)
    BY DEF Place
  <2>4. {answer'.results[k].listing_id : k \in DOMAIN answer'.results} = Ranked'
    BY DEF Ranked
  <2> DEFINE a == answer'
  <2>5. a.by = docs /\ a.order = order
    BY <1>1
  <2> HIDE DEF Before, a
  <2>6. \A i \in Ranked' : \A b \in Buckets(a.by[i]) : Cardinality(Holding(IdsIn(a), a.by, b)) <= CapOf(b)
    BY <1>17, <2>1, <2>5 DEF a
  <2>7. \A n \in DOMAIN a.order :
          \/ a.order[n] \in Ranked'
          \/ \E b \in Buckets(a.by[a.order[n]]) :
               Cardinality({k \in Holding(IdsIn(a), a.by, b) : PlaceIn(a.order, IdsIn(a)[k]) < n}) >= CapOf(b)
          \/ Len(IdsIn(a)) = ResultLimit /\ \A k \in DOMAIN IdsIn(a) : PlaceIn(a.order, IdsIn(a)[k]) < n
    BY <1>17, <2>1, <2>2, <2>3, <2>5 DEF a
  <2>8. \A k, l \in DOMAIN a.results : k < l =>
          a.results[k].final >= a.results[l].final
          /\ PlaceIn(a.order, IdsIn(a)[k]) < PlaceIn(a.order, IdsIn(a)[l])
    BY <1>17, <2>1, <2>3, <2>5 DEF a
  <2>9. QED BY <2>4, <2>6, <2>7, <2>8 DEF JustIn, a
<1>19. QED BY <1>18 DEF CapsJust, JustIn, IdsIn, PlaceIn, Ranked

\* Whatever is shown was read and passed the filters.
LEMMA ShownAreKept ==
  ASSUME NEW reads, AreRead(reads), NEW spec, IsRequest(spec), NEW lookup
  PROVE  LET taken == Diversified(Order(reads, spec), lookup)
         IN \A k \in Shown(taken) : \E r \in Filtered(reads, spec) : r[1] = taken[k]
<1> DEFINE order == Order(reads, spec)
           taken == Diversified(order, lookup)
           L == Len(order)
           T == Len(taken)
<1>1. /\ DOMAIN order = 1..L /\ L \in Nat
      /\ \A k \in 1..L : \E r \in Filtered(reads, spec) : r[1] = order[k]
      /\ \A k, l \in 1..L : k < l => order[k] # order[l]
  BY RankedOrder
<1> HIDE DEF order
<1>2. taken \in Seq({order[n] : n \in 1..L})
  <2>1. Spread(order, lookup, taken, L)
    BY <1>1, DiversifiedIsSpread
  <2> HIDE DEF taken
  <2>2. QED BY <2>1 DEF Spread
<1> HIDE DEF L, taken
<1>3. T \in Nat /\ \A k \in 1..T : \E n \in 1..L : taken[k] = order[n]
  BY <1>2
<1> HIDE DEF T
<1>4. Shown(taken) \subseteq 1..T
  BY <1>3, LimitsAssumption DEF Shown, T
<1>5. QED BY <1>1, <1>3, <1>4 DEF taken, order

-------------------------------------------------------------------------------
(***************************************************************************)
(* What the language model is given.                                       *)
(***************************************************************************)
LEMMA FewAreOffered ==
  ASSUME NEW allowed, allowed \subseteq Nat, IsFiniteSet(allowed), NEW max \in Nat
  PROVE  LET offered == {k \in allowed : Cardinality({j \in allowed : j < k}) < max}
         IN IsFiniteSet(offered) /\ Cardinality(offered) <= max
<1> DEFINE R == {d \in allowed \X allowed : d[1] < d[2]}
           offered == {k \in allowed : Cardinality({j \in allowed : j < k}) < max}
           place == [k \in offered |-> RankIn(allowed, R, k) + 1]
<1>1. \A j, k \in allowed : <<j, k>> \in R <=> j < k
  OBVIOUS
<1>2. \A k \in allowed : RankIn(allowed, R, k) = Cardinality({j \in allowed : j < k})
  <2>1. \A k \in allowed : {j \in allowed : <<j, k>> \in R} = {j \in allowed : j < k}
    BY <1>1
  <2>2. QED BY <2>1 DEF RankIn
<1> HIDE DEF R
<1>3. /\ Cardinality(allowed) \in Nat
      /\ \A k \in allowed : RankIn(allowed, R, k) \in 0..(Cardinality(allowed) - 1)
      /\ \A j, k \in allowed : <<j, k>> \in R => RankIn(allowed, R, j) < RankIn(allowed, R, k)
  <2>1. \A p \in allowed : <<p, p>> \notin R
    BY <1>1
  <2>2. \A p, q \in allowed : p = q \/ <<p, q>> \in R \/ <<q, p>> \in R
    <3>1. TAKE p, q \in allowed
    <3>2. p \in Nat /\ q \in Nat
      OBVIOUS
    <3>3. p = q \/ p < q \/ q < p
      BY <3>2
    <3>4. QED BY <1>1, <3>3
  <2>3. \A p, q, r \in allowed : <<p, q>> \in R /\ <<q, r>> \in R => <<p, r>> \in R
    BY <1>1
  <2>4. QED BY <2>1, <2>2, <2>3, RanksAreTaken
<1>4. \A k \in offered : k \in allowed /\ place[k] = RankIn(allowed, R, k) + 1 /\ RankIn(allowed, R, k) < max
  BY <1>2
<1> HIDE DEF place, offered
<1>5. place \in Injection(offered, 1..max)
  <2>1. \A k \in offered : place[k] \in 1..max
    <3>1. TAKE k \in offered
    <3>2. k \in allowed /\ RankIn(allowed, R, k) \in 0..(Cardinality(allowed) - 1)
      BY <1>3, <1>4
    <3>3. RankIn(allowed, R, k) \in Nat /\ RankIn(allowed, R, k) < max
      BY <1>4, <3>2
    <3>4. QED BY <1>4, <3>3
  <2>2. \A j, k \in offered : place[j] = place[k] => j = k
    <3>1. TAKE j, k \in offered
    <3>2. j \in Nat /\ k \in Nat /\ j \in allowed /\ k \in allowed
      BY <1>4
    <3>3. RankIn(allowed, R, j) \in 0..(Cardinality(allowed) - 1)
           /\ RankIn(allowed, R, k) \in 0..(Cardinality(allowed) - 1)
      BY <1>3, <3>2
    <3>4. PICK m \in Int, n \in Int : m = RankIn(allowed, R, j) /\ n = RankIn(allowed, R, k)
      BY <3>3
    <3>5. j < k => m < n
      BY <1>1, <1>3, <3>2, <3>4
    <3>6. k < j => n < m
      BY <1>1, <1>3, <3>2, <3>4
    <3>7. place[j] = m + 1 /\ place[k] = n + 1
      BY <1>4, <3>4
    <3>8. QED BY <3>2, <3>5, <3>6, <3>7
  <2>3. place \in [offered -> 1..max]
    BY <2>1 DEF place
  <2>4. QED BY <2>2, <2>3, Zenon DEF Injection, IsInjective
<1>6. IsFiniteSet(1..max) /\ Cardinality(1..max) = max
  BY FS_Interval
<1>7. IsFiniteSet(offered) /\ Cardinality(offered) <= max
  BY <1>5, <1>6, FS_Injection
<1>8. QED BY <1>7 DEF offered

LEMMA PayloadIsClean ==
  ASSUME NEW i \in Ids, NEW doc \in Documents[i]
  PROVE  /\ Cardinality(Payload(doc)) <= MaxFields
         /\ \A p \in Payload(doc) :
              /\ p.field \notin BlockedFields /\ p.value.kind # "essay"
              /\ Len(p.evidence) <= MaxEvidence
              /\ \A e \in DOMAIN p.evidence : p.evidence[e] \in doc.evidence[p.field]
<1> DEFINE allowed == {k \in DOMAIN doc.names : doc.names[k] \notin BlockedFields}
           offered == {k \in allowed : Cardinality({j \in allowed : j < k}) < MaxFields}
           fields == {FieldPayload(doc, doc.names[k]) : k \in offered}
           f == [k \in offered |-> FieldPayload(doc, doc.names[k])]
<1>1. /\ IsFiniteSet(DOMAIN doc.names) /\ DOMAIN doc.names \subseteq Nat
      /\ \A k \in DOMAIN doc.names : doc.names[k] \in DOMAIN doc.fields
      /\ \A name \in DOMAIN doc.fields :
           IsFiniteSet(doc.evidence[name]) /\ doc.evidence[name] \subseteq Int
  BY DocumentsAssumption
<1>2. Payload(doc) = {p \in fields : p.value.kind # "essay"}
  BY DEF Payload
<1>3. MaxFields \in Nat /\ MaxEvidence \in Nat
  BY LimitsAssumption
<1>4. IsFiniteSet(offered) /\ Cardinality(offered) <= MaxFields
  <2>1. allowed \subseteq DOMAIN doc.names /\ allowed \subseteq Nat
    BY <1>1
  <2>2. IsFiniteSet(allowed)
    BY <1>1, <2>1, FS_Subset
  <2> HIDE DEF allowed
  <2>3. QED BY <1>3, <2>1, <2>2, FewAreOffered
<1>5. \A k \in offered : doc.names[k] \in DOMAIN doc.fields /\ doc.names[k] \notin BlockedFields
  BY <1>1
<1> HIDE DEF allowed, offered
<1>6. IsFiniteSet(fields) /\ Cardinality(fields) <= Cardinality(offered)
  <2>1. f \in Surjection(offered, fields)
    BY DEF Surjection
  <2> HIDE DEF f, fields
  <2>2. QED BY <1>4, <2>1, FS_Surjection
<1>7. Cardinality(Payload(doc)) <= MaxFields
  <2>1. Payload(doc) \subseteq fields
    BY <1>2
  <2> HIDE DEF fields
  <2>2. Cardinality(Payload(doc)) <= Cardinality(fields) /\ IsFiniteSet(Payload(doc))
    BY <1>6, <2>1, FS_Subset
  <2>3. Cardinality(Payload(doc)) \in Nat /\ Cardinality(fields) \in Nat /\ Cardinality(offered) \in Nat
    BY <1>4, <1>6, <2>2, FS_CardinalityType
  <2>4. QED BY <1>3, <1>4, <1>6, <2>2, <2>3
<1>8. ASSUME NEW name \in DOMAIN doc.fields
      PROVE  LET p == FieldPayload(doc, name) IN
             /\ p.field = name /\ Len(p.evidence) <= MaxEvidence
             /\ \A e \in DOMAIN p.evidence : p.evidence[e] \in doc.evidence[name]
  <2> DEFINE E == doc.evidence[name]
             S == {<<0, e>> : e \in E}
             g == [e \in E |-> <<0, e>>]
             p == FieldPayload(doc, name)
             o == InOrder(S, MaxEvidence)
  <2>1. IsFiniteSet(E) /\ E \subseteq Int
    BY <1>1
  <2> HIDE DEF E
  <2>2. IsFiniteSet(S)
    <3>1. g \in Surjection(E, S)
      BY DEF Surjection
    <3> HIDE DEF g, S
    <3>2. QED BY <2>1, <3>1, FS_Surjection
  <2>3. S \subseteq Int \X Int /\ (\A q, r \in S : q[2] = r[2] => q = r) /\ \A q \in S : q[2] \in E
    BY <2>1
  <2>4. p.field = name /\ p.evidence = o
    BY DEF FieldPayload, E
  <2> HIDE DEF S, p
  <2>5. /\ o \in Seq({q[2] : q \in S}) /\ DOMAIN o = 1..Len(o) /\ Len(o) \in Nat /\ Len(o) <= MaxEvidence
        /\ \A k, l \in 1..Len(o) : k < l => o[k] # o[l] /\ ScoreIn(S, o[k]) >= ScoreIn(S, o[l])
        /\ Cardinality(S) <= MaxEvidence => HasAll(o, S)
    <3>1. S \subseteq Int \X Int
      BY <2>3
    <3>2. \A q, r \in S : q[2] = r[2] => q = r
      BY <2>3
    <3>3. QED BY <1>3, <2>2, <3>1, <3>2, OrderedIds, Zenon
  <2> HIDE DEF o
  <2>6. \A e \in DOMAIN o : o[e] \in E
    <3>1. \A e \in 1..Len(o) : o[e] \in {q[2] : q \in S}
      BY <2>5
    <3>2. QED BY <2>3, <2>5, <3>1
  <2>7. QED BY <2>4, <2>5, <2>6 DEF E, p
<1>9. ASSUME NEW p \in Payload(doc)
      PROVE  /\ p.field \notin BlockedFields /\ p.value.kind # "essay"
             /\ Len(p.evidence) <= MaxEvidence
             /\ \A e \in DOMAIN p.evidence : p.evidence[e] \in doc.evidence[p.field]
  <2>1. p \in fields /\ p.value.kind # "essay"
    BY <1>2
  <2>2. PICK k \in offered : p = FieldPayload(doc, doc.names[k])
    BY <2>1
  <2>3. doc.names[k] \in DOMAIN doc.fields /\ doc.names[k] \notin BlockedFields
    BY <1>5
  <2>4. QED BY <1>8, <2>1, <2>2, <2>3
<1>10. QED BY <1>7, <1>9

LEMMA RankFeedsCleanly ==
  ASSUME SInv, Rank
  PROVE  RerankInputClean'
<1> DEFINE kept == Filtered(read, request)
           order == Order(read, request)
           taken == Diversified(order, docs)
           L == Len(order)
           T == Len(taken)
<1>1. /\ AreRead(read) /\ IsRequest(request)
      /\ answer'.read = read /\ answer'.rerank_payload = RerankPayload(kept)
      /\ DOMAIN answer'.results = Shown(taken)
      /\ \A k \in Shown(taken) : answer'.results[k].listing_id = taken[k]
  BY RankAnswers
<1>2. kept \subseteq read
  BY DEF Filtered
<1>3. \A k \in Shown(taken) : \E r \in kept : r[1] = taken[k]
  BY <1>1, ShownAreKept
<1> HIDE DEF kept, taken
<1>4. \A entry \in RerankPayload(kept) : \E r \in kept : entry.listing_id = r[1] /\ entry.fields = Payload(r[2])
  BY DEF RerankPayload
<1>5. \A r \in kept : \E entry \in RerankPayload(kept) : entry.listing_id = r[1]
  <2>1. TAKE r \in kept
  <2>2. [listing_id |-> r[1], fields |-> Payload(r[2])] \in RerankPayload(kept)
    BY DEF RerankPayload
  <2>3. QED BY <2>2
<1>6. Ranked' \subseteq {entry.listing_id : entry \in answer'.rerank_payload}
  <2>1. SUFFICES ASSUME NEW k \in Shown(taken)
                 PROVE  answer'.results[k].listing_id \in {entry.listing_id : entry \in answer'.rerank_payload}
    BY <1>1 DEF Ranked
  <2>2. PICK r \in kept : r[1] = taken[k]
    BY <1>3
  <2>3. PICK entry \in RerankPayload(kept) : entry.listing_id = r[1]
    BY <1>5
  <2>4. QED BY <1>1, <2>2, <2>3
<1>7. ASSUME NEW entry \in answer'.rerank_payload
      PROVE  LET doc == (CHOOSE r \in answer'.read : r[1] = entry.listing_id)[2]
             IN /\ Cardinality(entry.fields) <= MaxFields
                /\ \A p \in entry.fields :
                     /\ p.field \notin BlockedFields /\ p.value.kind # "essay"
                     /\ Len(p.evidence) <= MaxEvidence
                     /\ \A e \in DOMAIN p.evidence : p.evidence[e] \in doc.evidence[p.field]
  <2>1. PICK r \in kept : entry.listing_id = r[1] /\ entry.fields = Payload(r[2])
    BY <1>1, <1>4
  <2>2. r \in read /\ r[1] \in Ids /\ r[2] \in Documents[r[1]] /\ \A q \in read : q[1] = r[1] => q = r
    BY <1>1, <1>2 DEF AreRead
  <2> DEFINE c == CHOOSE q \in answer'.read : q[1] = entry.listing_id
  <2>3. c \in read /\ c[1] = r[1]
    BY <1>1, <2>1, <2>2
  <2> HIDE DEF c
  <2>4. c = r
    BY <2>2, <2>3
  <2>5. /\ Cardinality(Payload(r[2])) <= MaxFields
        /\ \A p \in Payload(r[2]) :
             /\ p.field \notin BlockedFields /\ p.value.kind # "essay"
             /\ Len(p.evidence) <= MaxEvidence
             /\ \A e \in DOMAIN p.evidence : p.evidence[e] \in r[2].evidence[p.field]
    BY <2>2, PayloadIsClean
  <2>6. QED BY <2>1, <2>4, <2>5, Zenon DEF c
<1>8. QED BY <1>6, <1>7, Zenon DEF RerankInputClean

-------------------------------------------------------------------------------
(***************************************************************************)
(* What the hard filters decide.                                           *)
(***************************************************************************)
LEMMA StrongestIs ==
  ASSUME NEW field, IsField(field)
  PROVE  /\ Resolved(field) \in Strongest(field) /\ Resolved(field).confidence \in Int
         /\ \A a \in Strongest(field) : a.confidence = Resolved(field).confidence
<1>1. PICK k \in DOMAIN field :
        /\ Resolved(field) = field[k] /\ field[k].confidence \in Int
        /\ \A j \in DOMAIN field : field[j].confidence <= field[k].confidence
  BY ResolvedIsStrongest
<1>2. field[k] \in Strongest(field)
  BY <1>1 DEF Strongest
<1>3. ASSUME NEW a \in Strongest(field) PROVE a.confidence = field[k].confidence
  <2>1. PICK j \in DOMAIN field : a = field[j] /\ \A m \in DOMAIN field : field[m].confidence <= field[j].confidence
    BY DEF Strongest
  <2>2. field[j].confidence \in Int
    BY DEF IsField
  <2>3. QED BY <1>1, <2>1, <2>2
<1>4. QED BY <1>1, <1>2, <1>3

LEMMA SurelyIs ==
  ASSUME NEW field, IsField(field)
  PROVE  Surely(field) <=> Resolved(field).confidence >= Threshold
  BY StrongestIs DEF Surely

\* A mismatch that does not fail is flagged as such, and not sure.
LEMMA MismatchIs ==
  ASSUME NEW about, NEW why, NEW confidence \in Int
  PROVE  LET v == Mismatch(about, why, confidence)
         IN /\ v.passes <=> ~(confidence >= Threshold)
            /\ v.passes => <<about, "low_confidence">> \in v.flags
  BY DEF Mismatch, Failed, Flagged

\* v is a verdict that is held against field, and is about such a constraint.
Tells(v, about, field) ==
  v.passes => /\ ~(Resolved(field).confidence >= Threshold)
              /\ <<about, "low_confidence">> \in v.flags

LEMMA MismatchTells ==
  ASSUME NEW field, IsField(field), NEW about, NEW why
  PROVE  Tells(Mismatch(about, why, Resolved(field).confidence), about, field)
<1> DEFINE confidence == Resolved(field).confidence
           v == Mismatch(about, why, confidence)
<1>1. confidence \in Int
  BY StrongestIs
<1> HIDE DEF confidence
<1>2. v.passes => ~(confidence >= Threshold) /\ <<about, "low_confidence">> \in v.flags
  BY <1>1, MismatchIs
<1> HIDE DEF v
<1>3. QED BY <1>2 DEF Tells, v, confidence

LEMMA NumericTells ==
  ASSUME NEW doc, IsDescribed(doc), NEW name \in DOMAIN doc.fields, NEW lo, NEW hi,
         Beyond(Resolved(doc.fields[name]).value, lo, hi)
  PROVE  Tells(Numeric(doc, name, lo, hi), <<name>>, doc.fields[name])
<1> DEFINE best == Resolved(doc.fields[name])
<1>1. Numeric(doc, name, lo, hi) =
        IF lo # Absent /\ best.value.size < lo THEN Mismatch(<<name>>, "below_min", best.confidence)
        ELSE Mismatch(<<name>>, "above_max", best.confidence)
  BY DEF Numeric, Beyond, Outside
<1>2. \E why : Numeric(doc, name, lo, hi) = Mismatch(<<name>>, why, best.confidence)
  BY <1>1
<1> HIDE DEF best
<1>3. IsField(doc.fields[name])
  BY DEF IsDescribed
<1>4. QED BY <1>2, <1>3, MismatchTells DEF best

LEMMA NumericFails ==
  ASSUME NEW doc, IsDescribed(doc), NEW name, NEW lo, NEW hi, ~Numeric(doc, name, lo, hi).passes
  PROVE  LET best == Resolved(doc.fields[name])
         IN name \in DOMAIN doc.fields /\ best.confidence >= Threshold /\ Beyond(best.value, lo, hi)
<1> DEFINE best == Resolved(doc.fields[name])
           v == Numeric(doc, name, lo, hi)
           Low == lo # Absent /\ best.value.size < lo
           High == hi # Absent /\ best.value.size > hi
<1>1. Pass.passes /\ \A why : Flagged(<<name>>, why).passes
  BY DEF Pass, Flagged
<1>2. v = IF lo = Absent /\ hi = Absent THEN Pass
          ELSE IF name \notin DOMAIN doc.fields THEN Flagged(<<name>>, "missing")
          ELSE IF ~IsNumber(best.value) THEN Flagged(<<name>>, "invalid")
          ELSE IF Low THEN Mismatch(<<name>>, "below_min", best.confidence)
          ELSE IF High THEN Mismatch(<<name>>, "above_max", best.confidence)
          ELSE Pass
  BY DEF Numeric
<1> HIDE DEF best, Low, High
<1>3. name \in DOMAIN doc.fields /\ IsNumber(best.value)
  BY <1>1, <1>2
<1>4. best.confidence \in Int
  BY <1>3, StrongestIs DEF IsDescribed, best
<1>5. \A why : ~Mismatch(<<name>>, why, best.confidence).passes => best.confidence >= Threshold
  BY <1>4, MismatchIs
<1> HIDE DEF v
<1>6. ~v.passes
  BY DEF v
<1>7. Low \/ High
  BY <1>1, <1>2, <1>3, <1>6
<1>8. best.confidence >= Threshold
  <2>1. PICK why : v = Mismatch(<<name>>, why, best.confidence)
    <3>1. lo # Absent \/ hi # Absent
      BY <1>7 DEF Low, High
    <3>2. CASE Low
      BY <1>2, <1>3, <3>1, <3>2
    <3>3. CASE ~Low
      BY <1>2, <1>3, <1>7, <3>1, <3>3
    <3>4. QED BY <3>2, <3>3
  <2>2. ~Mismatch(<<name>>, why, best.confidence).passes
    BY <1>6, <2>1
  <2>3. QED BY <1>5, <2>2
<1>9. QED BY <1>3, <1>7, <1>8 DEF best, Low, High, Beyond, Outside

LEMMA AvailabilityTells ==
  ASSUME NEW doc, IsDescribed(doc), "availability" \in DOMAIN doc.fields,
         NEW name, NEW earliest, NEW latest, NEW today,
         Untimely(DateOf(Resolved(doc.fields["availability"]).value, today), earliest, latest)
  PROVE  Tells(Availability(doc, name, earliest, latest, today), <<name>>, doc.fields["availability"])
<1> DEFINE field == doc.fields["availability"]
           best == Resolved(field)
           date == DateOf(best.value, today)
           Early == earliest # Absent /\ date < earliest
           Late == latest # Absent /\ date > latest
           v == Availability(doc, name, earliest, latest, today)
<1>1. IsField(field)
  BY DEF IsDescribed
<1>2. date # Absent /\ (Early \/ Late)
  BY DEF Untimely, Outside
<1>3. best.value.kind # "none"
  BY <1>2 DEF DateOf
<1>4. v = IF best.value.kind = "none" THEN Flagged(<<name>>, "missing")
          ELSE IF date = Absent THEN Flagged(<<name>>, "invalid")
          ELSE IF Early THEN Mismatch(<<name>>, "before_min", best.confidence)
          ELSE IF Late THEN Mismatch(<<name>>, "after_max", best.confidence)
          ELSE Pass
  BY DEF Availability
<1> HIDE DEF Early, Late, date, v
<1>5. \E why : v = Mismatch(<<name>>, why, best.confidence)
  BY <1>2, <1>3, <1>4
<1> HIDE DEF field
<1>6. QED BY <1>1, <1>5, MismatchTells DEF v, field

LEMMA AvailabilityFails ==
  ASSUME NEW doc, IsDescribed(doc), NEW name, NEW earliest, NEW latest, NEW today,
         ~Availability(doc, name, earliest, latest, today).passes
  PROVE  LET best == Resolved(doc.fields["availability"])
         IN /\ "availability" \in DOMAIN doc.fields /\ best.confidence >= Threshold
            /\ Untimely(DateOf(best.value, today), earliest, latest)
<1> DEFINE best == Resolved(doc.fields["availability"])
           date == DateOf(best.value, today)
           Early == earliest # Absent /\ date < earliest
           Late == latest # Absent /\ date > latest
           v == Availability(doc, name, earliest, latest, today)
<1>1. Pass.passes /\ \A why : Flagged(<<name>>, why).passes
  BY DEF Pass, Flagged
<1>2. v = IF "availability" \notin DOMAIN doc.fields THEN Flagged(<<name>>, "missing")
          ELSE IF best.value.kind = "none" THEN Flagged(<<name>>, "missing")
          ELSE IF date = Absent THEN Flagged(<<name>>, "invalid")
          ELSE IF Early THEN Mismatch(<<name>>, "before_min", best.confidence)
          ELSE IF Late THEN Mismatch(<<name>>, "after_max", best.confidence)
          ELSE Pass
  BY DEF Availability
<1> HIDE DEF date, Early, Late, v
<1>3. ~v.passes
  BY DEF v
<1>4. "availability" \in DOMAIN doc.fields /\ date # Absent /\ (Early \/ Late)
      /\ \E why : v = Mismatch(<<name>>, why, best.confidence)
  BY <1>1, <1>2, <1>3
<1>5. best.confidence \in Int
  BY <1>4, StrongestIs DEF IsDescribed
<1> HIDE DEF best
<1>6. best.confidence >= Threshold
  <2>1. PICK why : v = Mismatch(<<name>>, why, best.confidence)
    BY <1>4
  <2>2. ~Mismatch(<<name>>, why, best.confidence).passes
    BY <1>3, <2>1
  <2>3. QED BY <1>5, <2>2, MismatchIs
<1>7. QED BY <1>4, <1>6 DEF best, date, Early, Late, Untimely, Outside

\* A feature is looked up in one of the fields that speak of it, if there is one.
LEMMA MatchIs ==
  ASSUME NEW doc, NEW f \in DOMAIN Spellings
  PROVE  IF FeatureFields(doc, f) = {} THEN FeatureMatch(doc, f).present = "unknown"
         ELSE \E name \in FeatureFields(doc, f) :
                LET best == Resolved(doc.fields[name])
                IN FeatureMatch(doc, f) = [present |-> Attests(name, best.value, f),
                                           confidence |-> best.confidence]
<1> DEFINE names == Spellings[f]
           own == {k \in DOMAIN names : names[k] \in DOMAIN doc.fields}
           first == CHOOSE k \in own : \A j \in own : k <= j
           spelling == Range(names) \cap DOMAIN doc.fields
           listed == ListName(doc)
           match == FeatureMatch(doc, f)
<1>1. spelling = {names[k] : k \in own}
  BY Zenon DEF Range
<1>2. listed \in ListNames /\ (listed \in DOMAIN doc.fields <=> ListNames \cap DOMAIN doc.fields # {})
  BY DEF ListNames, ListName
<1>3. FeatureFields(doc, f) = IF spelling # {} THEN spelling ELSE {listed} \cap DOMAIN doc.fields
  BY Zenon DEF FeatureFields
<1>4. match = IF own # {}
              THEN [present |-> Truthy(Resolved(doc.fields[names[first]]).value),
                    confidence |-> Resolved(doc.fields[names[first]]).confidence]
              ELSE IF ListNames \cap DOMAIN doc.fields # {}
              THEN [present |-> Lists(Resolved(doc.fields[listed]).value, f),
                    confidence |-> Resolved(doc.fields[listed]).confidence]
              ELSE [present |-> "unknown", confidence |-> 0]
  BY DEF FeatureMatch
<1>5. \A name, v : Attests(name, v, f) = IF name \in Range(names) THEN Truthy(v) ELSE Lists(v, f)
  BY DEF Attests
<1>6. own # {} => first \in own
  <2>1. own \subseteq Nat
    BY SpellingsAssumption
  <2> HIDE DEF own
  <2>2. QED BY <2>1, LeastExists, Zenon
<1>7. spelling \subseteq Range(names) /\ (spelling = {} => \A n \in DOMAIN doc.fields : n \notin Range(names))
  OBVIOUS
<1> HIDE DEF names, own, first, spelling, listed, match
<1>8. CASE own # {}
  <2>1. names[first] \in spelling
    BY <1>1, <1>6, <1>8
  <2>2. names[first] \in FeatureFields(doc, f) /\ names[first] \in Range(names)
    BY <1>3, <1>7, <2>1
  <2>3. match = [present |-> Attests(names[first], Resolved(doc.fields[names[first]]).value, f),
                 confidence |-> Resolved(doc.fields[names[first]]).confidence]
    BY <1>4, <1>5, <1>8, <2>2
  <2>4. QED BY <2>2, <2>3 DEF match
<1>9. CASE own = {} /\ ListNames \cap DOMAIN doc.fields # {}
  <2>1. spelling = {} /\ listed \in DOMAIN doc.fields
    BY <1>1, <1>2, <1>9
  <2>2. listed \in FeatureFields(doc, f) /\ listed \notin Range(names)
    BY <1>3, <1>7, <2>1
  <2>3. match = [present |-> Attests(listed, Resolved(doc.fields[listed]).value, f),
                 confidence |-> Resolved(doc.fields[listed]).confidence]
    BY <1>4, <1>5, <1>9, <2>2
  <2>4. QED BY <2>2, <2>3 DEF match
<1>10. CASE own = {} /\ ListNames \cap DOMAIN doc.fields = {}
  <2>1. FeatureFields(doc, f) = {}
    BY <1>1, <1>2, <1>3, <1>10
  <2>2. match.present = "unknown"
    BY <1>4, <1>10
  <2>3. QED BY <2>1, <2>2 DEF match
<1>11. QED BY <1>8, <1>9, <1>10

LEMMA FeatureTells ==
  ASSUME NEW doc, IsDescribed(doc), NEW f \in DOMAIN Spellings, FeatureFields(doc, f) # {}
  PROVE  \E name \in FeatureFields(doc, f) :
           LET best == Resolved(doc.fields[name])
           IN /\ Attests(name, best.value, f) = "no" =>
                   Tells(MustHave(doc, f), <<"feature", f>>, doc.fields[name])
              /\ Attests(name, best.value, f) = "yes" =>
                   Tells(MustNotHave(doc, f), <<"feature", f>>, doc.fields[name])
<1> DEFINE match == FeatureMatch(doc, f)
<1>1. PICK name \in FeatureFields(doc, f) :
        match = [present |-> Attests(name, Resolved(doc.fields[name]).value, f),
                 confidence |-> Resolved(doc.fields[name]).confidence]
  BY MatchIs
<1> DEFINE best == Resolved(doc.fields[name])
           said == Attests(name, best.value, f)
<1>2. IsField(doc.fields[name])
  BY DEF FeatureFields, IsDescribed
<1> HIDE DEF match, best, said
<1>3. match.present = said /\ match.confidence = best.confidence
  BY <1>1 DEF best, said
<1>4. said = "no" => MustHave(doc, f) = Mismatch(<<"feature", f>>, "missing", best.confidence)
  BY <1>3 DEF MustHave, match
<1>5. said = "yes" => MustNotHave(doc, f) = Mismatch(<<"feature", f>>, "excluded", best.confidence)
  BY <1>3 DEF MustNotHave, match
<1>6. \A why : Tells(Mismatch(<<"feature", f>>, why, best.confidence), <<"feature", f>>, doc.fields[name])
  BY <1>2, MismatchTells DEF best
<1>7. QED BY <1>4, <1>5, <1>6 DEF best, said

LEMMA FeatureFails ==
  ASSUME NEW doc, IsDescribed(doc), NEW f \in DOMAIN Spellings,
         ~MustHave(doc, f).passes \/ ~MustNotHave(doc, f).passes
  PROVE  \E name \in FeatureFields(doc, f) :
           LET best == Resolved(doc.fields[name])
           IN /\ best.confidence >= Threshold
              /\ ~MustHave(doc, f).passes => Attests(name, best.value, f) = "no"
              /\ ~MustNotHave(doc, f).passes => Attests(name, best.value, f) = "yes"
<1> DEFINE match == FeatureMatch(doc, f)
           H == MustHave(doc, f)
           N == MustNotHave(doc, f)
           c == match.confidence
           about == <<"feature", f>>
<1>1. Pass.passes /\ \A why : Flagged(about, why).passes
  BY DEF Pass, Flagged
<1>2. H = CASE match.present = "yes" -> Pass
            [] match.present = "no" -> Mismatch(about, "missing", c)
            [] OTHER -> Flagged(about, "missing")
  BY DEF MustHave
<1>3. N = IF match.present = "yes" THEN Mismatch(about, "excluded", c) ELSE Pass
  BY DEF MustNotHave
<1> HIDE DEF H, N, match, c, about
<1>4. ~H.passes => match.present = "no" /\ H = Mismatch(about, "missing", c)
  BY <1>1, <1>2
<1>5. ~N.passes => match.present = "yes" /\ N = Mismatch(about, "excluded", c)
  BY <1>1, <1>3
<1>6. ~H.passes \/ ~N.passes
  BY DEF H, N
<1>7. FeatureFields(doc, f) # {}
  BY <1>4, <1>5, <1>6, MatchIs DEF match
<1>8. PICK name \in FeatureFields(doc, f) :
        match = [present |-> Attests(name, Resolved(doc.fields[name]).value, f),
                 confidence |-> Resolved(doc.fields[name]).confidence]
  BY <1>7, MatchIs DEF match
<1> DEFINE best == Resolved(doc.fields[name])
           said == Attests(name, best.value, f)
<1>9. best.confidence \in Int
  BY StrongestIs DEF FeatureFields, IsDescribed
<1> HIDE DEF best, said
<1>10. match.present = said /\ c = best.confidence
  BY <1>8 DEF best, said, c
<1>11. best.confidence >= Threshold
  <2>1. CASE ~H.passes
    BY <1>4, <1>9, <1>10, <2>1, MismatchIs
  <2>2. CASE ~N.passes
    BY <1>5, <1>9, <1>10, <2>2, MismatchIs
  <2>3. QED BY <1>6, <2>1, <2>2
<1>12. (~H.passes => said = "no") /\ (~N.passes => said = "yes")
  BY <1>4, <1>5, <1>10
<1>13. QED BY <1>11, <1>12 DEF best, said, H, N

\* What the constraints of a spec are, and where each is looked up.
LEMMA ConstraintIs ==
  ASSUME NEW hard, NEW c \in Constraints(hard)
  PROVE  \/ \E n \in Numbers \cup Dates : c = <<n>>
         \/ \E f \in hard.must_have : c = <<"must_have", f>>
         \/ \E f \in hard.must_not : c = <<"must_not", f>>
  BY DEF Constraints

LEMMA PlainConstraint ==
  ASSUME NEW doc, NEW n \in Numbers \cup Dates
  PROVE  /\ <<n>>[1] = n /\ ~IsWish(<<n>>) /\ About(<<n>>) = <<n>>
         /\ FieldsOn(doc, <<n>>) = {IF n \in Dates THEN "availability" ELSE n} \cap DOMAIN doc.fields
<1>1. <<n>>[1] = n /\ ~IsWish(<<n>>)
  BY DEF IsWish, Numbers, Dates
<1>2. QED BY <1>1, Zenon DEF About, FieldsOn

LEMMA WishConstraint ==
  ASSUME NEW doc, NEW wish \in {"must_have", "must_not"}, NEW f
  PROVE  LET c == <<wish, f>>
         IN /\ c[1] = wish /\ c[2] = f /\ About(c) = <<"feature", f>>
            /\ FieldsOn(doc, c) = FeatureFields(doc, f)
<1>1. <<wish, f>>[1] = wish /\ <<wish, f>>[2] = f /\ IsWish(<<wish, f>>)
  BY DEF IsWish
<1>2. QED BY <1>1, Zenon DEF About, FieldsOn

LEMMA FieldsAreThere ==
  ASSUME NEW doc, NEW c
  PROVE  FieldsOn(doc, c) \subseteq DOMAIN doc.fields
  BY DEF FieldsOn, FeatureFields

\* Of a contradicted constraint some verdict tells.
LEMMA ContradictionTells ==
  ASSUME NEW doc, IsDescribed(doc), NEW spec, IsRequest(spec),
         NEW c \in Constraints(spec.hard), Contradicted(doc, c, spec)
  PROVE  \E name \in FieldsOn(doc, c) : \E v \in Verdicts(doc, spec) :
           Tells(v, About(c), doc.fields[name])
<1> DEFINE hard == spec.hard
           verdicts == Verdicts(doc, spec)
           said(name) == Resolved(doc.fields[name]).value
<1>1. ASSUME NEW name \in FieldsOn(doc, c)
      PROVE  name \in DOMAIN doc.fields /\ Against(c, name, said(name), spec)
  <2>1. name \in DOMAIN doc.fields /\ IsField(doc.fields[name])
    BY <1>1, FieldsAreThere DEF IsDescribed
  <2>2. Resolved(doc.fields[name]) \in Strongest(doc.fields[name])
    BY <2>1, StrongestIs
  <2>3. QED BY <1>1, <2>1, <2>2 DEF Contradicted
<1>2. FieldsOn(doc, c) # {}
  BY DEF Contradicted
<1> HIDE DEF said
<1>3. CASE c = <<"price">>
  <2>1. c[1] = "price" /\ About(c) = <<"price">> /\ FieldsOn(doc, c) = {"price"}
    BY <1>2, <1>3, PlainConstraint DEF Numbers, Dates
  <2>2. "price" \in DOMAIN doc.fields /\ Beyond(said("price"), hard.price_min, hard.price_max)
    BY <1>1, <2>1 DEF Against
  <2>3. Tells(Numeric(doc, "price", hard.price_min, hard.price_max), <<"price">>, doc.fields["price"])
    BY <2>2, NumericTells DEF said
  <2>4. Numeric(doc, "price", hard.price_min, hard.price_max) \in verdicts
    BY DEF Verdicts
  <2>5. QED BY <2>1, <2>3, <2>4
<1>4. CASE c = <<"beds">>
  <2>1. c[1] = "beds" /\ About(c) = <<"beds">> /\ FieldsOn(doc, c) = {"beds"}
    BY <1>2, <1>4, PlainConstraint DEF Numbers, Dates
  <2>2. "beds" \in DOMAIN doc.fields /\ Beyond(said("beds"), hard.beds_min, Absent)
    BY <1>1, <2>1 DEF Against
  <2>3. Tells(Numeric(doc, "beds", hard.beds_min, Absent), <<"beds">>, doc.fields["beds"])
    BY <2>2, NumericTells DEF said
  <2>4. Numeric(doc, "beds", hard.beds_min, Absent) \in verdicts
    BY DEF Verdicts
  <2>5. QED BY <2>1, <2>3, <2>4
<1>5. CASE c = <<"baths">>
  <2>1. c[1] = "baths" /\ About(c) = <<"baths">> /\ FieldsOn(doc, c) = {"baths"}
    BY <1>2, <1>5, PlainConstraint DEF Numbers, Dates
  <2>2. "baths" \in DOMAIN doc.fields /\ Beyond(said("baths"), hard.baths_min, Absent)
    BY <1>1, <2>1 DEF Against
  <2>3. Tells(Numeric(doc, "baths", hard.baths_min, Absent), <<"baths">>, doc.fields["baths"])
    BY <2>2, NumericTells DEF said
  <2>4. Numeric(doc, "baths", hard.baths_min, Absent) \in verdicts
    BY DEF Verdicts
  <2>5. QED BY <2>1, <2>3, <2>4
<1>6. CASE c = <<"available_now">>
  <2>1. /\ c[1] = "available_now" /\ About(c) = <<"available_now">>
        /\ FieldsOn(doc, c) = {"availability"}
    BY <1>2, <1>6, PlainConstraint DEF Numbers, Dates
  <2>2. /\ "availability" \in DOMAIN doc.fields /\ hard.available_now
        /\ Untimely(DateOf(said("availability"), spec.day), Absent, spec.day)
    BY <1>1, <2>1 DEF Against
  <2> DEFINE v == Availability(doc, "available_now", Absent, spec.day, spec.day)
  <2>3. Tells(v, <<"available_now">>, doc.fields["availability"])
    BY <2>2, AvailabilityTells DEF said
  <2>4. v \in verdicts
    BY <2>2 DEF Verdicts
  <2>5. QED BY <2>1, <2>3, <2>4
<1>7. CASE c = <<"move_in_after">>
  <2>1. /\ c[1] = "move_in_after" /\ About(c) = <<"move_in_after">>
        /\ FieldsOn(doc, c) = {"availability"}
    BY <1>2, <1>7, PlainConstraint DEF Numbers, Dates
  <2>2. /\ "availability" \in DOMAIN doc.fields
        /\ Untimely(DateOf(said("availability"), spec.day), hard.move_in_after, Absent)
    BY <1>1, <2>1 DEF Against
  <2> DEFINE v == Availability(doc, "move_in_after", hard.move_in_after, Absent, spec.day)
  <2>3. Tells(v, <<"move_in_after">>, doc.fields["availability"])
    BY <2>2, AvailabilityTells DEF said
  <2>4. hard.move_in_after # Absent
    BY <2>2 DEF Untimely, Outside
  <2>5. v \in verdicts
    BY <2>4 DEF Verdicts
  <2>6. QED BY <2>1, <2>3, <2>5
<1>8. ASSUME NEW f \in hard.must_have, c = <<"must_have", f>>
      PROVE  \E name \in FieldsOn(doc, c) : \E v \in verdicts : Tells(v, About(c), doc.fields[name])
  <2>1. /\ c[1] = "must_have" /\ c[2] = f /\ About(c) = <<"feature", f>>
        /\ FieldsOn(doc, c) = FeatureFields(doc, f) /\ f \in DOMAIN Spellings
    BY <1>8, WishConstraint DEF IsRequest
  <2>2. PICK name \in FeatureFields(doc, f) :
          Attests(name, said(name), f) = "no" => Tells(MustHave(doc, f), <<"feature", f>>, doc.fields[name])
    BY <1>2, <2>1, FeatureTells DEF said
  <2>3. Attests(name, said(name), f) = "no"
    BY <1>1, <2>1 DEF Against
  <2>4. MustHave(doc, f) \in verdicts
    BY DEF Verdicts
  <2>5. QED BY <2>1, <2>2, <2>3, <2>4
<1>9. ASSUME NEW f \in hard.must_not, c = <<"must_not", f>>
      PROVE  \E name \in FieldsOn(doc, c) : \E v \in verdicts : Tells(v, About(c), doc.fields[name])
  <2>1. /\ c[1] = "must_not" /\ c[2] = f /\ About(c) = <<"feature", f>>
        /\ FieldsOn(doc, c) = FeatureFields(doc, f) /\ f \in DOMAIN Spellings
    BY <1>9, WishConstraint DEF IsRequest
  <2>2. PICK name \in FeatureFields(doc, f) :
          Attests(name, said(name), f) = "yes" => Tells(MustNotHave(doc, f), <<"feature", f>>, doc.fields[name])
    BY <1>2, <2>1, FeatureTells DEF said
  <2>3. Attests(name, said(name), f) = "yes"
    BY <1>1, <2>1 DEF Against
  <2>4. MustNotHave(doc, f) \in verdicts
    BY DEF Verdicts
  <2>5. QED BY <2>1, <2>2, <2>3, <2>4
<1> HIDE DEF verdicts
<1>10. \/ \E n \in Numbers \cup Dates : c = <<n>>
       \/ \E f \in hard.must_have : c = <<"must_have", f>>
       \/ \E f \in hard.must_not : c = <<"must_not", f>>
  BY ConstraintIs
<1>11. QED
  BY <1>3, <1>4, <1>5, <1>6, <1>7, <1>8, <1>9, <1>10 DEF Numbers, Dates, verdicts

\* A commute that is too long is held against the document.
LEMMA CommuteTells ==
  ASSUME NEW doc, IsDescribed(doc), NEW limit, TooFar(doc, limit), Commute(doc, limit).passes
  PROVE  /\ doc.commutes[limit.label].confidence < Threshold
         /\ <<<<"commute", limit.label>>, "low_confidence">> \in Commute(doc, limit).flags
<1> DEFINE about == <<"commute", limit.label>>
           confidence == doc.commutes[limit.label].confidence
<1>1. confidence \in Int /\ Threshold \in Int
  BY LimitsAssumption DEF TooFar, IsDescribed
<1>2. Commute(doc, limit) = Mismatch(about, "exceeds", confidence)
  BY DEF TooFar, Commute
<1> HIDE DEF about, confidence
<1>3. ~(confidence >= Threshold) /\ <<about, "low_confidence">> \in Commute(doc, limit).flags
  BY <1>1, <1>2, MismatchIs
<1>4. QED BY <1>1, <1>3 DEF about, confidence

\* A document that passes shows what is held against it without being sure.
LEMMA PassingIsHonest ==
  ASSUME NEW doc, IsDescribed(doc), NEW spec, IsRequest(spec), Evaluated(doc, spec).passes
  PROVE  Admissible(doc, Evaluated(doc, spec).flags, spec)
<1> DEFINE hard == spec.hard
           verdicts == Verdicts(doc, spec)
           flags == Evaluated(doc, spec).flags
<1>1. Evaluated(doc, spec) = [passes |-> \A v \in verdicts : v.passes, flags |-> UNION {v.flags : v \in verdicts}]
  BY DEF Evaluated
<1> HIDE DEF verdicts
<1>2. (\A v \in verdicts : v.passes) /\ (\A v \in verdicts : v.flags \subseteq flags)
  <2>1. flags = UNION {v.flags : v \in verdicts} /\ \A v \in verdicts : v.passes
    BY <1>1
  <2>2. QED BY <2>1
<1>3. ~Elsewhere(doc, hard)
  <2>1. Neighborhood(doc, hard) \in verdicts
    BY DEF verdicts, Verdicts
  <2>2. Neighborhood(doc, hard).passes
    BY <1>2, <2>1
  <2>3. QED BY <2>2 DEF Neighborhood, Elsewhere, Failed
<1>4. ASSUME NEW c \in Constraints(hard), Contradicted(doc, c, spec)
      PROVE  /\ \E name \in FieldsOn(doc, c) : ~Surely(doc.fields[name])
             /\ <<About(c), "low_confidence">> \in flags
  <2>1. PICK name \in FieldsOn(doc, c), v \in verdicts : Tells(v, About(c), doc.fields[name])
    BY <1>4, ContradictionTells DEF verdicts
  <2>2. ~(Resolved(doc.fields[name]).confidence >= Threshold) /\ <<About(c), "low_confidence">> \in v.flags
    BY <1>2, <2>1 DEF Tells
  <2>3. ~Surely(doc.fields[name])
    BY <2>2, FieldsAreThere, SurelyIs DEF IsDescribed
  <2>4. QED BY <1>2, <2>2, <2>3
<1>5. ASSUME NEW limit \in hard.commute_max, TooFar(doc, limit)
      PROVE  /\ doc.commutes[limit.label].confidence < Threshold
             /\ <<<<"commute", limit.label>>, "low_confidence">> \in flags
  <2>1. Commute(doc, limit) \in verdicts
    BY DEF verdicts, Verdicts
  <2>2. QED BY <1>2, <1>5, <2>1, CommuteTells
<1> HIDE DEF flags
<1>6. QED BY <1>3, <1>4, <1>5, Zenon DEF Admissible, flags

\* The best of a field is of its strongest, and sure if the field is.
LEMMA BestSpeaks ==
  ASSUME NEW doc, IsDescribed(doc), NEW spec, NEW c \in Constraints(spec.hard),
         NEW name \in FieldsOn(doc, c),
         Resolved(doc.fields[name]).confidence >= Threshold,
         Against(c, name, Resolved(doc.fields[name]).value, spec)
  PROVE  Grounds(doc, spec)
<1>1. IsField(doc.fields[name])
  BY FieldsAreThere DEF IsDescribed
<1>2. Surely(doc.fields[name]) /\ Resolved(doc.fields[name]) \in Strongest(doc.fields[name])
  BY <1>1, SurelyIs, StrongestIs
<1>3. QED BY <1>2, Zenon DEF Grounds

\* A document that does not pass has grounds.
LEMMA FailingIsGrounded ==
  ASSUME NEW doc, IsDescribed(doc), NEW spec, IsRequest(spec), ~Evaluated(doc, spec).passes
  PROVE  Grounds(doc, spec)
<1> DEFINE hard == spec.hard
           verdicts == Verdicts(doc, spec)
<1>1. \E v \in verdicts : ~v.passes
  <2>1. Evaluated(doc, spec) = [passes |-> \A v \in verdicts : v.passes, flags |-> UNION {v.flags : v \in verdicts}]
    BY DEF Evaluated
  <2> HIDE DEF verdicts
  <2>2. QED BY <2>1
<1>2. PICK v \in verdicts : ~v.passes
  BY <1>1
<1>3. ASSUME NEW name \in Numbers, NEW lo, NEW hi, v = Numeric(doc, name, lo, hi),
             \/ name = "price" /\ lo = hard.price_min /\ hi = hard.price_max
             \/ name = "beds" /\ lo = hard.beds_min /\ hi = Absent
             \/ name = "baths" /\ lo = hard.baths_min /\ hi = Absent
      PROVE  Grounds(doc, spec)
  <2> DEFINE best == Resolved(doc.fields[name])
  <2>1. name \in DOMAIN doc.fields /\ best.confidence >= Threshold /\ Beyond(best.value, lo, hi)
    BY <1>2, <1>3, NumericFails
  <2> HIDE DEF best
  <2>2. <<name>> \in Constraints(hard) /\ <<name>>[1] = name /\ name \in FieldsOn(doc, <<name>>)
    BY <2>1, PlainConstraint DEF Constraints, Numbers, Dates
  <2>3. Against(<<name>>, name, best.value, spec)
    BY <1>3, <2>1, <2>2 DEF Against
  <2>4. QED BY <2>1, <2>2, <2>3, BestSpeaks DEF best
<1>4. ASSUME NEW why \in Dates, NEW earliest, NEW latest,
             v = Availability(doc, why, earliest, latest, spec.day),
             \/ why = "available_now" /\ earliest = Absent /\ latest = spec.day /\ hard.available_now
             \/ why = "move_in_after" /\ earliest = hard.move_in_after /\ latest = Absent
      PROVE  Grounds(doc, spec)
  <2> DEFINE best == Resolved(doc.fields["availability"])
  <2>1. /\ "availability" \in DOMAIN doc.fields /\ best.confidence >= Threshold
        /\ Untimely(DateOf(best.value, spec.day), earliest, latest)
    BY <1>2, <1>4, AvailabilityFails
  <2> HIDE DEF best
  <2>2. /\ <<why>> \in Constraints(hard) /\ <<why>>[1] = why
        /\ "availability" \in FieldsOn(doc, <<why>>)
    BY <2>1, PlainConstraint DEF Constraints
  <2>3. Against(<<why>>, "availability", best.value, spec)
    BY <1>4, <2>1, <2>2 DEF Against
  <2>4. QED BY <2>1, <2>2, <2>3, BestSpeaks DEF best
<1>5. ASSUME NEW f, NEW wish \in {"must_have", "must_not"},
             \/ wish = "must_have" /\ f \in hard.must_have /\ v = MustHave(doc, f)
             \/ wish = "must_not" /\ f \in hard.must_not /\ v = MustNotHave(doc, f)
      PROVE  Grounds(doc, spec)
  <2>1. f \in DOMAIN Spellings
    BY <1>5 DEF IsRequest
  <2>2. ~MustHave(doc, f).passes \/ ~MustNotHave(doc, f).passes
    BY <1>2, <1>5
  <2>3. PICK name \in FeatureFields(doc, f) :
           LET best == Resolved(doc.fields[name])
           IN /\ best.confidence >= Threshold
              /\ ~MustHave(doc, f).passes => Attests(name, best.value, f) = "no"
              /\ ~MustNotHave(doc, f).passes => Attests(name, best.value, f) = "yes"
    BY <2>1, <2>2, FeatureFails
  <2> DEFINE best == Resolved(doc.fields[name])
             c == <<wish, f>>
  <2>4. best.confidence >= Threshold
    BY <2>3
  <2>5. \/ wish = "must_have" /\ Attests(name, best.value, f) = "no"
        \/ wish = "must_not" /\ Attests(name, best.value, f) = "yes"
    BY <1>2, <1>5, <2>3
  <2> HIDE DEF best
  <2>6. /\ c \in Constraints(hard) /\ c[1] = wish /\ c[2] = f
        /\ name \in FieldsOn(doc, c)
    BY <1>5, WishConstraint DEF Constraints
  <2>7. Against(c, name, best.value, spec)
    BY <2>5, <2>6 DEF Against
  <2>8. QED BY <2>4, <2>6, <2>7, BestSpeaks DEF best
<1>6. CASE v = Neighborhood(doc, hard)
  <2>1. Elsewhere(doc, hard)
    BY <1>2, <1>6 DEF Neighborhood, Elsewhere, Pass
  <2>2. QED BY <2>1 DEF Grounds
<1>7. ASSUME NEW limit \in hard.commute_max, v = Commute(doc, limit)
      PROVE  Grounds(doc, spec)
  <2> DEFINE found == doc.commutes[limit.label]
             about == <<"commute", limit.label>>
  <2>1. Pass.passes /\ \A why : Flagged(about, why).passes
    BY DEF Pass, Flagged
  <2>2. TooFar(doc, limit) /\ v = Mismatch(about, "exceeds", found.confidence)
    BY <1>2, <1>7, <2>1 DEF Commute, TooFar
  <2>3. found.confidence \in Int
    BY <2>2 DEF TooFar, IsDescribed
  <2> HIDE DEF found, about
  <2>4. ~Mismatch(about, "exceeds", found.confidence).passes
    BY <1>2, <2>2
  <2>5. found.confidence >= Threshold
    BY <2>3, <2>4, MismatchIs
  <2>6. QED BY <2>2, <2>5 DEF Grounds, found
<1>8. \/ v = Neighborhood(doc, hard)
      \/ v = Numeric(doc, "price", hard.price_min, hard.price_max)
      \/ v = Numeric(doc, "beds", hard.beds_min, Absent)
      \/ v = Numeric(doc, "baths", hard.baths_min, Absent)
      \/ \E limit \in hard.commute_max : v = Commute(doc, limit)
      \/ hard.available_now /\ v = Availability(doc, "available_now", Absent, spec.day, spec.day)
      \/ v = Availability(doc, "move_in_after", hard.move_in_after, Absent, spec.day)
      \/ \E f \in hard.must_have : v = MustHave(doc, f)
      \/ \E f \in hard.must_not : v = MustNotHave(doc, f)
  BY <1>2 DEF Verdicts
<1>9. {"price", "beds", "baths"} \subseteq Numbers /\ {"available_now", "move_in_after"} \subseteq Dates
  BY DEF Numbers, Dates
<1> HIDE DEF hard, verdicts
<1>10. QED BY <1>3, <1>4, <1>5, <1>6, <1>7, <1>8, <1>9

LEMMA RankHonoursFilters ==
  ASSUME SInv, Rank
  PROVE  HardFiltersHonoured'
<1> DEFINE kept == Filtered(read, request)
           order == Order(read, request)
           taken == Diversified(order, docs)
           L == Len(order)
           results == answer'.results
<1>1. /\ AreRead(read) /\ IsRequest(request)
      /\ answer'.spec = request /\ answer'.read = read /\ answer'.order = order
      /\ DOMAIN answer'.results = Shown(taken)
      /\ \A k \in Shown(taken) :
           /\ answer'.results[k].listing_id = taken[k]
           /\ answer'.results[k].flags = Evaluated((CHOOSE r \in kept : r[1] = taken[k])[2], request).flags
  BY RankAnswers
<1>2. /\ DOMAIN order = 1..L /\ \A r \in kept : \E k \in 1..L : order[k] = r[1]
  BY <1>1, RankedOrder
<1>3. \A r \in read : r \in kept <=> Evaluated(r[2], request).passes
  BY DEF Filtered
<1>4. kept \subseteq read
  BY DEF Filtered
<1>5. \A k \in Shown(taken) : \E r \in kept : r[1] = taken[k]
  BY <1>1, ShownAreKept
<1> HIDE DEF kept, order, taken, L
<1>6. ASSUME NEW r \in read PROVE IsDescribed(r[2]) /\ \A q \in read : q[1] = r[1] => q = r
  <2>1. r[1] \in Ids /\ r[2] \in Documents[r[1]] /\ \A q \in read : q[1] = r[1] => q = r
    BY <1>1 DEF AreRead
  <2>2. QED BY <2>1, DocumentsAssumption
<1>7. ASSUME NEW r \in read, r[1] \in Ranked'
      PROVE  r \in kept /\ (ResultOf(r[1])').flags = Evaluated(r[2], request).flags
  <2> DEFINE result == CHOOSE a \in Range(results) : a.listing_id = r[1]
  <2>1. PICK k \in Shown(taken) : results[k].listing_id = r[1]
    BY <1>1, <1>7 DEF Ranked
  <2>2. results[k] \in Range(results)
    BY <1>1 DEF Range
  <2> HIDE DEF results
  <2>3. result \in Range(results) /\ result.listing_id = r[1]
    BY <2>1, <2>2
  <2>4. ResultOf(r[1])' = result
    BY DEF ResultOf, results
  <2> HIDE DEF result
  <2>5. PICK l \in DOMAIN results : result = results[l]
    BY <2>3 DEF Range
  <2>6. l \in Shown(taken) /\ taken[l] = r[1]
    BY <1>1, <2>3, <2>5 DEF results
  <2> DEFINE c == CHOOSE q \in kept : q[1] = taken[l]
  <2>7. c \in kept /\ c[1] = r[1]
    BY <1>5, <2>6
  <2>8. results[l].flags = Evaluated(c[2], request).flags
    BY <1>1, <2>6 DEF results
  <2> HIDE DEF c
  <2>9. c = r
    BY <1>4, <1>6, <2>7
  <2>10. QED BY <2>4, <2>5, <2>7, <2>8, <2>9
<1>8. ASSUME NEW r \in read, r[1] \in Ranked'
      PROVE  Admissible(r[2], (ResultOf(r[1])').flags, request)
  <2>1. Evaluated(r[2], request).passes /\ (ResultOf(r[1])').flags = Evaluated(r[2], request).flags
    BY <1>3, <1>7, <1>8
  <2>2. Admissible(r[2], Evaluated(r[2], request).flags, request)
    BY <1>1, <1>6, <2>1, PassingIsHonest
  <2>3. QED BY <2>1, <2>2
<1>9. ASSUME NEW r \in read, r[1] \notin Range(order)
      PROVE  Grounds(r[2], request)
  <2>1. \A k \in 1..L : order[k] \in Range(order)
    BY <1>2 DEF Range
  <2>2. r \notin kept
    BY <1>2, <1>9, <2>1
  <2>3. QED BY <1>1, <1>3, <1>6, <2>2, FailingIsGrounded
<1>10. ASSUME NEW r \in answer'.read
       PROVE  /\ r[1] \in Ranked' => Admissible(r[2], (ResultOf(r[1])').flags, answer'.spec)
              /\ r[1] \notin Range(answer'.order) => Grounds(r[2], answer'.spec)
  <2>1. r \in read
    BY <1>1
  <2>2. QED BY <1>1, <1>8, <1>9, <2>1
<1>11. QED BY <1>10 DEF HardFiltersHonoured, ResultOf

-------------------------------------------------------------------------------
(***************************************************************************)
(* Every answer comes from Rank, and is gone with the next one.            *)
(***************************************************************************)
LEMMA Answers ==
  ASSUME [Next]_vars
  PROVE  Rank \/ answer' = answer \/ answer' = NoAnswer
BY DEF Next, vars, Add, Create, Request, Hydrate

LEMMA FirstAnswer == Init => ~Answered
BY DEF Init, Answered

(***************************************************************************)
(* Whatever was stored in between, the results of a search are within the  *)
(* caps of the repository they were applied by, in the order of their      *)
(* scores, and leave out nothing without a full bucket or the limit        *)
(* (RankingService._apply_diversity_caps).                                 *)
(***************************************************************************)
THEOREM CapsStayJust == Spec => []CapsJust
<1>1. Init => CapsJust
  BY FirstAnswer DEF CapsJust
<1>2. SInv /\ CapsJust /\ [Next]_vars => CapsJust'
  <2>1. SUFFICES ASSUME SInv, CapsJust, [Next]_vars PROVE CapsJust'
    OBVIOUS
  <2>2. CASE Rank
    BY <2>1, <2>2, RankSpreads
  <2>3. CASE answer' = answer
    <3>1. Answered => JustIn(answer)
      BY <2>1 DEF CapsJust, JustIn, IdsIn, PlaceIn, Ranked
    <3>2. Answered' => JustIn(answer')
      BY <2>3, <3>1 DEF Answered
    <3>3. QED BY <3>2 DEF CapsJust, JustIn, IdsIn, PlaceIn, Ranked
  <2>4. CASE answer' = NoAnswer
    BY <2>4 DEF CapsJust, Answered
  <2>5. QED BY <2>1, <2>2, <2>3, <2>4, Answers
<1>3. QED BY <1>1, <1>2, SInvInit, SInvNext, PTL DEF Spec

(***************************************************************************)
(* The language model is given every ranked listing, no blocked field and  *)
(* no long text, no more than the limits allow, and no evidence but that   *)
(* of the document that was read (RankingService._build_rerank_payload).   *)
(***************************************************************************)
THEOREM RerankInputStaysClean == Spec => []RerankInputClean
<1>1. Init => RerankInputClean
  BY FirstAnswer DEF RerankInputClean
<1>2. SInv /\ RerankInputClean /\ [Next]_vars => RerankInputClean'
  <2>1. SUFFICES ASSUME SInv, RerankInputClean, [Next]_vars PROVE RerankInputClean'
    OBVIOUS
  <2>2. CASE Rank
    BY <2>1, <2>2, RankFeedsCleanly
  <2>3. CASE answer' = answer
    BY <2>1, <2>3 DEF RerankInputClean, Answered, Ranked
  <2>4. CASE answer' = NoAnswer
    BY <2>4 DEF RerankInputClean, Answered
  <2>5. QED BY <2>1, <2>2, <2>3, <2>4, Answers
<1>3. QED BY <1>1, <1>2, SInvInit, SInvNext, PTL DEF Spec

(***************************************************************************)
(* Strong evidence decides and weak evidence is flagged, for every spec    *)
(* and every document.  A ranked listing is in no neighborhood the spec    *)
(* rules out; if all of the strongest evidence on one of its prices,       *)
(* sizes, dates or features, or a commute, is against the spec, then it is *)
(* not sure, and the listing has the flag of that constraint.  A listing   *)
(* that was read and dropped has sure evidence against it, of its          *)
(* strongest (RankingService._evaluate_listing, _apply_hard_filters).      *)
(***************************************************************************)
THEOREM HardFiltersStayHonoured == Spec => []HardFiltersHonoured
<1>1. Init => HardFiltersHonoured
  BY FirstAnswer DEF HardFiltersHonoured
<1>2. SInv /\ HardFiltersHonoured /\ [Next]_vars => HardFiltersHonoured'
  <2>1. SUFFICES ASSUME SInv, HardFiltersHonoured, [Next]_vars PROVE HardFiltersHonoured'
    OBVIOUS
  <2>2. CASE Rank
    BY <2>1, <2>2, RankHonoursFilters
  <2>3. CASE answer' = answer
    BY <2>1, <2>3 DEF HardFiltersHonoured, Answered, Ranked, ResultOf
  <2>4. CASE answer' = NoAnswer
    BY <2>4 DEF HardFiltersHonoured, Answered
  <2>5. QED BY <2>1, <2>2, <2>3, <2>4, Answers
<1>3. QED BY <1>1, <1>2, SInvInit, SInvNext, PTL DEF Spec
===============================================================================

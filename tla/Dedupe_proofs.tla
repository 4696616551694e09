----------------------------- MODULE Dedupe_proofs ------------------------------
(***************************************************************************)
(* Clustering is right for any listings, in any order: union-find always   *)
(* finds a root, merges as a partition does, and its clusters are the      *)
(* connected components of the auto_merge pairs.                           *)
(***************************************************************************)
EXTENDS Dedupe, FiniteSetTheorems, WellFoundedInduction, TLAPS

-------------------------------------------------------------------------------
(***************************************************************************)
(* Naturals: what has no least element is empty.                           *)
(***************************************************************************)
LEMMA LeastExists ==
  ASSUME NEW S, S \subseteq Nat, S # {}
  PROVE  \E n \in S : \A m \in S : n <= m
<1>1. PICK n \in S : \A m \in S : <<m, n>> \notin OpToRel(<, Nat)
  BY WFMin, NatLessThanWellFounded, Zenon
<1>2. ASSUME NEW m \in S PROVE ~(m < n)
  BY <1>1, Zenon DEF OpToRel
<1>3. QED BY <1>2

-------------------------------------------------------------------------------
(***************************************************************************)
(* decisions.sort: every pair has a place of its own.                      *)
(***************************************************************************)
Rank(pairs, p) == Cardinality({q \in pairs : Before(q, p)})

LEMMA BeforeIsAnOrder ==
  ASSUME NEW p \in Nat \X Nat, NEW q \in Nat \X Nat
  PROVE  /\ p # q => Before(p, q) \/ Before(q, p)
         /\ ~(Before(p, q) /\ Before(q, p))
         /\ \A r \in Nat \X Nat : Before(p, q) /\ Before(q, r) => Before(p, r)
  BY DEF Before

LEMMA RankGrows ==
  ASSUME NEW pairs, pairs \subseteq Nat \X Nat, IsFiniteSet(pairs),
         NEW p \in pairs, NEW q \in pairs, Before(q, p)
  PROVE  Rank(pairs, q) < Rank(pairs, p)
<1> DEFINE Prior(r) == {s \in pairs : Before(s, r)}
<1>1. Prior(q) \subseteq Prior(p) /\ q \in Prior(p) /\ q \notin Prior(q)
  BY BeforeIsAnOrder
<1>2. IsFiniteSet(Prior(p)) /\ IsFiniteSet(Prior(q))
  BY FS_Subset
<1> HIDE DEF Prior
<1>3. Cardinality(Prior(q)) <= Cardinality(Prior(p))
  BY <1>1, <1>2, FS_Subset
<1>4. Cardinality(Prior(q)) # Cardinality(Prior(p))
  BY <1>1, <1>2, FS_Subset
<1>5. Cardinality(Prior(q)) \in Nat /\ Cardinality(Prior(p)) \in Nat
  BY <1>2, FS_CardinalityType
<1>6. Rank(pairs, q) = Cardinality(Prior(q)) /\ Rank(pairs, p) = Cardinality(Prior(p))
  BY DEF Prior, Rank
<1>7. QED BY <1>3, <1>4, <1>5, <1>6

LEMMA RankPlaces ==
  ASSUME NEW pairs, pairs \subseteq Nat \X Nat, IsFiniteSet(pairs)
  PROVE  /\ Cardinality(pairs) \in Nat
         /\ \A p \in pairs : Rank(pairs, p) \in 0..(Cardinality(pairs) - 1)
         /\ \A p, q \in pairs : Rank(pairs, p) = Rank(pairs, q) => p = q
         /\ \A n \in 1..Cardinality(pairs) : \E p \in pairs : Rank(pairs, p) = n - 1
<1> DEFINE c == Cardinality(pairs)
           place == [p \in pairs |-> Rank(pairs, p) + 1]
<1>1. c \in Nat
  BY FS_CardinalityType
<1>2. ASSUME NEW p \in pairs PROVE Rank(pairs, p) \in 0..(c - 1)
  <2> DEFINE Prior == {s \in pairs : Before(s, p)}
  <2>1. Prior \subseteq pairs /\ p \notin Prior
    BY BeforeIsAnOrder
  <2>2. IsFiniteSet(Prior)
    BY FS_Subset
  <2> HIDE DEF Prior
  <2>3. Cardinality(Prior) <= c /\ Cardinality(Prior) # c /\ Cardinality(Prior) \in Nat
    BY <2>1, <2>2, FS_Subset, FS_CardinalityType
  <2>4. Rank(pairs, p) = Cardinality(Prior)
    BY DEF Prior, Rank
  <2> HIDE DEF c
  <2>5. QED BY <1>1, <2>3, <2>4
<1>3. \A p, q \in pairs : Rank(pairs, p) = Rank(pairs, q) => p = q
  <2> SUFFICES ASSUME NEW p \in pairs, NEW q \in pairs, p # q
               PROVE  Rank(pairs, p) # Rank(pairs, q)
    OBVIOUS
  <2>1. Rank(pairs, p) \in Int /\ Rank(pairs, q) \in Int
    BY <1>2
  <2>2. Before(p, q) \/ Before(q, p)
    BY BeforeIsAnOrder
  <2>3. QED BY <2>1, <2>2, RankGrows
<1>4. IsFiniteSet(1..c) /\ Cardinality(1..c) = c
  BY <1>1, FS_Interval
<1>5. place \in Injection(pairs, 1..c)
  <2>1. \A p \in pairs : place[p] \in 1..c
    BY <1>1, <1>2
  <2>2. \A p, q \in pairs : place[p] = place[q] => p = q
    BY <1>2, <1>3
  <2>3. place \in [pairs -> 1..c]
    BY <2>1
  <2> HIDE DEF place
  <2>4. QED BY <2>2, <2>3, Zenon DEF Injection, IsInjective
<1>6. place \in Surjection(pairs, 1..c)
  <2> HIDE DEF place
  <2>1. QED BY <1>4, <1>5, FS_Injection
<1>7. ASSUME NEW n \in 1..c PROVE \E p \in pairs : Rank(pairs, p) = n - 1
  <2>1. PICK p \in pairs : place[p] = n
    <3> HIDE DEF place
    <3>1. QED BY <1>6 DEF Surjection
  <2>2. QED BY <1>2, <2>1
<1>8. QED BY <1>1, <1>2, <1>3, <1>7

LEMMA InOrderSorts ==
  ASSUME NEW pairs, pairs \subseteq Nat \X Nat, IsFiniteSet(pairs)
  PROVE  /\ InOrder(pairs) \in Seq(pairs)
         /\ \A p \in pairs : \E n \in DOMAIN InOrder(pairs) : InOrder(pairs)[n] = p
         /\ \A m, n \in DOMAIN InOrder(pairs) :
              InOrder(pairs)[m] = InOrder(pairs)[n] => m = n
<1> DEFINE c == Cardinality(pairs)
           s == InOrder(pairs)
<1>1. c \in Nat
  BY RankPlaces
<1>2. ASSUME NEW n \in 1..c
      PROVE  s[n] \in pairs /\ Rank(pairs, s[n]) = n - 1
  <2>1. s[n] = CHOOSE p \in pairs : Rank(pairs, p) = n - 1
    BY DEF InOrder, Rank
  <2>2. \E p \in pairs : Rank(pairs, p) = n - 1
    BY RankPlaces
  <2> HIDE DEF s
  <2>3. QED BY <2>1, <2>2
<1>3. DOMAIN s = 1..c /\ s \in [1..c -> pairs]
  <2> DEFINE At(n) == CHOOSE p \in pairs : Cardinality({q \in pairs : Before(q, p)}) = n - 1
  <2>1. s = [n \in 1..c |-> At(n)]
    BY DEF InOrder
  <2>2. \A n \in 1..c : At(n) \in pairs
    BY <1>2, <2>1
  <2> HIDE DEF At, s, c
  <2>3. QED BY <2>1, <2>2
<1> HIDE DEF s
<1>4. s \in Seq(pairs)
  BY <1>1, <1>2, <1>3
<1>5. \A p \in pairs : \E n \in DOMAIN s : s[n] = p
  <2> SUFFICES ASSUME NEW p \in pairs PROVE \E n \in 1..c : s[n] = p
    BY <1>3
  <2>1. Rank(pairs, p) \in 0..(c - 1)
    BY RankPlaces
  <2>2. Rank(pairs, p) + 1 \in 1..c /\ (Rank(pairs, p) + 1) - 1 = Rank(pairs, p)
    BY <1>1, <2>1
  <2>3. s[Rank(pairs, p) + 1] = p
    BY <1>2, <2>2, RankPlaces
  <2>4. QED BY <2>2, <2>3
<1>6. \A m, n \in DOMAIN s : s[m] = s[n] => m = n
  <2> SUFFICES ASSUME NEW m \in 1..c, NEW n \in 1..c, s[m] = s[n] PROVE m = n
    BY <1>3
  <2>1. m - 1 = n - 1
    BY <1>2
  <2>2. QED BY <1>1, <2>1
<1>7. QED BY <1>4, <1>5, <1>6 DEF s

-------------------------------------------------------------------------------
(***************************************************************************)
(* Union-find.  Every listing hangs under a smaller one or itself, so the  *)
(* path from it comes to an end.                                           *)
(***************************************************************************)
Forest(up) ==
  /\ DOMAIN up \subseteq Nat
  /\ up \in [DOMAIN up -> DOMAIN up]
  /\ \A i \in DOMAIN up : up[i] <= i

LEMMA PathStep ==
  ASSUME NEW up, Forest(up), NEW i \in DOMAIN up
  PROVE  Path(up, i) = {i} \cup (IF up[i] = i THEN {} ELSE Path(up, up[i]))
<1> DEFINE D == DOMAIN up
           Shut(S) == \A k \in S : up[k] \in S
           Least(j) == {k \in D : \A S \in SUBSET D : j \in S /\ Shut(S) => k \in S}
           Step(above, j) == {j} \cup (IF up[j] = j THEN {} ELSE above[up[j]])
           least == [j \in D |-> Least(j)]
<1>1. ASSUME NEW j \in D
      PROVE  Least(j) = {j} \cup (IF up[j] = j THEN {} ELSE Least(up[j]))
  <2> DEFINE Next1 == {j} \cup (IF up[j] = j THEN {} ELSE Least(up[j]))
  <2>0. up[j] \in D
    BY DEF Forest
  <2>1. Next1 \subseteq Least(j)
    BY <2>0
  <2>2. Next1 \in SUBSET D /\ j \in Next1
    BY <2>0
  <2>3. Shut(Least(up[j]))
    BY DEF Forest
  <2>4. up[j] \in Least(up[j])
    BY <2>0
  <2> HIDE DEF Least
  <2>5. Shut(Next1)
    BY <2>3, <2>4
  <2>6. Least(j) \subseteq Next1
    BY <2>2, <2>5 DEF Least
  <2>7. QED BY <2>1, <2>6
<1>2. least = [j \in D |-> Step(least, j)]
  <2>1. ASSUME NEW j \in D PROVE Least(j) = Step(least, j)
    <3>1. up[j] \in D
      BY DEF Forest
    <3> HIDE DEF Least
    <3>2. QED BY <1>1, <3>1
  <2> HIDE DEF Least, Step
  <2>2. QED BY <2>1
<1> DEFINE above == CHOOSE f : f = [j \in D |-> Step(f, j)]
<1>3. above = [j \in D |-> Step(above, j)]
  <2> HIDE DEF Step, least
  <2>1. QED BY <1>2
<1>4. \A j \in D : Path(up, j) = above[j]
  BY DEF Path
<1> HIDE DEF above
<1>5. above[i] = Step(above, i)
  BY <1>3
<1>6. QED
  <2>1. up[i] \in D
    BY DEF Forest
  <2>2. QED BY <1>4, <1>5, <2>1

\* Induction along the parents.
LEMMA ForestInduction ==
  ASSUME NEW up, Forest(up), NEW Good, Good \subseteq DOMAIN up,
         \A i \in DOMAIN up : up[i] = i => i \in Good,
         \A i \in DOMAIN up : up[i] # i /\ up[i] \in Good => i \in Good
  PROVE  Good = DOMAIN up
<1> DEFINE Bad == DOMAIN up \ Good
<1>1. SUFFICES ASSUME Bad # {} PROVE FALSE
  OBVIOUS
<1>2. Bad \subseteq Nat
  BY DEF Forest
<1>3. PICK n \in Bad : \A m \in Bad : n <= m
  <2> HIDE DEF Bad
  <2>1. QED BY <1>1, <1>2, LeastExists
<1>4. up[n] \in DOMAIN up /\ up[n] <= n /\ up[n] \in Nat /\ n \in Nat
  BY <1>2 DEF Forest
<1>5. up[n] # n /\ up[n] \in Bad
  <2>1. n \in DOMAIN up /\ n \notin Good
    OBVIOUS
  <2>2. up[n] # n /\ up[n] \notin Good
    BY <2>1
  <2>3. QED BY <1>4, <2>2
<1>6. n <= up[n]
  BY <1>3, <1>5
<1>7. QED BY <1>4, <1>5, <1>6

LEMMA PathHasOneRoot ==
  ASSUME NEW up, Forest(up)
  PROVE  \A i \in DOMAIN up :
           /\ Path(up, i) \subseteq DOMAIN up
           /\ \E r \in Path(up, i) : up[r] = r /\ \A q \in Path(up, i) : up[q] = q => q = r
<1> DEFINE Right(i) ==
             /\ Path(up, i) \subseteq DOMAIN up
             /\ \E r \in Path(up, i) : up[r] = r /\ \A q \in Path(up, i) : up[q] = q => q = r
           Good == {i \in DOMAIN up : Right(i)}
<1>1. ASSUME NEW i \in DOMAIN up, up[i] = i PROVE Right(i)
  <2>1. Path(up, i) = {i}
    BY <1>1, PathStep
  <2>2. QED BY <1>1, <2>1
<1>2. ASSUME NEW i \in DOMAIN up, up[i] # i, Right(up[i]) PROVE Right(i)
  <2>1. Path(up, i) = {i} \cup Path(up, up[i])
    BY <1>2, PathStep
  <2>2. QED BY <1>2, <2>1
<1>3. Good = DOMAIN up
  <2>1. \A i \in DOMAIN up : up[i] = i => i \in Good
    BY <1>1
  <2>2. \A i \in DOMAIN up : up[i] # i /\ up[i] \in Good => i \in Good
    BY <1>2
  <2>3. Good \subseteq DOMAIN up
    OBVIOUS
  <2> HIDE DEF Good
  <2>4. QED BY <2>1, <2>2, <2>3, ForestInduction
<1>4. QED BY <1>3

LEMMA RootFound ==
  ASSUME NEW up, Forest(up), NEW i \in DOMAIN up
  PROVE  /\ Root(up, i) \in DOMAIN up
         /\ Root(up, i) \in Path(up, i)
         /\ up[Root(up, i)] = Root(up, i)
         /\ \A q \in Path(up, i) : up[q] = q => q = Root(up, i)
<1>1. PICK r \in Path(up, i) : up[r] = r /\ \A q \in Path(up, i) : up[q] = q => q = r
  BY PathHasOneRoot
<1>2. Root(up, i) = r
  BY <1>1 DEF Root
<1>3. QED BY <1>1, <1>2, PathHasOneRoot

LEMMA RootStep ==
  ASSUME NEW up, Forest(up), NEW i \in DOMAIN up
  PROVE  Root(up, i) = IF up[i] = i THEN i ELSE Root(up, up[i])
<1>1. up[i] \in DOMAIN up
  BY DEF Forest
<1>2. i \in Path(up, i) /\ (up[i] # i => Path(up, up[i]) \subseteq Path(up, i))
  BY PathStep
<1>3. up[i] = i => Root(up, i) = i
  BY <1>2, RootFound
<1>4. up[i] # i => Root(up, up[i]) = Root(up, i)
  BY <1>1, <1>2, RootFound
<1>5. QED BY <1>3, <1>4

(***************************************************************************)
(* What obeys the equation of Root is Root.                                *)
(***************************************************************************)
LEMMA RootsAre ==
  ASSUME NEW up, Forest(up), NEW R,
         \A i \in DOMAIN up : R[i] = IF up[i] = i THEN i ELSE R[up[i]]
  PROVE  \A i \in DOMAIN up : Root(up, i) = R[i]
<1> DEFINE Good == {i \in DOMAIN up : Root(up, i) = R[i]}
<1>1. \A i \in DOMAIN up : up[i] = i => i \in Good
  BY RootStep
<1>2. \A i \in DOMAIN up : up[i] # i /\ up[i] \in Good => i \in Good
  BY RootStep
<1>3. Good \subseteq DOMAIN up
  OBVIOUS
<1>4. Good = DOMAIN up
  <2> HIDE DEF Good
  <2>1. QED BY <1>1, <1>2, <1>3, ForestInduction
<1>5. QED BY <1>4

LEMMA PathSharesRoot ==
  ASSUME NEW up, Forest(up)
  PROVE  \A i \in DOMAIN up : \A q \in Path(up, i) : Root(up, q) = Root(up, i)
<1> DEFINE Good == {i \in DOMAIN up : \A q \in Path(up, i) : Root(up, q) = Root(up, i)}
<1>1. \A i \in DOMAIN up : up[i] = i => i \in Good
  BY PathStep
<1>2. ASSUME NEW i \in DOMAIN up, up[i] # i, up[i] \in Good PROVE i \in Good
  <2>1. Path(up, i) = {i} \cup Path(up, up[i])
    BY <1>2, PathStep
  <2>2. Root(up, up[i]) = Root(up, i)
    BY <1>2, RootStep
  <2>3. QED BY <1>2, <2>1, <2>2
<1>3. Good \subseteq DOMAIN up
  OBVIOUS
<1>4. Good = DOMAIN up
  <2> HIDE DEF Good
  <2>1. QED BY <1>1, <1>2, <1>3, ForestInduction
<1>5. QED BY <1>4

LEMMA RootsStand ==
  ASSUME NEW up, Forest(up), NEW i \in DOMAIN up
  PROVE  Root(up, i) \in DOMAIN up /\ Root(up, Root(up, i)) = Root(up, i)
<1>1. QED BY RootFound, RootStep

(***************************************************************************)
(* find compresses a path and moves no listing to another root.            *)
(***************************************************************************)
LEMMA FoundKeepsRoots ==
  ASSUME NEW up, Forest(up), NEW i \in DOMAIN up
  PROVE  LET f == Found(up, i)
         IN  /\ DOMAIN f = DOMAIN up
             /\ Forest(f)
             /\ \A j \in DOMAIN up : Root(f, j) = Root(up, j)
             /\ f[i] = Root(up, i)
             /\ \A j \in DOMAIN up : up[j] = Root(up, j) => f[j] = Root(up, j)
<1> DEFINE f == Found(up, i)
           root == Root(up, i)
           R == [j \in DOMAIN up |-> Root(up, j)]
<1>1. /\ DOMAIN f = DOMAIN up
      /\ \A j \in DOMAIN up : f[j] = IF j \in Path(up, i) THEN root ELSE up[j]
  BY DEF Found
<1>2. /\ Path(up, i) \subseteq DOMAIN up /\ i \in Path(up, i)
      /\ root \in DOMAIN up /\ up[root] = root /\ Root(up, root) = root
      /\ \A j \in Path(up, i) : Root(up, j) = root
  BY PathHasOneRoot, PathStep, RootFound, RootsStand, PathSharesRoot
<1>3. \A j \in DOMAIN up : Root(up, j) <= j
  <2> DEFINE Good == {j \in DOMAIN up : Root(up, j) <= j}
  <2>1. \A j \in DOMAIN up : /\ j \in Nat /\ up[j] \in Nat /\ up[j] <= j /\ up[j] \in DOMAIN up
                             /\ Root(up, j) \in Nat
    BY RootFound DEF Forest
  <2>2. \A j \in DOMAIN up : up[j] = j => j \in Good
    BY <2>1, RootStep
  <2>3. ASSUME NEW j \in DOMAIN up, up[j] # j, up[j] \in Good PROVE j \in Good
    <3>1. Root(up, j) = Root(up, up[j]) /\ Root(up, up[j]) <= up[j]
      BY <2>3, RootStep
    <3>2. Root(up, j) <= j
      BY <2>1, <3>1
    <3>3. QED BY <3>2
  <2>4. Good \subseteq DOMAIN up
    OBVIOUS
  <2>5. Good = DOMAIN up
    <3> HIDE DEF Good
    <3>1. QED BY <2>2, <2>3, <2>4, ForestInduction
  <2>6. QED BY <2>5
<1>4. Forest(f)
  <2>1. \A j \in DOMAIN up : f[j] \in DOMAIN up /\ f[j] <= j
    BY <1>1, <1>2, <1>3 DEF Forest
  <2>2. f = [j \in DOMAIN up |-> IF j \in Path(up, i) THEN root ELSE up[j]]
    BY DEF Found
  <2>3. f \in [DOMAIN up -> DOMAIN up]
    <3> HIDE DEF root
    <3>1. \A j \in DOMAIN up : (IF j \in Path(up, i) THEN root ELSE up[j]) \in DOMAIN up
      BY <1>2 DEF Forest
    <3> HIDE DEF f
    <3>2. QED BY <2>2, <3>1
  <2> HIDE DEF f
  <2>4. QED BY <1>1, <2>1, <2>3 DEF Forest
<1>5. \A j \in DOMAIN f : R[j] = IF f[j] = j THEN j ELSE R[f[j]]
  <2> SUFFICES ASSUME NEW j \in DOMAIN up
               PROVE  Root(up, j) = IF f[j] = j THEN j ELSE Root(up, f[j])
    BY <1>1, <1>4 DEF Forest
  <2> HIDE DEF f, root
  <2>1. CASE j \in Path(up, i)
    BY <1>1, <1>2, <2>1
  <2>2. CASE j \notin Path(up, i)
    BY <1>1, <2>2, RootStep
  <2>3. QED BY <2>1, <2>2
<1>6. \A j \in DOMAIN up : Root(f, j) = Root(up, j)
  <2> HIDE DEF f
  <2>1. \A j \in DOMAIN f : Root(f, j) = R[j]
    <3> HIDE DEF R
    <3>1. QED BY <1>4, <1>5, RootsAre
  <2>2. QED BY <1>1, <2>1
<1>7. QED BY <1>1, <1>2, <1>4, <1>6

(***************************************************************************)
(* union: the listings of the two roots get the smaller of them, and the   *)
(* others keep theirs.                                                     *)
(***************************************************************************)
LEMMA UnitedRoots ==
  ASSUME NEW up, Forest(up), NEW a \in DOMAIN up, NEW b \in DOMAIN up
  PROVE  LET u == United(up, a, b)
         IN  /\ DOMAIN u = DOMAIN up
             /\ Forest(u)
             /\ \E m \in {Root(up, a), Root(up, b)} : \A j \in DOMAIN up :
                  Root(u, j) = IF Root(up, j) \in {Root(up, a), Root(up, b)} THEN m ELSE Root(up, j)
<1> DEFINE g == Found(up, a)
           f == Found(g, b)
<1>1. /\ DOMAIN g = DOMAIN up /\ Forest(g) /\ g[a] = Root(up, a)
      /\ \A j \in DOMAIN up : Root(g, j) = Root(up, j)
      /\ \A j \in DOMAIN up : up[j] = Root(up, j) => g[j] = Root(up, j)
  BY FoundKeepsRoots
<1>2. /\ DOMAIN f = DOMAIN up /\ Forest(f) /\ f[b] = Root(up, b)
      /\ \A j \in DOMAIN up : Root(f, j) = Root(up, j)
      /\ \A j \in DOMAIN up : g[j] = Root(up, j) => f[j] = Root(up, j)
  <2> HIDE DEF g
  <2>1. /\ DOMAIN f = DOMAIN g /\ Forest(f) /\ f[b] = Root(g, b)
        /\ \A j \in DOMAIN g : Root(f, j) = Root(g, j)
        /\ \A j \in DOMAIN g : g[j] = Root(g, j) => f[j] = Root(g, j)
    BY <1>1, FoundKeepsRoots
  <2> HIDE DEF f
  <2>2. QED BY <1>1, <2>1
<1>3. f[a] = Root(up, a)
  BY <1>1, <1>2
<1>4. PICK l, r : l = Root(up, a) /\ r = Root(up, b)
  OBVIOUS
<1>5. /\ l \in DOMAIN up /\ r \in DOMAIN up /\ l \in Nat /\ r \in Nat
      /\ f[l] = l /\ f[r] = r /\ Root(up, l) = l /\ Root(up, r) = r
  <2>1. /\ l \in DOMAIN up /\ r \in DOMAIN up /\ Root(up, l) = l /\ Root(up, r) = r
        /\ up[l] = l /\ up[r] = r
    BY <1>4, RootFound, RootsStand
  <2>2. l \in Nat /\ r \in Nat
    BY <2>1 DEF Forest
  <2> HIDE DEF f, g
  <2>3. g[l] = l /\ g[r] = r
    BY <1>1, <2>1
  <2>4. QED BY <1>2, <2>1, <2>2, <2>3
<1>6. United(up, a, b) = IF l < r THEN [f EXCEPT ![r] = l] ELSE [f EXCEPT ![l] = r]
  <2>1. United(up, a, b) = IF f[a] < f[b] THEN [f EXCEPT ![f[b]] = f[a]] ELSE [f EXCEPT ![f[a]] = f[b]]
    BY DEF United
  <2> HIDE DEF f
  <2>2. QED BY <1>2, <1>3, <1>4, <2>1
<1> HIDE DEF f, g
<1>7. PICK m \in {l, r}, x \in {l, r} :
        /\ m <= x /\ {m, x} = {l, r}
        /\ United(up, a, b) = [f EXCEPT ![x] = m]
  <2>1. CASE l < r
    <3>1. l <= r
      BY <1>5, <2>1
    <3>2. QED BY <1>6, <2>1, <3>1
  <2>2. CASE ~(l < r)
    <3>1. r <= l
      BY <1>5, <2>2
    <3>2. QED BY <1>6, <2>2, <3>1
  <2>3. QED BY <2>1, <2>2
<1>8. PICK u : u = United(up, a, b)
  OBVIOUS
<1>9. /\ DOMAIN u = DOMAIN up
      /\ \A j \in DOMAIN up : u[j] = IF j = x THEN m ELSE f[j]
  BY <1>2, <1>5, <1>7, <1>8
<1>10. Forest(u)
  <2>1. \A j \in DOMAIN up : f[j] \in DOMAIN up /\ f[j] <= j
    BY <1>2 DEF Forest
  <2>2. \A j \in DOMAIN up : u[j] \in DOMAIN up /\ u[j] <= j
    BY <1>5, <1>7, <1>9, <2>1
  <2>3. u \in [DOMAIN up -> DOMAIN up]
    <3>1. f \in [DOMAIN up -> DOMAIN up]
      BY <1>2 DEF Forest
    <3>2. QED BY <1>5, <1>7, <1>8, <3>1
  <2>4. QED BY <1>9, <2>2, <2>3 DEF Forest
<1> DEFINE R == [j \in DOMAIN up |-> IF Root(up, j) = x THEN m ELSE Root(up, j)]
<1>11. \A j \in DOMAIN u : R[j] = IF u[j] = j THEN j ELSE R[u[j]]
  <2> SUFFICES ASSUME NEW j \in DOMAIN up
               PROVE  R[j] = IF u[j] = j THEN j ELSE R[u[j]]
    BY <1>9
  <2>1. CASE j = x
    <3>1. u[j] = m /\ Root(up, j) = x /\ Root(up, m) = m /\ m \in DOMAIN up
      BY <1>5, <1>7, <1>9, <2>1
    <3>2. R[j] = m /\ R[m] = m
      BY <3>1
    <3> HIDE DEF R
    <3>3. QED BY <2>1, <3>1, <3>2
  <2>2. CASE j # x
    <3>1. u[j] = f[j] /\ f[j] \in DOMAIN up
      BY <1>2, <1>9, <2>2 DEF Forest
    <3>2. Root(up, j) = IF f[j] = j THEN j ELSE Root(up, f[j])
      BY <1>2, <3>1, RootStep
    <3>3. QED BY <2>2, <3>1, <3>2
  <2>3. QED BY <2>1, <2>2
<1>12. \A j \in DOMAIN up : Root(u, j) = IF Root(up, j) = x THEN m ELSE Root(up, j)
  <2>1. \A j \in DOMAIN u : Root(u, j) = R[j]
    <3> HIDE DEF R
    <3>1. QED BY <1>10, <1>11, RootsAre
  <2>2. QED BY <1>9, <2>1
<1>13. \A j \in DOMAIN up :
         Root(u, j) = IF Root(up, j) \in {Root(up, a), Root(up, b)} THEN m ELSE Root(up, j)
  BY <1>4, <1>7, <1>12
<1>14. QED BY <1>4, <1>7, <1>8, <1>9, <1>10, <1>13

-------------------------------------------------------------------------------
(***************************************************************************)
(* The clusters are the classes of listings that share a root.             *)
(***************************************************************************)
ClassOf(up, i) == {j \in DOMAIN up : Root(up, j) = Root(up, i)}

LEMMA GroupsAreClasses ==
  ASSUME NEW up
  PROVE  Groups(up) = {ClassOf(up, i) : i \in DOMAIN up}
<1>1. \A i \in DOMAIN up : ClassOf(up, i) \in Groups(up)
  BY DEF Groups, ClassOf
<1>2. \A c \in Groups(up) : \E i \in DOMAIN up : c = ClassOf(up, i)
  BY DEF Groups, ClassOf
<1>3. QED BY <1>1, <1>2

LEMMA ClassesMeet ==
  ASSUME NEW up, NEW i \in DOMAIN up
  PROVE  \A c \in Groups(up) : i \in c <=> c = ClassOf(up, i)
<1>1. QED BY GroupsAreClasses DEF ClassOf

LEMMA UnitedClasses ==
  ASSUME NEW up, Forest(up), NEW a \in DOMAIN up, NEW b \in DOMAIN up
  PROVE  Groups(United(up, a, b))
           = (Groups(up) \ {ClassOf(up, a), ClassOf(up, b)}) \cup {ClassOf(up, a) \cup ClassOf(up, b)}
<1>1. PICK u : u = United(up, a, b)
  OBVIOUS
<1>2. PICK m \in {Root(up, a), Root(up, b)} :
        /\ DOMAIN u = DOMAIN up
        /\ \A j \in DOMAIN up :
             Root(u, j) = IF Root(up, j) \in {Root(up, a), Root(up, b)} THEN m ELSE Root(up, j)
  <2>1. LET v == United(up, a, b)
        IN  /\ DOMAIN v = DOMAIN up
            /\ Forest(v)
            /\ \E m \in {Root(up, a), Root(up, b)} : \A j \in DOMAIN up :
                 Root(v, j) = IF Root(up, j) \in {Root(up, a), Root(up, b)} THEN m ELSE Root(up, j)
    BY UnitedRoots
  <2>2. QED BY <1>1, <2>1
<1> DEFINE Both == ClassOf(up, a) \cup ClassOf(up, b)
<1>3. ASSUME NEW i \in DOMAIN up, i \in Both PROVE ClassOf(u, i) = Both
  <2>1. Root(u, i) = m
    BY <1>2, <1>3 DEF ClassOf
  <2>2. ASSUME NEW j \in DOMAIN up PROVE Root(u, j) = m <=> j \in Both
    <3>1. Root(up, j) \in {Root(up, a), Root(up, b)} => Root(u, j) = m /\ j \in Both
      BY <1>2 DEF ClassOf
    <3>2. Root(up, j) \notin {Root(up, a), Root(up, b)} => Root(u, j) # m /\ j \notin Both
      BY <1>2 DEF ClassOf
    <3>3. QED BY <3>1, <3>2
  <2>3. Both \subseteq DOMAIN up
    BY DEF ClassOf
  <2> HIDE DEF Both
  <2>4. QED BY <1>2, <2>1, <2>2, <2>3 DEF ClassOf
<1>4. ASSUME NEW i \in DOMAIN up, i \notin Both
      PROVE  ClassOf(u, i) = ClassOf(up, i) /\ ClassOf(up, i) \notin {ClassOf(up, a), ClassOf(up, b)}
  <2>1. Root(up, i) \notin {Root(up, a), Root(up, b)}
    BY <1>4 DEF ClassOf
  <2>2. \A j \in DOMAIN up : Root(u, j) = Root(u, i) <=> Root(up, j) = Root(up, i)
    BY <1>2, <2>1
  <2>3. i \in ClassOf(up, i)
    BY DEF ClassOf
  <2>4. ClassOf(u, i) = ClassOf(up, i)
    BY <1>2, <2>2 DEF ClassOf
  <2>5. QED BY <1>4, <2>3, <2>4
<1>5. a \in Both /\ b \in Both
  BY DEF ClassOf
<1> DEFINE Joined == (Groups(up) \ {ClassOf(up, a), ClassOf(up, b)}) \cup {Both}
<1>6. ASSUME NEW c \in Groups(u) PROVE c \in Joined
  <2>1. PICK i \in DOMAIN up : c = ClassOf(u, i)
    BY <1>2, GroupsAreClasses
  <2>2. ClassOf(up, i) \in Groups(up)
    BY GroupsAreClasses
  <2> HIDE DEF Both
  <2>3. QED BY <1>3, <1>4, <2>1, <2>2
<1>7. ASSUME NEW c \in Joined PROVE c \in Groups(u)
  <2>1. CASE c = Both
    <3> HIDE DEF Both
    <3>1. ClassOf(u, a) = Both
      BY <1>3, <1>5
    <3>2. QED BY <1>2, <2>1, <3>1, GroupsAreClasses
  <2>2. CASE c \in Groups(up) /\ c \notin {ClassOf(up, a), ClassOf(up, b)}
    <3>1. PICK i \in DOMAIN up : c = ClassOf(up, i)
      BY <2>2, GroupsAreClasses
    <3>2. i \notin Both
      BY <2>2, <3>1 DEF ClassOf
    <3>3. c = ClassOf(u, i)
      BY <1>4, <3>1, <3>2
    <3>4. QED BY <1>2, <3>3, GroupsAreClasses
  <2>3. QED BY <1>7, <2>1, <2>2
<1> HIDE DEF Joined, Both
<1>8. Groups(u) = Joined
  BY <1>6, <1>7
<1>9. QED BY <1>1, <1>8 DEF Joined, Both

-------------------------------------------------------------------------------
(***************************************************************************)
(* The decisions of a run.                                                 *)
(***************************************************************************)
Fed(in) == in = <<>> \/ in \in Inputs
Links(in) == Decided(in, "auto_merge")

LEMMA FedShape ==
  ASSUME NEW in, Fed(in)
  PROVE  /\ Len(in) \in Nat /\ DOMAIN in = 1..Len(in)
         /\ \A k \in DOMAIN in : in[k].id \in Nat /\ in[k].id \in IdsOf(in)
         /\ IdsOf(in) \subseteq Nat
         /\ IsFiniteSet(IdsOf(in))
<1>1. /\ Len(in) \in Nat /\ DOMAIN in = 1..Len(in)
      /\ \A k \in DOMAIN in : in[k].id \in Nat
  BY InputsAssumption DEF Fed
<1>2. IsFiniteSet(DOMAIN in)
  BY <1>1, FS_Interval
<1> DEFINE idOf == [k \in DOMAIN in |-> in[k].id]
<1>3. idOf \in Surjection(DOMAIN in, IdsOf(in))
  <2>1. idOf \in [DOMAIN in -> IdsOf(in)]
    BY DEF IdsOf
  <2>2. \A i \in IdsOf(in) : \E k \in DOMAIN in : idOf[k] = i
    BY DEF IdsOf
  <2> HIDE DEF idOf
  <2>3. QED BY <2>1, <2>2 DEF Surjection
<1>4. IsFiniteSet(IdsOf(in))
  <2> HIDE DEF idOf
  <2>1. QED BY <1>2, <1>3, FS_Surjection
<1>5. QED BY <1>1, <1>4 DEF IdsOf

LEMMA CandidatesAre ==
  ASSUME NEW in, Fed(in)
  PROVE  /\ CandidatePairs(in) \subseteq IdsOf(in) \X IdsOf(in)
         /\ \A a, b \in IdsOf(in) :
              a < b => (<<a, b>> \in CandidatePairs(in) <=> Neighbours(in, a, b))
         /\ \A p \in CandidatePairs(in) : p[1] <= p[2]
<1>1. CandidatePairs(in) \subseteq IdsOf(in) \X IdsOf(in)
  BY FedShape DEF CandidatePairs
<1>2. ASSUME NEW a \in IdsOf(in), NEW b \in IdsOf(in), a < b,
             <<a, b>> \in CandidatePairs(in)
      PROVE  Neighbours(in, a, b)
  BY <1>2 DEF CandidatePairs, Neighbours, BlockingKeys
<1>3. ASSUME NEW a \in IdsOf(in), NEW b \in IdsOf(in), a < b, Neighbours(in, a, b)
      PROVE  <<a, b>> \in CandidatePairs(in)
  <2>1. PICK j \in DOMAIN in, k \in DOMAIN in :
          in[j].id = a /\ in[k].id = b /\ in[j].addresses \cap in[k].addresses # {}
    BY <1>3 DEF Neighbours
  <2>2. a \in Nat /\ b \in Nat
    BY FedShape
  <2>3. j # k /\ in[j].id <= in[k].id
    BY <1>3, <2>1, <2>2
  <2>4. <<j, k>> \in (DOMAIN in) \X (DOMAIN in) /\ <<j, k>>[1] = j /\ <<j, k>>[2] = k
    OBVIOUS
  <2>5. <<in[j].id, in[k].id>> \in CandidatePairs(in)
    BY <2>1, <2>3, <2>4 DEF CandidatePairs, BlockingKeys
  <2>6. QED BY <2>1, <2>5
<1>4. \A p \in CandidatePairs(in) : p[1] <= p[2]
  BY DEF CandidatePairs
<1>5. QED BY <1>1, <1>2, <1>3, <1>4

LEMMA DecidedAre ==
  ASSUME NEW in, Fed(in), NEW band
  PROVE  /\ Decided(in, band) \subseteq IdsOf(in) \X IdsOf(in)
         /\ Decided(in, band) \subseteq Nat \X Nat
         /\ IsFiniteSet(Decided(in, band))
<1>1. Decided(in, band) \subseteq IdsOf(in) \X IdsOf(in)
  BY CandidatesAre DEF Decided
<1>2. IsFiniteSet(IdsOf(in) \X IdsOf(in))
  BY FedShape, FS_Product
<1>3. IsFiniteSet(Decided(in, band))
  BY <1>1, <1>2, FS_Subset
<1>4. IdsOf(in) \subseteq Nat
  BY FedShape
<1>5. QED BY <1>1, <1>3, <1>4

LEMMA NeighboursMutual ==
  ASSUME NEW in, NEW a, NEW b
  PROVE  Neighbours(in, a, b) <=> Neighbours(in, b, a)
  BY DEF Neighbours

LEMMA SameIsDecided ==
  ASSUME NEW in, Fed(in), NEW a \in IdsOf(in), NEW b \in IdsOf(in), a # b
  PROVE  /\ Same(in, a, b) => Same(in, b, a)
         /\ Same(in, a, b) <=> (<<a, b>> \in Links(in) \/ <<b, a>> \in Links(in))
<1>1. a \in Nat /\ b \in Nat
  BY FedShape
<1>2. ASSUME NEW x \in IdsOf(in), NEW y \in IdsOf(in), x < y
      PROVE  /\ <<x, y>> \in Links(in) <=> Same(in, x, y)
             /\ Same(in, y, x) <=> Same(in, x, y)
             /\ <<y, x>> \notin Links(in)
  <2>1. ~(y < x) /\ ~(y <= x)
    <3>1. x \in Nat /\ y \in Nat
      BY FedShape
    <3>2. QED BY <1>2, <3>1
  <2>2. <<x, y>> \in CandidatePairs(in) <=> Neighbours(in, x, y)
    BY <1>2, CandidatesAre
  <2>3. <<y, x>> \notin CandidatePairs(in)
    <3>1. <<y, x>>[1] = y /\ <<y, x>>[2] = x
      OBVIOUS
    <3>2. QED BY <2>1, <3>1, CandidatesAre
  <2>4. \A s : BandForScore(s) = "auto_merge" <=> AtLeast(s, AutoMerge)
    BY DEF BandForScore
  <2>5. Same(in, x, y) <=> Neighbours(in, x, y) /\ AtLeast(PairScore(in, <<x, y>>), AutoMerge)
    BY <1>2 DEF Same
  <2>6. Same(in, y, x) <=> Neighbours(in, y, x) /\ AtLeast(PairScore(in, <<x, y>>), AutoMerge)
    BY <2>1 DEF Same
  <2>7. QED BY <2>2, <2>3, <2>4, <2>5, <2>6, NeighboursMutual DEF Links, Decided
<1>3. a < b \/ b < a
  BY <1>1
<1>4. QED BY <1>2, <1>3

-------------------------------------------------------------------------------
(***************************************************************************)
(* The inductive invariant of a run.  Every pair that has been looked at   *)
(* shares a root (Completed), and no set of listings that the decided      *)
(* pairs leave apart is left by a root (Justified): the first makes the    *)
(* clusters large enough, and the second keeps them from being too large.  *)
(***************************************************************************)
Waiting(p) == \E n \in DOMAIN todo : todo[n] = p
Completed ==
  \A p \in Links(input) : Waiting(p) \/ Root(parent, p[1]) = Root(parent, p[2])

Apart(in, S) == \A p \in Links(in) : p[1] \in S <=> p[2] \in S
Justified ==
  \A S \in SUBSET IdsOf(input) : Apart(input, S) =>
    \A j \in IdsOf(input) : j \in S <=> Root(parent, j) \in S

RightResult(r) ==
  /\ Fed(r.input)
  /\ r.review = Decided(r.input, "review")
  /\ UNION r.clusters = IdsOf(r.input) /\ {} \notin r.clusters
  /\ \A c \in r.clusters : Separate(r.input, c) /\ Connected(r.input, c)

Shape ==
  /\ Fed(input)
  /\ Forest(parent) /\ DOMAIN parent = IdsOf(input)
  /\ todo \in Seq(Links(input))
  /\ \A m, n \in DOMAIN todo : todo[m] = todo[n] => m = n
  /\ queue = Decided(input, "review")

Bounded ==
  /\ IsFiniteSet(results) /\ Cardinality(results) <= MaxRuns
  /\ ~Idle => Cardinality(results) < MaxRuns

IInv ==
  /\ Shape
  /\ Completed
  /\ Justified
  /\ \A r \in results : RightResult(r)
  /\ Bounded

LEMMA InvInit == Init => IInv
<1> SUFFICES ASSUME Init PROVE IInv
  OBVIOUS
<1>1. IdsOf(<<>>) = {} /\ Links(<<>>) = {} /\ Decided(<<>>, "review") = {}
  <2>1. IdsOf(<<>>) = {}
    BY DEF IdsOf
  <2>2. Fed(<<>>)
    BY DEF Fed
  <2>3. CandidatePairs(<<>>) = {}
    BY <2>1, <2>2, CandidatesAre
  <2>4. QED BY <2>1, <2>3 DEF Links, Decided
<1>2. Shape
  BY <1>1 DEF Init, Shape, Fed, Forest
<1>3. Completed /\ Justified
  BY <1>1 DEF Init, Completed, Justified
<1>4. Bounded /\ Idle
  <2>1. Idle
    BY DEF Init, Idle
  <2>2. IsFiniteSet(results) /\ Cardinality(results) = 0
    BY FS_EmptySet DEF Init
  <2>3. QED BY <2>1, <2>2, MaxRunsAssumption DEF Bounded
<1>5. QED BY <1>2, <1>3, <1>4 DEF Init, IInv

\* A run begins: every listing is a root, and every decision waits.
LEMMA InvRun ==
  ASSUME IInv, NEW in \in Inputs, Run(in)
  PROVE  IInv'
<1>1. /\ Idle /\ Cardinality(results) < MaxRuns
      /\ input' = in /\ Fed(in) /\ Fed(input')
      /\ todo' = InOrder(Links(in))
      /\ queue' = Decided(in, "review")
      /\ parent' = [i \in IdsOf(in) |-> i]
      /\ results' = results
  BY DEF Run, Links, Fed
<1>2. /\ todo' \in Seq(Links(in))
      /\ \A p \in Links(in) : \E n \in DOMAIN todo' : todo'[n] = p
      /\ \A m, n \in DOMAIN todo' : todo'[m] = todo'[n] => m = n
  <2>1. Links(in) \subseteq Nat \X Nat /\ IsFiniteSet(Links(in))
    BY <1>1, DecidedAre DEF Links
  <2>2. QED BY <1>1, <2>1, InOrderSorts
<1>3. Forest(parent') /\ DOMAIN parent' = IdsOf(in)
  <2>1. IdsOf(in) \subseteq Nat
    BY <1>1, FedShape
  <2>2. parent' \in [IdsOf(in) -> IdsOf(in)] /\ \A i \in IdsOf(in) : parent'[i] = i
    BY <1>1
  <2>3. QED BY <2>1, <2>2 DEF Forest
<1>4. \A i \in IdsOf(in) : Root(parent', i) = i
  BY <1>1, <1>3, RootStep
<1>5. Shape'
  BY <1>1, <1>2, <1>3 DEF Shape
<1>6. Completed'
  BY <1>1, <1>2 DEF Completed, Waiting
<1>7. Justified'
  BY <1>1, <1>4 DEF Justified
<1>8. Bounded'
  BY <1>1 DEF IInv, Bounded
<1>9. \A r \in results' : RightResult(r)
  BY <1>1 DEF IInv
<1>10. QED BY <1>5, <1>6, <1>7, <1>8, <1>9 DEF IInv

\* What one round of cluster looks at.
LEMMA HeadPair ==
  ASSUME IInv, Unite
  PROVE  /\ Head(todo) \in Links(input)
         /\ Head(todo)[1] \in DOMAIN parent /\ Head(todo)[2] \in DOMAIN parent
         /\ Head(todo) = <<Head(todo)[1], Head(todo)[2]>>
         /\ todo' = Tail(todo) /\ todo' \in Seq(Links(input))
         /\ \A p : Waiting(p)' <=> Waiting(p) /\ p # Head(todo)
         /\ Waiting(Head(todo))
         /\ \A m, n \in DOMAIN todo' : todo'[m] = todo'[n] => m = n
         /\ input' = input /\ queue' = queue /\ results' = results
<1>1. /\ todo # <<>> /\ todo' = Tail(todo) /\ todo \in Seq(Links(input))
      /\ input' = input /\ queue' = queue /\ results' = results
      /\ \A m, n \in DOMAIN todo : todo[m] = todo[n] => m = n
      /\ DOMAIN parent = IdsOf(input)
  BY DEF Unite, IInv, Shape
<1>2. /\ Len(todo) \in Nat /\ Len(todo) > 0 /\ DOMAIN todo = 1..Len(todo)
      /\ Head(todo) = todo[1] /\ Head(todo) \in Links(input)
      /\ Tail(todo) \in Seq(Links(input))
      /\ DOMAIN Tail(todo) = 1..(Len(todo) - 1)
      /\ \A n \in 1..(Len(todo) - 1) : Tail(todo)[n] = todo[n + 1]
  BY <1>1
<1>3. ASSUME NEW p PROVE Waiting(p)' <=> Waiting(p) /\ p # Head(todo)
  <2>1. ASSUME Waiting(p)' PROVE Waiting(p) /\ p # Head(todo)
    <3>1. PICK n \in 1..(Len(todo) - 1) : todo[n + 1] = p
      BY <1>1, <1>2, <2>1 DEF Waiting
    <3>2. n + 1 \in 1..Len(todo) /\ n + 1 # 1 /\ 1 \in 1..Len(todo)
      BY <1>2
    <3>3. QED BY <1>1, <1>2, <3>1, <3>2 DEF Waiting
  <2>2. ASSUME Waiting(p), p # Head(todo) PROVE Waiting(p)'
    <3>1. PICK n \in 1..Len(todo) : todo[n] = p
      BY <1>2, <2>2 DEF Waiting
    <3>2. n # 1
      BY <1>2, <2>2, <3>1
    <3>3. n - 1 \in 1..(Len(todo) - 1) /\ (n - 1) + 1 = n
      BY <1>2, <3>2
    <3>4. Tail(todo)[n - 1] = p
      BY <1>2, <3>1, <3>3
    <3>5. QED BY <1>1, <1>2, <3>3, <3>4 DEF Waiting
  <2>3. QED BY <2>1, <2>2
<1>4. \A m, n \in DOMAIN todo' : todo'[m] = todo'[n] => m = n
  <2> SUFFICES ASSUME NEW m \in 1..(Len(todo) - 1), NEW n \in 1..(Len(todo) - 1),
                      Tail(todo)[m] = Tail(todo)[n]
               PROVE  m = n
    BY <1>1, <1>2
  <2>1. m + 1 \in 1..Len(todo) /\ n + 1 \in 1..Len(todo) /\ todo[m + 1] = todo[n + 1]
    BY <1>2
  <2>2. m + 1 = n + 1
    BY <1>1, <1>2, <2>1
  <2>3. QED BY <2>2
<1>5. Waiting(Head(todo))
  BY <1>2 DEF Waiting
<1>6. Links(input) \subseteq IdsOf(input) \X IdsOf(input)
  BY DecidedAre DEF Links, IInv, Shape
<1>7. QED BY <1>1, <1>2, <1>3, <1>4, <1>5, <1>6

LEMMA InvUnite ==
  ASSUME IInv, Unite
  PROVE  IInv'
<1> PICK a \in DOMAIN parent, b \in DOMAIN parent : Head(todo) = <<a, b>>
  BY HeadPair
<1>1. parent' = United(parent, a, b) /\ Forest(parent) /\ DOMAIN parent = IdsOf(input)
  BY DEF Unite, IInv, Shape
<1>2. /\ DOMAIN parent' = DOMAIN parent
      /\ Forest(parent')
      /\ \E m \in {Root(parent, a), Root(parent, b)} : \A j \in DOMAIN parent :
           Root(parent', j) = IF Root(parent, j) \in {Root(parent, a), Root(parent, b)} THEN m
                              ELSE Root(parent, j)
  <2>1. LET u == United(parent, a, b)
        IN  /\ DOMAIN u = DOMAIN parent
            /\ Forest(u)
            /\ \E m \in {Root(parent, a), Root(parent, b)} : \A j \in DOMAIN parent :
                 Root(u, j) = IF Root(parent, j) \in {Root(parent, a), Root(parent, b)} THEN m
                              ELSE Root(parent, j)
    BY <1>1, UnitedRoots
  <2>2. QED BY <1>1, <2>1
<1>3. PICK m \in {Root(parent, a), Root(parent, b)} : \A j \in DOMAIN parent :
        Root(parent', j) = IF Root(parent, j) \in {Root(parent, a), Root(parent, b)} THEN m
                           ELSE Root(parent, j)
  BY <1>2
<1>4. Shape'
  BY <1>1, <1>2, HeadPair DEF IInv, Shape
<1>5. Completed'
  <2> SUFFICES ASSUME NEW p \in Links(input)
               PROVE  Waiting(p)' \/ Root(parent', p[1]) = Root(parent', p[2])
    BY HeadPair DEF Completed
  <2>1. p[1] \in DOMAIN parent /\ p[2] \in DOMAIN parent
    BY <1>1, DecidedAre DEF Links, IInv, Shape
  <2>2. CASE p = Head(todo)
    BY <1>3, <2>2
  <2>3. CASE p # Head(todo) /\ Waiting(p)
    BY <2>3, HeadPair
  <2>4. CASE Root(parent, p[1]) = Root(parent, p[2])
    BY <1>3, <2>1, <2>4
  <2>5. QED BY <2>2, <2>3, <2>4 DEF IInv, Completed
<1>6. Justified'
  <2> SUFFICES ASSUME NEW S \in SUBSET IdsOf(input), Apart(input, S), NEW j \in IdsOf(input)
               PROVE  j \in S <=> Root(parent', j) \in S
    BY HeadPair DEF Justified
  <2>1. \A i \in IdsOf(input) : i \in S <=> Root(parent, i) \in S
    BY DEF IInv, Justified
  <2>2. a \in S <=> b \in S
    BY HeadPair DEF Apart
  <2>3. QED BY <1>1, <1>3, <2>1, <2>2
<1>7. Bounded'
  <2>1. ~Idle
    BY DEF Unite, Idle
  <2>2. QED BY <2>1, HeadPair DEF IInv, Bounded
<1>8. \A r \in results' : RightResult(r)
  BY HeadPair DEF IInv
<1>9. QED BY <1>4, <1>5, <1>6, <1>7, <1>8 DEF IInv

(***************************************************************************)
(* When nothing waits, the classes are the components.                     *)
(***************************************************************************)
LEMMA ReturnedIsRight ==
  ASSUME IInv, todo = <<>>
  PROVE  RightResult(Returned)
<1>1. /\ Returned.input = input /\ Returned.clusters = Groups(parent) /\ Returned.review = queue
      /\ Fed(input) /\ queue = Decided(input, "review") /\ DOMAIN parent = IdsOf(input)
  BY DEF Returned, IInv, Shape
<1>2. \A p \in Links(input) : Root(parent, p[1]) = Root(parent, p[2])
  BY DEF IInv, Completed, Waiting
<1>3. UNION Groups(parent) = IdsOf(input) /\ {} \notin Groups(parent)
  <2>1. \A i \in IdsOf(input) : i \in ClassOf(parent, i) /\ ClassOf(parent, i) \in Groups(parent)
    BY <1>1, GroupsAreClasses DEF ClassOf
  <2>2. \A c \in Groups(parent) : c \subseteq IdsOf(input) /\ c # {}
    BY <1>1, GroupsAreClasses DEF ClassOf
  <2>3. IdsOf(input) \subseteq UNION Groups(parent) /\ UNION Groups(parent) \subseteq IdsOf(input)
    BY <2>1, <2>2
  <2>4. QED BY <2>2, <2>3
<1>4. ASSUME NEW c \in Groups(parent), NEW x \in c, NEW y \in IdsOf(input), Same(input, x, y)
      PROVE  y \in c
  <2>1. PICK i \in DOMAIN parent : c = ClassOf(parent, i)
    BY GroupsAreClasses
  <2>2. x \in IdsOf(input)
    BY <1>1, <2>1 DEF ClassOf
  <2>3. CASE x = y
    BY <2>3
  <2>4. CASE x # y
    <3>1. <<x, y>> \in Links(input) \/ <<y, x>> \in Links(input)
      BY <1>1, <1>4, <2>2, <2>4, SameIsDecided
    <3>2. Root(parent, x) = Root(parent, y)
      BY <1>2, <3>1
    <3>3. QED BY <1>1, <2>1, <3>2 DEF ClassOf
  <2>5. QED BY <2>3, <2>4
<1>5. ASSUME NEW c \in Groups(parent), NEW S \in SUBSET c, S # {}, S # c,
             \A x \in S, y \in c \ S : ~Same(input, x, y)
      PROVE  FALSE
  <2>1. PICK i \in DOMAIN parent : c = ClassOf(parent, i)
    BY GroupsAreClasses
  <2>2. c \subseteq IdsOf(input) /\ S \in SUBSET IdsOf(input)
    BY <1>1, <2>1 DEF ClassOf
  <2>3. \A x, y \in c : Root(parent, x) = Root(parent, y)
    BY <2>1 DEF ClassOf
  <2>4. ASSUME NEW p \in Links(input) PROVE p[1] \in S <=> p[2] \in S
    <3>1. p[1] \in IdsOf(input) /\ p[2] \in IdsOf(input) /\ p = <<p[1], p[2]>>
      BY <1>1, DecidedAre DEF Links
    <3>2. p[1] \in c <=> p[2] \in c
      BY <1>1, <1>2, <2>1, <3>1 DEF ClassOf
    <3>3. p[1] # p[2] => Same(input, p[1], p[2]) /\ Same(input, p[2], p[1])
      BY <1>1, <3>1, SameIsDecided
    <3>4. QED BY <1>5, <3>2, <3>3
  <2>5. \A j \in IdsOf(input) : j \in S <=> Root(parent, j) \in S
    BY <2>2, <2>4 DEF IInv, Justified, Apart
  <2>6. PICK x \in S, y \in c : y \notin S
    BY <1>5
  <2>7. QED BY <2>2, <2>3, <2>5, <2>6
<1>6. \A c \in Groups(parent) : Separate(input, c) /\ Connected(input, c)
  BY <1>4, <1>5 DEF Separate, Connected
<1>7. QED BY <1>1, <1>3, <1>6 DEF RightResult

LEMMA InvReturn ==
  ASSUME IInv, Return
  PROVE  IInv'
<1>1. /\ todo = <<>> /\ ~Idle /\ results' = results \cup {Returned}
      /\ input' = input /\ todo' = todo /\ queue' = queue /\ parent' = parent
  BY DEF Return
<1>2. Shape' /\ Completed' /\ Justified'
  BY <1>1 DEF IInv, Shape, Completed, Waiting, Justified
<1>3. \A r \in results' : RightResult(r)
  BY <1>1, ReturnedIsRight DEF IInv
<1>4. Bounded'
  <2>1. IsFiniteSet(results) /\ Cardinality(results) < MaxRuns /\ Cardinality(results) \in Nat
    BY <1>1, FS_CardinalityType DEF IInv, Bounded
  <2>2. IsFiniteSet(results') /\ Cardinality(results') <= MaxRuns
    <3>1. /\ IsFiniteSet(results \cup {Returned})
          /\ Cardinality(results \cup {Returned})
               = IF Returned \in results THEN Cardinality(results) ELSE Cardinality(results) + 1
      BY <2>1, FS_AddElement
    <3>2. Cardinality(results') \in {Cardinality(results), Cardinality(results) + 1}
      BY <1>1, <3>1
    <3>3. Cardinality(results') <= MaxRuns
      BY <2>1, <3>2, MaxRunsAssumption
    <3>4. QED BY <1>1, <3>1, <3>3
  <2>3. Idle'
    BY <1>1 DEF Idle, Returned
  <2>4. QED BY <2>2, <2>3 DEF Bounded
<1>5. QED BY <1>2, <1>3, <1>4 DEF IInv

LEMMA InvStep == IInv /\ [Next]_vars => IInv'
<1> SUFFICES ASSUME IInv, [Next]_vars PROVE IInv'
  OBVIOUS
<1>1. ASSUME NEW in \in Inputs, Run(in) PROVE IInv'
  BY <1>1, InvRun
<1>2. CASE Unite
  BY <1>2, InvUnite
<1>3. CASE Return
  BY <1>3, InvReturn
<1>4. CASE UNCHANGED vars
  <2>1. Shape' /\ Completed' /\ Justified' /\ Bounded' /\ results' = results
    BY <1>4 DEF vars, IInv, Shape, Completed, Waiting, Justified, Bounded, Idle, Returned
  <2>2. QED BY <2>1 DEF IInv
<1>5. QED BY <1>1, <1>2, <1>3, <1>4 DEF Next

LEMMA AlwaysIInv == Spec => []IInv
  BY InvInit, InvStep, PTL DEF Spec

-------------------------------------------------------------------------------
(***************************************************************************)
(* A run is well typed, and find always comes to an end.                   *)
(***************************************************************************)
THEOREM DedupeTyped == Spec => []TypeOK
<1>1. IInv => TypeOK
  <2> SUFFICES ASSUME IInv PROVE TypeOK
    OBVIOUS
  <2>1. \A k \in DOMAIN todo : \A side \in 1..2 : todo[k][side] \in DOMAIN parent
    <3> SUFFICES ASSUME NEW k \in DOMAIN todo, NEW side \in 1..2
                 PROVE  todo[k][side] \in DOMAIN parent
      OBVIOUS
    <3>1. todo[k] \in Links(input)
      BY DEF IInv, Shape
    <3>2. todo[k] \in IdsOf(input) \X IdsOf(input)
      BY <3>1, DecidedAre DEF Links, IInv, Shape
    <3>3. QED BY <3>2 DEF IInv, Shape
  <2>2. QED BY <2>1 DEF TypeOK, IInv, Shape, Forest, Bounded
<1>2. QED BY <1>1, AlwaysIInv, PTL

(***************************************************************************)
(* Clusters are exactly the components of the auto_merge pairs, whatever   *)
(* the listings, their order and that of the decisions.                    *)
(***************************************************************************)
THEOREM ClusteringIsRight == Spec => []ClustersAreComponents
<1>1. IInv => ClustersAreComponents
  BY DEF IInv, RightResult, ClustersAreComponents
<1>2. QED BY <1>1, AlwaysIInv, PTL

(***************************************************************************)
(* Two listings of one address are merged, or queued, or below the bands.  *)
(***************************************************************************)
THEOREM NoPairUndecided == Spec => []EveryPairDecided
<1>1. IInv => EveryPairDecided
  <2> SUFFICES ASSUME IInv, NEW r \in results, NEW a \in IdsOf(r.input), NEW b \in IdsOf(r.input),
                      a < b, Neighbours(r.input, a, b)
               PROVE  LET score == PairScore(r.input, <<a, b>>)
                      IN /\ \/ \E c \in r.clusters : {a, b} \subseteq c
                            \/ <<a, b>> \in r.review
                            \/ ~AtLeast(score, Review)
                         /\ <<a, b>> \in r.review => AtLeast(score, Review) /\ ~AtLeast(score, AutoMerge)
    BY DEF EveryPairDecided
  <2> DEFINE score == PairScore(r.input, <<a, b>>)
  <2>1. RightResult(r)
    BY DEF IInv
  <2>2. <<a, b>> \in CandidatePairs(r.input)
    BY <2>1, CandidatesAre DEF RightResult
  <2>3. <<a, b>> \in r.review <=> BandForScore(score) = "review"
    BY <2>1, <2>2 DEF RightResult, Decided
  <2>4. ASSUME AtLeast(score, AutoMerge) PROVE \E c \in r.clusters : {a, b} \subseteq c
    <3>1. Same(r.input, a, b)
      BY <2>4 DEF Same
    <3>2. PICK c \in r.clusters : a \in c
      BY <2>1 DEF RightResult
    <3>3. b \in c
      BY <2>1, <3>1, <3>2 DEF RightResult, Separate
    <3>4. QED BY <3>2, <3>3
  <2>5. QED BY <2>3, <2>4 DEF BandForScore
<1>2. QED BY <1>1, AlwaysIInv, PTL

-------------------------------------------------------------------------------
(***************************************************************************)
(* More observations: the pairs of a run stay pairs.                       *)
(***************************************************************************)
LEMMA GreatestExists ==
  ASSUME NEW n \in Nat, NEW S, S \subseteq 1..n, S # {}
  PROVE  \E k \in S : \A j \in S : j <= k
<1> DEFINE T == {m \in 0..n : n - m \in S}
<1>1. T \subseteq Nat /\ T # {}
  <2>1. PICK k \in S : k \in 1..n
    OBVIOUS
  <2>2. n - k \in 0..n /\ n - (n - k) = k
    BY <2>1
  <2>3. n - k \in T
    BY <2>1, <2>2
  <2>4. T \subseteq Nat
    OBVIOUS
  <2>5. T # {}
    <3> HIDE DEF T
    <3>1. QED BY <2>3
  <2>6. QED BY <2>4, <2>5
<1>2. PICK m \in T : \A q \in T : m <= q
  <2> HIDE DEF T
  <2>1. QED BY <1>1, LeastExists
<1>3. n - m \in S /\ m \in 0..n
  OBVIOUS
<1>4. ASSUME NEW j \in S PROVE j <= n - m
  <2>1. j \in 1..n
    OBVIOUS
  <2>2. n - j \in 0..n /\ n - (n - j) = j
    BY <2>1
  <2>3. n - j \in T
    BY <2>2
  <2>4. m <= n - j
    BY <1>2, <2>3
  <2>5. QED BY <1>3, <2>1, <2>4
<1>5. QED BY <1>3, <1>4

LEMMA LatestIs ==
  ASSUME NEW in, Fed(in), NEW i \in IdsOf(in)
  PROVE  \E k \in DOMAIN in : /\ in[k].id = i
                              /\ \A j \in DOMAIN in : in[j].id = i => j <= k
                              /\ Latest(in, i) = in[k]
<1> DEFINE S == {k \in DOMAIN in : in[k].id = i}
<1>1. S # {} /\ S \subseteq 1..Len(in) /\ Len(in) \in Nat
  BY FedShape DEF IdsOf
<1>2. PICK k \in S : \A j \in S : j <= k
  <2> HIDE DEF S
  <2>1. QED BY <1>1, GreatestExists
<1>3. \A m \in DOMAIN in :
        (in[m].id = i /\ \A j \in DOMAIN in : in[j].id = i => j <= m) => m = k
  <2> SUFFICES ASSUME NEW m \in DOMAIN in, in[m].id = i,
                      \A j \in DOMAIN in : in[j].id = i => j <= m
               PROVE  m = k
    OBVIOUS
  <2>1. m <= k /\ k <= m
    BY <1>2
  <2>2. m \in Int /\ k \in Int
    BY FedShape
  <2>3. QED BY <2>1, <2>2
<1>4. k \in DOMAIN in /\ in[k].id = i /\ \A j \in DOMAIN in : in[j].id = i => j <= k
  BY <1>2
<1>5. (CHOOSE m \in DOMAIN in : in[m].id = i /\ \A j \in DOMAIN in : in[j].id = i => j <= m) = k
  BY <1>3, <1>4
<1>6. QED BY <1>4, <1>5 DEF Latest

LEMMA SameGrows ==
  ASSUME NEW in, NEW more, Fed(in), Fed(more), Extends(more, in),
         NEW a \in IdsOf(in), NEW b \in IdsOf(in), Same(in, a, b)
  PROVE  Same(more, a, b) /\ b \in IdsOf(more)
<1> DEFINE kept == {k \in DOMAIN more : more[k].id \in IdsOf(in)}
<1>1. PICK at \in [DOMAIN in -> kept] :
        /\ \A k \in kept : \E j \in DOMAIN in : at[j] = k
        /\ \A j, k \in DOMAIN in : j < k => at[j] < at[k]
        /\ \A k \in DOMAIN in : in[k] = more[at[k]]
  BY DEF Extends
<1>2. \A k \in DOMAIN in : at[k] \in DOMAIN more /\ at[k] \in Nat /\ k \in Nat
  BY <1>1, FedShape
<1>3. ASSUME NEW i \in IdsOf(in) PROVE i \in IdsOf(more) /\ Latest(more, i) = Latest(in, i)
  <2>1. PICK k \in DOMAIN in : /\ in[k].id = i
                               /\ \A j \in DOMAIN in : in[j].id = i => j <= k
                               /\ Latest(in, i) = in[k]
    BY LatestIs
  <2>2. more[at[k]].id = i /\ i \in IdsOf(more)
    BY <1>1, <1>2, <2>1 DEF IdsOf
  <2>3. PICK l \in DOMAIN more : /\ more[l].id = i
                                 /\ \A j \in DOMAIN more : more[j].id = i => j <= l
                                 /\ Latest(more, i) = more[l]
    BY <2>2, LatestIs
  <2>4. PICK j \in DOMAIN in : at[j] = l
    BY <1>1, <2>3
  <2>5. j <= k
    BY <1>1, <2>1, <2>3, <2>4
  <2>6. at[k] <= at[j]
    BY <1>2, <2>2, <2>3, <2>4
  <2>7. j = k
    <3>1. CASE j < k
      <4>1. at[j] < at[k]
        BY <1>1, <3>1
      <4>2. QED BY <1>2, <2>6, <4>1
    <3>2. QED BY <1>2, <2>5, <3>1
  <2>8. QED BY <1>1, <2>1, <2>2, <2>3, <2>4, <2>7
<1>4. \A p : p[1] \in IdsOf(in) /\ p[2] \in IdsOf(in) => PairScore(more, p) = PairScore(in, p)
  BY <1>3 DEF PairScore
<1>5. Neighbours(in, a, b) => Neighbours(more, a, b)
  BY <1>1, <1>2 DEF Neighbours
<1>6. AtLeast(PairScore(more, IF a < b THEN <<a, b>> ELSE <<b, a>>), AutoMerge)
  BY <1>4 DEF Same
<1>7. QED BY <1>3, <1>5, <1>6 DEF Same

(***************************************************************************)
(* More observations never take a cluster apart.                           *)
(***************************************************************************)
THEOREM ClustersNeverSplit == Spec => []ClustersOnlyGrow
<1>1. IInv => ClustersOnlyGrow
  <2> SUFFICES ASSUME IInv, NEW r \in results, NEW s \in results, Extends(s.input, r.input),
                      NEW c \in r.clusters
               PROVE  \E d \in s.clusters : c \subseteq d
    BY DEF ClustersOnlyGrow
  <2>1. RightResult(r) /\ RightResult(s)
    BY DEF IInv
  <2>2. c # {} /\ c \subseteq IdsOf(r.input) /\ Connected(r.input, c)
    BY <2>1 DEF RightResult
  <2>3. \A i, j \in IdsOf(r.input) : Same(r.input, i, j) =>
          Same(s.input, i, j) /\ j \in IdsOf(s.input)
    BY <2>1, SameGrows DEF RightResult
  <2>4. IdsOf(r.input) \subseteq IdsOf(s.input)
    BY DEF Extends, IdsOf
  <2>5. PICK i \in c : i \in IdsOf(s.input)
    BY <2>2, <2>4
  <2>6. PICK d \in s.clusters : i \in d
    BY <2>1, <2>5 DEF RightResult
  <2>7. ASSUME c \cap d # c PROVE FALSE
    <3>1. PICK x \in c \cap d, y \in c \ (c \cap d) : Same(r.input, x, y)
      BY <2>2, <2>5, <2>6, <2>7 DEF Connected
    <3>2. Same(s.input, x, y) /\ y \in IdsOf(s.input)
      BY <2>2, <2>3, <3>1
    <3>3. y \in d
      BY <2>1, <2>6, <3>1, <3>2 DEF RightResult, Separate
    <3>4. QED BY <3>1, <3>3
  <2>8. QED BY <2>6, <2>7
<1>2. QED BY <1>1, AlwaysIInv, PTL

(***************************************************************************)
(* Union-find implements ListingPartition: a run sets its listings apart,  *)
(* and each round joins the blocks of one pair that has not been looked at.*)
(***************************************************************************)
THEOREM PartitionImplemented == Spec => MergesAsSpecified
<1> DEFINE blocks == Groups(parent)
           links == {todo[k] : k \in DOMAIN todo}
<1>1. Init => Partition!PInit
  BY DEF Init, Partition!PInit, Groups
<1>2. ASSUME IInv, [Next]_vars PROVE [Partition!PNext]_(Partition!pvars)
  <2>1. ASSUME NEW in \in Inputs, Run(in) PROVE Partition!Apart
    <3>1. IInv' /\ todo = <<>> /\ input' = in
      BY <1>2, <2>1, InvRun DEF Run, Idle
    <3>2. links = {}
      BY <3>1
    <3>3. IdsOf(in) \in SUBSET AllIds
      BY DEF AllIds
    <3>4. links' \subseteq IdsOf(in) \X IdsOf(in)
      <4>1. Fed(in) /\ todo' \in Seq(Links(in))
        BY <3>1 DEF IInv, Shape
      <4>2. Links(in) \subseteq IdsOf(in) \X IdsOf(in)
        BY <4>1, DecidedAre DEF Links
      <4>3. QED BY <4>1, <4>2
    <3>5. Groups(parent') = {{i} : i \in IdsOf(in)}
      <4>1. parent' = [i \in IdsOf(in) |-> i] /\ Forest(parent')
        BY <2>1, <3>1 DEF Run, IInv, Shape
      <4>2. DOMAIN parent' = IdsOf(in) /\ \A i \in IdsOf(in) : Root(parent', i) = i
        BY <4>1, RootStep
      <4>3. \A i \in IdsOf(in) : ClassOf(parent', i) = {i}
        BY <4>2 DEF ClassOf
      <4>4. QED BY <4>2, <4>3, GroupsAreClasses
    <3>6. QED BY <3>2, <3>3, <3>4, <3>5 DEF Partition!Apart
  <2>2. ASSUME Unite PROVE \E pair \in links : Partition!Join(pair[1], pair[2])
    <3>1. PICK a \in DOMAIN parent, b \in DOMAIN parent : Head(todo) = <<a, b>>
      BY <1>2, <2>2, HeadPair
    <3>2. /\ \A p : p \in links <=> Waiting(p)
          /\ \A p : p \in links' <=> Waiting(p)'
      BY DEF Waiting
    <3>3. links' = links \ {<<a, b>>} /\ <<a, b>> \in links
      <4>1. \A p : p \in links' <=> p \in links /\ p # <<a, b>>
        BY <1>2, <2>2, <3>1, <3>2, HeadPair
      <4>2. <<a, b>> \in links
        BY <1>2, <2>2, <3>1, <3>2, HeadPair
      <4> HIDE DEF links
      <4>3. QED BY <4>1, <4>2
    <3>4. Forest(parent) /\ parent' = United(parent, a, b)
      BY <1>2, <2>2, <3>1 DEF Unite, IInv, Shape
    <3>5. ASSUME NEW i \in DOMAIN parent PROVE Partition!BlockOf(i) = ClassOf(parent, i)
      <4>1. ClassOf(parent, i) \in Groups(parent)
        BY GroupsAreClasses
      <4>2. \A c \in Groups(parent) : i \in c <=> c = ClassOf(parent, i)
        BY ClassesMeet
      <4>3. QED BY <4>1, <4>2 DEF Partition!BlockOf
    <3>6. Groups(parent') = (Groups(parent) \ {Partition!BlockOf(a), Partition!BlockOf(b)})
                              \cup {Partition!BlockOf(a) \cup Partition!BlockOf(b)}
      BY <3>4, <3>5, UnitedClasses
    <3>7. Partition!Join(a, b)
      BY <3>3, <3>6 DEF Partition!Join
    <3>8. <<a, b>>[1] = a /\ <<a, b>>[2] = b
      OBVIOUS
    <3> HIDE DEF links
    <3>9. QED BY <3>3, <3>7, <3>8
  <2>3. CASE Return \/ UNCHANGED vars
    BY <2>3 DEF Return, vars, Partition!pvars
  <2>4. QED BY <1>2, <2>1, <2>2, <2>3 DEF Next, Partition!PNext
<1>3. QED BY <1>1, <1>2, AlwaysIInv, PTL DEF Spec, MergesAsSpecified, Partition!PartitionSpec
===============================================================================

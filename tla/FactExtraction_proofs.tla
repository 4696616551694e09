--------------------------- MODULE FactExtraction_proofs ---------------------------
(***************************************************************************)
(* For any pages, outputs and number of extractions: the fact store never  *)
(* refuses what extraction gives it, every fact of every result rests on   *)
(* evidence that resolves in its snapshot, no candidate is dropped in      *)
(* silence, one id stands for the same facts, and an output that did not   *)
(* pass leaves none.                                                       *)
(***************************************************************************)
EXTENDS FactExtraction, SequenceTheorems, FiniteSetTheorems, WellFoundedInduction, TLAPS

\* The results are a sequence, of whatever they hold.
ResultsListed == \E R : results \in Seq(R)

-------------------------------------------------------------------------------
(***************************************************************************)
(* Lists, and what FlattenSeq makes of them.                               *)
(***************************************************************************)
LEMMA LeastExists ==
  ASSUME NEW S, S \subseteq Nat, S # {}
  PROVE  \E n \in S : \A m \in S : n <= m
<1>1. PICK n \in S : \A m \in S : <<m, n>> \notin OpToRel(<, Nat)
  BY WFMin, NatLessThanWellFounded, Zenon
<1>2. ASSUME NEW m \in S PROVE ~(m < n)
  BY <1>1, Zenon DEF OpToRel
<1>3. QED BY <1>2

LEMMA ListIsSeq ==
  ASSUME NEW s, IsList(s)
  PROVE  s \in Seq(Range(s)) /\ DOMAIN s = 1..Len(s) /\ Len(s) \in Nat
<1>1. Len(s) \in Nat /\ s = [k \in 1..Len(s) |-> s[k]]
  BY DEF IsList
<1>2. DOMAIN s = 1..Len(s)
  BY <1>1
<1>3. \A k \in 1..Len(s) : s[k] \in Range(s)
  BY <1>2 DEF Range
<1>4. QED BY <1>1, <1>2, <1>3

LEMMA SeqIsList ==
  ASSUME NEW S, NEW s \in Seq(S)
  PROVE  IsList(s)
  BY DEF IsList

LEMMA ShortLists ==
  /\ IsList(<<>>) /\ Range(<<>>) = {}
  /\ \A x : IsList(<<x>>) /\ Range(<<x>>) = {x}
<1>1. IsList(<<>>) /\ Range(<<>>) = {}
  BY DEF IsList, Range
<1>2. ASSUME NEW x PROVE IsList(<<x>>) /\ Range(<<x>>) = {x}
  BY DEF IsList, Range
<1>3. QED BY <1>1, <1>2

LEMMA Joined ==
  ASSUME NEW s, NEW t, IsList(s), IsList(t)
  PROVE  IsList(s \o t) /\ Range(s \o t) = Range(s) \cup Range(t)
<1> DEFINE S == Range(s) \cup Range(t)
<1>1. s \in Seq(S) /\ t \in Seq(S)
  BY ListIsSeq
<1>2. s \o t \in Seq(S) /\ Len(s \o t) = Len(s) + Len(t) /\ Len(s) \in Nat /\ Len(t) \in Nat
  BY <1>1
<1>3. DOMAIN (s \o t) = 1..(Len(s) + Len(t)) /\ DOMAIN s = 1..Len(s) /\ DOMAIN t = 1..Len(t)
  BY <1>1, <1>2
<1>4. \A k \in DOMAIN s : k \in DOMAIN (s \o t) /\ (s \o t)[k] = s[k]
  BY <1>1, <1>2, <1>3
<1>5. ASSUME NEW k \in DOMAIN t
      PROVE  Len(s) + k \in DOMAIN (s \o t) /\ (s \o t)[Len(s) + k] = t[k]
  BY <1>1, <1>2, <1>3
<1>6. \A k \in DOMAIN (s \o t) : (s \o t)[k] \in S
  BY <1>2
<1>7. Range(s \o t) = S
  <2>1. ASSUME NEW x \in S PROVE x \in Range(s \o t)
    <3>1. CASE x \in Range(s)
      BY <1>4, <3>1 DEF Range
    <3>2. CASE x \in Range(t)
      BY <1>5, <3>2 DEF Range
    <3>3. QED BY <3>1, <3>2
  <2>2. Range(s \o t) \subseteq S
    BY <1>6 DEF Range
  <2>3. QED BY <2>1, <2>2
<1>8. QED BY <1>2, <1>7, SeqIsList

\* What FlattenSeq joins is there, piece by piece.
LEMMA Flattened ==
  ASSUME NEW seqs, IsList(seqs), \A i \in DOMAIN seqs : IsList(seqs[i])
  PROVE  /\ IsList(FlattenSeq(seqs))
         /\ Range(FlattenSeq(seqs)) = UNION {Range(seqs[i]) : i \in DOMAIN seqs}
<1> DEFINE n == Len(seqs)
           Step(f, i) == IF i = 1 THEN seqs[i] ELSE f[i - 1] \o seqs[i]
           Upto(m) == \E f : f = [i \in 1..m |-> Step(f, i)]
           flatten == CHOOSE f : f = [i \in 1..n |-> Step(f, i)]
           Right(i) == /\ IsList(flatten[i])
                       /\ Range(flatten[i]) = UNION {Range(seqs[j]) : j \in 1..i}
<1>1. n \in Nat /\ DOMAIN seqs = 1..n
  BY ListIsSeq
<1>2. CASE n = 0
  <2>1. FlattenSeq(seqs) = seqs
    BY <1>2 DEF FlattenSeq
  <2>2. DOMAIN seqs = {}
    BY <1>1, <1>2
  <2>3. QED BY <2>1, <2>2 DEF Range
<1>3. CASE n # 0
  <2>1. FlattenSeq(seqs) = flatten[n]
    BY <1>3 DEF FlattenSeq
  <2>2. \A m \in Nat : Upto(m)
    <3> DEFINE Bad == {m \in Nat : ~Upto(m)}
    <3>1. SUFFICES ASSUME Bad # {} PROVE FALSE
      OBVIOUS
    <3>2. PICK m \in Bad : \A k \in Bad : m <= k
      <4> HIDE DEF Upto
      <4>1. Bad \subseteq Nat
        OBVIOUS
      <4> HIDE DEF Bad
      <4>2. QED BY <3>1, <4>1, LeastExists
    <3>3. m # 0
      <4>1. \E f : f = [i \in 1..0 |-> Step(f, i)]
        <5>1. \A f : [i \in 1..0 |-> Step(f, i)] = <<>>
          OBVIOUS
        <5>2. QED BY <5>1
      <4>2. QED BY <4>1
    <3>4. m - 1 \in Nat /\ Upto(m - 1)
      <4>1. m \in Nat /\ m - 1 \in Nat /\ m - 1 < m
        BY <3>3
      <4>2. m - 1 \notin Bad
        <5> HIDE DEF Bad
        <5>1. QED BY <4>1, <3>2
      <4>3. QED BY <4>1, <4>2
    <3>5. PICK f : f = [i \in 1..(m - 1) |-> Step(f, i)]
      BY <3>4
    <3> DEFINE g == [i \in 1..m |-> Step(f, i)]
    <3>6. ASSUME NEW i \in 1..m PROVE Step(f, i) = Step(g, i)
      <4>1. CASE i = 1
        BY <4>1
      <4>2. CASE i # 1
        <5>1. i - 1 \in 1..(m - 1) /\ i - 1 \in 1..m
          BY <4>2, <3>4
        <5>2. f[i - 1] = Step(f, i - 1)
          <6> HIDE DEF Step
          <6>1. QED BY <3>5, <5>1
        <5>3. g[i - 1] = Step(f, i - 1)
          BY <5>1
        <5>4. QED BY <4>2, <5>2, <5>3
      <4>3. QED BY <4>1, <4>2
    <3>7. g = [i \in 1..m |-> Step(g, i)]
      <4> HIDE DEF Step
      <4>1. QED BY <3>6
    <3>8. Upto(m)
      <4> HIDE DEF g
      <4>1. QED BY <3>7
    <3>9. QED BY <3>8
  <2>3. flatten = [i \in 1..n |-> Step(flatten, i)]
    <3>1. Upto(n)
      BY <1>1, <2>2
    <3> HIDE DEF Step
    <3>2. QED BY <3>1
  <2>4. ASSUME NEW i \in 1..n PROVE flatten[i] = Step(flatten, i)
    <3> HIDE DEF Step, flatten
    <3>1. QED BY <2>3
  <2> HIDE DEF flatten
  <2>5. \A i \in 1..n : Right(i)
    <3> DEFINE Bad == {i \in 1..n : ~Right(i)}
    <3>1. SUFFICES ASSUME Bad # {} PROVE FALSE
      OBVIOUS
    <3>2. PICK i \in Bad : \A k \in Bad : i <= k
      <4> HIDE DEF Right
      <4>1. Bad \subseteq Nat
        BY <1>1
      <4> HIDE DEF Bad
      <4>2. QED BY <3>1, <4>1, LeastExists
    <3>3. i \in 1..n /\ IsList(seqs[i])
      BY <1>1
    <3>4. CASE i = 1
      <4>1. flatten[1] = seqs[1]
        BY <2>4, <3>3, <3>4
      <4>2. 1..1 = {1}
        OBVIOUS
      <4>3. UNION {Range(seqs[j]) : j \in 1..1} = Range(seqs[1])
        BY <4>2
      <4>4. QED BY <3>3, <3>4, <4>1, <4>3
    <3>5. CASE i # 1
      <4>1. i - 1 \in 1..n /\ i - 1 < i
        BY <1>1, <3>3, <3>5
      <4>2. Right(i - 1)
        <5> HIDE DEF Right
        <5>1. i - 1 \notin Bad
          BY <3>2, <4>1
        <5>2. QED BY <4>1, <5>1
      <4>3. flatten[i] = flatten[i - 1] \o seqs[i]
        BY <2>4, <3>3, <3>5
      <4>4. IsList(flatten[i]) /\ Range(flatten[i]) = Range(flatten[i - 1]) \cup Range(seqs[i])
        BY <3>3, <4>2, <4>3, Joined
      <4>5. 1..i = (1..(i - 1)) \cup {i}
        BY <3>3, <3>5
      <4>6. UNION {Range(seqs[j]) : j \in 1..i}
              = (UNION {Range(seqs[j]) : j \in 1..(i - 1)}) \cup Range(seqs[i])
        <5>1. QED BY <4>5
      <4>7. QED BY <4>2, <4>4, <4>6
    <3>6. QED BY <3>4, <3>5
  <2>6. n \in 1..n
    BY <1>1, <1>3
  <2>7. QED BY <1>1, <2>1, <2>5, <2>6
<1>4. QED BY <1>2, <1>3



LEMMA FunctionIsList ==
  ASSUME NEW n \in Nat, NEW s, s = [k \in 1..n |-> s[k]]
  PROVE  IsList(s) /\ DOMAIN s = 1..n /\ Len(s) = n
<1> DEFINE S == {s[k] : k \in 1..n}
<1>1. DOMAIN s = 1..n /\ \A k \in 1..n : s[k] \in S
  OBVIOUS
<1> HIDE DEF S
<1>2. s \in [1..n -> S]
  BY <1>1
<1>3. s \in Seq(S) /\ Len(s) = n
  BY <1>1, <1>2
<1>4. QED BY <1>1, <1>3, SeqIsList

-------------------------------------------------------------------------------
(***************************************************************************)
(* Sorting and deduplication lose no candidate.                            *)
(***************************************************************************)
\* Under a total order every place is taken by one element.
PlacesUnder(R, n) == [i \in 1..n |-> Cardinality({j \in 1..n : <<j, i>> \in R})]

LEMMA PlacesAreTaken ==
  ASSUME NEW n \in Nat, NEW R,
         \A i \in 1..n : <<i, i>> \in R,
         \A i, j \in 1..n : <<i, j>> \in R \/ <<j, i>> \in R,
         \A i, j \in 1..n : <<i, j>> \in R /\ <<j, i>> \in R => i = j,
         \A i, j, k \in 1..n : <<i, j>> \in R /\ <<j, k>> \in R => <<i, k>> \in R
  PROVE  LET place == PlacesUnder(R, n)
         IN  /\ \A i \in 1..n : place[i] \in 1..n
             /\ \A i, j \in 1..n : place[i] = place[j] => i = j
             /\ \A k \in 1..n : \E i \in 1..n : place[i] = k
<1> DEFINE Upto(i) == {j \in 1..n : <<j, i>> \in R}
           place == PlacesUnder(R, n)
<1>1. IsFiniteSet(1..n) /\ Cardinality(1..n) = n
  BY FS_Interval
<1>2. \A i \in 1..n : Upto(i) \subseteq 1..n /\ i \in Upto(i) /\ place[i] = Cardinality(Upto(i))
  BY DEF PlacesUnder
<1>0. place = [i \in 1..n |-> place[i]]
  BY DEF PlacesUnder
<1>3. \A i, j \in 1..n : <<i, j>> \in R => Upto(i) \subseteq Upto(j)
  OBVIOUS
<1>4. \A i, j \in 1..n : Upto(i) = Upto(j) => i = j
  OBVIOUS
<1> HIDE DEF Upto, place
<1>5. ASSUME NEW i \in 1..n
      PROVE  /\ IsFiniteSet(Upto(i)) /\ Cardinality(Upto(i)) \in Nat
             /\ Cardinality(Upto(i)) <= n /\ Cardinality(Upto(i)) # 0
  <2>0. Upto(i) \subseteq 1..n /\ Upto(i) # {}
    BY <1>2
  <2>1. IsFiniteSet(Upto(i)) /\ Cardinality(Upto(i)) <= Cardinality(1..n)
    BY <1>1, <2>0, FS_Subset
  <2>2. Cardinality(Upto(i)) \in Nat
    BY <2>1, FS_CardinalityType
  <2>3. Cardinality(Upto(i)) # 0
    BY <2>0, <2>1, FS_EmptySet
  <2>4. QED BY <1>1, <2>1, <2>2, <2>3
<1>6. ASSUME NEW i \in 1..n PROVE place[i] \in 1..n
  <2>1. place[i] = Cardinality(Upto(i))
    BY <1>2
  <2>2. Cardinality(Upto(i)) \in Nat /\ Cardinality(Upto(i)) <= n /\ Cardinality(Upto(i)) # 0
    BY <1>5
  <2>3. QED BY <2>1, <2>2
<1>7. ASSUME NEW i \in 1..n, NEW j \in 1..n, place[i] = place[j], <<i, j>> \in R PROVE i = j
  <2>1. Upto(i) \subseteq Upto(j) /\ Cardinality(Upto(i)) = Cardinality(Upto(j))
    BY <1>2, <1>3, <1>7
  <2>2. Upto(i) = Upto(j)
    BY <1>5, <2>1, FS_Subset
  <2>3. QED BY <1>4, <2>2
<1>8. \A i, j \in 1..n : place[i] = place[j] => i = j
  BY <1>7
<1>9. place \in Injection(1..n, 1..n)
  <2>1. place \in [1..n -> 1..n]
    BY <1>0, <1>6
  <2>2. QED BY <1>8, <2>1, Zenon DEF Injection, IsInjective
<1>10. place \in Surjection(1..n, 1..n)
  BY <1>1, <1>9, FS_Injection
<1>11. \A k \in 1..n : \E i \in 1..n : place[i] = k
  BY <1>10 DEF Surjection
<1>12. QED BY <1>6, <1>8, <1>11 DEF place

Keys == Int \X Int \X Int

LEMMA KeysInOrder ==
  ASSUME NEW k \in Keys, NEW l \in Keys
  PROVE  /\ KeyBelow(k, l) <=> \/ k[1] < l[1]
                               \/ k[1] = l[1] /\ k[2] < l[2]
                               \/ k[1] = l[1] /\ k[2] = l[2] /\ k[3] < l[3]
         /\ k # l => KeyBelow(k, l) \/ KeyBelow(l, k)
         /\ ~(KeyBelow(k, l) /\ KeyBelow(l, k))
         /\ ~KeyBelow(k, k)
<1>1. ASSUME NEW a \in Keys, NEW b \in Keys
      PROVE  KeyBelow(a, b) <=> \/ a[1] < b[1]
                                \/ a[1] = b[1] /\ a[2] < b[2]
                                \/ a[1] = b[1] /\ a[2] = b[2] /\ a[3] < b[3]
  <2>1. DOMAIN a = {1, 2, 3} /\ 1..0 = {} /\ 1..1 = {1} /\ 1..2 = {1, 2}
    BY DEF Keys
  <2>2. 1 - 1 = 0 /\ 2 - 1 = 1 /\ 3 - 1 = 2
    OBVIOUS
  <2>3. QED BY <2>1, <2>2 DEF KeyBelow
<1>2. k # l => k[1] # l[1] \/ k[2] # l[2] \/ k[3] # l[3]
  BY DEF Keys
<1>3. k[1] \in Int /\ k[2] \in Int /\ k[3] \in Int /\ l[1] \in Int /\ l[2] \in Int /\ l[3] \in Int
  BY DEF Keys
<1>4. QED BY <1>1, <1>2, <1>3

LEMMA SortedKeepsAll ==
  ASSUME NEW cs, IsList(cs), \A i \in DOMAIN cs : SortKey(cs[i]) \in Keys
  PROVE  IsList(Sorted(cs)) /\ Range(Sorted(cs)) = Range(cs)
<1> DEFINE n == Len(cs)
           key == [i \in DOMAIN cs |-> SortKey(cs[i])]
           Comes(j, i) == KeyBelow(key[j], key[i]) \/ (key[j] = key[i] /\ j <= i)
           R == {p \in (1..n) \X (1..n) : Comes(p[1], p[2])}
           place == PlacesUnder(R, n)
           sorted == Sorted(cs)
<1>1. DOMAIN cs = 1..n /\ n \in Nat
  BY ListIsSeq
<1>2. \A i \in 1..n : key[i] \in Keys
  BY <1>1
<1>3. \A i, j \in 1..n : <<j, i>> \in R <=> Comes(j, i)
  OBVIOUS
<1>4. sorted = [k \in 1..n |-> cs[CHOOSE i \in 1..n : place[i] = k]]
  <2> DEFINE at == [i \in DOMAIN cs |-> Cardinality({j \in DOMAIN cs : Comes(j, i)})]
  <2>1. sorted = [k \in DOMAIN cs |-> cs[CHOOSE i \in DOMAIN cs : at[i] = k]]
    BY DEF Sorted
  <2>2. ASSUME NEW i \in 1..n
        PROVE  {j \in 1..n : Comes(j, i)} = {j \in 1..n : <<j, i>> \in R}
    <3> HIDE DEF Comes, R
    <3>1. QED BY <1>3
  <2>3. at = place
    <3> HIDE DEF Comes, R
    <3>1. QED BY <1>1, <2>2 DEF PlacesUnder
  <2> HIDE DEF at, place, sorted, R
  <2>4. QED BY <1>1, <2>1, <2>3
<1> HIDE DEF key
<1>5. \A i, j, k \in 1..n : Comes(i, j) /\ Comes(j, k) => Comes(i, k)
  <2> SUFFICES ASSUME NEW i \in 1..n, NEW j \in 1..n, NEW k \in 1..n, Comes(i, j), Comes(j, k)
               PROVE  Comes(i, k)
    OBVIOUS
  <2>1. key[i] \in Keys /\ key[j] \in Keys /\ key[k] \in Keys
    BY <1>2
  <2>2. /\ key[i][1] \in Int /\ key[i][2] \in Int /\ key[i][3] \in Int
        /\ key[j][1] \in Int /\ key[j][2] \in Int /\ key[j][3] \in Int
        /\ key[k][1] \in Int /\ key[k][2] \in Int /\ key[k][3] \in Int
    BY <2>1 DEF Keys
  <2>3. CASE key[i] = key[j] \/ key[j] = key[k]
    BY <2>3
  <2>4. CASE KeyBelow(key[i], key[j]) /\ KeyBelow(key[j], key[k])
    <3> DEFINE Lex(k1, l1) == \/ k1[1] < l1[1]
                              \/ k1[1] = l1[1] /\ k1[2] < l1[2]
                              \/ k1[1] = l1[1] /\ k1[2] = l1[2] /\ k1[3] < l1[3]
    <3>1. Lex(key[i], key[j]) /\ Lex(key[j], key[k])
      BY <2>1, <2>4, KeysInOrder
    <3>2. PICK a \in Int, b \in Int, c \in Int, d \in Int, e \in Int, f \in Int,
               x \in Int, y \in Int, z \in Int :
            /\ key[i][1] = a /\ key[i][2] = b /\ key[i][3] = c
            /\ key[j][1] = d /\ key[j][2] = e /\ key[j][3] = f
            /\ key[k][1] = x /\ key[k][2] = y /\ key[k][3] = z
      BY <2>2
    <3>3. Lex(key[i], key[k])
      <4>1. /\ a < d \/ (a = d /\ b < e) \/ (a = d /\ b = e /\ c < f)
            /\ d < x \/ (d = x /\ e < y) \/ (d = x /\ e = y /\ f < z)
        BY <3>1, <3>2
      <4>2. a < x \/ (a = x /\ b < y) \/ (a = x /\ b = y /\ c < z)
        BY <4>1
      <4>3. QED BY <3>2, <4>2
    <3>4. KeyBelow(key[i], key[k])
      BY <2>1, <3>3, KeysInOrder
    <3>5. QED BY <3>4
  <2>5. QED BY <2>3, <2>4
<1>6. \A i, j \in 1..n : Comes(i, j) \/ Comes(j, i)
  BY <1>2, KeysInOrder
<1>7. \A i, j \in 1..n : Comes(i, j) /\ Comes(j, i) => i = j
  BY <1>2, KeysInOrder
<1>8. \A i \in 1..n : Comes(i, i)
  BY <1>2
<1>9. /\ \A i \in 1..n : place[i] \in 1..n
      /\ \A i, j \in 1..n : place[i] = place[j] => i = j
      /\ \A k \in 1..n : \E i \in 1..n : place[i] = k
  <2> HIDE DEF Comes
  <2>1. /\ \A i \in 1..n : <<i, i>> \in R
        /\ \A i, j \in 1..n : <<i, j>> \in R \/ <<j, i>> \in R
        /\ \A i, j \in 1..n : <<i, j>> \in R /\ <<j, i>> \in R => i = j
        /\ \A i, j, k \in 1..n : <<i, j>> \in R /\ <<j, k>> \in R => <<i, k>> \in R
    BY <1>3, <1>5, <1>6, <1>7, <1>8
  <2> HIDE DEF R, n
  <2>2. QED BY <1>1, <2>1, PlacesAreTaken
<1> HIDE DEF place, R, Comes
<1>10. ASSUME NEW k \in 1..n
       PROVE  \E i \in 1..n : place[i] = k /\ sorted[k] = cs[i]
  <2>1. \E i \in 1..n : place[i] = k
    BY <1>9
  <2>2. sorted[k] = cs[CHOOSE i \in 1..n : place[i] = k]
    <3> HIDE DEF sorted
    <3>1. QED BY <1>4
  <2>3. QED BY <2>1, <2>2
<1>11. ASSUME NEW i \in 1..n PROVE place[i] \in 1..n /\ sorted[place[i]] = cs[i]
  <2>1. place[i] \in 1..n
    BY <1>9
  <2>2. PICK j \in 1..n : place[j] = place[i] /\ sorted[place[i]] = cs[j]
    BY <1>10, <2>1
  <2>3. QED BY <1>9, <2>1, <2>2
<1> HIDE DEF sorted
<1>12. IsList(sorted) /\ DOMAIN sorted = 1..n
  <2>1. sorted = [k \in 1..n |-> sorted[k]]
    BY <1>4
  <2>2. QED BY <1>1, <2>1, FunctionIsList
<1>13. Range(sorted) = Range(cs)
  <2>1. \A x \in Range(sorted) : x \in Range(cs)
    BY <1>1, <1>10, <1>12 DEF Range
  <2>2. \A x \in Range(cs) : x \in Range(sorted)
    BY <1>1, <1>11, <1>12 DEF Range
  <2>3. QED BY <2>1, <2>2
<1>14. QED BY <1>12, <1>13 DEF sorted

LEMMA DeduplicatedKeepsAll ==
  ASSUME NEW cs, IsList(cs)
  PROVE  IsList(Deduplicated(cs)) /\ Range(Deduplicated(cs)) = Range(cs)
<1> DEFINE Again(i) == \E j \in 1..(i - 1) : cs[j] = cs[i]
           pieces == [i \in DOMAIN cs |-> IF Again(i) THEN <<>> ELSE <<cs[i]>>]
<1>1. DOMAIN cs = 1..Len(cs) /\ Len(cs) \in Nat
  BY ListIsSeq
<1>2. Deduplicated(cs) = FlattenSeq(pieces)
  BY DEF Deduplicated
<1>3. \A i \in DOMAIN cs : pieces[i] = IF Again(i) THEN <<>> ELSE <<cs[i]>>
  OBVIOUS
<1> HIDE DEF Again
<1>4. IsList(pieces) /\ DOMAIN pieces = DOMAIN cs
  BY <1>1, FunctionIsList
<1> HIDE DEF pieces
<1>5. \A i \in DOMAIN cs : IsList(pieces[i]) /\ Range(pieces[i]) = IF Again(i) THEN {} ELSE {cs[i]}
  BY <1>3, ShortLists
<1>6. /\ IsList(FlattenSeq(pieces))
      /\ Range(FlattenSeq(pieces)) = UNION {Range(pieces[i]) : i \in DOMAIN pieces}
  BY <1>4, <1>5, Flattened
<1>7. ASSUME NEW x \in Range(cs) PROVE \E i \in DOMAIN cs : x \in Range(pieces[i])
  <2> DEFINE P == {i \in DOMAIN cs : cs[i] = x}
  <2>1. P \subseteq Nat /\ P # {}
    BY <1>1 DEF Range
  <2>2. PICK i \in P : \A j \in P : i <= j
    <3> HIDE DEF P
    <3>1. QED BY <2>1, LeastExists
  <2>3. i \in DOMAIN cs /\ cs[i] = x
    OBVIOUS
  <2>4. ~Again(i)
    <3> SUFFICES ASSUME NEW j \in 1..(i - 1), cs[j] = cs[i] PROVE FALSE
      BY DEF Again
    <3>1. j \in DOMAIN cs /\ j < i
      BY <1>1, <2>3
    <3>2. j \in P
      BY <2>3, <3>1
    <3> HIDE DEF P
    <3>3. QED BY <1>1, <2>2, <2>3, <3>1, <3>2
  <2>5. QED BY <1>5, <2>3, <2>4
<1>8. \A i \in DOMAIN cs : Range(pieces[i]) \subseteq Range(cs)
  BY <1>5 DEF Range
<1>9. QED BY <1>2, <1>4, <1>6, <1>7, <1>8

-------------------------------------------------------------------------------
(***************************************************************************)
(* The candidates of a snapshot and an output are a list, of things that   *)
(* can be sorted.                                                          *)
(***************************************************************************)
Good(c, names) ==
  c.field_path \in Range(FieldPaths) /\ IsValue(c.value) /\ c.extractor \in names
GoodList(cs, names) == IsList(cs) /\ \A c \in Range(cs) : Good(c, names)
OnPages == {"deterministic-jsonld", "deterministic-regex"}

LEMMA PathsKnown ==
  {"/amenities/name", "/listing/address", "/listing/availability", "/listing/baths",
   "/listing/beds", "/listing/price", "/units/baths", "/units/beds", "/units/price",
   "/units/unit_label"} \subseteq Range(FieldPaths)
<1>1. DOMAIN FieldPaths = 1..10 /\ {1, 2, 3, 4, 5, 6, 7, 8, 9, 10} \subseteq 1..10
  BY DEF FieldPaths
<1>2. /\ FieldPaths[1] = "/amenities/name" /\ FieldPaths[2] = "/listing/address"
      /\ FieldPaths[3] = "/listing/availability" /\ FieldPaths[4] = "/listing/baths"
      /\ FieldPaths[5] = "/listing/beds" /\ FieldPaths[6] = "/listing/price"
      /\ FieldPaths[7] = "/units/baths" /\ FieldPaths[8] = "/units/beds"
      /\ FieldPaths[9] = "/units/price" /\ FieldPaths[10] = "/units/unit_label"
  BY DEF FieldPaths
<1>3. ASSUME NEW k \in {1, 2, 3, 4, 5, 6, 7, 8, 9, 10} PROVE FieldPaths[k] \in Range(FieldPaths)
  <2>1. k \in DOMAIN FieldPaths
    BY <1>1
  <2>2. QED BY <2>1 DEF Range
<1>4. QED BY <1>2, <1>3

LEMMA ExtractorsKnown == Range(Extractors) = OnPages \cup {"structured-output"}
<1>1. DOMAIN Extractors = {1, 2, 3}
  BY DEF Extractors
<1>2. QED BY <1>1 DEF Extractors, OnPages, Range

LEMMA KeyTyped ==
  ASSUME NEW c, Good(c, Range(Extractors))
  PROVE  SortKey(c) \in Keys
<1>1. DOMAIN FieldPaths \subseteq Int /\ DOMAIN Extractors \subseteq Int
  BY DEF FieldPaths, Extractors
<1>2. PlaceIn(FieldPaths, c.field_path) \in DOMAIN FieldPaths
  <2>1. \E i \in DOMAIN FieldPaths : FieldPaths[i] = c.field_path
    BY DEF Good, Range
  <2>2. QED BY <2>1 DEF PlaceIn
<1>3. PlaceIn(Extractors, c.extractor) \in DOMAIN Extractors
  <2>1. \E i \in DOMAIN Extractors : Extractors[i] = c.extractor
    BY DEF Good, Range
  <2>2. QED BY <2>1 DEF PlaceIn
<1>4. (IF c.value = Absent THEN -1 ELSE 2 * c.value.size + (IF c.value.dressed THEN 1 ELSE 0)) \in Int
  <2>1. CASE c.value = Absent
    BY <2>1
  <2>2. CASE c.value # Absent
    <3>1. c.value.size \in Int
      BY <2>2 DEF Good, IsValue, Values
    <3>2. QED BY <2>2, <3>1
  <2>3. QED BY <2>1, <2>2
<1>5. QED BY <1>1, <1>2, <1>3, <1>4 DEF SortKey, Keys

LEMMA GoodShort ==
  ASSUME NEW names
  PROVE  GoodList(<<>>, names) /\ \A c : Good(c, names) => GoodList(<<c>>, names)
BY ShortLists DEF GoodList

LEMMA GoodJoined ==
  ASSUME NEW names, NEW s, NEW t, GoodList(s, names), GoodList(t, names)
  PROVE  GoodList(s \o t, names)
BY Joined DEF GoodList

LEMMA GoodFlattened ==
  ASSUME NEW names, NEW seqs, IsList(seqs), \A i \in DOMAIN seqs : GoodList(seqs[i], names)
  PROVE  GoodList(FlattenSeq(seqs), names)
<1>1. /\ IsList(FlattenSeq(seqs))
      /\ Range(FlattenSeq(seqs)) = UNION {Range(seqs[i]) : i \in DOMAIN seqs}
  BY Flattened DEF GoodList
<1>2. QED BY <1>1 DEF GoodList

\* The same for the candidates that are made from a list, piece by piece.
LEMMA GoodPieces ==
  ASSUME NEW names, NEW s, IsList(s), NEW pieces, pieces = [i \in DOMAIN s |-> pieces[i]],
         \A i \in DOMAIN s : GoodList(pieces[i], names)
  PROVE  GoodList(FlattenSeq(pieces), names)
<1>1. DOMAIN s = 1..Len(s) /\ Len(s) \in Nat
  BY ListIsSeq
<1>2. IsList(pieces) /\ DOMAIN pieces = DOMAIN s
  BY <1>1, FunctionIsList
<1>3. QED BY <1>2, GoodFlattened

LEMMA ConversionsTyped ==
  ASSUME NEW v, IsValue(v)
  PROVE  IsValue(Text(v)) /\ (v # Absent => IsValue(Bare(v)))
<1>1. CASE v = Absent
  BY <1>1 DEF Text, IsValue
<1>2. CASE v \in Values
  <2>1. AsText(v) \in Values /\ Bare(v) \in Values
    BY <1>2 DEF AsText, Bare, Values
  <2>2. QED BY <2>1 DEF Text, IsValue
<1>3. QED BY <1>1, <1>2 DEF IsValue

LEMMA JsonLdCandidateTyped ==
  ASSUME NEW s, NEW block, NEW path \in Range(FieldPaths), NEW spelled, NEW value,
         spelled # Absent => IsValue(value), NEW confidence
  PROVE  GoodList(JsonLdCandidate(s, block, path, spelled, value, confidence), OnPages)
<1> DEFINE span == ValueSpan(s, block, spelled)
           refs == <<EvidenceForSpan(s, "html", span[1], span[2])>>
           c == [ field_path |-> path, value |-> value, confidence |-> confidence,
                  evidence |-> refs, extractor |-> "deterministic-jsonld" ]
<1>1. CASE spelled = Absent
  BY <1>1, GoodShort DEF JsonLdCandidate
<1>2. CASE spelled # Absent
  <2>1. JsonLdCandidate(s, block, path, spelled, value, confidence) = <<c>>
    BY <1>2 DEF JsonLdCandidate
  <2>2. Good(c, OnPages)
    <3> HIDE DEF refs
    <3>1. QED BY <1>2 DEF Good, OnPages
  <2> HIDE DEF c
  <2>3. QED BY <2>1, <2>2, GoodShort
<1>3. QED BY <1>1, <1>2

LEMMA OfferTyped ==
  ASSUME NEW s, NEW block, NEW offer, IsValue(offer.price), IsValue(offer.availability)
  PROVE  GoodList(OfferCandidates(s, block, offer), OnPages)
<1> DEFINE price == JsonLdCandidate(s, block, "/listing/price", Text(offer.price), Text(offer.price), 95)
           rest == IF offer.availability = Absent THEN <<>>
                   ELSE JsonLdCandidate(s, block, "/listing/availability", offer.availability,
                                        Bare(offer.availability), 90)
<1>1. GoodList(price, OnPages)
  BY PathsKnown, ConversionsTyped, JsonLdCandidateTyped
<1>2. GoodList(rest, OnPages)
  BY PathsKnown, ConversionsTyped, JsonLdCandidateTyped, GoodShort
<1>3. OfferCandidates(s, block, offer) = price \o rest
  BY DEF OfferCandidates
<1> HIDE DEF price, rest
<1>4. QED BY <1>1, <1>2, <1>3, GoodJoined

LEMMA ItemTyped ==
  ASSUME NEW s, NEW block, NEW item, IsItem(item)
  PROVE  GoodList(ItemCandidates(s, block, item), OnPages)
<1> DEFINE address == JsonLdCandidate(s, block, "/listing/address", item.address, item.address, 95)
           pieces == [k \in DOMAIN item.offers |-> OfferCandidates(s, block, item.offers[k])]
           offers == FlattenSeq(pieces)
           beds == JsonLdCandidate(s, block, "/listing/beds", Text(item.beds), Text(item.beds), 90)
           baths == JsonLdCandidate(s, block, "/listing/baths", Text(item.baths), Text(item.baths), 90)
<1>0. /\ IsValue(item.address) /\ IsValue(item.beds) /\ IsValue(item.baths)
      /\ IsList(item.offers)
      /\ \A k \in DOMAIN item.offers :
           IsValue(item.offers[k].price) /\ IsValue(item.offers[k].availability)
  BY DEF IsItem
<1>1. GoodList(address, OnPages)
  BY <1>0, PathsKnown, JsonLdCandidateTyped
<1>2. GoodList(beds, OnPages) /\ GoodList(baths, OnPages)
  BY <1>0, PathsKnown, ConversionsTyped, JsonLdCandidateTyped
<1>3. GoodList(offers, OnPages)
  <2>1. \A k \in DOMAIN item.offers : GoodList(pieces[k], OnPages)
    BY <1>0, OfferTyped
  <2>2. pieces = [k \in DOMAIN item.offers |-> pieces[k]]
    OBVIOUS
  <2> HIDE DEF pieces
  <2>3. QED BY <1>0, <2>1, <2>2, GoodPieces
<1>4. ItemCandidates(s, block, item) = address \o offers \o beds \o baths
  BY DEF ItemCandidates
<1> HIDE DEF address, offers, beds, baths
<1>5. GoodList(address \o offers, OnPages)
  BY <1>1, <1>3, GoodJoined
<1>6. GoodList(address \o offers \o beds, OnPages)
  BY <1>2, <1>5, GoodJoined
<1>7. QED BY <1>2, <1>4, <1>6, GoodJoined

LEMMA JsonLdTyped ==
  ASSUME NEW s, IsSnapshot(s)
  PROVE  GoodList(JsonLdCandidates(s), OnPages)
<1> DEFINE inner(b) == [i \in DOMAIN s.blocks[b].items |->
                          ItemCandidates(s, s.blocks[b], s.blocks[b].items[i])]
           pieces == [b \in DOMAIN s.blocks |-> FlattenSeq(inner(b))]
<1>1. CASE s.html = Absent
  BY <1>1, GoodShort DEF JsonLdCandidates
<1>2. CASE s.html # Absent
  <2>0. /\ IsList(s.blocks)
        /\ \A b \in DOMAIN s.blocks :
             /\ IsList(s.blocks[b].items)
             /\ \A i \in DOMAIN s.blocks[b].items : IsItem(s.blocks[b].items[i])
    BY <1>2 DEF IsSnapshot
  <2>1. ASSUME NEW b \in DOMAIN s.blocks PROVE GoodList(FlattenSeq(inner(b)), OnPages)
    <3>1. \A i \in DOMAIN s.blocks[b].items : GoodList(inner(b)[i], OnPages)
      BY <2>0, ItemTyped
    <3>2. inner(b) = [i \in DOMAIN s.blocks[b].items |-> inner(b)[i]]
      OBVIOUS
    <3>3. IsList(s.blocks[b].items)
      BY <2>0
    <3> HIDE DEF inner
    <3>4. QED BY <3>1, <3>2, <3>3, GoodPieces
  <2>2. JsonLdCandidates(s) = FlattenSeq(pieces)
    BY <1>2 DEF JsonLdCandidates
  <2>3. pieces = [b \in DOMAIN s.blocks |-> pieces[b]]
        /\ \A b \in DOMAIN s.blocks : pieces[b] = FlattenSeq(inner(b))
    OBVIOUS
  <2> HIDE DEF inner, pieces
  <2>4. QED BY <2>0, <2>1, <2>2, <2>3, GoodPieces
<1>3. QED BY <1>1, <1>2

LEMMA RegexTyped ==
  ASSUME NEW s, IsSnapshot(s)
  PROVE  GoodList(RegexCandidates(s), OnPages)
<1> DEFINE text == IF s.text = Absent THEN <<>> ELSE s.text
           found(path, i) ==
             [ field_path |-> path, value |-> text[i].value,
               confidence |-> RegexConfidence(path),
               evidence |-> <<EvidenceForSpan(s, "text", i - 1, i)>>,
               extractor |-> "deterministic-regex" ]
           Match(path, i) == IF text[i].reads # path THEN <<>> ELSE <<found(path, i)>>
           inner(p) == [i \in DOMAIN text |-> Match(RegexPaths[p], i)]
           pieces == [p \in DOMAIN RegexPaths |-> FlattenSeq(inner(p))]
<1>1. IsList(text) /\ \A i \in DOMAIN text : IsValue(text[i].value)
  BY ShortLists DEF IsSnapshot
<1>2. IsList(RegexPaths) /\ \A p \in DOMAIN RegexPaths : RegexPaths[p] \in Range(FieldPaths)
  <2>1. RegexPaths \in Seq(Range(FieldPaths))
    BY PathsKnown DEF RegexPaths
  <2>2. QED BY <2>1, SeqIsList
<1>3. RegexCandidates(s) = FlattenSeq(pieces)
  BY DEF RegexCandidates
<1> HIDE DEF text
<1>4. ASSUME NEW path \in Range(FieldPaths), NEW i \in DOMAIN text
      PROVE  GoodList(Match(path, i), OnPages)
  <2>1. Good(found(path, i), OnPages)
    BY <1>1 DEF Good, OnPages
  <2> HIDE DEF found
  <2>2. QED BY <2>1, GoodShort
<1> HIDE DEF Match
<1>5. ASSUME NEW p \in DOMAIN RegexPaths PROVE GoodList(FlattenSeq(inner(p)), OnPages)
  <2>1. \A i \in DOMAIN text : GoodList(inner(p)[i], OnPages)
    BY <1>2, <1>4
  <2>2. inner(p) = [i \in DOMAIN text |-> inner(p)[i]]
    OBVIOUS
  <2> HIDE DEF inner
  <2>3. QED BY <1>1, <2>1, <2>2, GoodPieces
<1>6. pieces = [p \in DOMAIN RegexPaths |-> pieces[p]]
      /\ \A p \in DOMAIN RegexPaths : pieces[p] = FlattenSeq(inner(p))
  OBVIOUS
<1> HIDE DEF inner, pieces
<1>7. QED BY <1>2, <1>3, <1>5, <1>6, GoodPieces

OfPage(s) == JsonLdCandidates(s) \o RegexCandidates(s)

LEMMA DeterministicListed ==
  ASSUME NEW s, IsSnapshot(s)
  PROVE  /\ GoodList(DeterministicCandidates(s), OnPages)
         /\ Range(DeterministicCandidates(s)) = Range(OfPage(s))
<1> DEFINE cs == OfPage(s)
           ds == Deduplicated(cs)
<1>1. GoodList(cs, OnPages)
  BY JsonLdTyped, RegexTyped, GoodJoined DEF OfPage
<1> HIDE DEF cs
<1>2. IsList(ds) /\ Range(ds) = Range(cs)
  BY <1>1, DeduplicatedKeepsAll DEF GoodList
<1>3. DeterministicCandidates(s) = Sorted(ds)
  BY DEF DeterministicCandidates, OfPage, cs
<1> HIDE DEF ds
<1>4. \A c \in Range(ds) : SortKey(c) \in Keys
  BY <1>1, <1>2, KeyTyped, ExtractorsKnown DEF GoodList, Good
<1>5. \A i \in DOMAIN ds : SortKey(ds[i]) \in Keys
  BY <1>4 DEF Range
<1>6. IsList(Sorted(ds)) /\ Range(Sorted(ds)) = Range(ds)
  BY <1>2, <1>5, SortedKeepsAll
<1>7. QED BY <1>1, <1>2, <1>3, <1>6 DEF GoodList, cs

\* The candidate of one field of an output.
OfField(field) ==
  [ field_path |-> field.path, value |-> field.value, confidence |-> field.confidence,
    evidence |-> field.evidence, extractor |-> "structured-output" ]

LEMMA StructuredListed ==
  ASSUME NEW output, IsOutput(output)
  PROVE  /\ GoodList(StructuredCandidates(output), {"structured-output"})
         /\ Range(StructuredCandidates(output)) = {OfField(output.fields[k]) : k \in DOMAIN output.fields}
<1> DEFINE cs == [k \in DOMAIN output.fields |-> OfField(output.fields[k])]
<1>1. /\ IsList(output.fields)
      /\ \A k \in DOMAIN output.fields :
           output.fields[k].path \in Range(FieldPaths) /\ IsValue(output.fields[k].value)
  BY DEF IsOutput
<1>2. StructuredCandidates(output) = Sorted(cs)
  BY DEF StructuredCandidates, OfField
<1>3. \A k \in DOMAIN output.fields : cs[k] = OfField(output.fields[k])
  OBVIOUS
<1>4. \A k \in DOMAIN output.fields : Good(cs[k], {"structured-output"})
  BY <1>1 DEF OfField, Good
<1>5. IsList(cs) /\ DOMAIN cs = DOMAIN output.fields
  <2>1. DOMAIN output.fields = 1..Len(output.fields) /\ Len(output.fields) \in Nat
    BY <1>1, ListIsSeq
  <2>2. QED BY <2>1, FunctionIsList
<1> HIDE DEF cs
<1>6. \A i \in DOMAIN cs : SortKey(cs[i]) \in Keys
  <2> SUFFICES ASSUME NEW i \in DOMAIN cs PROVE SortKey(cs[i]) \in Keys
    OBVIOUS
  <2>1. Good(cs[i], Range(Extractors))
    BY <1>4, <1>5, ExtractorsKnown DEF Good
  <2>2. QED BY <2>1, KeyTyped
<1>7. IsList(Sorted(cs)) /\ Range(Sorted(cs)) = Range(cs)
  BY <1>5, <1>6, SortedKeepsAll
<1>8. Range(cs) = {OfField(output.fields[k]) : k \in DOMAIN output.fields}
  BY <1>3, <1>5 DEF Range
<1>9. \A c \in Range(cs) : Good(c, {"structured-output"})
  BY <1>4, <1>5 DEF Range
<1>10. QED BY <1>2, <1>7, <1>8, <1>9 DEF GoodList

LEMMA CandidatesListed ==
  ASSUME NEW s, IsSnapshot(s), NEW output, output # Absent => IsOutput(output)
  PROVE  /\ IsList(CandidatesOf(s, output))
         /\ Range(CandidatesOf(s, output)) =
              Range(DeterministicCandidates(s)) \cup
              (IF output = Absent THEN {} ELSE Range(StructuredCandidates(output)))
<1> DEFINE rest == IF output = Absent THEN <<>> ELSE StructuredCandidates(output)
<1>1. IsList(rest) /\ Range(rest) = IF output = Absent THEN {} ELSE Range(StructuredCandidates(output))
  BY ShortLists, StructuredListed DEF GoodList
<1>2. IsList(DeterministicCandidates(s))
  BY DeterministicListed DEF GoodList
<1>3. CandidatesOf(s, output) = DeterministicCandidates(s) \o rest
  BY DEF CandidatesOf
<1> HIDE DEF rest
<1>4. QED BY <1>1, <1>2, <1>3, Joined

-------------------------------------------------------------------------------
(***************************************************************************)
(* The checks of validate_evidence_ref against those of the store, and     *)
(* against the reader.                                                     *)
(***************************************************************************)
LEMMA GoodEvidenceTaken ==
  ASSUME NEW e, NEW s, EvidenceIssues(e, s) = {}
  PROVE ~EvidenceRefused(e)
<1>1. CASE e.kind = "text_span"
  <2>1. TextSpanIssues(e, s) = {}
    BY <1>1 DEF EvidenceIssues
  <2> QED
    BY <1>1, <2>1 DEF TextSpanIssues, EvidenceRefused
<1>2. CASE e.kind = "image_region"
  <2>1. ImageRegionIssues(e, s) = {}
    BY <1>2 DEF EvidenceIssues
  <2> QED
    BY <1>2, <2>1 DEF ImageRegionIssues, EvidenceRefused, If
<1>3. CASE e.kind \notin {"text_span", "image_region"}
  BY <1>3 DEF EvidenceIssues
<1> QED
  BY <1>1, <1>2, <1>3

LEMMA GoodEvidenceResolves ==
  ASSUME NEW e, NEW s, EvidenceIssues(e, s) = {}
  PROVE Resolves(e, s)
<1>0. e.snapshot_id = s.snapshot_id
  BY DEF EvidenceIssues
<1>1. CASE e.kind = "text_span"
  <2>1. TextSpanIssues(e, s) = {}
    BY <1>1 DEF EvidenceIssues
  <2> DEFINE content == SelectContent(s, e.locator.source_format)
             span == SubSeq(content, e.locator.start_char + 1, e.locator.end_char)
  <2>2. /\ content # Absent
        /\ Absent \notin {e.locator.start_char, e.locator.end_char}
        /\ ~(\/ e.locator.start_char < 0 \/ e.locator.end_char < 0
             \/ e.locator.start_char >= e.locator.end_char
             \/ e.locator.end_char > Len(content))
        /\ e.excerpt \in {Absent, span}
    BY <2>1 DEF TextSpanIssues, If
  <2>3. ~Unresolvable(s, e.locator) /\ ResolvedSpan(s, e.locator) = span
    BY <2>2 DEF Unresolvable, ResolvedSpan
  <2> QED
    BY <1>0, <1>1, <2>2, <2>3 DEF Resolves
<1>2. CASE e.kind = "image_region"
  <2>1. ImageRegionIssues(e, s) = {}
    BY <1>2 DEF EvidenceIssues
  <2> QED
    BY <1>0, <1>2, <2>1 DEF ImageRegionIssues, Resolves, LiesOn, If
<1>3. CASE e.kind \notin {"text_span", "image_region"}
  BY <1>3 DEF EvidenceIssues
<1> QED
  BY <1>1, <1>2, <1>3

-------------------------------------------------------------------------------
(***************************************************************************)
(* One candidate after another keeps the store sound.                      *)
(***************************************************************************)
LEMMA GoodCandidateTaken ==
  ASSUME NEW c, NEW s, NEW E, c.value # Absent, CandidateIssues(c, s) = {}
  PROVE  /\ DOMAIN c.evidence # {}
         /\ \A k \in DOMAIN c.evidence :
              ~EvidenceRefused(c.evidence[k]) /\ Resolves(c.evidence[k], s)
         /\ ~FactRefused(E \cup {c.evidence[k] : k \in DOMAIN c.evidence},
                         c.value, c.confidence, c.evidence)
<1>1. DOMAIN c.evidence # {} /\ c.confidence # Absent
  BY DEF CandidateIssues
<1>2. ASSUME NEW k \in DOMAIN c.evidence PROVE EvidenceIssues(c.evidence[k], s) = {}
  BY <1>1 DEF CandidateIssues
<1>3. \A k \in DOMAIN c.evidence :
        ~EvidenceRefused(c.evidence[k]) /\ Resolves(c.evidence[k], s)
  BY <1>2, GoodEvidenceTaken, GoodEvidenceResolves
<1>4. ~FactRefused(E \cup {c.evidence[k] : k \in DOMAIN c.evidence},
                   c.value, c.confidence, c.evidence)
  BY <1>1 DEF FactRefused
<1> QED
  BY <1>1, <1>3, <1>4

SoundStore(st, s) == Sound(st.facts, st.links, st.evidence, s)
IsStore(st) == st = [evidence |-> st.evidence, facts |-> st.facts, links |-> st.links]

\* The store after one candidate.
Stored(st, id, fact, refs) == WithFact(WithEvidence(st, refs), id, fact, refs)

LEMMA StoredParts ==
  ASSUME NEW st, IsStore(st), NEW id, NEW fact, NEW refs
  PROVE  Stored(st, id, fact, refs) =
           [ evidence |-> st.evidence \cup {refs[k] : k \in DOMAIN refs},
             facts |-> WithFactOnly(st.facts, id, fact),
             links |-> st.links \cup LinksOf(id, refs) ]
<1>1. PICK E, F, L : st = [evidence |-> E, facts |-> F, links |-> L]
  BY DEF IsStore
<1>2. WithEvidence(st, refs) =
        [evidence |-> E \cup {refs[k] : k \in DOMAIN refs}, facts |-> F, links |-> L]
  BY <1>1 DEF WithEvidence
<1>3. st.evidence = E /\ st.facts = F /\ st.links = L
  BY <1>1
<1>4. ASSUME NEW H
      PROVE  WithFact([evidence |-> H, facts |-> F, links |-> L], id, fact, refs) =
               [evidence |-> H, facts |-> WithFactOnly(F, id, fact), links |-> L \cup LinksOf(id, refs)]
  BY DEF WithFact
<1> QED
  BY <1>2, <1>3, <1>4 DEF Stored

LEMMA KeepsSound ==
  ASSUME NEW st, NEW s, IsStore(st), SoundStore(st, s), NEW id, NEW fact, NEW refs,
         DOMAIN refs # {}, \A k \in DOMAIN refs : Resolves(refs[k], s)
  PROVE  IsStore(Stored(st, id, fact, refs)) /\ SoundStore(Stored(st, id, fact, refs), s)
<1> DEFINE next == Stored(st, id, fact, refs)
           held == {refs[k] : k \in DOMAIN refs}
           more == LinksOf(id, refs)
<1>1. /\ next.evidence = st.evidence \cup held
      /\ next.facts = WithFactOnly(st.facts, id, fact)
      /\ next.links = st.links \cup more
      /\ IsStore(next)
  <2>1. next = [ evidence |-> st.evidence \cup held,
                 facts |-> WithFactOnly(st.facts, id, fact), links |-> st.links \cup more ]
    BY StoredParts
  <2> HIDE DEF next, held, more
  <2> QED
    BY <2>1 DEF IsStore
<1>2. DOMAIN WithFactOnly(st.facts, id, fact) = {id} \cup DOMAIN st.facts
  BY DEF WithFactOnly
<1>3. \A link \in more : link.fact_id = id /\ link.evidence_id \in held
  BY DEF LinksOf
<1>4. ASSUME NEW e \in held
      PROVE  \E link \in more : link.evidence_id = e /\ link.fact_id = id
  <2>1. PICK k \in DOMAIN refs : refs[k] = e
    OBVIOUS
  <2> DEFINE link == [fact_id |-> id, evidence_id |-> refs[k], rank |-> k]
  <2>2. link \in more
    BY DEF LinksOf
  <2>3. link.evidence_id = e /\ link.fact_id = id
    BY <2>1
  <2> QED
    BY <2>2, <2>3
<1>5. PICK e \in held : TRUE
  OBVIOUS
<1> HIDE DEF next, held, more
<1>6. \A f \in DOMAIN next.facts : \E link \in next.links : link.fact_id = f
  BY <1>1, <1>2, <1>4, <1>5 DEF SoundStore, Sound
<1>7. \A link \in next.links :
        link.fact_id \in DOMAIN next.facts /\ link.evidence_id \in next.evidence
  BY <1>1, <1>2, <1>3 DEF SoundStore, Sound
<1>8. ASSUME NEW f \in next.evidence
      PROVE  Resolves(f, s) /\ \E link \in next.links : link.evidence_id = f
  <2>1. CASE f \in st.evidence
    BY <1>1, <2>1 DEF SoundStore, Sound
  <2>2. CASE f \in held
    BY <1>1, <1>4, <2>2 DEF held
  <2> QED
    BY <1>1, <2>1, <2>2
<1>9. SoundStore(next, s)
  BY <1>6, <1>7, <1>8 DEF SoundStore, Sound
<1> QED
  BY <1>1, <1>9 DEF next

-------------------------------------------------------------------------------
(***************************************************************************)
(* The invariant.  A store on the way is a record of its three parts; what *)
(* the results hold is left open, but that they are a sequence is needed   *)
(* to append to them.                                                      *)
(***************************************************************************)
StoreSound ==
  stage \notin {"idle", "raised"} => IsStore(store) /\ SoundStore(store, job.snapshot)
ResultSound(result) == Sound(result.facts, result.links, result.evidence, result.snapshot)
ResultsSound == \A n \in DOMAIN results : ResultSound(results[n])

IInv == ResultsListed /\ NeverRaises /\ StoreSound /\ ResultsSound

LEMMA IInvGives == IInv => NeverRaises /\ FactsGrounded
  BY DEF IInv, StoreSound, ResultsSound, ResultSound, SoundStore, FactsGrounded

LEMMA NothingIsSound ==
  ASSUME NEW s
  PROVE  IsStore(EmptyStore) /\ SoundStore(EmptyStore, s)
<1>1. DOMAIN NoFunction = {}
  BY DEF NoFunction
<1>2. EmptyStore.facts = NoFunction /\ EmptyStore.links = {} /\ EmptyStore.evidence = {}
  BY DEF EmptyStore
<1>3. IsStore(EmptyStore)
  BY <1>2 DEF EmptyStore, IsStore
<1> QED
  BY <1>1, <1>2, <1>3 DEF SoundStore, Sound

LEMMA InitIInv == Init => IInv
<1> SUFFICES ASSUME Init PROVE IInv
  OBVIOUS
<1>1. results = <<>> /\ stage = "idle"
  BY DEF Init
<1>2. results \in Seq({})
  BY <1>1
<1> QED
  BY <1>1, <1>2 DEF IInv, ResultsListed, NeverRaises, StoreSound, ResultsSound

LEMMA KeepStores ==
  ASSUME IInv, stage = "materializing", NEW c, Keep(c)
  PROVE  /\ stage' = stage
         /\ store' = Stored(store, FactId(ObservationId(job, model), c),
                            [confidence |-> c.confidence], c.evidence)
<1> DEFINE held == WithEvidence(store, c.evidence)
           refused == \/ \E k \in DOMAIN c.evidence : EvidenceRefused(c.evidence[k])
                      \/ FactRefused(held.evidence, c.value, c.confidence, c.evidence)
<1>1. c.value # Absent /\ CandidateIssues(c, job.snapshot) = {}
  BY DEF Keep
<1>2. held.evidence = store.evidence \cup {c.evidence[k] : k \in DOMAIN c.evidence}
  <2>1. PICK E, F, L : store = [evidence |-> E, facts |-> F, links |-> L]
    BY DEF IInv, StoreSound, IsStore
  <2> QED
    BY <2>1 DEF WithEvidence
<1>3. /\ \A k \in DOMAIN c.evidence : ~EvidenceRefused(c.evidence[k])
      /\ ~FactRefused(store.evidence \cup {c.evidence[k] : k \in DOMAIN c.evidence},
                      c.value, c.confidence, c.evidence)
  BY <1>1, GoodCandidateTaken
<1>4. ~refused
  BY <1>2, <1>3
<1> QED
  BY <1>4 DEF Keep, Stored

LEMMA KeepsIInv ==
  ASSUME IInv, stage = "materializing", NEW c, Keep(c), UNCHANGED <<job, results>>
  PROVE  IInv'
<1> DEFINE id == FactId(ObservationId(job, model), c)
           fact == [confidence |-> c.confidence]
<1>1. stage' = stage /\ store' = Stored(store, id, fact, c.evidence)
  BY KeepStores
<1>2. IsStore(store) /\ SoundStore(store, job.snapshot)
  BY DEF IInv, StoreSound
<1>3. /\ DOMAIN c.evidence # {}
      /\ \A k \in DOMAIN c.evidence : Resolves(c.evidence[k], job.snapshot)
  BY GoodCandidateTaken DEF Keep
<1>4. IsStore(store') /\ SoundStore(store', job.snapshot)
  <2> HIDE DEF id, fact
  <2> QED
    BY <1>1, <1>2, <1>3, KeepsSound
<1> QED
  BY <1>1, <1>4 DEF IInv, ResultsListed, NeverRaises, StoreSound, ResultsSound, SoundStore, IsStore

LEMMA FinishIInv == IInv /\ Finish => IInv'
<1> SUFFICES ASSUME IInv, Finish PROVE IInv'
  OBVIOUS
<1> DEFINE new ==
      [ observation_id |-> ObservationId(job, model), snapshot |-> job.snapshot,
        extracted_json |-> model, report |-> Merged(report, issues),
        evidence |-> store.evidence, facts |-> store.facts, links |-> store.links ]
<1>1. results' = Append(results, new) /\ stage = "materializing" /\ stage' = "idle"
  BY DEF Finish
<1>2. ResultSound(new)
  BY <1>1 DEF IInv, StoreSound, SoundStore, ResultSound
<1> HIDE DEF new
<1>3. PICK R : results \in Seq(R)
  BY DEF IInv, ResultsListed
<1>4. results \in Seq(R \cup {new})
  BY <1>3
<1>5. results' \in Seq(R \cup {new})
  BY <1>1, <1>4
<1>6. ASSUME NEW n \in DOMAIN results' PROVE ResultSound(results'[n])
  <2>1. DOMAIN results' = 1..Len(results) + 1 /\ DOMAIN results = 1..Len(results)
    BY <1>1, <1>4
  <2>2. CASE n = Len(results) + 1
    BY <1>1, <1>2, <1>4, <2>2
  <2>3. CASE n \in 1..Len(results)
    BY <1>1, <1>4, <2>1, <2>3 DEF IInv, ResultsSound
  <2> QED
    BY <1>4, <2>1, <2>2, <2>3
<1>7. ResultsSound'
  BY <1>6 DEF ResultsSound, ResultSound
<1> QED
  BY <1>1, <1>5, <1>7 DEF IInv, ResultsListed, NeverRaises, StoreSound

LEMMA NextIInv == IInv /\ [Next]_vars => IInv'
<1> SUFFICES ASSUME IInv, [Next]_vars PROVE IInv'
  OBVIOUS
<1> USE DEF IInv, ResultsListed, NeverRaises, ResultsSound, ResultSound
<1>1. ASSUME NEW j \in Jobs, Begin(j) PROVE IInv'
  <2>1. /\ stage' # "raised" /\ store' = EmptyStore /\ results' = results
    BY <1>1 DEF Begin
  <2>2. IsStore(store') /\ SoundStore(store', job'.snapshot)
    BY <2>1, NothingIsSound
  <2> QED
    BY <2>1, <2>2 DEF StoreSound, SoundStore, IsStore
<1>2. CASE Validate
  BY <1>2 DEF Validate, StoreSound, SoundStore, IsStore
<1>3. CASE Gather
  BY <1>3 DEF Gather, StoreSound, SoundStore, IsStore
<1>4. CASE Materialize
  <2>1. stage = "materializing" /\ UNCHANGED <<job, results>>
    BY <1>4 DEF Materialize
  <2>2. CASE PassOver(Head(queue))
    BY <2>1, <2>2 DEF PassOver, StoreSound, SoundStore, IsStore
  <2>3. CASE TurnDown(Head(queue))
    BY <2>1, <2>3 DEF TurnDown, StoreSound, SoundStore, IsStore
  <2>4. CASE Keep(Head(queue))
    BY <2>1, <2>4, KeepsIInv
  <2> QED
    BY <1>4, <2>2, <2>3, <2>4 DEF Materialize
<1>5. CASE Finish
  BY <1>5, FinishIInv
<1>6. ASSUME NEW n \in DOMAIN normalized, Normalize(n) PROVE IInv'
  BY <1>6 DEF Normalize, StoreSound, SoundStore, IsStore
<1>7. CASE UNCHANGED vars
  BY <1>7 DEF vars, StoreSound, SoundStore, IsStore
<1> QED
  BY <1>1, <1>2, <1>3, <1>4, <1>5, <1>6, <1>7 DEF Next

LEMMA Inductive == Spec => []IInv
  BY InitIInv, NextIInv, PTL DEF Spec

(***************************************************************************)
(* No extraction is lost to an exception of the fact store.                *)
(***************************************************************************)
THEOREM ExtractionNeverRaises == Spec => []NeverRaises
  BY Inductive, IInvGives, PTL

(***************************************************************************)
(* Every fact of every result has evidence that resolves, and nothing      *)
(* dangles.                                                                *)
(***************************************************************************)
THEOREM ExtractionGrounded == Spec => []FactsGrounded
  BY Inductive, IInvGives, PTL

-------------------------------------------------------------------------------
(***************************************************************************)
(* What the first n candidates of a list leave in the store and in the     *)
(* issues: a fact for every id among those that stand up, of the last one  *)
(* with that id, the links of all of them, and an answer for the others.   *)
(***************************************************************************)
Kept(cs, s, n) == {k \in 1..n : cs[k].value # Absent /\ CandidateIssues(cs[k], s) = {}}

FactsTold(facts, cs, s, o, n) ==
  /\ facts = [f \in DOMAIN facts |-> facts[f]]
  /\ DOMAIN facts = {FactId(o, cs[k]) : k \in Kept(cs, s, n)}
  /\ \A f \in DOMAIN facts : \E k \in Kept(cs, s, n) :
       /\ FactId(o, cs[k]) = f /\ facts[f] = [confidence |-> cs[k].confidence]
       /\ \A l \in Kept(cs, s, n) : FactId(o, cs[l]) = f => l <= k
LinksTold(links, cs, s, o, n) ==
  links = UNION {LinksOf(FactId(o, cs[k]), cs[k].evidence) : k \in Kept(cs, s, n)}
IssuesTold(found, cs, s, n) ==
  \A k \in 1..n : cs[k].value # Absent =>
    \A code \in CandidateIssues(cs[k], s) : <<code, cs[k].field_path>> \in found

Told(facts, links, found, cs, s, o, n) ==
  FactsTold(facts, cs, s, o, n) /\ LinksTold(links, cs, s, o, n) /\ IssuesTold(found, cs, s, n)

LEMMA ToldNothing ==
  ASSUME NEW cs, NEW s, NEW o
  PROVE  Told(NoFunction, {}, {}, cs, s, o, 0)
<1>1. 1..0 = {} /\ Kept(cs, s, 0) = {}
  BY DEF Kept
<1>2. DOMAIN NoFunction = {} /\ NoFunction = [f \in DOMAIN NoFunction |-> NoFunction[f]]
  BY DEF NoFunction
<1>3. QED BY <1>1, <1>2 DEF Told, FactsTold, LinksTold, IssuesTold

\* There is one way to tell the facts and the links.
LEMMA ToldOnce ==
  ASSUME NEW cs, NEW s, NEW o, NEW n \in Nat, NEW F, NEW L, NEW G, NEW M, NEW found, NEW others,
         Told(F, L, found, cs, s, o, n), Told(G, M, others, cs, s, o, n)
  PROVE  F = G /\ L = M
<1>1. DOMAIN F = DOMAIN G /\ L = M
  BY DEF Told, FactsTold, LinksTold
<1>2. ASSUME NEW f \in DOMAIN F PROVE F[f] = G[f]
  <2>1. PICK k \in Kept(cs, s, n) :
          /\ FactId(o, cs[k]) = f /\ F[f] = [confidence |-> cs[k].confidence]
          /\ \A l \in Kept(cs, s, n) : FactId(o, cs[l]) = f => l <= k
    BY DEF Told, FactsTold
  <2>2. PICK m \in Kept(cs, s, n) :
          /\ FactId(o, cs[m]) = f /\ G[f] = [confidence |-> cs[m].confidence]
          /\ \A l \in Kept(cs, s, n) : FactId(o, cs[l]) = f => l <= m
    BY <1>1 DEF Told, FactsTold
  <2>3. m <= k /\ k <= m /\ k \in Int /\ m \in Int
    BY <2>1, <2>2 DEF Kept
  <2>4. k = m
    BY <2>3
  <2>5. QED BY <2>1, <2>2, <2>4
<1>3. F = [f \in DOMAIN F |-> F[f]] /\ G = [f \in DOMAIN G |-> G[f]]
  BY DEF Told, FactsTold
<1>4. QED BY <1>1, <1>2, <1>3

\* The next candidate is passed over or turned down.
LEMMA ToldWithout ==
  ASSUME NEW cs, NEW s, NEW o, NEW n \in Nat, NEW F, NEW L, NEW found,
         Told(F, L, found, cs, s, o, n), NEW more,
         \/ cs[n + 1].value = Absent
         \/ /\ cs[n + 1].value # Absent /\ CandidateIssues(cs[n + 1], s) # {}
            /\ \A code \in CandidateIssues(cs[n + 1], s) : <<code, cs[n + 1].field_path>> \in more
  PROVE  Told(F, L, found \cup more, cs, s, o, n + 1)
<1>1. 1..(n + 1) = (1..n) \cup {n + 1}
  OBVIOUS
<1>2. Kept(cs, s, n + 1) = Kept(cs, s, n)
  BY <1>1 DEF Kept
<1>3. FactsTold(F, cs, s, o, n + 1) /\ LinksTold(L, cs, s, o, n + 1)
  BY <1>2 DEF Told, FactsTold, LinksTold
<1>4. IssuesTold(found \cup more, cs, s, n + 1)
  BY <1>1 DEF Told, IssuesTold
<1>5. QED BY <1>3, <1>4 DEF Told

\* It is kept.
LEMMA ToldWith ==
  ASSUME NEW cs, NEW s, NEW o, NEW n \in Nat, NEW F, NEW L, NEW found,
         Told(F, L, found, cs, s, o, n),
         cs[n + 1].value # Absent, CandidateIssues(cs[n + 1], s) = {}
  PROVE  LET id == FactId(o, cs[n + 1])
         IN  Told(WithFactOnly(F, id, [confidence |-> cs[n + 1].confidence]),
                  L \cup LinksOf(id, cs[n + 1].evidence), found, cs, s, o, n + 1)
<1> DEFINE id == FactId(o, cs[n + 1])
           fact == [confidence |-> cs[n + 1].confidence]
           more == LinksOf(id, cs[n + 1].evidence)
           G == WithFactOnly(F, id, fact)
           of(k) == FactId(o, cs[k])
<1>1. 1..(n + 1) = (1..n) \cup {n + 1} /\ n + 1 \notin 1..n /\ \A l \in 1..n : l <= n + 1
  OBVIOUS
<1>2. Kept(cs, s, n + 1) = Kept(cs, s, n) \cup {n + 1} /\ Kept(cs, s, n) \subseteq 1..n
  BY <1>1 DEF Kept
<1>3. G = [f \in {id} \cup DOMAIN F |-> IF f = id THEN fact ELSE F[f]]
  BY DEF WithFactOnly
<1> HIDE DEF G
<1>4. DOMAIN G = {id} \cup DOMAIN F /\ G = [f \in DOMAIN G |-> G[f]]
  BY <1>3
<1>5. DOMAIN F = {of(k) : k \in Kept(cs, s, n)}
      /\ \A f \in DOMAIN F : \E k \in Kept(cs, s, n) :
           /\ of(k) = f /\ F[f] = [confidence |-> cs[k].confidence]
           /\ \A l \in Kept(cs, s, n) : of(l) = f => l <= k
  BY DEF Told, FactsTold
<1>6. DOMAIN G = {of(k) : k \in Kept(cs, s, n + 1)}
  BY <1>2, <1>4, <1>5
<1>7. ASSUME NEW f \in DOMAIN G
      PROVE  \E k \in Kept(cs, s, n + 1) :
               /\ of(k) = f /\ G[f] = [confidence |-> cs[k].confidence]
               /\ \A l \in Kept(cs, s, n + 1) : of(l) = f => l <= k
  <2>1. CASE f = id
    <3>1. G[f] = [confidence |-> cs[n + 1].confidence] /\ of(n + 1) = f /\ n + 1 \in Kept(cs, s, n + 1)
      BY <1>2, <1>3, <1>4, <2>1
    <3>2. \A l \in Kept(cs, s, n + 1) : l <= n + 1
      BY <1>1, <1>2
    <3> HIDE DEF of
    <3>3. QED BY <3>1, <3>2
  <2>2. CASE f # id
    <3>1. f \in DOMAIN F /\ G[f] = F[f]
      BY <1>3, <1>4, <2>2
    <3>2. PICK k \in Kept(cs, s, n) :
            /\ of(k) = f /\ F[f] = [confidence |-> cs[k].confidence]
            /\ \A l \in Kept(cs, s, n) : of(l) = f => l <= k
      BY <1>5, <3>1
    <3>3. of(n + 1) # f
      BY <2>2
    <3> HIDE DEF of
    <3>4. \A l \in Kept(cs, s, n + 1) : of(l) = f => l <= k
      BY <1>2, <3>2, <3>3
    <3>5. QED BY <1>2, <3>1, <3>2, <3>4
  <2>3. QED BY <2>1, <2>2
<1>8. FactsTold(G, cs, s, o, n + 1)
  BY <1>4, <1>6, <1>7 DEF FactsTold
<1>9. LinksTold(L \cup more, cs, s, o, n + 1)
  <2>1. L = UNION {LinksOf(of(k), cs[k].evidence) : k \in Kept(cs, s, n)}
    BY DEF Told, LinksTold
  <2>2. (UNION {LinksOf(of(k), cs[k].evidence) : k \in Kept(cs, s, n)}) \cup more
          = UNION {LinksOf(of(k), cs[k].evidence) : k \in Kept(cs, s, n + 1)}
    <3> DEFINE links(k) == LinksOf(of(k), cs[k].evidence)
    <3>1. more = links(n + 1)
      OBVIOUS
    <3> HIDE DEF links
    <3>2. (UNION {links(k) : k \in Kept(cs, s, n)}) \cup links(n + 1)
            = UNION {links(k) : k \in Kept(cs, s, n + 1)}
      BY <1>2
    <3>3. QED BY <3>1, <3>2 DEF links
  <2>3. QED BY <2>1, <2>2 DEF LinksTold
<1>10. IssuesTold(found, cs, s, n + 1)
  BY <1>1 DEF Told, IssuesTold
<1>11. QED BY <1>8, <1>9, <1>10 DEF Told, G

\* The whole list has answered for each of its candidates.
LEMMA ToldAnswers ==
  ASSUME NEW cs, IsList(cs), NEW s, NEW o, NEW F, NEW L, NEW found,
         Told(F, L, found, cs, s, o, Len(cs)), NEW c \in Range(cs)
  PROVE  \/ c.value = Absent
         \/ /\ CandidateIssues(c, s) = {} /\ FactId(o, c) \in DOMAIN F
            /\ LinksOf(FactId(o, c), c.evidence) \subseteq L
         \/ /\ CandidateIssues(c, s) # {}
            /\ \A code \in CandidateIssues(c, s) : <<code, c.field_path>> \in found
<1>1. PICK k \in 1..Len(cs) : cs[k] = c
  BY ListIsSeq DEF Range
<1>2. CASE c.value # Absent /\ CandidateIssues(c, s) = {}
  <2>1. k \in Kept(cs, s, Len(cs))
    BY <1>1, <1>2 DEF Kept
  <2>2. FactId(o, c) \in DOMAIN F
    BY <1>1, <2>1 DEF Told, FactsTold
  <2>3. LinksOf(FactId(o, c), c.evidence) \subseteq L
    BY <1>1, <2>1 DEF Told, LinksTold
  <2>4. QED BY <1>2, <2>2, <2>3
<1>3. CASE c.value # Absent /\ CandidateIssues(c, s) # {}
  BY <1>1, <1>3 DEF Told, IssuesTold
<1>4. QED BY <1>2, <1>3

-------------------------------------------------------------------------------
(***************************************************************************)
(* What the stages hold, for the results: a report that fits the output    *)
(* that passed, and the store and the issues as the candidates up to the   *)
(* queue left them.                                                        *)
(***************************************************************************)
Passed(m) == m # Absent => IsOutput(m) /\ OutputErrors(m) = {}

ReportFits(r, m, max_retries) ==
  /\ r = [status |-> r.status, retry_count |-> r.retry_count, errors |-> r.errors]
  /\ r.retry_count \in 0..max_retries
  /\ r.status # "success" => m = Absent
  /\ r.status = "failure" => r.errors # {}

Working == stage # "idle" =>
  /\ job \in Jobs /\ Len(results) < MaxRuns
  /\ Passed(model) /\ ReportFits(report, model, job.max_retries)

Validating == stage = "validating" =>
  /\ job.output # Absent /\ model = Absent /\ report = Skipped
  /\ attempt \in 1..Len(Attempts(job.output, job.repairs, job.max_retries))

Queued == stage \in {"validating", "idle", "gathering"} => queue = <<>>
Fresh == stage \in {"validating", "gathering"} => store = EmptyStore /\ issues = {}

\* The queue is what is left of the candidates after the first n.
Rest(q, cs, n) ==
  /\ IsList(q) /\ Len(q) = Len(cs) - n
  /\ \A k \in 1..Len(q) : q[k] = cs[n + k]

OnTheWay == stage = "materializing" =>
  LET cs == CandidatesOf(job.snapshot, model)
  IN \E n \in 0..Len(cs) :
       /\ Rest(queue, cs, n)
       /\ Told(store.facts, store.links, issues, cs, job.snapshot, ObservationId(job, model), n)

\* What Finish appends.
ResultFits(r) ==
  \E j \in Jobs, found \in SUBSET r.report.errors :
    LET m == r.extracted_json
        cs == CandidatesOf(j.snapshot, m)
    IN /\ r.snapshot = j.snapshot /\ r.observation_id = ObservationId(j, m)
       /\ Passed(m)
       /\ r.report.status # "success" => m = Absent
       /\ r.report.status = "failure" => r.report.errors # {}
       /\ Told(r.facts, r.links, found, cs, j.snapshot, ObservationId(j, m), Len(cs))
ResultsFit == \A n \in DOMAIN results : ResultFits(results[n])

NormalizedFit ==
  /\ \E S : normalized \in Seq(S)
  /\ Len(normalized) = Len(results) /\ Len(results) <= MaxRuns
  /\ \A n \in DOMAIN normalized : normalized[n] \in {Absent, NormalizedFacts(results[n])}

Stage == stage \in Stages
TInv ==
  /\ Stage /\ Working /\ Validating /\ Queued /\ Fresh /\ OnTheWay
  /\ ResultsListed /\ ResultsFit /\ NormalizedFit

LEMMA AttemptsTyped ==
  ASSUME NEW j \in Jobs, j.output # Absent
  PROVE  LET outputs == Attempts(j.output, j.repairs, j.max_retries)
         IN  /\ Len(outputs) \in 1..(1 + j.max_retries)
             /\ \A k \in 1..Len(outputs) : IsOutput(outputs[k])
<1> DEFINE S == {o \in Range(j.repairs) \cup {j.output} : IsOutput(o)}
           most == IF j.max_retries < Len(j.repairs) THEN j.max_retries ELSE Len(j.repairs)
           repairs == SubSeq(j.repairs, 1, most)
           outputs == Attempts(j.output, j.repairs, j.max_retries)
<1>1. /\ IsOutput(j.output) /\ j.max_retries \in Nat
      /\ IsList(j.repairs) /\ \A k \in DOMAIN j.repairs : IsOutput(j.repairs[k])
  BY JobsAssumption
<1>2. DOMAIN j.repairs = 1..Len(j.repairs) /\ Len(j.repairs) \in Nat
  BY <1>1, ListIsSeq
<1>3. j.repairs = [k \in 1..Len(j.repairs) |-> j.repairs[k]]
  BY <1>1 DEF IsList
<1>4. \A k \in 1..Len(j.repairs) : j.repairs[k] \in S
  BY <1>1, <1>2 DEF Range
<1>5. j.output \in S
  BY <1>1
<1>6. \A o \in S : IsOutput(o)
  OBVIOUS
<1> HIDE DEF S
<1>7. j.repairs \in Seq(S)
  BY <1>2, <1>3, <1>4
<1>8. most \in Nat /\ most <= Len(j.repairs) /\ most <= j.max_retries
  BY <1>1, <1>2
<1>9. outputs = <<j.output>> \o repairs
  BY DEF Attempts
<1> HIDE DEF most, outputs
<1>10. repairs \in Seq(S) /\ Len(repairs) = most
  BY <1>2, <1>7, <1>8, SubSeqProperties
<1> HIDE DEF repairs
<1>11. <<j.output>> \in Seq(S) /\ Len(<<j.output>>) = 1
  BY <1>5
<1>12. outputs \in Seq(S) /\ Len(outputs) = 1 + most
  BY <1>9, <1>10, <1>11, ConcatProperties
<1>13. \A k \in 1..Len(outputs) : outputs[k] \in S
  BY <1>12
<1>14. Len(outputs) \in 1..(1 + j.max_retries)
  BY <1>1, <1>8, <1>12
<1>15. QED BY <1>6, <1>13, <1>14 DEF outputs

LEMMA JudgedFits ==
  ASSUME NEW output, IsOutput(output), NEW n, NEW max_retries \in Nat, n \in 1..(1 + max_retries),
         NEW last \in BOOLEAN
  PROVE  LET verdict == Judged(output, n, last)
         IN  /\ ~last /\ ~verdict.done
             \/ /\ verdict.done /\ Passed(verdict.model)
                /\ ReportFits(verdict.report, verdict.model, max_retries)
<1> DEFINE errors == OutputErrors(output)
<1>1. n - 1 \in 0..max_retries
  OBVIOUS
<1>2. CASE errors = {}
  <2>1. Judged(output, n, last) = [done |-> TRUE, model |-> output,
          report |-> [status |-> "success", retry_count |-> n - 1, errors |-> {}]]
    BY <1>2 DEF Judged
  <2> DEFINE r == [status |-> "success", retry_count |-> n - 1, errors |-> {}]
  <2>2. ReportFits(r, output, max_retries)
    BY <1>1 DEF ReportFits
  <2>3. Passed(output)
    BY <1>2 DEF Passed
  <2> HIDE DEF r, errors
  <2>4. Judged(output, n, last) = [done |-> TRUE, model |-> output, report |-> r]
    BY <2>1 DEF r
  <2>5. QED BY <2>2, <2>3, <2>4
<1>3. CASE errors # {}
  <2>1. Judged(output, n, last) = [done |-> last, model |-> Absent,
          report |-> [status |-> "failure", retry_count |-> n - 1, errors |-> errors]]
    BY <1>3 DEF Judged
  <2> HIDE DEF errors
  <2>2. QED BY <1>1, <1>3, <2>1 DEF Passed, ReportFits
<1>4. QED BY <1>2, <1>3

LEMMA SnapshotOfJob ==
  ASSUME NEW j \in Jobs
  PROVE  IsSnapshot(j.snapshot) /\ j.max_retries \in Nat /\ (j.output # Absent => IsOutput(j.output))
BY JobsAssumption

LEMMA InitTInv == Init => TInv
<1> SUFFICES ASSUME Init PROVE TInv
  OBVIOUS
<1>1. /\ stage = "idle" /\ results = <<>> /\ normalized = <<>> /\ queue = <<>>
  BY DEF Init
<1>2. results \in Seq({}) /\ normalized \in Seq({}) /\ Len(results) = 0
  BY <1>1
<1>3. NormalizedFit
  BY <1>1, <1>2, RunsAssumption DEF NormalizedFit
<1>4. QED
  BY <1>1, <1>2, <1>3 DEF TInv, Stage, Stages, Working, Validating, Queued, Fresh, OnTheWay,
                          ResultsListed, ResultsFit

LEMMA BeginTInv ==
  ASSUME TInv, NEW j \in Jobs, Begin(j)
  PROVE  TInv'
<1>1. /\ stage' = (IF j.output = Absent THEN "gathering" ELSE "validating")
      /\ job' = j /\ attempt' = 1 /\ model' = Absent
      /\ report' = Skipped /\ queue' = <<>> /\ store' = EmptyStore /\ issues' = {}
      /\ UNCHANGED <<results, normalized>> /\ Len(results) < MaxRuns
  BY DEF Begin
<1>2. ReportFits(Skipped, Absent, j.max_retries)
  BY SnapshotOfJob DEF ReportFits, Skipped
<1>3. Working'
  BY <1>1, <1>2 DEF Working, Passed
<1>4. Validating'
  <2> SUFFICES ASSUME stage' = "validating"
               PROVE  /\ j.output # Absent
                      /\ attempt' \in 1..Len(Attempts(j.output, j.repairs, j.max_retries))
    BY <1>1 DEF Validating
  <2>1. j.output # Absent
    BY <1>1
  <2>2. Len(Attempts(j.output, j.repairs, j.max_retries)) \in 1..(1 + j.max_retries)
    BY <2>1, AttemptsTyped
  <2>3. QED BY <1>1, <2>1, <2>2, SnapshotOfJob
<1>5. Stage' /\ Queued' /\ Fresh' /\ OnTheWay'
  BY <1>1 DEF Stage, Stages, Queued, Fresh, OnTheWay
<1>6. QED BY <1>1, <1>3, <1>4, <1>5 DEF TInv, ResultsListed, ResultsFit, NormalizedFit

LEMMA ValidateTInv ==
  ASSUME TInv, Validate
  PROVE  TInv'
<1> DEFINE outputs == Attempts(job.output, job.repairs, job.max_retries)
           verdict == Judged(outputs[attempt], attempt, attempt = Len(outputs))
<1>1. /\ stage = "validating" /\ attempt' = attempt + 1
      /\ IF verdict.done
         THEN stage' = "gathering" /\ model' = verdict.model /\ report' = verdict.report
         ELSE UNCHANGED <<stage, model, report>>
      /\ UNCHANGED <<job, queue, store, issues, results, normalized>>
  BY DEF Validate
<1>2. /\ job \in Jobs /\ Len(results) < MaxRuns /\ job.output # Absent
      /\ model = Absent /\ report = Skipped /\ attempt \in 1..Len(outputs)
  BY <1>1 DEF TInv, Working, Validating
<1>3. Len(outputs) \in 1..(1 + job.max_retries) /\ IsOutput(outputs[attempt])
  BY <1>2, AttemptsTyped
<1>4. job.max_retries \in Nat /\ attempt \in 1..(1 + job.max_retries)
  BY <1>2, <1>3, SnapshotOfJob
<1> HIDE DEF outputs
<1>5. \/ attempt # Len(outputs) /\ ~verdict.done
      \/ /\ verdict.done /\ Passed(verdict.model)
         /\ ReportFits(verdict.report, verdict.model, job.max_retries)
  BY <1>3, <1>4, JudgedFits
<1> HIDE DEF verdict
<1>6. queue = <<>> /\ store = EmptyStore /\ issues = {}
  BY <1>1 DEF TInv, Queued, Fresh
<1>7. stage' \in {"validating", "gathering"}
  BY <1>1
<1>8. Stage' /\ Queued' /\ Fresh' /\ OnTheWay'
  BY <1>1, <1>6, <1>7 DEF Stage, Stages, Queued, Fresh, OnTheWay
<1>9. CASE verdict.done
  <2>1. Working' /\ Validating'
    BY <1>1, <1>2, <1>5, <1>9 DEF Working, Validating
  <2>2. QED BY <1>1, <1>8, <2>1 DEF TInv, ResultsListed, ResultsFit, NormalizedFit
<1>10. CASE ~verdict.done
  <2>1. attempt' \in 1..Len(outputs)
    BY <1>1, <1>2, <1>3, <1>4, <1>5, <1>10
  <2>2. Validating'
    BY <1>1, <1>2, <1>10, <2>1 DEF Validating, outputs
  <2>3. Working'
    BY <1>1, <1>10 DEF TInv, Working
  <2>4. QED BY <1>1, <1>8, <2>2, <2>3 DEF TInv, ResultsListed, ResultsFit, NormalizedFit
<1>11. QED BY <1>9, <1>10

LEMMA GatherTInv ==
  ASSUME TInv, Gather
  PROVE  TInv'
<1> DEFINE cs == CandidatesOf(job.snapshot, model)
<1>1. /\ stage = "gathering" /\ stage' = "materializing" /\ queue' = cs
      /\ UNCHANGED <<job, attempt, model, report, store, issues, results, normalized>>
  BY DEF Gather
<1>2. job \in Jobs /\ Passed(model) /\ store = EmptyStore /\ issues = {}
  BY <1>1 DEF TInv, Working, Fresh
<1>3. IsList(cs)
  BY <1>2, SnapshotOfJob, CandidatesListed DEF Passed
<1> HIDE DEF cs
<1>4. 0 \in 0..Len(cs) /\ Rest(cs, cs, 0)
  <2>1. Len(cs) \in Nat
    BY <1>3, ListIsSeq
  <2>2. QED BY <1>3, <2>1 DEF Rest
<1>5. Told(store.facts, store.links, issues, cs, job.snapshot, ObservationId(job, model), 0)
  BY <1>2, ToldNothing DEF EmptyStore
<1>6. OnTheWay'
  <2>1. /\ Rest(queue', cs, 0)
        /\ Told(store'.facts, store'.links, issues', cs, job'.snapshot, ObservationId(job', model'), 0)
    BY <1>1, <1>4, <1>5
  <2>2. cs = CandidatesOf(job'.snapshot, model')
    BY <1>1 DEF cs
  <2>3. QED BY <1>4, <2>1, <2>2 DEF OnTheWay
<1>7. Working'
  BY <1>1 DEF TInv, Working
<1>8. QED BY <1>1, <1>6, <1>7 DEF TInv, Stage, Stages, Validating, Queued, Fresh,
                                 ResultsListed, ResultsFit, NormalizedFit

\* One candidate after another.
LEMMA MaterializeTInv ==
  ASSUME TInv, IInv, Materialize
  PROVE  TInv'
<1> DEFINE cs == CandidatesOf(job.snapshot, model)
           o == ObservationId(job, model)
           c == Head(queue)
<1>1. /\ stage = "materializing" /\ queue # <<>> /\ queue' = Tail(queue)
      /\ PassOver(c) \/ TurnDown(c) \/ Keep(c)
      /\ UNCHANGED <<job, attempt, model, report, results, normalized>>
  BY DEF Materialize
<1>2. job \in Jobs /\ Passed(model)
  BY <1>1 DEF TInv, Working
<1>3. IsList(cs) /\ Len(cs) \in Nat
  BY <1>2, SnapshotOfJob, CandidatesListed, ListIsSeq DEF Passed
<1>4. PICK n \in 0..Len(cs) :
        /\ Rest(queue, cs, n)
        /\ Told(store.facts, store.links, issues, cs, job.snapshot, o, n)
  BY <1>1 DEF TInv, OnTheWay
<1> HIDE DEF cs, c
<1>5. /\ n + 1 \in 0..Len(cs) /\ n \in Nat /\ c = cs[n + 1] /\ Rest(queue', cs, n + 1)
  <2>1. IsList(queue) /\ Len(queue) = Len(cs) - n /\ \A k \in 1..Len(queue) : queue[k] = cs[n + k]
    BY <1>4 DEF Rest
  <2>2. queue \in Seq(Range(queue)) /\ Len(queue) \in Nat
    BY <2>1, ListIsSeq
  <2>3. Len(queue) # 0
    BY <1>1, <2>2, EmptySeq
  <2>4. n + 1 \in 0..Len(cs) /\ n \in Nat
    BY <1>3, <2>1, <2>2, <2>3
  <2>5. c = queue[1] /\ 1 \in 1..Len(queue)
    BY <1>1, <2>2, <2>3 DEF c
  <2>6. /\ queue' \in Seq(Range(queue)) /\ Len(queue') = Len(queue) - 1
        /\ \A k \in 1..Len(queue') : queue'[k] = queue[k + 1] /\ k + 1 \in 1..Len(queue)
    BY <1>1, <2>2, <2>3, HeadTailProperties
  <2>7. IsList(queue')
    BY <2>6, SeqIsList
  <2>8. \A k \in 1..Len(queue') : queue'[k] = cs[n + 1 + k]
    BY <2>1, <2>4, <2>6
  <2>9. Len(queue') = Len(cs) - (n + 1)
    BY <1>3, <2>1, <2>2, <2>4, <2>6
  <2>10. QED BY <2>1, <2>4, <2>5, <2>7, <2>8, <2>9 DEF Rest
<1>6. stage' = stage /\ Told(store'.facts, store'.links, issues', cs, job.snapshot, o, n + 1)
  <2>1. CASE PassOver(c)
    <3>1. cs[n + 1].value = Absent /\ UNCHANGED <<stage, store, issues>>
      BY <1>5, <2>1 DEF PassOver
    <3>2. Told(store.facts, store.links, issues \cup {}, cs, job.snapshot, o, n + 1)
      BY <1>4, <1>5, <3>1, ToldWithout
    <3>3. issues \cup {} = issues
      OBVIOUS
    <3>4. QED BY <3>1, <3>2, <3>3
  <2>2. CASE TurnDown(c)
    <3> DEFINE more == {<<code, c.field_path>> : code \in CandidateIssues(c, job.snapshot)}
    <3>1. /\ c.value # Absent /\ CandidateIssues(c, job.snapshot) # {}
          /\ issues' = issues \cup more /\ UNCHANGED <<stage, store>>
      BY <2>2 DEF TurnDown
    <3>2. \A code \in CandidateIssues(c, job.snapshot) : <<code, c.field_path>> \in more
      OBVIOUS
    <3> HIDE DEF more
    <3>3. Told(store.facts, store.links, issues \cup more, cs, job.snapshot, o, n + 1)
      BY <1>4, <1>5, <3>1, <3>2, ToldWithout
    <3>4. QED BY <3>1, <3>3
  <2>3. CASE Keep(c)
    <3>1. c.value # Absent /\ CandidateIssues(c, job.snapshot) = {} /\ issues' = issues
      BY <2>3 DEF Keep
    <3>2. /\ stage' = stage
          /\ store' = Stored(store, FactId(o, c), [confidence |-> c.confidence], c.evidence)
      BY <1>1, <2>3, KeepStores
    <3>3. IsStore(store)
      BY <1>1 DEF IInv, StoreSound
    <3>4. /\ store'.facts = WithFactOnly(store.facts, FactId(o, c), [confidence |-> c.confidence])
          /\ store'.links = store.links \cup LinksOf(FactId(o, c), c.evidence)
      BY <3>2, <3>3, StoredParts
    <3> HIDE DEF o
    <3>5. Told(WithFactOnly(store.facts, FactId(o, c), [confidence |-> c.confidence]),
               store.links \cup LinksOf(FactId(o, c), c.evidence), issues, cs, job.snapshot, o, n + 1)
      BY <1>4, <1>5, <3>1, ToldWith
    <3>6. QED BY <3>1, <3>2, <3>4, <3>5
  <2>4. QED BY <1>1, <2>1, <2>2, <2>3
<1>7. OnTheWay'
  <2>1. cs = CandidatesOf(job'.snapshot, model') /\ o = ObservationId(job', model')
    BY <1>1 DEF cs
  <2> HIDE DEF o
  <2>2. QED BY <1>1, <1>5, <1>6, <2>1 DEF OnTheWay
<1>8. Working' /\ Validating' /\ Queued' /\ Fresh' /\ Stage'
  BY <1>1, <1>6 DEF TInv, Working, Validating, Queued, Fresh, Stage
<1>9. QED BY <1>1, <1>7, <1>8 DEF TInv, ResultsListed, ResultsFit, NormalizedFit

LEMMA MergedFits ==
  ASSUME NEW base, NEW found, NEW m, NEW max, ReportFits(base, m, max)
  PROVE  LET r == Merged(base, found)
         IN  /\ found \subseteq r.errors
             /\ r.status # "success" => m = Absent
             /\ r.status = "failure" => r.errors # {}
<1>1. PICK st, rc, er : base = [status |-> st, retry_count |-> rc, errors |-> er]
  BY DEF ReportFits
<1>2. /\ st # "success" => m = Absent
      /\ st = "failure" => er # {}
  BY <1>1 DEF ReportFits
<1>3. CASE found = {}
  BY <1>1, <1>2, <1>3 DEF Merged
<1>4. CASE found # {}
  <2>1. Merged(base, found) = [ status |-> IF st = "skipped" THEN "success" ELSE st,
                                retry_count |-> rc, errors |-> er \cup found ]
    BY <1>1, <1>4 DEF Merged
  <2>2. QED BY <1>2, <2>1
<1>5. QED BY <1>3, <1>4

LEMMA FinishTInv ==
  ASSUME TInv, Finish
  PROVE  TInv'
<1> DEFINE cs == CandidatesOf(job.snapshot, model)
           o == ObservationId(job, model)
           merged == Merged(report, issues)
           new == [ observation_id |-> o, snapshot |-> job.snapshot,
                    extracted_json |-> model, report |-> merged,
                    evidence |-> store.evidence, facts |-> store.facts, links |-> store.links ]
<1>1. /\ stage = "materializing" /\ queue = <<>> /\ stage' = "idle"
      /\ results' = Append(results, new) /\ normalized' = Append(normalized, Absent)
      /\ UNCHANGED <<job, attempt, model, report, queue, store, issues>>
  BY DEF Finish
<1>2. job \in Jobs /\ Len(results) < MaxRuns /\ Passed(model) /\ ReportFits(report, model, job.max_retries)
  BY <1>1 DEF TInv, Working
<1>3. IsList(cs) /\ Len(cs) \in Nat
  BY <1>2, SnapshotOfJob, CandidatesListed, ListIsSeq DEF Passed
<1>4. Told(store.facts, store.links, issues, cs, job.snapshot, o, Len(cs))
  <2>1. PICK n \in 0..Len(cs) :
          /\ Rest(queue, cs, n)
          /\ Told(store.facts, store.links, issues, cs, job.snapshot, o, n)
    BY <1>1 DEF TInv, OnTheWay
  <2>2. n = Len(cs)
    <3> HIDE DEF cs
    <3>1. Len(queue) = 0 /\ Len(queue) = Len(cs) - n
      BY <1>1, <2>1 DEF Rest
    <3>2. QED BY <1>3, <3>1
  <2>3. QED BY <2>1, <2>2
<1>5. /\ issues \subseteq merged.errors
      /\ merged.status # "success" => model = Absent
      /\ merged.status = "failure" => merged.errors # {}
  BY <1>2, MergedFits
<1>6. ResultFits(new)
  <2>1. /\ new.snapshot = job.snapshot /\ new.observation_id = o /\ new.extracted_json = model
        /\ new.report = merged /\ new.facts = store.facts /\ new.links = store.links
    OBVIOUS
  <2>2. issues \in SUBSET new.report.errors
    BY <1>5, <2>1
  <2> HIDE DEF new, merged
  <2>3. QED BY <1>2, <1>4, <1>5, <2>1, <2>2 DEF ResultFits
<1> HIDE DEF new
<1>7. PICK R : results \in Seq(R)
  BY DEF TInv, ResultsListed
<1>8. /\ results \in Seq(R \cup {new}) /\ results' \in Seq(R \cup {new})
      /\ Len(results') = Len(results) + 1 /\ Len(results) \in Nat
      /\ DOMAIN results' = 1..(Len(results) + 1) /\ DOMAIN results = 1..Len(results)
      /\ results'[Len(results) + 1] = new
      /\ \A n \in 1..Len(results) : results'[n] = results[n]
  <2>1. results \in Seq(R \cup {new})
    BY <1>7
  <2>2. QED BY <1>1, <2>1
<1>9. ResultsFit'
  <2>1. ASSUME NEW n \in DOMAIN results' PROVE ResultFits(results'[n])
    <3>1. n = Len(results) + 1 \/ n \in 1..Len(results)
      BY <1>8
    <3>2. QED BY <1>6, <1>8, <3>1 DEF TInv, ResultsFit
  <2>2. QED BY <2>1 DEF ResultsFit, ResultFits
<1>10. NormalizedFit'
  <2>1. PICK S : normalized \in Seq(S)
    BY DEF TInv, NormalizedFit
  <2>2. normalized \in Seq(S \cup {Absent})
    BY <2>1
  <2>3. /\ Len(normalized) = Len(results) /\ Len(results) <= MaxRuns
        /\ \A n \in DOMAIN normalized : normalized[n] \in {Absent, NormalizedFacts(results[n])}
    BY DEF TInv, NormalizedFit
  <2>4. /\ normalized' \in Seq(S \cup {Absent}) /\ Len(normalized') = Len(results) + 1
        /\ DOMAIN normalized' = 1..(Len(results) + 1) /\ DOMAIN normalized = 1..Len(results)
        /\ normalized'[Len(results) + 1] = Absent
        /\ \A n \in 1..Len(results) : normalized'[n] = normalized[n]
    BY <1>1, <2>2, <2>3
  <2>5. ASSUME NEW n \in DOMAIN normalized'
        PROVE  normalized'[n] \in {Absent, NormalizedFacts(results'[n])}
    <3>1. n = Len(results) + 1 \/ n \in 1..Len(results)
      BY <1>8, <2>4
    <3>2. CASE n = Len(results) + 1
      BY <2>4, <3>2
    <3>3. CASE n \in 1..Len(results)
      BY <1>8, <2>3, <2>4, <3>3
    <3>4. QED BY <3>1, <3>2, <3>3
  <2>6. Len(results') <= MaxRuns
    BY <1>2, <1>8, RunsAssumption
  <2>7. QED BY <1>8, <2>4, <2>5, <2>6 DEF NormalizedFit
<1>11. ResultsListed'
  BY <1>8 DEF ResultsListed
<1>12. Stage' /\ Working' /\ Validating' /\ Queued' /\ Fresh' /\ OnTheWay'
  BY <1>1 DEF Stage, Stages, Working, Validating, Queued, Fresh, OnTheWay
<1>13. QED BY <1>9, <1>10, <1>11, <1>12 DEF TInv

LEMMA NormalizeTInv ==
  ASSUME TInv, NEW m \in DOMAIN normalized, Normalize(m)
  PROVE  TInv'
<1>1. /\ stage = "idle" /\ normalized' = [normalized EXCEPT ![m] = NormalizedFacts(results[m])]
      /\ UNCHANGED <<stage, job, attempt, model, report, queue, store, issues, results>>
  BY DEF Normalize
<1>2. NormalizedFit'
  <2>1. PICK S : normalized \in Seq(S)
    BY DEF TInv, NormalizedFit
  <2> DEFINE norm == NormalizedFacts(results[m])
  <2>2. normalized \in Seq(S \cup {norm})
    BY <2>1
  <2> HIDE DEF norm
  <2>3. /\ normalized' \in Seq(S \cup {norm}) /\ Len(normalized') = Len(normalized)
        /\ DOMAIN normalized' = DOMAIN normalized
        /\ \A n \in DOMAIN normalized : normalized'[n] = IF n = m THEN norm ELSE normalized[n]
    BY <1>1, <2>2 DEF norm
  <2>4. \A n \in DOMAIN normalized' : normalized'[n] \in {Absent, NormalizedFacts(results'[n])}
    BY <1>1, <2>3 DEF TInv, NormalizedFit, norm
  <2>5. Len(normalized') = Len(results') /\ Len(results') <= MaxRuns
    BY <1>1, <2>3 DEF TInv, NormalizedFit
  <2>6. QED BY <2>3, <2>4, <2>5 DEF NormalizedFit
<1>3. QED BY <1>1, <1>2 DEF TInv, Stage, Working, Validating, Queued, Fresh, OnTheWay,
                            ResultsListed, ResultsFit

LEMMA NextTInv == TInv /\ IInv /\ [Next]_vars => TInv'
<1> SUFFICES ASSUME TInv, IInv, [Next]_vars PROVE TInv'
  OBVIOUS
<1>1. CASE UNCHANGED vars
  BY <1>1 DEF vars, TInv, Stage, Working, Validating, Queued, Fresh, OnTheWay,
              ResultsListed, ResultsFit, NormalizedFit
<1>2. QED
  BY <1>1, BeginTInv, ValidateTInv, GatherTInv, MaterializeTInv, FinishTInv, NormalizeTInv DEF Next

LEMMA InductiveT == Spec => []TInv
  BY InitTInv, NextTInv, Inductive, PTL DEF Spec

-------------------------------------------------------------------------------
(***************************************************************************)
(* What the results fit, said of the properties.                           *)
(***************************************************************************)
\* The candidates of a result's own snapshot and output.
LEMMA ResultParts ==
  ASSUME NEW r, ResultFits(r)
  PROVE  \E j \in Jobs, found \in SUBSET r.report.errors :
           LET m == r.extracted_json
               cs == CandidatesOf(j.snapshot, m)
           IN /\ r.snapshot = j.snapshot /\ r.observation_id = ObservationId(j, m)
              /\ Passed(m) /\ IsList(cs) /\ Len(cs) \in Nat
              /\ Range(cs) = Range(OfPage(j.snapshot)) \cup
                             (IF m = Absent THEN {} ELSE Range(StructuredCandidates(m)))
              /\ Told(r.facts, r.links, found, cs, j.snapshot, ObservationId(j, m), Len(cs))
<1>1. PICK j \in Jobs, found \in SUBSET r.report.errors :
        LET m == r.extracted_json
            cs == CandidatesOf(j.snapshot, m)
        IN /\ r.snapshot = j.snapshot /\ r.observation_id = ObservationId(j, m)
           /\ Passed(m)
           /\ Told(r.facts, r.links, found, cs, j.snapshot, ObservationId(j, m), Len(cs))
  BY DEF ResultFits
<1> DEFINE m == r.extracted_json
           cs == CandidatesOf(j.snapshot, m)
<1>2. /\ IsList(cs)
      /\ Range(cs) = Range(OfPage(j.snapshot)) \cup
                     (IF m = Absent THEN {} ELSE Range(StructuredCandidates(m)))
  BY <1>1, SnapshotOfJob, CandidatesListed, DeterministicListed DEF Passed
<1>3. Len(cs) \in Nat
  BY <1>2, ListIsSeq
<1>4. QED BY <1>1, <1>2, <1>3

LEMMA AllAnswered ==
  ASSUME NEW r, ResultFits(r)
  PROVE  LET cs == JsonLdCandidates(r.snapshot) \o RegexCandidates(r.snapshot)
                   \o (IF r.extracted_json = Absent THEN <<>>
                       ELSE StructuredCandidates(r.extracted_json))
         IN  \A i \in DOMAIN cs : Answered(cs[i], r)
<1> DEFINE m == r.extracted_json
           rest == IF m = Absent THEN <<>> ELSE StructuredCandidates(m)
           all == JsonLdCandidates(r.snapshot) \o RegexCandidates(r.snapshot) \o rest
<1>1. PICK j \in Jobs, found \in SUBSET r.report.errors :
        /\ r.snapshot = j.snapshot /\ r.observation_id = ObservationId(j, m)
        /\ Passed(m) /\ IsList(CandidatesOf(j.snapshot, m))
        /\ Range(CandidatesOf(j.snapshot, m)) = Range(OfPage(j.snapshot)) \cup
                       (IF m = Absent THEN {} ELSE Range(StructuredCandidates(m)))
        /\ Told(r.facts, r.links, found, CandidatesOf(j.snapshot, m), j.snapshot,
                ObservationId(j, m), Len(CandidatesOf(j.snapshot, m)))
  BY ResultParts
<1> DEFINE cs == CandidatesOf(j.snapshot, m)
<1>2. IsList(OfPage(r.snapshot))
  BY <1>1, SnapshotOfJob, JsonLdTyped, RegexTyped, GoodJoined DEF OfPage, GoodList
<1>3. IsList(rest) /\ Range(rest) = IF m = Absent THEN {} ELSE Range(StructuredCandidates(m))
  BY <1>1, ShortLists, StructuredListed DEF Passed, GoodList
<1>4. all = OfPage(r.snapshot) \o rest
  BY DEF OfPage
<1> HIDE DEF all, rest, cs
<1>5. IsList(all) /\ Range(all) = Range(OfPage(r.snapshot)) \cup Range(rest)
  BY <1>2, <1>3, <1>4, Joined
<1>6. Range(all) = Range(cs)
  BY <1>1, <1>3, <1>5 DEF cs
<1>7. ASSUME NEW i \in DOMAIN all PROVE Answered(all[i], r)
  <2> DEFINE c == all[i]
  <2>1. c \in Range(cs)
    BY <1>6 DEF Range
  <2> HIDE DEF c
  <2>2. \/ c.value = Absent
        \/ /\ CandidateIssues(c, j.snapshot) = {} /\ FactId(ObservationId(j, m), c) \in DOMAIN r.facts
           /\ LinksOf(FactId(ObservationId(j, m), c), c.evidence) \subseteq r.links
        \/ /\ CandidateIssues(c, j.snapshot) # {}
           /\ \A code \in CandidateIssues(c, j.snapshot) : <<code, c.field_path>> \in found
    BY <1>1, <2>1, ToldAnswers DEF cs
  <2>3. \A id : \A k \in DOMAIN c.evidence :
          [fact_id |-> id, evidence_id |-> c.evidence[k], rank |-> k] \in LinksOf(id, c.evidence)
    BY DEF LinksOf
  <2>4. Answered(c, r)
    BY <1>1, <2>2, <2>3 DEF Answered
  <2>5. QED BY <2>4 DEF c
<1>8. QED BY <1>7 DEF all, rest

LEMMA NormalizedPreserves ==
  ASSUME NEW r
  PROVE  Preserved(NormalizedFacts(r), r)
<1> SUFFICES ASSUME NEW f \in DOMAIN r.facts
             PROVE  \E norm \in NormalizedFacts(r) :
                      /\ norm.raw_fact_id = f /\ norm.raw_value = f[3]
                      /\ \A link \in r.links : link.fact_id = f => link.evidence_id \in norm.evidence_ids
  BY DEF Preserved
<1> DEFINE refs == {link.evidence_id : link \in {l \in r.links : l.fact_id = f}}
           norm == [ raw_fact_id |-> f, field_path |-> f[2], raw_value |-> f[3],
                     normalized_value |-> NormalizedValue(f[2], f[3]), evidence_ids |-> refs ]
<1>1. norm \in NormalizedFacts(r)
  BY DEF NormalizedFacts
<1>2. \A link \in r.links : link.fact_id = f => link.evidence_id \in refs
  OBVIOUS
<1>3. norm.raw_fact_id = f /\ norm.raw_value = f[3] /\ norm.evidence_ids = refs
  OBVIOUS
<1> HIDE DEF norm, refs
<1>4. QED BY <1>1, <1>2, <1>3

LEMMA FitDroppedNothing == TInv => NothingDropped
<1> SUFFICES ASSUME TInv, NEW n \in DOMAIN results
             PROVE  /\ LET cs == JsonLdCandidates(results[n].snapshot) \o RegexCandidates(results[n].snapshot)
                                 \o (IF results[n].extracted_json = Absent THEN <<>>
                                     ELSE StructuredCandidates(results[n].extracted_json))
                       IN  \A i \in DOMAIN cs : Answered(cs[i], results[n])
                    /\ normalized[n] # Absent => Preserved(normalized[n], results[n])
  BY DEF NothingDropped
<1>1. ResultFits(results[n])
  BY DEF TInv, ResultsFit
<1>2. n \in DOMAIN normalized
  BY DEF TInv, NormalizedFit, ResultsListed
<1>3. normalized[n] # Absent => normalized[n] = NormalizedFacts(results[n])
  BY <1>2 DEF TInv, NormalizedFit
<1>4. QED BY <1>1, <1>3, AllAnswered, NormalizedPreserves

LEMMA FitSameFacts == TInv => SameIdSameFacts
<1> SUFFICES ASSUME TInv, NEW x \in DOMAIN results, NEW y \in DOMAIN results,
                    results[x].observation_id = results[y].observation_id
             PROVE  results[x].facts = results[y].facts /\ results[x].links = results[y].links
  BY DEF SameIdSameFacts
<1> DEFINE Tells(r, j, found) ==
             LET m == r.extracted_json
                 cs == CandidatesOf(j.snapshot, m)
             IN /\ r.observation_id = ObservationId(j, m) /\ Len(cs) \in Nat
                /\ Told(r.facts, r.links, found, cs, j.snapshot, ObservationId(j, m), Len(cs))
<1>1. PICK j \in Jobs : \E found : Tells(results[x], j, found)
  BY ResultParts DEF TInv, ResultsFit
<1>2. PICK k \in Jobs : \E found : Tells(results[y], k, found)
  BY ResultParts DEF TInv, ResultsFit
<1>3. ObservationId(j, results[x].extracted_json) = ObservationId(k, results[y].extracted_json)
  BY <1>1, <1>2, Zenon
<1>4. /\ j.snapshot.snapshot_id = k.snapshot.snapshot_id
      /\ results[x].extracted_json = results[y].extracted_json
  BY <1>3 DEF ObservationId
<1>5. j.snapshot = k.snapshot
  BY <1>4, SnapshotsAssumption
<1> DEFINE cs == CandidatesOf(j.snapshot, results[x].extracted_json)
           o == ObservationId(j, results[x].extracted_json)
<1>6. /\ Len(cs) \in Nat
      /\ \E found : Told(results[x].facts, results[x].links, found, cs, j.snapshot, o, Len(cs))
      /\ \E others : Told(results[y].facts, results[y].links, others, cs, j.snapshot, o, Len(cs))
  BY <1>1, <1>2, <1>3, <1>4, <1>5
<1> HIDE DEF cs, o
<1>7. QED BY <1>6, ToldOnce

LEMMA FitValid == TInv => OnlyValidOutput
<1> SUFFICES ASSUME TInv, NEW n \in DOMAIN results
             PROVE  LET r == results[n]
                        structured == {f \in DOMAIN r.facts : f[4] = "structured-output"}
                    IN /\ \A f \in structured : f[3].form \in ExpectedForms(f[2])
                       /\ r.report.status # "success" => structured = {}
                       /\ r.report.status = "failure" =>
                            r.extracted_json = Absent /\ r.report.errors # {}
  BY DEF OnlyValidOutput
<1> DEFINE r == results[n]
           m == r.extracted_json
<1>1. /\ r.report.status # "success" => m = Absent
      /\ r.report.status = "failure" => r.report.errors # {}
  BY DEF TInv, ResultsFit, ResultFits
<1>2. PICK j \in Jobs, found \in SUBSET r.report.errors :
        /\ Passed(m) /\ IsList(CandidatesOf(j.snapshot, m))
        /\ Range(CandidatesOf(j.snapshot, m)) = Range(OfPage(j.snapshot)) \cup
                       (IF m = Absent THEN {} ELSE Range(StructuredCandidates(m)))
        /\ Told(r.facts, r.links, found, CandidatesOf(j.snapshot, m), j.snapshot,
                ObservationId(j, m), Len(CandidatesOf(j.snapshot, m)))
  BY ResultParts DEF TInv, ResultsFit
<1> DEFINE cs == CandidatesOf(j.snapshot, m)
<1>3. ASSUME NEW f \in DOMAIN r.facts, f[4] = "structured-output"
      PROVE  m # Absent /\ f[3].form \in ExpectedForms(f[2])
  <2>1. PICK k \in Kept(cs, j.snapshot, Len(cs)) : f = FactId(ObservationId(j, m), cs[k])
    BY <1>2 DEF Told, FactsTold
  <2> DEFINE c == cs[k]
  <2>2. c \in Range(cs) /\ c.value # Absent
    <3>1. k \in DOMAIN cs
      BY <1>2, ListIsSeq DEF Kept
    <3>2. QED BY <3>1 DEF Range, Kept
  <2>3. f[2] = c.field_path /\ f[3] = c.value /\ c.extractor = "structured-output"
    BY <1>3, <2>1 DEF FactId
  <2> HIDE DEF c
  <2>4. c \notin Range(OfPage(j.snapshot))
    <3>1. \A d \in Range(OfPage(j.snapshot)) : d.extractor \in OnPages
      BY SnapshotOfJob, DeterministicListed DEF GoodList, Good
    <3>2. QED BY <2>3, <3>1 DEF OnPages
  <2>5. m # Absent /\ c \in Range(StructuredCandidates(m))
    BY <1>2, <2>2, <2>4
  <2>6. IsOutput(m) /\ OutputErrors(m) = {}
    BY <1>2, <2>5 DEF Passed
  <2>7. PICK i \in DOMAIN m.fields : c = OfField(m.fields[i])
    BY <2>5, <2>6, StructuredListed
  <2>8. TypeErrors(m) = {}
    BY <2>6 DEF OutputErrors
  <2>9. c.value = m.fields[i].value /\ c.field_path = m.fields[i].path
    BY <2>7 DEF OfField
  <2>10. c.value.form \in ExpectedForms(c.field_path)
    BY <2>2, <2>8, <2>9 DEF TypeErrors
  <2>11. QED BY <2>3, <2>5, <2>10
<1>4. QED BY <1>1, <1>3

LEMMA FitTyped == TInv => TypeOK
  BY DEF TInv, Stage, Working, Queued, NormalizedFit, ReportFits, TypeOK

(***************************************************************************)
(* The stages, the queue and the lists are what they should be, and no     *)
(* report counts more repairs than were allowed.                           *)
(***************************************************************************)
THEOREM ExtractionTyped == Spec => []TypeOK
  BY InductiveT, FitTyped, PTL

(***************************************************************************)
(* Every value found on a page or in an output that passed is a fact of    *)
(* the result with all of its evidence, or the report says what is wrong   *)
(* with it; normalization keeps the facts and their evidence.              *)
(***************************************************************************)
THEOREM ExtractionDropsNothing == Spec => []NothingDropped
  BY InductiveT, FitDroppedNothing, PTL

(***************************************************************************)
(* Observations of one id have the same facts and links.                   *)
(***************************************************************************)
THEOREM ExtractionRepeats == Spec => []SameIdSameFacts
  BY InductiveT, FitSameFacts, PTL

(***************************************************************************)
(* An output that did not pass validation leaves no fact.                  *)
(***************************************************************************)
THEOREM ExtractionValid == Spec => []OnlyValidOutput
  BY InductiveT, FitValid, PTL
===============================================================================

---------------------------------- MODULE Search ----------------------------------
(***************************************************************************)
(* Search, from a spec to a ranked answer: SearchSpecService stores parsed *)
(* specs, RankingService.rank retrieves candidates by keyword, reads their *)
(* documents one by one, applies the hard filters, scores, and spreads the *)
(* results over buildings, neighborhoods and sources, for which it reads   *)
(* the repository again.  Documents and specs may be replaced in between.  *)
(*                                                                         *)
(* Retrieval by vector is left out: rank never asks for it.                *)
(***************************************************************************)
EXTENDS HardFilters

CONSTANTS
  Ids,              \* listing ids
  Documents,        \* for each of them, the documents that may be stored
  SpecIds,
  Payloads,         \* for each spec id, the payloads that may come
  CandidateLimit,   \* candidate_limit
  ResultLimit,      \* the limit of a request
  PerBuilding, PerNeighborhood, PerSource,
  BlockedFields, MaxFields, MaxEvidence,
  Blank, SchemaVersion, Known, NeighborhoodAlias, FeatureAlias, Underscored

Parser == INSTANCE SpecParser

ASSUME IdsAssumption == Ids \subseteq Nat /\ IsFiniteSet(Ids)

ASSUME LimitsAssumption ==
  /\ {CandidateLimit, ResultLimit, PerBuilding, PerNeighborhood, PerSource,
      MaxFields, MaxEvidence} \subseteq Nat
  /\ Threshold \in Int /\ Absent \notin Int

\* What the tables of aliases lead to, they leave alone.
ASSUME AliasesAssumption ==
  /\ \A word \in DOMAIN NeighborhoodAlias : LET name == NeighborhoodAlias[word] IN
       name # Blank /\ Parser!Applied(NeighborhoodAlias, name) = name
  /\ \A word \in DOMAIN FeatureAlias \cup DOMAIN Underscored : LET name == Parser!Feature(word) IN
       name # Blank /\ Parser!Feature(name) = name

ASSUME PayloadsAssumption ==
  \A s \in SpecIds : \A payload \in Payloads[s] : payload.parses =>
    /\ payload.spec # Absent /\ Parser!IsSpec(payload.spec)
    /\ IsFiniteSet(payload.spec.hard.commute_max)
    /\ Parser!Features(payload.spec.hard.must_have \cup payload.spec.hard.must_not)
         \subseteq DOMAIN Spellings

\* Evidence is kept for each field, and names are those of the fields.
ASSUME DocumentsAssumption ==
  \A i \in Ids : \A doc \in Documents[i] :
    /\ doc # Absent /\ IsDescribed(doc)
    /\ IsFiniteSet(DOMAIN doc.title) /\ IsFiniteSet(DOMAIN doc.body)
    /\ IsFiniteSet(DOMAIN doc.names) /\ DOMAIN doc.names \subseteq Nat
    /\ \A k \in DOMAIN doc.names : doc.names[k] \in DOMAIN doc.fields
    /\ \A name \in DOMAIN doc.fields :
         IsFiniteSet(doc.evidence[name]) /\ doc.evidence[name] \subseteq Int

VARIABLES
  docs,        \* the ListingRepository: a document or Absent for each id
  specs,       \* the SearchSpecRepository
  request,     \* the spec that is ranked, or Absent
  todo,        \* its candidates whose documents are still to be read
  read,        \* those that were read, a set of <<id, document>>
  answer       \* what a request just returned: it is gone with the next step
vars == <<docs, specs, request, todo, read, answer>>

-------------------------------------------------------------------------------
(***************************************************************************)
(* Retrieval and scores.                                                   *)
(***************************************************************************)
Counted(tokens, keywords) ==
  Cardinality({p \in (DOMAIN keywords) \X (DOMAIN tokens) : keywords[p[1]] = tokens[p[2]]})

FtsScore(doc, keywords) == 2 * Counted(doc.title, keywords) + Counted(doc.body, keywords)

\* The ids of pairs <<score, id>>, higher scores first and ties by id, up to a limit.
InOrder(pairs, limit) ==
  LET Before(p, q) == p[1] > q[1] \/ (p[1] = q[1] /\ p[2] < q[2])
      n == Cardinality(pairs)
  IN [k \in 1..(IF n < limit THEN n ELSE limit) |->
        (CHOOSE p \in pairs : Cardinality({q \in pairs : Before(q, p)}) = k - 1)[2]]

\* fts_search, and retrieve, which finds nothing to add.
Retrieved(keywords) ==
  LET scored == {<<FtsScore(docs[i], keywords), i>> : i \in {j \in Ids : docs[j] # Absent}}
  IN InOrder({p \in scored : p[1] > 0}, CandidateLimit)

\* A term of the utility, in ten-thousandths, and the confidence that goes with it.
NoTerm == <<>>
Above0(n) == IF n > 0 THEN n ELSE 0
PriceTerm(doc, hard) ==
  IF "price" \notin DOMAIN doc.fields \/ hard.price_max \in {Absent, 0} THEN NoTerm
  ELSE LET best == Resolved(doc.fields["price"])
       IN <<[ gain |-> IF ~IsNumber(best.value) THEN 0
                       ELSE Above0(((hard.price_max - best.value.size) * 10000) \div hard.price_max),
              confidence |-> best.confidence ]>>
AtLeastTerm(doc, name, min, gain) ==
  IF name \notin DOMAIN doc.fields \/ min = Absent THEN NoTerm
  ELSE LET best == Resolved(doc.fields[name])
       IN IF ~IsNumber(best.value) THEN NoTerm
          ELSE <<[gain |-> IF best.value.size >= min THEN gain ELSE 0, confidence |-> best.confidence]>>
CommuteTerm(doc, limit) ==
  LET found == doc.commutes[limit.label]
      max == IF limit.max < 1 THEN 1 ELSE limit.max
  IN [gain |-> Above0(((max - found.duration) * 10000) \div max), confidence |-> found.confidence]

Total(amounts) ==
  LET sum[n \in 0..Len(amounts)] == IF n = 0 THEN 0 ELSE sum[n - 1] + amounts[n]
  IN sum[Len(amounts)]

\* _score: utility times mean confidence, rounded to the ten-thousandth.
Final(doc, spec) ==
  LET hard == spec.hard
      limits == SetToSeq({limit \in hard.commute_max : limit.label \in DOMAIN doc.commutes})
      terms == PriceTerm(doc, hard) \o AtLeastTerm(doc, "beds", hard.beds_min, 5000)
               \o AtLeastTerm(doc, "baths", hard.baths_min, 2500)
               \o [k \in DOMAIN limits |-> CommuteTerm(doc, limits[k])]
      utility == Total([k \in DOMAIN terms |-> terms[k].gain])
      sure == Total([k \in DOMAIN terms |-> terms[k].confidence])
      n == Len(terms)
  IN IF n = 0 THEN 0 ELSE (2 * utility * sure + 10 * n) \div (20 * n)

-------------------------------------------------------------------------------
(***************************************************************************)
(* What becomes of the documents that were read.                           *)
(***************************************************************************)
\* _apply_hard_filters
Filtered(found, spec) == {r \in found : Evaluated(r[2], spec).passes}

\* One field of the payload, with its evidence in order.
FieldPayload(doc, name) ==
  LET best == Resolved(doc.fields[name])
  IN [ field |-> name, value |-> best.value, confidence |-> best.confidence,
       evidence |-> InOrder({<<0, e>> : e \in doc.evidence[name]}, MaxEvidence) ]

\* Mutant: fields are blocked after they are counted off, by a name that is too late.
PayloadUnblocked(doc) ==
  {FieldPayload(doc, doc.names[k]) : k \in {j \in DOMAIN doc.names : j <= MaxFields}}

\* The first fields, in order, that are not blocked; long text is left out after that.
Payload(doc) ==
  LET allowed == {k \in DOMAIN doc.names : doc.names[k] \notin BlockedFields}
      offered == {k \in allowed : Cardinality({j \in allowed : j < k}) < MaxFields}
  IN {p \in {FieldPayload(doc, doc.names[k]) : k \in offered} : p.value.kind # "essay"}

\* _build_rerank_payload, whose order is that of the candidates.
RerankPayload(kept) == {[listing_id |-> r[1], fields |-> Payload(r[2])] : r \in kept}

Buckets(doc) == {<<"building", doc.building>>, <<"neighborhood", doc.neighborhood>>, <<"source", doc.source>>}
CapOf(bucket) ==
  CASE bucket[1] = "building" -> PerBuilding
    [] bucket[1] = "neighborhood" -> PerNeighborhood
    [] OTHER -> PerSource
Holding(ids, lookup, bucket) ==
  {k \in DOMAIN ids : lookup[ids[k]] # Absent /\ bucket \in Buckets(lookup[ids[k]])}

\* Mutant: one more fits in.
TakenOver(taken, i, lookup) ==
  IF /\ lookup[i] # Absent
     /\ \E b \in Buckets(lookup[i]) : Cardinality(Holding(taken, lookup, b)) > CapOf(b)
  THEN taken ELSE Append(taken, i)

\* One round of _apply_diversity_caps.
Taken(taken, i, lookup) ==
  IF /\ lookup[i] # Absent
     /\ \E b \in Buckets(lookup[i]) : Cardinality(Holding(taken, lookup, b)) >= CapOf(b)
  THEN taken ELSE Append(taken, i)

Diversified(order, lookup) ==
  LET taken[n \in 0..Len(order)] ==
        IF n = 0 THEN <<>> ELSE Taken(taken[n - 1], order[n], lookup)
  IN taken[Len(order)]

-------------------------------------------------------------------------------
NoAnswer == [spec |-> Absent]

Init ==
  /\ docs = [i \in Ids |-> Absent] /\ specs = [s \in SpecIds |-> Absent]
  /\ request = Absent /\ todo = <<>> /\ read = {} /\ answer = NoAnswer

\* ListingRepository.add
Add(i, doc) ==
  /\ docs' = [docs EXCEPT ![i] = doc]
  /\ answer' = NoAnswer
  /\ UNCHANGED <<specs, request, todo, read>>

\* create_from_payload: a payload with errors stores nothing.
Create(s, payload) ==
  LET parsed == Parser!Parsed(payload)
  IN /\ parsed.errors = {}
     /\ specs' = [specs EXCEPT ![s] = parsed.spec]
     /\ answer' = NoAnswer
     /\ UNCHANGED <<docs, request, todo, read>>

\* rank is called with a spec of the repository, and retrieves.
Request(s) ==
  /\ request = Absent /\ specs[s] # Absent
  /\ request' = Parser!Read(specs[s])
  /\ todo' = Retrieved(request'.keywords)
  /\ read' = {}
  /\ answer' = NoAnswer
  /\ UNCHANGED <<docs, specs>>

\* One round of _hydrate_listings.
Hydrate ==
  /\ request # Absent /\ todo # <<>>
  /\ read' = IF docs[Head(todo)] = Absent THEN read ELSE read \cup {<<Head(todo), docs[Head(todo)]>>}
  /\ todo' = Tail(todo)
  /\ UNCHANGED <<docs, specs, request, answer>>

\* The rest of rank.  "by" remembers the repository that the caps were applied by.
Rank ==
  LET kept == Filtered(read, request)
      scored == {<<Final(r[2], request), r[1]>> : r \in kept}
      order == InOrder(scored, Cardinality(scored))
      taken == Diversified(order, docs)
      Result(i, k) ==
        [ listing_id |-> i, rank |-> k, final |-> (CHOOSE p \in scored : p[2] = i)[1],
          flags |-> Evaluated((CHOOSE r \in kept : r[1] = i)[2], request).flags ]
  IN /\ request # Absent /\ todo = <<>>
     /\ answer' =
          [ spec |-> request, read |-> read, by |-> docs, order |-> order,
            results |-> [k \in 1..(IF ResultLimit < Len(taken) THEN ResultLimit ELSE Len(taken)) |->
                           Result(taken[k], k)],
            rerank_payload |-> RerankPayload(kept) ]
     /\ request' = Absent /\ read' = {}
     /\ UNCHANGED <<docs, specs, todo>>

Next ==
  \/ \E i \in Ids : \E doc \in Documents[i] : Add(i, doc)
  \/ \E s \in SpecIds : \E payload \in Payloads[s] : Create(s, payload)
  \/ \E s \in SpecIds : Request(s)
  \/ Hydrate
  \/ Rank

Spec == Init /\ [][Next]_vars

-------------------------------------------------------------------------------
(***************************************************************************)
(* Properties.                                                             *)
(***************************************************************************)
Answered == answer # NoAnswer
Ranked == {answer.results[k].listing_id : k \in DOMAIN answer.results}
ResultOf(i) == CHOOSE result \in Range(answer.results) : result.listing_id = i

\* The alternatives that nothing outweighs.
Strongest(field) ==
  {field[k] : k \in {j \in DOMAIN field : \A m \in DOMAIN field : field[m].confidence <= field[j].confidence}}
Surely(field) == \A a \in Strongest(field) : a.confidence >= Threshold

\* The constraints of a spec that fields decide, each with what it is about.
Numbers == {"price", "beds", "baths"}
Dates == {"available_now", "move_in_after"}
Constraints(hard) ==
  {<<about>> : about \in Numbers \cup Dates}
  \cup ({"must_have"} \X hard.must_have) \cup ({"must_not"} \X hard.must_not)
IsWish(c) == c[1] \in {"must_have", "must_not"}
About(c) == IF IsWish(c) THEN <<"feature", c[2]>> ELSE c

\* The fields that speak of a feature: those that spell it, and if there is none the
\* first list of features.
FeatureFields(doc, feature) ==
  LET own == Range(Spellings[feature]) \cap DOMAIN doc.fields
  IN IF own # {} THEN own ELSE {ListName(doc)} \cap DOMAIN doc.fields

\* The fields that speak of a constraint.
FieldsOn(doc, c) ==
  IF IsWish(c) THEN FeatureFields(doc, c[2])
  ELSE {IF c[1] \in Dates THEN "availability" ELSE c[1]} \cap DOMAIN doc.fields

\* What a value of a field says of a feature.
Attests(name, v, feature) ==
  IF name \in Range(Spellings[feature]) THEN Truthy(v) ELSE Lists(v, feature)

\* A value of a field speaks against a constraint.
Outside(amount, lo, hi) ==
  \/ lo # Absent /\ amount < lo
  \/ hi # Absent /\ amount > hi
Beyond(v, lo, hi) == IsNumber(v) /\ Outside(v.size, lo, hi)
Untimely(date, earliest, latest) == date # Absent /\ Outside(date, earliest, latest)
Against(c, name, v, spec) ==
  LET hard == spec.hard
      date == DateOf(v, spec.day)
  IN \/ c[1] = "price" /\ Beyond(v, hard.price_min, hard.price_max)
     \/ c[1] = "beds" /\ Beyond(v, hard.beds_min, Absent)
     \/ c[1] = "baths" /\ Beyond(v, hard.baths_min, Absent)
     \/ c[1] = "available_now" /\ hard.available_now /\ Untimely(date, Absent, spec.day)
     \/ c[1] = "move_in_after" /\ Untimely(date, hard.move_in_after, Absent)
     \/ c[1] = "must_have" /\ Attests(name, v, c[2]) = "no"
     \/ c[1] = "must_not" /\ Attests(name, v, c[2]) = "yes"

\* All of the strongest evidence there is speaks against a constraint.
Contradicted(doc, c, spec) ==
  /\ FieldsOn(doc, c) # {}
  /\ \A name \in FieldsOn(doc, c) : \A a \in Strongest(doc.fields[name]) : Against(c, name, a.value, spec)

TooFar(doc, limit) ==
  /\ limit.label \in DOMAIN doc.commutes
  /\ doc.commutes[limit.label].mode = limit.mode
  /\ doc.commutes[limit.label].duration > limit.max

Elsewhere(doc, hard) ==
  \/ hard.include # {} /\ doc.neighborhood \notin hard.include
  \/ doc.neighborhood \in hard.exclude

\* A document with these flags may be ranked: nothing is surely against it, and what is
\* against it without being sure is in the flags.
Admissible(doc, flags, spec) ==
  /\ ~Elsewhere(doc, spec.hard)
  /\ \A c \in Constraints(spec.hard) : Contradicted(doc, c, spec) =>
       /\ \E name \in FieldsOn(doc, c) : ~Surely(doc.fields[name])
       /\ <<About(c), "low_confidence">> \in flags
  /\ \A limit \in spec.hard.commute_max : TooFar(doc, limit) =>
       /\ doc.commutes[limit.label].confidence < Threshold
       /\ <<<<"commute", limit.label>>, "low_confidence">> \in flags

\* Some evidence that is sure and not outweighed speaks against the document.
Grounds(doc, spec) ==
  \/ Elsewhere(doc, spec.hard)
  \/ \E c \in Constraints(spec.hard) : \E name \in FieldsOn(doc, c) :
       /\ Surely(doc.fields[name])
       /\ \E a \in Strongest(doc.fields[name]) : Against(c, name, a.value, spec)
  \/ \E limit \in spec.hard.commute_max :
       TooFar(doc, limit) /\ doc.commutes[limit.label].confidence >= Threshold

(***************************************************************************)
(* Strong evidence decides and weak evidence is flagged, for each kind of  *)
(* hard constraint: no ranked listing is in a neighborhood it should not   *)
(* be in, and where all of the strongest evidence on a constraint, or the  *)
(* commute, is against the spec, it is not sure and the listing has the    *)
(* low-confidence flag of that very constraint; and none of the listings   *)
(* that were read goes missing without sure evidence against it            *)
(* (phase_tests_phase6.md, hard filters).  Of a list of features with      *)
(* alternatives that disagree it says nothing: see ListedFeatureExcluded.  *)
(***************************************************************************)
HardFiltersHonoured ==
  Answered => \A r \in answer.read :
    /\ r[1] \in Ranked => Admissible(r[2], ResultOf(r[1]).flags, answer.spec)
    /\ r[1] \notin Range(answer.order) => Grounds(r[2], answer.spec)

(***************************************************************************)
(* The results are spread as promised, and no more: no bucket of the       *)
(* repository the caps were applied by is over its cap, a listing that     *)
(* passed is only left out for a bucket full of better ones or behind the  *)
(* limit, and the order is that of the scores (diversity caps).            *)
(***************************************************************************)
CapsJust ==
  Answered =>
    LET ids == [k \in DOMAIN answer.results |-> answer.results[k].listing_id]
        PlaceOf(i) == CHOOSE n \in DOMAIN answer.order : answer.order[n] = i
        HoldingBefore(b, n) == {k \in Holding(ids, answer.by, b) : PlaceOf(ids[k]) < n}
    IN /\ \A i \in Ranked : \A b \in Buckets(answer.by[i]) :
            Cardinality(Holding(ids, answer.by, b)) <= CapOf(b)
       /\ \A n \in DOMAIN answer.order :
            \/ answer.order[n] \in Ranked
            \/ \E b \in Buckets(answer.by[answer.order[n]]) :
                 Cardinality(HoldingBefore(b, n)) >= CapOf(b)
            \/ Len(ids) = ResultLimit /\ \A k \in DOMAIN ids : PlaceOf(ids[k]) < n
       /\ \A k, l \in DOMAIN answer.results : k < l =>
            /\ answer.results[k].final >= answer.results[l].final
            /\ PlaceOf(ids[k]) < PlaceOf(ids[l])

(***************************************************************************)
(* A stored spec is settled: it breaks no rule as it is stored, parsing it *)
(* again would change nothing, and it names no place that is not known     *)
(* (SearchSpec validation and normalization).                              *)
(***************************************************************************)
SpecsSettled ==
  \A s \in SpecIds : specs[s] # Absent =>
    /\ Parser!Problems(specs[s]) = {}
    /\ Parser!Normal(specs[s]) = specs[s]

(***************************************************************************)
(* What the language model is given covers every ranked listing, and has   *)
(* no blocked field, no long text, no more fields and evidence than        *)
(* allowed, and no evidence but that of the field in the document that was *)
(* read (LLM rerank input constraints).                                    *)
(***************************************************************************)
RerankInputClean ==
  Answered =>
    /\ Ranked \subseteq {entry.listing_id : entry \in answer.rerank_payload}
    /\ \A entry \in answer.rerank_payload :
         LET doc == (CHOOSE r \in answer.read : r[1] = entry.listing_id)[2]
         IN /\ Cardinality(entry.fields) <= MaxFields
            /\ \A p \in entry.fields :
                 /\ p.field \notin BlockedFields /\ p.value.kind # "essay"
                 /\ Len(p.evidence) <= MaxEvidence
                 /\ \A e \in DOMAIN p.evidence : p.evidence[e] \in doc.evidence[p.field]

(***************************************************************************)
(* "High-confidence mismatches on hard filters exclude candidates"         *)
(* (_dev_docs/agent_reports/phase_tests_phase6.md): a listing that surely  *)
(* lists a feature the spec excludes is not ranked.                        *)
(***************************************************************************)
ListedFeatureExcluded ==
  Answered => \A r \in answer.read :
    r[1] \in Ranked /\ "amenities" \in DOMAIN r[2].fields =>
      \A n \in DOMAIN r[2].fields["amenities"] : LET a == r[2].fields["amenities"][n] IN
        ~(a.confidence >= Threshold /\ a.value.items \cap answer.spec.hard.must_not # {})
===============================================================================

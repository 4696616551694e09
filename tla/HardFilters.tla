------------------------------- MODULE HardFilters -------------------------------
(***************************************************************************)
(* RankingService._evaluate_listing and its helpers                        *)
(* (services/ranking/service.py): whether a document passes the hard       *)
(* constraints of a search spec, and with which flags.                     *)
(*                                                                         *)
(* A field of a document is the sequence of its alternatives               *)
(* [value, confidence], one when its value is no list or an empty one.     *)
(* A value is [kind, size, items, str]: a "number" of some size, the bools *)
(* "yes" and "no", "none", or text: a "date", "now", an "essay", too long  *)
(* for the language model, or "words", which spell the features in items.  *)
(* str is its place in the order of str().  Confidence counts tenths.      *)
(***************************************************************************)
EXTENDS Integers, SequencesExt

CONSTANTS
  Absent,      \* None, or a missing key
  Threshold,   \* hard_confidence_threshold
  Spellings    \* for each feature, the field names that may stand for it, in the order
               \* in which a process goes through the set of them

ASSUME SpellingsAssumption ==
  \A feature \in DOMAIN Spellings : DOMAIN Spellings[feature] \subseteq Nat

\* A field, and a document as far as the filters read it.
IsField(field) ==
  /\ Len(field) \in Nat \ {0} /\ DOMAIN field = 1..Len(field)
  /\ \A k \in DOMAIN field : field[k].confidence \in Int
                              /\ field[k].value.str \in Int /\ field[k].value.size \in Int
IsDescribed(doc) ==
  /\ \A name \in DOMAIN doc.fields : IsField(doc.fields[name])
  /\ \A label \in DOMAIN doc.commutes :
       doc.commutes[label].duration \in Int /\ doc.commutes[label].confidence \in Int

\* The order of the alternatives.
Stronger(a, b) ==
  a.confidence > b.confidence \/ (a.confidence = b.confidence /\ a.value.str < b.value.str)

\* _resolve_structured_field of a field that is there.
Resolved(field) ==
  field[CHOOSE k \in DOMAIN field : \A j \in DOMAIN field :
          ~Stronger(field[j], field[k]) /\ (j < k => Stronger(field[k], field[j]))]

(***************************************************************************)
(* The verdict on one constraint: whether the document passes, and the     *)
(* flags it gets: what they are about, and why.  What a flag is about is   *)
(* <<"price">> and the like, <<"commute", label>> or <<"feature", name>>.  *)
(***************************************************************************)
Pass == [passes |-> TRUE, flags |-> {}]
Flagged(about, why) == [passes |-> TRUE, flags |-> {<<about, why>>}]
Failed(about, why) == [passes |-> FALSE, flags |-> {<<about, why>>}]

\* Mutant: a mismatch of the very confidence of the threshold is a flag.
MismatchAbove(about, why, confidence) ==
  IF confidence > Threshold THEN Failed(about, why) ELSE Flagged(about, "low_confidence")

\* A mismatch counts if it is sure enough.
Mismatch(about, why, confidence) ==
  IF confidence >= Threshold THEN Failed(about, why) ELSE Flagged(about, "low_confidence")

\* float(): of a truth it is 1 or 0.
IsNumber(v) == v.kind \in {"number", "yes", "no"}

\* _numeric_constraint
Numeric(doc, name, lo, hi) ==
  IF lo = Absent /\ hi = Absent THEN Pass
  ELSE IF name \notin DOMAIN doc.fields THEN Flagged(<<name>>, "missing")
  ELSE LET best == Resolved(doc.fields[name])
       IN IF ~IsNumber(best.value) THEN Flagged(<<name>>, "invalid")
          ELSE IF lo # Absent /\ best.value.size < lo THEN Mismatch(<<name>>, "below_min", best.confidence)
          ELSE IF hi # Absent /\ best.value.size > hi THEN Mismatch(<<name>>, "above_max", best.confidence)
          ELSE Pass

\* The check of one commute_max.
Commute(doc, limit) ==
  LET about == <<"commute", limit.label>>
      found == doc.commutes[limit.label]
  IN IF limit.label \notin DOMAIN doc.commutes THEN Flagged(about, "missing")
     ELSE IF found.mode # limit.mode THEN Flagged(about, "missing")
     ELSE IF found.duration > limit.max THEN Mismatch(about, "exceeds", found.confidence)
     ELSE Pass

\* _parse_availability_date
DateOf(v, today) == IF v.kind = "now" THEN today ELSE IF v.kind = "date" THEN v.size ELSE Absent

\* _availability_constraint
Availability(doc, name, earliest, latest, today) ==
  IF "availability" \notin DOMAIN doc.fields THEN Flagged(<<name>>, "missing")
  ELSE LET best == Resolved(doc.fields["availability"])
           date == DateOf(best.value, today)
       IN IF best.value.kind = "none" THEN Flagged(<<name>>, "missing")
          ELSE IF date = Absent THEN Flagged(<<name>>, "invalid")
          ELSE IF earliest # Absent /\ date < earliest THEN Mismatch(<<name>>, "before_min", best.confidence)
          ELSE IF latest # Absent /\ date > latest THEN Mismatch(<<name>>, "after_max", best.confidence)
          ELSE Pass

\* _truthy
Truthy(v) ==
  CASE v.kind = "yes" -> "yes"
    [] v.kind = "no" -> "no"
    [] v.kind = "number" -> IF v.size > 0 THEN "yes" ELSE "no"
    [] OTHER -> "unknown"

\* Text is split into items, and only its items count.
Lists(v, feature) ==
  IF v.kind \notin {"words", "date", "now", "essay"} THEN Truthy(v)
  ELSE IF feature \in v.items THEN "yes" ELSE "no"

\* The names of the lists, and the first of them in a document.
ListNames == {"amenities", "amenity", "features"}
ListName(doc) ==
  IF "amenities" \in DOMAIN doc.fields THEN "amenities"
  ELSE IF "amenity" \in DOMAIN doc.fields THEN "amenity" ELSE "features"

(***************************************************************************)
(* _feature_match: the field of the feature's own name, in the spelling    *)
(* that comes first, or else the first list of features.  A list is        *)
(* resolved to one of its items before it is searched.                     *)
(***************************************************************************)
FeatureMatch(doc, feature) ==
  LET names == Spellings[feature]
      own == {k \in DOMAIN names : names[k] \in DOMAIN doc.fields}
      first == CHOOSE k \in own : \A j \in own : k <= j
  IN IF own # {}
     THEN LET best == Resolved(doc.fields[names[first]])
          IN [present |-> Truthy(best.value), confidence |-> best.confidence]
     ELSE IF ListNames \cap DOMAIN doc.fields # {}
     THEN LET best == Resolved(doc.fields[ListName(doc)])
          IN [present |-> Lists(best.value, feature), confidence |-> best.confidence]
     ELSE [present |-> "unknown", confidence |-> 0]

MustHave(doc, feature) ==
  LET match == FeatureMatch(doc, feature)
  IN CASE match.present = "yes" -> Pass
       [] match.present = "no" -> Mismatch(<<"feature", feature>>, "missing", match.confidence)
       [] OTHER -> Flagged(<<"feature", feature>>, "missing")

MustNotHave(doc, feature) ==
  LET match == FeatureMatch(doc, feature)
  IN IF match.present = "yes" THEN Mismatch(<<"feature", feature>>, "excluded", match.confidence) ELSE Pass

Neighborhood(doc, hard) ==
  IF \/ hard.include # {} /\ doc.neighborhood \notin hard.include
     \/ doc.neighborhood \in hard.exclude
  THEN Failed(<<"neighborhood">>, "excluded") ELSE Pass

Verdicts(doc, spec) ==
  LET hard == spec.hard
  IN { Neighborhood(doc, hard),
       Numeric(doc, "price", hard.price_min, hard.price_max),
       Numeric(doc, "beds", hard.beds_min, Absent),
       Numeric(doc, "baths", hard.baths_min, Absent) }
     \cup {Commute(doc, limit) : limit \in hard.commute_max}
     \cup (IF hard.available_now THEN {Availability(doc, "available_now", Absent, spec.day, spec.day)} ELSE {})
     \cup (IF hard.move_in_after = Absent THEN {}
           ELSE {Availability(doc, "move_in_after", hard.move_in_after, Absent, spec.day)})
     \cup {MustHave(doc, feature) : feature \in hard.must_have}
     \cup {MustNotHave(doc, feature) : feature \in hard.must_not}

\* _evaluate_listing.  The first constraint a document fails ends it; which of them
\* that is only shows in flags of a document that is not kept.
Evaluated(doc, spec) ==
  LET verdicts == Verdicts(doc, spec)
  IN [passes |-> \A v \in verdicts : v.passes, flags |-> UNION {v.flags : v \in verdicts}]
===============================================================================

-------------------------------- MODULE SpecParser --------------------------------
(***************************************************************************)
(* SearchSpecParser.parse (services/searchspec/parser.py).                 *)
(*                                                                         *)
(* A text is [word, dressed]: what is left of it in lower case and with    *)
(* single spaces, and whether it came otherwise.  The word Blank is the    *)
(* empty text.  The preferences that are not hard are normalized like      *)
(* these and read by nobody; they are left out.                            *)
(***************************************************************************)
EXTENDS Integers, Sequences

CONSTANTS
  Absent, Blank,
  SchemaVersion,
  Known,              \* known_neighborhoods
  NeighborhoodAlias,  \* functions from words to words
  FeatureAlias,
  Underscored         \* the word with "_" for " ", for the words that have a " "

Applied(alias, word) == IF word \in DOMAIN alias THEN alias[word] ELSE word

IsOptional(n) == n = Absent \/ n \in Int

\* A SearchSpecModel, as far as it is modelled.
IsSpec(spec) ==
  LET hard == spec.hard
  IN /\ spec = [day |-> spec.day, prompt |-> spec.prompt, hard |-> hard]
     /\ hard =
          [ price_min |-> hard.price_min, price_max |-> hard.price_max,
            beds_min |-> hard.beds_min, baths_min |-> hard.baths_min,
            include |-> hard.include, exclude |-> hard.exclude,
            commute_max |-> hard.commute_max, must_have |-> hard.must_have,
            must_not |-> hard.must_not, available_now |-> hard.available_now,
            move_in_after |-> hard.move_in_after ]
     /\ spec.day \in Int /\ Len(spec.prompt) \in Nat /\ DOMAIN spec.prompt = 1..Len(spec.prompt)
     /\ IsOptional(hard.price_max) /\ IsOptional(hard.price_min)
     /\ IsOptional(hard.beds_min) /\ IsOptional(hard.baths_min)
     /\ \A limit \in hard.commute_max :
          limit = [label |-> limit.label, mode |-> limit.mode, max |-> limit.max] /\ limit.max \in Int

\* _normalize_text
Plain(text) == [word |-> text.word, dressed |-> FALSE]

Filled(texts) == {text.word : text \in texts} \ {Blank}

\* _normalize_features: an alias or, without one, underscores.
Feature(word) ==
  IF word \in DOMAIN FeatureAlias THEN FeatureAlias[word] ELSE Applied(Underscored, word)
Features(texts) == {Feature(word) : word \in Filled(texts)}

\* _normalize_neighborhoods
Neighborhoods(texts) == {Applied(NeighborhoodAlias, word) : word \in Filled(texts)}

Undressed(words) == {[word |-> word, dressed |-> FALSE] : word \in words}

\* _normalize, of the hard constraints and the prompt.
NormalHard(hard) ==
  [ hard EXCEPT
      !.include = Undressed(Neighborhoods(@)),
      !.exclude = Undressed(Neighborhoods(@)),
      !.must_have = Undressed(Features(@)),
      !.must_not = Undressed(Features(@)),
      !.commute_max = {[limit EXCEPT !.label = Plain(@)] : limit \in @} ]
Normal(spec) ==
  [ spec EXCEPT !.prompt = [k \in DOMAIN @ |-> Plain(@[k])], !.hard = NormalHard(@) ]

Negative(n) == n # Absent /\ n < 0

\* _validate_constraints, as the set of the codes it reports and their paths.
Problems(spec) ==
  LET hard == spec.hard
      OutOfRange(field) == {<<"value_range", field>>}
  IN UNION {IF Negative(hard[field]) THEN OutOfRange(field) ELSE {} :
              field \in {"price_min", "price_max", "beds_min", "baths_min"}}
     \cup (IF hard.price_min # Absent /\ hard.price_max # Absent
           THEN IF hard.price_min > hard.price_max THEN OutOfRange("price_min") ELSE {}
           ELSE {})
     \cup (IF hard.available_now /\ hard.move_in_after # Absent
           THEN {<<"invalid_combination", "hard">>} ELSE {})
     \cup UNION {(IF limit.label = [word |-> Blank, dressed |-> FALSE] THEN {<<"missing_required", "commute_max">>} ELSE {})
                 \cup (IF limit.max < 0 THEN OutOfRange("commute_max") ELSE {}) :
                   limit \in hard.commute_max}
     \cup (IF hard.include \cup hard.exclude \subseteq Undressed(Known)
           THEN {} ELSE {<<"unknown_neighborhood", "neighborhoods">>})

\* Mutant: the constraints are validated as they came in.
ParsedUnsettled(payload) ==
  IF ~payload.parses THEN [spec |-> Absent, errors |-> {<<"schema_error", "">>}]
  ELSE IF payload.schema_version # SchemaVersion
  THEN [spec |-> Absent, errors |-> {<<"schema_version_mismatch", "schema_version">>}]
  ELSE LET spec == Normal(payload.spec)
           problems == Problems(payload.spec)
       IN [spec |-> IF problems = {} THEN spec ELSE Absent, errors |-> problems]

\* parse
Parsed(payload) ==
  IF ~payload.parses THEN [spec |-> Absent, errors |-> {<<"schema_error", "">>}]
  ELSE IF payload.schema_version # SchemaVersion
  THEN [spec |-> Absent, errors |-> {<<"schema_version_mismatch", "schema_version">>}]
  ELSE LET spec == Normal(payload.spec)
           problems == Problems(spec)
       IN [spec |-> IF problems = {} THEN spec ELSE Absent, errors |-> problems]

\* What the services read of a spec: the words of it.
Words(texts) == {text.word : text \in texts}
Read(spec) ==
  [ day |-> spec.day, keywords |-> [k \in DOMAIN spec.prompt |-> spec.prompt[k].word],
    hard |-> [ spec.hard EXCEPT
      !.include = Words(@), !.exclude = Words(@), !.must_have = Words(@), !.must_not = Words(@),
      !.commute_max = {[limit EXCEPT !.label = @.word] : limit \in @} ] ]
===============================================================================

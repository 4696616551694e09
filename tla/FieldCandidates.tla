----------------------------- MODULE FieldCandidates -----------------------------
(***************************************************************************)
(* Where the candidates of an extraction come from: JSON-LD blocks and     *)
(* patterns in the text (extraction/deterministic.py), and an output of    *)
(* the language model that passed validation (extraction/structured.py).   *)
(*                                                                         *)
(* A value has a form, a size and possibly some dress, which is what its   *)
(* conversions tell apart: a number; text that reads as a number, bare or  *)
(* dressed in "$", commas, spaces or a URL; and words, of which size 0 is  *)
(* the empty string.  A page is a sequence of tokens [reads, value]: the   *)
(* field whose pattern matches the token, and the value it spells.  Sizes  *)
(* stand for the order of str().                                           *)
(***************************************************************************)
EXTENDS FactStore, SequencesExt

CONSTANT SchemaVersion

\* In the order of their names, by which candidates are sorted.
FieldPaths == <<"/amenities/name", "/listing/address", "/listing/availability",
                "/listing/baths", "/listing/beds", "/listing/price",
                "/units/baths", "/units/beds", "/units/price", "/units/unit_label">>
Extractors == <<"deterministic-jsonld", "deterministic-regex", "structured-output">>

\* What pages and outputs are made of.
IsList(s) == Len(s) \in Nat /\ s = [k \in 1..Len(s) |-> s[k]]
Values == [form: {"number", "text", "words"}, size: Int, dressed: BOOLEAN]
IsValue(v) == v = Absent \/ v \in Values

\* An item of a JSON-LD block.
IsItem(item) ==
  /\ IsValue(item.address) /\ IsValue(item.beds) /\ IsValue(item.baths)
  /\ IsList(item.offers)
  /\ \A k \in DOMAIN item.offers :
       IsValue(item.offers[k].price) /\ IsValue(item.offers[k].availability)

\* A snapshot, whose other formats nobody reads for values.
IsSnapshot(s) ==
  /\ s.text # Absent =>
       IsList(s.text) /\ \A i \in DOMAIN s.text : IsValue(s.text[i].value)
  /\ s.html # Absent =>
       /\ IsList(s.blocks)
       /\ \A b \in DOMAIN s.blocks :
            /\ IsList(s.blocks[b].items)
            /\ \A i \in DOMAIN s.blocks[b].items : IsItem(s.blocks[b].items[i])

IsOutput(output) ==
  /\ IsList(output.fields)
  /\ \A k \in DOMAIN output.fields :
       output.fields[k].path \in Range(FieldPaths) /\ IsValue(output.fields[k].value)

IsText(v) == v.form \in {"text", "words"}
AsText(v) == IF v.form = "number" THEN [v EXCEPT !.form = "text"] ELSE v
Bare(v) == [v EXCEPT !.dressed = FALSE]

PlaceIn(s, x) == CHOOSE i \in DOMAIN s : s[i] = x

\* (field_path, str(value), extractor).  A null value is at the beginning here.
SortKey(c) ==
  << PlaceIn(FieldPaths, c.field_path),
     IF c.value = Absent THEN -1 ELSE 2 * c.value.size + (IF c.value.dressed THEN 1 ELSE 0),
     PlaceIn(Extractors, c.extractor) >>
KeyBelow(k, l) ==
  \E i \in DOMAIN k : k[i] < l[i] /\ \A j \in 1..(i - 1) : k[j] = l[j]

\* sorted(), which keeps the order of equal keys.
Sorted(cs) ==
  LET key == [i \in DOMAIN cs |-> SortKey(cs[i])]
      place == [i \in DOMAIN cs |-> Cardinality({j \in DOMAIN cs :
                  KeyBelow(key[j], key[i]) \/ (key[j] = key[i] /\ j <= i)})]
  IN [k \in DOMAIN cs |-> cs[CHOOSE i \in DOMAIN cs : place[i] = k]]

-------------------------------------------------------------------------------
(***************************************************************************)
(* DeterministicExtractor.                                                 *)
(***************************************************************************)
Page(s, format) == IF format = "html" THEN s.html ELSE s.text

\* _evidence_for_span
EvidenceForSpan(s, format, lo, hi) ==
  LET span == SubSeq(Page(s, format), lo + 1, hi)
  IN [ snapshot_id |-> s.snapshot_id, kind |-> "text_span", excerpt |-> span,
       locator |-> [source_format |-> format, start_char |-> lo, end_char |-> hi,
                    text_hash |-> span] ]

\* _value_span: the first place in the block that spells the value, or all of it; the
\* empty string is found at once.
ValueSpan(s, block, v) ==
  LET places == {i \in (block.start + 1)..block.end : s.html[i].value = v}
      first == CHOOSE i \in places : \A j \in places : i <= j
  IN IF v.form = "words" /\ v.size = 0 THEN <<block.start, block.start>>
     ELSE IF places = {} THEN <<block.start, block.end>> ELSE <<first - 1, first>>

\* One key of an item: nothing when it is missing.
JsonLdCandidate(s, block, path, spelled, value, confidence) ==
  IF spelled = Absent THEN <<>>
  ELSE LET span == ValueSpan(s, block, spelled)
       IN << [ field_path |-> path, value |-> value, confidence |-> confidence,
               evidence |-> <<EvidenceForSpan(s, "html", span[1], span[2])>>,
               extractor |-> "deterministic-jsonld" ] >>

Text(v) == IF v = Absent THEN Absent ELSE AsText(v)

OfferCandidates(s, block, offer) ==
  JsonLdCandidate(s, block, "/listing/price", Text(offer.price), Text(offer.price), 95)
  \o IF offer.availability = Absent THEN <<>>
     ELSE JsonLdCandidate(s, block, "/listing/availability", offer.availability,
                          Bare(offer.availability), 90)

ItemCandidates(s, block, item) ==
  JsonLdCandidate(s, block, "/listing/address", item.address, item.address, 95)
  \o FlattenSeq([k \in DOMAIN item.offers |-> OfferCandidates(s, block, item.offers[k])])
  \o JsonLdCandidate(s, block, "/listing/beds", Text(item.beds), Text(item.beds), 90)
  \o JsonLdCandidate(s, block, "/listing/baths", Text(item.baths), Text(item.baths), 90)

\* _jsonld_candidates.  Blocks that do not parse have no items.
JsonLdCandidates(s) ==
  IF s.html = Absent THEN <<>>
  ELSE FlattenSeq([b \in DOMAIN s.blocks |->
         FlattenSeq([i \in DOMAIN s.blocks[b].items |->
           ItemCandidates(s, s.blocks[b], s.blocks[b].items[i])])])

RegexPaths == <<"/listing/price", "/listing/beds", "/listing/baths", "/listing/address",
                "/listing/availability">>
RegexConfidence(path) ==
  CASE path = "/listing/address" -> 75 [] path = "/listing/availability" -> 70 [] OTHER -> 80

\* _regex_candidates: every match of every pattern, at its own place.
RegexCandidates(s) ==
  LET text == IF s.text = Absent THEN <<>> ELSE s.text
      Match(path, i) ==
        IF text[i].reads # path THEN <<>>
        ELSE << [ field_path |-> path, value |-> text[i].value,
                  confidence |-> RegexConfidence(path),
                  evidence |-> <<EvidenceForSpan(s, "text", i - 1, i)>>,
                  extractor |-> "deterministic-regex" ] >>
  IN FlattenSeq([p \in DOMAIN RegexPaths |->
       FlattenSeq([i \in DOMAIN text |-> Match(RegexPaths[p], i)])])

\* Mutant: matches of one value are taken for one candidate.
DeduplicatedByValue(cs) ==
  FlattenSeq([i \in DOMAIN cs |->
    IF \E j \in 1..(i - 1) : cs[j].field_path = cs[i].field_path /\ cs[j].value = cs[i].value
    THEN <<>> ELSE <<cs[i]>>])

\* _candidate_key takes in everything but the confidence, which the rest determines.
Deduplicated(cs) ==
  FlattenSeq([i \in DOMAIN cs |->
    IF \E j \in 1..(i - 1) : cs[j] = cs[i] THEN <<>> ELSE <<cs[i]>>])

\* DeterministicExtractor.extract
DeterministicCandidates(s) == Sorted(Deduplicated(JsonLdCandidates(s) \o RegexCandidates(s)))

-------------------------------------------------------------------------------
(***************************************************************************)
(* StructuredOutputValidator and _structured_candidates.  An output is     *)
(* whether the schema accepts it, its schema version and its fields in the *)
(* order listing, units, amenities, those that are None left out.          *)
(***************************************************************************)
ExpectedForms(path) ==
  IF path \in {"/listing/address", "/listing/availability", "/units/unit_label", "/amenities/name"}
  THEN {"text", "words"}
  ELSE IF path \in {"/listing/price", "/units/price"} THEN {"number", "text", "words"}
  ELSE {"number"}

\* _type_errors
TypeErrors(output) ==
  {output.fields[k].path : k \in {i \in DOMAIN output.fields :
     LET field == output.fields[i]
     IN field.value # Absent /\ field.value.form \notin ExpectedForms(field.path)}}

\* _validate_once: <<code, path>> of every error.
OutputErrors(output) ==
  IF ~output.parses THEN {<<"schema_error", "/">>}
  ELSE IF output.schema_version # SchemaVersion
  THEN {<<"schema_version_mismatch", "/schema_version">>}
  ELSE {<<"type_mismatch", path>> : path \in TypeErrors(output)}

\* Mutant: every repair is tried.
AttemptsUnbounded(output, repairs, max_retries) == <<output>> \o repairs

\* The outputs validate() goes through: the first, and at most max_retries repairs.
Attempts(output, repairs, max_retries) ==
  <<output>> \o SubSeq(repairs, 1, IF max_retries < Len(repairs) THEN max_retries ELSE Len(repairs))

\* _candidate_from_field of every field, in their own order.
StructuredCandidates(output) ==
  Sorted([k \in DOMAIN output.fields |->
    [ field_path |-> output.fields[k].path, value |-> output.fields[k].value,
      confidence |-> output.fields[k].confidence, evidence |-> output.fields[k].evidence,
      extractor |-> "structured-output" ]])

-------------------------------------------------------------------------------
(***************************************************************************)
(* NormalizationService.  Sizes of beds and baths count quarters.          *)
(***************************************************************************)
\* round(x * 2) / 2 of x quarters, in quarters: a tie goes to the even side.
HalfSteps(size) ==
  LET whole == size \div 2
  IN 2 * (IF size % 2 = 0 \/ whole % 2 = 0 THEN whole ELSE whole + 1)

NormalizedPrice(v) ==
  IF v.form = "words" THEN v ELSE [form |-> "number", size |-> v.size, dressed |-> FALSE]

\* float() refuses text in dress, which is left as it is.
NormalizedFloat(v) ==
  IF v.form = "number" \/ (v.form = "text" /\ ~v.dressed)
  THEN [form |-> "number", size |-> HalfSteps(v.size), dressed |-> FALSE]
  ELSE v

\* The dress of an address is its spacing.
NormalizedAddress(v) == IF IsText(v) THEN Bare(v) ELSE v

\* _normalize_value
NormalizedValue(path, v) ==
  IF path \in {"/listing/price", "/units/price"} THEN NormalizedPrice(v)
  ELSE IF path \in {"/listing/beds", "/units/beds", "/listing/baths", "/units/baths"}
  THEN NormalizedFloat(v)
  ELSE IF path = "/listing/address" THEN NormalizedAddress(v)
  ELSE v
===============================================================================

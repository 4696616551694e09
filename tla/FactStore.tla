-------------------------------- MODULE FactStore --------------------------------
(***************************************************************************)
(* What a fact rests on: services/common/evidence.py decides whether a     *)
(* reference into a snapshot is good, services/common/facts.py keeps       *)
(* evidence, facts and the links between them, with checks of its own.     *)
(*                                                                         *)
(* The content of a snapshot is a sequence of tokens, each of one          *)
(* character.  A hash is injective, so it is the value that was hashed,    *)
(* and the id of a piece of evidence is the reference it was made from.    *)
(***************************************************************************)
EXTENDS Integers, Sequences

CONSTANT Absent   \* None, a missing key, or a key whose value int() refuses by one of the
                  \* exceptions that are caught

\* _select_content
SelectContent(s, format) ==
  CASE format \in {Absent, "text"} -> s.text
    [] format = "html" -> s.html
    [] format = "markdown" -> s.markdown
    [] OTHER -> Absent

If(code, condition) == IF condition THEN {code} ELSE {}

\* Mutant: an empty span is a good one.
TextSpanIssuesLax(ref, s) ==
  LET at == ref.locator
      content == SelectContent(s, at.source_format)
  IN IF content = Absent THEN {"content_missing"}
     ELSE IF Absent \in {at.start_char, at.end_char} THEN {"invalid_locator"}
     ELSE If("span_out_of_bounds",
             at.start_char < 0 \/ at.start_char > at.end_char \/ at.end_char > Len(content))

\* Mutant: the excerpt and the hash are not compared with the page.
TextSpanIssuesUnread(ref, s) ==
  LET at == ref.locator
      content == SelectContent(s, at.source_format)
  IN IF content = Absent THEN {"content_missing"}
     ELSE IF Absent \in {at.start_char, at.end_char} THEN {"invalid_locator"}
     ELSE If("span_out_of_bounds",
             at.start_char < 0 \/ at.start_char >= at.end_char \/ at.end_char > Len(content))

\* The text_span branch of validate_evidence_ref, as the set of the codes it reports.
TextSpanIssues(ref, s) ==
  LET at == ref.locator
      content == SelectContent(s, at.source_format)
      span == SubSeq(content, at.start_char + 1, at.end_char)
  IN IF content = Absent THEN {"content_missing"}
     ELSE IF Absent \in {at.start_char, at.end_char} THEN {"invalid_locator"}
     ELSE IF \/ at.start_char < 0 \/ at.end_char < 0
             \/ at.start_char >= at.end_char \/ at.end_char > Len(content)
          THEN {"span_out_of_bounds"}
     ELSE If("excerpt_mismatch", ref.excerpt \notin {Absent, span})
          \cup If("text_hash_mismatch", at.text_hash \notin {Absent, span})

\* Mutant: a region may reach over the upper and the lower edge.
ImageRegionIssuesAcross(ref, s) ==
  LET at == ref.locator
      image == s.images[at.image_ref]
  IN IF at.image_ref \notin DOMAIN s.images THEN {"image_missing"}
     ELSE IF Absent \in {at.x, at.y, at.width, at.height} THEN {"invalid_locator"}
     ELSE If("invalid_dimensions", at.width <= 0 \/ at.height <= 0)
          \cup If("region_out_of_bounds", at.x < 0 \/ at.x + at.width > image.width)

\* The image_region branch.
ImageRegionIssues(ref, s) ==
  LET at == ref.locator
      image == s.images[at.image_ref]
  IN IF at.image_ref \notin DOMAIN s.images THEN {"image_missing"}
     ELSE IF Absent \in {at.x, at.y, at.width, at.height} THEN {"invalid_locator"}
     ELSE If("invalid_dimensions", at.width <= 0 \/ at.height <= 0)
          \cup If("region_out_of_bounds",
                  \/ at.x < 0 \/ at.x + at.width > image.width
                  \/ at.y < 0 \/ at.y + at.height > image.height)

\* validate_evidence_ref
EvidenceIssues(ref, s) ==
  IF ref.snapshot_id # s.snapshot_id THEN {"snapshot_id_mismatch"}
  ELSE IF ref.kind = "text_span" THEN TextSpanIssues(ref, s)
  ELSE IF ref.kind = "image_region" THEN ImageRegionIssues(ref, s)
  ELSE {"unsupported_kind"}

\* resolve_text_span: when it raises EvidenceLocatorError, and what it returns else.
Unresolvable(s, at) ==
  LET content == SelectContent(s, at.source_format)
  IN \/ content = Absent \/ Absent \in {at.start_char, at.end_char}
     \/ at.start_char < 0 \/ at.end_char < 0
     \/ at.start_char >= at.end_char \/ at.end_char > Len(content)
ResolvedSpan(s, at) ==
  SubSeq(SelectContent(s, at.source_format), at.start_char + 1, at.end_char)

-------------------------------------------------------------------------------
(***************************************************************************)
(* FactStore: the evidence, the facts by their ids, and the links.  They   *)
(* are kept in a list that is only read fact by fact, here in a set.       *)
(***************************************************************************)
NoFunction == [f \in {} |-> Absent]
EmptyStore == [evidence |-> {}, facts |-> NoFunction, links |-> {}]

\* add_evidence raises EvidenceValidationError.
EvidenceRefused(ref) ==
  LET at == ref.locator
  IN IF ref.kind = "text_span"
     THEN \/ Absent \in {at.start_char, at.end_char}
          \/ at.start_char < 0 \/ at.end_char < 0 \/ at.start_char >= at.end_char
     ELSE IF ref.kind = "image_region"
     THEN \/ Absent \in {at.x, at.y, at.width, at.height}
          \/ at.width <= 0 \/ at.height <= 0
     ELSE TRUE

\* add_fact raises FactValidationError.
FactRefused(evidence, value, confidence, refs) ==
  \/ value # Absent /\ (DOMAIN refs = {} \/ confidence = Absent)
  \/ \E k \in DOMAIN refs : refs[k] \notin evidence

WithEvidence(store, refs) ==
  [store EXCEPT !.evidence = @ \cup {refs[k] : k \in DOMAIN refs}]

LinksOf(id, refs) ==
  {[fact_id |-> id, evidence_id |-> refs[k], rank |-> k] : k \in DOMAIN refs}
WithFactOnly(facts, id, fact) ==
  [f \in {id} \cup DOMAIN facts |-> IF f = id THEN fact ELSE facts[f]]

\* add_fact: a fact replaces the one with its id, links are only ever added.
WithFact(store, id, fact, refs) ==
  [ evidence |-> store.evidence, facts |-> WithFactOnly(store.facts, id, fact),
    links |-> store.links \cup LinksOf(id, refs) ]
===============================================================================

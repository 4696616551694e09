------------------------------ MODULE FactExtraction ------------------------------
(***************************************************************************)
(* ExtractionService.run, one extraction after another, and the            *)
(* normalization of what they returned.  An extraction validates the       *)
(* output of the language model, with repairs, gathers the candidates of   *)
(* all extractors, puts those that stand up into a fact store of its own,  *)
(* and appends its result to the repository.  An exception on the way      *)
(* leaves nothing in the repository: stage "raised".                       *)
(***************************************************************************)
EXTENDS FieldCandidates

CONSTANTS
  Jobs,      \* [snapshot, version, output, repairs, max_retries]: the arguments of
             \* run, with Absent for no output
  MaxRuns    \* bound on the extractions

ASSUME RunsAssumption == MaxRuns \in Nat

ASSUME JobsAssumption ==
  \A j \in Jobs :
    /\ IsSnapshot(j.snapshot)
    /\ j.output # Absent => IsOutput(j.output)
    /\ IsList(j.repairs) /\ \A k \in DOMAIN j.repairs : IsOutput(j.repairs[k])
    /\ j.max_retries \in Nat

\* A snapshot is not changed once it has its id.
ASSUME SnapshotsAssumption ==
  \A j, k \in Jobs : j.snapshot.snapshot_id = k.snapshot.snapshot_id => j.snapshot = k.snapshot

VARIABLES
  stage,       \* where run is
  job,         \* its arguments
  attempt,     \* the output that is validated next
  model,       \* the output that passed
  report,      \* the validation report
  queue,       \* the candidates still to be materialized
  store,       \* the FactStore
  issues,      \* <<code, field path>> of the candidates that were turned down
  results,     \* the ExtractionRepository
  normalized   \* what normalize returned for each of them, or Absent
vars == <<stage, job, attempt, model, report, queue, store, issues, results, normalized>>

Stages == {"idle", "validating", "gathering", "materializing", "raised"}
Skipped == [status |-> "skipped", retry_count |-> 0, errors |-> {}]

\* The ids are what they are hashes of.
ObservationIdOfSnapshot(j, output) == <<j.snapshot.snapshot_id, j.version>>
ObservationId(j, output) == <<j.snapshot.snapshot_id, j.version, output>>
FactId(observation, c) == <<observation, c.field_path, c.value, c.extractor>>

\* What run materializes, given the output that passed.
CandidatesOf(s, output) ==
  DeterministicCandidates(s) \o (IF output = Absent THEN <<>> ELSE StructuredCandidates(output))

Init ==
  /\ stage = "idle" /\ job = Absent /\ attempt = 0 /\ model = Absent
  /\ report = Skipped /\ queue = <<>> /\ store = EmptyStore /\ issues = {}
  /\ results = <<>> /\ normalized = <<>>

\* run is called.
Begin(j) ==
  /\ stage = "idle" /\ Len(results) < MaxRuns
  /\ stage' = IF j.output = Absent THEN "gathering" ELSE "validating"
  /\ job' = j /\ attempt' = 1 /\ model' = Absent
  /\ report' = Skipped /\ queue' = <<>> /\ store' = EmptyStore /\ issues' = {}
  /\ UNCHANGED <<results, normalized>>

\* Mutant: the last attempt is taken as it is.
JudgedLeniently(output, n, last) ==
  LET errors == OutputErrors(output)
  IN IF errors = {} \/ (last /\ output.parses) THEN [done |-> TRUE, model |-> output,
       report |-> [status |-> "success", retry_count |-> n - 1, errors |-> {}]]
     ELSE [done |-> last, model |-> Absent,
           report |-> [status |-> "failure", retry_count |-> n - 1, errors |-> errors]]

\* What validate makes of its n-th attempt.
Judged(output, n, last) ==
  LET errors == OutputErrors(output)
  IN IF errors = {} THEN [done |-> TRUE, model |-> output,
       report |-> [status |-> "success", retry_count |-> n - 1, errors |-> {}]]
     ELSE [done |-> last, model |-> Absent,
           report |-> [status |-> "failure", retry_count |-> n - 1, errors |-> errors]]

\* One round of StructuredOutputValidator.validate.
Validate ==
  LET outputs == Attempts(job.output, job.repairs, job.max_retries)
      verdict == Judged(outputs[attempt], attempt, attempt = Len(outputs))
  IN /\ stage = "validating"
     /\ attempt' = attempt + 1
     /\ IF verdict.done
        THEN stage' = "gathering" /\ model' = verdict.model /\ report' = verdict.report
        ELSE UNCHANGED <<stage, model, report>>
     /\ UNCHANGED <<job, queue, store, issues, results, normalized>>

Gather ==
  /\ stage = "gathering"
  /\ stage' = "materializing"
  /\ queue' = CandidatesOf(job.snapshot, model)
  /\ UNCHANGED <<job, attempt, model, report, store, issues, results, normalized>>

\* Why materialize_candidates turns a candidate down.
CandidateIssues(c, s) ==
  IF DOMAIN c.evidence = {} THEN {"evidence_missing"}
  ELSE IF c.confidence = Absent THEN {"confidence_missing"}
  ELSE UNION {EvidenceIssues(c.evidence[k], s) : k \in DOMAIN c.evidence}

\* A candidate without a value is passed over.
PassOver(c) ==
  /\ c.value = Absent
  /\ UNCHANGED <<stage, store, issues>>

TurnDown(c) ==
  /\ c.value # Absent /\ CandidateIssues(c, job.snapshot) # {}
  /\ issues' = issues \cup {<<code, c.field_path>> : code \in CandidateIssues(c, job.snapshot)}
  /\ UNCHANGED <<stage, store>>

\* Evidence first, then the fact that refers to it; either may raise.
Keep(c) ==
  LET id == FactId(ObservationId(job, model), c)
      held == WithEvidence(store, c.evidence)
      refused == \/ \E k \in DOMAIN c.evidence : EvidenceRefused(c.evidence[k])
                 \/ FactRefused(held.evidence, c.value, c.confidence, c.evidence)
  IN /\ c.value # Absent /\ CandidateIssues(c, job.snapshot) = {}
     /\ IF refused THEN stage' = "raised" /\ UNCHANGED store
        ELSE UNCHANGED stage /\ store' = WithFact(held, id, [confidence |-> c.confidence], c.evidence)
     /\ UNCHANGED issues

Materialize ==
  /\ stage = "materializing" /\ queue # <<>>
  /\ PassOver(Head(queue)) \/ TurnDown(Head(queue)) \/ Keep(Head(queue))
  /\ queue' = Tail(queue)
  /\ UNCHANGED <<job, attempt, model, report, results, normalized>>

\* _merge_validation_report
Merged(base, found) ==
  IF found = {} THEN base
  ELSE [ base EXCEPT !.errors = @ \cup found,
                     !.status = IF @ = "skipped" THEN "success" ELSE @ ]

Finish ==
  /\ stage = "materializing" /\ queue = <<>>
  /\ stage' = "idle"
  /\ results' = Append(results,
       [ observation_id |-> ObservationId(job, model), snapshot |-> job.snapshot,
         extracted_json |-> model, report |-> Merged(report, issues),
         evidence |-> store.evidence, facts |-> store.facts, links |-> store.links ])
  /\ normalized' = Append(normalized, Absent)
  /\ UNCHANGED <<job, attempt, model, report, queue, store, issues>>

\* NormalizationService.normalize of the facts and links of a result.
NormalizedFacts(result) ==
  {[ raw_fact_id |-> f, field_path |-> f[2], raw_value |-> f[3],
     normalized_value |-> NormalizedValue(f[2], f[3]),
     evidence_ids |-> {link.evidence_id : link \in {l \in result.links : l.fact_id = f}} ] :
   f \in DOMAIN result.facts}

Normalize(n) ==
  /\ stage = "idle" /\ normalized[n] = Absent
  /\ normalized' = [normalized EXCEPT ![n] = NormalizedFacts(results[n])]
  /\ UNCHANGED <<stage, job, attempt, model, report, queue, store, issues, results>>

Next ==
  \/ \E j \in Jobs : Begin(j)
  \/ Validate
  \/ Gather
  \/ Materialize
  \/ Finish
  \/ \E n \in DOMAIN normalized : Normalize(n)

Spec == Init /\ [][Next]_vars

-------------------------------------------------------------------------------
(***************************************************************************)
(* Properties.                                                             *)
(***************************************************************************)
\* The whole of a region is on the image, across and down.
LiesOn(at, image) ==
  ~(\/ at.width <= 0 \/ at.x < 0 \/ at.x + at.width > image.width
    \/ at.height <= 0 \/ at.y < 0 \/ at.y + at.height > image.height)

\* Evidence that a reader finds again: it is in this snapshot, the span resolves and is
\* what the excerpt says, the region lies on its image.
Resolves(e, s) ==
  /\ e.snapshot_id = s.snapshot_id
  /\ \/ /\ e.kind = "text_span" /\ ~Unresolvable(s, e.locator)
        /\ e.excerpt \in {Absent, ResolvedSpan(s, e.locator)}
     \/ /\ e.kind = "image_region" /\ e.locator.image_ref \in DOMAIN s.images
        /\ LiesOn(e.locator, s.images[e.locator.image_ref])

\* Facts, links and evidence that fit together, and evidence that resolves.
Sound(facts, links, evidence, s) ==
  /\ \A f \in DOMAIN facts : \E link \in links : link.fact_id = f
  /\ \A link \in links : link.fact_id \in DOMAIN facts /\ link.evidence_id \in evidence
  /\ \A e \in evidence : Resolves(e, s) /\ \E link \in links : link.evidence_id = e

(***************************************************************************)
(* The stages and the lists are what they should be, and a report counts   *)
(* no more repairs than were allowed (P3-SO-004).                          *)
(***************************************************************************)
TypeOK ==
  /\ stage \in Stages
  /\ stage # "idle" => job \in Jobs /\ report.retry_count \in 0..job.max_retries
  /\ stage \in {"validating", "idle", "gathering"} => queue = <<>>
  /\ Len(results) <= MaxRuns
  /\ Len(normalized) = Len(results)

(***************************************************************************)
(* Every reference validate_evidence_ref lets through, and every candidate *)
(* materialize_candidates lets through, is one the fact store takes: the   *)
(* two sets of checks agree, and no extraction is lost to an exception     *)
(* half-way.                                                               *)
(***************************************************************************)
NeverRaises == stage # "raised"

(***************************************************************************)
(* In every result, and in the store on the way to it, each fact has       *)
(* evidence, each link joins a fact and a piece of evidence that are       *)
(* there, and each piece of evidence belongs to a fact and can be found in *)
(* the snapshot as it says (P3-EV; P3-LOC-001, 003 and 004, for the        *)
(* locators of the page's own candidates and of those the model gives).    *)
(* It does not say that a span is the right one of several that read       *)
(* alike: the first in a block is taken.                                   *)
(***************************************************************************)
FactsGrounded ==
  /\ \A n \in DOMAIN results :
       Sound(results[n].facts, results[n].links, results[n].evidence, results[n].snapshot)
  /\ stage \notin {"idle", "raised"} =>
       Sound(store.facts, store.links, store.evidence, job.snapshot)

\* A candidate that stands up is a fact with all of its evidence, ranked as given, and
\* the report says what is wrong with one that does not.
Answered(c, result) ==
  LET id == FactId(result.observation_id, c)
      wrong == CandidateIssues(c, result.snapshot)
  IN \/ c.value = Absent
     \/ /\ wrong = {} /\ id \in DOMAIN result.facts
        /\ \A k \in DOMAIN c.evidence :
             [fact_id |-> id, evidence_id |-> c.evidence[k], rank |-> k] \in result.links
     \/ /\ wrong # {}
        /\ \A code \in wrong : <<code, c.field_path>> \in result.report.errors

\* A normalized fact of one raw fact keeps its value and all evidence of it.
Preserved(facts, result) ==
  \A f \in DOMAIN result.facts : \E norm \in facts :
    /\ norm.raw_fact_id = f /\ norm.raw_value = f[3]
    /\ \A link \in result.links : link.fact_id = f => link.evidence_id \in norm.evidence_ids

(***************************************************************************)
(* No value found on a page is dropped in silence, by the merging of       *)
(* candidates that share an id, by a failed output or by normalization:    *)
(* every one is kept with all of its evidence or is answered for in the    *)
(* report (P3-EX-004, P3-AMB, P3-NORM-004).                                *)
(***************************************************************************)
NothingDropped ==
  stage = "idle" => \A n \in DOMAIN results :
    LET cs == JsonLdCandidates(results[n].snapshot) \o RegexCandidates(results[n].snapshot)
              \o (IF results[n].extracted_json = Absent THEN <<>>
                  ELSE StructuredCandidates(results[n].extracted_json))
    IN /\ \A i \in DOMAIN cs : Answered(cs[i], results[n])
       /\ normalized[n] # Absent => Preserved(normalized[n], results[n])

(***************************************************************************)
(* Observations of one id hold the same facts and links, whatever way      *)
(* their outputs came: a replay, a repair or a fresh output (P3-DET).      *)
(***************************************************************************)
SameIdSameFacts ==
  \A m, n \in DOMAIN results :
    results[m].observation_id = results[n].observation_id =>
      results[m].facts = results[n].facts /\ results[m].links = results[n].links

(***************************************************************************)
(* An output that did not pass leaves no fact: what a structured output    *)
(* contributes has the form its field must have, in a report that says     *)
(* success, and a report that says failure comes with its errors and       *)
(* without facts of the model (P3-SO-002, P3-SO-004, P3-VAL-003).          *)
(***************************************************************************)
OnlyValidOutput ==
  \A n \in DOMAIN results :
    LET result == results[n]
        structured == {f \in DOMAIN result.facts : f[4] = "structured-output"}
    IN /\ \A f \in structured : f[3].form \in ExpectedForms(f[2])
       /\ result.report.status # "success" => structured = {}
       /\ result.report.status = "failure" =>
            result.extracted_json = Absent /\ result.report.errors # {}
===============================================================================

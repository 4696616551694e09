# Verification of apartment_finder

TLA+ models of the services in `src/services`, the TLC runs that check them on
small instances, and theorems about them that TLAPS checks for all instances.

## The system

Apartment_finder collects apartment listings and turns them into ranked,
evidence-backed results. Data moves through it in one direction:

    search spec -> tasks -> snapshots -> facts -> clusters, canonical listings
                                                 -> changes -> alerts

Every service keeps its state in the memory of its process (the SQL schema in
`src/db` is declared, but no service connects to it). Three services have an
HTTP front end whose handlers FastAPI runs on a pool of threads.

| Component | State | Operations | What is hard about it |
|---|---|---|---|
| Rate limiter, `acquisition/rate_limiter.py` | per domain: requests in flight, last request, errors in a row, cooldown, window | `next_available_time`, `acquire`, `release`, `register_error` | four limits at once; overlapping requests that end in any order |
| Acquisition, `acquisition/{scheduler,worker,queue,repository,audit}.py` | task objects, statuses, attempt counters, a queue ordered by time, an audit trail | `submit_task`, `pop_due`, `process_task` | retries, postponements, resubmission of the same id, policy changes in between |
| Policy gate, `policy_gate/` | a policy record per source | `upsert_policy`, `evaluate` | its answers go stale |
| Firecrawl adapter, `acquisition/firecrawl_adapter.py` | a log | `fetch_and_store` | fails in several ways |
| Snapshot store, `snapshot_store/` | appended snapshots | `create` | nothing two calls could disturb |
| Extraction and normalization, `extraction/`, `normalization/` | appended results | `run`, `normalize` | outputs that are repaired, references that are wrong, ids that coincide |
| Evidence and facts, `common/{evidence,facts}.py` | facts, evidence, links | `add_evidence`, `add_fact` | two sets of checks that must agree; records that replace each other while links stay |
| Dedupe and canonicalization, `dedupe/service.py` | the change store | `run`, `canonicalize`, `record` | merging is transitive; ids derived from content: a change seen before, a cluster that gains a member |
| Alerts, `alerts/` | alerts, dispatch states, two logs | `run`, `dispatch` | overlapping dispatch calls, failures, restarts, a limit in the middle of a run |
| Geo and commute, `geo_commute/` | active feed, graph version, commute cache | `register_feed`, `ensure_graph`, `commute`, `geocode` | versions read before a slow call and used after it |
| Search specs, `searchspec/` | stored specs | `parse`, `create_from_payload`, `get` | what is validated is not what came in |
| Retrieval and ranking, `retrieval/`, `ranking/` | the listing documents | `retrieve`, `rank`, `evaluate_hard_constraints` | conflicting and uncertain evidence, ties, documents that are replaced in between |
| UI, `ui/` | none of its own | pages | rendering |
| Evaluation and fixtures, `evaluation/`, `phase8/` | none | metrics over generated data | offline |
| Schema and deployment, `db/`, `docker/`, `scripts/` | | | not running code |

How they interact. The scheduler and the worker call the policy gate, the rate
limiter, the repository, the queue and the audit logger; the worker calls the
Firecrawl adapter, which writes a snapshot. Extraction reads snapshots and fills
a fact store; normalization and dedupe read facts; canonicalization writes the
`ListingChangeStore`; `AlertService.run` reads it, asks the ranking service
whether a listing meets the hard constraints, and adds alerts;
`AlertService.dispatch` sends them. All of these are direct calls. Time and
concurrency enter in four places: the delay between enqueueing and popping a
task, the request handler a worker waits for, the channel adapter a dispatching
thread waits for, and the router a commute request waits for.

What makes each component correct:

* Rate limiter: as seen from the target, requests are spaced, at most `cap` at
  once, within budget, and none during a pause; the slot count is exact.
* Acquisition: an accepted task is neither lost nor attempted too often, it is
  settled in the end, every attempt is permitted when it begins and is audited.
* Alert dispatch: the log is the history of what happened, attempts are
  bounded, what is settled stays settled, one notification per alert and channel.
* Canonicalization and changes: a field goes to the best fact there is, every
  transition has a record, and records are neither replaced nor repeated.
* Alert runs: an alert is for a listing that met the spec, whatever is stored
  while the run is under way, and the limit postpones alerts but loses none.
* Geo and commute: a graph version stands for one feed, and a commute is routed
  on the graph of the feed registered last; a failed build is not forgotten.
* Facts: an extraction never fails half-way, a stored fact has evidence that can
  be found in the snapshot, and nothing a page says is dropped in silence.
* Clusters: they are the components of the pairs that score high enough, whatever
  the order, and new observations never part them.
* Search: sure evidence excludes, unsure evidence is flagged, caps take from a
  full bucket only, and the payload for the language model keeps to its limits.

## Modules

| Module | Models | EXTENDS / INSTANCE |
|---|---|---|
| `DomainLimits` | the arithmetic of each method of `DomainRateLimiter` | |
| `RateLimiter` | the limiter and the callers that hold its slots | `DomainLimits` |
| `RateLimiterHistory` | the same with an observer at the target | `RateLimiter` |
| `Acquisition` | scheduler, queue, workers, policy gate, audit trail | `DomainLimits`; instances of `RateLimiter` and `TaskLifecycle` |
| `TaskLifecycle` | the abstract specification: what a submitter is promised | |
| `AlertDispatch` | `AlertService.dispatch` over `AlertRepository` | |
| `CanonicalChoice` | which fact is canonical for a field | |
| `ChangeAlerts` | `canonicalize` and the change log, composed with `AlertService.run` | `CanonicalChoice` |
| `GraphCache` | transit commutes: graph manager, OTP router, commute cache | |
| `FactStore` | `validate_evidence_ref`, and the fact store with checks of its own | |
| `FieldCandidates` | where candidates come from: pages, validated outputs; normalization | `FactStore` |
| `FactExtraction` | `ExtractionService.run`, one after another | `FieldCandidates` |
| `ListingPartition` | the abstract specification: what clustering promises | |
| `Dedupe` | `DedupeService.run` | instance of `ListingPartition` |
| `HardFilters` | whether a document passes the hard constraints of a spec | |
| `SpecParser` | normalization and validation of a search spec | |
| `Search` | `create_from_payload`, `rank`, and documents replaced meanwhile | `HardFilters`; instance of `SpecParser` |
| `MC...` | small instances for TLC | |
| `..._proofs` | theorems and proofs | the module they are about |

### Rate limiter

The code stores instants and compares them with `Clock.now()`. Only differences
matter, so a `DomainState` here holds the time left until each instant
(`delayLeft`, `cooldownLeft`, `windowLeft`) and `Elapsed` counts them down; an
instant in the past, and `None`, is 0. `_refresh_window` opens a window when
none is running, `next_available_time` is `WaitFor` after it, and `acquire` is
`CanAcquire` followed by `Admitted`. `register_error` doubles the pause for each
error in a row up to its maximum; `release(success=True)` clears errors and
cooldown, which the proofs and one finding are about.

`RateLimiter` adds the callers. `Release` and `BackOff` are the two ways a
worker gives a slot back (with and without `register_error`); `Touch` is a task
that needs no request and takes and returns its slot in one go. `set_policy` is
taken to happen before work starts, as in the tests.

`RateLimiterHistory` never reads the limiter's counters to decide what it has
seen: it times requests (`sinceStart`), remembers how long the last error asked
to be left alone (`quiet`) and counts requests by age (`recent`). The bounds on
what a domain experiences are stated on these.

### Acquisition

`process_task` leaves the process only when it calls the request handler, so
that is where it is cut. `Deny`, `Postpone`, `Start` and `RunInline` are the
ways it gets to that point or ends before it; `Succeed`, `Fail`, `Retry` and
`GiveUp` are what follows, one for each way the handler can return or raise
(`AdapterValidationError` and unknown exceptions change the same state). Between
the two, other workers run, tasks are submitted, policies change and time
passes. Within a step the code performs no I/O.

A task id is a hash of the task's inputs, so the same work submitted twice has
the same id. `TaskRepository.add` then replaces the stored `TaskSpec` by a new
object, with status queued and attempt 0, while the earlier queue item stays and
a worker may still hold the earlier object. Objects are therefore numbered by
submission (`current`, `attempt[t][n]`); a worker remembers which it fetched
(`worker[w].object`), and `update_status` and `increment_attempt` act on the
current one. The audit record written at the end of an attempt reads the counter
of the object the worker holds.

`queue` maps each item to the time until it is due. `PopDue` takes all due items
at once, as `pop_due` does, and `batch` holds what it returned until a worker
takes it.

### Alert dispatch

`dispatch` reserves an attempt, calls the channel's adapter, and records the
result. `Reserve`, `Send` and `RecordResult` are these three steps of a thread;
several threads serve the API at once, and the adapter does I/O, so they
interleave. An alert that is unknown, or a key that cannot be reserved, is
skipped and changes nothing. A missing adapter and an `AlertDispatchError` are
among the results `Send` may return. `Restart` loses every dictionary and every
thread, and keeps what receivers have seen.

### Canonical facts, changes and alert runs

`CanonicalChoice` holds what `canonicalize` computes without state. A fact is
usable if it passes the four `continue`s of the loop; `Outranks` is the order of
`_ranking_tuple`, and `Winner` the last candidate in it. Fact ids are numbers,
because the code only compares them.

In `ChangeAlerts`, `Canonicalize` is one call of `canonicalize`, with what the
last call returned for `previous_canonical` and the shared change store, as the
tests call it. `SameId` says when two changes hash to one `change_id`: in
everything but the date. `Recorded` is `ListingChangeStore.record` for each
change of the diff.

`AlertService.run` is served by FastAPI on any thread of its pool. `StartRun`
takes the list of changes; `Examine` is a round of the loop up to the lookup in
`AlertRepository.add`, `AddAlert` the insertion and the rest of the round. A
change that is too old, or whose listing is missing or does not fit, is skipped.
`sorted` orders by date and then by id; ids are hashes, so changes of one date
come in any order. An alert is the pair its id is a hash of.

`given` and `fitted` are histories no action reads: the facts a canonical choice
was made from, and the pairs of a spec and a recorded change that have fitted.

### Transit commutes

`POST /geo/gtfs/register` and `POST /geo/commute` are served by threads that
share `OtpGraphManager`, `OtpRouter` and `CommuteCache` without a lock. A thread
may be overtaken where it calls into another of these or leaves the process, so
`commute` has the steps `EnsureGraph`, `Rebuild`, `ReturnBuild`, `Activate`
(`set_graph_version`), `ReadToken`, `AnswerFromCache` or `Miss`, `Routed` and
`AnswerAndCache`; a registration starts with `Register` and shares the first
three. `built` records which feed each version was built for, and `solo` which
requests have met no other; no action reads them.

What a route is worth is known by the version it names (`provider_version`),
which `OtpRouter.route` reads when the answer is in. Which graph the OTP server
itself has loaded is outside the repository.

### Extraction

A snapshot's text is a sequence of tokens of one character; a token knows which
pattern of `extraction/deterministic.py` reads it and which value it spells. A
JSON-LD block is a range of the html with the items it parses to. A hash is the
value that was hashed, so an id is the record it is made from, and equal ids mean
equal records. What remains of the code is all of its control: the order of
blocks, patterns and fields, `_value_span` with its fallback to the whole block
(and to an empty span for an empty value), the deduplication by everything but
the confidence, the stable sort, the repairs with their bound, and the two places
where a reference is judged. `EvidenceIssues` is `validate_evidence_ref`;
`EvidenceRefused` and `FactRefused` are the exceptions of the fact store.

`run` is one call on one thread, but it goes through many candidates and may
raise at each of them, so it is cut into `Begin`, `Validate` for each attempt,
`Gather`, one `Materialize` for each candidate, and `Finish`. Stage `raised` is
an exception that leaves `run`; nothing is added to the repository then.
`Normalize` may come for any result at any time.

### Clusters

`Dedupe` takes a run apart where order might matter: `Run` is blocking, scoring
and decisions, each `Unite` one `union` with its two `find`s and their path
compression, `Return` the groups. `Path` follows the parents up to the root
that `find` returns; every listing hangs under a smaller one or itself, so the
recursive function has an end. The refinement maps the union-find to the
partition it stands for. `ClustersAreComponents` does not mention paths: a cluster
is `Separate` from what is outside and `Connected` inside. Scores are exact fractions
of the default weights 6, 3 and 1; in double arithmetic the sums of 0.6, 0.3 and 0.1 lie on the same side of
the thresholds 0.85 and 0.6 for every combination of features.

Two candidates share a block, hence an address, so with the default weights no
candidate pair scores below 0.6; an override or a second observation that moved
can bring it lower. A pair that matches in nothing but the address, with a
different price and no unit, scores 6/7 and is merged. Both follow from the code
and contradict no document. A pair in the review queue may still end up in one
cluster, through a third listing.

### Search

`Create` is `create_from_payload`: the parse, and the repository only if there
was no error. `rank` reads the repository candidate by candidate and once more
for the caps, while the API may add documents, so it is `Request` (query and
retrieval), one `Hydrate` for each candidate, and `Rank`. `answer` holds what
came back, with the documents it was made from, until the next step.

`Verdicts` is the set of what each constraint says. The code stops at the first
failure; the flags of a document that fails are not shown to anybody. A list of
alternatives is resolved by confidence and then by `str()`. `_feature_match`
goes through the spellings of a feature in the order of a set of strings, which
depends on the hash seed of the process but does not change while it runs:
`Spellings` gives that order. A document may spell a feature twice, with values
that differ. The ranking may then differ from one process to the next ("For fixed
inputs, results are identical across runs", `phase_tests_phase6.md`, is then true of
one process only); the model and its properties are about one process.

`HardFiltersHonoured` does not look at the alternative the code picks, nor at the
spelling. `FieldsOn` are the fields that speak of a constraint, and `Against` is
what a value of one says against it: a number out of bounds, a date on the wrong
side ("now" being the day of the spec), a feature that is denied or missing from a
list, or that must not be there. A constraint is `Contradicted` if all of the
strongest evidence in all of these fields is against it. A ranked listing must
then have the low-confidence flag of that very constraint and evidence that is not
sure, likewise for a commute that is `TooFar`, and it must not be `Elsewhere`. A
listing that is dropped must have `Grounds`. Where alternatives or spellings
disagree the code may decide either way, as far as this property goes; what is
wrong with its way for lists of features is what `SearchListedFeature` shows.

`searchspec/app.py`, `ranking/app.py` and `alerts/app.py` each create a spec
repository of their own, so that in the process of the ranking service no spec is
ever stored except by tests; the model shares one, as the tests do.

## Runs

Counts are of distinct states. Every constant of a run is named in its cfg. Type
invariants, and a few invariants besides, are proved (see Proofs) and not checked
again by the runs of the components they are proved for.

| Run | Instance | States | Shows |
|---|---|---|---|
| `RateLimits` | 2 domains (cap 1 and cap 2), 2 callers, pauses of 2 and 3, at most 2 errors in a row | 83,738 | `SlotsExact`, `WithinLimits`, `SpanBudget`, `RequestsSpaced`, `CooldownKeptWhenSerial` |
| `AcquisitionOnce` | 2 crawls and an import, 2 workers, cap 1, 2 attempts, each submitted once | 95,544 | `StatusTruthful`, `AuditTellsHistory`, `LifecycleKept`, `EventuallySettled` |
| `AcquisitionAgain` | 1 crawl submitted twice, 2 workers, cap 2 | 36,784 | `NoTaskLost`, `AttemptsAudited`, `AttemptNeedsPolicy`, `LimiterUsedAsSpecified` |
| `DispatchConcurrent` | 1 alert, 3 threads, 2 attempts, 2 restarts | 1,791 | `LogTellsHistory`, `ExhaustedIsSettled`, `DeliveriesBounded`, `SettledIsFinal`, `ReservationsAnswered` |
| `DispatchOverlap` | 2 threads, no restart | violation | two deliveries of one alert |
| `ChangeAlerts` | 1 listing, 1 field, 3 facts from 2 sources, 2 runs with a limit of 1 | 28,531 | `AlertsVetted`, `ChangesKept`, `TransitionsLogged`, `TrustNeverLost`, `NothingStarved` |
| `GraphCache` | 2 threads, 2 feeds, 1 trip, 2 registrations | 128,701 | `SoloRouteFresh`, `Settles` |
| `GraphCacheRace` | the same | violation | a commute that ran alone gets a route of an old graph |
| `FactExtraction` | 2 extractions of 2 snapshots, 74 sets of arguments | 159,729 | `NeverRaises`, `FactsGrounded`, `NothingDropped`, `SameIdSameFacts`, `OnlyValidOutput` |
| `Dedupe` | 2 runs, each on 1 to 4 of 5 observations of 4 listings in any order, those of one listing in order of time | 79,843 | `ClustersAreComponents`, `EveryPairDecided`, `ClustersOnlyGrow`, `MergesAsSpecified` |
| `Search` | 4 listings, 7 documents, 13 payloads of which 6 pass, 1 request at a time | 101,430 | `HardFiltersHonoured`, `CapsJust`, `SpecsSettled`, `RerankInputClean` |
| `SearchListedFeature` | the same | violation | an excluded feature that is listed second does not exclude |

### Bounds, and why they are enough

* `MaxErrors` = 2 in `RateLimits`: the second error already reaches the maximal
  pause, so a third repeats it. The window of the serial domain is longer than
  its pause and that of the wide one shorter, so both orders of their ends occur.
* Two workers: every race in `process_task` is between two of them; the cap of
  two lets both into the handler at once, the cap of one keeps one waiting.
* `MaxAttempts` = 2: one attempt that may be retried and one that may not.
* `MaxSubmits` = 2 in `AcquisitionAgain`: an earlier and a later object. It is a
  bound of the model, not of the code. `AcquisitionOnce` submits once, because
  its properties speak of tasks submitted once; what becomes of them after a
  resubmission is told under "Sentences that do not hold".
* One key in `DispatchConcurrent`: keys share no state, so two calls can collide
  only on one. Three threads are one more than there are attempts.
* Three facts in `ChangeAlerts`: two that agree on the value and differ in date,
  so that a change repeats with another date, and one that disagrees from a source
  that is trusted less. The batches let the price appear, vanish and return,
  and the newer and less trusted fact meet the older one. Two runs with a
  limit of one: each pair of steps of two runs occurs, and a log of two changes
  is longer than the limit, so that starvation would show.
* Two threads in `GraphCache`: every mix-up is between one request and another.
  A thread serves any number of requests, so a third party may come later.
  `MaxRegistrations` = 2: the feed in force, and the one that overtakes it. The
  graph counter needs no bound of its own, since a graph is only built when the
  one there is of another feed.
* `MaxRestarts` = 2: two lives that end and one that does not.
* `MaxRuns` = 2 in `FactExtraction`: ids can only coincide between two extractions.
  The outputs hold one reference of every kind each validator tells apart, regions
  that stick out on each side of their image or have no extent among them, values
  that share a fact id with different evidence, confidence or order, missing
  values, evidence and confidence, and repairs that fail in another way than the
  output did, with 0 to 2 retries. The page states its price three times, and its
  block has the number of its bedrooms in front of them, too.
* `MaxRuns` = 2 in `Dedupe`: `ClustersOnlyGrow` compares two results. Four
  observations are enough for two blocks that are joined by a third listing, a
  pair on the boundary of the bands, one that an override moves, and a listing
  that is blocked by one observation and scored by another. Thresholds are those
  of the tests, in twentieths.
* `Search`: three candidates are read, so one of four is cut off; a bucket of two
  overflows, one of one is full at once; alternatives conflict with either one
  stronger, and lie on both sides of the threshold 0.8 and on it; commutes and lists
  of features that are against the spec come sure and unsure; one document spells a
  feature twice and denies it with different confidence, one affirms and denies it.
  `MaxFields` and
  `MaxEvidence` are below what the documents offer.
* `CHECK_DEADLOCK FALSE` in `FactExtraction` and `Dedupe`: with their last run the
  models stop.

### Fairness

`AcquisitionOnce` assumes that time passes, that the loop around `pop_due` and
`process_task` runs (every due item is popped and every popped item is given to a
worker), and that the handler returns or raises: the HTTP client behind it has a
timeout. All of it is weak fairness. Nothing is assumed of the outcome of an
attempt, of submissions or of policies. `DispatchConcurrent` assumes only that a
thread holding a reservation runs on; no new dispatch call is assumed.

`ChangeAlerts` assumes that a run under way goes on, and that the client asks
again and again for the alerts of each spec since the beginning. The second is
strong fairness, because a thread to serve the request is not always free; it is
what a client that polls does. Documents and facts are under no fairness.

`GraphCache` assumes that threads run on, that people go on asking for transit
commutes (strong fairness, for the same reason), and that building the graph
succeeds at last when it is tried again and again: the application passes no
builder at all (`geo_commute/config.py`), and with one, a build that fails each
time would leave the system without a graph for good. That OTP answers is not
assumed.

`FactExtraction`, `Dedupe` and `Search` state none: a call that is made ends, and
nothing in the code waits.

No safety property uses fairness.

### What the violation runs mean

Each checks one sentence of the repository's own test plan
(`_dev_docs/agent_reports/phase_tests_phase5.md`, `6`, `7`) against the code, and
TLC finds it does not hold. `PROJECT.json` quotes the sentence, with the line of
code that decides.

* `reserve_dispatch` refuses settled keys only. A key being sent is not settled.
  Dispatch states live in memory, too, so a restart between two calls has the
  same effect; `DeliveriesBounded` counts the lives for that reason.
* A thread that is slow to call `set_graph_version` sets the router back to a
  graph that has been replaced. A commute between reading its token and OTP's
  answer then stores a route that names the old graph under the new token. The
  manager and the router recover (`Settles`), the cache entry stays.
* `_resolve_structured_field` turns a list of amenities into the one item that
  sorts first before `_feature_match` searches it, so a feature listed second is
  absent with full confidence.

### Sentences that do not hold

Five more sentences of the test plan (`phase_tests_phase2.md`, `3`, `4`) do not hold
of the code as it is modelled. They have no run of their own; what can be relied on
in their place is said by properties that do hold.

* "Domain cooldown applied" (T2-ERR-003): a cooldown is ended by any success, also of
  a request that was under way before the error (`rate_limiter.py`, 117). With a cap
  of one there is no such request, and `CooldownKeptWhenSerial` holds, by proof.
* "No retry occurs; task marked denied" (T2-ERR-002): `process_task` does not look at
  the status of the task it fetches, so an item queued before a denial revives the
  task once the policy allows it again. What holds is `AttemptNeedsPolicy`.
* "Each attempt logged with attempt number" (T2-AUD-003): the audit record reads
  `task.attempt` after the request (`worker.py`, 68), not the number the attempt was
  given. With two items of one id and two workers both records say attempt 2 and none
  says attempt 1. The number of records is right (`AttemptsAudited`), and for tasks
  submitted once so are the numbers in them (`AuditTellsHistory`).
* "Locator points to the correct occurrence, not a different match" (P3-LOC-002):
  `_value_span` takes the first place where a block spells a value
  (`deterministic.py`, 65). In the tests' own page (FIX-P3-001) the bedrooms of
  `"numberOfBedrooms":2` are located in the house number 123 before it, and the page
  of `FactExtraction` has such a number, too. The evidence is valid, its excerpt and
  hash are those of its span, which is all that `FactsGrounded` says; it is not
  evidence of what it is attached to.
* T4.09: a change id has no date, so the same transition later is the same change and
  is not recorded again. The append-only log (`ChangesKept`) keeps the first date,
  and `TransitionsLogged` is the completeness that is left.

## Proofs

All for arbitrary constants, under the named assumptions of the modules, each of
which TLC evaluates in some run. `LimitsAssumption` (of `DomainLimits`),
`CallersAssumption`, `AcquisitionAssumption`, `DispatchAssumption`,
`FactsAssumption`, `AlertsAssumption` and `GraphAssumption` only give constants
their types, make the set of callers finite and keep the "none" values apart from
the real ones. So do `InputsAssumption`, `MaxRunsAssumption` and
`ThresholdsAssumption` of `Dedupe` (ids are compared as numbers, and the bands are
in the order `DedupeConfig` gives them), `JobsAssumption` and `RunsAssumption` of
`FactExtraction`, `SpellingsAssumption` of `HardFilters`, and `IdsAssumption`,
`LimitsAssumption`, `PayloadsAssumption` and `DocumentsAssumption` of `Search`
(a document is a dictionary of fields, each with a value and a finite list of
evidence). Two say more:

* `SnapshotsAssumption`: two snapshots with one id are one snapshot. Ids are
  `uuid4` and records are appended, never changed.
* `AliasesAssumption`: what a table of aliases leads to, it leaves alone, which is
  so of both tables in `searchspec/parser.py`. Without it a stored spec parsed
  again could change.

Two means recur. Nothing is proved by the induction theorems of the library, which
take an operator; instead, a set of natural numbers that is not empty has a least
element (`LeastExists`, from the well-foundedness of <), so a recursive function
that fails somewhere fails at a least place. And a sequence that is given by ranks,
as sorted lists are here, lists what it is made from once each and in order,
because ranks are taken by exactly one element.

* `RateLimiterHistory_proofs`, for the three modules of the limiter. Lemmas on what
  each method does to a `DomainState` come first; no step looks inside `Backoff`,
  whose doubling needs no arithmetic beyond its ceiling. `RLTyped`,
  `SlotsAreExact`, `LimitsAreKept`: `SlotsExact` is inductive with the type
  invariant, two lemmas say how the set of holders moves with one caller, and every
  action moves the counter with it. `WithinLimits` follows from it, because
  `CanAcquire` compares the counter. `RequestsAreSpaced` needs `DelayTimed`, that
  the time since the last request and what is left of the delay make up the minimum
  delay. `SerialCooldowns` needs `PausesKept`: while a pause lasts in a serial
  domain nobody holds its slot, and the limiter's own timer has not run ahead of
  the observer's. The first half is why a success cannot cancel it.
  `SpansAreBounded` needs `WindowsSeen`: of the requests within the last window
  length, those since the window was opened are at most the count, those before it
  at most a budget, and with no window open all of them together are at most a
  budget. `Sum` is what a fold over a set amounts to: one element and the rest,
  whichever is taken first.
* `Acquisition_proofs`: `AcquisitionTyped` needs `Grounded`, that whatever is
  queued, popped or being executed was submitted. `NoTaskIsLost` shows for each
  action what it does to one task and that it leaves the items and workers of
  the others alone. `LimiterRefined` maps a worker to the domain of the task it
  executes and each action to one action of `RateLimiter` or to a stutter;
  `SlotsNeverLeak` then follows from `RateLimiterHistory_proofs`, instantiated.
  `EveryAttemptAudited` keeps the books of a task: attempts begun, over all its
  objects, records that are no denials, and workers at it move together in each
  action, for which the object that is counted up may have been replaced.
  `StatusIsTruthful` needs `Places`, which holds under resubmission, too: an item
  is waiting, popped or with one worker, and in one of these places at most.
  `AuditIsHistory` needs `Lives`: while a task is submitted once its trail keeps up
  with its attempt counter, one behind while a worker is at it, and has no denial
  before it is over. `LifecycleImplemented` rests on both and has `MaxSubmits = 1`
  as its hypothesis: a task submitted again once it is over is queued again, which
  is no step of `TaskLifecycle`.
* `AlertDispatch_proofs`: `DispatchTyped`, `SettledForGood`. `ExhaustedSettles`
  needs `LastHeld`, that a key without attempts left is settled or has a thread
  at its last attempt. `DeliveriesAreBounded` needs `PledgesBacked`, that
  deliveries made and reservations about to be sent are together at most the
  attempts reserved, counted over all lives of the process. `LogIsHistory` needs
  `HistoryTold`: no entry and no thread is ahead of the attempts reserved, each
  attempt has one pending entry, and after it one result or one thread.
* `ChangeAlerts_proofs`: `WinnerOutranksAll` says that a canonical fact exists:
  `Outranks` is a strict total order, and a finite set of candidates has a last
  one in it, by well-founded induction on subsets. The type theorem needs it, and
  so does `TrustIsKept`. `LogIsComplete` and `LogIsAppendOnly` follow from lemmas
  about `Recorded`. `AlertsAreVetted` needs that the change a run holds
  between lookup and insertion has fitted already.
* `GraphCache_proofs`: `VersionsNameFeeds` needs `BuildsNumbered`, that no version
  built so far is above the counter. `SoloRoutesAreFresh` needs `SoloOnTrack`,
  what a request that has met no other can rely on at each of its places: from
  the build on, the manager is current; from the activation on, the router has
  the manager's version.
* `FactExtraction_proofs`: `ExtractionNeverRaises` and `ExtractionGrounded`, from one
  invariant: the store is sound whenever a run is in it, and so are the results.
  What the first needs is that the two sets of checks agree: `GoodEvidenceTaken`,
  every reference without an issue is one `add_evidence` takes, and
  `GoodCandidateTaken`, the evidence just added is the evidence `add_fact` looks
  for. `KeepsSound` says that a record that replaces another under its id leaves
  every link with a fact and with evidence. `ExtractionDropsNothing`,
  `ExtractionRepeats`, `ExtractionValid` and `ExtractionTyped` come from a second
  invariant, `TInv`. `Told` is what the first n candidates leave behind: a fact for
  every id among those that stand up, of the last one with it, the links of all,
  and an issue for each of the others. `OnTheWay` says the queue is what is left
  after some n of them, `ResultsFit` that a result was told all. Since there is one
  way to tell, equal ids have equal facts. Flattening, sorting and deduplication
  keep every candidate (`Flattened`, `SortedKeepsAll`, `DeduplicatedKeepsAll`).
* `Dedupe_proofs`: in a `Forest` every listing hangs under a smaller one or itself;
  `PathStep` shows that the recursive `Path` is defined in one, and each path has
  one root. `FoundKeepsRoots` and `UnitedRoots` say what path compression and union
  do to roots, and with them `PartitionImplemented` maps each step to one of
  `ListingPartition`. `ClusteringIsRight` needs `Completed`, that a pair is still
  waiting or shares its root, and `Justified`, that no set which the decided pairs
  do not cut is cut by a root: the first makes clusters large enough and the second
  keeps them from being too large. `NoPairUndecided` and `ClustersNeverSplit` follow
  from what results are; the second also needs that more observations of other
  listings leave the scores of a pair alone (`SameGrows`). `DedupeTyped` is the
  type invariant.
* `Search_proofs`: the inductive invariant `SInv` says that what is stored was
  parsed, what was asked and read is what was stored, and how far hydration has
  come. `SpecsStaySettled` needs `NormalSettles`: normalization is idempotent.
  `CapsStayJust` needs `Spread`, what the diversified list holds after n listings:
  no cap exceeded, and whoever was left out met a full bucket of better ones.
  `HardFiltersStayHonoured` needs that the alternative the code resolves to is a
  strongest one (`ResolvedIsStrongest`), that the field a feature is looked up in is
  one of those that speak of it (`MatchIs`, for any order of the spellings), and a
  case for each constraint in which its verdict and the evidence tell the same
  (`ContradictionTells` and `CommuteTells` for listings that pass, `FailingIsGrounded`
  for those that do not). `RerankInputStaysClean` follows from the
  shape of the payload. The order of the ranked list rests on scores being numbers
  for whatever terms apply, which `FinalIsInt` shows of the recursive sum.

Proof attempts corrected the model where TLC's instance had been too small to tell:
`Against` overlooked that "now" may be before the date asked for, and took no
account of a feature given as a number; and terms of a score that happened to be
equal were added once, because a set was summed.

Only model-checked: `EventuallySettled`, `ReservationsAnswered`, `NothingStarved` and
`Settles`, which are liveness properties under fairness, out of the prover's reach;
and that the sentences of the violation runs do not hold. Every invariant and every
action property the passing runs check is proved.

## Not modelled

* `submit_raw`: it writes one audit record and returns, or calls `submit_task`.
* `RQQueueAdapter`: a wrapper around an external queue service. It cannot pop.
* Threads that are preempted between two statements of a step. The methods of the
  limiter and the repositories are taken as one step each. They perform no I/O.
* `TaskTransition` records, which repeat the statuses.
* Ids, hashes and serialisation. Two inputs have the same id when they are equal.
* An attempt begun beyond `max_attempts` through a second item of the same id:
  it follows from the resubmission races above and is not a run of its own.
* The match log of alert runs, which is written and never read.
* Canonicalization that is handed a `previous_canonical` other than the last
  result. The caller is not in the repository.
* Road trips: `ValhallaRouter`, its OSRM fallback and their cache entries. They
  share no state with transit commutes but the cache, and their versions do not
  change while the process runs.
* The geocoder with its own cache, the commute enrichment of documents, and
  `GtfsStoragePolicy`, beyond that a refused path changes nothing.
* What the regular expressions match, JSON and pydantic's schemas: `FactExtraction`
  and `SpecParser` are given what they yield. Odd values of well-formed JSON that
  fail inside Python, and not by one of the exceptions the code catches (an infinite
  number handed to `int()`, an `image_ref` that is a list), are not among them:
  `NeverRaises` is about the checks of evidence and facts, and does not speak of
  these.
* `vector_search`: `rank` builds no vector query, and nothing else calls `retrieve`.
* The soft preferences of a spec, which nothing reads.
* Two threads in `rank` at once: they share the repositories and write nothing, so
  the documents replaced under one of them say all there is to say.
* The Firecrawl adapter, but for its outcomes (`Succeed`, `Fail`, `Retry`); the snapshot
  store, which appends under fresh ids; the user interface, which renders; the
  evaluation harness and its fixtures, which run offline; the database schema, to
  which no service connects.

## Plan

Done: rate limiter, acquisition with the policy gate, alert dispatch,
canonicalization with the change log and alert runs, transit commutes,
extraction with the fact store and normalization, clustering, search from spec to
answer. What is left, in the order of what it would add:

1. An abstract specification of what a subscriber is promised, from changes over
   alerts to deliveries, which `ChangeAlerts` and `AlertDispatch` implement; and
   `Dedupe` composed with `ChangeAlerts`, for what a new duplicate does to the
   changes and alerts that name its cluster.
2. `RoadTrips`: the fallback and the cache, and the geocoder with its own.

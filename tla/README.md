# ClauseGuard in TLA+

ClauseGuard reconciles vendor invoices with the contracts that govern them. An
invoice that comes in is checked against the invoices seen before, matched with
a contract, judged by deterministic rules, routed (cleared, reported, or sent to
a person) and written to an audit log. This directory holds a specification of
that program in TLA+, the TLC configurations that check it on small instances,
and proofs of its main properties that TLAPS checks for every instance.

Paths below are relative to `src/src/clauseguard/`.

## 1. The system

| Component | State it keeps | Operations | What makes it correct |
|---|---|---|---|
| Duplicate detector (`ports/deduplication.py`, `adapters/dedup/in_memory.py`) | dictionary fingerprint -> first invoice id, a lock | `check_and_register` | of all calls about one invoice exactly one is told it is new; the others get the id of that one; every call returns |
| Contract matcher (`ports/matching.py`, `adapters/matching/heuristic.py`) | none (locals of a loop) | `match` | the first of the most similar contracts, if similar enough; raises only on an empty list |
| Rules (`rules/checks.py`) | none | six `evaluate` methods | each reports the lines it is for, with the right amount; what one skips another reports |
| Rules engine (`rules/engine.py`) | findings collected so far | `evaluate` | a rule that raises costs its own findings only |
| Scoring (`confidence/scorer.py`) | none | `aggregate_impact`, `result_confidence`, `route` | cleared only when nothing was found and the match is good enough |
| Audit log (`ports/audit.py`, `adapters/audit/in_memory.py`) | dictionary audit id -> result | `record`, `get` | append-only; one record per answer, none for a failure |
| Reconciliation service (`services/reconciliation.py`) | none of its own, shares detector and log | `reconcile` | no invoice is cleared twice; every answer is on record; every request ends |
| Composition root (`api/dependencies.py`) | `lru_cache` of detector and log | factories | the two are one per process |
| HTTP API (`api/app.py`, `api/routers/`) | none | `POST /v1/reconcile`, `POST /v1/reconcile-document`, `GET /health` | every request is answered; one that is refused leaves no trace; nothing is cleared that the documents do not say |
| Document service and parsers (`services/document_reconciliation.py`, `adapters/ingestion/`) | none | `reconcile_documents`, `parse` | OCR only when the text layer is poor; a document that cannot be read fails the request |
| Extraction (`adapters/extraction/`) | none | `extract` | the first tier that succeeds wins; nothing the LLM invented gets through |
| LLM provider (`providers/`) | an HTTP client | `complete` | transient failures retried within a bound, permanent ones not |
| Domain models (`domain/`) | immutable values | validation, rate lookup, discount | |
| Evaluation (`evaluation/`) | the outcomes of the cases run so far | `run_suite`, `compute_metrics` | the counts account for every finding; a perfect score means exact detection; a broken case leaves no report |
| Logging, exceptions, configuration (`logging_config.py`, `exceptions.py`, `config.py`), scripts | settings, cached | | |

**How they interact.** FastAPI runs a synchronous endpoint in a pool of threads,
so several requests execute `reconcile` at once. They share two objects, the
detector and the audit log, through module-level caches; everything else is
passed by value (the models are frozen). A call to `reconcile` is a sequence of
calls - detector, matcher, rules engine, scorer, audit log - each of which can
fail in its own way: a failing detector is swallowed, a failing rule is skipped,
a failing matcher or log ends the request with `ReconciliationError` (HTTP 422).
A request with documents first goes through the intake: each document is decoded
and parsed (the text layer, OCR where that is poor and OCR is enabled), the
invoice is extracted by a cascade of two or three tiers, the last of which asks a
language model through a provider that retries, and the contracts are extracted
one by one; only then is `reconcile` called.

**What is hard here.** Two threads inside `check_and_register`, or between that
call and the audit record; a request that fails *after* it has registered its
invoice; the race of the first requests in `lru_cache`; the chain "this line is
skipped here because another rule reports it", spread over five classes; two rules
that claim for one line, one of them from a rounded rate; comparisons of currencies
that were normalised in one place and not in another; thresholds compared with
`<` in one place and a score that is reused in another; exceptions that are
caught by class at four levels of the intake. `PROJECT.json` lists
these hazards one by one, with the line where each bites and the properties
that would catch it.

## 2. The modules

```
Values ─┬─ Matching ── HeuristicMatcher ── HeuristicMatcherProofs
        ├─ Scoring
        └─ Currency ─┬─ Checks ── RulesEngine ── DetectionProofs
                     └─ Extraction ─┬─ DocumentReading ── DocumentIntake ── DocumentIntakeProofs
                                    └─ EvaluationCases        (implements Intake)

InvoiceIdentity ── InMemoryDuplicateDetector ── InMemoryDuplicateDetectorProofs
                     (implements DuplicateDetection)

InvoiceIdentity, Scoring ── Reconciliation ── ReconciliationProofs
                              (implements AuditLog, drives DuplicateDetection)

Reconciliation, Matching, Checks ── Pipeline
Pipeline, DocumentReading ── Endpoints ── AssembledAPI ── EndpointsProofs
                                            (implements Endpoints, drives
                                             InMemoryDuplicateDetector)

EvaluationCases, Matching, Checks, Metrics ── EvaluationHarness ── DetectionProofs

CompositionRoot ── CompositionRootProofs

Checks, Scoring, DocumentReading ── OperatorLemmas, cited by DetectionProofs,
             ReconciliationProofs, EndpointsProofs and DocumentIntakeProofs
```

* **Values** - `None`, the unit of scores, and rounding half to even as
  `Decimal.quantize` and `round` do it.
* **Currency** - an amount of money. `Money` spells its currency in upper case,
  as the domain model does; `Upper` is that conversion. The program's numbers are
  decimals of any precision: they are integers here, in units whose size is a
  parameter (`Cent` units of an amount make a cent, `Piece` units of a quantity a
  quantity of one, `Percent` units of a discount one percent), so that a rate may be
  finer than a cent. Amounts may be negative, as nothing in `Money` forbids a credit.
  A line has the number printed on it (`line_no`), which need not be its position
  nor its own. The module also names the kinds of discrepancy.
* **InvoiceIdentity** - the fingerprint. Trimming and case folding is the
  function `Folded`; the SHA-256 of the pair is taken to be injective, and the
  separator `\x1f` not to occur in a name, so the pair stands for its digest.
* **DuplicateDetection** - the port, as one atomic step (`CheckAndRegister`), or
  a failure that registers nothing (`GiveUp`).
* **InMemoryDuplicateDetector** - the adapter: `Call` computes the fingerprint,
  `Acquire` takes the lock, `Get` reads the dictionary, `FindOriginal` and
  `Register` are the two branches, `Release` leaves the `with` block and
  returns. `pc[r]` is the thread's position, `original[r]` its local variable.
  Step by step it implements DuplicateDetection under the refinement mapping
  `Port`: a call is answered when its branch is decided under the lock.
* **Matching** - what a match is: `Match` by definition, with no loop.
  The string library's similarity is the constant `Ratio`.
* **HeuristicMatcher** - the loop of `match`, one turn per action.
* **Checks** - the six rules as functions from invoice and contract to what they
  return, or `Raised`. `Quantized` is `quantize(Decimal("0.01"))`, from the exact
  product to the nearest whole cent; `QuantizeLimit` is the size beyond which
  `quantize` raises. A finding names its line by the line's printed number.
* **RulesEngine** - `RulesEngine.evaluate`: one action per turn of its loop, for
  a rule that returns and for a rule that raises. `skipped` remembers which
  raised (the code logs it).
* **Scoring** - `aggregate_impact`, `result_confidence` and `route`. Scores are
  integers in ten-thousandths and confidences in hundredths, so `round(x, 4)` is
  exact up to the representation error of floats, which is not modelled.
* **AuditLog** - the audit-log port: an append-only function from ids to results.
* **Reconciliation** - the service. `Submit` is the arrival of a request,
  `DetectDuplicate`/`TreatAsNew` is `_detect_duplicate`, `MatchFails`,
  `LeaveUnmatched` and `EvaluateMatched` the three outcomes of matching, and
  `DrawAuditId`, `AuditIdCollides` and `StoreRecord` are `record` called by
  `_finalise`, its look-up and its store being separate steps because no lock
  joins them. Threads interleave between any two of these steps: the shared
  state is touched in at most one of them at a time. The matcher and the rules
  engine are pure functions of their arguments and appear as the constants
  `Matcher` and `RuleFindings`.
* **Pipeline** - the service as the API assembles it. `PortsAssumption` says what
  the composition root puts into the two ports: `Matcher` is `Matching!Match` and
  `RuleFindings` is `Checks!Evaluate`.
* **Endpoints** - the API: both endpoints over that one service. `SubmitJson` is
  `POST /v1/reconcile`; `ReceiveDocuments` is the arrival of a document request,
  which `HandOver` gives to the service or `Refuse` answers with an error; `Serve`
  is a step of the service. All the steps of an intake are one step here, to any
  of the `Readings` of its documents: they touch nothing that requests share, and
  DocumentIntake is checked and proved to come to one of these readings.
* **AssembledAPI** - the API as it is deployed, over the in-memory detector. The call
  of the detector, one step in Endpoints, is made of the adapter's own: a thread
  calls when its request is handed over (`CallWithJson`, `CallWithReading`), waits
  for the lock, reads, decides (`Decide`, the step the service sees), releases, and
  only then goes on with the request (`Resume`), while others are anywhere in
  between. It implements Endpoints, and the detector's part of it is a behaviour of
  InMemoryDuplicateDetector.
* **CompositionRoot** - the cached factories. The call of a cached function that
  misses runs the factory without a lock; the first to finish fills the cache
  and the others keep the object they built. A request then makes one
  duplicate check and one audit record with what it was given.
* **Extraction** - what the extractors make of a parsed document, `None` where the
  code raises its extraction error: `LayoutAware` and `RuleBased` for invoices,
  `FromAnswer` with `VerifyGrounded` for an answer of the LLM, `ContractFrom` for
  contracts. A parsed invoice is given by its labelled fields above and below the
  table, its tables, and the set of words and numbers printed on it; `Junk` is
  text that is neither number nor date. `Escapes` tells the answers whose figures
  make `Decimal` raise what nobody catches.
* **DocumentReading** - the relation between the documents of a request and what
  the intake may make of them. `Parse` is the fallback from text layer to OCR,
  `InvoicesIn` the invoices the cascade may extract from a parse (several, since a
  model may answer in several ways), `ContractsOf` the contracts in their order,
  and `Readings` all of it with the refusals.
* **Intake** - the abstract specification of the intake: one step to a reading.
* **DocumentIntake** - one request to `/v1/reconcile-document`. `Decode`, `RefuseEncoding`,
  `ParseInvoice` and `ParseFails` are the boundary and the fallback parser; `TierReads`, `TierFails` and
  `NextTier` are the cascade; `Retry`, `RetriesExhausted`, `FailsPermanently` and
  the three `Answer...` actions are the LLM tier with the retry loop of its
  provider, `attempts` recording how each call ended; `ReadContract` reads the
  contracts in order, and `Reconcile`/`ReconcileFails` stand for module
  Reconciliation. `status` is the HTTP status the request ends with. It implements
  Intake: the refinement mapping is `Reading`, which is fixed at the moment the
  last contract is read or the request is refused.
* **Metrics**, **EvaluationCases**, **EvaluationHarness** - the evaluation. Metrics
  are exact fractions of counts; the built-in cases are data, as the extractors
  see their texts; `RunCase` takes one case through the text extractors, the
  matcher and the rules, `RunCaseFails` is the error that leaves `run_suite`, and
  `Report` computes the metrics. DetectionProofs speaks of this module and of
  RulesEngine together, so its state machine is `SuiteInit`, `SuiteNext` and
  `SuiteSpec` over `suiteVars`.
* **MC...** modules give the constants their values (MCEndpoints builds on
  MCPipeline, so that the same invoices arrive as JSON and as documents). **...Proofs** modules hold
  the theorems of the modules they extend, **OperatorLemmas** what they need to know
  about the operators.

Definitions whose comment starts with "Slip" are not part of any specification:
each is a plausible slip in the code above it, kept to show which property would
notice it (`PROJECT.json`, "mutants").

## 3. What is checked

| Run | Instance | What it shows |
|---|---|---|
| `detector` | 3 threads, 4 invoices (one in two spellings, one sharing its vendor, one sharing its id) | `AtMostOneNew`, `CitesTheOriginal`, `ImplementsPort`; `CallsReturn` under weak fairness |
| `matcher` | every list of 0-4 candidates out of 7, scores 0, 7499, 7500, 8000, 10000 | the loop returns `Match` (`ReturnsTheMatch`) |
| `rules` | every invoice of 0-2 lines out of 17, numbered 2, 1 or both 7, 2 dates, 7 contracts; amounts in tenths of a cent, discounts in half percents | `FaultIsolation`, `CleanBillIsRight`, `ClaimsBounded`, `Finishes` |
| `endpoints` | 2 requests, each to either endpoint: 6 pairs of invoice and contracts as JSON, 3 invoice documents, 2 lists of contract documents, 6 answers of a model, 2 settings; detector absent, sound or failing | of the service `FlaggedCitesFirst`, `NeverClearedTwice`, `AuditTrailExact`, `ClearedOnlyWhenClean`, `TotalIsComplete`, `JudgedByTheBestMatch` and the refinements `UsesDetectorOnce`, `ImplementsAuditLog`; of the API `RefusalLeavesNoTrace`, `SameDocumentClearedOnce`, `ClearedForWhatIsPrinted`, `DocumentMismatchesAreReal`; `EveryRequestIsAnswered` under weak fairness |
| `assembled` | the same 2 requests over the locked dictionary instead of an abstract detector | `AnswersReachTheirCaller`, the refinements `ImplementsAPI` and `KeepsToTheAdapter`; `EveryRequestIsAnswered` under weak fairness |
| `startup` | 3 requests, 2 invoices, symmetric | `OneNewAfterStartup`, `LateRecordsTogether` |
| `intake` | 4 settings, 13 invoice documents, 9 contract lists, 8 LLM answers, 2 retries | `LlmIsTheLastResort`, `FiguresArePrinted`, `RetriedWhileTransient`, `RefusedOnlyIfUnreadable`, `ImplementsIntake`; `RequestEnds` under weak fairness |
| `evaluation` | every suite of 0-3 cases out of 9, and the built-in suite of 4 | `BuiltinScoresPerfectly`, `CountsConserve`, `PerfectMeansExact`, `BrokenSuiteFails` |

The type invariants of the modules are proved (section 4), so the runs leave them
out; `assembled` checks its `AssembledTypeOK`, which also says where a request is in
`reconcile` while its thread is in the detector.

**Why the bounds suffice.** A race on the dictionary takes two threads, and a
third to see that the answer stays right after the race. A tie between
candidates takes two and a better one before or after it takes a third; the
fourth is margin. Rules look at one line at a time, or at the invoice through
the lines of one kind: two lines show that a line's verdict does not depend on
its neighbour, except through a raising rule, which the second line shows. A tenth
of a cent is enough for a rate that rounding lifts above the list rate (0.129 with
1 % off is 0.13) and for one that it lowers (0.134 with 1 % off, 0.13266, is 0.13),
with a line billed in between. An
audit-id collision takes two requests. The lru_cache race takes two requests and
a third that comes later. Two requests are enough at the endpoints too: what a
document request shares with others it shares through the service, and the two
may be of one kind or of both; the documents are one that is read by the layout
tier, the same invoice scanned in another spelling, and one only a model reads.
A suite of three cases shows that counts add up over cases and types; the fourth
built-in case is in the suite the tests run. The intake of one request is
sequential: its documents are chosen so
that each tier is once the first that reads one, each parser once the better one
and once the one that raises, and each condition of an extractor is once the only
one that fails; two retries tell a first, a middle and a last attempt apart.

**Where the documentation and the code part.** Four runs check one statement
each that a comment or docstring makes, and end in a counterexample:

* `unmatched_cleared` - "record and route to review": an unmatched invoice keeps
  its best candidate's score. At 0.72 that is below the acceptance threshold
  (0.75) and above the review threshold (0.70): with no duplicate it is
  `AUTO_CLEARED`, without any contract.
* `cited_original` - "Previously recorded invoice": the invoice is registered
  before the match; if that fails, the corrected request is flagged as the
  duplicate of an invoice no record exists of.
* `lower_case_currency` - "billed in a currency other than the contract's": the
  contract's currency is the one field that is not upper-cased. Contracts read
  from documents are not concerned (`DocumentMismatchesAreReal`).
* `unread_figure` - "422 if a document cannot be parsed/extracted": a figure in
  the LLM's answer that `Decimal` cannot read, "1,200.00" for one, raises
  `InvalidOperation`, which is no `ValueError`; it passes the extractor, the
  cascade and the endpoint, and the request ends with 500.

Four more need no run of their own. "Return the process-wide duplicate-detector
singleton" (`api/dependencies.py:55`) does not hold for first requests that come at
once: each may build a detector, and the cache keeps the first. This is why
`OneNewAfterStartup` and `LateRecordsTogether` speak only of requests that come when
the detector is cached. The comments "handled by
CurrencyMismatchRule" (`rules/checks.py:141` and 213) hold only if a rate-card
entry is in its contract's currency: that rule compares with the contract, the
skipping rules with the entry, and a line that falls between is compared by none.
This is why `CleanBillIsRight` asks for the right rate only of a line that is
`Comparable`. A line whose total is in another currency than its rate makes
`ArithmeticRule` raise, is skipped with it, and is surfaced by no finding
although `_invoice_total` says so; this is why `CleanBillIsRight` speaks of
evaluations in which no rule was skipped. And "every value the model claims to
have extracted must actually appear in the source text"
(`adapters/extraction/llm_invoice.py:23`): id, SKUs and figures are looked up,
vendor, date and currency are not, and an answer without any line passes; this is
why `FiguresArePrinted` is about the former only.

**What the properties presuppose.** Some of them hold under conditions the code does
not itself ensure, and say nothing where these fail. `JudgedByTheBestMatch` is about
candidates with different ids: of two contracts with one id the service judges by
the first, whichever won the match. `NeverClearedTwice` is about a detector that
works: while a store fails, an invoice may be cleared twice, which the service
accepts. `SameDocumentClearedOnce` is about documents read without a model: what a
model reads it may read in two ways. `ClaimsBounded` tells lines by their numbers, so
it is about lines that share theirs with no other; and since the discounted rate is
rounded to cents before it is compared, its bounds, once and twice the overcharge,
have a margin of half a cent a unit where a discount is earned. Without it they are
false: at a list rate of 0.129 with 1 % off the due rate is 0.13, so a line billed at
0.1295, above the list rate, draws a claim from one rule and nothing from the other,
and one billed at 0.13 is claimed for less than it exceeds 0.12771. A contracted
credit, made smaller by a discount, is covered: the overcharge is counted from the
lower of the two rates.

**Fairness.** Only weak fairness of each thread's own step is assumed
(`InMemoryDuplicateDetector`, `Reconciliation`, and `Read(r)` in `Endpoints`: a
thread keeps running in the intake as well), or of the only thread there is
(`RulesEngine`, `DocumentIntake`, whose retries are bounded
and whose HTTP calls time out): the operating system keeps running a thread that
can run. It stands in a specification of its own, `FairSpec` (`APIFairSpec`,
`AssembledFairSpec`), which only the liveness properties need: every theorem is
about the specification without it, and so about runs in which a thread is never
scheduled again as well. `Call`, `Submit`, `SubmitJson` and `ReceiveDocuments` are not fair: nobody
has to send requests. Weak fairness of `Acquire` is enough in the `detector` run
because each thread makes one call; it does not claim that Python's lock is fair.
The same holds of `InThread` in `assembled`, where a request takes the lock once.

## 4. What is proved

All theorems hold for any number of requests, invoices and contracts of any length,
any documents and answers, amounts of any precision, from the named assumptions on
the constants only.

* **InMemoryDuplicateDetectorProofs** - `TypeCorrect`, `OneNew`,
  `DuplicateCitesOriginal`, `Refinement`. The properties are not inductive by
  themselves. The invariant adds what the lock gives: the thread in the critical
  section is the one that holds it; between the read and the branch what the
  thread read is still what the dictionary says; a fingerprint in the dictionary
  was put there by exactly one thread that found nothing, and that thread's
  printed id is the entry.
* **HeuristicMatcherProofs** - `LoopComputesMatch`: the loop invariant says that
  `best` is the first maximum of the prefix scanned so far, and `best_score` its
  score, or that the whole prefix scores 0. `MatcherTypes`, and `NonePassedOver`:
  the invoice is left unmatched only if no candidate reaches the threshold.
* **ReconciliationProofs** - `TypeCorrect`, `FlaggedCites`, `Cleared`,
  `NotClearedTwice`, `AuditTrail`, `RefinesPort`, `RefinesAuditLog`. The
  invariant says what a request's position implies of its locals and of the
  shared state: a registered fingerprint has one owner, checked and told "new";
  a sound detector was asked by every request past the check; a result is
  `Result` of the request's own arguments and findings; an id held by a request
  at "store" is free in the log and held by nobody else; a record belongs to the
  one request that is done with it. `NotClearedTwice` then follows: two cleared
  requests with one invoice would both have been told "new". That a non-empty
  list of findings is never cleared comes from the definition of `Route`.
  Two requests in flight never hold the same fresh uuid (`Drawn`); without this
  assumption the look-up-then-store of the log could overwrite a record.

  `TotalComplete`, that an answer's total is the sum of all its impacts, has an
  invariant of its own (`TotalInv`): from the moment a result is built its total
  is that of its discrepancies. That `aggregate_impact` computes the sum is the
  lemma `AggregateIsTotal`; that the findings about a duplicate have amounts in the
  invoice's currency comes from `LinesAssumption`.
* **EndpointsProofs** - `JudgedByTheWinner`, about the service as the API assembles
  it: the contract the rules judge by is the one that won the match. Scores are
  bounded numbers, so a non-empty list has a best score and a first candidate that
  has it; the matcher hands over only that candidate's id, and the look-up by id
  finds the same candidate since the ids differ, which the property presupposes. It
  rests on `PortsAssumption` and on every party having a vendor name
  (`VendorsAssumption`). `ImplementsService`: the API's specification implies the
  service's, because handing a reading over is a `Submit` and
  everything else outside `Serve` leaves the service alone. All theorems about the
  service so hold of the API (`APIService`, `APINotClearedTwice`, `APIAuditTrail`,
  `APIJudgedByTheWinner`). The invariant `ReadInv` adds that a request in the
  service got its invoice from a reading of its documents, and that one that was
  refused never reached it. `NoTraceOfRefused` follows with the service's invariant
  (a registered fingerprint has an owner that was checked), `DocumentClearedOnce`
  with the fact that a document read without a model has one reading.
  `ClearedOnPaper` and `MismatchesOfDocumentsAreReal` follow the whole way from the
  print to the verdict: the invoice served is a copy of its document and the
  contracts are what their documents say (`ServedAsRead`, `CandidatesAreSaid`), the
  contract the rules judged by is one of these (`AnsweredWithAContract`), and the
  rules found nothing, so that each line has an entry on it, or found a mismatch,
  which then has a line.

  `MatcherFillsItsPort` and `EngineFillsItsPort`: what the service takes for granted
  of its two ports (`MatcherAssumption`, `RuleFindingsAssumption`) holds of the
  matcher and the engine that `PortsAssumption` puts there, so in the assembled
  service it is not taken on trust.

  Of the deployed API: `AssembledImplementsAPI`, `AssembledTypes`,
  `DetectorUsedAsMeant`, `AnswersReachCallers`. The invariant (`AssembledInv`) ties
  the thread's position in `check_and_register` to that of its request in
  `reconcile`, and keeps what the lock gives (`LockInv`): one thread at most is past
  `Acquire`; what it read is still what the dictionary says when it decides; what it
  carries out of the lock is the answer the service recorded. `Decide` then is a
  `DetectDuplicate` of the service, every other step of the adapter leaves the
  service as it was, and no step of the service touches the dictionary. All that is
  proved of the API so holds of it with requests blocked half-way through
  (`DeployedAnswers`), and that no invoice is cleared twice no longer presupposes a
  sound detector (`DeployedNotClearedTwice`). It does presuppose that the requests
  share one detector, which those that race at startup may not (CompositionRoot).
* **DocumentIntakeProofs** - `IntakeTypes`, `LlmComesLast`, `RetriesAreBounded`,
  `NoTextIsLost`, `NoFigureIsMadeUp`, `RefusalsHaveACause` and the refinement
  `ImplementsTheReadings`. The invariant has four parts: what is set in which phase
  (`PhaseInv`), what the tiers already passed could not do (`CascadeInv`), the
  attempts so far (`RetryInv`), and that what was extracted is what the documents
  say, the contracts so far being the first ones of the list (`ExtractedInv`).
  `NoFigureIsMadeUp` follows from the last part: an invoice that was read is one
  that a tier makes of the parse, and each tier copies, the LLM tier because of
  `VerifyGrounded`. `RequestsAreFinite` is the part of `RequestEnds` that is safety:
  `StepsLeft`, the phases, tiers, attempts and contracts still to come, is a natural
  number that every step lowers, so that no request goes round in circles; that a
  step is always possible until the end stays with TLC.
* **DetectionProofs** - of the rules engine `TypeCorrect`, `IsolatesFaults`,
  `CleanBillsAreRight` and `ClaimsAreBounded`, from the loop invariant `LoopInv`: the
  findings so far are those of the rules passed, joined in their order, and a rule
  that raised is among the skipped ones. At the end they are `Evaluate`, and what a
  rule reports is known from the lemmas about the six rules. `CleanBillsAreRight`
  then reads off, line by line, what follows from the silence of each.
  `ClaimsAreBounded` is arithmetic: on a line with a number of its own at most two
  findings claim money (`ClaimsOfAUnit`, `SumOfClaims`), one over the list rate, one
  over the rounded discounted rate. The latter is within half a cent of the exact one
  (`QuantizedIsNear`), so the two claims are within half a cent a unit of the excess
  over the one and over the other, whose sum is at least the larger and at most twice
  the larger; a line with no discount earned has the first claim only. Of the harness
  `SuiteTypes`, `BrokenSuitesFail`, `CountsAreConserved` and `PerfectIsExact`, from
  `SuiteInv`: the outcomes so far are those of the first cases, all of which can be
  read. The metrics add sizes of sets over types and over cases. The proofs tag the
  members of each set with the case it is counted for, so that a sum of sizes is the
  size of one set of pairs (`SizesAddUp`, `TypesAddUp`), and the theorems are about
  sets: detected and seeded keys split into hits, false alarms and misses, and no
  false alarm and no miss is left exactly if the two agree in every case.
  `BuiltinIsPerfect` takes the four built-in cases the whole way: `BuiltinCaseIsRead`
  says that their texts are read as what is printed in them and matched with their
  own contract, `LinesJudged` how a contract with one rate judges a line, and each
  case is then a matter of its figures (`OverbillingIsFound`,
  `ArithmeticAndTermIsFound`, `CurrencyMismatchIsFound`, `CleanIsFound`). The keys
  found are those planted, so `SuiteInv` and the lemmas on the metrics give precision
  and recall 1. It holds for every threshold of the matcher and for every tolerance
  below the planted 50.00, not only for the defaults.
* **CompositionRootProofs** - `RootTypes`, `FingerprintsPersistAfterStartup`,
  `OneLogAfterStartup`, `CacheIsStable`. The invariant: the detector is cached only
  once the log is (`CacheInv`), a request that comes after that never misses
  (`LateInv`), and one detector says "new" once about an invoice (`VerdictInv`).
* **OperatorLemmas** - what those proofs need to know about the operators. Sums:
  `SumFunctionOnSet` is a fold over a finite set that takes its elements in an
  unknown order, and `SumWithout` says that any element can be set apart. The
  induction over the size of the set this takes is done by least counterexample
  (`LeastElement`), which needs no induction theorem with an operator as a
  parameter. Reports: what each of the six rules returns for lists of lines of any
  length (`CurrencyMismatchReports`, `RateMismatchReports`, ...), that its findings
  stand in the order of the lines (`InOrderIsExact`), and that `Evaluate` joins them
  (`EvaluateJoins`). Prices: the discount is 0 or that of an earned tier, and a
  rounded amount is within half a cent of the exact one (`QuantizedIsNear`).
  Extraction: each extractor copies (`LayoutAwareCopies`,
  `RuleBasedCopies`, `AnswerCopies`, `ContractsAreCopies`).

**What is assumed.** The assumptions are about constants and say what the code
outside the models ensures; TLC evaluates each of them in a run.

* What the pydantic models validate: lines, rate cards and findings of the types
  of `domain/models.py` (`InvoicesAssumption`, `ContractsAssumption`,
  `LinesAssumption`, `CardsAssumption`), thresholds between 0 and 1, a natural
  number as tolerance (`ToleranceAssumption`) and as number of retries. Amounts,
  quantities and discounts are whole numbers of some unit, of which a cent, a quantity
  of one and a percent are whole multiples (`ScalesAssumption`); for finitely many
  decimals there is such a unit.
* What library calls do: upper-casing twice is upper-casing once
  (`UpperAssumption`); similarity is a ratio (`RatioAssumption`).
* What the parsers hand over: an id, SKU or figure they recover is printed on the
  document, a currency is one that can be spelled in upper case (`CopiedInvoice` and
  `CopiedContract` in `DocumentsAssumption` and `ParsersAssumption`,
  `CurrencyOrderAssumption`, and `AnswersAssumption` for the LLM). The parsers cut
  these out of the text with regular expressions, which is not modelled; what the
  LLM answers is not assumed to be printed.
* What the suites are: finite lists of cases, in which what is planted is of a
  known type, on a line or on none (`CasesAssumption`, `SuitesAssumption`). For the
  built-in cases: the tolerance (0.01 by default) is below 50.00, the amounts planted
  are small enough for `quantize`, and INR and USD are in upper case
  (`PlantedErrorsAssumption`); no value in them is `None` or `Junk`
  (`BuiltinAssumption`).
* What the composition root wires together: `PortsAssumption`, `MatcherAssumption`,
  `RuleFindingsAssumption`, `ReadingsAssumption`; and that `None` is no value.

Some theorems state a property no run checks (`NonePassedOver`, `NoTextIsLost`,
`CacheIsStable`, `MatcherFillsItsPort`, `EngineFillsItsPort`, `RequestsAreFinite`): it follows from one that a run does check,
or the proof says all there is to say.

Every safety property and every refinement of the passing runs is proved. Only
model-checked is liveness (`CallsReturn`, `Finishes`,
`EveryRequestIsAnswered`, `RequestEnds`), which takes fairness and ENABLED and is
outside what the prover handles.

## 5. What is not modelled

Not modelled at all: text of findings, severities, citations, logging; what
pdfplumber and tesseract read, and the regular expressions and formats by which
fields, numbers and dates are recognised, which are library calls or pure text
processing (`Extraction` starts from the fields, tables and figures they yield);
pydantic's validation (every input enumerated has passed it); the error of binary
floating point in scores and metrics; the 28 digits to which `Decimal` rounds a
product (products are exact here, and `quantize` raises beyond its limit); loading and caching of the settings, which
are constants here; the HTTP client of the LLM provider; `GET /health`, which
answers a constant; the scripts under `scripts/`, which call the components once
and print.

Restarts are not modelled because nothing is persisted: after one, detector and
audit log are empty, which is the initial state of every module. The docstring of the
in-memory detector names a durable store as what would have to take its place.

The plan of modules and of proofs is carried out: each component alone, the service
over its ports, the API over the service, and the deployed API over the real
detector. What would add to it: a
persistent detector or log, once the code has one.

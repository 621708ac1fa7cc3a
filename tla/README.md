# Specifications of the warning agent

TLA+ models of `warning-agent`, checked with TLC, with theorems proved by TLAPS. The reference is the Python
code under `src/app`; every definition that models code is listed with its lines in `PROJECT.json` ("map").

## The system

The agent receives alerts, decides whether they need an investigation, investigates them with a local model and,
sparingly, a cloud model, writes a report and delivers it. A warning of SigNoz travels like this:

    POST /webhooks/signoz            receive_signoz_warning: validate, authenticate, admit
      -> SignozWarningStore          artifacts, a row of the SQLite index, queue_entry.json
      -> enqueue_admitted_warning    dedupe, then pending or deduped
    run_signoz_worker_once           claim, run, settle
      -> execute_runtime_inputs      packet, decision, investigation, report
      -> persist_runtime_execution   JSONL artifacts, delivery, metadata, retrieval documents
    feedback                         outcomes of an operator flow back into the retrieval index

| Component | State it keeps | Operations | What is hard |
|---|---|---|---|
| Warning store | rows of `index.sqlite3`, one directory of JSON files per warning | `persist_admission`, `find_duplicate`, `record_queue_state`, `claim_next_warning`, `mark_*`, `record_processing_result`, `queue_metrics` | no locks, file and row written apart, reads used after others have written |
| Ingress and queue admission | none of its own | `receive_signoz_warning`, `enqueue_admitted_warning` | handlers of a thread pool interleave; a failure after the row is stored |
| Worker | none of its own | `run_signoz_worker_once` | crashes, retries, recovery waits, other workers |
| Runtime spine | JSONL artifacts, `metadata.sqlite3`, rollout evidence | `execute_runtime_inputs`, `persist_runtime_execution` | many writes without a transaction, run again by a retry |
| Delivery | dispatch records, payload files | `persist_report_delivery` | a notification is sent before it is recorded |
| Resident local primary | a cache in each process | `prewarm_local_primary_resident_service`, abnormal paths | a cached failure outlives its cause |
| Evidence collectors | an MCP session per collector | one bundle of SigNoz and Prometheus calls per alert | every call may fail, and what failed looks like what is empty |
| Local analyzer | the trained artifact | features, two scorers, thresholds | lost evidence, weights and thresholds at their boundaries |
| Investigation runtime | none | routing, local and cloud fallback | every failure must still end in an action |
| Local follow-up, its tools and budget | the session of calls | tool calls, results, handoffs | a shared budget, partial reads, what a result keeps of the one before |
| Feedback and retrieval | outcomes, their rows, the retrieval index | `admit_outcome`, refresh, labelled search | appends, rows and documents written apart, in a thread pool |
| Model review | corpus, candidate, summary, decision | assemble, compare, review, run by hand | files read one after another while the service writes, scripts stopped half-way |
| Packets, reports, benchmarks | none | formatting, offline measurement | nothing that lasts |

`PROJECT.json` lists the components one by one with what is modelled of each, and the hazards found in the code with
the properties that watch them.

## Modules

| Module | What it is |
|---|---|
| `WarningQueue` | the store, the ingress handlers and the workers, one action per statement that reads or writes shared state |
| `WarningLedger` | what the queue promises its operator: queue states and their actions, no files, rows or leases |
| `WarningQueueProofs` | invariants of `WarningQueue` for all parameters; it implements `WarningLedger` |
| `AdmissionIds`, `AdmissionIdsProofs` | how `persist_admission` allots ids, and what two requests with one id do to each other |
| `EvidenceCollection` | the evidence of an alert, call by call, over a SigNoz session that can be lost |
| `WarningAnalysis`, `WarningAnalysisProofs` | EXTENDS it: features, the fast and the trained scorer, triggers, and the router |
| `InvestigationRuntime`, `InvestigationRuntimeProofs` | the resident service with its cache, the local primary and the cloud fallback: who is asked, when |
| `LocalInvestigation`, `LocalInvestigationProofs` | what one investigation reads under its budget, and what each provider makes of it |
| `RuntimeSpine`, `RuntimeSpineProofs` | what one execution leaves behind: artifacts, delivery, evidence, rows, documents, and the worker's result |
| `OutcomeLog` | what the feedback loop promises of landed outcomes: a log that grows, and honest answers |
| `OutcomeFeedback`, `OutcomeFeedbackProofs` | admissions of outcomes, store by store, and the labelled search; implements `OutcomeLog` |
| `ModelReview`, `ModelReviewProofs` | the three governance scripts beside a service that goes on, over the log of `OutcomeLog` |
| `MC...` | the instances for TLC |

The modules meet where the code does: `AdmissionIds` refines the single step `PersistAdmission` of `WarningQueue`;
the outcomes of `SettleOk` and `SettleFailure` there are the ends `completed` and `Cut` of a worker's job in
`RuntimeSpine`, whose `Analyse` takes as `stage` and `class` what `InvestigationRuntime` ends with; a call of the latter
that waits is `SettleRecovery`, one that raised is `SettleFailure`. `WarningAnalysis` composes the collection with the
scorers and the router, and its decision is the input of `LocalInvestigation`; the providers that one takes as given are
what `InvestigationRuntime` resolves. `ModelReview` and `OutcomeFeedback` share `OutcomeLog`: the latter implements it,
the former adds the scripts to it. Between the others only outcomes pass, each kept as an input of the next.

### WarningQueue

A row is the record `queue[w]` (state, `duplicate_of_warning_id`, `attempt_count`, `leased_by`); `entry[w]` is
the content of its `queue_entry.json`, `results` the warnings with a `processing_result.json`, `recorded` those whose
row has the result columns. `cooling` holds the warnings whose `next_attempt_after` is in the future, so that time is a
single action, `BackoffElapses`. What a handler or a worker carries between two statements is explicit: `seen[w]` is
the row `find_duplicate` returned, `cols[k]` the columns the next `record_queue_state` of worker `k` will write.

| Action | Code |
|---|---|
| `PersistAdmission`, `FindDuplicate`, `EnqueueEntry`, `EnqueueRow` | `persist_admission`, then `enqueue_admitted_warning` with the two halves of `record_queue_state` |
| `IngressFails` | any exception or the end of the process in between |
| `ClaimSelect`, `ClaimUpdate` | `claim_next_warning` up to its UPDATE; `RecordEntry`, `RecordRow` follow |
| `SettleOk`, `SettleRecovery`, `SettleFailure` | the processor returns, raises `LocalPrimaryRecoveryRequired`, or raises; the row is read back and the new columns are decided |
| `WriteResult`, `RecordEntry`, `RecordRow`, `RecordResult` | `record_processing_result` |
| `WorkerCrash` | the process ends, or a store call raises, between any two of these |

`_write_json` is one action here, since each warning has its own files: what a write cut in two leaves behind is the
question of `AdmissionIds`. Error codes, policy state and timestamps of a row are left
out; no property depends on them. `attempt_count` stops at `AttemptCap`, above `MaxAttempts`: the code only compares
it with `max_attempts`, so larger values behave alike.

### AdmissionIds

`dirs` are the ids with a directory; `stored[f][i]` is whose text the file `f` of id `i` holds, or that it is empty or
torn, and `opened` the requests that have their file open; `row` says which request wrote a row, `queue` its
`queue_state`. An id is a base (service, operation, rule, second) with a suffix.

| Action | Code |
|---|---|
| `Receive`, `CheckId` | `build_warning_id`, then one round of `_ensure_unique_warning_id` |
| `OpenFile`, `WriteFile` | `_write_json` of the raw payload, the normalized alert and the receipt, in that order: opening empties the file, writing fills it |
| `InsertRow` | the last statement of `persist_admission`, `INSERT OR REPLACE` |
| `Enqueue`, `Fail` | `enqueue_admitted_warning` and the answer 202; an exception, which may leave a file with a part of its text, and the answer 503 |
| `Claim`, `Finish` | the worker, as far as it changes a row |

Two requests of one id may have the same file open: the second to open it empties it again, and the later text is
written over the earlier, so that the file is whole or has parts of both. `wrote` and `overlapped` are history: the
requests that have opened a file, and the pairs handled at once. Two requests have `Collided` if they are such a pair,
have both written, and under one id.

### RuntimeSpine

A job is a warning of the worker, run one at a time and again after a failure, or a direct run (webhook, command line).
Every id of an execution derives from its `packet_id`, which is the model's `id`: executions of one service, operation
and second share all of them. `lines`, `dispatches`, `payload`, `rollout`, `rows` and `docs` are the files and tables.

| Action | Code |
|---|---|
| `Begin`, `Analyse` | evidence, packet, scoring, investigation and report of `execute_runtime_inputs` |
| `AppendArtifact`, `WriteRollout`, `RecordRow`, `UpsertDoc` | `persist_runtime_execution`, write by write |
| `WritePayload`, `ResolveGate`, `Post`, `AppendDispatch` | `persist_report_delivery`: local durable or gated route, the request with its answers and timeouts, the dispatch line |
| `Complete` | `build_completed_processing_result` |
| `Cut` | an exception, or the end of the process, at any point |

The bridge behind `Post` is external: it shows a page once per `reportId`, as the bridge document says. Contents of
reports and the texts of a page are left out; `class` and the review flag are what delivery and result depend on.
The class `observe` is delivered as `open_ticket` is.

### InvestigationRuntime

`local` and `cloud` are the two boundaries as configured now: the gate, and whether a client can be built (`builds`
false is, for instance, a transport of the other provider, which the loader accepts). `cache` is
`_LOCAL_PRIMARY_RESIDENT_CACHE`; `seen`, `res`, `held`, `client` are what a call has loaded, resolved and holds.

| Action | Code |
|---|---|
| `LoadBoundary`, `HitCache`, `TakeCache`, `MissCache`, `StoreCache` | `prewarm_local_primary_resident_service` with its separate reads and writes of the cache |
| `Begin`, `Route`, `Ask`, `PlanCloud` | `run_investigation_runtime`: abnormal paths, the local primary, the decision for the cloud |
| `CloudInit`, `AskCloud` | client and handoff, the call of the cloud and its fallback |
| `EditLocal`, `EditCloud` | an operator edits `provider-boundary.yaml`, between any two steps |

`fail_closed_recommended_action` is taken as shipped, `send_to_human_review`; files that do not load are left out. A
restart of the process empties the cache and is a new behaviour.

### EvidenceCollection and WarningAnalysis

A `world` is what SigNoz and Prometheus would answer; `got` is what the calls of this bundle returned, `failed` which of
them raised. `session` is `_session_id` with what the server thinks of it: none, half (kept before the notification that
completes it raised), open, or lost to a restart of the server.

| Action | Code |
|---|---|
| `Begin`, `CollectTraces`, `CollectOperations`, `CollectLogs`, `CollectDetails`, `CollectTraceLogs`, `Corroborate`, `Build` | `build_signoz_first_evidence_bundle`, call by call, and the shorter `build_live_evidence_bundle` |
| `RestartServer` | SigNoz forgets the session, at any point |
| `Start`, `Score`, `ScoreRaises`, `Route` | `resolve_runtime_evidence_bundle`, the scorer of `execute_runtime_inputs`, an artifact that does not load, `plan_investigation` |

The rest are operators translated one by one: `NoveltyScore`, `TopOperation`, `TraceErrorRatio`, `Delta` and the
hints of a bundle, `Features`, `FastSeverity`, `Confidence`, `Triggers`, `RawScore`, `Probability`,
`LocalPrimaryRouteReasons`. Scores are in hundredths and weighted sums in ten-thousandths, rounded where the code
rounds. The trained scorer's sigmoid is a step function `Sigmoid`, so a probability is that of the step below its score;
properties only compare two of them, and the steps keep the order.

### LocalInvestigation

`packet`, `decision`, `budget` and `providers` are given when an investigation starts. `rest` are the tool calls the
smoke provider has still to make, `spent` is `_calls_used`, `found` what the calls gave it, `local` and `final` the
results; `asked`, `refused` and `read` are history.

| Action | Code |
|---|---|
| `Start` | `build_investigation_request` and `clone_for_investigation`: a session of its own |
| `Refuse`, `CallFails`, `CallAnswers` | `_consume_call` refuses; a backend raises (tolerated for most calls of a SigNoz follow-up, otherwise the degraded result); it answers |
| `Conclude`, `AskAdapter`, `NotReady` | the result of the follow-up, of the real adapter's response, of an abnormal path |
| `PlanCloud`, `Handoff`, `AskCloud` | `plan_cloud_fallback`, the request with its size limit, the client's answer or the unavailable cloud |

`long` stands for a text beyond the handoff's budget. The summary of a model's answer may be so long, and so may the
failure reason of a degraded result: it is `str(exc)`, which can quote a backend's whole payload, and it is the first of
the unknowns handed over. The reason of a refused call is a short text of the code's own. Of the texts of a result
nothing else is kept.

### OutcomeFeedback

`log` is `outcomes.jsonl` up to its first damaged line, `torn` whether one follows; `rows` is the outcomes table, `docs`
the line each outcome's document was rendered from, `others` the runtime's documents in the same index.

| Action | Code |
|---|---|
| `Receive` | validation of the request and of the record against its schema |
| `AppendLine`, `RecordRow`, `ReadLines`, `UpsertDoc`, `Answer` | `persist_outcome_record`, `refresh_outcome_retrieval_docs` line by line, the answer; the first three may raise |
| `IndexRuntimeDocs`, `Crash` | an execution's documents; the end of the process |

`LabeledOutcomes` is `search_labeled_outcomes`; how the full-text index ranks its documents is an input.

### ModelReview

`lines` are the lines of the file a script read (a prefix of `log`, as the file only grows), and a corpus, a candidate
and a summary are the number of lines they were made from, which tells any two of them apart.

| Action | Code |
|---|---|
| `StorePacket`, `StoreDecision`, `LandOutcome` | the service, at any point |
| `BeginAssembly`, `ReadPackets`, `ReadDecisions`, `ReadOutcomes`, `WriteCorpus` | `assemble_feedback_compare_corpus` |
| `LoadCorpus`, `TrainCandidate`, `WriteSummary` | `run_feedback_retrain_compare`; the metrics of the comparison are chosen by `Gains` |
| `WriteDecision`, `WriteReport` | `run_feedback_promotion_review` |

`Stop` ends a script between any two of these. `auto` is `promotion.auto_promote`, either way.

## Runs

TLC's properties go first to what only TLC can check, liveness above all, and to what a mutant of the code can break.
Type invariants, and a few invariants close to another one, are left to their proofs, which say more.
Except for `local_investigation`, which starts over for ever, runs have `CHECK_DEADLOCK FALSE`: once every warning,
request or call has ended there is nothing left to do.

| Run | Instance | Question |
|---|---|---|
| `queue_one_worker` | 3 warnings, two with one key; 1 worker, 2 handlers, 2 crashes, 2 attempts, all outcomes | Do rows, files and retry counts stay consistent through every interleaving and crash, and is the queue a `WarningLedger`? |
| `queue_liveness` | the same without crashes, `ok` and `fail` | Does every admitted warning settle; is a key active twice only if requests overlapped? |
| `queue_crash` | 2 warnings, 1 crash, fairness | violated: a claimed warning is not resumed after a crash |
| `ids` | 3 requests of one base, 3 handlers | Can every row be loaded, do requests keep what they wrote, and who can reset a row? |
| `spine_direct` | a warning with 2 tries, a direct run, 2 shared ids, 1 cut | Do files, tables, dispatches and requests stay in order, and is the worker's result its own? |
| `spine_pages` | 1 warning, 2 tries, 2 ids, 1 cut | violated: its owner is paged twice |
| `investigation` | a worker's call, a probe, 1 edit, fairness | Does every failure end in review, does disabling the adapter end a wait, and is the cache right for calls one at a time? |
| `investigation_repair` | a worker's call, 1 edit, fairness | violated: repairing the transport does not end a wait |
| `analysis` | 4 worlds, any SigNoz call and 8 sets of Prometheus queries lost, 3 alerts, 4 kinds of precedents, both scorers | What does lost evidence do to logs, completeness, severity and the choice to investigate? |
| `local_investigation` | 5 packets, 2 decisions, 3 budgets, every pair of providers, 4 model responses | Does what was read reach the final result, is a change told, and is a failed follow-up handed on? |
| `outcomes` | an outcome, its correction, another, an invalid one; 2 faults, 4 rankings | Do file, table, index and answers agree as far as they can? |
| `review` | 2 labelled outcomes and an unlabelled one, of 2 cases; 5 runs of scripts, a minimum of 2 | Is a promotion earned, and of the candidate on disk? |

Bounds: the interesting cases of the queue need two warnings of one key (suppression, its race), a third behind them
(order, starvation), one retry and one final failure (`MaxAttempts = 2`), a crash before and one after a retry. Ids need
three requests of one base: two that collide, and one that fails beside them, waits for a suffix or finds a second one
taken; requests of another base share nothing with them. The spine needs two executions
that can share an id and one that cannot. An investigation needs one edit, at any point, for the cache to be wrong; the
overlap of two investigating calls, which makes liveness too large for TLC, is covered by the proofs of its safety
properties. The analysis needs worlds with and without traces, own logs and logs found by trace only, a repeated and an
unnamed trace, a value without its baseline, and alerts on both sides of the paging rules. A follow-up needs a budget
that runs out in the middle, one that just suffices (seven calls) and the configured one. Outcomes need a correction
of the same id, which a stale refresh can undo, and a fault before and after an append; the search needs an
outcome before, at and beyond the place `4 * Limit`, which its four rankings have. A review needs five script runs:
assemble, compare, assemble again, a compare that stops between the candidate and its summary, and a review, which then
decides on a candidate the summary does not evaluate. For each property of a passing run `PROJECT.json` lists a mutant of the code that breaks it there.

Fairness. The queue (`FairSpec`): a handler that has begun goes on (the thread pool runs it to its end), the worker is
called again and again and its steps return, and time passes. Nothing says that a warning arrives, that the processor
succeeds, or that a crash happens. `queue_liveness` leaves out crashes because `queue_crash` shows what they do, and
endless recovery waits because the code does not bound them. Investigations: a call that has begun goes on (every client
has a timeout), and the worker tries a waiting warning again after its backoff. Nothing is assumed of edits or providers.
The other modules state safety only and assume no fairness.

## Proofs

For any number of warnings, requests, calls and crashes, and any bounds:

| Module | Theorem | Assumes |
|---|---|---|
| `WarningQueueProofs` | `TypeCorrect`, `SuppressionSafe`, `ResultsPrecedeCompletion`, `StrandedOnlyByCrash` | nothing: any number of workers |
| | `EntriesAreTrue`, `ResultsAreFinal`, `FinalStatesAreFinal`, `BackoffIsKept`, `FailuresStayBounded`, `SerialIngressIsDeduped`, `QueueImplementsLedger` | one worker |
| `AdmissionIdsProofs` | `IdsTypeCorrect`, `RowsAreLoadable`, `AcceptedRequestsAreStored`, `OnlyCollisionsReset` | nothing |
| `InvestigationRuntimeProofs` | `InvestigationTypeCorrect`, `InvestigationsFailClosed`, `ReadyServicesAreBacked`, `ResolutionsAreOwn` | nothing |
| `RuntimeSpineProofs` | `SpineTypes`, `SpineDeliveredIsStored`, `SpineStatusTellsRequest`, `SpineIndexedIsStored`, `SpineCompletedIsWhole`, `SpineResultIsOwn` | nothing |
| `LocalInvestigationProofs` | `LocalTypes`, `LocalBudgetIsOwn`, `LocalSevenCallsSuffice`, `LocalEvidenceIsKept`, `LocalChangedIsTold`, `LocalRaisesOnlyAtHandoff`, `LocalOverBudgetIsEscalated` | a first pass is at most 0.67 confident, the sum of the scorers' weights |
| `OutcomeFeedbackProofs` | `FeedbackTypes`, `FeedbackIndexesFollowFile`, `FeedbackAdmittedIsWhole`, `FeedbackCurrentOneAtATime`, `FeedbackHitsAreLabelled`, `FeedbackImplementsLog` | nothing; rankings are sequences of documents |
| `WarningAnalysisProofs` | `AnalysisTypes`, `AnalysisNoLossWithoutFault`, `AnalysisLogsAreOfOneOrigin`, `AnalysisCompleteIsWitnessed`, `AnalysisLossRaisesNoAlarm`, `AnalysisUnprecedentedIsTriggered`, `AnalysisConflictIsInvestigated`, all from `AnalysisInvariant` | ratios and scores from 0 to 1, durations and Prometheus values not negative, a monotone sigmoid |
| `ModelReviewProofs` | `ReviewTypes`, `ReviewPromotionIsEarned`, `ReviewCorpusIsWhole`, `ReviewDecisionIsOfCandidate` | nothing |

The arguments, by the inductive invariant each rests on:

* `QueueInv`: a row has no state until its handler returns; what a handler has seen can stand in for its warning, and
  since `deduped` is written by handlers only and rows never become stateless again, it still can when the suppression
  is stored, however long that takes. Workers only touch rows of the processing path, so they never undo it.
* `ResultInv`: a worker that is about to write `completed` has written the result file.
* `Abandoned`: the proof of `StrandedOnlyByCrash` counts the rows in processing that no worker will write again; only
  `WorkerCrash` adds one, and at most one.
* `SoloInv` (with `HoldInv`): with one worker, what it carries agrees with the row it works on. This is what two
  workers break, and why the remaining theorems assume `SingleWorker`.
* `RetryInv`: failures stay below the attempt count wherever another run may follow.
* `SerialInv`: while the only handler decides, its key has no active row, and it stays so because no step of the
  worker makes an inactive row active. The theorem has the form `[]P => []Q`: both a state and its successor may be
  taken to have one request in hand.
* `OwnerInv` of `AdmissionIds`: the suffixes below the one a request tries are owned by different other requests, so
  that there are fewer of them than requests (a pigeonhole argument); suffixes therefore stay in range. Who has opened a
  file has its id's directory, and a row is of a request that wrote there and is past the insertion.
* `WrittenInv`: a handler past a file has written it under its id, and nothing removes a file, though it may be emptied.
* `PairInv`: two requests at work on one id are a pair that was handled at once, since a request that comes when the
  other has written finds the directory.
* `OwnFilesInv`: under an id that a request shares with nobody (`Alone`), the file it has open is empty, those it has
  written hold its text, and so do all three once its row is there. Who is not alone has collided (`AloneOrCollided`),
  which is the only exception the three theorems make.
* `ActionInv`: a call carries an action other than review only while the last provider it asked had answered.
* `ProviderInv`: a ready resolution behind a ready gate, in the cache or with a call, has a provider.
* `OwnInv`: the cache's resolution was made for its signature, and a call between its two reads of the cache still
  finds the signature it compared. The latter is what overlapping calls break.

* `TraceInv` of `RuntimeSpine`: a running execution has left no request or dispatch before its time (an execution is a
  job, a try and an id, so none is anybody else's), its artifacts are stored as far as it walked, and the status it is
  about to record is what it did.
* `IndexInv`: behind each row and document of an id is a line of that id and a dispatch, although executions that share
  the id write both.
* `FiledInv`: at each point of an execution all files before that point are there; a shared id may overwrite a payload,
  never remove it.
* `ResultInv` of `RuntimeSpine`: the worker runs one job at a time, so the latest dispatch of its id is its own unless a direct run
  came between.
* `BudgetInv`: the session counts exactly what was asked, since each investigation clones its own.
* `AnswerInv`: what a local result says of its action is true, and a degraded one meets the gate of the cloud: its
  confidence is the first pass's, at most 0.67, and the gate is at 0.70. `RefusedInv`: a refused call ends the follow-up
  with a short reason, so that only a backend's or the model's failure can be too long to hand over.
* `CallsInv`: calls made and left are at most seven, by the kind of packet and the two traces followed.
* `EvidenceInv`: what was read is among what was found, until the result takes it over.
* `FeedbackInv`: a handler past the append has its line in the file (no line leaves it), the lines it read are lines of
  the file, and those up to its place are indexed. With one admission at a time (`SerialInv`), those it has upserted are
  at their newest line, as nothing is appended behind its back.
* `HitsAreLabelled` is about an operator, the search, and follows from `FeedbackInv` (a document's label is that of a line
  of the file) and from counts: a match's rank is the number of matches up to it, whatever else the ranking holds, and the best
  4 * Limit matches are just those of a rank up to 4 * Limit. What is not among the hits was skipped for a hit of the
  same packet, or the hits were full.
* `CollectedInv`: before its call each part of a bundle is empty, behind it it is the world's answer, cut to its limit,
  or empty with the call in `failed`; the traces already asked for logs had none (`TraceLogsInv`), and what was read of
  Prometheus is all of the world's values but the failed ones (`MetricsInv`). Both orders of calls, the one of a
  `signoz_first` and the one of a live bundle, are followed by one lemma, `Onward`.
* `DecidedInv`: a decision is `ScorePacket` of the bundle that is still there, since collecting starts over only with
  `Start`, which drops it. What a decision says then follows from the operators alone: `LessEvidence` shows that fewer
  traces, operations and values never raise a feature (`LessSpikes`), that the fast score is monotone in the features
  (`FastGrows`), and that the raw score of the trained scorer is at most that of the whole evidence with its two mistakes
  in place (`RawGrows`, by `LessErrorRate`, `LessLatency`, `NoShift` and `MistakenFacts`, value by value);
  `UnprecedentedConfidence` adds up the weights of confidence at their upper ends (0.54), and `ConflictRouted` finds
  the conflict among the reasons of both routes.
* `ReviewInv`: the lines behind a corpus, a summary and a decision have their packets and decisions (`Joined`), which
  are never removed, and the candidate's lines differ from the summary's only after a stop in between.

The constants' assumptions are the `ASSUME`s of each module. `QueueImplementsLedger` maps `ledger` to the states of
the rows and `running` to the warnings of workers past their claim; each action is one step of the ledger or a stutter.
`FeedbackImplementsLog` needs no mapping: `log` and `answer` are the variables of both; what it shows is that no
overlap, fault or damaged line lands an outcome twice, lands an invalid one, or calls one admitted that did not land.

Counting and sums. A mean of ratios needs a sum over a sequence of any length, and a search the k-th match among many.
Induction over data being out of the prover's reach, these lemmas (`RatioSumsDef`, `MeanRatioFacts`, `NthPlace`,
`RankFacts`, `BestFacts`) argue with the least counterexample, which exists because the order of the natural numbers is
well-founded (`LeastNatural`). Sums are recursive functions and matches are sets of places for that reason.

Only model-checked: liveness (`AdmittedSettles`, `WorkIsResumed`, `DisablingEndsWaits`), which the prover cannot do
under fairness. Every other property of a passing run is stated by a theorem. `AnalysisInv` was checked by TLC on the
instance of `analysis` before it was proved.

## What the checks found

Where a document of the repository says otherwise, `PROJECT.json` quotes it:

* A warning whose worker dies stays in `processing` (`queue_crash`); the plan promises it is taken up again.
* A failure after the page was posted pages its owner twice (`spine_pages`).
* A degraded resolution stays cached after its cause is repaired (`investigation_repair`).

What the models show besides, without a run of its own:

* Overlapping requests for one alert both find no duplicate, both become pending and both are analysed:
  `find_duplicate` and `record_queue_state` are apart, without a lock or a unique index.
* Recovery waits use up the attempts: after `max_attempts - 1` of them the first failure is a dead letter.
* Two workers can execute one warning: the UPDATE of a claim does not test the row. Nothing starts a second worker;
  what survives if one is started is proved (`ResultsPrecedeCompletion`, `StrandedOnlyByCrash`).
* Overlapping requests of one base can get one id; the later replaces files and row of the earlier, and both are
  answered 202. While it writes, or if it fails, a file of the earlier one's row is empty or has a part of a text, which
  the worker cannot load. The properties of `ids` bound this to requests that collided: any other request, failed ones
  included, leaves rows loadable and of one request.
* An investigation that failed closed completes with `human_review_required` false: the flag is taken from the
  first-pass decision (`signoz_worker.py:51`).
* Overlapping calls can take each other's cache entry between the two reads of `TakeCache`; they still fail closed.
* What raises at the handoff or in the cloud client raises out of the investigation where the rest falls back to
  review (`RaisesOnlyAtHandoff`); the worker counts it as a failure. A degraded follow-up is handed on with its failure
  reason, so an exception that quotes a large payload makes the handoff too long and raises there
  (`cloud_fallback_brief.py:139`), although the follow-up itself was caught.
* After both providers failed, `recommended_action_changed` compares with the result handed over and says False of a
  page turned into a review (`cloud_fallback.py:206`). `ChangedIsTold` is about answers of the cloud and about completed
  follow-ups of the service's own; a local model's flag is whatever the model's answer says.
* A model's `recommended_action` is taken over whatever it is (`local_primary_openai_compat.py:389`); an action
  without a route raises in the delivery.
* A session half made, or lost to a restart of SigNoz, is never made again by its collector. Each bundle makes its own
  collector, so the loss ends with the bundle (`NoLossWithoutFault`).
* Lost evidence can raise a severity in three ways, which are the exceptions of `LossRaisesNoAlarm`, each stated
  exactly: lost logs count as half a novelty; the trained scorer takes an error rate's or latency's baseline that was not
  read for zero; and as its weight of the traffic shift is negative, losing `qps` or its baseline raises its score.
* A hybrid decision whose only trigger is low confidence passes none of the router's gates (`router.py:246`).
* `landed_outcome_case_count` counts lines: one outcome admitted twice can meet a promotion minimum of two
  (`corpus.py:143`).
* Documents of the runtime share the index with the outcomes: of 4 * Limit of them before it, a labelled case is not
  found (`search.py:74`; `HitsAreLabelled` says that no fewer hide it).
* An overlapping refresh can put an older line back into the index (`CurrentOneAtATime` is about admissions one at a
  time), and after an append that was cut no outcome is admitted until the file is repaired.
* The aggregate guards of `evaluate_cloud_fallback_guards` and the concurrency limits of the boundary are evaluated by
  benchmarks only; nothing enforces them when the agent runs.

## Not modelled

`queue_metrics` (a read of counts and ages), the loading of configuration, schemas and boundary files beyond whether it
succeeds, the decoding of collector answers, prompts, the offline training of the candidate and its metrics, packet and
report formatting, the Markdown of reviews, benchmarks, smokes and the command line. They keep no shared state; their failures
reach the models as exceptions.

Worth doing next: the counts of `queue_metrics` against reference definitions, and a composition of `WarningLedger`
with `RuntimeSpine` and `InvestigationRuntime`, for properties that span them.

# CarbonSense in TLA+

This directory is the verification project of CarbonSense, a multi-tenant
service that finds energy anomalies in buildings. It ingests meter readings,
grades and stores them, analyses them in Temporal workflows (rules,
decomposition, an ensemble of two models, confidence calibration, attribution,
optimization scenarios), asks people to review the findings, and retrains,
promotes and rolls back a building's models.

It holds TLA+ modules that model the parts whose behaviour is decided by order,
failure and concurrency, TLC configurations that check them on small instances,
and TLAPS proofs of the properties that matter most for every instance. Run
`tlc -config X.cfg M` for a run `X` of module `M` (the table under *The runs*)
and `tlapm M.tla` for a module of proofs.

Paths below are relative to the repository's root.

## 1. Inventory

For each part: its state, its operations, what it talks to, what is hard about
it, and what makes it correct.

### Model lifecycle
`pipelines/training/train_and_evaluate.py`, `models/evaluation/`,
`models/registry/`, `orchestration/temporal/{workflows,activities}` (retraining,
rollback). *State*: registered versions and the `champion` alias of each
ensemble member in MLflow; the rows of `audit_log`. *Operations*: train and
register a member, evaluate it against the champion, commit the decision, move
the alias; measure the false-positive rate, choose an older version, move the
alias back, write the audit row. *Interactions*: a monthly schedule, the
feedback trigger and the drift trigger all start retraining under different
workflow ids; the rollback check reads feedback labels. *Hard*: two stores
without a common transaction, at-least-once activities, overlapping attempts,
crashes between a commit and a registry call. *Correct when*: nothing newer
than what the gate approved ever serves, each version is decided once, each
move of the alias is on the audit trail, a review requirement ends.

### Feedback
`services/feedback/{service,repository}.py`, `apps/api/routers/feedback.py`.
*State*: `feedback_labels`, `findings.status`, the Kafka producer's buffer.
*Operations*: check the finding, insert the label, update the status, count the
building's labels, publish `model.retraining.eligible` at the threshold, commit.
*Hard*: READ COMMITTED transactions interleave statement by statement; the event
is published before the commit; delivery may fail. *Correct when*: status and
labels agree, an event is justified by labels, crossing the threshold publishes.

### Event bridge and triggers
`orchestration/events/kafka/`, `apps/worker/{event_consumer,
retraining_event_consumer}.py`. *State*: a producer's buffer, a topic, a
consumer's position, stored and committed offsets, the workflow runs.
*Operations*: publish, deliver, poll, handle, start a workflow, auto-commit,
crash, restart. *Hard*: nothing flushes the producer; a delivery without an
answer is sent again; the stored offset runs ahead of the handler; a workflow id
is refused only while its run is open; two consumers share a process and its
event loop. *Correct when*: a failure costs at most the message in hand, the runs
of a workflow are paid for by deliveries and failures, and every message is
handled or accounted for.

### Analysis pipeline
`orchestration/temporal/workflows/analysis_pipeline.py` and the activities of
`orchestration/temporal/activities/{analysis_stubs,optimization}.py`. *State*:
the run's step, the results it threads, `findings`. *Operations*: eight
activities, the review signal. *Hard*: activities run at least once with
non-idempotent inserts, attempts outlive their timeout, runs of one building
calibrate each other's findings, the signal may come early. *Correct when*: a
run keeps the contract with its starter and reviewer.

### API requests
`apps/api/routers/{ingestion,scenarios}.py`, `apps/api/{idempotency,jobs,
webhooks}.py`. *State*: `idempotency_keys`, `analysis_jobs`, batches, circuits,
background tasks. *Hard*: a get-then-store idempotency check, a session committed
before or after the response, background tasks that die with the process.
*Correct when*: replays of a key agree, an answer names what is stored, an upload
is announced exactly when it is stored, a polled job ends.

### Ingestion quality
`services/ingestion/`. *State*: circuits and `normalized_readings`. *Operations*:
resample a batch by the hour, grade each hour with five detectors, upsert,
announce. *Hard*: windows and index arithmetic over two clocks, boundaries of
hours, re-sent batches, batches that split an hour. *Correct when*: each reading
has the status its rows warrant, no energy is lost, announcements match the
store.

### Detection, scoring and explanation
`services/rules_engine/` (YAML rules over readings and a declared schedule),
`services/stl_detection/` (cohorts by day type, residuals),
`services/ml_ensemble/` and `models/feature_store/` (feature rows, upserted),
`models/serving/` (a local registry of training runs, ensemble flags),
`services/calibration/` (conformal bands from labels), `services/explainability/`
(attributions, bundles), `services/optimization/` (scenarios within bounds and
tariffs). *State*: `normalized_readings`, `building_calendar`, `feature_store`,
the tracking store's runs, `findings` with their bands, `feedback_labels`,
`buildings.cold_start`. *Operations*: the six activities that compute, the
training of two members, labels, corrections of readings. *Hard*: each activity
reads the database on its own while the others write; results meet by circuit and
timestamp, with defaults for what is missing; a training run is found by its tags
before its artifacts are there, and scoring and attribution each look for it;
calibration selects findings without a band and updates them later without looking
again; serving does not consult the champion alias.
*Correct when*: what is stored passes the validators of its class, a finding says
what its readings and its model say, a narrow band is earned, a band changes only
where calibrations overlap, a run ends.

### Reporting
`services/reporting/`, `apps/api/routers/reports.py`. *State*: none but the
incidents of rejected scenarios. *Operations*: read the open findings, generate
scenarios (which reads findings and readings again), build the message, ask the
language model twice, fall back on a template. *Hard*: the two reads are of
different states; the message needs a band of every finding. *Correct when*: an
action rests on findings nobody has dismissed, and a report is answered.

### Tenants and platform
`services/tenant_admin/`, `services/feedback/opt_in_pipeline.py`,
`scripts/maintenance/tenant_data_deletion.py`, `database/` (schema, row-level
policies, deletion functions, retention). *State*: tenants,
buildings, circuits and all rows that belong to them, `audit_log`. *Operations*:
provisioning, uploads, analyses, feedback, the deletion of a building or a tenant
statement by statement, aggregation over tenants. *Hard*: the deletions are long
transactions at READ COMMITTED beside everything else that writes; not every table
has a key to what is deleted. *Correct when*: a deletion happens as logged or not
at all and leaves nothing behind. `apps/api/rate_limit.py` (fixed windows per process) and
`shared/auth/`, `shared/database.py` (tokens, tenant setting of a session) are the
rest of the platform.

### Drift detection, schedules, offline pipelines, infrastructure
`services/drift_detection/`, `orchestration/temporal/schedules/`,
`pipelines/`, `scripts/`, `infrastructure/`, `.github/`.

`PROJECT.json` lists each of these components with its files, what is modelled
of it and, if it is not, the reason; and every hazard at its line.

## 2. The modules

| Module | Models | Composed with |
|---|---|---|
| `PromotionContract` | what the gate and the monitor promise about the champion alias | implemented by `ModelLifecycle` |
| `ModelLifecycle` | retraining attempts, gate, alias, audit, rollback monitor | |
| `FeedbackLoop` | POST /feedback down to the topic | |
| `EventBridge` | a producer, a topic, its consumer and the workflow runs it starts | |
| `RetrainingTriggers` | both event-driven retraining triggers end to end | extends `FeedbackLoop`, two instances of `EventBridge` |
| `PipelineContract` | what a run promises its starter and its reviewer | implemented by `AnalysisPipeline` |
| `AnalysisPipeline` | the workflow, its activities and their effects | |
| `BuildingData` | what the detection layers read of a building | extended by the next eight |
| `RuleEngine`, `StlDetection`, `FeatureAssembly`, `EnsembleModels`, `ConfidenceCalibration`, `Explainability`, `Optimization`, `Reporting` | what each layer computes, as operators | |
| `BuildingAnalysis` | runs of the layers over shared tables, with training, labels, corrections and reports between them | extends all of them |
| `ApiRequests` | CSV upload and portfolio analysis, answers, jobs, webhooks | |
| `IngestionQuality` | the gate and the write path of a batch | |
| `TenantData` | a tenant's rows, who writes them and how they are deleted | |
| `..._proofs` | the theorems of each module with runs (`FeedbackLoop`'s are in `RetrainingTriggers_proofs`) | extends the module |
| `MC...` | the constants of each instance for TLC | extends the module |

A definition has the name it has in the code where there is one
(`count_promotions`, `normalize_batch`, `check_bounds`, ...); `PROJECT.json` maps
each to its lines. A definition whose comment begins with "Mutant" is a plausible
bug. It is used only in place of the definition that follows it, to see that a
property notices.

### ModelLifecycle
`registered` and `champion` are MLflow's state, `audit` the committed `model.*`
rows. An attempt's `pc` walks through the loop of `train_and_evaluate`:
`Train` (fit and register; a registry failure is swallowed and leaves no version),
`Evaluate` (the gate's checks, then the review requirement counted from committed
rows), `CommitDecision`, `Promote`. A check walks through `check_and_rollback`:
`MeasureFpRate`, `GetPreviousVersion`, `GetChampionVersion`, `RollBack`,
`CommitRollback`. `AttemptFails` and `CheckFails` are every exception and every
death of a worker; Temporal's retry is a new start. Attempts overlap because the
three triggers use different workflow ids. Feedback labels enter and leave the
monitor's window at any time. Training is abstracted to what the gate reads.

### FeedbackLoop
One action per SQL statement of a request (`CheckFinding`, `SaveFeedbackLabel`,
`UpdateFindingStatus`, which takes the row lock, `CountAndPublish`, `Commit`), and
`RequestFails` at each. `FeedbackCount` sees committed labels and the request's
own, as READ COMMITTED does. `buffer`, `topic` and `lost` are what the producer
holds, has delivered and has lost; `ApiCrash` loses the buffer and open
transactions.

### EventBridge and RetrainingTriggers
`Publish` puts a message in the producer's buffer, `Deliver` is the client's
background thread. `DeliverUnanswered` sends a message again, `DeliveryFails` gives
it up, and `ProducerEnds` takes the whole buffer along, because no process flushes
it. `Poll` returns a message and stores its offset, which the client library
commits in the background (`AutoCommit`) and on close, before the handler has run.
The handler ignores foreign messages, starts a workflow unless one with that id is
open, or raises, which ends the consumer; `HandlerCancelled` is a call that is
cancelled from outside.

`RetrainingTriggers` extends `FeedbackLoop`, reads its topic with one bridge and the
drift detector's with another. The two consumers share a process and the event loop
(`loop`) that their handlers run on. When one raises, `gather` raises, and
`asyncio.run` shuts the loop down. `Teardown` is the cancellation of the call that
the other one has in flight: its offset is stored, so it may be lost, and the raise
ends that consumer too. If none is in flight, the shutdown waits at most 300 s for
the default executor, in which the other consumer goes on. `LoopCloses` then leaves
it polling without a loop: its next call raises, and a call that was in flight is
abandoned, for which its thread waits for ever (`hung`). The process is killed as a
whole (`CrashProcess`) and does not exit, let alone restart, before both threads have
ended (`RestartProcess`).

### AnalysisPipeline
`step` is `_current_step`; `task` says how far the current attempt of each
activity is. An attempt first has its effect (`Attempt`) and then reports
(`Report`); `LoseAttempt` is a worker's death between or before these, `TimeOut`
starts another attempt beside one that still runs and may still write
(`LateAttempt`). `Advance` is the workflow's code between two awaits, with the two
detectors awaited together. The mathematics of detection is abstracted to the
findings a window yields; findings have fresh ids, so copies are counted.
`PipelineContract` sees a run as analysing, in review, completed or rejected.

### BuildingAnalysis and the layers it is made of
The variables are the tables and the registry; `analysis`, `training` and `report`
are the three processes, each with its step and what it has read or been handed.
`AnalysisPipeline` abstracts from data to follow lost and late attempts of every
activity; `BuildingAnalysis` keeps the data and follows one run at a time. An activity
is one step, but calibration is two, as in the code: `SelectUncalibrated` reads
findings, labels and the flag, `SaveCalibrated` updates by id. Beside the run,
`strays` are the attempts that write findings and belong to another run of the
building, or to this one but were given up at their timeout: `BeginStray` reads,
`StrayRuleEngine` and `StrayCalibration` commit whenever they like, after the run
included. Section 6 says what is left out with the other activities' strays.

- `RuleEngine`: the three shipped rules, which readings they apply to, and their
  conditions (`EvaluateCondition`), over hours and hundredths of a kWh.
- `StlDetection`: `Covered`, `Cohort` and `CheckColdStart` decide which rows are
  decomposed and which are low quality; `FitRaises` is the one input that raises.
- `FeatureAssembly`: rolling sums, ratios as pairs of integers, the merge of
  residuals and rule fires by row (`Assemble`), the validators (`IsFeatureSet`).
- `EnsembleModels`: a run exists from its start and is `ready` when its artifacts
  are logged; `FindLatestRun` does not look at that, `Loads` fails without them.
  Which of the rows a member may score it flags is left open.
- `ConfidenceCalibration`: `Bands` is the set of bands that the labels and the
  flag allow; a conformal prediction set is one of the three a classifier of two
  classes can give.
- `Explainability`: what a bundle holds, per layer, and its validator.
- `Optimization`: the three scenarios with their tariffs in integers, the findings
  that justify one, and the bounds (`EnforceBounds`) that pass or reject it.
- `Reporting`: `MessageBuilds`, and the fallback's actions with their notes.

`LabelFinding`, `ClearColdStart`, `ReadingArrives` and the training run at any time.
`midRun`, in `report`, remembers which run, if any, was between its rule engine and
its calibration when the report read the findings. `rivals` remembers which attempts
had picked a finding up when it got its first band. `scorer` and `run` of a finding
are history too (`run` is 0 for a stray's): no column has them.

### ApiRequests
A request looks up its key, resolves the circuit or creates the job, and ends with
a commit and a response. `commitFirst` chooses their order, because it differs
between the releases of FastAPI that `pyproject.toml` admits. The background task
follows the response; `TaskRaises` is an error after which `mark_failed` fails too.

### TenantData
`rows` holds the committed rows, one for all of a building in a table, but circuits,
their readings and their features one by one. `Parent` is the schema's foreign keys.
`tx` is the deletion in progress: `NextBuilding` checks, logs and begins a building,
`DeleteRows` runs one DELETE of `delete_building_data`, `BuildingDone` logs its end,
`CommitDeletion` deletes the tenant's row and commits, `AbortDeletion` is every
refusal, error and lost connection. A statement sees what is committed when it
starts; a row deleted and not committed makes its user wait (`Present`, `Insert`,
`Holds`). The DELETEs are those of the function, so findings, which have no key to
buildings, are a statement of their own. `raced` and `overlapped` are history
variables.

### IngestionQuality
A client puts together a batch (`AddRow`) and sends it in one of the column forms
that the code tells apart (`Send`), possibly twice (`Resend`).
`IngestRawRows` is the one transaction of `ingest_raw_rows`: `normalize_batch` (sums
per hour, gaps, outliers, ratio), the issues of stuck values, silence, bounds and
schema drift, their application, the batch's status, the upsert and the
announcement. Time is in half hours, and the z-score and the ratio are compared
without division or roots, so that all of it is exact over integers.
The order of rows inside a batch is left out because the code sorts them first.

## 3. The runs

Distinct states are those of the passing runs.

| Run | States | Question | Bounds |
|---|---|---|---|
| `Lifecycle` | 642 000 | Do overlapping retraining attempts, retries, crashes and rollbacks keep the champion behind the gate, and do they implement the contract? | 2 attempts, 1 check, 3 versions, 1 label, 1 member, no review |
| `Feedback` | 94 000 | Do status, labels and events agree however requests overlap and fail? | 3 requests, 3 findings (1 without bundle), threshold 2 |
| `FeedbackMissedCrossing` | violated | Does crossing the threshold publish? | 2 requests, threshold 2 |
| `Bridge` | 336 000 | What does a failure cost, how often may a message run its workflow, and is every message consumed? | 3 messages of 3 kinds (1 workflow id), 2 failures of producer or consumer |
| `Triggers` | 412 000 | Is a feedback retraining justified by labels end to end, and what does one consumer's failure cost the other? | 2 requests, 1 drift message, 1 failure per bridge, not counting cancelled calls |
| `Pipeline` | 56 000 | Does a run keep its contract under lost and late attempts, and are its findings calibrated, seen and not multiplied? | 1 run, 1 lost, 1 timed out, 1 rule finding, 1 anomaly |
| `Analysis` | 252 000 | Do findings, features, bands, models and reports agree, whatever is stored, trained, labelled and calibrated between the steps of a run? | 2 runs, 1 stray attempt, 2 trainings with 1 crash, 2 labels (1 earlier), 1 report, 4 events beside the runs in all, 2 circuits at 3 hours, 1 flagged row per member |
| `Api` | 255 000 | Do replays agree, and do answers, webhooks and jobs name what is stored? | 3 requests with one key, either kind, both commit orders |
| `ApiJobStuck` | violated | Does every polled job end? | 2 requests |
| `Quality` | 80 000 | Has each reading the status its rows warrant; are energy and the store right? | 3 rows over 2 batches, 9 half hours, 2 meters and a blank id, 7 column forms |
| `QualityGapsUnfilled` | violated | Are short gaps interpolated? | as `Quality` |
| `Tenant` | 312 000 | Is a deletion atomic and complete, which rows survive it, and when do circuits double? | 2 tenants, 2 buildings, 2 uploads at a time, 6 operations |

Why these bounds are enough to be of interest. Two attempts and one check are
the least with which a decision, a promotion and a rollback cross each other;
three versions let the alias move forward, back and forward again, and one label
already takes the rate to 0 or 1. Members do not share state, so one suffices.
Three requests with threshold 2 let one commit before, one beside and one after the
crossing. Three messages and two failures let a redelivered message fail again with
one behind it, or a message be sent twice and one copy be skipped. One workflow id
suffices in `Bridge`, since `RunsBounded` speaks of one at a time and a message of
another id moves offsets as a foreign one does. In `Triggers`
one drift message is enough to ask whether it is handled while the other consumer
is down; more of either is `Bridge`'s subject and the theorem's. One lost and one
late attempt make one activity insert three copies. In `Analysis` two runs let the
second meet what the first stored, calibrated and had labelled; one of its two
buildings has readings that fire a rule, a cohort to decompose and one too short,
and a correction that takes the rule back and changes what panels cost, the other
a dead meter and a circuit whose calendar is incomplete; a crash leaves an
unfinished model behind the finished one, and a second training lets a newer forest
be complete by the time the attribution looks for one. One stray attempt is enough to
band what the run has picked up, to be overtaken by the run, and to leave a finding
without a band behind. `MaxEvents` counts the events beside the runs together, the
earlier label among them: three more fit, whichever they are, which is what a narrow
band for a stray takes (a label, the flag, the stray) or a newer forest after an
unfinished one (two trainings and a crash). Three requests with one key are a first
request, one that overlaps it and one that comes after it. Three rows give gaps
below and above the bound, a stuck run with a reading after it, an outlier, silence,
and a last row on the hour; two batches let one overwrite the other. In `Tenant` six
operations create a tenant's building, upload to it, analyse it and delete it with
two to spare; two uploads race for a circuit.

`CHECK_DEADLOCK FALSE` stands in the runs where everything may have been done:
all requests answered, all messages consumed, all runs completed, all operations
begun and ended.

Types are proved for every module with a run; six of the type invariants are then not
checked by a run as well. `BuildingAnalysis` and `IngestionQuality` have their type
invariant in a run too: in the former it contains the validators of the code's own
classes (bundles, bands, feature rows, residuals), which would raise in the middle of
an activity.

### Fairness
Liveness is claimed only where the code schedules the step. An event loop resumes
a coroutine whose statement has returned: `WF(Step(r))`, `WF(TaskStep(r))`. The
producer's thread keeps sending: `WF(Deliver)`. The consumer's loop keeps polling,
and an exited process is started again by its supervisor: `WF(ConsumerStep)`,
`WF(Restart)`. Temporal dispatches the tasks of an open run: `WF(RunStep(r))`, and in
`BuildingAnalysis`, where an activity is one step, `WF(Activity)`.
Row locks make a request's step wait for another's; each lock's holder is under
the same fairness, so weak fairness is enough. Nothing is assumed of clients,
reviewers, crashes, errors, training or the closing of workflows.

## 4. What is proved

Every invariant and every action property of the passing runs, for every value of the
constants under the modules' named assumptions. Those say which values the constants
name: bounds are natural numbers, model values are distinct from data,
`InitialAssumption` and `ArrivalsAssumption` that the building's first rows and the
later ones are rows its columns accept, `GateAssumption` that a batch's stamps are
half hours and that a stuck run takes more than one reading.

`ModelLifecycle_proofs`: `TypeCorrect` (types), `ChampionSafe` (the champion is
never newer than everything approved), `DecisionsUnique` (a version is decided
once), `AliasAccounted` (each move of the alias is approved on the trail or is
about to be written there), `ContractImplemented` (the lifecycle implements
`PromotionContract`) and `ReviewForever` (with a review requirement nothing is ever
promoted).
The champion's safety is not inductive. A check picks its target long before it
moves the alias, and an attempt holds an approval until it does. `IInv`
therefore adds that versions in use are registered, that a version being decided
has neither a decision nor a second decider, that an attempt which will promote
holds a committed approval, and that a check's target is older than an approved
version. Approvals are never withdrawn, so the last stays true while the alias
moves under the check.

`RetrainingTriggers_proofs`, of `FeedbackLoop`'s `Spec`: `FeedbackTypes`, `StatusAgrees`
(a finding's status is the action of its last label: only a commit writes either, and
writes both) and `EventsOnTime` (an event is at most one
label ahead of what is committed, and its request has not then been answered).
The latter is inductive with the types: only `CountAndPublish` adds an event, with
one uncommitted label in its count, labels are never removed, and a request that
has published ends either in its commit, which adds that label, or in a failure.

`EventBridge_proofs`: `BridgeTypes`, `LossIsBounded` and `RunsAreBounded`. The first
bound needs `OffsetsOrdered` (between steps the stored offset is the polled one, the
committed one is not above it, and both are within the log) and
`OutstandingBounded`, which counts what is stored and not handled, rather than what
is committed and not handled, and leaves out the message in the handler: only a
failure adds to that count, and a commit or a redelivery never does. The second
needs, per workflow, `RunsInv`: its runs are at most its copies in the log, each once
per failure, and the copies among the messages finished since the consumer last
started. A failure may take the consumer back to the beginning of the log, and the
first term pays for it.

The same module, of the composition: `RetrainingsAreJustified`, from a request to the
run it leads to. It rests on the invariant of `EventsOnTime` and on `PublishersCounted`:
whoever has published is about to commit, has committed or has failed. The
consumer has something in hand, or the workflow a run, only if the topic has an
event, and the topic never loses one. `PartsImplemented`: the composition implements
`FeedbackLoop` and the drift detector's bridge.

`AnalysisPipeline_proofs`: `PipelineTypes`, `ReviewsCalibrated`, `CopiesAreBounded`,
`OptimizationSees` and `PipelineKeepsContract` (the refinement of `PipelineContract`).
They share `TasksInOrder` (the attempts of an activity are where the run's step says
they may be) and `LateBegun` (a late attempt belongs to an activity that has begun).
`CalibratedInv` adds that from calibration on no row of the run lacks a confidence
and no earlier step can still write one; `CopiesInv` bounds the copies of a finding
by the attempts that have had their effect; `SeenInv` says that a
finding the run attributed stays stored and, once optimization is over, is cited or
dismissed; `FindingsBegun` that a run has findings only after it has begun, which the
contract asks for.

`ApiRequests_proofs`: `RequestTypes`, `AnswersAreStored`, `BatchesMatchEvents`,
`WebhooksFollowResults`, `RetriesToldOneThing` and `OutcomesAreFinal`. One invariant
`IInv` serves all six: per request, what its step implies about the parts it has
done (`Handling`), what it has created (`Created`) and its job and task (`Job`), and
globally that stored answers and created batches and jobs match by key, both ways
(`Stored`). That replays agree rests on the table's side of it: rows of a key are
never replaced (`StoredStay`), so every later replay finds the row of the first.

`TenantData_proofs`: `TenantTypes`, `TwinsNeedOverlap`,
`OrphansNeedAnalysis` and `DeletionsAreAtomic`. The last two need `KeysInv`: the
foreign keys hold of the committed rows, and of what would be left if the deletion
in progress committed now. `OrphanInv` adds that a run whose building is being
deleted is marked as overlapping before the DELETE of its findings is over;
`AuditInv` that a call's log entries are there exactly as far as the call has come.
`TwinsInv` says that, unless uploads of a building raced, at most one circuit of the
meter is either stored or about to be inserted.

`IngestionQuality_proofs`: `ReadingsStayValid` (types), `AnnouncementsRight` by
`Announced` (the last result's readings are in the store), and `ReplaysHarmless` by
`Settled`: circuits and result are already what ingesting the last batch computes
from them, so that ingesting it again is a stutter. It rests on the lemma that
normalization yields one reading per meter and hour, without which an upsert could
replace one reading of a batch by another.
`TypeOK` and `Settled` together are inductive, and leave two statements about what one
ingestion computes. `EnergyIsConserved`: the hours of a meter group its rows
(`RowsGroup`), none twice and none but the last row on the hour left out, and a sum
over groups is the sum over all (`SumOfGroups`).
`StatusesWarranted`: each detector's report covers an hour exactly if the hour has the
defect (`GapsCover`, `DropoutsCover`, `StuckCovers`), though the first counts hours,
the second compares stamps and the third slides a window, whose reports are shown to
be the stretches of equal readings (`ReportedAreSteady`, `SteadyAreReported`). What is
applied to a reading is then the worst of what is reported there (`AgainstIs`), and
taking the worst per detector first changes nothing (`WorstOfWorst`).

`BuildingAnalysis_proofs`: `RecordsStayValid` (types and validators),
`IndicatorsMatchReadings`, `ShortCohortsNotAccused`, `ExplanationsByNewerForest`,
`NarrowBandsTakeLabels`, `ReportsRaiseOnlyThen`, `FallbackReportsJustified` and
`OnlyOverlapsRewrite`. None follows from the tables alone, since an activity works on
what an earlier one handed on and the tables change below it. `IInv` therefore says
what holds of the hand-overs: fires are those of the readings the rules saw
(`FiresHandedOn`), each feature row agrees with fires and residuals of its own row
(`FeaturesAgree`), only rows of good quality are flagged (`FlaggedAreUsable`), the
scoring forest is registered (`ScorerRegistered`), and the bands that the run and the
stray attempts hold were earned when they were computed and still are (`BandEarned`,
`StraysTyped`: labels only grow and the flag only falls).
Some conjuncts place the run and the attempts beside it. The run has accused nobody
before attribution (`NotYetAccused`; otherwise the next run's decomposition could
contradict it). A finding without a band is a stray's, or the run is between its rule
engine and its calibration, which by the time it saves has picked the finding up
(`UncalibratedRuns`). The last, with `ReportReads` (what a report read are earlier
versions of stored findings), says whom a report that raises can blame. And whoever
still holds a finding that has a band is on record as its rival (`RivalsKnown`), so
that the only writers of a second band are those that had selected the finding
before the first one was committed. Findings are numbered by id up to their count
(`FindingRows`), so a new one is never taken for an old one.
What one activity computes is in lemmas about the layers: `FeatureRow` and
`FiresOfRow` for the merge, `FlaggedUsable`, `BandsWarranted`, `PassedScenario` for the
bounds, `FallbackActions` for the report.

Both modules need sums over finite sets, which the library defines by a recursive
function on subsets. Its induction theorems cannot be instantiated, but a minimal
counterexample can: inclusion of finite sets is well founded, so among the
sets that violate a law one is minimal (`MinimalSet`), and removing the element that
the fold takes first contradicts it. That is how a table of partial sums is shown to
exist (`SumsExist`) and to be unique (`SumsAgree`), and the laws of sums follow the
same way.

Only model-checked: liveness, which TLAPS does not prove (nor `ENABLED`). These are
`RequestsEnd`, `MessagesConsumed`, `ConsumersGoOn`, `ReviewedRunEnds`, `JobsEnd` and
`RunsEnd`. Where the code and a document disagree, a run's counterexample says so,
and there is nothing to prove.

## 5. Where code and documents disagree

Shown by a run:
- `FeedbackMissedCrossing`: overlapping requests can take the count across the
  threshold without any of them seeing equality. `services/feedback/service.py:36`
  says the event fires exactly at the crossing.
- `ApiJobStuck`: a job whose session commits after its task, or whose process dies,
  stays "processing". `apps/api/webhooks.py:62` calls polling the reliable path.
- `QualityGapsUnfilled`: short gaps keep no value. The interpolated slice starts at
  the missing hour. `docs/architecture/DATA_AND_MODEL_STRATEGY.md:144` promises
  interpolation.

Proved:
- `ReviewForever`: with the default review requirement of 3 the gate holds every
  candidate for ever, because only the gate writes the rows it counts
  (`models/evaluation/promotion_gate.py:106`). `docs/TRD/TRD_v2.md:516` and the
  module's docstring speak of the first N promotions. (`Lifecycle` therefore runs
  with N = 0, where anything is promoted at all.)

Shown as the exception of a property that holds:
- `orchestration/events/kafka/analysis_trigger.py:37` says that the uniqueness of the
  workflow id "is what makes a duplicate/retried Kafka delivery of the *same* message
  a no-op (WorkflowAlreadyStartedError, caught below) rather than a second pipeline
  run", and `feedback_retraining_trigger.py:36` that a redelivery "collides on workflow
  ID and is absorbed by WorkflowAlreadyStartedError below, not double-triggering a
  retrain"; `drift_retraining_trigger.py:33` refers to both. That holds only while
  the first run is open. `start_workflow` is called without an id reuse policy, and
  the default one starts a second run once the first has closed. A message that is
  sent twice, or delivered again after a crash, can so run its workflow once per
  delivery. `RunsBounded` says how often at most: its bound allows for these runs,
  and `Bridge` reaches them.
- `docs/TRD/TRD_v2.md:579`: "Ingestion and analysis-trigger endpoints accept an
  `Idempotency-Key` header so a retried request (client timeout, network blip) does not
  double-trigger a pipeline run"; the docstring of `apps/api/idempotency.py:1` repeats
  it. The look-up sees committed rows only. A retry that overlaps the first request
  misses its answer, and both ingest and publish, or both create a job and queue its
  task. So does a retry that comes after the first request has published and then
  failed to commit, or, where the session commits last, after its task was queued and
  before its commit. `ReplaysAgree` and `AnswersStored` say what is left of the
  promise: all replays name one result, and it exists. No property says that a
  retry triggers once, because none that covers these retries holds.
- `apps/worker/retraining_event_consumer.py` runs two consumers in one process, each
  with a group of its own. They are not independent: when one raises, the other's
  call in flight is cancelled and its message, whose offset is stored, may be lost
  (`Teardown`); or the other polls on, and keeps the process from ending and being
  started again for as long as it has no message, and for ever if it waits for a call
  that the closed event loop abandoned. These are the exceptions `ConsumersGoOn`
  names.
- The forest that explains a finding may be a newer one than scored it, because
  attribution loads it again (`orchestration/temporal/activities/analysis_stubs.py:404`)
  and a training may have ended in between. `ExplainerNeverOlder` allows this; it rules
  out an older or an incomplete one.
- `services/calibration/repository.py:35` selects findings "where confidence is null",
  and its UPDATE at line 159 does not look again. Overlapping runs of a building, or an
  attempt that was given up at its timeout, overwrite a band given in between.
  `OnlyRivalsRewrite` says that nothing else does.
- `services/reporting/narrator.py:111` says that `generate` never raises. It does on a
  finding without a band. A report reads one between a run's rule engine and its
  calibration; and, if an attempt of the rule engine that was given up, or one of
  another run, has committed after that calibration, at any later time until a
  calibration picks the finding up (`ReportsRaiseOnlyMidRun`). The incidents of rejected
  scenarios are then rolled back with the request.
- `docs/TRD/TRD_v2.md:248` and the docstring of migration 0003 promise that a
  building's data is deleted. Findings come back from an analysis that is in flight
  (`OrphansWereInFlight`), and stay: they have no key to buildings.
- An activity that raises `ValueError` on data that will not change (a cohort
  without a value; a training with too few rows) is retried for ever (`RunsEnd`).

Read, without a run:
- `delete_building_data` deletes from neither `ingestion_batches`,
  `ingestion_webhooks` nor `feature_store`, which have keys to buildings or
  circuits, so it is refused for every building that had an upload or features; and
  `delete_tenant_data` is refused for a tenant with a row in `api_clients`,
  `webhook_registrations` or `analysis_jobs`. `model_quality_incidents` and
  `idempotency_keys` have no key and are never deleted. `DELETE /buildings` of the
  API logs nothing and is refused for a building with circuits.
- `enforce_retention` begins a transaction on a connection whose first statement has
  begun one, which raises, and would pass a dict where a string is bound: retention
  deletes nothing.
- The opt-in aggregation goes on when its consent check cannot be written to the log;
  the comment at `services/feedback/opt_in_pipeline.py:105` says that the entry must
  exist before it does.
- `buildings.cold_start` is TRUE by default and no code clears it, so that no band is
  ever narrower than [0, 1] until an operator does (`ClearColdStart`).
- The attributions explain the unscaled features of a forest that was trained on
  scaled ones.
- Circuits that the decomposition skips count as business days of good quality.
- `load_shift` counts shifted consumption as saved emissions.
- `SET LOCAL app.current_tenant_id = :tenant_id` binds a parameter in a statement that
  takes none on the server; the models assume that the setting is made.
- `Retry-After` is truncated to whole seconds, so a client that obeys it may be
  refused once more.
- `orchestration/events/kafka/producer.py:25` asks for `flush()` at shutdown; no
  process calls it (`ProducerEnds`).
- `docs/TRD/TRD_v2.md:264` lists dropout windows as quarantined;
  `services/ingestion/sensor_fault.py:124` degrades them.
- `docs/TRD/TRD_v2.md:268` promises an alert for a quarantined batch;
  `ingest_raw_rows` passes no alert store to the publisher.
- Column names that `resolve_columns` maps are quarantined all the same, because
  `check_schema_drift` compares the raw names.
- `docs/TRD/TRD_v2.md:515` compares a candidate's false-positive rate with the
  serving model's on held-out labels; the gate looks at the number of samples and
  the anomaly rate only.
- `services/calibration/repository.py:166` writes a bound parameter with a cast
  (`:name::jsonb`). Releases of SQLAlchemy whose `text()` takes no parameter that
  is followed by a colon reject the statement; the model assumes that the UPDATE
  does what it says.
- A row stamped on the full hour at the end of a batch is dropped, and batches
  that split an hour overwrite each other's total.

## 6. Not modelled, and why

Floating-point code (fitting, decomposition, attributions, drift statistics) has no
small exact instance: its results enter as any outcome that its callers tell apart.
Token checks and limits per minute are library calls and one counter without an
await. Wording, PDF and the 200 findings a report reads at most are layout. The
roll-up of a portfolio's scenarios is a sum. The bounds table that reloads itself
and the alert store are not reached from `ingest_raw_rows`. The smart-meter push is
`ApiRequests`' upload without a key, and its re-sent batches are `IngestionQuality`'s
`Resend`. Row-level policies run inside the database and no modelled writer leaves
its tenant; retention never reaches a DELETE. Reading and revoking API clients
changes nothing that other parts of `TenantData` look at. The offline pipelines are
run by hand, one step after the other. The drift detector's baseline is stored
nowhere, so that every evaluation answers STABLE; its event is modelled as if it
could be sent.

`BuildingAnalysis` follows one analysis at a time. Of the attempts that overlap it, it
has those of the rule engine and of the calibration; strays of the other activities
are left out. A late assembly may put older feature rows back into the store, which
only trainings read; a late attribution adds copies, with a band from the start;
the rest write nothing. Such copies, and runs that overlap from end to end, are in
`AnalysisPipeline`, where findings are abstract. A calibration's SELECTs of findings,
labels and flag are one step. Labels only grow and the flag only falls, so that what
it reads while they are written is what some order of these writes would show it.

The opt-in aggregation (`services/feedback/opt_in_pipeline.py`) has no caller outside its
unit tests. It is one pass over a snapshot of the tenants' flags, which nothing reads
again, and no document promises more than that the flag is checked before a tenant is
included (`docs/TRD/TRD_v2.md:370`).

## 7. Plan

The modules above are what the plan of this project listed: the lifecycle, feedback
and its triggers, the pipeline and its data, API requests, ingestion, tenants and
their deletion. What could still be added:

1. Two runs followed from end to end side by side in `BuildingAnalysis`, once its state
   space is cut down, instead of one and the stray attempts of another.
2. The drift detector over integer histograms, if a baseline is ever stored.
3. Retention, once it deletes: it would join `TenantData` as a second deletion.
4. Theorems beyond the runs' properties: that `BuildingAnalysis`, with its findings
   reduced to status and confidence, implements what `PipelineContract` promises, and
   the safety half of the liveness properties (what a stuck state would have to be).

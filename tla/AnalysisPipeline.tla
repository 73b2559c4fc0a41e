-------------------------- MODULE AnalysisPipeline --------------------------
(***************************************************************************)
(* AnalysisPipelineWorkflow and its activities, for the runs of one        *)
(* building: orchestration/temporal/workflows/analysis_pipeline.py,        *)
(* orchestration/temporal/activities/{analysis_stubs,optimization}.py.     *)
(*                                                                         *)
(* Temporal executes a workflow's code atomically between two awaits and   *)
(* an activity at least once.  An attempt first has its effect on the      *)
(* database and then reports its result; the worker may die in between,    *)
(* and an attempt that exceeds start_to_close_timeout is replaced by a new *)
(* one while it still runs, because no activity of the pipeline heartbeats *)
(* and so none is cancelled.                                               *)
(***************************************************************************)
EXTENDS Integers, Sequences, FiniteSets

CONSTANTS
    Runs,              \* workflow executions, one per building.data.arrived event
    RuleFires,         \* rule violations in the readings of the window
    Anomalies,         \* readings the trained ensemble flags
    MaxLost,           \* bound on attempts lost with their worker
    MaxTimeouts        \* bound on attempts that exceed their timeout

ASSUME DataAssumption ==
    IsFiniteSet(RuleFires) /\ IsFiniteSet(Anomalies) /\ RuleFires \cap Anomalies = {}
ASSUME FailureBoundsAssumption == MaxLost \in Nat /\ MaxTimeouts \in Nat

VARIABLES
    step,              \* _current_step of each run
    task,              \* per run and activity: how far its current attempt is
    late,              \* timed-out attempts that still run
    output,            \* results the workflow threads from step to step
    signalled,         \* runs whose human_review_completed signal has arrived
    findings,          \* committed rows of the findings table
    models,            \* trained models in the local registry
    lost,              \* attempts lost with their worker so far
    timeouts           \* attempts timed out so far

vars == <<step, task, late, output, signalled, findings, models,
          lost, timeouts>>

Activities ==
    {"data_quality_gate", "rule_engine", "stl_detection", "feature_assembly",
     "ml_ensemble", "confidence_calibration", "root_cause_attribution", "optimization"}

Detection == {"rule_engine", "stl_detection"}

Steps == (Activities \ Detection) \cup
    {"rule_engine_and_stl_detection", "waiting_for_human_review", "completed", "failed"}

\* The activities a step awaits: one, or both detectors in parallel.
Awaited(s) ==
    IF s = "rule_engine_and_stl_detection" THEN Detection ELSE {s} \cap Activities

\* Mutant: optimization runs before root-cause attribution.
OptimizationFirst ==
    [data_quality_gate |-> "rule_engine_and_stl_detection",
     rule_engine_and_stl_detection |-> "feature_assembly",
     feature_assembly |-> "ml_ensemble",
     ml_ensemble |-> "confidence_calibration",
     confidence_calibration |-> "optimization",
     optimization |-> "root_cause_attribution",
     root_cause_attribution |-> "waiting_for_human_review"]

NextStep ==
    [data_quality_gate |-> "rule_engine_and_stl_detection",
     rule_engine_and_stl_detection |-> "feature_assembly",
     feature_assembly |-> "ml_ensemble",
     ml_ensemble |-> "confidence_calibration",
     confidence_calibration |-> "root_cause_attribution",
     root_cause_attribution |-> "optimization",
     optimization |-> "waiting_for_human_review"]

\* A row of findings.  Its id is a fresh uuid: here the run, what the finding
\* is about and the number of the copy.
Finding ==
    [run : Runs, about : RuleFires \cup Anomalies, copy : Nat \ {0},
     calibrated : BOOLEAN, status : {"open", "dismissed"}]

\* scores: what ml_ensemble flagged; bands: what confidence_calibration passed
\* on; persisted: findings root_cause_attribution inserted; cited: findings
\* that optimization took as justification.
Output ==
    [scores : SUBSET Anomalies, bands : SUBSET Anomalies,
     persisted : SUBSET Finding, cited : SUBSET Finding]

TypeOK ==
    /\ step \in [Runs -> Steps]
    /\ task \in [Runs -> [Activities -> {"unstarted", "running", "effected", "reported"}]]
    /\ late \subseteq Runs \X Activities
    /\ output \in [Runs -> Output]
    /\ signalled \subseteq Runs
    /\ findings \subseteq Finding
    /\ models \subseteq {"isolation_forest", "autoencoder"}
    /\ lost \in Nat /\ timeouts \in Nat

Init ==
    /\ step = [r \in Runs |-> "data_quality_gate"]
    /\ task = [r \in Runs |-> [a \in Activities |->
                  IF a = "data_quality_gate" THEN "running" ELSE "unstarted"]]
    /\ late = {}
    /\ output = [r \in Runs |->
                    [scores |-> {}, bands |-> {}, persisted |-> {}, cited |-> {}]]
    /\ signalled = {}
    /\ findings = {}
    /\ models = {}
    /\ lost = 0
    /\ timeouts = 0

-----------------------------------------------------------------------------
(* One attempt of an activity: its effect on the database and its result.   *)
(* stl_detection only computes; feature_assembly upserts feature_store rows *)
(* that no other activity reads.                                            *)

Copies(r, d) == Cardinality({f \in findings : f.run = r /\ f.about = d})

\* save_findings inserts one row per detection, each under a new id.
NewFindings(r, detections, calibrated) ==
    {[run |-> r, about |-> d, copy |-> Copies(r, d) + 1,
      calibrated |-> calibrated, status |-> "open"] : d \in detections}

RuleEngine(r) ==
    /\ findings' = findings \cup NewFindings(r, RuleFires, FALSE)
    /\ UNCHANGED output

\* Both models are optional; without one nothing is flagged.
MLEnsemble(r) ==
    /\ \E flagged \in SUBSET Anomalies :
        /\ models = {} => flagged = {}
        /\ output' = [output EXCEPT ![r].scores = flagged]
    /\ UNCHANGED findings

\* Mutant: the session is closed without a commit.
CalibrateOnly(r) ==
    /\ output' = [output EXCEPT ![r].bands = output[r].scores]
    /\ UNCHANGED findings

\* calibrate_findings updates every finding of the building without confidence,
\* whichever run inserted it; calibrate_ensemble_scores only passes on.
Calibrate(r) ==
    /\ findings' = {[f EXCEPT !.calibrated = TRUE] : f \in findings}
    /\ output' = [output EXCEPT ![r].bands = output[r].scores]

Attributed(r) ==
    IF "isolation_forest" \in models
    THEN NewFindings(r, output[r].bands, TRUE) ELSE {}

\* Mutant: the rule findings are saved again with the new ones.
AttributeAll(r) ==
    /\ findings' = findings \cup Attributed(r) \cup NewFindings(r, RuleFires, TRUE)
    /\ output' = [output EXCEPT ![r].persisted = Attributed(r)]

\* Without a trained isolation forest the anomalies are skipped.
Attribute(r) ==
    /\ findings' = findings \cup Attributed(r)
    /\ output' = [output EXCEPT ![r].persisted = Attributed(r)]

\* generate_scenarios takes every finding that is not dismissed.
Optimize(r) ==
    /\ output' = [output EXCEPT ![r].cited = {f \in findings : f.status # "dismissed"}]
    /\ UNCHANGED findings

Effect(r, a) ==
    CASE a = "rule_engine" -> RuleEngine(r)
      [] a = "ml_ensemble" -> MLEnsemble(r)
      [] a = "confidence_calibration" -> Calibrate(r)
      [] a = "root_cause_attribution" -> Attribute(r)
      [] a = "optimization" -> Optimize(r)
      [] OTHER -> UNCHANGED <<findings, output>>

-----------------------------------------------------------------------------
(* Attempts as Temporal runs them *)

Attempt(r, a) ==
    /\ task[r][a] = "running"
    /\ Effect(r, a)
    /\ task' = [task EXCEPT ![r][a] = "effected"]
    /\ UNCHANGED <<step, late, signalled, models, lost, timeouts>>

Report(r, a) ==
    /\ task[r][a] = "effected"
    /\ task' = [task EXCEPT ![r][a] = "reported"]
    /\ UNCHANGED <<step, late, output, signalled, findings, models, lost, timeouts>>

\* The worker dies: Temporal runs the activity again from its beginning.
LoseAttempt(r, a) ==
    /\ task[r][a] \in {"running", "effected"}
    /\ lost < MaxLost
    /\ lost' = lost + 1
    /\ task' = [task EXCEPT ![r][a] = "running"]
    /\ UNCHANGED <<step, late, output, signalled, findings, models, timeouts>>

\* start_to_close_timeout: a new attempt starts beside the old one.
TimeOut(r, a) ==
    /\ task[r][a] = "running"
    /\ timeouts < MaxTimeouts
    /\ timeouts' = timeouts + 1
    /\ late' = late \cup {<<r, a>>}
    /\ UNCHANGED <<step, task, output, signalled, findings, models, lost>>

\* A timed-out attempt still has its effect; its result is discarded.
LateAttempt(r, a) ==
    /\ <<r, a>> \in late
    /\ \/ a = "rule_engine" /\ findings' = findings \cup NewFindings(r, RuleFires, FALSE)
       \/ /\ a = "confidence_calibration"
          /\ findings' = {[f EXCEPT !.calibrated = TRUE] : f \in findings}
       \/ a = "root_cause_attribution" /\ findings' = findings \cup Attributed(r)
       \/ /\ a \notin {"rule_engine", "confidence_calibration", "root_cause_attribution"}
          /\ UNCHANGED findings
    /\ late' = late \ {<<r, a>>}
    /\ UNCHANGED <<step, task, output, signalled, models, lost, timeouts>>

-----------------------------------------------------------------------------
(* The workflow *)

\* data_quality_gate_activity finds no usable reading: a non-retryable error.
GateRejects(r) ==
    /\ task[r]["data_quality_gate"] = "running"
    /\ task' = [task EXCEPT ![r]["data_quality_gate"] = "reported"]
    /\ step' = [step EXCEPT ![r] = "failed"]
    /\ UNCHANGED <<late, output, signalled, findings, models, lost, timeouts>>

Moved(r) ==
    /\ Awaited(step[r]) # {}
    /\ \A a \in Awaited(step[r]) : task[r][a] = "reported"
    /\ step' = [step EXCEPT ![r] = NextStep[step[r]]]
    /\ task' = [task EXCEPT ![r] = [a \in Activities |->
           IF a \in Awaited(NextStep[step[r]]) THEN "running" ELSE task[r][a]]]

\* Mutant: the signal is reset when the run starts to wait for it.
AdvanceAndReset(r) ==
    /\ Moved(r)
    /\ signalled' = IF step'[r] = "waiting_for_human_review"
                    THEN signalled \ {r} ELSE signalled
    /\ UNCHANGED <<late, output, findings, models, lost, timeouts>>

\* The awaited activities have returned: the run goes on to its next step.
Advance(r) ==
    /\ Moved(r)
    /\ UNCHANGED <<late, output, signalled, findings, models, lost, timeouts>>

\* The signal handler runs whenever the signal arrives, also before the wait.
HumanReviewCompleted(r) ==
    /\ step[r] \notin {"completed", "failed"}
    /\ signalled' = signalled \cup {r}
    /\ UNCHANGED <<step, task, late, output, findings, models, lost, timeouts>>

\* Mutant: the run does not wait.
CompleteUnreviewed(r) ==
    /\ step[r] = "waiting_for_human_review"
    /\ step' = [step EXCEPT ![r] = "completed"]
    /\ UNCHANGED <<task, late, output, signalled, findings, models, lost, timeouts>>

Complete(r) ==
    /\ step[r] = "waiting_for_human_review"
    /\ r \in signalled
    /\ step' = [step EXCEPT ![r] = "completed"]
    /\ UNCHANGED <<task, late, output, signalled, findings, models, lost, timeouts>>

-----------------------------------------------------------------------------
(* The rest of the system *)

ModelTrained ==
    /\ \E m \in {"isolation_forest", "autoencoder"} \ models : models' = models \cup {m}
    /\ UNCHANGED <<step, task, late, output, signalled, findings, lost, timeouts>>

\* A reviewer dismisses a finding while runs are in progress.
Dismiss ==
    /\ \E f \in findings :
        /\ f.status = "open"
        /\ findings' = (findings \ {f}) \cup {[f EXCEPT !.status = "dismissed"]}
    /\ UNCHANGED <<step, task, late, output, signalled, models, lost, timeouts>>

RunStep(r) ==
    \/ \E a \in Activities : Attempt(r, a) \/ Report(r, a)
    \/ GateRejects(r)
    \/ Advance(r)
    \/ Complete(r)

Next ==
    \/ \E r \in Runs :
        \/ RunStep(r)
        \/ HumanReviewCompleted(r)
        \/ \E a \in Activities : LoseAttempt(r, a) \/ TimeOut(r, a) \/ LateAttempt(r, a)
    \/ ModelTrained
    \/ Dismiss

Spec == Init /\ [][Next]_vars

\* Temporal keeps dispatching the activities and workflow tasks of every run to
\* a live worker; signals, training and reviews owe nothing.
FairSpec == Spec /\ \A r \in Runs : WF_vars(RunStep(r))

-----------------------------------------------------------------------------
(* Properties that hold *)

\* The run as its starter and its reviewer see it.
PhaseOf(s) ==
    CASE s = "failed" -> "rejected"
      [] s = "waiting_for_human_review" -> "review"
      [] s = "completed" -> "completed"
      [] OTHER -> "analysing"

Contract == INSTANCE PipelineContract WITH
    phase <- [r \in Runs |-> PhaseOf(step[r])],
    wrote <- {f.run : f \in findings}

ImplementsContract == Contract!Spec

\* Activities run at least once and insert under fresh ids, but each further
\* copy of a finding is the work of one lost or timed-out attempt.
CopiesBounded == \A f \in findings : f.copy <= 1 + lost + timeouts

\* The same row, however its review and calibration have changed since.
Same(f, g) == f.run = g.run /\ f.about = g.about /\ f.copy = g.copy

\* Optimization reads the findings afresh instead of those the run hands it, and
\* still misses none that this run attributed, unless a reviewer dismissed it.
OptimizationSeesFindings ==
    \A r \in Runs : step[r] \in {"waiting_for_human_review", "completed"} =>
        \A f \in output[r].persisted :
            \/ \E g \in output[r].cited : Same(f, g)
            \/ \E g \in findings : Same(f, g) /\ g.status = "dismissed"

\* The findings a run presents for review all carry a confidence, also after
\* lost attempts and with other runs of the building in between.  (Not with
\* timeouts: then a late rule_engine attempt may insert after calibration.)
CalibratedForReview ==
    timeouts = 0 => \A f \in findings :
        step[f.run] \in {"waiting_for_human_review", "completed"} => f.calibrated

\* A run whose review is signalled ends, however early the signal arrives.
ReviewedRunEnds ==
    \A r \in Runs : r \in signalled ~> step[r] \in {"completed", "failed"}

=============================================================================

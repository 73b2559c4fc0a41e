-------------------------- MODULE BuildingAnalysis --------------------------
(* One building's analysis runs with the data they carry: the activities of  *)
(* the analysis workflow one by one, interleaved with readings that arrive,  *)
(* reviewers' labels, the training of the ensemble and the report request.   *)
(* One run at a time is followed with all it hands on.  Attempts of the rule *)
(* engine and of the calibration that belong to another run of the building, *)
(* or that this run has given up at their timeout and repeated, are strays:  *)
(* they write to the findings as well, and when they do is up to them.       *)
EXTENDS StlDetection, Explainability, Optimization, Reporting

CONSTANTS
    InitialData,      \* the readings, calendars, findings and labels a behaviour may start with
    Arrivals,         \* readings that may be stored or replaced later, by row
    MaxRuns,          \* bound: analysis runs
    MaxStrays,        \* bound: stray attempts
    MaxTrainings,     \* bound: executions of the training workflow
    MaxCrashes,       \* bound: workers lost while a training run is logged
    MaxLabels,        \* bound: labels given
    MaxReports,       \* bound: report requests
    MaxEvents         \* bound: all of these but the runs, and the flag's change, together

ASSUME AnalysisAssumption ==
    /\ {MaxRuns, MaxStrays, MaxTrainings, MaxCrashes, MaxLabels, MaxReports,
        MaxEvents} \subseteq Nat
    /\ None \notin [lower : 0..100, upper : 0..100]

(* What a row of findings and its explainability bundle may hold.            *)
FindingRow ==
    [id : Nat, layer : {"domain_rule", "ml_ensemble"}, row : Row,
     status : {"open", "confirmed", "dismissed"}, confidence : 0..100 \cup {None},
     run : Nat, model : Nat, scorer : Nat, layers : SUBSET Layers,
     top : SUBSET FeatureNames(RuleIds), rules : SUBSET RuleIds,
     band : [lower : 0..100, upper : 0..100] \cup {None}]

(* Between runs, before any model was trained: rows the columns accept, and  *)
(* findings of the rules that a cold building has calibrated.                *)
ASSUME InitialAssumption ==
    \A d \in InitialData :
        /\ IsFiniteSet(DOMAIN d.db) /\ DOMAIN d.db \subseteq Row
        /\ \A r \in DOMAIN d.db : d.db[r] \in Readings
        /\ \A x \in DOMAIN d.calendar : d.calendar[x] \in DayTypes
        /\ d.labels \in Seq({"confirmed", "dismissed"})
        /\ d.findings \subseteq FindingRow /\ IsFiniteSet(d.findings)
        /\ \A f \in d.findings :
              /\ f.id <= Cardinality(d.findings)
              /\ f.layers = {"domain_rule"} /\ f.layer = "domain_rule" /\ f.run = 0
              /\ f.band = WideBand /\ f.confidence = 100
        /\ \A f, g \in d.findings : f.id = g.id => f = g

ASSUME ArrivalsAssumption ==
    DOMAIN Arrivals \subseteq Row /\ \A r \in DOMAIN Arrivals : Arrivals[r] \in Readings

VARIABLES
    db,          \* normalized_readings of the building
    calendar,    \* building_calendar: date |-> day type
    coldStart,   \* buildings.cold_start
    findings,    \* findings rows
    labels,      \* actions of feedback_labels, oldest first
    store,       \* feature_store rows
    registry,    \* member |-> its runs in the tracking store
    training,    \* the training workflow: step, executions, crashes
    analysis,    \* the analysis run: its step and the outputs handed on
    strays,      \* stray attempts: what each has read and will write
    rivals,      \* history: <<i, a>> when attempt a, still going, had picked up
                 \* finding i before the finding got its first band
    report       \* the report request: its step and what it read

vars == <<db, calendar, coldStart, findings, labels, store, registry,
          training, analysis, strays, rivals, report>>

NoData == [r \in {} |-> 0]

(* The bound on what happens beside the runs.                                *)
Room ==
    Len(strays) + training.executions + training.crashes + Len(labels) + report.requests
        + (IF coldStart THEN 0 ELSE 1) < MaxEvents

Init ==
    /\ \E d \in InitialData :
          db = d.db /\ calendar = d.calendar /\ findings = d.findings /\ labels = d.labels
    /\ coldStart = TRUE
    /\ store = NoData
    /\ registry = [m \in Members |-> <<>>]
    /\ training = [step |-> "idle", logging |-> FALSE, executions |-> 0, crashes |-> 0]
    /\ analysis = [step |-> "idle", pending |-> {}, run |-> 0, read |-> NoData, fires |-> {},
                   stl |-> NoData, features |-> NoData, flagged |-> {}, scorer |-> 0,
                   ids |-> {}, band |-> WideBand]
    /\ strays = <<>> /\ rivals = {}
    /\ report = [step |-> "idle", requests |-> 0, open |-> {}, midRun |-> 0,
                 incidents |-> {}]

-----------------------------------------------------------------------------
(* The analysis run. *)

(* The data quality gate lets a run past when some reading is readable; the  *)
(* rule engine and the decomposition then run in parallel.                   *)
StartAnalysis ==
    /\ analysis.step = "idle"
    /\ analysis.run < MaxRuns
    /\ Readable(db) # {}
    /\ analysis' = [analysis EXCEPT !.step = "detect", !.pending = {"rules", "stl"},
                                    !.run = @ + 1]
    /\ UNCHANGED <<db, calendar, coldStart, findings, labels, store, registry, training,
                   report, strays, rivals>>

(* A findings row; ids grow with detected_at.                                *)
Finding(id, layer, row, run, bundle, confidence, model, scorer) ==
    [id |-> id, layer |-> layer, row |-> row, status |-> "open", confidence |-> confidence,
     run |-> run, model |-> model, scorer |-> scorer, layers |-> bundle.layers,
     top |-> bundle.top, rules |-> bundle.rules, band |-> bundle.band]

(* What the rule engine inserts for its fires: findings without a band.      *)
RuleFindings(fires, run) ==
    LET seq == SetToSeq(fires)
    IN  {Finding(Cardinality(findings) + i, "domain_rule",
                 [circuit |-> seq[i].circuit, ts |-> seq[i].ts], run,
                 RuleBundle(seq[i].rule), None, 0, 0) : i \in 1..Len(seq)}

AfterDetect(p) == IF p = {} THEN "assembly" ELSE "detect"

(* rule_engine_activity: its findings, and the fires handed on.              *)
RuleEngineActivity ==
    /\ "rules" \in analysis.pending
    /\ LET rest == analysis.pending \ {"rules"}
       IN  /\ findings' = findings \cup RuleFindings(ProcessReadings(db), analysis.run)
           /\ analysis' = [analysis EXCEPT !.pending = rest, !.step = AfterDetect(rest),
                                           !.fires = ProcessReadings(db), !.read = db]
    /\ UNCHANGED <<db, calendar, coldStart, labels, store, registry, training,
                   report, strays, rivals>>

(* stl_detection_activity.  While some cohort has no value at all the fit    *)
(* raises and the server retries the activity, for ever if need be.          *)
StlDetectionActivity ==
    /\ "stl" \in analysis.pending
    /\ ~FitRaises(db, calendar)
    /\ LET rest == analysis.pending \ {"stl"}
       IN  analysis' = [analysis EXCEPT !.pending = rest, !.step = AfterDetect(rest),
                                        !.stl = AnalyseWindow(db, calendar)]
    /\ UNCHANGED <<db, calendar, coldStart, findings, labels, store, registry, training,
                   report, strays, rivals>>

(* feature_assembly_activity: reads the readings again, merges, and saves.   *)
FeatureAssemblyActivity ==
    /\ analysis.step = "assembly"
    /\ LET rows == Assemble(db, analysis.stl, analysis.fires)
       IN  /\ analysis' = [analysis EXCEPT !.step = "ensemble", !.features = rows]
           /\ store' = SaveFeatures(store, rows)
    /\ UNCHANGED <<db, calendar, coldStart, findings, labels, registry, training,
                   report, strays, rivals>>

(* ml_ensemble_activity: loads both members and flags rows.                  *)
MlEnsembleActivity ==
    /\ analysis.step = "ensemble"
    /\ \E a \in Flags("isolation_forest", registry["isolation_forest"], analysis.features),
          b \in Flags("autoencoder", registry["autoencoder"], analysis.features) :
            analysis' = [analysis EXCEPT
                !.step = "calibration", !.flagged = a \cup b,
                !.scorer = IF Loads(registry["isolation_forest"])
                           THEN FindLatestRun(registry["isolation_forest"]) ELSE 0]
    /\ UNCHANGED <<db, calendar, coldStart, findings, labels, store, registry, training,
                   report, strays, rivals>>

(* Mutant: a band that says nothing is not stored.                           *)
Calibrated_Informative(f, ids, band) ==
    IF f.id \in ids /\ band # WideBand
    THEN [f EXCEPT !.confidence = band.upper, !.band = band] ELSE f

(* save_calibrated_findings(): the band, and its upper end as confidence, of *)
(* the findings that were picked up, whatever has become of them since.      *)
Calibrated(f, ids, band) ==
    IF f.id \in ids THEN [f EXCEPT !.confidence = band.upper, !.band = band] ELSE f

(* Mutant: every finding of the building is calibrated again.                *)
Uncalibrated_All == {f.id : f \in findings}

(* get_uncalibrated_findings()                                               *)
Uncalibrated == {f.id : f \in {g \in findings : g.confidence = None}}

(* Attempt 0 is the followed run's.  What an attempt has picked up to save.  *)
Attempts == 0..Len(strays)
PickedUp(a) == IF a = 0 THEN analysis.ids ELSE strays[a].ids

(* Attempt a commits the band of what it has picked up.                      *)
SaveBands(a, band) ==
    /\ findings' = {Calibrated(f, PickedUp(a), band) : f \in findings}
    /\ LET first == {f.id : f \in {g \in findings : g.band = None /\ g.id \in PickedUp(a)}}
       IN  rivals' = {p \in rivals \cup (first \X Attempts) : p[2] # a /\ p[1] \in PickedUp(p[2])}

(* confidence_calibration_activity first reads the uncalibrated findings of  *)
(* the building, its labels and its flag, and computes their band.           *)
SelectUncalibrated ==
    /\ analysis.step = "calibration"
    /\ \E band \in Bands(coldStart, labels) :
          analysis' = [analysis EXCEPT !.step = "saving", !.ids = Uncalibrated, !.band = band]
    /\ UNCHANGED <<db, calendar, coldStart, findings, labels, store, registry, training,
                   report, strays, rivals>>

(* It then updates them by id, calibrates the flagged scores with what labels *)
(* and flag are by now, and commits.                                         *)
SaveCalibrated ==
    /\ analysis.step = "saving"
    /\ SaveBands(0, analysis.band)
    /\ \E band \in Bands(coldStart, labels) :
          analysis' = [analysis EXCEPT !.step = "rootcause", !.ids = {}, !.band = band]
    /\ UNCHANGED <<db, calendar, coldStart, labels, store, registry, training, strays, report>>

(* root_cause_attribution_activity: loads the forest again, and draws the    *)
(* explanation from its features; without one the flagged rows are dropped.  *)
(* What the activities handed on is gone with the run.                       *)
RootCauseActivity ==
    /\ analysis.step = "rootcause"
    /\ LET forests  == registry["isolation_forest"]
           rows     == analysis.flagged \cap DOMAIN analysis.features
           seq      == SetToSeq(IF Loads(forests) THEN rows ELSE {})
       IN  findings' = findings \cup
               {Finding(Cardinality(findings) + i, "ml_ensemble", seq[i], analysis.run,
                        AssembleMlOnly(analysis.features[seq[i]],
                                       forests[FindLatestRun(forests)], analysis.band),
                        (analysis.band.lower + analysis.band.upper) \div 2,
                        FindLatestRun(forests), analysis.scorer) : i \in 1..Len(seq)}
    /\ analysis' = [analysis EXCEPT
          !.step = "idle", !.read = NoData, !.fires = {}, !.features = NoData,
          !.flagged = {}, !.scorer = 0, !.band = WideBand]
    /\ UNCHANGED <<db, calendar, coldStart, labels, store, registry, training,
                   report, strays, rivals>>

-----------------------------------------------------------------------------
(* Stray attempts of the rule engine and of the calibration. *)

NewStray(step, fires, ids, band) ==
    [step |-> step, fires |-> fires, ids |-> ids, band |-> band]

(* One starts: it reads, and what it will write is settled.                  *)
BeginStray ==
    /\ Len(strays) < MaxStrays /\ Room
    /\ \/ strays' = Append(strays, NewStray("rules", ProcessReadings(db), {}, WideBand))
       \/ \E band \in Bands(coldStart, labels) :
              strays' = Append(strays, NewStray("calibration", {}, Uncalibrated, band))
    /\ UNCHANGED <<db, calendar, coldStart, findings, labels, store, registry,
                   training, analysis, rivals, report>>

Over(a) == strays' = [strays EXCEPT ![a].step = "over", ![a].fires = {}, ![a].ids = {}]

StrayRuleEngine ==
    /\ \E a \in DOMAIN strays :
          /\ strays[a].step = "rules"
          /\ findings' = findings \cup RuleFindings(strays[a].fires, 0)
          /\ Over(a)
    /\ UNCHANGED <<db, calendar, coldStart, labels, store, registry,
                   training, analysis, rivals, report>>

StrayCalibration ==
    /\ \E a \in DOMAIN strays :
          /\ strays[a].step = "calibration"
          /\ SaveBands(a, strays[a].band)
          /\ Over(a)
    /\ UNCHANGED <<db, calendar, coldStart, labels, store, registry,
                   training, analysis, report>>

-----------------------------------------------------------------------------
(* The training workflow: the forest, then the autoencoder. *)

NextMember == IF training.step = "isolation_forest" THEN "autoencoder" ELSE "idle"

StartTraining ==
    /\ training.step = "idle"
    /\ training.executions < MaxTrainings /\ Room
    /\ training' = [training EXCEPT !.step = "isolation_forest", !.executions = @ + 1]
    /\ UNCHANGED <<db, calendar, coldStart, findings, labels, store, registry, analysis,
                   report, strays, rivals>>

(* No stored feature at all: the member is skipped.                          *)
SkipMember ==
    /\ training.step \in Members /\ ~training.logging
    /\ DOMAIN store = {}
    /\ training' = [training EXCEPT !.step = NextMember]
    /\ UNCHANGED <<db, calendar, coldStart, findings, labels, store, registry, analysis,
                   report, strays, rivals>>

(* Too few usable rows raise ValueError and the activity is retried: nothing *)
(* happens until more features are stored.                                   *)
StartRun ==
    /\ training.step \in Members /\ ~training.logging
    /\ \E run \in Train(training.step, store) :
          registry' = [registry EXCEPT ![training.step] = Append(@, run)]
    /\ training' = [training EXCEPT !.logging = TRUE]
    /\ UNCHANGED <<db, calendar, coldStart, findings, labels, store, analysis,
                   report, strays, rivals>>

FinishRun ==
    /\ training.logging
    /\ registry' = [registry EXCEPT ![training.step][Len(registry[training.step])].ready = TRUE]
    /\ training' = [training EXCEPT !.logging = FALSE, !.step = NextMember]
    /\ UNCHANGED <<db, calendar, coldStart, findings, labels, store, analysis,
                   report, strays, rivals>>

(* The worker dies while logging; the retry starts a run of its own.         *)
CrashRun ==
    /\ training.logging
    /\ training.crashes < MaxCrashes /\ Room
    /\ training' = [training EXCEPT !.logging = FALSE, !.crashes = @ + 1]
    /\ UNCHANGED <<db, calendar, coldStart, findings, labels, store, registry, analysis,
                   report, strays, rivals>>

-----------------------------------------------------------------------------
(* Reviewers, operators and sources. *)

(* Each finding is labelled once here (FeedbackLoop has every order).        *)
LabelFinding ==
    /\ Len(labels) < MaxLabels /\ Room
    /\ \E f \in {g \in findings : g.status = "open"}, a \in {"confirmed", "dismissed"} :
          /\ findings' = (findings \ {f}) \cup {[f EXCEPT !.status = a]}
          /\ labels' = Append(labels, a)
    /\ UNCHANGED <<db, calendar, coldStart, store, registry, training, analysis,
                   report, strays, rivals>>

(* No code of the repository clears cold_start: an operator does.            *)
ClearColdStart ==
    /\ coldStart /\ Room
    /\ coldStart' = FALSE
    /\ UNCHANGED <<db, calendar, findings, labels, store, registry, training, analysis,
                   report, strays, rivals>>

(* An ingestion upserts a reading, at most once each.                        *)
ReadingArrives ==
    /\ \E r \in DOMAIN Arrivals :
          /\ r \notin DOMAIN db \/ db[r] # Arrivals[r]
          /\ db' = [q \in DOMAIN db \cup {r} |-> IF q = r THEN Arrivals[r] ELSE db[q]]
    /\ UNCHANGED <<calendar, coldStart, findings, labels, store, registry, training,
                   analysis,
                   report, strays, rivals>>

-----------------------------------------------------------------------------
(* The report request: two reads of the database, then the narrator. *)

(* History: the run that has findings of its rule engine and has not yet     *)
(* committed its calibration, 0 if there is none.                            *)
MidRun ==
    IF analysis.step \in {"idle", "rootcause"} \/ "rules" \in analysis.pending
    THEN 0 ELSE analysis.run

(* list_findings(status="open"); 404 where there is none.                    *)
RequestReport ==
    /\ report.step = "idle"
    /\ report.requests < MaxReports /\ Room
    /\ LET open == {f \in findings : f.status = "open"}
       IN  /\ open # {}
           /\ report' = [report EXCEPT
                !.requests = @ + 1, !.step = "scenarios", !.open = open, !.midRun = MidRun]
    /\ UNCHANGED <<db, calendar, coldStart, findings, labels, store, registry, training, analysis,
                   strays, rivals>>

(* generate_scenarios() reads findings and readings of its own; then         *)
(* Narrator.generate(): the message, the model's two attempts, the fallback. *)
Replies ==
    LET Reply(outcome, actions, scenarios) ==
            [outcome |-> outcome, actions |-> actions,
             incidents |-> {s.model : s \in {t \in scenarios : t.status = "rejected"}}]
        made == GenerateScenarios(db, findings)
    IN  IF ~MessageBuilds(report.open) THEN {Reply("raised", {}, {})}
        ELSE {Reply("llm", {}, s) : s \in made}
                \cup {Reply("fallback", Fallback(report.open, s, lead), s) :
                        s \in made, lead \in Leads(report.open)}

(* The incidents of rejected scenarios are committed when the handler        *)
(* returns, and rolled back when it raises.                                  *)
FinishReport ==
    /\ report.step = "scenarios"
    /\ \E reply \in Replies :
          report' = [report EXCEPT !.step = "idle", !.open = {}, !.midRun = 0,
                                   !.incidents = @ \cup reply.incidents]
    /\ UNCHANGED <<db, calendar, coldStart, findings, labels, store, registry, training, analysis,
                   strays, rivals>>

-----------------------------------------------------------------------------
Activity ==
    \/ RuleEngineActivity \/ StlDetectionActivity \/ FeatureAssemblyActivity
    \/ MlEnsembleActivity \/ SelectUncalibrated \/ SaveCalibrated \/ RootCauseActivity

Stray == BeginStray \/ StrayRuleEngine \/ StrayCalibration

Training == StartTraining \/ SkipMember \/ StartRun \/ FinishRun \/ CrashRun

Next ==
    \/ StartAnalysis \/ Activity \/ Stray \/ Training
    \/ LabelFinding \/ ClearColdStart \/ ReadingArrives
    \/ RequestReport \/ FinishReport

(* A Temporal worker polls for as long as the service runs: while the run    *)
(* has an activity that can succeed, one is eventually executed.             *)
Fairness == WF_vars(Activity)

Spec == Init /\ [][Next]_vars /\ Fairness

-----------------------------------------------------------------------------
(* Properties. *)

(* Every stored value is one the columns accept, and every record passes the *)
(* validators of its class, which would make an activity raise: residuals,   *)
(* feature rows, bands and explainability bundles (models.py).               *)
TypeOK ==
    /\ DOMAIN db \subseteq Row /\ \A r \in DOMAIN db : db[r] \in Readings
    /\ DOMAIN store \subseteq DOMAIN db /\ \A r \in DOMAIN store : IsFeatureSet(store[r])
    /\ \A r \in DOMAIN analysis.stl : analysis.stl[r] \in ResidualResults
    /\ coldStart \in BOOLEAN
    /\ \A i \in DOMAIN labels : labels[i] \in {"confirmed", "dismissed"}
    /\ analysis.step \in {"idle", "detect", "assembly", "ensemble", "calibration", "saving",
                          "rootcause"}
    /\ training.step \in {"idle"} \cup Members
    /\ report.step \in {"idle", "scenarios"}
    /\ \A f \in findings :
          /\ f.row \in Row /\ f.run \in 0..analysis.run
          /\ f.status \in {"open", "confirmed", "dismissed"}
          /\ f.confidence \in 0..100 \cup {None}
          /\ IsBundle(f)

(* The rule indicators of a feature row are the rules that hold of that very *)
(* circuit and hour in the readings the rule engine saw, although two        *)
(* activities read the table apart and meet only through a merge by          *)
(* circuit and timestamp (feature_assembly.py, assemble).                    *)
FiresMatchReadings ==
    analysis.step \in {"ensemble", "calibration", "saving", "rootcause"} =>
        \A r \in DOMAIN analysis.features :
            analysis.features[r].fires =
                {id \in RuleIds :
                    /\ r \in Readable(analysis.read)
                    /\ MatchesAppliesTo(Rules[id], r.circuit)
                    /\ EvaluateCondition(Rules[id], r.ts, analysis.read[r].kwh)}

(* No finding of the ensemble is about an hour whose day-type cohort was too *)
(* short to decompose: such rows are low quality from the decomposition on,  *)
(* through the feature row and both members (ensemble_serving.py).           *)
LowQualityNeverAccused ==
    \A f \in findings :
        (f.layer = "ml_ensemble" /\ f.run = analysis.run /\ f.row \in DOMAIN analysis.stl) =>
            ~analysis.stl[f.row].low

(* Scoring and attribution load the forest each on their own, and between    *)
(* them a second training may start, finish or crash: the forest that        *)
(* explains a finding may be another than the one that scored its row, but   *)
(* it is complete and never older (analysis_stubs.py).                       *)
ExplainerNeverOlder ==
    \A f \in findings :
        f.layer = "ml_ensemble" =>
            /\ f.model >= f.scorer
            /\ f.model \in 1..Len(registry["isolation_forest"])
            /\ registry["isolation_forest"][f.model].ready

(* A band narrower than [0, 1] is earned: the building has left cold start   *)
(* and reviewers gave enough labels, of both kinds (calibration service.py). *)
NarrowBandsEarned ==
    \A f \in findings :
        f.band \notin {None, WideBand} =>
            /\ ~coldStart
            /\ Len(labels) >= MinLabels
            /\ ToSet(labels) = {"confirmed", "dismissed"}

(* The narrator "never raises", which holds only of findings that have a     *)
(* band.  Whoever fails to get a report has asked for it while the run whose *)
(* finding it read was between its rule engine and its calibration, or has   *)
(* read a finding of a stray attempt (prompt_builder.py).                    *)
ReportsRaiseOnlyMidRun ==
    report.step = "scenarios" =>
        \A reply \in Replies :
            reply.outcome = "raised" =>
                \E f \in report.open : f.band = None /\ f.run \in {0, report.midRun}

(* An action of a fallback report rests on findings nobody has dismissed     *)
(* when the scenarios are made, recommends no panels that take more than ten *)
(* years to repay, and carries the confidence of a finding it cites if one   *)
(* was open (fallback.py), though report and scenarios read findings apart.  *)
ReportsJustified ==
    report.step = "scenarios" =>
        \A reply \in Replies : \A a \in reply.actions :
            /\ a.cites # {}
            /\ a.model # "investigate" =>
                    \A f \in findings : f.id \in a.cites => f.status # "dismissed"
            /\ a.payback <= 1200
            /\ (\E f \in report.open : f.id \in a.cites) => a.note \in a.cites

(* A finding is never lost, and its band, once given, is final for all runs  *)
(* that follow: whatever overwrites it is an attempt that had picked the     *)
(* finding up before it had a band, and does so once (calibration            *)
(* repository.py, whose UPDATE does not look again).                         *)
OnlyRivalsRewrite ==
    [][\A f \in findings : \E g \in findings' :
            /\ g.id = f.id
            /\ (f.band # None /\ g.band # f.band) =>
                    \E a \in Attempts : <<f.id, a>> \in rivals \ rivals']_vars

(* Every analysis run ends, with models or without, whatever is trained,     *)
(* stored or labelled meanwhile, unless some cohort of readings has no value *)
(* at all and the decomposition is retried for ever (analysis_pipeline.py).  *)
RunsEnd ==
    analysis.step # "idle" ~>
        \/ analysis.step = "idle"
        \/ "stl" \in analysis.pending /\ FitRaises(db, calendar)
=============================================================================

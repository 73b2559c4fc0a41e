------------------------ MODULE AnalysisPipeline_proofs ------------------------
(* What holds of the analysis pipeline for any number of runs of a building, *)
(* any data and any number of lost and timed-out attempts: the types, the    *)
(* bound on the copies of a finding, that findings are calibrated before     *)
(* they are presented, and the contract with the starter of a run.           *)
EXTENDS AnalysisPipeline, FiniteSetTheorems, FunctionTheorems, TLAPS

USE DataAssumption, FailureBoundsAssumption

-----------------------------------------------------------------------------
(* The inductive invariant *)

Typed == TypeOK /\ IsFiniteSet(findings)

\* The activities a run has not started at step s.
Ahead(s) ==
    CASE s \in {"data_quality_gate", "failed"} -> Activities \ {"data_quality_gate"}
      [] s = "rule_engine_and_stl_detection" ->
            {"feature_assembly", "ml_ensemble", "confidence_calibration",
             "root_cause_attribution", "optimization"}
      [] s = "feature_assembly" ->
            {"ml_ensemble", "confidence_calibration", "root_cause_attribution", "optimization"}
      [] s = "ml_ensemble" ->
            {"confidence_calibration", "root_cause_attribution", "optimization"}
      [] s = "confidence_calibration" -> {"root_cause_attribution", "optimization"}
      [] s = "root_cause_attribution" -> {"optimization"}
      [] OTHER -> {}

\* Attempts belong to the step the run is at, and no activity starts twice.
TasksInOrder ==
    \A r \in Runs : \A a \in Activities :
        /\ task[r][a] \in {"running", "effected"} => a \in Awaited(step[r])
        /\ task[r][a] = "unstarted" <=> a \in Ahead(step[r])

LateBegun ==
    \A r \in Runs : \A a \in Activities :
        <<r, a>> \in late => task[r][a] # "unstarted" /\ timeouts > 0

FindingsBegun == \A f \in findings : task[f.run]["rule_engine"] # "unstarted"

PastCalibration(r) ==
    \/ step[r] \in {"root_cause_attribution", "optimization",
                    "waiting_for_human_review", "completed"}
    \/ /\ step[r] = "confidence_calibration"
       /\ task[r]["confidence_calibration"] \in {"effected", "reported"}

CalibratedInv ==
    timeouts = 0 => \A f \in findings : PastCalibration(f.run) => f.calibrated = TRUE

Rows(S, r, d) == {f \in S : f.run = r /\ f.about = d}

Inserter(d) == IF d \in RuleFires THEN "rule_engine" ELSE "root_cause_attribution"

\* Attempts that have inserted and are not counted as lost or timed out.
Inserted(r, a) == IF task[r][a] \in {"effected", "reported"} THEN 1 ELSE 0

\* Attempts counted as timed out that have not inserted yet.
Owing(r, a) == IF <<r, a>> \in late THEN 1 ELSE 0

CopiesInv ==
    \A r \in Runs : \A d \in RuleFires \cup Anomalies :
        Copies(r, d) <= lost + timeouts - Owing(r, Inserter(d)) + Inserted(r, Inserter(d))

-----------------------------------------------------------------------------
(* How the findings change *)

CalibratedRows == {[f EXCEPT !.calibrated = TRUE] : f \in findings}

\* What an attempt of activity a of run r, late or not, does to the findings.
Change(r, a) ==
    \/ findings' = findings
    \/ a = "rule_engine" /\ findings' = findings \cup NewFindings(r, RuleFires, FALSE)
    \/ a = "confidence_calibration" /\ findings' = CalibratedRows
    \/ /\ a = "root_cause_attribution"
       /\ findings' = findings \cup NewFindings(r, output[r].bands, TRUE)

LEMMA AttemptChanges ==
    ASSUME NEW r \in Runs, NEW a \in Activities, Attempt(r, a) \/ LateAttempt(r, a)
    PROVE  Change(r, a)
  <1>1. Attributed(r) \in {{}, NewFindings(r, output[r].bands, TRUE)}
    BY DEF Attributed
  <1>2. CASE Attempt(r, a)
    BY <1>1, <1>2 DEF Attempt, Effect, RuleEngine, MLEnsemble, Calibrate, Attribute, Optimize,
                      Change, CalibratedRows
  <1>3. CASE LateAttempt(r, a)
    BY <1>1, <1>3 DEF LateAttempt, Change, CalibratedRows
  <1>4. QED
    BY <1>2, <1>3

LEMMA RowsFinite ==
    ASSUME NEW S, IsFiniteSet(S), NEW r, NEW d
    PROVE  IsFiniteSet(Rows(S, r, d)) /\ Cardinality(Rows(S, r, d)) \in Nat
  <1>1. Rows(S, r, d) \subseteq S
    BY DEF Rows
  <1>2. QED
    BY <1>1, FS_Subset, FS_CardinalityType

LEMMA CopiesNat ==
    ASSUME IsFiniteSet(findings), NEW r, NEW d
    PROVE  Copies(r, d) = Cardinality(Rows(findings, r, d)) /\ Copies(r, d) \in Nat
  <1>1. Copies(r, d) = Cardinality(Rows(findings, r, d))
    BY DEF Copies, Rows
  <1>2. QED
    BY <1>1, RowsFinite

LEMMA NewFindingsType ==
    ASSUME IsFiniteSet(findings), NEW r \in Runs,
           NEW D \in SUBSET (RuleFires \cup Anomalies), NEW c \in BOOLEAN
    PROVE  NewFindings(r, D, c) \subseteq Finding /\ IsFiniteSet(NewFindings(r, D, c))
  <1>1. \A d \in D : Copies(r, d) + 1 \in Nat \ {0}
    BY CopiesNat
  <1>2. NewFindings(r, D, c) \subseteq Finding
    BY <1>1 DEF NewFindings, Finding
  <1>3. IsFiniteSet(D)
    BY FS_Union, FS_Subset
  <1> DEFINE g == [d \in D |-> [run |-> r, about |-> d, copy |-> Copies(r, d) + 1,
                                calibrated |-> c, status |-> "open"]]
  <1>4. g \in Surjection(D, NewFindings(r, D, c))
    BY DEF NewFindings, Surjection
  <1>5. QED
    BY <1>2, <1>3, <1>4, FS_Surjection

LEMMA CalibratedType ==
    ASSUME TypeOK, IsFiniteSet(findings)
    PROVE  CalibratedRows \subseteq Finding /\ IsFiniteSet(CalibratedRows)
  <1>1. CalibratedRows \subseteq Finding
    BY DEF CalibratedRows, Finding, TypeOK
  <1> DEFINE g == [f \in findings |-> [f EXCEPT !.calibrated = TRUE]]
  <1>2. g \in Surjection(findings, CalibratedRows)
    BY DEF CalibratedRows, Surjection
  <1>3. QED
    BY <1>1, <1>2, FS_Surjection

LEMMA ChangeType ==
    ASSUME TypeOK, IsFiniteSet(findings), NEW r \in Runs, NEW a \in Activities, Change(r, a)
    PROVE  findings' \subseteq Finding /\ IsFiniteSet(findings')
  <1>1. output[r].bands \in SUBSET (RuleFires \cup Anomalies)
    BY DEF TypeOK, Output
  <1>2. /\ NewFindings(r, RuleFires, FALSE) \subseteq Finding
        /\ IsFiniteSet(NewFindings(r, RuleFires, FALSE))
    BY NewFindingsType
  <1>3. /\ NewFindings(r, output[r].bands, TRUE) \subseteq Finding
        /\ IsFiniteSet(NewFindings(r, output[r].bands, TRUE))
    BY <1>1, NewFindingsType
  <1>4. findings \subseteq Finding
    BY DEF TypeOK
  <1>5. QED
    BY <1>2, <1>3, <1>4, CalibratedType, FS_Union DEF Change

LEMMA DismissType ==
    ASSUME TypeOK, IsFiniteSet(findings), Dismiss
    PROVE  findings' \subseteq Finding /\ IsFiniteSet(findings')
  <1>1. PICK f \in findings :
            findings' = (findings \ {f}) \cup {[f EXCEPT !.status = "dismissed"]}
    BY DEF Dismiss
  <1>2. [f EXCEPT !.status = "dismissed"] \in Finding
    BY DEF TypeOK, Finding
  <1>3. IsFiniteSet(findings \ {f})
    BY FS_RemoveElement
  <1>4. QED
    BY <1>1, <1>2, <1>3, FS_AddElement DEF TypeOK

-----------------------------------------------------------------------------
(* Types *)

LEMMA TypedInit == Init => Typed
  BY FS_EmptySet DEF Init, Typed, TypeOK, Output, Steps, Activities, Detection

LEMMA OutputUpdated ==
    ASSUME TypeOK, NEW r \in Runs, NEW X \in SUBSET Anomalies, NEW Y \in SUBSET Finding
    PROVE  /\ [output EXCEPT ![r].scores = X] \in [Runs -> Output]
           /\ [output EXCEPT ![r].bands = X] \in [Runs -> Output]
           /\ [output EXCEPT ![r].persisted = Y] \in [Runs -> Output]
           /\ [output EXCEPT ![r].cited = Y] \in [Runs -> Output]
  BY DEF TypeOK, Output

LEMMA AttemptOutput ==
    ASSUME Typed, NEW r \in Runs, NEW a \in Activities, Attempt(r, a)
    PROVE  output' \in [Runs -> Output]
  <1>1. Attributed(r) \in SUBSET Finding
    <2>1. output[r].bands \in SUBSET (RuleFires \cup Anomalies)
      BY DEF Typed, TypeOK, Output
    <2>2. QED
      BY <2>1, NewFindingsType DEF Attributed, Typed
  <1>2. ASSUME MLEnsemble(r)
        PROVE  output' \in [Runs -> Output]
    <2>1. PICK flagged \in SUBSET Anomalies : output' = [output EXCEPT ![r].scores = flagged]
      BY <1>2 DEF MLEnsemble
    <2>2. QED
      BY <2>1, OutputUpdated DEF Typed
  <1>3. ASSUME Calibrate(r)
        PROVE  output' \in [Runs -> Output]
    <2>1. output[r].scores \in SUBSET Anomalies
      BY DEF Typed, TypeOK, Output
    <2>2. QED
      BY <1>3, <2>1, OutputUpdated DEF Calibrate, Typed
  <1>4. ASSUME Attribute(r)
        PROVE  output' \in [Runs -> Output]
    BY <1>1, <1>4, OutputUpdated DEF Attribute, Typed
  <1>5. ASSUME Optimize(r)
        PROVE  output' \in [Runs -> Output]
    <2>1. {f \in findings : f.status # "dismissed"} \in SUBSET Finding
      BY DEF Typed, TypeOK
    <2>2. QED
      BY <1>5, <2>1, OutputUpdated DEF Optimize, Typed
  <1>6. \/ output' = output
        \/ MLEnsemble(r) \/ Calibrate(r) \/ Attribute(r) \/ Optimize(r)
    BY DEF Attempt, Effect, RuleEngine
  <1>7. QED
    BY <1>2, <1>3, <1>4, <1>5, <1>6 DEF Typed, TypeOK

LEMMA MovedType ==
    ASSUME Typed, NEW r \in Runs, Moved(r)
    PROVE  /\ step' \in [Runs -> Steps]
           /\ task' \in [Runs -> [Activities -> {"unstarted", "running", "effected", "reported"}]]
  <1>1. step[r] \in DOMAIN NextStep
    BY DEF Moved, Awaited, Typed, TypeOK, Steps, Activities, Detection, NextStep
  <1>2. NextStep[step[r]] \in Steps
    BY <1>1 DEF NextStep, Steps, Activities, Detection
  <1>3. QED
    BY <1>2 DEF Moved, Typed, TypeOK

LEMMA TypedStep ==
    ASSUME Typed, [Next]_vars
    PROVE  Typed'
  <1>1. ASSUME NEW r \in Runs, NEW a \in Activities, Attempt(r, a)
        PROVE  Typed'
    BY <1>1, AttemptChanges, ChangeType, AttemptOutput DEF Attempt, Typed, TypeOK
  <1>2. ASSUME NEW r \in Runs, NEW a \in Activities, LateAttempt(r, a)
        PROVE  Typed'
    <2>1. findings' \subseteq Finding /\ IsFiniteSet(findings')
      BY <1>2, AttemptChanges, ChangeType DEF Typed
    <2>2. /\ UNCHANGED <<step, task, output, signalled, models, lost, timeouts>>
          /\ late' \subseteq late
      BY <1>2 DEF LateAttempt
    <2>3. QED
      BY <2>1, <2>2 DEF Typed, TypeOK
  <1>3. ASSUME NEW r \in Runs, NEW a \in Activities,
               Report(r, a) \/ LoseAttempt(r, a) \/ TimeOut(r, a)
        PROVE  Typed'
    <2>1. UNCHANGED <<step, output, signalled, findings, models>>
      BY <1>3 DEF Report, LoseAttempt, TimeOut
    <2>2. task' \in [Runs -> [Activities -> {"unstarted", "running", "effected", "reported"}]]
      <3>1. task \in [Runs -> [Activities -> {"unstarted", "running", "effected", "reported"}]]
        BY DEF Typed, TypeOK
      <3>2. \/ task' = [task EXCEPT ![r][a] = "reported"]
            \/ task' = [task EXCEPT ![r][a] = "running"]
            \/ task' = task
        BY <1>3 DEF Report, LoseAttempt, TimeOut
      <3>3. QED
        BY <1>3, <3>1, <3>2
    <2>3. late' \subseteq Runs \X Activities /\ lost' \in Nat /\ timeouts' \in Nat
      <3>1. late \subseteq Runs \X Activities /\ lost \in Nat /\ timeouts \in Nat
        BY DEF Typed, TypeOK
      <3>2. /\ late' = late \/ late' = late \cup {<<r, a>>}
            /\ lost' = lost \/ lost' = lost + 1
            /\ timeouts' = timeouts \/ timeouts' = timeouts + 1
        BY <1>3 DEF Report, LoseAttempt, TimeOut
      <3>3. QED
        BY <1>3, <3>1, <3>2
    <2>4. QED
      BY <2>1, <2>2, <2>3 DEF Typed, TypeOK
  <1>4. ASSUME NEW r \in Runs, GateRejects(r)
        PROVE  Typed'
    BY <1>4 DEF GateRejects, Typed, TypeOK, Steps
  <1>5. ASSUME NEW r \in Runs, Advance(r)
        PROVE  Typed'
    BY <1>5, MovedType DEF Advance, Typed, TypeOK
  <1>6. ASSUME NEW r \in Runs, Complete(r) \/ HumanReviewCompleted(r)
        PROVE  Typed'
    BY <1>6 DEF Complete, HumanReviewCompleted, Typed, TypeOK, Steps
  <1>7. CASE ModelTrained
    BY <1>7 DEF ModelTrained, Typed, TypeOK
  <1>8. CASE Dismiss
    BY <1>8, DismissType DEF Dismiss, Typed, TypeOK
  <1>9. CASE UNCHANGED vars
    BY <1>9 DEF vars, Typed, TypeOK
  <1>10. QED
    BY <1>1, <1>2, <1>3, <1>4, <1>5, <1>6, <1>7, <1>8, <1>9 DEF Next, RunStep

\* The variables keep their types, for any runs, data and bounds.
THEOREM PipelineTypes == Spec => []TypeOK
  <1>1. Typed => TypeOK
    BY DEF Typed
  <1>2. QED
    BY <1>1, TypedInit, TypedStep, PTL DEF Spec

-----------------------------------------------------------------------------
(* The order of activities *)

LEMMA AwaitedAtGate ==
    ASSUME NEW s \in Steps, "data_quality_gate" \in Awaited(s)
    PROVE  s = "data_quality_gate"
  BY DEF Awaited, Steps, Detection

\* Each step starts activities that were ahead, and no others.
LEMMA NextStepOrder ==
    ASSUME NEW s \in Steps, Awaited(s) # {}
    PROVE  /\ s \in DOMAIN NextStep /\ NextStep[s] \in Steps
           /\ Awaited(NextStep[s]) \subseteq Ahead(s)
           /\ Ahead(NextStep[s]) = Ahead(s) \ Awaited(NextStep[s])
  <1>1. s \in {"data_quality_gate", "rule_engine_and_stl_detection", "feature_assembly",
               "ml_ensemble", "confidence_calibration", "root_cause_attribution", "optimization"}
    BY DEF Steps, Awaited, Activities, Detection
  <1>2. CASE s = "data_quality_gate"
    BY <1>2 DEF NextStep, Steps, Awaited, Ahead, Activities, Detection
  <1>3. CASE s = "rule_engine_and_stl_detection"
    BY <1>3 DEF NextStep, Steps, Awaited, Ahead, Activities, Detection
  <1>4. CASE s = "feature_assembly"
    BY <1>4 DEF NextStep, Steps, Awaited, Ahead, Activities, Detection
  <1>5. CASE s = "ml_ensemble"
    BY <1>5 DEF NextStep, Steps, Awaited, Ahead, Activities, Detection
  <1>6. CASE s = "confidence_calibration"
    BY <1>6 DEF NextStep, Steps, Awaited, Ahead, Activities, Detection
  <1>7. CASE s = "root_cause_attribution"
    BY <1>7 DEF NextStep, Steps, Awaited, Ahead, Activities, Detection
  <1>8. CASE s = "optimization"
    BY <1>8 DEF NextStep, Steps, Awaited, Ahead, Activities, Detection
  <1>9. QED
    BY <1>1, <1>2, <1>3, <1>4, <1>5, <1>6, <1>7, <1>8

LEMMA OrderInit == Init => TasksInOrder
  <1>1. /\ Awaited("data_quality_gate") = {"data_quality_gate"}
        /\ Ahead("data_quality_gate") = Activities \ {"data_quality_gate"}
    BY DEF Awaited, Ahead, Activities, Detection
  <1>2. QED
    BY <1>1 DEF Init, TasksInOrder

LEMMA OrderStep ==
    ASSUME Typed, TasksInOrder, [Next]_vars
    PROVE  TasksInOrder'
  <1>1. ASSUME NEW r \in Runs, NEW a \in Activities,
               Attempt(r, a) \/ Report(r, a) \/ LoseAttempt(r, a)
        PROVE  TasksInOrder'
    <2>1. /\ step' = step /\ task[r][a] \in {"running", "effected"}
          /\ \E t \in {"running", "effected", "reported"} : task' = [task EXCEPT ![r][a] = t]
      BY <1>1 DEF Attempt, Report, LoseAttempt
    <2>2. QED
      BY <2>1 DEF TasksInOrder, Typed, TypeOK
  <1>2. ASSUME NEW r \in Runs, GateRejects(r)
        PROVE  TasksInOrder'
    <2>1. /\ task[r]["data_quality_gate"] = "running"
          /\ task' = [task EXCEPT ![r]["data_quality_gate"] = "reported"]
          /\ step' = [step EXCEPT ![r] = "failed"]
      BY <1>2 DEF GateRejects
    <2>2. "data_quality_gate" \in Activities
      BY DEF Activities
    <2>3. step[r] = "data_quality_gate"
      BY <2>1, <2>2, AwaitedAtGate DEF TasksInOrder, Typed, TypeOK
    <2>4. Awaited("data_quality_gate") = {"data_quality_gate"}
      BY DEF Awaited, Activities, Detection
    <2>5. Ahead("failed") = Ahead("data_quality_gate")
      BY DEF Ahead
    <2>6. "data_quality_gate" \notin Ahead("data_quality_gate")
      BY DEF Ahead
    <2>7. QED
      BY <2>1, <2>2, <2>3, <2>4, <2>5, <2>6 DEF TasksInOrder, Typed, TypeOK
  <1>3. ASSUME NEW r \in Runs, Advance(r)
        PROVE  TasksInOrder'
    <2> DEFINE next == NextStep[step[r]]
    <2>1. /\ step[r] \in Steps /\ Awaited(step[r]) # {}
          /\ \A a \in Awaited(step[r]) : task[r][a] = "reported"
          /\ step' = [step EXCEPT ![r] = next]
          /\ task' = [task EXCEPT ![r] = [a \in Activities |->
                 IF a \in Awaited(next) THEN "running" ELSE task[r][a]]]
      BY <1>3 DEF Advance, Moved, Typed, TypeOK
    <2>2. /\ Awaited(next) \subseteq Ahead(step[r])
          /\ Ahead(next) = Ahead(step[r]) \ Awaited(next)
      BY <2>1, NextStepOrder
    <2>3. \A a \in Activities : task[r][a] \notin {"running", "effected"}
      BY <2>1 DEF TasksInOrder
    <2> HIDE DEF next
    <2>4. QED
      BY <2>1, <2>2, <2>3 DEF TasksInOrder, Typed, TypeOK
  <1>4. ASSUME NEW r \in Runs, Complete(r)
        PROVE  TasksInOrder'
    <2>1. /\ task' = task /\ step[r] = "waiting_for_human_review"
          /\ step' = [step EXCEPT ![r] = "completed"]
      BY <1>4 DEF Complete
    <2>2. /\ Awaited("waiting_for_human_review") = {} /\ Awaited("completed") = {}
          /\ Ahead("waiting_for_human_review") = {} /\ Ahead("completed") = {}
      BY DEF Awaited, Ahead, Activities, Detection
    <2>3. QED
      BY <2>1, <2>2 DEF TasksInOrder, Typed, TypeOK
  <1>5. CASE UNCHANGED <<step, task>>
    BY <1>5 DEF TasksInOrder
  <1>6. QED
    BY <1>1, <1>2, <1>3, <1>4, <1>5
    DEF Next, RunStep, HumanReviewCompleted, TimeOut, LateAttempt, ModelTrained, Dismiss, vars

\* An activity once started stays so, and only a timeout leaves attempts behind.
LEMMA StartedStays ==
    ASSUME Typed, TasksInOrder, [Next]_vars, NEW r \in Runs, NEW a \in Activities,
           task[r][a] # "unstarted"
    PROVE  task'[r][a] # "unstarted"
  <1>1. ASSUME NEW q \in Runs, NEW b \in Activities,
               Attempt(q, b) \/ Report(q, b) \/ LoseAttempt(q, b)
        PROVE  task'[r][a] # "unstarted"
    <2>1. \E t \in {"running", "effected", "reported"} : task' = [task EXCEPT ![q][b] = t]
      BY <1>1 DEF Attempt, Report, LoseAttempt
    <2>2. QED
      BY <2>1 DEF Typed, TypeOK
  <1>2. ASSUME NEW q \in Runs, GateRejects(q) \/ Advance(q)
        PROVE  task'[r][a] # "unstarted"
    BY <1>2 DEF GateRejects, Advance, Moved, Typed, TypeOK
  <1>3. CASE UNCHANGED task
    BY <1>3
  <1>4. QED
    BY <1>1, <1>2, <1>3
    DEF Next, RunStep, HumanReviewCompleted, TimeOut, LateAttempt, ModelTrained, Dismiss,
        Complete, vars

LEMMA LateInit == Init => LateBegun /\ FindingsBegun
  BY DEF Init, LateBegun, FindingsBegun

LEMMA LateStep ==
    ASSUME Typed, TasksInOrder, LateBegun, [Next]_vars
    PROVE  LateBegun'
  <1>1. timeouts' \in Nat /\ timeouts <= timeouts'
    <2>1. timeouts' = timeouts \/ timeouts' = timeouts + 1
      BY DEF Next, RunStep, HumanReviewCompleted, TimeOut, LateAttempt, ModelTrained, Dismiss,
             Complete, GateRejects, Advance, Attempt, Report, LoseAttempt, vars
    <2>2. QED
      BY <2>1 DEF Typed, TypeOK
  <1>2. ASSUME NEW r \in Runs, NEW a \in Activities, <<r, a>> \in late', <<r, a>> \notin late
        PROVE  task[r][a] # "unstarted" /\ timeouts' > 0
    <2>1. TimeOut(r, a)
      <3>1. \E q \in Runs : \E b \in Activities : TimeOut(q, b)
        BY <1>2 DEF Next, RunStep, HumanReviewCompleted, LateAttempt, ModelTrained, Dismiss,
           Complete, GateRejects, Advance, Attempt, Report, LoseAttempt, vars
      <3>2. QED
        BY <1>2, <3>1 DEF TimeOut
    <2>2. QED
      BY <2>1 DEF TimeOut, Typed, TypeOK
  <1>3. QED
    BY <1>1, <1>2, StartedStays DEF LateBegun, Typed, TypeOK

LEMMA CalibratedRowsOf ==
    ASSUME Typed, NEW f \in CalibratedRows
    PROVE  /\ f.calibrated = TRUE
           /\ \E g \in findings : f.run = g.run /\ f.about = g.about /\ f.copy = g.copy
  BY DEF CalibratedRows, Typed, TypeOK, Finding

\* Dismissing changes nothing but the status of a finding.
LEMMA DismissedRows ==
    ASSUME Typed, Dismiss, NEW f \in findings'
    PROVE  \E g \in findings : /\ f.run = g.run /\ f.about = g.about /\ f.copy = g.copy
                               /\ f.calibrated = g.calibrated
  BY DEF Dismiss, Typed, TypeOK, Finding

\* Whatever an attempt inserts belongs to its run, and the run has begun by then.
LEMMA AttemptBegun ==
    ASSUME Typed, TasksInOrder, LateBegun, NEW r \in Runs, NEW a \in Activities,
           Attempt(r, a) \/ LateAttempt(r, a)
    PROVE  task[r][a] # "unstarted"
  BY DEF Attempt, LateAttempt, LateBegun

LEMMA RuleEngineFirst ==
    ASSUME TasksInOrder, Typed, NEW r \in Runs,
           task[r]["root_cause_attribution"] # "unstarted"
    PROVE  task[r]["rule_engine"] # "unstarted"
  <1>1. {"rule_engine", "root_cause_attribution"} \subseteq Activities
    BY DEF Activities, Detection
  <1>2. "root_cause_attribution" \notin Ahead(step[r])
    BY <1>1 DEF TasksInOrder
  <1>3. "rule_engine" \notin Ahead(step[r])
    BY <1>2 DEF Ahead, Activities, Detection
  <1>4. QED
    BY <1>1, <1>3 DEF TasksInOrder

LEMMA FindingsBegunStep ==
    ASSUME Typed, Typed', TasksInOrder, LateBegun, FindingsBegun, [Next]_vars
    PROVE  FindingsBegun'
  <1>0. "rule_engine" \in Activities
    BY DEF Activities
  <1>1. SUFFICES ASSUME NEW f \in findings'
                 PROVE  task[f.run]["rule_engine"] # "unstarted"
    BY <1>0, StartedStays DEF FindingsBegun, Typed, TypeOK, Finding
  <1>2. ASSUME NEW r \in Runs, NEW a \in Activities, Attempt(r, a) \/ LateAttempt(r, a)
        PROVE  task[f.run]["rule_engine"] # "unstarted"
    <2>1. task[r][a] # "unstarted" /\ Change(r, a)
      BY <1>2, AttemptBegun, AttemptChanges
    <2>2. CASE f \in findings
      BY <2>2 DEF FindingsBegun
    <2>3. CASE a = "rule_engine" /\ f \in NewFindings(r, RuleFires, FALSE)
      BY <2>1, <2>3 DEF NewFindings
    <2>4. CASE f \in CalibratedRows
      BY <2>4, CalibratedRowsOf DEF FindingsBegun
    <2>5. CASE a = "root_cause_attribution" /\ f \in NewFindings(r, output[r].bands, TRUE)
      <3>1. f.run = r
        BY <2>5 DEF NewFindings
      <3>2. task[r]["rule_engine"] # "unstarted"
        BY <2>1, <2>5, RuleEngineFirst
      <3>3. QED
        BY <3>1, <3>2
    <2>6. QED
      BY <1>1, <2>1, <2>2, <2>3, <2>4, <2>5 DEF Change
  <1>3. CASE Dismiss
    BY <1>1, <1>3, DismissedRows DEF FindingsBegun
  <1>4. CASE UNCHANGED findings
    BY <1>1, <1>4 DEF FindingsBegun
  <1>5. QED
    BY <1>2, <1>3, <1>4
    DEF Next, RunStep, HumanReviewCompleted, TimeOut, LoseAttempt, Report, ModelTrained,
        GateRejects, Advance, Complete, vars

-----------------------------------------------------------------------------
(* Calibration before review *)

LEMMA CalibratedInit == Init => CalibratedInv
  BY DEF Init, CalibratedInv

LEMMA AwaitedOnce ==
    ASSUME NEW s \in Steps
    PROVE  /\ "rule_engine" \in Awaited(s) => s = "rule_engine_and_stl_detection"
           /\ "confidence_calibration" \in Awaited(s) => s = "confidence_calibration"
  BY DEF Awaited, Steps, Activities, Detection

\* A run passes calibration only when its own attempt has had its effect.
LEMMA PassingCalibration ==
    ASSUME Typed, TasksInOrder, NEW r \in Runs, GateRejects(r) \/ Advance(r) \/ Complete(r),
           NEW q \in Runs, PastCalibration(q)'
    PROVE  PastCalibration(q)
  <1>1. CASE q # r
    BY <1>1 DEF GateRejects, Advance, Moved, Complete, PastCalibration, Typed, TypeOK
  <1>2. CASE q = r /\ GateRejects(r)
    BY <1>2 DEF GateRejects, PastCalibration, Typed, TypeOK
  <1>3. CASE q = r /\ Advance(r)
    <2> DEFINE next == NextStep[step[r]]
    <2>1. /\ step[r] \in Steps /\ Awaited(step[r]) # {}
          /\ \A a \in Awaited(step[r]) : task[r][a] = "reported"
          /\ step'[r] = next
          /\ \A a \in Activities : a \in Awaited(next) => task'[r][a] = "running"
      BY <1>3 DEF Advance, Moved, Typed, TypeOK
    <2>2. step[r] \in DOMAIN NextStep
      BY <2>1, NextStepOrder
    <2>3. next # "confidence_calibration"
      <3>1. "confidence_calibration" \in Activities
            /\ "confidence_calibration" \in Awaited("confidence_calibration")
        BY DEF Activities, Awaited
      <3>2. QED
        BY <1>3, <2>1, <3>1 DEF PastCalibration
    <2>4. next \in {"root_cause_attribution", "optimization", "waiting_for_human_review"}
      BY <1>3, <2>1, <2>2, <2>3 DEF PastCalibration, NextStep
    <2>5. step[r] \in {"confidence_calibration", "root_cause_attribution", "optimization"}
      BY <2>2, <2>4 DEF NextStep
    <2>6. step[r] = "confidence_calibration" => task[r]["confidence_calibration"] = "reported"
      BY <2>1 DEF Awaited, Activities
    <2>7. QED
      BY <1>3, <2>5, <2>6 DEF PastCalibration
  <1>4. CASE q = r /\ Complete(r)
    BY <1>4 DEF Complete, PastCalibration
  <1>5. QED
    BY <1>1, <1>2, <1>3, <1>4

LEMMA CalibratedStep ==
    ASSUME Typed, Typed', TasksInOrder, LateBegun, CalibratedInv, [Next]_vars
    PROVE  CalibratedInv'
  <1> SUFFICES ASSUME timeouts' = 0, NEW f \in findings', PastCalibration(f.run)'
               PROVE  f.calibrated = TRUE
    BY DEF CalibratedInv
  <1>0. f.run \in Runs /\ "confidence_calibration" \in Activities
    BY DEF Typed, TypeOK, Finding, Activities
  <1>1. timeouts = 0 /\ \A r \in Runs : \A a \in Activities : ~TimeOut(r, a)
    <2>1. timeouts' = timeouts \/ \E r \in Runs : \E a \in Activities : TimeOut(r, a)
      BY DEF Next, RunStep, HumanReviewCompleted, LateAttempt, ModelTrained, Dismiss,
             Complete, GateRejects, Advance, Attempt, Report, LoseAttempt, vars
    <2>2. QED
      BY <2>1 DEF TimeOut, Typed, TypeOK
  <1>2. \A g \in findings : PastCalibration(g.run) => g.calibrated = TRUE
    BY <1>1 DEF CalibratedInv
  <1>3. ASSUME NEW r \in Runs, NEW a \in Activities, Attempt(r, a)
        PROVE  f.calibrated = TRUE
    <2>1. CASE a = "confidence_calibration"
      <3>1. f \in CalibratedRows
        BY <1>3, <2>1 DEF Attempt, Effect, Calibrate, CalibratedRows
      <3>2. QED
        BY <3>1, CalibratedRowsOf
    <2>2. CASE a # "confidence_calibration"
      <3>1. PastCalibration(f.run)
        <4>1. task'[f.run]["confidence_calibration"] = task[f.run]["confidence_calibration"]
          BY <1>0, <1>3, <2>2 DEF Attempt, Typed, TypeOK
        <4>2. QED
          BY <1>3, <4>1 DEF Attempt, PastCalibration
      <3>2. CASE f \in findings
        BY <1>2, <3>1, <3>2
      <3>3. CASE a = "rule_engine" /\ f \in NewFindings(r, RuleFires, FALSE)
        <4>1. f.run = r
          BY <3>3 DEF NewFindings
        <4>2. "rule_engine" \in Awaited(step[r])
          BY <1>3, <3>3 DEF Attempt, TasksInOrder
        <4>3. step[r] = "rule_engine_and_stl_detection"
          BY <4>2, AwaitedOnce DEF Typed, TypeOK
        <4>4. QED
          BY <3>1, <4>1, <4>3 DEF PastCalibration
      <3>4. CASE f \in NewFindings(r, output[r].bands, TRUE)
        BY <3>4 DEF NewFindings
      <3>5. Change(r, a)
        BY <1>3, AttemptChanges
      <3>6. QED
        BY <2>2, <3>2, <3>3, <3>4, <3>5 DEF Change
    <2>3. QED
      BY <2>1, <2>2
  <1>4. ASSUME NEW r \in Runs, NEW a \in Activities, LateAttempt(r, a)
        PROVE  f.calibrated = TRUE
    BY <1>1, <1>4 DEF LateAttempt, LateBegun
  <1>5. ASSUME NEW r \in Runs, NEW a \in Activities, Report(r, a) \/ LoseAttempt(r, a)
        PROVE  f.calibrated = TRUE
    <2>1. /\ step' = step /\ findings' = findings /\ task[r][a] \in {"running", "effected"}
          /\ \/ task[r][a] = "effected" /\ task' = [task EXCEPT ![r][a] = "reported"]
             \/ task' = [task EXCEPT ![r][a] = "running"]
      BY <1>5 DEF Report, LoseAttempt
    <2>2. ASSUME NEW q \in Runs, NEW b \in Activities,
                 task'[q][b] \in {"effected", "reported"}
          PROVE  task[q][b] \in {"effected", "reported"}
      <3>1. CASE q = r /\ b = a
        BY <2>1, <2>2, <3>1 DEF Typed, TypeOK
      <3>2. CASE ~(q = r /\ b = a)
        BY <2>1, <2>2, <3>2 DEF Typed, TypeOK
      <3>3. QED
        BY <3>1, <3>2
    <2>3. PastCalibration(f.run)
      BY <1>0, <2>1, <2>2 DEF PastCalibration
    <2>4. QED
      BY <1>2, <2>1, <2>3
  <1>6. ASSUME NEW r \in Runs, GateRejects(r) \/ Advance(r) \/ Complete(r)
        PROVE  f.calibrated = TRUE
    <2>1. findings' = findings
      BY <1>6 DEF GateRejects, Advance, Complete
    <2>2. QED
      BY <1>0, <1>2, <1>6, <2>1, PassingCalibration
  <1>7. CASE Dismiss
    <2>1. PICK g \in findings : f.run = g.run /\ f.calibrated = g.calibrated
      BY <1>7, DismissedRows
    <2>2. PastCalibration(g.run)
      BY <1>7, <2>1 DEF Dismiss, PastCalibration
    <2>3. QED
      BY <1>2, <2>1, <2>2
  <1>8. CASE UNCHANGED <<step, task, findings>>
    BY <1>2, <1>8 DEF PastCalibration
  <1>9. QED
    BY <1>1, <1>3, <1>4, <1>5, <1>6, <1>7, <1>8
    DEF Next, RunStep, HumanReviewCompleted, ModelTrained, vars

\* However runs, lost attempts and reviews interleave, a run that has asked for
\* review has no finding without a confidence, unless an attempt timed out.
THEOREM ReviewsCalibrated == Spec => []CalibratedForReview
  <1> DEFINE I == Typed /\ TasksInOrder /\ LateBegun /\ CalibratedInv
  <1>1. Init => I
    BY TypedInit, OrderInit, LateInit, CalibratedInit
  <1>2. I /\ [Next]_vars => I'
    BY TypedStep, OrderStep, LateStep, CalibratedStep
  <1>3. I => CalibratedForReview
    BY DEF CalibratedInv, CalibratedForReview, PastCalibration
  <1>4. QED
    BY <1>1, <1>2, <1>3, PTL DEF Spec

-----------------------------------------------------------------------------
(* Copies of a finding *)

\* How the copies of d of run r compare in findings S with those of the state.
OneMore(S, r, d) == Cardinality(Rows(S, r, d)) <= Copies(r, d) + 1
NoneMore(S, r, d) == Cardinality(Rows(S, r, d)) = Copies(r, d)

LEMMA RowsAfterInsert ==
    ASSUME Typed, NEW q \in Runs, NEW D \in SUBSET (RuleFires \cup Anomalies),
           NEW c \in BOOLEAN, NEW r \in Runs, NEW d
    PROVE  /\ OneMore(findings \cup NewFindings(q, D, c), r, d)
           /\ r # q \/ d \notin D => NoneMore(findings \cup NewFindings(q, D, c), r, d)
  <1> DEFINE S == findings \cup NewFindings(q, D, c)
  <1>1. IsFiniteSet(Rows(findings, r, d)) /\ Copies(r, d) = Cardinality(Rows(findings, r, d))
        /\ Copies(r, d) \in Nat
    BY RowsFinite, CopiesNat DEF Typed
  <1>2. CASE r # q \/ d \notin D
    <2>1. Rows(S, r, d) = Rows(findings, r, d)
      BY <1>2 DEF Rows, NewFindings
    <2>2. QED
      BY <1>1, <2>1 DEF OneMore, NoneMore
  <1>3. CASE r = q /\ d \in D
    <2> DEFINE new == [run |-> r, about |-> d, copy |-> Copies(r, d) + 1,
                       calibrated |-> c, status |-> "open"]
    <2>1. Rows(S, r, d) = Rows(findings, r, d) \cup {new}
      BY <1>3 DEF Rows, NewFindings
    <2> HIDE DEF new
    <2>2. Cardinality(Rows(findings, r, d) \cup {new}) \in {Copies(r, d), Copies(r, d) + 1}
      BY <1>1, FS_AddElement
    <2>3. Cardinality(Rows(S, r, d)) \in {Copies(r, d), Copies(r, d) + 1}
      BY <2>1, <2>2
    <2> HIDE DEF S
    <2>4. Cardinality(Rows(S, r, d)) <= Copies(r, d) + 1
      BY <1>1, <2>3
    <2>5. QED
      BY <1>3, <2>4 DEF S, OneMore, NoneMore
  <1>4. QED
    BY <1>2, <1>3

LEMMA RowsAfterCalibration ==
    ASSUME Typed, NEW r \in Runs, NEW d
    PROVE  Cardinality(Rows(CalibratedRows, r, d)) <= Copies(r, d)
  <1>1. IsFiniteSet(Rows(findings, r, d)) /\ Copies(r, d) = Cardinality(Rows(findings, r, d))
    BY RowsFinite, CopiesNat DEF Typed
  <1> DEFINE g == [f \in Rows(findings, r, d) |-> [f EXCEPT !.calibrated = TRUE]]
  <1>2. g \in Surjection(Rows(findings, r, d), Rows(CalibratedRows, r, d))
    <2>1. \A f \in Rows(findings, r, d) : [f EXCEPT !.calibrated = TRUE] \in Rows(CalibratedRows, r, d)
      BY DEF Rows, CalibratedRows, Typed, TypeOK, Finding
    <2>2. ASSUME NEW t \in Rows(CalibratedRows, r, d)
          PROVE  \E f \in Rows(findings, r, d) : [f EXCEPT !.calibrated = TRUE] = t
      <3>1. PICK f \in findings : t = [f EXCEPT !.calibrated = TRUE]
        BY DEF Rows, CalibratedRows
      <3>2. f.run = t.run /\ f.about = t.about
        BY <3>1 DEF Typed, TypeOK, Finding
      <3>3. QED
        BY <3>1, <3>2 DEF Rows
    <2>3. QED
      BY <2>1, <2>2 DEF Surjection
  <1>3. QED
    BY <1>1, <1>2, FS_Surjection

LEMMA RowsAfterDismissal ==
    ASSUME Typed, Dismiss, NEW r \in Runs, NEW d
    PROVE  Cardinality(Rows(findings', r, d)) <= Copies(r, d)
  <1>1. IsFiniteSet(Rows(findings, r, d)) /\ Copies(r, d) = Cardinality(Rows(findings, r, d))
        /\ Copies(r, d) \in Nat
    BY RowsFinite, CopiesNat DEF Typed
  <1>2. PICK f \in findings :
            findings' = (findings \ {f}) \cup {[f EXCEPT !.status = "dismissed"]}
    BY DEF Dismiss
  <1> DEFINE g == [f EXCEPT !.status = "dismissed"]
  <1>3. g.run = f.run /\ g.about = f.about
    BY DEF Typed, TypeOK, Finding
  <1>4. CASE f \in Rows(findings, r, d)
    <2>1. Rows(findings', r, d) = (Rows(findings, r, d) \ {f}) \cup {g}
      BY <1>2, <1>3, <1>4 DEF Rows
    <2> DEFINE rest == Rows(findings, r, d) \ {f}
    <2>2. IsFiniteSet(rest) /\ Cardinality(rest) = Copies(r, d) - 1
      BY <1>1, <1>4, FS_RemoveElement
    <2>3. Rows(findings', r, d) = rest \cup {g}
      BY <2>1
    <2> HIDE DEF g, rest
    <2>4. Cardinality(rest \cup {g}) \in {Cardinality(rest), Cardinality(rest) + 1}
      BY <2>2, FS_AddElement
    <2>5. QED
      BY <1>1, <2>2, <2>3, <2>4
  <1>5. CASE f \notin Rows(findings, r, d)
    <2>1. Rows(findings', r, d) = Rows(findings, r, d)
      BY <1>2, <1>3, <1>5 DEF Rows
    <2>2. QED
      BY <1>1, <2>1
  <1>6. QED
    BY <1>4, <1>5

\* One attempt adds one copy of a finding at most, and only the activity that
\* inserts such findings adds any.
LEMMA RowsAfterChange ==
    ASSUME Typed, NEW q \in Runs, NEW b \in Activities, Change(q, b),
           NEW r \in Runs, NEW d \in RuleFires \cup Anomalies
    PROVE  /\ Cardinality(Rows(findings', r, d)) <= Copies(r, d) + 1
           /\ r # q \/ b # Inserter(d) => Cardinality(Rows(findings', r, d)) <= Copies(r, d)
  <1>1. Copies(r, d) \in Nat /\ Copies(r, d) = Cardinality(Rows(findings, r, d))
    BY CopiesNat DEF Typed
  <1>2. CASE findings' = findings
    BY <1>1, <1>2
  <1>3. CASE b = "rule_engine" /\ findings' = findings \cup NewFindings(q, RuleFires, FALSE)
    <2>1. b # Inserter(d) => d \notin RuleFires
      BY <1>3 DEF Inserter
    <2> DEFINE S == findings \cup NewFindings(q, RuleFires, FALSE)
    <2>2. OneMore(S, r, d) /\ (r # q \/ d \notin RuleFires => NoneMore(S, r, d))
      BY RowsAfterInsert
    <2>3. QED
      BY <1>1, <1>3, <2>1, <2>2 DEF OneMore, NoneMore
  <1>4. CASE findings' = CalibratedRows
    <2>1. Cardinality(Rows(findings', r, d)) <= Copies(r, d)
      BY <1>4, RowsAfterCalibration
    <2>2. Cardinality(Rows(findings', r, d)) \in Nat
      BY <1>4, CalibratedType, RowsFinite DEF Typed
    <2>3. QED
      BY <1>1, <2>1, <2>2
  <1>5. CASE /\ b = "root_cause_attribution"
             /\ findings' = findings \cup NewFindings(q, output[q].bands, TRUE)
    <2>1. /\ output[q].bands \in SUBSET (RuleFires \cup Anomalies)
          /\ output[q].bands \subseteq Anomalies
      BY DEF Typed, TypeOK, Output
    <2>2. b # Inserter(d) => d \notin output[q].bands
      BY <1>5, <2>1 DEF Inserter
    <2> DEFINE S == findings \cup NewFindings(q, output[q].bands, TRUE)
    <2>3. OneMore(S, r, d) /\ (r # q \/ d \notin output[q].bands => NoneMore(S, r, d))
      BY <2>1, RowsAfterInsert
    <2>4. QED
      BY <1>1, <1>5, <2>2, <2>3 DEF OneMore, NoneMore
  <1>6. QED
    BY <1>2, <1>3, <1>4, <1>5 DEF Change

LEMMA CopiesInit == Init => CopiesInv /\ CopiesBounded
  <1>1. ASSUME Init, NEW r \in Runs, NEW d
        PROVE  Copies(r, d) = 0
    <2>1. {f \in findings : f.run = r /\ f.about = d} = {}
      BY <1>1 DEF Init
    <2>2. QED
      BY <2>1, FS_EmptySet DEF Copies
  <1>2. ASSUME Init
        PROVE  CopiesInv
    BY <1>1, <1>2 DEF Init, CopiesInv, Owing, Inserted
  <1>3. QED
    BY <1>2 DEF Init, CopiesBounded

\* An attempt's insertion is paid for: by the attempt itself while its result
\* stands, by the timeout that left it behind, or by its loss.
LEMMA CopiesStep ==
    ASSUME Typed, Typed', TasksInOrder, CopiesInv, [Next]_vars
    PROVE  CopiesInv'
  <1> SUFFICES ASSUME NEW r \in Runs, NEW d \in RuleFires \cup Anomalies
               PROVE  Cardinality(Rows(findings', r, d))
                        <= lost' + timeouts' - Owing(r, Inserter(d))' + Inserted(r, Inserter(d))'
    BY DEF CopiesInv, Copies, Rows
  <1> DEFINE a == Inserter(d)
             n == Copies(r, d)
             n1 == Cardinality(Rows(findings', r, d))
  <1>1. a \in {"rule_engine", "root_cause_attribution"} /\ a \in Activities
    BY DEF Inserter, Activities
  <1>2. /\ n \in Nat /\ n1 \in Nat
        /\ lost \in Nat /\ timeouts \in Nat /\ lost' \in Nat /\ timeouts' \in Nat
    BY CopiesNat, RowsFinite DEF Typed, TypeOK
  <1>3. n <= lost + timeouts - Owing(r, a) + Inserted(r, a)
    BY DEF CopiesInv
  <1>4. n = Cardinality(Rows(findings, r, d))
    BY CopiesNat DEF Typed
  <1> HIDE DEF a, n, n1
  <1> SUFFICES n1 <= lost' + timeouts' - Owing(r, a)' + Inserted(r, a)'
    BY DEF n1, a
  <1>5. ASSUME NEW q \in Runs, NEW b \in Activities, Attempt(q, b)
        PROVE  n1 <= lost' + timeouts' - Owing(r, a)' + Inserted(r, a)'
    <2>1. /\ n1 <= n + 1 /\ (r # q \/ b # a => n1 <= n)
      BY <1>5, AttemptChanges, RowsAfterChange DEF n, n1, a
    <2>2. /\ UNCHANGED <<lost, timeouts, late>>
          /\ task[q][b] = "running" /\ task' = [task EXCEPT ![q][b] = "effected"]
      BY <1>5 DEF Attempt
    <2>3. CASE r = q /\ b = a
      <3>1. /\ Inserted(r, a) = 0 /\ Inserted(r, a)' = 1
            /\ Owing(r, a)' = Owing(r, a) /\ Owing(r, a) \in {0, 1}
        BY <1>1, <2>2, <2>3 DEF Inserted, Owing, Typed, TypeOK
      <3>2. QED
        BY <1>2, <1>3, <2>1, <2>2, <3>1
    <2>4. CASE r # q \/ b # a
      <3>1. /\ Inserted(r, a)' = Inserted(r, a) /\ Inserted(r, a) \in {0, 1}
            /\ Owing(r, a)' = Owing(r, a) /\ Owing(r, a) \in {0, 1}
        BY <1>1, <2>2, <2>4 DEF Inserted, Owing, Typed, TypeOK
      <3>2. QED
        BY <1>2, <1>3, <2>1, <2>2, <2>4, <3>1
    <2>5. QED
      BY <2>3, <2>4
  <1>6. ASSUME NEW q \in Runs, NEW b \in Activities, LateAttempt(q, b)
        PROVE  n1 <= lost' + timeouts' - Owing(r, a)' + Inserted(r, a)'
    <2>1. /\ n1 <= n + 1 /\ (r # q \/ b # a => n1 <= n)
      BY <1>6, AttemptChanges, RowsAfterChange DEF n, n1, a
    <2>2. /\ UNCHANGED <<lost, timeouts, task>>
          /\ <<q, b>> \in late /\ late' = late \ {<<q, b>>}
      BY <1>6 DEF LateAttempt
    <2>3. Inserted(r, a)' = Inserted(r, a) /\ Inserted(r, a) \in {0, 1}
      BY <2>2 DEF Inserted
    <2>4. CASE r = q /\ b = a
      <3>1. Owing(r, a) = 1 /\ Owing(r, a)' = 0
        BY <2>2, <2>4 DEF Owing
      <3>2. QED
        BY <1>2, <1>3, <2>1, <2>2, <2>3, <3>1
    <2>5. CASE r # q \/ b # a
      <3>1. Owing(r, a)' = Owing(r, a) /\ Owing(r, a) \in {0, 1}
        BY <2>2, <2>5 DEF Owing
      <3>2. QED
        BY <1>2, <1>3, <2>1, <2>2, <2>3, <2>5, <3>1
    <2>6. QED
      BY <2>4, <2>5
  <1>7. ASSUME n1 <= n, lost + timeouts - Owing(r, a) + Inserted(r, a)
                          <= lost' + timeouts' - Owing(r, a)' + Inserted(r, a)'
        PROVE  n1 <= lost' + timeouts' - Owing(r, a)' + Inserted(r, a)'
    <2>1. /\ Owing(r, a) \in {0, 1} /\ Inserted(r, a) \in {0, 1}
          /\ Owing(r, a)' \in {0, 1} /\ Inserted(r, a)' \in {0, 1}
      BY DEF Owing, Inserted
    <2>2. QED
      BY <1>2, <1>3, <1>7, <2>1
  <1>8. ASSUME NEW q \in Runs, NEW b \in Activities, LoseAttempt(q, b)
        PROVE  n1 <= lost' + timeouts' - Owing(r, a)' + Inserted(r, a)'
    <2>1. /\ UNCHANGED <<late, findings, timeouts>> /\ lost' = lost + 1
          /\ task' = [task EXCEPT ![q][b] = "running"]
      BY <1>8 DEF LoseAttempt
    <2>2. n1 = n /\ Owing(r, a)' = Owing(r, a) /\ Owing(r, a) \in {0, 1}
      BY <1>4, <2>1 DEF n1, Owing
    <2>3. Inserted(r, a)' \in {0, 1} /\ Inserted(r, a) \in {0, 1}
      BY DEF Inserted
    <2>4. QED
      BY <1>2, <1>7, <2>1, <2>2, <2>3
  <1>9. ASSUME NEW q \in Runs, NEW b \in Activities, TimeOut(q, b)
        PROVE  n1 <= lost' + timeouts' - Owing(r, a)' + Inserted(r, a)'
    <2>1. UNCHANGED <<task, findings, lost>> /\ timeouts' = timeouts + 1
      BY <1>9 DEF TimeOut
    <2>2. n1 = n /\ Inserted(r, a)' = Inserted(r, a) /\ Inserted(r, a) \in {0, 1}
      BY <1>4, <2>1 DEF n1, Inserted
    <2>3. Owing(r, a)' \in {0, 1} /\ Owing(r, a) \in {0, 1}
      BY DEF Owing
    <2>4. QED
      BY <1>2, <1>7, <2>1, <2>2, <2>3
  <1>10. ASSUME NEW q \in Runs,
                (\E b \in Activities : Report(q, b)) \/ GateRejects(q) \/ Advance(q)
         PROVE  n1 <= lost' + timeouts' - Owing(r, a)' + Inserted(r, a)'
    <2>1. UNCHANGED <<late, findings, lost, timeouts>>
      BY <1>10 DEF Report, GateRejects, Advance
    <2>2. n1 = n /\ Owing(r, a)' = Owing(r, a) /\ Owing(r, a) \in {0, 1}
      BY <1>4, <2>1 DEF n1, Owing
    <2>3. task[r][a] \in {"effected", "reported"} => task'[r][a] \in {"effected", "reported"}
      <3>1. ASSUME NEW b \in Activities, Report(q, b)
            PROVE  task[r][a] \in {"effected", "reported"}
                     => task'[r][a] \in {"effected", "reported"}
        BY <1>1, <3>1 DEF Report, Typed, TypeOK
      <3>2. CASE GateRejects(q)
        BY <1>1, <3>2 DEF GateRejects, Typed, TypeOK
      <3>3. CASE Advance(q)
        <4>1. /\ step[q] \in Steps /\ Awaited(step[q]) # {}
              /\ task' = [task EXCEPT ![q] = [c \in Activities |->
                     IF c \in Awaited(NextStep[step[q]]) THEN "running" ELSE task[q][c]]]
          BY <3>3 DEF Advance, Moved, Typed, TypeOK
        <4>2. \A c \in Awaited(NextStep[step[q]]) \cap Activities : task[q][c] = "unstarted"
          BY <4>1, NextStepOrder DEF TasksInOrder
        <4>3. QED
          BY <1>1, <4>1, <4>2 DEF Typed, TypeOK
      <3>4. QED
        BY <1>10, <3>1, <3>2, <3>3
    <2>4. Inserted(r, a) \in {0, 1} /\ Inserted(r, a)' \in {0, 1}
          /\ Inserted(r, a) <= Inserted(r, a)'
      BY <2>3 DEF Inserted
    <2>5. QED
      BY <1>2, <1>7, <2>1, <2>2, <2>4
  <1>11. CASE Dismiss
    <2>1. n1 <= n /\ UNCHANGED <<task, late, lost, timeouts>>
      BY <1>11, RowsAfterDismissal DEF Dismiss, n, n1
    <2>2. Owing(r, a)' = Owing(r, a) /\ Inserted(r, a)' = Inserted(r, a)
          /\ Owing(r, a) \in {0, 1} /\ Inserted(r, a) \in {0, 1}
      BY <2>1 DEF Owing, Inserted
    <2>3. QED
      BY <1>2, <1>7, <2>1, <2>2
  <1>12. CASE UNCHANGED <<task, late, findings, lost, timeouts>>
    <2>1. n1 = n /\ Owing(r, a)' = Owing(r, a) /\ Inserted(r, a)' = Inserted(r, a)
          /\ Owing(r, a) \in {0, 1} /\ Inserted(r, a) \in {0, 1}
      BY <1>4, <1>12 DEF n1, Owing, Inserted
    <2>2. QED
      BY <1>2, <1>7, <1>12, <2>1
  <1>13. QED
    BY <1>5, <1>6, <1>8, <1>9, <1>10, <1>11, <1>12
    DEF Next, RunStep, HumanReviewCompleted, ModelTrained, Complete, vars

\* An attempt that still has to insert finds room for one more copy.
LEMMA NewCopyBounded ==
    ASSUME Typed, CopiesInv, NEW q \in Runs, NEW d \in RuleFires \cup Anomalies,
           task[q][Inserter(d)] = "running" \/ <<q, Inserter(d)>> \in late
    PROVE  Copies(q, d) + 1 <= 1 + lost + timeouts
  <1>1. Copies(q, d) \in Nat /\ lost \in Nat /\ timeouts \in Nat
    BY CopiesNat DEF Typed, TypeOK
  <1>2. Copies(q, d) <= lost + timeouts - Owing(q, Inserter(d)) + Inserted(q, Inserter(d))
    BY DEF CopiesInv
  <1>3. Inserted(q, Inserter(d)) = 0 \/ Owing(q, Inserter(d)) = 1
    BY DEF Inserted, Owing
  <1>4. Inserted(q, Inserter(d)) \in {0, 1} /\ Owing(q, Inserter(d)) \in {0, 1}
    BY DEF Inserted, Owing
  <1>5. QED
    BY <1>1, <1>2, <1>3, <1>4

LEMMA CopiesBoundedStep ==
    ASSUME Typed, Typed', CopiesInv, CopiesBounded, [Next]_vars
    PROVE  CopiesBounded'
  <1> SUFFICES ASSUME NEW f \in findings'
               PROVE  f.copy <= 1 + lost' + timeouts'
    BY DEF CopiesBounded
  <1>1. /\ lost' \in {lost, lost + 1} /\ timeouts' \in {timeouts, timeouts + 1}
        /\ lost \in Nat /\ timeouts \in Nat /\ f.copy \in Nat
    <2>1. lost' \in {lost, lost + 1} /\ timeouts' \in {timeouts, timeouts + 1}
      BY DEF Next, RunStep, HumanReviewCompleted, TimeOut, LateAttempt, ModelTrained, Dismiss,
             Complete, GateRejects, Advance, Attempt, Report, LoseAttempt, vars
    <2>2. QED
      BY <2>1 DEF Typed, TypeOK, Finding
  <1>2. ASSUME NEW g \in findings, f.copy = g.copy
        PROVE  f.copy <= 1 + lost' + timeouts'
    BY <1>1, <1>2 DEF CopiesBounded
  <1>3. ASSUME NEW q \in Runs, NEW b \in Activities, Attempt(q, b) \/ LateAttempt(q, b)
        PROVE  f.copy <= 1 + lost' + timeouts'
    <2>1. Change(q, b)
      BY <1>3, AttemptChanges
    <2>2. task[q][b] = "running" \/ <<q, b>> \in late
      BY <1>3 DEF Attempt, LateAttempt
    <2>3. ASSUME NEW D \in SUBSET (RuleFires \cup Anomalies), NEW c,
                 \A d \in D : Inserter(d) = b, f \in NewFindings(q, D, c)
          PROVE  f.copy <= 1 + lost' + timeouts'
      <3>1. PICK d \in D : f.copy = Copies(q, d) + 1
        BY <2>3 DEF NewFindings
      <3>2. Copies(q, d) + 1 <= 1 + lost + timeouts
        BY <2>2, <2>3, NewCopyBounded
      <3>3. QED
        BY <1>1, <3>1, <3>2
    <2>4. CASE f \in findings
      BY <1>2, <2>4
    <2>5. CASE b = "rule_engine" /\ f \in NewFindings(q, RuleFires, FALSE)
      <3>1. \A d \in RuleFires : Inserter(d) = b
        BY <2>5 DEF Inserter
      <3>2. QED
        BY <2>3, <2>5, <3>1, Zenon
    <2>6. CASE f \in CalibratedRows
      BY <1>2, <2>6, CalibratedRowsOf
    <2>7. CASE b = "root_cause_attribution" /\ f \in NewFindings(q, output[q].bands, TRUE)
      <3>1. output[q].bands \subseteq Anomalies
        BY DEF Typed, TypeOK, Output
      <3>2. \A d \in output[q].bands : Inserter(d) = b
        BY <2>7, <3>1 DEF Inserter
      <3>3. output[q].bands \in SUBSET (RuleFires \cup Anomalies)
        BY <3>1
      <3>4. QED
        BY <2>3, <2>7, <3>2, <3>3, Zenon
    <2>8. QED
      BY <2>1, <2>4, <2>5, <2>6, <2>7 DEF Change
  <1>4. CASE Dismiss
    BY <1>2, <1>4, DismissedRows
  <1>5. CASE UNCHANGED findings
    BY <1>2, <1>5
  <1>6. QED
    BY <1>3, <1>4, <1>5
    DEF Next, RunStep, HumanReviewCompleted, TimeOut, LoseAttempt, Report, ModelTrained,
        GateRejects, Advance, Complete, vars

\* Retries, also those beside an attempt that is still at work, leave at most one
\* further copy of a finding for each attempt that was lost or timed out.
THEOREM CopiesAreBounded == Spec => []CopiesBounded
  <1> DEFINE I == Typed /\ TasksInOrder /\ CopiesInv /\ CopiesBounded
  <1>1. Init => I
    BY TypedInit, OrderInit, CopiesInit
  <1>2. I /\ [Next]_vars => I'
    BY TypedStep, OrderStep, CopiesStep, CopiesBoundedStep
  <1>3. QED
    BY <1>1, <1>2, PTL DEF Spec

-----------------------------------------------------------------------------
(* The contract with the starter of a run *)

Wrote == {f.run : f \in findings}

LEMMA RejectedWritesNothing ==
    ASSUME Typed, TasksInOrder, NEW r \in Runs, task[r]["rule_engine"] # "unstarted"
    PROVE  step[r] \notin {"data_quality_gate", "failed"}
  BY DEF TasksInOrder, Ahead, Activities, Detection

\* An attempt that writes, late or not, is a Write of its run or changes nothing.
LEMMA AttemptWrites ==
    ASSUME Typed, TasksInOrder, LateBegun, NEW r \in Runs, NEW a \in Activities,
           Attempt(r, a) \/ LateAttempt(r, a)
    PROVE  Wrote' = Wrote \/ (Wrote' = Wrote \cup {r} /\ step[r] # "failed")
  <1>1. task[r][a] # "unstarted" /\ Change(r, a)
    BY AttemptBegun, AttemptChanges
  <1>2. CASE findings' = findings
    BY <1>2 DEF Wrote
  <1>3. CASE a = "rule_engine" /\ findings' = findings \cup NewFindings(r, RuleFires, FALSE)
    <2>1. step[r] # "failed"
      BY <1>1, <1>3, RejectedWritesNothing
    <2>2. Wrote' = Wrote \/ Wrote' = Wrote \cup {r}
      BY <1>3 DEF Wrote, NewFindings
    <2>3. QED
      BY <2>1, <2>2
  <1>4. CASE findings' = CalibratedRows
    <2>1. \A f \in findings : [f EXCEPT !.calibrated = TRUE].run = f.run
      BY DEF Typed, TypeOK, Finding
    <2>2. QED
      BY <1>4, <2>1 DEF Wrote, CalibratedRows
  <1>5. CASE /\ a = "root_cause_attribution"
             /\ findings' = findings \cup NewFindings(r, output[r].bands, TRUE)
    <2>1. step[r] # "failed"
      BY <1>1, <1>5, RuleEngineFirst, RejectedWritesNothing
    <2>2. Wrote' = Wrote \/ Wrote' = Wrote \cup {r}
      BY <1>5 DEF Wrote, NewFindings
    <2>3. QED
      BY <2>1, <2>2
  <1>6. QED
    BY <1>1, <1>2, <1>3, <1>4, <1>5 DEF Change

LEMMA DismissWrites ==
    ASSUME Typed, Dismiss
    PROVE  Wrote' = Wrote
  <1>1. PICK f \in findings :
            findings' = (findings \ {f}) \cup {[f EXCEPT !.status = "dismissed"]}
    BY DEF Dismiss
  <1>2. [f EXCEPT !.status = "dismissed"].run = f.run
    BY DEF Typed, TypeOK, Finding
  <1>3. QED
    BY <1>1, <1>2 DEF Wrote

LEMMA ContractInit == Init => Contract!Init
  BY DEF Init, Contract!Init, PhaseOf

LEMMA ContractStep ==
    ASSUME Typed, TasksInOrder, LateBegun, FindingsBegun, [Next]_vars
    PROVE  \/ Contract!Next
           \/ UNCHANGED <<[r \in Runs |-> PhaseOf(step[r])], signalled, Wrote>>
  <1> DEFINE phase == [r \in Runs |-> PhaseOf(step[r])]
  <1>1. ASSUME NEW r \in Runs, NEW a \in Activities, Attempt(r, a) \/ LateAttempt(r, a)
        PROVE  Contract!Next \/ UNCHANGED <<phase, signalled, Wrote>>
    <2>1. step' = step /\ signalled' = signalled
      BY <1>1 DEF Attempt, LateAttempt
    <2>2. CASE Wrote' = Wrote
      BY <2>1, <2>2
    <2>3. CASE Wrote' = Wrote \cup {r} /\ step[r] # "failed"
      <3>1. Contract!Write(r)
        BY <2>1, <2>3 DEF Contract!Write, PhaseOf, Wrote
      <3>2. QED
        BY <3>1 DEF Contract!Next
    <2>4. QED
      BY <1>1, <2>2, <2>3, AttemptWrites
  <1>2. ASSUME NEW r \in Runs, GateRejects(r)
        PROVE  Contract!Next
    <2>1. /\ task[r]["data_quality_gate"] = "running"
          /\ step' = [step EXCEPT ![r] = "failed"]
          /\ signalled' = signalled /\ findings' = findings
      BY <1>2 DEF GateRejects
    <2>2. step[r] = "data_quality_gate"
      BY <2>1, AwaitedAtGate DEF TasksInOrder, Activities, Typed, TypeOK
    <2>3. r \notin Wrote
      BY <2>2, RejectedWritesNothing DEF FindingsBegun, Wrote
    <2>4. Contract!Reject(r)
      BY <2>1, <2>2, <2>3 DEF Contract!Reject, PhaseOf, Wrote, Typed, TypeOK
    <2>5. QED
      BY <2>4 DEF Contract!Next
  <1>3. ASSUME NEW r \in Runs, Advance(r)
        PROVE  Contract!Next \/ UNCHANGED <<phase, signalled, Wrote>>
    <2>1. /\ step[r] \in Steps /\ Awaited(step[r]) # {}
          /\ step' = [step EXCEPT ![r] = NextStep[step[r]]]
          /\ signalled' = signalled /\ findings' = findings
      BY <1>3 DEF Advance, Moved, Typed, TypeOK
    <2>2. /\ PhaseOf(step[r]) = "analysing"
          /\ PhaseOf(NextStep[step[r]]) \in {"analysing", "review"}
      BY <2>1, NextStepOrder DEF PhaseOf, NextStep
    <2>3. phase' = [phase EXCEPT ![r] = PhaseOf(NextStep[step[r]])]
      BY <2>1 DEF Typed, TypeOK
    <2>4. CASE PhaseOf(NextStep[step[r]]) = "analysing"
      BY <2>1, <2>2, <2>3, <2>4 DEF Wrote
    <2>5. CASE PhaseOf(NextStep[step[r]]) = "review"
      BY <2>1, <2>2, <2>3, <2>5 DEF Contract!Next, Contract!AskForReview, Wrote
    <2>6. QED
      BY <2>2, <2>4, <2>5
  <1>4. ASSUME NEW r \in Runs, Complete(r)
        PROVE  Contract!Next
    <2>1. /\ step[r] = "waiting_for_human_review" /\ r \in signalled
          /\ step' = [step EXCEPT ![r] = "completed"]
          /\ signalled' = signalled /\ findings' = findings
      BY <1>4 DEF Complete
    <2>2. phase' = [phase EXCEPT ![r] = "completed"] /\ phase[r] = "review"
      BY <2>1 DEF PhaseOf, Typed, TypeOK
    <2>3. QED
      BY <2>1, <2>2 DEF Contract!Next, Contract!Complete
  <1>5. ASSUME NEW r \in Runs, HumanReviewCompleted(r)
        PROVE  Contract!Next
    BY <1>5 DEF HumanReviewCompleted, Contract!Next, Contract!Signal
  <1>6. CASE Dismiss
    <2>1. UNCHANGED <<step, signalled>> /\ Wrote' = Wrote
      BY <1>6, DismissWrites DEF Dismiss
    <2>2. QED
      BY <2>1
  <1>7. CASE UNCHANGED <<step, signalled, findings>>
    BY <1>7 DEF Wrote
  <1>8. QED
    BY <1>1, <1>2, <1>3, <1>4, <1>5, <1>6, <1>7
    DEF Next, RunStep, TimeOut, LoseAttempt, Report, ModelTrained, vars

\* Every behaviour of the pipeline, with whatever retries and late attempts, is
\* one its starter and its reviewer were promised.
THEOREM PipelineKeepsContract == Spec => ImplementsContract
  <1> DEFINE I == Typed /\ TasksInOrder /\ LateBegun /\ FindingsBegun
  <1>1. Init => I /\ Contract!Init
    BY TypedInit, OrderInit, LateInit, ContractInit
  <1>2. I /\ [Next]_vars => I'
    BY TypedStep, OrderStep, LateStep, FindingsBegunStep
  <1>3. I /\ [Next]_vars =>
            [Contract!Next]_<<[r \in Runs |-> PhaseOf(step[r])], signalled,
                              {f.run : f \in findings}>>
    BY ContractStep DEF Wrote
  <1>4. QED
    BY <1>1, <1>2, <1>3, PTL DEF Spec, ImplementsContract, Contract!Spec

-----------------------------------------------------------------------------
(* What optimization sees *)

PastOptimization(r) ==
    \/ step[r] \in {"waiting_for_human_review", "completed"}
    \/ step[r] = "optimization" /\ task[r]["optimization"] \in {"effected", "reported"}

Stored(f) == \E g \in findings : Same(f, g)
Dismissed(f) == \E g \in findings : Same(f, g) /\ g.status = "dismissed"
Cited(r, f) == \E g \in output[r].cited : Same(f, g)

SeenInv ==
    \A r \in Runs : \A f \in output[r].persisted :
        /\ Stored(f)
        /\ PastOptimization(r) => Cited(r, f) \/ Dismissed(f)

LEMMA SeenInit == Init => SeenInv
  BY DEF Init, SeenInv

\* No step removes a finding, and a dismissed one stays dismissed.
LEMMA RowsStay ==
    ASSUME Typed, [Next]_vars, NEW g \in findings
    PROVE  \E h \in findings' : Same(g, h) /\ (g.status = "dismissed" => h.status = "dismissed")
  <1>1. ASSUME g \in findings'
        PROVE  \E h \in findings' : Same(g, h) /\ (g.status = "dismissed" => h.status = "dismissed")
    BY <1>1 DEF Same
  <1>2. ASSUME NEW r \in Runs, NEW a \in Activities, Attempt(r, a) \/ LateAttempt(r, a)
        PROVE  \E h \in findings' : Same(g, h) /\ (g.status = "dismissed" => h.status = "dismissed")
    <2>1. g \in findings' \/ findings' = CalibratedRows
      BY <1>2, AttemptChanges DEF Change
    <2>2. CASE findings' = CalibratedRows
      <3> DEFINE h == [g EXCEPT !.calibrated = TRUE]
      <3>1. h \in findings'
        BY <2>2 DEF CalibratedRows
      <3>2. Same(g, h) /\ h.status = g.status
        BY DEF Same, Typed, TypeOK, Finding
      <3>3. QED
        BY <3>1, <3>2
    <2>3. QED
      BY <1>1, <2>1, <2>2
  <1>3. CASE Dismiss
    <2>1. PICK f \in findings :
              findings' = (findings \ {f}) \cup {[f EXCEPT !.status = "dismissed"]}
      BY <1>3 DEF Dismiss
    <2>2. CASE f = g
      <3> DEFINE h == [g EXCEPT !.status = "dismissed"]
      <3>1. h \in findings'
        BY <2>1, <2>2
      <3>2. Same(g, h) /\ h.status = "dismissed"
        BY DEF Same, Typed, TypeOK, Finding
      <3>3. QED
        BY <3>1, <3>2
    <2>3. CASE f # g
      BY <1>1, <2>1, <2>3
    <2>4. QED
      BY <2>2, <2>3
  <1>4. CASE UNCHANGED findings
    BY <1>1, <1>4
  <1>5. QED
    BY <1>2, <1>3, <1>4
    DEF Next, RunStep, HumanReviewCompleted, TimeOut, LoseAttempt, Report, ModelTrained,
        GateRejects, Advance, Complete, vars

LEMMA StoredStays ==
    ASSUME Typed, [Next]_vars, NEW f
    PROVE  (Stored(f) => Stored(f)') /\ (Dismissed(f) => Dismissed(f)')
  <1>1. ASSUME NEW g \in findings, Same(f, g)
        PROVE  \E h \in findings' : Same(f, h) /\ (g.status = "dismissed" => h.status = "dismissed")
    BY <1>1, RowsStay DEF Same
  <1>2. QED
    BY <1>1 DEF Stored, Dismissed

LEMMA AwaitedLast ==
    ASSUME NEW s \in Steps
    PROVE  /\ "root_cause_attribution" \in Awaited(s) => s = "root_cause_attribution"
           /\ "optimization" \in Awaited(s) => s = "optimization"
  BY DEF Awaited, Steps, Activities, Detection

\* A run passes optimization only when its own attempt has had its effect.
LEMMA PassingOptimization ==
    ASSUME Typed, TasksInOrder, NEW r \in Runs, GateRejects(r) \/ Advance(r) \/ Complete(r),
           NEW q \in Runs, PastOptimization(q)'
    PROVE  PastOptimization(q)
  <1>1. CASE q # r
    BY <1>1 DEF GateRejects, Advance, Moved, Complete, PastOptimization, Typed, TypeOK
  <1>2. CASE q = r /\ GateRejects(r)
    BY <1>2 DEF GateRejects, PastOptimization, Typed, TypeOK
  <1>3. CASE q = r /\ Advance(r)
    <2> DEFINE next == NextStep[step[r]]
    <2>1. /\ step[r] \in Steps /\ Awaited(step[r]) # {}
          /\ \A a \in Awaited(step[r]) : task[r][a] = "reported"
          /\ step'[r] = next
          /\ \A a \in Activities : a \in Awaited(next) => task'[r][a] = "running"
      BY <1>3 DEF Advance, Moved, Typed, TypeOK
    <2>2. step[r] \in DOMAIN NextStep
      BY <2>1, NextStepOrder
    <2>3. "optimization" \in Activities /\ "optimization" \in Awaited("optimization")
      BY DEF Activities, Awaited
    <2>4. next = "waiting_for_human_review"
      BY <1>3, <2>1, <2>2, <2>3 DEF PastOptimization, NextStep
    <2>5. step[r] = "optimization"
      BY <2>2, <2>4 DEF NextStep
    <2>6. QED
      BY <1>3, <2>1, <2>3, <2>5 DEF PastOptimization
  <1>4. CASE q = r /\ Complete(r)
    BY <1>4 DEF Complete, PastOptimization
  <1>5. QED
    BY <1>1, <1>2, <1>3, <1>4

LEMMA SeenStep ==
    ASSUME Typed, TasksInOrder, SeenInv, [Next]_vars
    PROVE  SeenInv'
  <1>0. \A f : (Stored(f) => Stored(f)') /\ (Dismissed(f) => Dismissed(f)')
    BY StoredStays
  <1>1. ASSUME UNCHANGED output, \A q \in Runs : PastOptimization(q)' => PastOptimization(q)
        PROVE  SeenInv'
    BY <1>0, <1>1 DEF SeenInv, Cited
  <1>2. ASSUME NEW r \in Runs, NEW a \in Activities, Attempt(r, a)
        PROVE  SeenInv'
    <2>1. /\ task[r][a] = "running" /\ step' = step /\ step[r] \in Steps
          /\ task' = [task EXCEPT ![r][a] = "effected"]
      BY <1>2 DEF Attempt, Typed, TypeOK
    <2>2. a \in Awaited(step[r])
      BY <2>1 DEF TasksInOrder
    <2>3. ASSUME NEW q \in Runs, q # r \/ a # "optimization"
          PROVE  PastOptimization(q)' => PastOptimization(q)
      <3>1. task'[q]["optimization"] = task[q]["optimization"]
        BY <2>1, <2>3 DEF Typed, TypeOK, Activities
      <3>2. QED
        BY <2>1, <3>1 DEF PastOptimization
    <2>4. CASE a = "root_cause_attribution"
      <3>1. /\ findings' = findings \cup Attributed(r)
            /\ output' = [output EXCEPT ![r].persisted = Attributed(r)]
        BY <1>2, <2>4 DEF Attempt, Effect, Attribute
      <3>2. step[r] = "root_cause_attribution"
        BY <2>1, <2>2, <2>4, AwaitedLast
      <3>3. ~PastOptimization(r)'
        BY <2>1, <3>2 DEF PastOptimization
      <3>4. \A f \in output'[r].persisted : Stored(f)'
        BY <3>1 DEF Stored, Same, Typed, TypeOK, Output
      <3>5. ASSUME NEW q \in Runs, q # r
            PROVE  output'[q] = output[q]
        BY <3>1, <3>5 DEF Typed, TypeOK
      <3>6. QED
        BY <1>0, <2>3, <2>4, <3>3, <3>4, <3>5 DEF SeenInv, Cited
    <2>5. CASE a = "optimization"
      <3>1. /\ findings' = findings
            /\ output' = [output EXCEPT ![r].cited =
                              {f \in findings : f.status # "dismissed"}]
        BY <1>2, <2>5 DEF Attempt, Effect, Optimize
      <3>2. /\ output'[r].persisted = output[r].persisted
            /\ output'[r].cited = {f \in findings : f.status # "dismissed"}
        BY <3>1 DEF Typed, TypeOK, Output
      <3>3. ASSUME NEW f \in output'[r].persisted
            PROVE  Stored(f)' /\ (Cited(r, f)' \/ Dismissed(f)')
        BY <3>1, <3>2, <3>3 DEF SeenInv, Stored, Cited, Dismissed
      <3>4. ASSUME NEW q \in Runs, q # r
            PROVE  output'[q] = output[q]
        BY <3>1, <3>4 DEF Typed, TypeOK
      <3>5. QED
        BY <1>0, <2>3, <3>3, <3>4 DEF SeenInv, Cited
    <2>6. CASE a \notin {"root_cause_attribution", "optimization"}
      <3>1. \A q \in Runs : output'[q].persisted = output[q].persisted
                            /\ output'[q].cited = output[q].cited
        <4>1. \/ output' = output
              \/ \E X : output' = [output EXCEPT ![r].scores = X]
              \/ \E X : output' = [output EXCEPT ![r].bands = X]
          BY <1>2, <2>6 DEF Attempt, Effect, RuleEngine, MLEnsemble, Calibrate
        <4>2. ASSUME NEW X, output' = [output EXCEPT ![r].scores = X]
              PROVE  \A q \in Runs : output'[q].persisted = output[q].persisted
                                    /\ output'[q].cited = output[q].cited
          BY <4>2 DEF Typed, TypeOK, Output
        <4>3. ASSUME NEW X, output' = [output EXCEPT ![r].bands = X]
              PROVE  \A q \in Runs : output'[q].persisted = output[q].persisted
                                    /\ output'[q].cited = output[q].cited
          BY <4>3 DEF Typed, TypeOK, Output
        <4>4. QED
          BY <4>1, <4>2, <4>3
      <3>2. QED
        BY <1>0, <2>3, <2>6, <3>1 DEF SeenInv, Cited
    <2>7. QED
      BY <2>4, <2>5, <2>6
  <1>3. ASSUME NEW r \in Runs, NEW a \in Activities, Report(r, a) \/ LoseAttempt(r, a)
        PROVE  SeenInv'
    <2>1. /\ step' = step /\ output' = output
          /\ \/ task[r][a] = "effected" /\ task' = [task EXCEPT ![r][a] = "reported"]
             \/ task' = [task EXCEPT ![r][a] = "running"]
      BY <1>3 DEF Report, LoseAttempt
    <2>2. ASSUME NEW q \in Runs, NEW b \in Activities,
                 task'[q][b] \in {"effected", "reported"}
          PROVE  task[q][b] \in {"effected", "reported"}
      <3>1. CASE q = r /\ b = a
        BY <2>1, <2>2, <3>1 DEF Typed, TypeOK
      <3>2. CASE ~(q = r /\ b = a)
        BY <2>1, <2>2, <3>2 DEF Typed, TypeOK
      <3>3. QED
        BY <3>1, <3>2
    <2>3. \A q \in Runs : PastOptimization(q)' => PastOptimization(q)
      BY <2>1, <2>2 DEF PastOptimization, Activities
    <2>4. QED
      BY <1>1, <2>1, <2>3
  <1>4. ASSUME NEW r \in Runs, GateRejects(r) \/ Advance(r) \/ Complete(r)
        PROVE  SeenInv'
    <2>1. output' = output
      BY <1>4 DEF GateRejects, Advance, Complete
    <2>2. QED
      BY <1>1, <1>4, <2>1, PassingOptimization
  <1>5. CASE UNCHANGED <<step, task, output>>
    BY <1>1, <1>5 DEF PastOptimization
  <1>6. QED
    BY <1>2, <1>3, <1>4, <1>5
    DEF Next, RunStep, HumanReviewCompleted, TimeOut, LateAttempt, ModelTrained, Dismiss, vars

\* A finding that a run attributed is cited by its optimization or dismissed,
\* whatever other runs, reviewers and late attempts did in between.
THEOREM OptimizationSees == Spec => []OptimizationSeesFindings
  <1> DEFINE I == Typed /\ TasksInOrder /\ SeenInv
  <1>1. Init => I
    BY TypedInit, OrderInit, SeenInit
  <1>2. I /\ [Next]_vars => I'
    BY TypedStep, OrderStep, SeenStep
  <1>3. I => OptimizationSeesFindings
    BY DEF SeenInv, OptimizationSeesFindings, PastOptimization, Cited, Dismissed
  <1>4. QED
    BY <1>1, <1>2, <1>3, PTL DEF Spec
=============================================================================

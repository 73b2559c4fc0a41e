--------------------------- MODULE ModelLifecycle ---------------------------
(***************************************************************************)
(* Retraining, promotion and rollback of the ensemble members of one       *)
(* (tenant, building): pipelines/training/train_and_evaluate.py,           *)
(* models/evaluation/{promotion_gate,rollback}.py and models/registry/.    *)
(*                                                                         *)
(* Two stores are written without a common transaction: the MLflow         *)
(* registry (versions and the champion alias) and the audit_log table.     *)
(* Every await, commit and registry call is a step of its own, so that     *)
(* attempts of the retraining activity, which three triggers start under   *)
(* different workflow ids and which Temporal retries, interleave with each *)
(* other and with the daily rollback check, and may die in between.        *)
(***************************************************************************)
EXTENDS Integers, FiniteSets

CONSTANTS
    NumMembers,        \* 1 = isolation_forest, 2 = autoencoder, in training order
    Attempts,          \* slots for concurrent retraining_activity attempts
    Monitors,          \* slots for concurrent RollbackMonitoringWorkflow attempts
    ReviewFirstN,      \* human_review_required_first_n_promotions
    MinSampleSize,     \* RollbackSettings.min_sample_size
    MaxFpNum, MaxFpDen,\* RollbackSettings.max_fp_rate as a fraction
    MaxVersions,       \* bound on the versions registered per member
    MaxLabels          \* bound on the feedback labels in the window

ASSUME NumMembersAssumption == NumMembers \in Nat \ {0}
ASSUME SettingsAssumption ==
    /\ ReviewFirstN \in Nat
    /\ MinSampleSize \in Nat \ {0}
    /\ MaxFpNum \in Nat /\ MaxFpDen \in Nat \ {0}
ASSUME BoundsAssumption == MaxVersions \in Nat /\ MaxLabels \in Nat

VARIABLES
    registered,        \* MLflow: number of versions, numbered from 1, per member
    champion,          \* MLflow: version carrying the champion alias, 0 for none
    audit,             \* committed model.* rows of audit_log
    attempt,           \* state of each retraining activity attempt
    monitor,           \* state of each rollback check
    labels             \* ml_ensemble feedback labels inside the monitoring window

vars == <<registered, champion, audit, attempt, monitor, labels>>

Members == 1..NumMembers

\* What the gate's sanity checks on sample count and anomaly rate find.
Metrics == {"sane", "few_samples", "anomalous"}

AttemptState ==
    [pc : {"idle", "train", "evaluate", "commit", "promote"},
     member : Members, version : Nat, metrics : Metrics,
     approved : BOOLEAN, review : BOOLEAN]

MonitorState ==
    [pc : {"idle", "measure", "previous", "current", "alias", "audit"},
     member : Members, previous : Nat, current : Nat]

AuditRow ==
    [event : {"model.promoted", "model.promotion_rejected", "model.rollback"},
     member : Members, version : Nat, from : Nat, review : BOOLEAN]

TypeOK ==
    /\ registered \in [Members -> Nat]
    /\ champion \in [Members -> Nat]
    /\ audit \subseteq AuditRow
    /\ attempt \in [Attempts -> AttemptState]
    /\ monitor \in [Monitors -> MonitorState]
    /\ labels \in [confirmed : Nat, dismissed : Nat]

IdleAttempt ==
    [pc |-> "idle", member |-> 1, version |-> 0, metrics |-> "sane",
     approved |-> FALSE, review |-> FALSE]

IdleMonitor == [pc |-> "idle", member |-> 1, previous |-> 0, current |-> 0]

Init ==
    /\ registered = [m \in Members |-> 0]
    /\ champion = [m \in Members |-> 0]
    /\ audit = {}
    /\ attempt = [a \in Attempts |-> IdleAttempt]
    /\ monitor = [d \in Monitors |-> IdleMonitor]
    /\ labels = [confirmed |-> 0, dismissed |-> 0]

-----------------------------------------------------------------------------
(* The audit trail *)

PromotedRows(m) ==
    {r \in audit : r.event = "model.promoted" /\ r.member = m}

count_promotions(m) == Cardinality(PromotedRows(m))

Approved(m) == {r.version : r \in PromotedRows(m)}

-----------------------------------------------------------------------------
(* Retraining attempts *)

\* The activity goes on to the next ensemble member, or returns.
NextMember(a) ==
    IF attempt[a].member < NumMembers
    THEN [IdleAttempt EXCEPT !.pc = "train", !.member = attempt[a].member + 1]
    ELSE IdleAttempt

\* A calendar, drift or feedback trigger, or a Temporal retry, starts an attempt.
StartRetraining(a) ==
    /\ attempt[a].pc = "idle"
    /\ attempt' = [attempt EXCEPT ![a] = [IdleAttempt EXCEPT !.pc = "train"]]
    /\ UNCHANGED <<registered, champion, audit, monitor, labels>>

\* Mutant: a registry failure falls back to version 1.
TrainFallback(a) ==
    /\ attempt[a].pc = "train"
    /\ \E q \in Metrics, ok \in BOOLEAN :
        LET m == attempt[a].member
            v == IF ok THEN registered[m] + 1 ELSE 1
        IN  /\ v <= MaxVersions
            /\ registered' = [registered EXCEPT ![m] = IF @ < v THEN v ELSE @]
            /\ attempt' = [attempt EXCEPT ![a] =
                   [@ EXCEPT !.pc = "evaluate", !.version = v, !.metrics = q]]
    /\ UNCHANGED <<champion, audit, monitor, labels>>

\* One trainer fits a model and registers it as the member's next version.  A
\* registry failure is swallowed by the trainer: the result has no version.
Train(a) ==
    /\ attempt[a].pc = "train"
    /\ \E q \in Metrics, ok \in BOOLEAN :
        LET m == attempt[a].member
            v == IF ok THEN registered[m] + 1 ELSE 0
        IN  /\ v <= MaxVersions
            /\ registered' = [registered EXCEPT ![m] = IF ok THEN v ELSE @]
            /\ attempt' = [attempt EXCEPT ![a] =
                   [@ EXCEPT !.pc = "evaluate", !.version = v, !.metrics = q]]
    /\ UNCHANGED <<champion, audit, monitor, labels>>

\* PromotionGate.evaluate: the checks in order, then the review requirement
\* from the promotions counted so far.  Its INSERT waits for the commit.
Evaluate(a) ==
    /\ attempt[a].pc = "evaluate"
    /\ LET passes == attempt[a].version # 0 /\ attempt[a].metrics = "sane"
           held == passes /\ count_promotions(attempt[a].member) < ReviewFirstN
       IN attempt' = [attempt EXCEPT ![a] =
              [@ EXCEPT !.pc = "commit", !.approved = passes /\ ~held, !.review = held]]
    /\ UNCHANGED <<registered, champion, audit, monitor, labels>>

DecisionRow(s) ==
    [event |-> IF s.approved THEN "model.promoted" ELSE "model.promotion_rejected",
     member |-> s.member, version |-> s.version, from |-> 0, review |-> s.review]

\* Mutant: every registered candidate goes on to the registry call.
CommitUnchecked(a) ==
    /\ attempt[a].pc = "commit"
    /\ audit' = audit \cup {DecisionRow(attempt[a])}
    /\ attempt' = [attempt EXCEPT ![a] =
           IF @.version # 0 THEN [@ EXCEPT !.pc = "promote"] ELSE NextMember(a)]
    /\ UNCHANGED <<registered, champion, monitor, labels>>

\* Mutant: the session is closed without a commit before the registry call.
CommitForgotten(a) ==
    /\ attempt[a].pc = "commit"
    /\ attempt' = [attempt EXCEPT ![a] =
           IF @.approved /\ @.version # 0 THEN [@ EXCEPT !.pc = "promote"]
           ELSE NextMember(a)]
    /\ UNCHANGED <<registered, champion, audit, monitor, labels>>

\* The decision's row becomes visible; only an approved candidate goes on to
\* the registry call.
CommitDecision(a) ==
    /\ attempt[a].pc = "commit"
    /\ audit' = audit \cup {DecisionRow(attempt[a])}
    /\ attempt' = [attempt EXCEPT ![a] =
           IF @.approved /\ @.version # 0 THEN [@ EXCEPT !.pc = "promote"]
           ELSE NextMember(a)]
    /\ UNCHANGED <<registered, champion, monitor, labels>>

\* MLflowModelRegistry.promote moves the alias, whatever it points to by now.
Promote(a) ==
    /\ attempt[a].pc = "promote"
    /\ champion' = [champion EXCEPT ![attempt[a].member] = attempt[a].version]
    /\ attempt' = [attempt EXCEPT ![a] = NextMember(a)]
    /\ UNCHANGED <<registered, audit, monitor, labels>>

\* The worker dies, an awaited call raises or a trainer rejects its data; what
\* was not committed is lost, and the retry is a new attempt from the start.
AttemptFails(a) ==
    /\ attempt[a].pc # "idle"
    /\ attempt' = [attempt EXCEPT ![a] = IdleAttempt]
    /\ UNCHANGED <<registered, champion, audit, monitor, labels>>

-----------------------------------------------------------------------------
(* Feedback labels and the rollback monitor *)

NLabeled == labels.confirmed + labels.dismissed

\* A reviewer confirms or dismisses an ml_ensemble finding of the building.
Label ==
    /\ NLabeled < MaxLabels
    /\ \/ labels' = [labels EXCEPT !.confirmed = @ + 1]
       \/ labels' = [labels EXCEPT !.dismissed = @ + 1]
    /\ UNCHANGED <<registered, champion, audit, attempt, monitor>>

\* The window moves on and its oldest labels leave it.
LabelsExpire ==
    /\ \E c \in 0..labels.confirmed, d \in 0..labels.dismissed :
        /\ c + d < NLabeled
        /\ labels' = [confirmed |-> c, dismissed |-> d]
    /\ UNCHANGED <<registered, champion, audit, attempt, monitor>>

FpRateTooHigh ==
    /\ NLabeled >= MinSampleSize
    /\ labels.dismissed * MaxFpDen > MaxFpNum * NLabeled

\* The workflow goes on to the next member's activity, or completes.
NextCheck(d) ==
    IF monitor[d].member < NumMembers
    THEN [IdleMonitor EXCEPT !.pc = "measure", !.member = monitor[d].member + 1]
    ELSE IdleMonitor

StartCheck(d) ==
    /\ monitor[d].pc = "idle"
    /\ monitor' = [monitor EXCEPT ![d] = [IdleMonitor EXCEPT !.pc = "measure"]]
    /\ UNCHANGED <<registered, champion, audit, attempt, labels>>

\* compute_false_positive_rate and the two early returns of check_and_rollback.
MeasureFpRate(d) ==
    /\ monitor[d].pc = "measure"
    /\ monitor' = [monitor EXCEPT ![d] =
           IF FpRateTooHigh THEN [@ EXCEPT !.pc = "previous"] ELSE NextCheck(d)]
    /\ UNCHANGED <<registered, champion, audit, attempt, labels>>

\* Mutant: any version but the champion.
OthersThanChampion(m) == {v \in 1..registered[m] : v # champion[m]}

Older(m) == {v \in 1..registered[m] : v < champion[m]}

RollbackRow(m, from, to) ==
    [event |-> "model.rollback", member |-> m, version |-> to, from |-> from,
     review |-> FALSE]

\* get_previous_version: the highest registered version below the champion.
\* Without one, only the refusal is logged.
GetPreviousVersion(d) ==
    /\ monitor[d].pc = "previous"
    /\ LET m == monitor[d].member IN
       \/ /\ Older(m) = {}
          /\ audit' = audit \cup {RollbackRow(m, 0, 0)}
          /\ monitor' = [monitor EXCEPT ![d] = NextCheck(d)]
       \/ \E v \in Older(m) :
          /\ \A w \in Older(m) : w <= v
          /\ monitor' = [monitor EXCEPT ![d] =
                 [@ EXCEPT !.pc = "current", !.previous = v]]
          /\ UNCHANGED audit
    /\ UNCHANGED <<registered, champion, attempt, labels>>

\* get_champion_version is asked again, for the reason and the audit payload.
GetChampionVersion(d) ==
    /\ monitor[d].pc = "current"
    /\ monitor' = [monitor EXCEPT ![d] =
           [@ EXCEPT !.pc = "alias", !.current = champion[monitor[d].member]]]
    /\ UNCHANGED <<registered, champion, audit, attempt, labels>>

RollBack(d) ==
    /\ monitor[d].pc = "alias"
    /\ champion' = [champion EXCEPT ![monitor[d].member] = monitor[d].previous]
    /\ monitor' = [monitor EXCEPT ![d] = [@ EXCEPT !.pc = "audit"]]
    /\ UNCHANGED <<registered, audit, attempt, labels>>

CommitRollback(d) ==
    /\ monitor[d].pc = "audit"
    /\ audit' = audit \cup
           {RollbackRow(monitor[d].member, monitor[d].current, monitor[d].previous)}
    /\ monitor' = [monitor EXCEPT ![d] = NextCheck(d)]
    /\ UNCHANGED <<registered, champion, attempt, labels>>

\* The activity dies and Temporal runs it again, from the measurement on.
CheckFails(d) ==
    /\ monitor[d].pc \notin {"idle", "measure"}
    /\ monitor' = [monitor EXCEPT ![d] =
           [IdleMonitor EXCEPT !.pc = "measure", !.member = monitor[d].member]]
    /\ UNCHANGED <<registered, champion, audit, attempt, labels>>

-----------------------------------------------------------------------------

AttemptStep(a) ==
    \/ StartRetraining(a) \/ Train(a) \/ Evaluate(a) \/ CommitDecision(a)
    \/ Promote(a) \/ AttemptFails(a)

MonitorStep(d) ==
    \/ StartCheck(d) \/ MeasureFpRate(d) \/ GetPreviousVersion(d)
    \/ GetChampionVersion(d) \/ RollBack(d) \/ CommitRollback(d) \/ CheckFails(d)

Next ==
    \/ \E a \in Attempts : AttemptStep(a)
    \/ \E d \in Monitors : MonitorStep(d)
    \/ Label
    \/ LabelsExpire

Spec == Init /\ [][Next]_vars

-----------------------------------------------------------------------------
(* Properties that hold *)

\* Whatever the interleaving of retraining attempts, retries, crashes and
\* rollbacks, the champion is never newer than everything PromotionGate has
\* approved: each champion is an approved version or older than one.
ChampionNotAheadOfGate ==
    \A m \in Members : champion[m] # 0 => \E p \in Approved(m) : champion[m] <= p

\* train_and_evaluate commits the decision before it moves the alias, and only
\* the rollback monitor moves it without one: each move of the alias goes to a
\* version whose approval is already on the audit trail, or is made by a check
\* that has yet to write its rollback row.
AliasMovesAccounted ==
    [][\A m \in Members : champion'[m] # champion[m] =>
          \/ champion'[m] \in Approved(m)
          \/ \E d \in Monitors : /\ monitor'[d].pc = "audit"
                                 /\ monitor'[d].member = m
                                 /\ monitor'[d].previous = champion'[m]]_vars

\* A registered version is decided at most once, although retries and
\* overlapping triggers run the same building's retraining concurrently; so the
\* rows count_promotions counts are as many as the versions promoted.
DecidedOnce ==
    \A r, s \in audit :
        /\ r.event # "model.rollback" /\ s.event # "model.rollback"
        /\ r.member = s.member /\ r.version = s.version /\ r.version # 0
        => r = s

\* With a review requirement (the default is 3) no promotion is ever counted,
\* since PromotionGate holds every candidate and no code records the outcome of
\* a review: nothing is promoted, and no version ever becomes champion.
ReviewBlocksPromotion ==
    ReviewFirstN > 0 => \A m \in Members : Approved(m) = {} /\ champion[m] = 0

\* The champion alias as PromotionContract specifies it.
Contract == INSTANCE PromotionContract WITH
    Version <- 1..MaxVersions,
    approved <- [m \in Members |-> Approved(m)], alias <- champion

ImplementsContract == Contract!Spec

-----------------------------------------------------------------------------
(* The inductive invariant of the proofs *)

Deciding(a) == attempt[a].pc \in {"evaluate", "commit"}

\* Attempts and decisions only ever hold versions that were registered.
VersionsRegistered ==
    /\ \A m \in Members : registered[m] <= MaxVersions
    /\ \A r \in audit :
           r.event # "model.rollback" => r.version <= registered[r.member]
    /\ \A a \in Attempts : attempt[a].pc \in {"evaluate", "commit", "promote"} =>
           attempt[a].version <= registered[attempt[a].member]

\* A version an attempt is deciding has no decision yet, nor a second decider.
UndecidedInFlight ==
    \A a \in Attempts : Deciding(a) /\ attempt[a].version # 0 =>
        /\ \A r \in audit :
               r.event # "model.rollback" /\ r.member = attempt[a].member =>
                   r.version # attempt[a].version
        /\ \A b \in Attempts \ {a} :
               Deciding(b) /\ attempt[b].member = attempt[a].member =>
                   attempt[b].version # attempt[a].version

\* Only a registered version is approved, and its approval is committed before
\* the attempt reaches the registry call.
ApprovedBeforePromote ==
    \A a \in Attempts :
        /\ attempt[a].pc = "commit" /\ attempt[a].approved => attempt[a].version # 0
        /\ attempt[a].pc = "promote" =>
               /\ attempt[a].version # 0
               /\ attempt[a].version \in Approved(attempt[a].member)

\* A check that is about to roll back has a target older than an approved
\* version, however the alias has moved since it chose the target.
RollbackTargetOlder ==
    \A d \in Monitors : monitor[d].pc \in {"current", "alias"} =>
        /\ monitor[d].previous # 0
        /\ champion[monitor[d].member] # 0
        /\ \E p \in Approved(monitor[d].member) : monitor[d].previous < p

IInv ==
    /\ TypeOK
    /\ VersionsRegistered
    /\ UndecidedInFlight
    /\ DecidedOnce
    /\ ApprovedBeforePromote
    /\ ChampionNotAheadOfGate
    /\ RollbackTargetOlder

=============================================================================

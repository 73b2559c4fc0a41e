--------------------------- MODULE EnsembleModels ---------------------------
(* The ML ensemble as the pipeline sees it: the tracking store's runs, which *)
(* one a load finds, what the trainers need and which rows each member may   *)
(* score.  The models' decisions are the environment's choice.               *)
EXTENDS FeatureAssembly

CONSTANTS
    WindowLength,   \* window_length_hours of the autoencoder
    MaxFlagged      \* bound: rows one member flags in one analysis

ASSUME EnsembleAssumption == WindowLength \in Nat \ {0} /\ MaxFlagged \in Nat

Members == {"isolation_forest", "autoencoder"}

(* A run of the tracking store, in start order.  It exists, with its tags,   *)
(* from the moment it starts; its artifacts are complete when ready.         *)
NewRun(rules) == [rules |-> rules, ready |-> FALSE]

(* _find_latest_run(): the newest start, whatever became of it; 0 is         *)
(* ModelNotRegisteredError.                                                  *)
FindLatestRun(runs) == Len(runs)

(* Mutant: a run counts as loaded whether or not its artifacts are there.    *)
Loads_Unfinished(runs) == FindLatestRun(runs) # 0

(* Reading a run's artifacts fails unless they were all logged.              *)
Complete(run) == run.ready

(* load_*(): fails when there is no run or its artifacts are missing.        *)
Loads(runs) == FindLatestRun(runs) # 0 /\ Complete(runs[FindLatestRun(runs)])

(* IsolationForestTrainer.train(): the run it starts, none where fewer than  *)
(* two usable rows raise ValueError first.                                   *)
TrainForest(features) ==
    IF Cardinality(UsableRows(features)) < 2 THEN {} ELSE {NewRun(CollectRuleIds(features))}

(* AutoencoderTrainer.train() needs one row more than a window.              *)
TrainAutoencoder(features) ==
    IF Cardinality(UsableRows(features)) < WindowLength + 1 THEN {}
    ELSE {NewRun(CollectRuleIds(features))}

(* The run a training activity starts; while there is none, it is retried.   *)
Train(member, features) ==
    IF member = "isolation_forest" THEN TrainForest(features) ELSE TrainAutoencoder(features)

(* Mutant: low-quality rows are scored like the others.                      *)
IsolationForestRows_All(features) == DOMAIN features

(* _run_isolation_forest(): every usable row.                                *)
IsolationForestRows(features) == UsableRows(features)

(* The rows up to r.                                                         *)
UpTo(rows, r) == {q \in rows : InOrder(q, r)}

(* _run_autoencoder(): windows of WindowLength rows slide over the usable    *)
(* rows of all circuits in timestamp order; the last row of each window,     *)
(* which any row with enough rows up to it is, carries its error.            *)
AutoencoderRows(features) ==
    LET rows == UsableRows(features)
    IN  {r \in rows : Cardinality(UpTo(rows, r)) >= WindowLength}

(* The rows a member may flag, none when its model does not load.            *)
Flaggable(member, runs, features) ==
    IF ~Loads(runs) THEN {}
    ELSE IF member = "isolation_forest" THEN IsolationForestRows(features)
    ELSE AutoencoderRows(features)

(* Mutant: a member without a model raises instead of being left out.        *)
Flags_Registered(member, runs, features) ==
    IF ~Loads(runs) THEN {}
    ELSE {s \in SUBSET Flaggable(member, runs, features) : Cardinality(s) <= MaxFlagged}

(* score(): an ensemble anomaly is a row that either member flags.           *)
Flags(member, runs, features) ==
    {s \in SUBSET Flaggable(member, runs, features) : Cardinality(s) <= MaxFlagged}
=============================================================================

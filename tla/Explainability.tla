--------------------------- MODULE Explainability ---------------------------
(* Explainability bundles: what a finding says of its origin, as the rule    *)
(* engine and root-cause attribution store it.                               *)
EXTENDS EnsembleModels, ConfidenceCalibration

Layers == {"domain_rule", "ml_ensemble", "stl_residual"}

(* ExplainabilityBundle and its validators.                                  *)
IsBundle(b) ==
    /\ b.layers # {} /\ b.layers \subseteq Layers
    /\ b.layers = {"ml_ensemble"} => b.rules = {}
    /\ b.layers # {"domain_rule"} => b.top # {} /\ b.band # None
    /\ b.band # None => IsBand(b.band)

(* A rule's finding cites the rule, and has neither attributions nor a band. *)
RuleBundle(rule) == [layers |-> {"domain_rule"}, top |-> {}, rules |-> {rule}, band |-> None]

(* The features an explanation may name: SHAPExplainer attributes to every   *)
(* one of the forest's and keeps the largest.                                *)
Explain(forest) == FeatureNames(forest.rules)

(* assemble_ml_only(): no rule citations; a second layer where the row has a *)
(* residual.                                                                 *)
AssembleMlOnly(feature, forest, band) ==
    [layers |-> {"ml_ensemble"} \cup (IF feature.residual THEN {"stl_residual"} ELSE {}),
     top |-> Explain(forest), rules |-> {}, band |-> band]
=============================================================================

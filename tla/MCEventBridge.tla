---------------------------- MODULE MCEventBridge ----------------------------
(* Instances of EventBridge for TLC.                                        *)
EXTENDS EventBridge

CONSTANT w1

OneWorkflow == {w1}
=============================================================================

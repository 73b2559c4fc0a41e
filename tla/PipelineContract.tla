-------------------------- MODULE PipelineContract --------------------------
(***************************************************************************)
(* What an analysis run promises to whoever started it and to the reviewer *)
(* of its findings: a rejected run never writes a finding, a run asks for  *)
(* review only after its analysis, its outcome is final, and it completes  *)
(* only once a reviewer's signal has arrived, which may happen before the  *)
(* run waits for it.  AnalysisPipeline implements this specification.      *)
(***************************************************************************)
CONSTANT Runs

VARIABLES
    phase,             \* phase of each run as its starter sees it
    signalled,         \* runs whose human_review_completed signal has arrived
    wrote              \* runs with findings in the database

Init ==
    /\ phase = [r \in Runs |-> "analysing"]
    /\ signalled = {}
    /\ wrote = {}

Reject(r) ==
    /\ phase[r] = "analysing" /\ r \notin wrote
    /\ phase' = [phase EXCEPT ![r] = "rejected"]
    /\ UNCHANGED <<signalled, wrote>>

Write(r) ==
    /\ phase[r] # "rejected"
    /\ wrote' = wrote \cup {r}
    /\ UNCHANGED <<phase, signalled>>

AskForReview(r) ==
    /\ phase[r] = "analysing"
    /\ phase' = [phase EXCEPT ![r] = "review"]
    /\ UNCHANGED <<signalled, wrote>>

Signal(r) ==
    /\ signalled' = signalled \cup {r}
    /\ UNCHANGED <<phase, wrote>>

Complete(r) ==
    /\ phase[r] = "review" /\ r \in signalled
    /\ phase' = [phase EXCEPT ![r] = "completed"]
    /\ UNCHANGED <<signalled, wrote>>

Next ==
    \E r \in Runs :
        Reject(r) \/ Write(r) \/ AskForReview(r) \/ Signal(r) \/ Complete(r)

Spec == Init /\ [][Next]_<<phase, signalled, wrote>>

=============================================================================

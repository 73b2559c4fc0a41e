-------------------------- MODULE PromotionContract --------------------------
(***************************************************************************)
(* What the promotion gate and the rollback monitor promise together about *)
(* the champion alias of each ensemble member of one building: the gate    *)
(* approves a version at most once, the alias is put on approved versions, *)
(* and the only other place it may go is a version strictly older than one *)
(* the gate has approved.  ModelLifecycle implements this specification.   *)
(***************************************************************************)
EXTENDS Integers

CONSTANTS
    Members,           \* ensemble members, each with its own registered model
    Version            \* version numbers, a set of positive integers

VARIABLES
    approved,          \* versions the gate has approved, per member
    alias              \* the version carrying the champion alias, 0 for none

Init ==
    /\ approved = [m \in Members |-> {}]
    /\ alias = [m \in Members |-> 0]

Approve(m) ==
    /\ \E v \in Version \ approved[m] :
           approved' = [approved EXCEPT ![m] = @ \cup {v}]
    /\ UNCHANGED alias

Promote(m) ==
    /\ \E v \in approved[m] : alias' = [alias EXCEPT ![m] = v]
    /\ UNCHANGED approved

Rollback(m) ==
    /\ alias[m] # 0
    /\ \E p \in approved[m] : \E v \in 1..(p - 1) :
           alias' = [alias EXCEPT ![m] = v]
    /\ UNCHANGED approved

Next == \E m \in Members : Approve(m) \/ Promote(m) \/ Rollback(m)

Spec == Init /\ [][Next]_<<approved, alias>>

=============================================================================

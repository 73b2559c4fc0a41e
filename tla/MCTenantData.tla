---------------------------- MODULE MCTenantData ----------------------------
(* Instances of TenantData for TLC.                                         *)
EXTENDS TenantData, TLC

CONSTANTS t1, t2, b1, b2

TwoTenants == {t1, t2}
TwoBuildings == {b1, b2}
Symmetry == Permutations(TwoTenants) \cup Permutations(TwoBuildings)
=============================================================================

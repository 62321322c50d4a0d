--------------------------- MODULE MCTenantCaches ---------------------------
(* TenantCaches for TLC: two settings, bindings that live half as long as  *)
(* the others, a quota of none, one and two calls a minute.                *)
EXTENDS TenantCaches, TLC

CONSTANTS v1, v2, p1, p2

AllKinds == Names
Lives  == [k \in AllKinds |-> IF k = "tools" THEN 1 ELSE 2]
Limits == (v1 :> 0) @@ (v2 :> 2) @@ (None :> 1)
TwoProcesses == {p1, p2}
Alike == Permutations(TwoProcesses)
=============================================================================

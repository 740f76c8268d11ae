---------------------------- MODULE MCTenantUsage ---------------------------
(***************************************************************************)
(* TenantUsage for TLC.  The free plan has limits of one, the other has none.  *)
(***************************************************************************)
EXTENDS TenantUsage, TLC

MCPlans == {"free", "pro"}

MCResources == {"storage_mb"}

MCCatalogue == [p \in MCPlans |-> [k \in MCResources \cup {"team_members"} |-> IF p = "free" THEN 1 ELSE None]]

MCLimits == {1, None}

Symmetry == Permutations(Users) \cup Permutations(Workers)

=============================================================================

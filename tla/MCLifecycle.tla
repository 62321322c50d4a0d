---------------------------- MODULE MCLifecycle ----------------------------
(* Lifecycle for TLC.  The environments are three: one that may be shipped  *)
(* to, one in production, and the fallback.                                 *)
EXTENDS Lifecycle

CONSTANTS staging, qa, prod

EnvsThree == {staging, qa, prod}
ProdOnly  == {prod}

Seed(t, e, cs) == [tasks |-> t, target_environment |-> e, deploy_candidates |-> cs]

\* No seed, a seeded build, and candidate lists with production in front.
SeedsShip == {Seed(FALSE, None, <<>>), Seed(TRUE, None, <<prod, qa>>),
              Seed(TRUE, prod, <<prod>>)}
SeedsNight == {Seed(TRUE, None, <<prod, qa>>)}
=============================================================================

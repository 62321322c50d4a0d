------------------------------- MODULE MCStores -------------------------------
(* Stores for TLC: two turns of two projects, one import.                  *)
EXTENDS Stores, TLC

CONSTANTS p1, p2, t1, t2, i1, b1

TwoProjects == {p1, p2}
TwoTurns    == {t1, t2}
OneImport   == {i1}
OneBranch   == {b1}
BothKinds   == {"memory", "postgres"}
Alike       == Permutations(TwoTurns)

\* Deletions change nothing in memory, and claims and talk
\* never see each other: what breaks a property breaks it without them.
Telling ==
    /\ Postgres \/ \A p \in Projects : project[p] = "alive"
    /\ transcript = Empty \/ \A k \in DOMAIN tasks : tasks[k].branch = None
=============================================================================

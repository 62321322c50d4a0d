----------------------------- MODULE MCWorkspace -----------------------------
(* Workspace for TLC: an import and a second one, overlapping or repeated. *)
EXTENDS Workspace, TLC

CONSTANTS k1, k2, k3, k4, n1, n2, i1, i2, e1, e2

FourIds    == {k1, k2, k3, k4}
TwoNames   == {n1, n2}
TwoImports == {i1, i2}
TwoEvents  == {e1, e2}
AllModes   == {"memory", "mixed", "postgres"}

\* Nothing yet, an initiative and a squad of a domain, or a squad with a repository and a
\* project of both.
Empty     == [k \in FourIds |-> Blank]
Owned(n)  == [Empty EXCEPT ![k1] = Row("domain", n, None), ![k2] = Row("squad", n, k1),
                          ![k3] = Row("initiative", n, None)]
Linked(n) == [Empty EXCEPT ![k1] = Row("squad", n, None),
                           ![k2] = Row("repository", n, k1),
                           ![k3] = [Row("project", n, k1) EXCEPT !.repo = k2]]
Tables == {Empty} \cup {Owned(n) : n \in TwoNames} \cup {Linked(n) : n \in TwoNames}

Alike == Permutations(TwoNames) \cup Permutations(TwoImports) \cup Permutations(TwoEvents)
=============================================================================

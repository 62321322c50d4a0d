---------------------------- MODULE MCBuildLoop ----------------------------
(* BuildLoop for TLC: every dependency relation on three tasks, cycles      *)
(* included, and on a chain every pattern of failures.                      *)
EXTENDS BuildLoop

CONSTANTS a, b, c

List3 == <<a, b, c>>

Unannotated == [t \in Tasks |-> 0]
Chain == [t \in Tasks |-> CASE t = a -> {b} [] t = b -> {c} [] OTHER -> {}]
Fork  == [t \in Tasks |-> IF t = a THEN {b, c} ELSE {}]

Plan(l, d, w, f, y, n, r) ==
    [listed |-> l, depends_on |-> d, wave |-> w, fails |-> f, layers |-> y,
     night |-> n, runner |-> r]

Never == [t \in Tasks |-> 0]
Hard  == [t \in Tasks |-> IF t = b THEN 2 ELSE 3]

\* Graphs: every relation, unannotated; half-annotated and planned chains.
Graphs == {Plan(Tasks, d, Unannotated, Never, {}, TRUE, "simulated") :
              d \in {d \in [Tasks -> SUBSET Tasks] : \A t \in Tasks : t \notin d[t]}}
Annotated == {build_tree(Plan(Tasks, d, Unannotated, Never, {}, TRUE, "simulated")) :
                  d \in {Chain, Fork}}
             \cup {Plan(Tasks, Chain, [Unannotated EXCEPT ![a] = 1], Never, {}, TRUE, "simulated"),
                   Plan({a, c}, Chain, Unannotated, Hard, {}, FALSE, "simulated"),
                   Plan({}, Chain, Unannotated, Hard, {}, FALSE, "simulated")}
Failures == {Plan({a, b}, Chain, Unannotated, f, y, n, "simulated") :
                f \in [Tasks -> {0, 2, 3}], y \in {{}, {"unit", "perf"}}, n \in BOOLEAN}
            \cup {Plan(Tasks, Chain, Unannotated, [t \in Tasks |-> 7], {}, FALSE, "simulated")}
Real == {Plan({a, b}, Chain, Unannotated, Never, {}, n, "subprocess") : n \in BOOLEAN}

PlansAll  == Graphs \cup Annotated \cup Failures \cup Real
Again     == {Plan({a}, Fork, Unannotated, Hard, {"unit"}, FALSE, "simulated")}

ASSUME AnnotationsClimb == \A p \in PlansAll \cup Again : AnnotationClimbs(p)
=============================================================================

--------------------------- MODULE MCTurnRuntime ---------------------------
(* TurnRuntime and its refinement for TLC: one thread and three gate ids.  *)
EXTENDS TurnRefinement

CONSTANTS t1, r1, r2, g1, g2, g3

ThreadOne   == {t1}
RequestTwo  == {r1, r2}
GatesThree  == {g1, g2, g3}

\* The ids are interchangeable: drawing them in one order loses only behaviours
\* that differ in their names.  A SYMMETRY set would not do for the temporal
\* properties.
DrawnInOrder ==
    /\ status[g2] # "unused" => status[g1] # "unused"
    /\ status[g3] # "unused" => status[g2] # "unused"
=============================================================================

---------------------------- MODULE MCClickstream ----------------------------
(* Clickstream for TLC: a budget of two units with two thresholds, which may *)
(* be doubled.                                                             *)
EXTENDS Clickstream, TLC

CONSTANT e1

OneEmitter == {e1}
AllSinks   == {"postgres", "stream"}
AllBudgets == {[limit |-> 2, pcts |-> {50, 100}], [limit |-> 4, pcts |-> {50}]}
=============================================================================

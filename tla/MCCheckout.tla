------------------------------ MODULE MCCheckout ------------------------------
(* Checkout for TLC: two turns on one feature or on two.                   *)
EXTENDS Checkout, TLC

CONSTANTS t1, t2, b1, b2

TwoTurns    == {t1, t2}
TwoBranches == {b1, b2}
BothWays    == {"command", "other"}
Alike       == Permutations(TwoTurns) \cup Permutations(TwoBranches)
=============================================================================

----------------------------- MODULE MCFailover -----------------------------
(* Failover for TLC: two accounts at one vendor behind the primary.        *)
EXTENDS Failover

CONSTANTS vendor, c1, c2

TwoAccounts == <<vendor, vendor>>
=============================================================================

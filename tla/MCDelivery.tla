------------------------------ MODULE MCDelivery ------------------------------
(* Delivery for TLC: two requests in flight and two sockets; in memory two  *)
(* things break, otherwise one.                                            *)
EXTENDS Delivery, TLC

CONSTANTS s1, s2, c1, c2

TwoSlots == {s1, s2}
TwoConns == {c1, c2}
AllModes == {"memory", "redis", "arq"}
Breaks   == [m \in AllModes |-> IF m = "memory" THEN 2 ELSE 1]
Tokens   == [m \in AllModes |-> IF m = "redis" THEN 1 ELSE 0]
=============================================================================

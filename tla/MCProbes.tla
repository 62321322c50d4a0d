------------------------------- MODULE MCProbes -------------------------------
(* Probes for TLC.  The tests of the console and the rest share nothing but *)
(* the clock, so behaviours that have both are cut off.                     *)
EXTENDS Probes, TLC

CONSTANTS a1, a2, q1, q2, p1, p2, k1, k2

TwoAdmins    == {a1, a2}
TwoScrapers  == {q1, q2}
TwoProviders == {p1, p2}
TwoKeys      == {k1, k2}

\* The console tests what is saved, and what is typed in; the route also
\* takes a saved scope with a key typed in.
SomeRequests ==
    {[scope |-> s, saved |-> TRUE, inline |-> None] : s \in Scopes}
    \cup {[scope |-> None, saved |-> FALSE, inline |-> None]}
    \cup {[scope |-> Agent, saved |-> TRUE, inline |-> k1]}

\* Every key is of the first provider or the second; headers come once.
R(p, k, h) == [provider |-> p, key |-> k, headers |-> h]
SomeRows  == {R(p1, None, FALSE), R(p1, k1, FALSE), R(p2, k2, FALSE), R(p1, k1, TRUE)}
NoRows    == [s \in Scopes |-> None]
SomeStarts ==
    {[s \in Scopes |-> IF s = Org THEN org ELSE agent] :
        org \in SomeRows \cup {None}, agent \in {R(p1, None, FALSE), R(p1, k2, FALSE), None}}

\* Who does something in a behaviour: the console at one moment, the limiter
\* over time with candidates only, or the instance.
Quiet    == (\A q \in Scrapers : scrape[q] = AtRest) /\ trouble = 0
            /\ status = "unprobed" /\ loop = "rest" /\ upstream /\ db.up
Blank    == rows = NoRows
Unscoped == \A a \in Admins : job[a].at # "idle" => job[a].req.scope = None
Apart == \/ Quiet /\ clock = 0
         \/ Quiet /\ Blank /\ Unscoped
         \/ Blank /\ acts = 0
=============================================================================

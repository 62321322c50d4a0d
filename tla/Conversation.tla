---------------------------- MODULE Conversation ----------------------------
(***************************************************************************)
(* What the turn runtime promises the people who use a thread: a           *)
(* conversation that works, then asks one question or finishes; that takes *)
(* one answer per question and uses it at most once; and that can always   *)
(* be restarted by a command.  A thread whose clients overlap requests, or *)
(* send a command over an open question, leaves the promise for good.      *)
(***************************************************************************)
CONSTANTS
    Threads,
    Questions,  \* what can be asked
    None        \* no question; not one of Questions

VARIABLES
    mode,      \* per thread: idle, working, asking, stuck or untrusted
    question,  \* per thread: the question asked, or answered and not yet used
    used       \* per thread: the questions whose answers were used

vars == <<mode, question, used>>

Init ==
    /\ mode     = [t \in Threads |-> "idle"]
    /\ question = [t \in Threads |-> None]
    /\ used     = [t \in Threads |-> {}]

To(t, m, q, u) ==
    /\ mode'     = [mode EXCEPT ![t] = m]
    /\ question' = [question EXCEPT ![t] = q]
    /\ used'     = [used EXCEPT ![t] = u]

\* A command: nobody is asked anything at the moment.
Begin(t) == mode[t] \in {"idle", "stuck"} /\ To(t, "working", None, used[t])

\* The pending answer goes into the work.
Use(t) ==
    /\ mode[t] = "working" /\ question[t] # None
    /\ To(t, "working", None, used[t] \cup {question[t]})

\* Only a question never answered before is asked.
Ask(t) ==
    /\ mode[t] = "working" /\ question[t] = None
    /\ \E q \in Questions \ used[t] : To(t, "asking", q, used[t])

\* The answer is accepted, to exactly the question being asked.
Accept(t) == mode[t] = "asking" /\ To(t, "working", question[t], used[t])

Finish(t) == mode[t] = "working" /\ question[t] = None /\ To(t, "idle", None, used[t])

\* The work raises, before the pending answer was used or because of it.
Break(t) ==
    /\ mode[t] = "working"
    /\ \E u \in {used[t], used[t] \cup ({question[t]} \ {None})} :
          To(t, "stuck", None, u)

\* Misuse by the clients: from here on nothing is promised.
Distrust(t) == mode[t] # "untrusted" /\ To(t, "untrusted", None, {})

\* The engine restarts: every conversation has to be begun again.
Crash ==
    /\ mode' = [t \in Threads |-> IF mode[t] = "untrusted" THEN "untrusted" ELSE "stuck"]
    /\ question' = [t \in Threads |-> None]
    /\ UNCHANGED used

Next ==
    \/ \E t \in Threads :
          \/ Begin(t) \/ Use(t) \/ Ask(t) \/ Accept(t)
          \/ Finish(t) \/ Break(t) \/ Distrust(t)
    \/ Crash

Working(t) == Use(t) \/ Ask(t) \/ Finish(t) \/ Break(t)

Spec == Init /\ [][Next]_vars /\ \A t \in Threads : WF_vars(Working(t))

=============================================================================

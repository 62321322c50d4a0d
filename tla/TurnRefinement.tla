--------------------------- MODULE TurnRefinement ---------------------------
(***************************************************************************)
(* TurnRuntime implements Conversation: the state a client can rely on, as *)
(* a function of the engine's state.                                       *)
(***************************************************************************)
EXTENDS TurnRuntime

\* The element of a set of one.
Only(S) == CHOOSE x \in S : TRUE

\* The gate whose answer the request at work on a thread carries and has not fed.
Carried(t) == {g \in {gate[r] : r \in InFlight(t)} \ {None} : fed[g] = {}}

Mode(t) ==
    IF ~Trusted(t) THEN "untrusted"
    ELSE IF ~Quiescent(t) THEN "working"
    ELSE IF excuse[t] # "none" THEN "stuck"
    ELSE IF OpenOn(t) # {} THEN "asking"
    ELSE "idle"

\* The gates whose question is being asked, or answered and not yet used.
Pending(t) ==
    CASE Mode(t) = "asking"  -> OpenOn(t)
      [] Mode(t) = "working" -> Carried(t)
      [] OTHER               -> {}

Question(t) == IF Pending(t) = {} THEN None ELSE asks[Only(Pending(t))]

Used(t) ==
    IF Trusted(t)
    THEN {f.pause : f \in {e \in UNION {fed[g] : g \in Gates} : e.pause.thread = t}}
    ELSE {}

\* The interrupts a trusted thread can ask.
Askable == [thread : Threads, run : 1 .. MaxRuns, at : 1 .. Last]

ASSUME NoneIsNoQuestion == None \notin Askable

Conv == INSTANCE Conversation WITH
            Questions <- Askable,
            mode      <- [t \in Threads |-> Mode(t)],
            question  <- [t \in Threads |-> Question(t)],
            used      <- [t \in Threads |-> Used(t)]

\* Every step of the handlers is a step of the conversation or none at all,
\* and a conversation at work comes to rest.
ImplementsConversation == Conv!Spec

=============================================================================

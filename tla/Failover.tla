------------------------------ MODULE Failover ------------------------------
(***************************************************************************)
(* LLM completions of one organization: FactoryCompletionBackend walks the *)
(* primary provider and then the failover chain, CircuitBreaker keeps its  *)
(* verdict on each fallback in Redis keys that expire, RateLimit may turn  *)
(* an attempt down.  Calls run in several threads and workers at once, so  *)
(* each Redis command is a step of its own; any of them may fail, and then *)
(* the machinery fails open.  Time is counted in ticks; a key is gone when *)
(* its time to live is used up.                                            *)
(***************************************************************************)
EXTENDS Integers, Sequences, FiniteSets, Nothing

CONSTANTS
    Calls,       \* callers of completions, each with one at a time
    Streamers,   \* those that call stream(); the others call complete()
    Chain,       \* breaker keys of failover_chain, in the admin's order
    Threshold, Window, Cooldown, ProbeTtl  \* of the breaker; times in ticks

Ranks == 0..Len(Chain)
Keys  == {Chain[i] : i \in 1..Len(Chain)}

ASSUME FailoverAssumption ==
    /\ Len(Chain) \in Nat \ {0}
    /\ Streamers \subseteq Calls
    /\ Threshold \in Nat /\ Threshold >= 2
    /\ {Window, Cooldown, ProbeTtl} \subseteq Nat \ {0}

VARIABLES
    call,      \* the completion in each slot
    fails, failsTtl,             \* the failure counter of a breaker key
    openTtl, halfTtl, probeTtl   \* its state, half and probe keys; 0: no key

breaker == <<fails, failsTtl, openTtl, halfTtl, probeTtl>>
vars    == <<call, breaker>>

-----------------------------------------------------------------------------
NoExpiry == -1  \* what Redis calls the time to live of a key without one
Errors  == {"retriable", "final"}  \* classify(); "auth" and "fatal" are one
Working == {"next", "half", "probe", "call", "won", "lost", "reopen", "reopen2", "reopen3"} \cup
           {"incr", "expire", "trip", "trip2", "trip3", "trip4"}

\* What a completion is: the candidate it is at, the last error, and the
\* candidates whose text its caller has received.
CallType == [pc : {"idle", "empty"} \cup Working, rank : Ranks,
             err : Errors \cup {None}, voices : SUBSET Ranks]
Idle == [pc |-> "idle", rank |-> 0, err |-> None, voices |-> {}]

Key(c)  == Chain[call[c].rank]
Goto(c, step) == call' = [call EXCEPT ![c].pc = step]

\* The completion has returned or raised, and the slot is free.
End(c) == call' = [call EXCEPT ![c] = Idle]

Init ==
    /\ call = [c \in Calls |-> Idle]
    /\ fails = [k \in Keys |-> 0] /\ failsTtl = [k \in Keys |-> 0]
    /\ openTtl = [k \in Keys |-> 0]
    /\ halfTtl = [k \in Keys |-> 0]
    /\ probeTtl = [k \in Keys |-> 0]

-----------------------------------------------------------------------------
(* The walk along the candidates.                                          *)

\* A candidate is passed over: its entry cannot be built, or its breaker
\* says no.  A completion at the end of the chain raises the last error; a
\* stream's loop only finds its queue empty.
Skip(c) ==
    LET r == call[c]
    IN  call' = [call EXCEPT ![c] =
            IF r.rank < Len(Chain) THEN [r EXCEPT !.rank = @ + 1, !.pc = "next"]
            ELSE [Idle EXCEPT !.pc = IF c \in Streamers THEN "empty" ELSE "idle"]]

\* Mutants: a committed stream fails over; the chain does not advance.
Failed_MidStream(r) ==
    IF r.err # "retriable" \/ r.rank = Len(Chain) THEN {Idle}
    ELSE {[r EXCEPT !.pc = "next", !.rank = @ + 1]} \cup (IF r.rank = 0 THEN {Idle} ELSE {})
Failed_Again(r) ==
    IF r.err # "retriable" \/ r.voices # {} THEN {Idle}
    ELSE {[r EXCEPT !.pc = "next", !.rank = 1]} \cup (IF r.rank = 0 THEN {Idle} ELSE {})

\* The chain is read after the first incident; it may be empty, switched off
\* or unreadable, and then the error is raised.
Fallbacks(r) ==
    {[r EXCEPT !.pc = "next", !.rank = @ + 1]} \cup (IF r.rank = 0 THEN {Idle} ELSE {})

\* An attempt failed and the breaker knows: the next candidate is tried only
\* after an incident of the provider, and only while nothing was said.  At the
\* end of the chain the error is raised.
Failed(r) ==
    IF r.err # "retriable" \/ r.voices # {} \/ r.rank = Len(Chain) THEN {Idle}
    ELSE Fallbacks(r)

Fall(c) == \E next \in Failed(call[c]) : call' = [call EXCEPT ![c] = next]

\* The factory resolves the primary (when it cannot, the completion is over
\* before it began).
Primary == [Idle EXCEPT !.pc = "call"]

\* A node asks for a completion.
Ask(c) ==
    /\ call[c].pc \in {"idle", "empty"}
    /\ call' = [call EXCEPT ![c] = Primary]
    /\ UNCHANGED breaker

\* A chain entry is built only when it is reached; one whose key cannot be
\* resolved or whose provider is not allowed is passed over.
Broken(c) ==
    /\ call[c].pc = "next"
    /\ Skip(c)
    /\ UNCHANGED breaker

\* RateLimit refuses the attempt before it is made.  That is raised at once:
\* the organization's own quota is no incident of a provider.
Limited(c) ==
    /\ call[c].pc = "call" /\ call[c].voices = {}
    /\ End(c)
    /\ UNCHANGED breaker

\* The provider fails; a fallback's breaker has to hear of it.
Refuse(c, e) ==
    /\ call[c].pc = "call"
    /\ LET r == [call[c] EXCEPT !.err = e]
       IN  IF r.rank = 0 THEN \E next \in Failed(r) : call' = [call EXCEPT ![c] = next]
           ELSE call' = [call EXCEPT ![c] = [r EXCEPT !.pc = "lost"]]
    /\ UNCHANGED breaker

\* The provider has answered in full.
Finish(c) ==
    /\ call[c].pc = "call"
    /\ IF call[c].rank = 0 THEN End(c) ELSE Goto(c, "won")
    /\ UNCHANGED breaker

\* A stream hands over its first chunk of text: it is committed.
Speak(c) ==
    /\ c \in Streamers /\ call[c].pc = "call"
    /\ call[c].rank \notin call[c].voices
    /\ call' = [call EXCEPT ![c].voices = @ \cup {call[c].rank}]
    /\ UNCHANGED breaker

\* The reader of a stream goes away between two chunks: GeneratorExit is no
\* Exception, so neither recorder is called.
Close(c) ==
    /\ call[c].pc = "call" /\ call[c].rank \in call[c].voices
    /\ End(c)
    /\ UNCHANGED breaker

-----------------------------------------------------------------------------
(* CircuitBreaker.allow                                                    *)

\* GET state: an open breaker turns the caller away.
ReadState(c) ==
    /\ call[c].pc = "next"
    /\ IF openTtl[Key(c)] # 0 THEN Skip(c)
                              ELSE Goto(c, "half")
    /\ UNCHANGED breaker

\* GET half: outside a half-open window the caller goes ahead.
SeeWindow(c) ==
    /\ call[c].pc = "half"
    /\ Goto(c, IF halfTtl[Key(c)] = 0 THEN "call" ELSE "probe")
    /\ UNCHANGED breaker

\* SET probe NX: the token admits one.
TakeProbe(c) ==
    /\ call[c].pc = "probe"
    /\ IF probeTtl[Key(c)] # 0
       THEN Skip(c) /\ UNCHANGED probeTtl
       ELSE Goto(c, "call") /\ probeTtl' = [probeTtl EXCEPT ![Key(c)] = ProbeTtl]
    /\ UNCHANGED <<fails, failsTtl, openTtl, halfTtl>>

-----------------------------------------------------------------------------
(* CircuitBreaker.record_success and record_failure                        *)

\* DEL fails, state, half, probe: the breaker is closed.
Close4(k) ==
    /\ fails' = [fails EXCEPT ![k] = 0] /\ failsTtl' = [failsTtl EXCEPT ![k] = 0]
    /\ openTtl' = [openTtl EXCEPT ![k] = 0]
    /\ halfTtl' = [halfTtl EXCEPT ![k] = 0]
    /\ probeTtl' = [probeTtl EXCEPT ![k] = 0]

RecordSuccess(c) ==
    /\ call[c].pc = "won"
    /\ Close4(Key(c))
    /\ End(c)

\* GET half and GET state: a failure in a half-open window re-opens.
ReadHalf(c) ==
    /\ call[c].pc = "lost"
    /\ Goto(c, IF halfTtl[Key(c)] # 0 /\ openTtl[Key(c)] = 0 THEN "reopen" ELSE "incr")
    /\ UNCHANGED breaker

\* Mutants: the state key is set without an expiry; the half key lives longer.
SetState_ForGood(c, from, to) ==
    /\ call[c].pc = from
    /\ openTtl' = [openTtl EXCEPT ![Key(c)] = NoExpiry]
    /\ Goto(c, to)
    /\ UNCHANGED <<fails, failsTtl, halfTtl, probeTtl>>
SetHalf_Longer(c, from, to) ==
    /\ call[c].pc = from
    /\ halfTtl' = [halfTtl EXCEPT ![Key(c)] = 3 * Cooldown]
    /\ Goto(c, to)
    /\ UNCHANGED <<fails, failsTtl, openTtl, probeTtl>>

\* SET state and SET half, both with an expiry, when the breaker opens.
SetState(c, from, to) ==
    /\ call[c].pc = from
    /\ openTtl' = [openTtl EXCEPT ![Key(c)] = Cooldown]
    /\ Goto(c, to)
    /\ UNCHANGED <<fails, failsTtl, halfTtl, probeTtl>>

SetHalf(c, from, to) ==
    /\ call[c].pc = from
    /\ halfTtl' = [halfTtl EXCEPT ![Key(c)] = 2 * Cooldown]
    /\ Goto(c, to)
    /\ UNCHANGED <<fails, failsTtl, openTtl, probeTtl>>

\* The half-open probe failed: state, half, and the token is given back.
DropProbe(c) ==
    /\ call[c].pc = "reopen3"
    /\ probeTtl' = [probeTtl EXCEPT ![Key(c)] = 0]
    /\ Fall(c)
    /\ UNCHANGED <<fails, failsTtl, openTtl, halfTtl>>

\* INCR fails: the first failure starts the window, one at the threshold
\* may open the breaker (counts above it are alike).
Incr(c) ==
    /\ call[c].pc = "incr"
    /\ LET n == IF fails[Key(c)] = Threshold THEN Threshold ELSE fails[Key(c)] + 1
       IN  /\ fails' = [fails EXCEPT ![Key(c)] = n]
           /\ failsTtl' = [failsTtl EXCEPT ![Key(c)] = IF n = 1 THEN NoExpiry ELSE @]
           /\ CASE n = 1 -> Goto(c, "expire")
                [] n >= Threshold -> Goto(c, "trip")
                [] OTHER -> Fall(c)
    /\ UNCHANGED <<openTtl, halfTtl, probeTtl>>

Expire(c) ==
    /\ call[c].pc = "expire"
    /\ failsTtl' = [failsTtl EXCEPT ![Key(c)] = IF fails[Key(c)] = 0 THEN @ ELSE Window]
    /\ Fall(c)
    /\ UNCHANGED <<fails, openTtl, halfTtl, probeTtl>>

\* GET state: somebody else may have opened the breaker already.
StillClosed(c) ==
    /\ call[c].pc = "trip"
    /\ IF openTtl[Key(c)] # 0 THEN Fall(c)
                              ELSE Goto(c, "trip2")
    /\ UNCHANGED breaker

DropFails(c) ==
    /\ call[c].pc = "trip4"
    /\ fails' = [fails EXCEPT ![Key(c)] = 0]
    /\ failsTtl' = [failsTtl EXCEPT ![Key(c)] = 0]
    /\ Fall(c)
    /\ UNCHANGED <<openTtl, halfTtl, probeTtl>>

\* A Redis command fails: allow() and acquire() say yes, the recorders stop
\* where they are.
Outage(c) ==
    /\ \/ call[c].pc \in {"next", "half", "probe"} /\ Goto(c, "call")
       \/ call[c].pc = "won" /\ End(c)
       \/ /\ call[c].pc \in {"lost", "reopen", "reopen2", "reopen3",
                             "incr", "expire", "trip", "trip2", "trip3", "trip4"}
          /\ Fall(c)
    /\ UNCHANGED breaker

-----------------------------------------------------------------------------
Older(ttl) == [k \in Keys |-> IF ttl[k] \in {0, NoExpiry} THEN ttl[k] ELSE ttl[k] - 1]

\* Time passes for every key.
Tick ==
    /\ failsTtl' = Older(failsTtl)
    /\ fails' = [k \in Keys |-> IF failsTtl'[k] = 0 THEN 0 ELSE fails[k]]
    /\ openTtl' = Older(openTtl) /\ halfTtl' = Older(halfTtl) /\ probeTtl' = Older(probeTtl)
    /\ UNCHANGED call

Recorder(c) ==
    \/ RecordSuccess(c) \/ ReadHalf(c)
    \/ SetState(c, "reopen", "reopen2") \/ SetHalf(c, "reopen2", "reopen3") \/ DropProbe(c)
    \/ Incr(c) \/ Expire(c) \/ StillClosed(c)
    \/ SetState(c, "trip2", "trip3") \/ SetHalf(c, "trip3", "trip4") \/ DropFails(c)

Step(c) ==
    \/ Broken(c) \/ Limited(c) \/ Finish(c) \/ Speak(c) \/ Close(c)
    \/ \E e \in Errors : Refuse(c, e)
    \/ ReadState(c) \/ SeeWindow(c) \/ TakeProbe(c) \/ Recorder(c) \/ Outage(c)

Next == Tick \/ \E c \in Calls : Ask(c) \/ Step(c)

\* Clients of the providers have timeouts, so a call that was made ends; time
\* passes.  Nobody has to ask for anything.
Spec == Init /\ [][Next]_vars /\ WF_vars(Tick) /\ \A c \in Calls : WF_vars(Step(c))

-----------------------------------------------------------------------------
TypeOK ==
    /\ call \in [Calls -> CallType]
    /\ fails \in [Keys -> 0..Threshold]
    /\ failsTtl \in [Keys -> NoExpiry..Window]
    /\ openTtl \in [Keys -> NoExpiry..Cooldown]
    /\ halfTtl \in [Keys -> NoExpiry..(2 * Cooldown)]
    /\ probeTtl \in [Keys -> NoExpiry..ProbeTtl]

\* Candidates are changed only after an incident and before a word was said:
\* no answer is spliced from two models, no doomed request walks the chain.
FailoverWindow ==
    \A c \in Calls : call[c].rank > 0 =>
        /\ call[c].voices \subseteq {call[c].rank}
        /\ call[c].pc \in {"next", "half", "probe", "call", "won"} =>
               call[c].err = "retriable"

\* Whoever fails, the attempts of a completion are those the chain allows, one
\* after the other.
AttemptsAreInOrder == TypeOK /\ FailoverWindow

\* A fallback the breaker holds back is admitted again, whatever callers did
\* with its token.
Blocked(k) == openTtl[k] # 0 \/ (halfTtl[k] # 0 /\ probeTtl[k] # 0)
LockoutEnds == \A k \in Keys : Blocked(k) ~> ~Blocked(k)

\* Every completion that was asked for returns or raises.
CallsEnd == \A c \in Calls : call[c].pc \in Working ~> call[c].pc \notin Working
=============================================================================

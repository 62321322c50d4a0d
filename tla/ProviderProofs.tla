---------------------------- MODULE ProviderProofs ----------------------------
(***************************************************************************)
(* The providers of the models.  The walk along the failover chain, for    *)
(* any number of callers, any chain and any times of the breaker: a        *)
(* completion changes providers only after an incident and before a word   *)
(* was said, whatever Redis answers or fails to answer in between.  And    *)
(* what is said of their health, for any number of admins and scrapers:    *)
(* the chips of the console are true and its tests bounded, and            *)
(* /health/ready is never older than its cache and its check.              *)
(***************************************************************************)
EXTENDS Failover, Probes, TLAPS, FiniteSetTheorems

(* The inductive invariant is TypeOK and the soundness of each completion: *)
(* what the code need not check because its control flow got it there.     *)
Sound(r) ==
    /\ r.voices \subseteq {r.rank}
    /\ r.pc \in {"next", "half", "probe"} => r.voices = {}
    /\ r.pc \in Working \ {"call"} => r.rank > 0
    /\ r.rank > 0 /\ r.pc \in {"next", "half", "probe", "call", "won"} => r.err = "retriable"

IInv == TypeOK /\ \A c \in Calls : Sound(call[c])

CallsAreSound == call \in [Calls -> CallType] /\ \A c \in Calls : Sound(call[c])

BreakerType ==
    /\ fails \in [Keys -> 0..Threshold]
    /\ failsTtl \in [Keys -> NoExpiry..Window]
    /\ openTtl \in [Keys -> NoExpiry..Cooldown]
    /\ halfTtl \in [Keys -> NoExpiry..(2 * Cooldown)]
    /\ probeTtl \in [Keys -> NoExpiry..ProbeTtl]

LEMMA IInvIs == IInv <=> CallsAreSound /\ BreakerType
  BY DEF IInv, CallsAreSound, BreakerType, TypeOK

LEMMA Numbers ==
    /\ Len(Chain) \in Nat \ {0} /\ Threshold \in Nat /\ Threshold >= 2
    /\ Window \in Nat \ {0} /\ Cooldown \in Nat \ {0} /\ ProbeTtl \in Nat \ {0}
    /\ 2 * Cooldown \in Nat /\ 2 * Cooldown >= 1
<1>1. Cooldown \in Nat \ {0} BY FailoverAssumption
<1>2. 2 * Cooldown \in Nat /\ 2 * Cooldown >= 1 BY <1>1
<1> QED BY <1>1, <1>2, FailoverAssumption

-----------------------------------------------------------------------------
(* One completion's record at a time.                                      *)

LEMMA IdleIsSound == Idle \in CallType /\ Sound(Idle)
  BY Numbers DEF Idle, CallType, Sound, Ranks, Working

LEMMA CallGoes ==
  ASSUME CallsAreSound, NEW c \in Calls, NEW r \in CallType, Sound(r),
         call' = [call EXCEPT ![c] = r]
  PROVE  CallsAreSound'
<1>1. call' \in [Calls -> CallType] BY DEF CallsAreSound
<1>2. \A d \in Calls : call'[d] = IF d = c THEN r ELSE call[d] BY DEF CallsAreSound
<1>3. \A d \in Calls : Sound(call'[d]) BY <1>2 DEF CallsAreSound
<1> QED BY <1>1, <1>3 DEF CallsAreSound

LEMMA CallIs ==
  ASSUME CallsAreSound, NEW c \in Calls
  PROVE  /\ call[c] \in CallType /\ Sound(call[c])
         /\ call[c].rank \in Nat /\ call[c].rank <= Len(Chain)
         /\ call[c].pc \in Working \ {"call"} => Key(c) \in Keys
<1>1. call[c] \in CallType /\ Sound(call[c]) BY DEF CallsAreSound
<1>2. call[c].rank \in 0..Len(Chain) BY <1>1 DEF CallType, Ranks
<1>3. call[c].rank \in Nat /\ call[c].rank <= Len(Chain) BY <1>2, Numbers
<1>4. ASSUME call[c].pc \in Working \ {"call"} PROVE Key(c) \in Keys
  <2>1. call[c].rank > 0 BY <1>1, <1>4 DEF Sound
  <2>2. call[c].rank \in 1..Len(Chain) BY <2>1, <1>3, Numbers
  <2> QED BY <2>2 DEF Key, Keys
<1> QED BY <1>1, <1>3, <1>4

LEMMA EndIsSound ==
  ASSUME CallsAreSound, NEW c \in Calls, End(c)
  PROVE  CallsAreSound'
  BY IdleIsSound, CallGoes DEF End

\* From one step of the breaker to the next, nothing but the place changes.
LEMMA GotoIsSound ==
  ASSUME CallsAreSound, NEW c \in Calls, NEW step, Goto(c, step),
         \/ call[c].pc = "next" /\ step \in {"half", "call"}
         \/ call[c].pc = "half" /\ step \in {"probe", "call"}
         \/ call[c].pc = "probe" /\ step = "call"
         \/ call[c].pc = "call" /\ call[c].rank > 0 /\ step = "won"
         \/ /\ call[c].pc \in Working \ {"call"}
            /\ step \in {"lost", "reopen", "reopen2", "reopen3",
                         "incr", "expire", "trip", "trip2", "trip3", "trip4"}
  PROVE  CallsAreSound'
<1> DEFINE r == [call[c] EXCEPT !.pc = step]
<1>1. call[c] \in CallType /\ Sound(call[c]) BY CallIs
<1>2. step \in Working BY DEF Working
<1>3. r \in CallType BY <1>1, <1>2 DEF CallType
<1>4. r.pc = step /\ r.rank = call[c].rank /\ r.voices = call[c].voices /\ r.err = call[c].err
  BY <1>1 DEF CallType
<1>5. call[c].pc \in {"next", "half", "probe"} => call[c].voices = {} /\ call[c].err = "retriable"
  BY <1>1 DEF Sound, Working
<1>7. call[c].pc = "call" \/ call[c].rank > 0 BY <1>1 DEF Sound, Working
<1>6. call' = [call EXCEPT ![c] = r] BY <1>1 DEF Goto
<1> HIDE DEF r
<1>8. Sound(r)
  <2>1. CASE step \in {"half", "probe", "call"}
    BY <1>1, <1>4, <1>5, <1>7, <2>1 DEF Sound, Working
  <2>2. CASE step = "won" BY <1>1, <1>4, <1>7, <2>2 DEF Sound, Working
  <2>3. CASE step \notin {"half", "probe", "call", "won"}
    <3>1. step \notin {"next", "half", "probe", "call", "won"} /\ call[c].rank > 0
      BY <1>1, <1>7, <2>3 DEF Working
    <3> QED BY <1>1, <1>4, <3>1 DEF Sound
  <2> QED BY <2>1, <2>2, <2>3
<1> QED BY <1>3, <1>6, <1>8, CallGoes

LEMMA SkipIsSound ==
  ASSUME CallsAreSound, NEW c \in Calls, Skip(c), call[c].pc \in {"next", "half", "probe"}
  PROVE  CallsAreSound'
<1> DEFINE n == [call[c] EXCEPT !.rank = call[c].rank + 1, !.pc = "next"]
           e == [Idle EXCEPT !.pc = IF c \in Streamers THEN "empty" ELSE "idle"]
<1>1. call[c] \in CallType /\ Sound(call[c]) BY CallIs
<1>2. CASE call[c].rank < Len(Chain)
  <2>1. call[c].rank + 1 \in Ranks /\ call[c].rank + 1 > 0 BY <1>2, CallIs, Numbers DEF Ranks
  <2>2. n \in CallType BY <1>1, <2>1 DEF CallType, Working
  <2>3. n.pc = "next" /\ n.rank = call[c].rank + 1 /\ n.voices = call[c].voices
        /\ n.err = call[c].err
    BY <1>1 DEF CallType
  <2>4. call[c].voices = {} /\ call[c].err = "retriable" BY <1>1 DEF Sound, Working
  <2>5. Sound(n) BY <2>1, <2>3, <2>4 DEF Sound, Working
  <2>6. call' = [call EXCEPT ![c] = n] BY <1>2 DEF Skip
  <2> QED BY <2>2, <2>5, <2>6, CallGoes
<1>3. CASE ~(call[c].rank < Len(Chain))
  <2>1. e \in CallType BY Numbers DEF Idle, CallType, Ranks
  <2>2. e.pc \in {"idle", "empty"} /\ e.rank = 0 /\ e.voices = {} BY DEF Idle
  <2>3. Sound(e) BY <2>2 DEF Sound, Working
  <2>4. call' = [call EXCEPT ![c] = e] BY <1>3 DEF Skip
  <2> QED BY <2>1, <2>3, <2>4, CallGoes
<1> QED BY <1>2, <1>3

\* Wherever an attempt is given up: over, or at the next candidate with
\* nothing said and an incident behind it.
LEMMA FailedIsSound ==
  ASSUME NEW r \in CallType, NEW next \in Failed(r)
  PROVE  next \in CallType /\ Sound(next)
<1>1. CASE next = Idle BY <1>1, IdleIsSound
<1>2. CASE /\ r.err = "retriable" /\ r.voices = {} /\ r.rank # Len(Chain)
           /\ next = [r EXCEPT !.pc = "next", !.rank = r.rank + 1]
  <2>1. r.rank + 1 \in Ranks /\ r.rank + 1 > 0 BY <1>2, Numbers DEF CallType, Ranks
  <2>2. next \in CallType BY <1>2, <2>1 DEF CallType, Working
  <2>3. next.pc = "next" /\ next.rank = r.rank + 1 /\ next.voices = {} /\ next.err = "retriable"
    BY <1>2 DEF CallType
  <2>4. Sound(next) BY <2>1, <2>3 DEF Sound, Working
  <2> QED BY <2>2, <2>4
<1> QED BY <1>1, <1>2 DEF Failed, Fallbacks

LEMMA FallIsSound ==
  ASSUME CallsAreSound, NEW c \in Calls, Fall(c)
  PROVE  CallsAreSound'
<1>1. PICK next \in Failed(call[c]) : call' = [call EXCEPT ![c] = next] BY DEF Fall
<1>2. next \in CallType /\ Sound(next) BY CallIs, FailedIsSound
<1> QED BY <1>1, <1>2, CallGoes

LEMMA RefuseIsSound ==
  ASSUME CallsAreSound, NEW c \in Calls, NEW e \in Errors, Refuse(c, e)
  PROVE  CallsAreSound'
<1> DEFINE r == [call[c] EXCEPT !.err = e]
           l == [r EXCEPT !.pc = "lost"]
<1>1. call[c] \in CallType /\ Sound(call[c]) /\ call[c].rank \in Nat BY CallIs
<1>2. r \in CallType /\ r.rank = call[c].rank BY <1>1 DEF CallType
<1>3. CASE r.rank = 0
  <2>1. PICK next \in Failed(r) : call' = [call EXCEPT ![c] = next] BY <1>3 DEF Refuse
  <2>2. next \in CallType /\ Sound(next) BY <1>2, FailedIsSound
  <2> QED BY <2>1, <2>2, CallGoes
<1>4. CASE r.rank # 0
  <2>1. l \in CallType BY <1>2 DEF CallType, Working
  <2>2. l.pc = "lost" /\ l.rank = call[c].rank /\ l.voices = call[c].voices
    BY <1>1 DEF CallType
  <2>3. Sound(l) BY <1>1, <1>2, <1>4, <2>2 DEF Sound, Working
  <2>4. call' = [call EXCEPT ![c] = l] BY <1>4 DEF Refuse
  <2> QED BY <2>1, <2>3, <2>4, CallGoes
<1> QED BY <1>3, <1>4

LEMMA SpeakIsSound ==
  ASSUME CallsAreSound, NEW c \in Calls, Speak(c)
  PROVE  CallsAreSound'
<1> DEFINE r == [call[c] EXCEPT !.voices = @ \cup {call[c].rank}]
<1>1. call[c] \in CallType /\ Sound(call[c]) BY CallIs
<1>2. r \in CallType BY <1>1 DEF CallType
<1>3. r.pc = "call" /\ r.rank = call[c].rank /\ r.err = call[c].err
      /\ r.voices = call[c].voices \cup {call[c].rank}
  BY <1>1 DEF CallType, Speak
<1>4. Sound(r) BY <1>1, <1>3 DEF Sound, Speak
<1>5. call' = [call EXCEPT ![c] = r] BY DEF Speak
<1> QED BY <1>2, <1>4, <1>5, CallGoes

LEMMA AskIsSound ==
  ASSUME CallsAreSound, NEW c \in Calls, Ask(c)
  PROVE  CallsAreSound'
<1> DEFINE r == [Idle EXCEPT !.pc = "call"]
<1>1. r \in CallType BY Numbers DEF Idle, CallType, Ranks, Working
<1>2. Sound(r) BY DEF Sound, Idle
<1> QED BY <1>1, <1>2, CallGoes DEF Ask, Primary

-----------------------------------------------------------------------------
(* The keys of the breaker.                                                *)

LEMMA BreakerStays == ASSUME BreakerType, UNCHANGED breaker PROVE BreakerType'
  BY DEF BreakerType, breaker

LEMMA OlderIs ==
  ASSUME NEW n \in Nat, NEW ttl \in [Keys -> NoExpiry..n]
  PROVE  Older(ttl) \in [Keys -> NoExpiry..n]
<1>1. ASSUME NEW k \in Keys
      PROVE  (IF ttl[k] \in {0, NoExpiry} THEN ttl[k] ELSE ttl[k] - 1) \in NoExpiry..n
  BY DEF NoExpiry
<1> QED BY <1>1 DEF Older

LEMMA TickIsTyped == ASSUME BreakerType, Tick PROVE BreakerType'
<1>1. /\ failsTtl' \in [Keys -> NoExpiry..Window] /\ openTtl' \in [Keys -> NoExpiry..Cooldown]
      /\ halfTtl' \in [Keys -> NoExpiry..(2 * Cooldown)]
      /\ probeTtl' \in [Keys -> NoExpiry..ProbeTtl]
  BY OlderIs, Numbers DEF Tick, BreakerType
<1>2. fails' \in [Keys -> 0..Threshold] BY Numbers DEF Tick, BreakerType
<1> QED BY <1>1, <1>2 DEF BreakerType

LEMMA RecordersAreTyped ==
  ASSUME CallsAreSound, BreakerType, NEW c \in Calls, Recorder(c)
  PROVE  BreakerType'
<1>1. call[c].pc \in Working \ {"call"}
  BY DEF Recorder, RecordSuccess, ReadHalf, SetState, SetHalf, DropProbe, Incr, Expire,
         StillClosed, DropFails, Working
<1>2. Key(c) \in Keys BY <1>1, CallIs
<1>3. ASSUME RecordSuccess(c) PROVE BreakerType'
  BY <1>2, <1>3, Numbers DEF RecordSuccess, Close4, BreakerType, NoExpiry
<1>4. ASSUME ReadHalf(c) \/ StillClosed(c) PROVE BreakerType'
  BY <1>4, BreakerStays DEF ReadHalf, StillClosed
<1>5. ASSUME NEW from, NEW to, SetState(c, from, to) PROVE BreakerType'
  <2>1. Cooldown \in NoExpiry..Cooldown
    BY Numbers DEF NoExpiry
  <2>2. openTtl' \in [Keys -> NoExpiry..Cooldown]
    BY <1>5, <2>1 DEF SetState, BreakerType
  <2> QED BY <1>5, <2>2 DEF SetState, BreakerType
<1>6. ASSUME NEW from, NEW to, SetHalf(c, from, to) PROVE BreakerType'
  <2>1. 2 * Cooldown \in NoExpiry..(2 * Cooldown)
    BY Numbers DEF NoExpiry
  <2>2. halfTtl' \in [Keys -> NoExpiry..(2 * Cooldown)]
    BY <1>6, <2>1 DEF SetHalf, BreakerType
  <2> QED BY <1>6, <2>2 DEF SetHalf, BreakerType
<1>7. ASSUME DropProbe(c) PROVE BreakerType'
  BY <1>2, <1>7, Numbers DEF DropProbe, BreakerType, NoExpiry
<1>8. ASSUME Incr(c) PROVE BreakerType'
  <2> DEFINE n == IF fails[Key(c)] = Threshold THEN Threshold ELSE fails[Key(c)] + 1
             w == IF n = 1 THEN NoExpiry ELSE failsTtl[Key(c)]
  <2>1. n \in 0..Threshold BY <1>2, Numbers DEF BreakerType
  <2>2. w \in NoExpiry..Window BY <1>2, Numbers DEF BreakerType, NoExpiry
  <2>3. fails' = [fails EXCEPT ![Key(c)] = n] /\ failsTtl' = [failsTtl EXCEPT ![Key(c)] = w]
        /\ UNCHANGED <<openTtl, halfTtl, probeTtl>>
    BY <1>8 DEF Incr
  <2> HIDE DEF n, w
  <2> QED BY <2>1, <2>2, <2>3 DEF BreakerType
<1>9. ASSUME Expire(c) PROVE BreakerType'
  BY SMTT(30), <1>2, <1>9, Numbers DEF Expire, BreakerType, NoExpiry
<1>10. ASSUME DropFails(c) PROVE BreakerType'
  BY <1>2, <1>10, Numbers DEF DropFails, BreakerType, NoExpiry
<1> QED BY <1>3, <1>4, <1>5, <1>6, <1>7, <1>8, <1>9, <1>10 DEF Recorder

-----------------------------------------------------------------------------
(* The steps of Next.                                                      *)

LEMMA RecordersAreSound ==
  ASSUME CallsAreSound, NEW c \in Calls, Recorder(c)
  PROVE  CallsAreSound'
<1> USE DEF Working
<1>1. CASE RecordSuccess(c) BY <1>1, EndIsSound DEF RecordSuccess
<1>2. CASE ReadHalf(c)
  <2> DEFINE to == IF halfTtl[Key(c)] # 0 /\ openTtl[Key(c)] = 0 THEN "reopen" ELSE "incr"
  <2>1. Goto(c, to) /\ call[c].pc = "lost" /\ to \in {"reopen", "incr"} BY <1>2 DEF ReadHalf
  <2> HIDE DEF to
  <2> QED BY <2>1, GotoIsSound
<1>3. CASE SetState(c, "reopen", "reopen2") BY <1>3, GotoIsSound DEF SetState
<1>4. CASE SetHalf(c, "reopen2", "reopen3") BY <1>4, GotoIsSound DEF SetHalf
<1>5. CASE DropProbe(c) BY <1>5, FallIsSound DEF DropProbe
<1>6. CASE Incr(c)
  <2>1. call[c].pc = "incr" /\ (Goto(c, "expire") \/ Goto(c, "trip") \/ Fall(c))
    BY <1>6 DEF Incr
  <2> QED BY <2>1, GotoIsSound, FallIsSound
<1>7. CASE Expire(c) BY <1>7, FallIsSound DEF Expire
<1>8. CASE StillClosed(c) BY <1>8, FallIsSound, GotoIsSound DEF StillClosed
<1>9. CASE SetState(c, "trip2", "trip3") BY <1>9, GotoIsSound DEF SetState
<1>10. CASE SetHalf(c, "trip3", "trip4") BY <1>10, GotoIsSound DEF SetHalf
<1>11. CASE DropFails(c) BY <1>11, FallIsSound DEF DropFails
<1> QED BY <1>1, <1>2, <1>3, <1>4, <1>5, <1>6, <1>7, <1>8, <1>9, <1>10, <1>11 DEF Recorder

LEMMA ProbesAreTaken ==
  ASSUME CallsAreSound, BreakerType, NEW c \in Calls, TakeProbe(c)
  PROVE  CallsAreSound' /\ BreakerType'
<1>1. call[c].pc = "probe" /\ Key(c) \in Keys BY CallIs DEF TakeProbe, Working
<1>2. Goto(c, "call") \/ Skip(c) BY DEF TakeProbe
<1>3. CallsAreSound' BY <1>1, <1>2, GotoIsSound, SkipIsSound
<1>4. \/ UNCHANGED breaker
      \/ /\ probeTtl' = [probeTtl EXCEPT ![Key(c)] = ProbeTtl]
         /\ UNCHANGED <<fails, failsTtl, openTtl, halfTtl>>
  BY DEF TakeProbe, breaker
<1>5. CASE UNCHANGED breaker BY <1>3, <1>5, BreakerStays
<1>6. CASE /\ probeTtl' = [probeTtl EXCEPT ![Key(c)] = ProbeTtl]
           /\ UNCHANGED <<fails, failsTtl, openTtl, halfTtl>>
  BY <1>1, <1>3, <1>6, Numbers DEF BreakerType, NoExpiry
<1> QED BY <1>4, <1>5, <1>6

LEMMA Steps ==
  ASSUME CallsAreSound, BreakerType, NEW c \in Calls, Step(c)
  PROVE  CallsAreSound' /\ BreakerType'
<1>1. CASE Broken(c) BY <1>1, SkipIsSound, BreakerStays DEF Broken
<1>2. CASE Limited(c) BY <1>2, EndIsSound, BreakerStays DEF Limited
<1>3. CASE Finish(c)
  <2>1. call[c].pc = "call" /\ call[c].rank \in Nat BY <1>3, CallIs DEF Finish
  <2>2. End(c) \/ (call[c].rank > 0 /\ Goto(c, "won")) BY <1>3, <2>1 DEF Finish
  <2> QED BY <1>3, <2>1, <2>2, EndIsSound, GotoIsSound, BreakerStays DEF Finish
<1>4. CASE Speak(c) BY <1>4, SpeakIsSound, BreakerStays DEF Speak
<1>5. CASE Close(c) BY <1>5, EndIsSound, BreakerStays DEF Close
<1>6. CASE \E e \in Errors : Refuse(c, e) BY <1>6, RefuseIsSound, BreakerStays DEF Refuse
<1>7. CASE ReadState(c)
  <2>1. call[c].pc = "next" /\ (Skip(c) \/ Goto(c, "half")) /\ UNCHANGED breaker
    BY <1>7 DEF ReadState
  <2> QED BY <2>1, SkipIsSound, GotoIsSound, BreakerStays
<1>8. CASE SeeWindow(c)
  <2>1. call[c].pc = "half" /\ UNCHANGED breaker /\ (Goto(c, "probe") \/ Goto(c, "call"))
    BY <1>8 DEF SeeWindow
  <2> QED BY <2>1, GotoIsSound, BreakerStays
<1>11. CASE TakeProbe(c) BY <1>11, ProbesAreTaken
<1>9. CASE Recorder(c) BY <1>9, RecordersAreSound, RecordersAreTyped
<1>10. CASE Outage(c) BY <1>10, GotoIsSound, EndIsSound, FallIsSound, BreakerStays DEF Outage
<1> QED BY <1>1, <1>2, <1>3, <1>4, <1>5, <1>6, <1>7, <1>8, <1>9, <1>10, <1>11 DEF Step

LEMMA Initially == Init => IInv
<1> SUFFICES ASSUME Init PROVE IInv OBVIOUS
<1>1. CallsAreSound BY IdleIsSound DEF Init, CallsAreSound
<1>2. BreakerType BY Numbers DEF Init, BreakerType, NoExpiry
<1> QED BY <1>1, <1>2, IInvIs

LEMMA Inductive == IInv /\ [Next]_vars => IInv'
<1> SUFFICES ASSUME CallsAreSound, BreakerType, [Next]_vars
             PROVE  CallsAreSound' /\ BreakerType'
  BY IInvIs DEF IInv, CallsAreSound, BreakerType, TypeOK
<1>1. CASE UNCHANGED vars
  <2>1. UNCHANGED call /\ UNCHANGED breaker BY <1>1 DEF vars
  <2> QED BY <2>1, BreakerStays DEF CallsAreSound
<1>2. CASE Tick BY <1>2, TickIsTyped DEF Tick, CallsAreSound
<1>3. ASSUME NEW c \in Calls, Ask(c) PROVE CallsAreSound' /\ BreakerType'
  BY <1>3, AskIsSound, BreakerStays DEF Ask
<1>4. ASSUME NEW c \in Calls, Step(c) PROVE CallsAreSound' /\ BreakerType'
  BY <1>4, Steps
<1> QED BY <1>1, <1>2, <1>3, <1>4 DEF Next

LEMMA SoundSuffices == IInv => AttemptsAreInOrder
<1> SUFFICES ASSUME IInv, NEW c \in Calls, call[c].rank > 0
             PROVE  /\ call[c].voices \subseteq {call[c].rank}
                    /\ call[c].pc \in {"next", "half", "probe", "call", "won"} =>
                           call[c].err = "retriable"
  BY DEF IInv, AttemptsAreInOrder, FailoverWindow
<1> QED BY DEF IInv, Sound

\* Whatever providers and Redis do, and however callers interleave, a
\* completion reaches another candidate only after an incident of a provider
\* and before its caller has read a word: FactoryCompletionBackend.stream
\* never splices two models, and complete() never walks on with a request the
\* provider refused for good.
THEOREM AttemptsStayInOrder == Spec => []AttemptsAreInOrder
<1>1. Spec => []IInv BY Initially, Inductive, PTL DEF Spec
<1>2. []IInv => []AttemptsAreInOrder BY SoundSuffices, PTL
<1> QED BY <1>1, <1>2, PTL

-----------------------------------------------------------------------------
(* Probes: the console's tests, the limiter and the readiness checks share *)
(* the clock and the jobs, and each of the three has an invariant.         *)

\* What is known of a test that has read the saved configuration.
True(s, tested) == rows[s] # None /\ tested = Bare(Called(s))
JobIsTrue(j) ==
    j.at \in {"probe", "persist"} =>
        /\ j.req.scope \in Scopes
        /\ j.req.saved /\ j.req.inline = None /\ ~j.edited => True(j.req.scope, j.tested)

TestsHold ==
    /\ rows \in [Scopes -> Row \cup {None}]
    /\ chips \in [Scopes -> Chip \cup {None}]
    /\ job \in [Admins -> JobType] /\ acts \in 0..MaxActs
    /\ \A a \in Admins : JobIsTrue(job[a])
    /\ ChipTellsTheTruth

\* A recent admission is in the list, or was wiped out: from the list a
\* thread is about to write back it may be missing in one more way.
Known(x, list, wiped) == x \in list \cup wiped \/ clock - x.at >= ProbeWindow
LimiterHolds ==
    /\ window \cup admitted \cup lost \subseteq Admission
    /\ IsFiniteSet(window) /\ Cardinality(window) <= Limit
    /\ \A x \in admitted : Known(x, window, lost)
    /\ \A a \in Admins :
           job[a].at = "window" =>
               /\ IsFiniteSet(job[a].recent) /\ Cardinality(job[a].recent) <= Limit
               /\ \A x \in admitted : Known(x, job[a].recent, job[a].missed \cup lost)

\* Whatever contradicts the database was begun before the database changed.
ReadinessHolds ==
    /\ clock \in 0..Horizon
    /\ db \in [up : BOOLEAN, since : 0..Horizon] /\ db.since <= clock
    /\ cache \in [ok : BOOLEAN, expires : Nat, took : 0..Horizon] \cup {None}
    /\ cache # None => /\ cache.expires <= clock + Ttl
                       /\ cache.ok # db.up => cache.expires <= db.since + Ttl + cache.took
    /\ scrape \in [Scrapers -> ScrapeType]
    /\ \A q \in Scrapers :
           /\ scrape[q].at \in {"asking", "asked"} => scrape[q].begun <= clock
           /\ scrape[q].at = "asked" /\ scrape[q].ok # db.up => scrape[q].begun <= db.since
    /\ ReadyIsRecent

InstanceHolds ==
    /\ <<upstream, status>> \in BOOLEAN \X {"unprobed", "ok", "degraded"}
    /\ loop \in {"rest", "probing", "over"}
    /\ trouble \in 0..MaxTrouble

ProbesInv == TestsHold /\ LimiterHolds /\ ReadinessHolds /\ InstanceHolds

LEMMA ProbeNumbers ==
    /\ Limit \in Nat /\ ProbeWindow \in Nat \ {0} /\ Ttl \in Nat
    /\ Horizon \in Nat /\ MaxActs \in Nat /\ MaxTrouble \in Nat
BY ProbesAssumption

-----------------------------------------------------------------------------
(* GET /health/ready                                                       *)

\* A record of the three kinds a scraper may be in.
LEMMA ScrapeIs ==
    ASSUME ReadinessHolds, NEW q \in Scrapers
    PROVE  /\ scrape[q] \in ScrapeType
           /\ scrape[q].at = "asking" => scrape[q].begun \in 0..Horizon
           /\ scrape[q].at = "asked" => scrape[q].begun \in 0..Horizon /\ scrape[q].ok \in BOOLEAN
           /\ scrape[q].at = "answered" => scrape[q].lag \in 0..Horizon /\ scrape[q].took \in 0..Horizon
<1>1. scrape[q] \in ScrapeType
  BY DEF ReadinessHolds
<1> QED BY <1>1 DEF ScrapeType

\* A scraper takes a step that keeps its promises, and nothing else moves.
LEMMA ScraperSteps ==
    ASSUME ReadinessHolds, NEW q \in Scrapers, NEW s \in ScrapeType,
           s.at \in {"asking", "asked"} => s.begun <= clock,
           s.at = "asked" /\ s.ok # db.up => s.begun <= db.since,
           s.at = "answered" => s.lag <= Ttl + s.took,
           scrape' = [scrape EXCEPT ![q] = s],
           UNCHANGED <<clock, db>>,
           cache' \in [ok : BOOLEAN, expires : Nat, took : 0..Horizon] \cup {None},
           cache' # None => /\ cache'.expires <= clock + Ttl
                            /\ cache'.ok # db.up => cache'.expires <= db.since + Ttl + cache'.took
    PROVE  ReadinessHolds'
<1>1. scrape' \in [Scrapers -> ScrapeType]
  BY DEF ReadinessHolds
<1>2. \A p \in Scrapers : scrape'[p] = IF p = q THEN s ELSE scrape[p]
  BY DEF ReadinessHolds
<1>3. \A p \in Scrapers :
          /\ scrape'[p].at \in {"asking", "asked"} => scrape'[p].begun <= clock
          /\ scrape'[p].at = "asked" /\ scrape'[p].ok # db.up => scrape'[p].begun <= db.since
          /\ scrape'[p].at = "answered" => scrape'[p].lag <= Ttl + scrape'[p].took
  BY <1>2 DEF ReadinessHolds, ReadyIsRecent
<1> QED BY <1>1, <1>3 DEF ReadinessHolds, ReadyIsRecent

LEMMA LagIs ==
    ASSUME ReadinessHolds, NEW ok \in BOOLEAN
    PROVE  /\ Lag(ok) \in 0..Horizon
           /\ ok = db.up => Lag(ok) = 0
           /\ ok # db.up => Lag(ok) = clock - db.since
<1>1. clock \in 0..Horizon /\ db.since \in 0..Horizon /\ db.since <= clock
  BY DEF ReadinessHolds
<1>2. clock - db.since \in 0..Horizon /\ 0 \in 0..Horizon
  BY <1>1, ProbeNumbers
<1> QED BY <1>2 DEF Lag

LEMMA ScrapeKeeps ==
    ASSUME ReadinessHolds, NEW q \in Scrapers, Scrape(q)
    PROVE  ReadinessHolds'
<1> DEFINE asking == [at |-> "asking", begun |-> clock]
           answer == Answered(cache.ok, cache.took)
<1>0. UNCHANGED <<clock, db, cache>> /\ clock \in 0..Horizon
  BY DEF Scrape, ReadinessHolds
<1>1. CASE Fresh
  <2>1. cache \in [ok : BOOLEAN, expires : Nat, took : 0..Horizon] /\ cache.expires > clock
    BY <1>1 DEF Fresh, ReadinessHolds
  <2>2. cache.ok # db.up => cache.expires <= db.since + Ttl + cache.took
    BY <1>1 DEF Fresh, ReadinessHolds
  <2>3. cache.ok \in BOOLEAN /\ cache.took \in 0..Horizon /\ cache.expires \in Nat
    BY <2>1
  <2>4. answer \in ScrapeType /\ answer.at = "answered" /\ answer.lag = Lag(cache.ok)
        /\ answer.took = cache.took
    BY <2>3, LagIs DEF Answered, ScrapeType
  <2>5. db.since \in 0..Horizon
    BY DEF ReadinessHolds
  <2>6. answer.lag <= Ttl + answer.took
    BY <1>0, <2>1, <2>2, <2>3, <2>4, <2>5, LagIs, ProbeNumbers
  <2>7. scrape' = [scrape EXCEPT ![q] = answer]
    BY <1>1 DEF Scrape
  <2> HIDE DEF answer
  <2> QED BY <1>0, <2>4, <2>6, <2>7, ScraperSteps DEF ReadinessHolds
<1>2. CASE ~Fresh
  <2>1. asking \in ScrapeType /\ asking.at = "asking" /\ asking.begun <= clock
    BY <1>0, ProbeNumbers DEF ScrapeType
  <2>2. scrape' = [scrape EXCEPT ![q] = asking]
    BY <1>2 DEF Scrape
  <2> HIDE DEF asking
  <2> QED BY <1>0, <2>1, <2>2, ScraperSteps DEF ReadinessHolds
<1> QED BY <1>1, <1>2

LEMMA CheckDbKeeps ==
    ASSUME ReadinessHolds, NEW q \in Scrapers, CheckDb(q)
    PROVE  ReadinessHolds'
<1> DEFINE asked == [at |-> "asked", begun |-> scrape[q].begun, ok |-> db.up]
<1>1. scrape[q].at = "asking" /\ scrape[q].begun \in 0..Horizon /\ scrape[q].begun <= clock
  BY ScrapeIs DEF CheckDb, ReadinessHolds
<1>2. db.up \in BOOLEAN
  BY DEF ReadinessHolds
<1>3. asked \in ScrapeType /\ asked.at = "asked" /\ asked.begun <= clock /\ asked.ok = db.up
  BY <1>1, <1>2 DEF ScrapeType
<1>4. scrape' = [scrape EXCEPT ![q] = asked] /\ UNCHANGED <<clock, db, cache>>
  BY DEF CheckDb, ReadinessHolds
<1> HIDE DEF asked
<1> QED BY <1>3, <1>4, ScraperSteps DEF ReadinessHolds

LEMMA StoreKeeps ==
    ASSUME ReadinessHolds, NEW q \in Scrapers, Store(q)
    PROVE  ReadinessHolds'
<1> DEFINE s == scrape[q]
           took == clock - s.begun
           entry == [ok |-> s.ok, expires |-> clock + Ttl, took |-> took]
           answer == Answered(s.ok, took)
<1>1. s.at = "asked" /\ s.begun \in 0..Horizon /\ s.ok \in BOOLEAN /\ s.begun <= clock
      /\ (s.ok # db.up => s.begun <= db.since)
  BY ScrapeIs DEF Store, ReadinessHolds
<1>2. clock \in 0..Horizon /\ db.since \in 0..Horizon
  BY DEF ReadinessHolds
<1>3. took \in 0..Horizon /\ clock + Ttl \in Nat /\ s.ok \in BOOLEAN
  BY <1>1, <1>2, ProbeNumbers
<1>4. cache' = entry /\ scrape' = [scrape EXCEPT ![q] = answer] /\ UNCHANGED <<clock, db>>
  BY DEF Store
<1>5. answer.at = "answered" /\ answer.lag = Lag(s.ok) /\ answer.took = took
      /\ answer \in ScrapeType
  BY <1>3, LagIs DEF Answered, ScrapeType
<1>6. answer.lag <= Ttl + answer.took
  BY <1>1, <1>2, <1>3, <1>5, LagIs, ProbeNumbers
<1>7. entry \in [ok : BOOLEAN, expires : Nat, took : 0..Horizon] /\ entry.ok = s.ok
      /\ entry.expires = clock + Ttl /\ entry.took = clock - s.begun
  BY <1>3
<1>8. entry.ok # db.up => entry.expires <= db.since + Ttl + entry.took
  BY <1>1, <1>2, <1>7, ProbeNumbers
<1>9. entry.expires <= clock + Ttl
  BY <1>2, <1>7, ProbeNumbers
<1> HIDE DEF entry, answer
<1> QED BY <1>4, <1>5, <1>6, <1>7, <1>8, <1>9, ScraperSteps

LEMMA TurnsKeep ==
    ASSUME ReadinessHolds, InstanceHolds, Turns
    PROVE  ReadinessHolds' /\ InstanceHolds'
<1>0. UNCHANGED <<clock, cache, scrape, status, loop>> /\ trouble' \in 0..MaxTrouble
  BY ProbeNumbers DEF Turns, InstanceHolds
<1>1. CASE upstream' = ~upstream /\ UNCHANGED db
  <2>1. InstanceHolds'
    BY <1>0, <1>1 DEF InstanceHolds
  <2>2. ReadinessHolds'
    BY <1>0, <1>1 DEF ReadinessHolds, ReadyIsRecent
  <2> QED BY <2>1, <2>2
<1>2. CASE db' = [up |-> ~db.up, since |-> clock] /\ UNCHANGED upstream
  <2>1. clock \in 0..Horizon
    BY DEF ReadinessHolds
  <2>2. db' \in [up : BOOLEAN, since : 0..Horizon] /\ db'.since = clock
    BY <1>2, <2>1
  <2>3. cache # None => cache.expires \in Nat /\ cache.took \in 0..Horizon
    BY DEF ReadinessHolds
  <2>4. cache # None => cache.expires <= db'.since + Ttl + cache.took
    BY <2>1, <2>2, <2>3, ProbeNumbers DEF ReadinessHolds
  <2>5. \A q \in Scrapers : scrape[q].at = "asked" => scrape[q].begun <= db'.since
    BY <2>2 DEF ReadinessHolds
  <2>6. db'.since <= clock
    BY <2>1, <2>2
  <2>7. /\ cache # None => cache.expires <= clock + Ttl
        /\ scrape \in [Scrapers -> ScrapeType]
        /\ cache \in [ok : BOOLEAN, expires : Nat, took : 0..Horizon] \cup {None}
        /\ \A q \in Scrapers : scrape[q].at \in {"asking", "asked"} => scrape[q].begun <= clock
        /\ ReadyIsRecent
    BY DEF ReadinessHolds
  <2>8. ReadinessHolds'
    BY <1>0, <2>1, <2>2, <2>4, <2>5, <2>6, <2>7 DEF ReadinessHolds, ReadyIsRecent
  <2>9. InstanceHolds'
    BY <1>0, <1>2 DEF InstanceHolds
  <2> QED BY <2>8, <2>9
<1> QED BY <1>1, <1>2 DEF Turns

LEMMA TickKeepsReadiness ==
    ASSUME ReadinessHolds, ProbesTick
    PROVE  ReadinessHolds'
<1>1. clock \in 0..Horizon /\ clock' = clock + 1 /\ clock' \in 0..Horizon
  BY ProbeNumbers DEF ProbesTick, ReadinessHolds
<1>2. UNCHANGED <<db, cache, scrape>>
  BY DEF ProbesTick, readiness
<1>3. db.since <= clock' /\ (cache # None => cache.expires <= clock' + Ttl)
  <2>1. db.since \in 0..Horizon /\ (cache # None => cache.expires \in Nat)
    BY DEF ReadinessHolds
  <2> QED BY <1>1, <2>1, ProbeNumbers DEF ReadinessHolds
<1>4. \A q \in Scrapers : scrape[q].at \in {"asking", "asked"} => scrape[q].begun <= clock'
  <2> SUFFICES ASSUME NEW q \in Scrapers, scrape[q].at \in {"asking", "asked"}
               PROVE  scrape[q].begun <= clock'
    OBVIOUS
  <2>1. scrape[q].begun \in 0..Horizon /\ scrape[q].begun <= clock
    BY ScrapeIs DEF ReadinessHolds
  <2> QED BY <1>1, <2>1
<1> QED BY <1>1, <1>2, <1>3, <1>4 DEF ReadinessHolds, ReadyIsRecent

-----------------------------------------------------------------------------
(* probe_allowed                                                           *)

LEMMA JobIs ==
    ASSUME TestsHold, NEW a \in Admins
    PROVE  /\ job[a] \in JobType
           /\ job[a].at = "window" => /\ job[a].req \in Requests /\ job[a].own \in Admission
                                      /\ job[a].missed \subseteq Admission
                                      /\ job[a].recent \subseteq Admission
           /\ job[a].at = "load" => job[a].req \in Requests
           /\ job[a].at = "probe" => /\ job[a].req \in Requests /\ job[a].tested \in Config
                                     /\ job[a].edited \in BOOLEAN
           /\ job[a].at = "persist" => /\ job[a].req \in Requests /\ job[a].tested \in Config
                                       /\ job[a].edited \in BOOLEAN /\ job[a].ok \in BOOLEAN
<1>1. job[a] \in JobType
  BY DEF TestsHold
<1> QED BY <1>1 DEF JobType

LEMMA RequestIs ==
    ASSUME NEW r \in Requests
    PROVE  r.scope \in Scopes \cup {None} /\ r.saved \in BOOLEAN /\ r.inline \in ApiKeys \cup {None}
<1>1. r \in Request
  BY RequestsAssumption
<1> QED BY <1>1 DEF Request

LEMMA YoungIs ==
    ASSUME LimiterHolds
    PROVE  /\ Young(window) \subseteq window /\ IsFiniteSet(Young(window))
           /\ Cardinality(Young(window)) <= Limit
<1>1. Young(window) \subseteq window /\ IsFiniteSet(window) /\ Cardinality(window) <= Limit
  BY DEF Young, LimiterHolds
<1>2. IsFiniteSet(Young(window)) /\ Cardinality(Young(window)) <= Cardinality(window)
  BY <1>1, FS_Subset
<1>3. Cardinality(Young(window)) \in Nat /\ Cardinality(window) \in Nat
  BY <1>1, <1>2, FS_CardinalityType
<1> QED BY <1>1, <1>2, <1>3, ProbeNumbers

LEMMA ArriveCounts ==
    ASSUME LimiterHolds, ReadinessHolds, TestsHold, NEW a \in Admins, NEW r \in Requests, Arrive(a, r)
    PROVE  LimiterHolds'
<1>0. clock \in 0..Horizon /\ UNCHANGED <<window, admitted, lost, clock>>
  BY DEF Arrive, limiter, ReadinessHolds
<1>1. job'[a].recent = Young(window) /\ \A b \in Admins \ {a} : job'[b] = job[b]
  BY DEF Arrive, TestsHold
<1>2. \A x \in admitted : Known(x, job'[a].recent, job'[a].missed \cup lost)
  <2> SUFFICES ASSUME NEW x \in admitted, clock - x.at < ProbeWindow, x \notin lost
               PROVE  x \in Young(window)
    <3>1. \A x \in admitted : x.at \in Nat
      BY ProbeNumbers DEF LimiterHolds, Admission
    <3> QED BY <1>0, <1>1, <3>1, ProbeNumbers DEF Known
  <2>1. x.at \in Nat
    BY ProbeNumbers DEF LimiterHolds, Admission
  <2>2. x \in window
    BY <1>0, <2>1, ProbeNumbers DEF LimiterHolds, Known
  <2> QED BY <2>2 DEF Young
<1>3. \A b \in Admins : job'[b].at = "window" =>
          /\ IsFiniteSet(job'[b].recent) /\ Cardinality(job'[b].recent) <= Limit
          /\ \A x \in admitted : Known(x, job'[b].recent, job'[b].missed \cup lost)
  BY <1>1, <1>2, YoungIs DEF LimiterHolds
<1> QED BY <1>0, <1>3 DEF LimiterHolds, Known

LEMMA AdmitCounts ==
    ASSUME LimiterHolds, ReadinessHolds, TestsHold, NEW a \in Admins, Admit(a)
    PROVE  LimiterHolds'
<1> DEFINE j == job[a]
           full == Full(j.recent)
           new == IF full THEN {} ELSE {j.own}
<1>0. /\ UNCHANGED clock /\ j.at = "window"
      /\ window' = j.recent \cup new /\ admitted' = admitted \cup new
      /\ lost' = lost \cup j.missed
  BY DEF Admit
<1>1. /\ j.own \in Admission /\ j.missed \subseteq Admission /\ j.recent \subseteq Admission
      /\ IsFiniteSet(j.recent) /\ Cardinality(j.recent) <= Limit
      /\ \A x \in admitted : Known(x, j.recent, j.missed \cup lost)
  BY <1>0, JobIs DEF LimiterHolds
<1>2. new \subseteq Admission /\ window' \cup admitted' \cup lost' \subseteq Admission
  BY <1>0, <1>1 DEF LimiterHolds
<1>3. IsFiniteSet(window') /\ Cardinality(window') <= Limit
  <2>1. CASE full
    BY <1>0, <1>1, <2>1
  <2>2. CASE ~full
    <3>1. Cardinality(j.recent) \in Nat /\ Cardinality(j.recent) < Limit
      BY <1>1, <2>2, FS_CardinalityType, ProbeNumbers DEF Full
    <3>2. window' = j.recent \cup {j.own}
      BY <1>0, <2>2
    <3>3. IsFiniteSet(window') /\ (Cardinality(window') = Cardinality(j.recent)
                                  \/ Cardinality(window') = Cardinality(j.recent) + 1)
      BY <1>1, <3>2, FS_AddElement
    <3> QED BY <3>1, <3>3, ProbeNumbers
  <2> QED BY <2>1, <2>2
<1>4. \A x \in admitted' : Known(x, window', lost')
  BY <1>0, <1>1 DEF Known
<1>5. ASSUME NEW b \in Admins, job'[b].at = "window"
      PROVE  /\ b # a /\ job[b].at = "window" /\ job'[b].recent = job[b].recent
             /\ job'[b].missed = job[b].missed \cup new
  <2>1. b # a
    BY <1>5 DEF Admit, AtRest
  <2>2. job'[b] = IF job[b].at = "window" THEN [job[b] EXCEPT !.missed = job[b].missed \cup new]
                  ELSE job[b]
    BY <2>1 DEF Admit
  <2>3. job[b].at = "window"
    BY <1>5, <2>2
  <2>4. job[b] \in [at : {"window"}, req : Requests, own : Admission,
                    missed : SUBSET Admission, recent : SUBSET Admission]
    BY <2>3, JobIs DEF JobType
  <2> HIDE DEF new
  <2> QED BY <2>1, <2>2, <2>3, <2>4
<1>6. ASSUME NEW b \in Admins, job'[b].at = "window"
      PROVE  /\ IsFiniteSet(job'[b].recent) /\ Cardinality(job'[b].recent) <= Limit
             /\ \A x \in admitted' : Known(x, job'[b].recent, job'[b].missed \cup lost')
  <2>1. /\ IsFiniteSet(job[b].recent) /\ Cardinality(job[b].recent) <= Limit
        /\ \A x \in admitted : Known(x, job[b].recent, job[b].missed \cup lost)
    BY <1>5, <1>6 DEF LimiterHolds
  <2> HIDE DEF new
  <2> QED BY <1>0, <1>5, <1>6, <2>1 DEF Known
<1> HIDE DEF new, full, j
<1>7. \A x \in admitted' : clock' = clock
  BY <1>0
<1> QED BY <1>0, <1>2, <1>3, <1>4, <1>6 DEF LimiterHolds, Known

\* A thread that is not between the two is none of the limiter's business.
LEMMA JobsApart ==
    ASSUME LimiterHolds, UNCHANGED <<limiter, clock>>,
           \A a \in Admins : job'[a].at = "window" => job'[a] = job[a]
    PROVE  LimiterHolds'
BY DEF LimiterHolds, limiter, Known

LEMMA TickCounts ==
    ASSUME LimiterHolds, ReadinessHolds, TestsHold, ProbesTick
    PROVE  LimiterHolds'
<1>1. clock \in 0..Horizon /\ clock' = clock + 1 /\ UNCHANGED <<window, admitted, lost, job>>
  BY DEF ProbesTick, limiter, console, ReadinessHolds
<1>2. ASSUME NEW x \in admitted, NEW list, NEW wiped, Known(x, list, wiped)
      PROVE  Known(x, list, wiped)'
  <2>1. x.at \in Nat
    BY ProbeNumbers DEF LimiterHolds, Admission
  <2> QED BY <1>1, <1>2, <2>1, ProbeNumbers DEF Known
<1>3. \A x \in admitted : x \in window \cup lost \/ clock' - x.at >= ProbeWindow
  BY <1>1, <1>2 DEF LimiterHolds, Known
<1>4. \A a \in Admins : job[a].at = "window" =>
          \A x \in admitted : x \in job[a].recent \cup (job[a].missed \cup lost)
                              \/ clock' - x.at >= ProbeWindow
  BY <1>1, <1>2 DEF LimiterHolds, Known
<1> QED BY <1>1, <1>3, <1>4 DEF LimiterHolds, Known

\* What has not been wiped out and is recent is in the list.
LEMMA BoundIs ==
    ASSUME LimiterHolds, ReadinessHolds
    PROVE  ProbesAreBounded
<1>1. Young(admitted) \ lost \subseteq window
  <2> SUFFICES ASSUME NEW x \in admitted, clock - x.at < ProbeWindow, x \notin lost
               PROVE  x \in window
    BY DEF Young
  <2>1. x.at \in Nat /\ clock \in 0..Horizon
    BY ProbeNumbers DEF LimiterHolds, Admission, ReadinessHolds
  <2> QED BY <2>1, ProbeNumbers DEF LimiterHolds, Known
<1>2. IsFiniteSet(window) /\ Cardinality(window) <= Limit
  BY DEF LimiterHolds
<1>3. IsFiniteSet(Young(admitted) \ lost)
      /\ Cardinality(Young(admitted) \ lost) <= Cardinality(window)
  BY <1>1, <1>2, FS_Subset
<1>4. Cardinality(Young(admitted) \ lost) \in Nat /\ Cardinality(window) \in Nat
  BY <1>2, <1>3, FS_CardinalityType
<1> QED BY <1>2, <1>3, <1>4, ProbeNumbers DEF ProbesAreBounded

-----------------------------------------------------------------------------
(* POST /admin/models/test                                                 *)

\* One thread's test goes on to j.
LEMMA TestGoes ==
    ASSUME TestsHold, NEW a \in Admins, NEW j \in JobType, JobIsTrue(j),
           job' = [job EXCEPT ![a] = j], UNCHANGED <<rows, chips>>, acts' \in 0..MaxActs
    PROVE  TestsHold'
<1>1. job' \in [Admins -> JobType] /\ \A b \in Admins : job'[b] = IF b = a THEN j ELSE job[b]
  BY DEF TestsHold
<1>2. \A b \in Admins : JobIsTrue(job'[b])
  BY <1>1 DEF TestsHold
<1>3. ASSUME NEW b \in Admins PROVE JobIsTrue(job[b])'
  <2>1. \A s, tested : True(s, tested)' <=> True(s, tested)
    BY DEF True, Called
  <2>2. JobIsTrue(job'[b])
    BY <1>2
  <2> QED BY <2>1, <2>2 DEF JobIsTrue
<1>4. ChipTellsTheTruth'
  BY DEF TestsHold, ChipTellsTheTruth, Called
<1>5. rows' \in [Scopes -> Row \cup {None}] /\ chips' \in [Scopes -> Chip \cup {None}]
  BY DEF TestsHold
<1> QED BY <1>1, <1>3, <1>4, <1>5 DEF TestsHold

LEMMA RestIsTrue == AtRest \in JobType /\ JobIsTrue(AtRest)
BY DEF AtRest, JobType, JobIsTrue

LEMMA RowIs ==
    ASSUME TestsHold, NEW s \in Scopes, rows[s] # None
    PROVE  rows[s] \in Row /\ rows[s].provider \in Providers
           /\ rows[s].key \in ApiKeys \cup {None} /\ rows[s].headers \in BOOLEAN
<1>1. rows[s] \in Row
  BY DEF TestsHold
<1> QED BY <1>1 DEF Row

\* What the test reads is what the scope is called with, but for the headers.
LEMMA ReadIsTrue ==
    ASSUME TestsHold, NEW r \in Requests, r.scope \in Scopes, rows[r.scope] # None,
           r.saved, r.inline = None
    PROVE  True(r.scope, Tested(r))
<1> DEFINE s == r.scope
<1>1. rows[s].key = None \/ rows[s].key # None
  OBVIOUS
<1>2. Called(s).key = StoredKey(s)
  <2>1. CASE rows[s].key # None
    BY <2>1 DEF Called, StoredKey
  <2>2. CASE rows[s].key = None /\ s = Org
    <3>1. s # Agent
      BY <2>2, ProbesAssumption
    <3> QED BY <2>2, <3>1 DEF Called, StoredKey
  <2>3. CASE rows[s].key = None /\ s = Agent
    BY <2>3 DEF Called, StoredKey
  <2> QED BY <2>1, <2>2, <2>3 DEF Scopes
<1>3. Tested(r) = [provider |-> rows[s].provider, key |-> StoredKey(s), headers |-> FALSE]
  BY DEF Tested
<1>4. Called(s).provider = rows[s].provider
  BY DEF Called
<1> QED BY <1>2, <1>3, <1>4 DEF True, Bare

LEMMA TestedIs ==
    ASSUME TestsHold, NEW r \in Requests, r.scope \in Scopes, rows[r.scope] # None
    PROVE  Tested(r) \in Config
<1>1. rows[r.scope].provider \in Providers /\ rows[r.scope].key \in ApiKeys \cup {None}
  BY RowIs
<1>2. StoredKey(r.scope) \in ApiKeys \cup {None}
  <2>1. rows[Org] # None => rows[Org].key \in ApiKeys \cup {None}
    BY RowIs DEF Scopes
  <2> QED BY <1>1, <2>1 DEF StoredKey
<1>3. r.inline \in ApiKeys \cup {None}
  BY RequestIs
<1> DEFINE key == CASE r.inline # None -> r.inline
                    [] r.inline = None /\ r.saved -> StoredKey(r.scope)
                    [] OTHER -> None
<1>4. key \in ApiKeys \cup {None}
  BY <1>2, <1>3
<1>5. Tested(r) = [provider |-> rows[r.scope].provider, key |-> key, headers |-> FALSE]
  BY DEF Tested
<1> HIDE DEF key
<1> QED BY <1>1, <1>4, <1>5 DEF Config, Row

LEMMA ArriveKeeps ==
    ASSUME TestsHold, ReadinessHolds, LimiterHolds, NEW a \in Admins, NEW r \in Requests, Arrive(a, r)
    PROVE  TestsHold'
<1> DEFINE j == [at |-> "window", req |-> r, own |-> [at |-> clock, no |-> acts'],
                 missed |-> {}, recent |-> Young(window)]
<1>1. acts \in 0..MaxActs /\ acts < MaxActs /\ acts' = acts + 1 /\ clock \in 0..Horizon
  BY DEF Arrive, TestsHold, ReadinessHolds
<1>2. acts' \in 1..MaxActs /\ acts' \in 0..MaxActs
  BY <1>1, ProbeNumbers
<1>3. Young(window) \subseteq Admission
  BY YoungIs DEF LimiterHolds
<1>4. j \in JobType /\ JobIsTrue(j)
  BY <1>1, <1>2, <1>3 DEF JobType, Admission, JobIsTrue
<1>5. job' = [job EXCEPT ![a] = j] /\ UNCHANGED <<rows, chips>>
  BY DEF Arrive
<1> HIDE DEF j
<1> QED BY <1>2, <1>4, <1>5, TestGoes

LEMMA AdmitKeeps ==
    ASSUME TestsHold, NEW a \in Admins, Admit(a)
    PROVE  TestsHold'
<1> DEFINE j == job[a]
           full == Full(j.recent)
           new == IF full THEN {} ELSE {j.own}
           next == IF full THEN AtRest ELSE [at |-> "load", req |-> j.req]
<1>1. j.at = "window" /\ j.req \in Requests /\ new \subseteq Admission
  BY JobIs DEF Admit
<1>2. next \in JobType /\ JobIsTrue(next)
  BY <1>1, RestIsTrue DEF JobType, JobIsTrue
<1>3. job' = [b \in Admins |->
                  CASE b = a -> next
                    [] b # a /\ job[b].at = "window" -> [job[b] EXCEPT !.missed = @ \cup new]
                    [] OTHER -> job[b]]
  BY DEF Admit
<1> HIDE DEF new, next, full
<1>4. ASSUME NEW b \in Admins
      PROVE  job'[b] \in JobType /\ JobIsTrue(job'[b])
  <2>1. CASE b = a
    BY <1>2, <1>3, <2>1
  <2>2. CASE b # a /\ job[b].at = "window"
    <3>1. job[b] \in [at : {"window"}, req : Requests, own : Admission,
                      missed : SUBSET Admission, recent : SUBSET Admission]
      BY <2>2, JobIs DEF JobType
    <3>2. job'[b] = [job[b] EXCEPT !.missed = job[b].missed \cup new]
      BY <1>3, <2>2
    <3>3. job'[b] \in [at : {"window"}, req : Requests, own : Admission,
                       missed : SUBSET Admission, recent : SUBSET Admission]
      BY <1>1, <3>1, <3>2
    <3> QED BY <3>3 DEF JobType, JobIsTrue
  <2>3. CASE b # a /\ job[b].at # "window"
    BY <1>3, <2>3, JobIs DEF TestsHold
  <2> QED BY <2>1, <2>2, <2>3
<1>5. job' \in [Admins -> JobType]
  <2>1. \A b \in Admins : job'[b] \in JobType
    BY <1>4
  <2> QED BY <1>3, <2>1
<1>6. UNCHANGED <<rows, chips, acts>>
  BY DEF Admit
<1>7. \A b \in Admins : JobIsTrue(job[b])'
  BY <1>4, <1>6 DEF JobIsTrue, True, Called
<1>8. ChipTellsTheTruth'
  BY <1>6 DEF TestsHold, ChipTellsTheTruth, Called
<1> QED BY <1>5, <1>6, <1>7, <1>8 DEF TestsHold

LEMMA LoadKeeps ==
    ASSUME TestsHold, NEW a \in Admins, Load(a)
    PROVE  TestsHold'
<1> DEFINE r == job[a].req
           j == [at |-> "probe", req |-> r, tested |-> Tested(r), edited |-> FALSE]
<1>1. r \in Requests /\ r.scope # None /\ rows[r.scope] # None
  BY JobIs DEF Load
<1>2. r.scope \in Scopes
  BY <1>1, RequestIs
<1>3. Tested(r) \in Config
  BY <1>1, <1>2, TestedIs
<1>4. j \in JobType
  BY <1>1, <1>3 DEF JobType
<1>5. JobIsTrue(j)
  BY <1>1, <1>2, ReadIsTrue DEF JobIsTrue
<1>6. job' = [job EXCEPT ![a] = j] /\ UNCHANGED <<rows, chips, acts>>
  BY DEF Load
<1>7. acts' \in 0..MaxActs
  BY <1>6 DEF TestsHold
<1> HIDE DEF j
<1> QED BY <1>4, <1>5, <1>6, <1>7, TestGoes

LEMMA TestEnds ==
    ASSUME TestsHold, NEW a \in Admins, Unloadable(a) \/ Candidate(a)
    PROVE  TestsHold'
<1>1. job' = [job EXCEPT ![a] = AtRest] /\ UNCHANGED <<rows, chips, acts>>
  BY DEF Unloadable, Candidate
<1>2. acts' \in 0..MaxActs
  BY <1>1 DEF TestsHold
<1> QED BY <1>1, <1>2, RestIsTrue, TestGoes

LEMMA ProbeKeeps ==
    ASSUME TestsHold, NEW a \in Admins, Forbidden(a) \/ Probe(a)
    PROVE  TestsHold'
<1>1. PICK ok \in BOOLEAN : job' = [job EXCEPT ![a] = Ended(job[a], ok)]
  BY DEF Forbidden, Probe
<1> DEFINE j == Ended(job[a], ok)
<1>2. job[a].at = "probe" /\ UNCHANGED <<rows, chips, acts>>
  BY DEF Forbidden, Probe
<1>3. j \in JobType
  BY <1>2, JobIs DEF JobType, Ended
<1>4. JobIsTrue(j)
  BY <1>2 DEF TestsHold, JobIsTrue, Ended
<1>5. acts' \in 0..MaxActs
  BY <1>2 DEF TestsHold
<1> HIDE DEF j
<1> QED BY <1>1, <1>2, <1>3, <1>4, <1>5, TestGoes DEF j

LEMMA PersistKeeps ==
    ASSUME TestsHold, NEW a \in Admins, Persist(a)
    PROVE  TestsHold'
<1> DEFINE j == job[a]
           chip == [ok |-> j.ok, tested |-> j.tested,
                    saved |-> j.req.saved /\ j.req.inline = None, edited |-> j.edited]
<1>1. j.at = "persist" /\ j.req \in Requests /\ j.tested \in Config /\ j.edited \in BOOLEAN
      /\ j.ok \in BOOLEAN
  BY JobIs DEF Persist
<1>2. job' = [job EXCEPT ![a] = AtRest] /\ UNCHANGED <<rows, acts>>
      /\ chips' \in {chips, [chips EXCEPT ![j.req.scope] = chip]}
  BY DEF Persist
<1>3. JobIsTrue(j)
  BY DEF TestsHold
<1>4. chip \in Chip /\ chip.saved = (j.req.saved /\ j.req.inline = None)
      /\ chip.edited = j.edited /\ chip.tested = j.tested
  BY <1>1 DEF Chip
<1> HIDE DEF chip
<1>5. chips' \in [Scopes -> Chip \cup {None}]
  BY <1>2, <1>4 DEF TestsHold
<1>6. ASSUME NEW s \in Scopes, chips'[s] # None, chips'[s].saved, ~chips'[s].edited
      PROVE  True(s, chips'[s].tested)
  <2>1. CASE chips'[s] = chips[s]
    BY <1>6, <2>1 DEF TestsHold, ChipTellsTheTruth, True
  <2>2. CASE s = j.req.scope /\ chips'[s] = chip
    BY <1>1, <1>3, <1>4, <1>6, <2>2 DEF JobIsTrue
  <2>3. chips'[s] = chips[s] \/ (s = j.req.scope /\ chips'[s] = chip)
    BY <1>2 DEF TestsHold
  <2> QED BY <2>1, <2>2, <2>3
<1>7. ChipTellsTheTruth'
  BY <1>2, <1>6 DEF ChipTellsTheTruth, True, Called
<1>8. job' \in [Admins -> JobType] /\ \A b \in Admins : JobIsTrue(job'[b])
  BY <1>2, RestIsTrue DEF TestsHold
<1>9. \A b \in Admins : JobIsTrue(job[b])'
  BY <1>2, <1>8 DEF JobIsTrue, True, Called
<1> QED BY <1>2, <1>5, <1>7, <1>8, <1>9 DEF TestsHold

-----------------------------------------------------------------------------
(* Edits.                                                                  *)

\* Who is not told of an edit is not touched by it.
LEMMA EditKeeps ==
    ASSUME TestsHold, NEW s \in Scopes, NEW row \in Row \cup {None}, EditTo(s, row)
    PROVE  TestsHold'
<1>1. /\ rows' = [rows EXCEPT ![s] = row]
      /\ job' = [a \in Admins |->
             IF job[a].at \in {"probe", "persist"} /\ job[a].req.scope \in Touched(s)
             THEN [job[a] EXCEPT !.edited = TRUE] ELSE job[a]]
      /\ chips' = [t \in Scopes |->
             IF t \in Touched(s) /\ chips[t] # None
             THEN [chips[t] EXCEPT !.edited = TRUE] ELSE chips[t]]
  BY DEF EditTo
<1>2. acts' \in 0..MaxActs
  <2>1. acts < MaxActs /\ acts' = acts + 1 /\ acts \in 0..MaxActs
    BY DEF EditTo, TestsHold
  <2> QED BY <2>1, ProbeNumbers
<1>3. rows' \in [Scopes -> Row \cup {None}]
  BY <1>1 DEF TestsHold
<1> DEFINE After(t) ==
               [provider |-> rows'[t].provider,
                key      |-> CASE rows'[t].key # None -> rows'[t].key
                               [] rows'[t].key = None /\ rows'[Org] # None
                                      /\ rows'[Org].provider = rows'[t].provider -> rows'[Org].key
                               [] OTHER -> None,
                headers  |-> rows'[Org] # None /\ rows'[Org].headers]
           Remains(t, x) == rows'[t] # None /\ x = Bare(After(t))
           Stays(j) == j.at \in {"probe", "persist"} =>
               /\ j.req.scope \in Scopes
               /\ j.req.saved /\ j.req.inline = None /\ ~j.edited => Remains(j.req.scope, j.tested)
<1>a. ASSUME NEW t \in Scopes PROVE Called(t)' = After(t)
  BY DEF Called
<1>4. ASSUME NEW t \in Scopes, t \notin Touched(s), NEW x, True(t, x)
      PROVE  Remains(t, x)
  <2>1. t = Org /\ s = Agent /\ s # Org
    BY <1>4, ProbesAssumption DEF Touched, Scopes
  <2>2. rows'[Org] = rows[Org]
    BY <1>1, <2>1 DEF TestsHold, Scopes
  <2>3. Called(t)' = Called(t)
    BY <2>1, <2>2 DEF Called
  <2> QED BY <1>4, <1>a, <2>1, <2>2, <2>3 DEF True
<1> HIDE DEF Remains, After
<1>5. ASSUME NEW a \in Admins
      PROVE  job'[a] \in JobType /\ Stays(job'[a])
  <2>1. CASE job[a].at \in {"probe", "persist"} /\ job[a].req.scope \in Touched(s)
    <3>1. job'[a] = [job[a] EXCEPT !.edited = TRUE]
      BY <1>1, <2>1
    <3>2. job[a] \in [at : {"probe"}, req : Requests, tested : Config, edited : BOOLEAN]
                \cup [at : {"persist"}, req : Requests, tested : Config, edited : BOOLEAN, ok : BOOLEAN]
      BY <2>1, JobIs DEF JobType
    <3>3. job'[a] \in [at : {"probe"}, req : Requests, tested : Config, edited : BOOLEAN]
                \cup [at : {"persist"}, req : Requests, tested : Config, edited : BOOLEAN, ok : BOOLEAN]
      BY <3>1, <3>2
    <3>4. job'[a].edited = TRUE /\ job'[a].req = job[a].req
      BY <3>1, <3>2
    <3>5. job[a].req.scope \in Scopes
      BY <2>1 DEF TestsHold, JobIsTrue
    <3> QED BY <3>3, <3>4, <3>5 DEF JobType
  <2>2. CASE ~(job[a].at \in {"probe", "persist"} /\ job[a].req.scope \in Touched(s))
    <3>1. job'[a] = job[a] /\ job[a] \in JobType /\ JobIsTrue(job[a])
      BY <1>1, <2>2 DEF TestsHold
    <3>2. Stays(job[a])
      BY <1>4, <2>2, <3>1 DEF JobIsTrue
    <3> QED BY <3>1, <3>2
  <2> QED BY <2>1, <2>2
<1>6. job' \in [Admins -> JobType] /\ \A a \in Admins : JobIsTrue(job[a])'
  <2>1. \A a \in Admins : job'[a] \in JobType
    BY <1>5
  <2>2. job' \in [Admins -> JobType]
    <3> HIDE DEF Stays
    <3> QED BY <1>1, <2>1
  <2>3. ASSUME NEW a \in Admins
        PROVE  JobIsTrue(job[a])'
    <3>1. Stays(job'[a])
      BY <1>5
    <3>2. CASE job'[a].at \notin {"probe", "persist"}
      BY <3>2 DEF JobIsTrue
    <3>3. CASE job'[a].at \in {"probe", "persist"}
      <4> DEFINE j == job'[a]
      <4>1. j.req.scope \in Scopes
        BY <3>1, <3>3
      <4>2. j.req.saved /\ j.req.inline = None /\ ~j.edited
               => True(job[a].req.scope, job[a].tested)'
        <5>1. j.req.saved /\ j.req.inline = None /\ ~j.edited => Remains(j.req.scope, j.tested)
          BY <3>1, <3>3
        <5> QED BY <5>1 DEF True, Remains, After, Called, Bare
      <4> QED BY <4>1, <4>2 DEF JobIsTrue
    <3> QED BY <3>2, <3>3
  <2> QED BY <2>2, <2>3
<1>7. ASSUME NEW t \in Scopes
      PROVE  /\ chips'[t] \in Chip \cup {None}
             /\ chips'[t] # None /\ chips'[t].saved /\ ~chips'[t].edited
                    => Remains(t, chips'[t].tested)
  <2>1. CASE t \in Touched(s) /\ chips[t] # None
    <3>1. chips'[t] = [chips[t] EXCEPT !.edited = TRUE] /\ chips[t] \in Chip
      BY <1>1, <2>1 DEF TestsHold
    <3>2. chips'[t] \in Chip /\ chips'[t].edited = TRUE
      BY <3>1 DEF Chip
    <3> QED BY <3>2
  <2>2. CASE chips[t] = None
    BY <1>1, <2>2
  <2>3. CASE t \notin Touched(s) /\ chips[t] # None
    <3>1. chips'[t] = chips[t] /\ chips[t] \in Chip
      BY <1>1, <2>3 DEF TestsHold
    <3>2. chips[t].saved /\ ~chips[t].edited => True(t, chips[t].tested)
      BY <2>3 DEF TestsHold, ChipTellsTheTruth, True
    <3>3. chips[t].saved /\ ~chips[t].edited => Remains(t, chips[t].tested)
      BY <1>4, <2>3, <3>2
    <3> QED BY <3>1, <3>3
  <2> QED BY <2>1, <2>2, <2>3
<1>8. chips' \in [Scopes -> Chip \cup {None}]
  <2>1. \A t \in Scopes : chips'[t] \in Chip \cup {None}
    BY <1>7
  <2> QED BY <1>1, <2>1
<1>9. ChipTellsTheTruth'
  BY <1>7, <1>a DEF ChipTellsTheTruth, Remains, Bare
<1> QED BY <1>2, <1>3, <1>6, <1>8, <1>9 DEF TestsHold

LEMMA EditsKeep ==
    ASSUME TestsHold, Editing
    PROVE  TestsHold' /\ UNCHANGED <<limiter, clock, trouble, instance, readiness>>
           /\ \A a \in Admins : job'[a].at = "window" => job'[a] = job[a]
<1>1. PICK s \in Scopes, row \in Row \cup {None} : EditTo(s, row)
  <2>1. ASSUME NEW s \in Scopes, NEW row \in Rows, Save(s, row)
        PROVE  \E t \in Scopes, new \in Row \cup {None} : EditTo(t, new)
    <3> DEFINE kept == IF rows[s] # None THEN rows[s].key ELSE None
               new == [row EXCEPT !.key = IF row.key = None THEN kept ELSE row.key]
    <3>1. EditTo(s, new) /\ row \in Row
      BY <2>1, RequestsAssumption DEF Save
    <3>2. kept \in ApiKeys \cup {None}
      BY RowIs
    <3> HIDE DEF kept
    <3>3. new \in Row
      BY <3>1, <3>2 DEF Row
    <3> QED BY <3>1, <3>3
  <2>2. ASSUME NEW s \in Scopes, ClearKey(s)
        PROVE  \E t \in Scopes, new \in Row \cup {None} : EditTo(t, new)
    <3>1. EditTo(s, [rows[s] EXCEPT !.key = None]) /\ rows[s] \in Row
      BY <2>2, RowIs DEF ClearKey
    <3>2. [rows[s] EXCEPT !.key = None] \in Row
      BY <3>1 DEF Row
    <3> QED BY <3>1, <3>2
  <2>3. ASSUME ClearOverride
        PROVE  \E t \in Scopes, new \in Row \cup {None} : EditTo(t, new)
    BY <2>3 DEF ClearOverride, Scopes
  <2> QED BY <2>1, <2>2, <2>3 DEF Editing
<1>2. TestsHold'
  BY <1>1, EditKeeps
<1>3. UNCHANGED <<limiter, clock, trouble, instance, readiness>>
  BY <1>1 DEF EditTo
<1>4. ASSUME NEW a \in Admins, job'[a].at = "window"
      PROVE  job'[a] = job[a]
  <2>1. job'[a] = IF job[a].at \in {"probe", "persist"} /\ job[a].req.scope \in Touched(s)
                  THEN [job[a] EXCEPT !.edited = TRUE] ELSE job[a]
    BY <1>1 DEF EditTo
  <2>2. job[a].at \in {"probe", "persist"} => [job[a] EXCEPT !.edited = TRUE].at = job[a].at
    BY JobIs DEF JobType
  <2> QED BY <1>4, <2>1, <2>2
<1> QED BY <1>2, <1>3, <1>4

-----------------------------------------------------------------------------
(* Every step.                                                             *)

LEMMA LoopKeeps ==
    ASSUME InstanceHolds, Looping
    PROVE  InstanceHolds' /\ UNCHANGED <<console, limiter, clock, readiness>>
<1>1. CASE LoopProbes
  BY <1>1 DEF LoopProbes, InstanceHolds
<1>2. CASE LoopRecords
  BY <1>2 DEF LoopRecords, InstanceHolds, Recorded
<1>3. CASE LoopStumbles
  <2>1. trouble' \in 0..MaxTrouble
    BY <1>3, ProbeNumbers DEF LoopStumbles, InstanceHolds
  <2> QED BY <1>3, <2>1 DEF LoopStumbles, InstanceHolds, Recorded, AfterFailure
<1> QED BY <1>1, <1>2, <1>3 DEF Looping

LEMMA TestsApart ==
    ASSUME TestsHold, UNCHANGED console
    PROVE  TestsHold'
BY DEF TestsHold, console, JobIsTrue, True, Called, ChipTellsTheTruth

LEMMA ReadinessApart ==
    ASSUME ReadinessHolds, UNCHANGED <<readiness, clock>>
    PROVE  ReadinessHolds'
BY DEF ReadinessHolds, readiness, ReadyIsRecent

LEMMA InstanceApart ==
    ASSUME InstanceHolds, UNCHANGED <<instance, trouble>>
    PROVE  InstanceHolds'
BY DEF InstanceHolds, instance

LEMMA ProbesSteps ==
    ASSUME ProbesInv, [ProbesNext]_probesVars
    PROVE  ProbesInv'
<1>0. TestsHold /\ LimiterHolds /\ ReadinessHolds /\ InstanceHolds
  BY DEF ProbesInv
<1>1. ASSUME NEW a \in Admins, NEW r \in Requests, Arrive(a, r) PROVE ProbesInv'
  <2>1. UNCHANGED <<clock, trouble, instance, readiness>>
    BY <1>1 DEF Arrive
  <2> QED BY <1>0, <1>1, <2>1, ArriveKeeps, ArriveCounts, ReadinessApart, InstanceApart DEF ProbesInv
<1>2. ASSUME NEW a \in Admins, Admit(a) PROVE ProbesInv'
  <2>1. UNCHANGED <<clock, trouble, instance, readiness>>
    BY <1>2 DEF Admit
  <2> QED BY <1>0, <1>2, <2>1, AdmitKeeps, AdmitCounts, ReadinessApart, InstanceApart DEF ProbesInv
<1>3. ASSUME NEW a \in Admins,
             Load(a) \/ Unloadable(a) \/ Candidate(a) \/ Forbidden(a) \/ Probe(a) \/ Persist(a)
      PROVE  ProbesInv'
  <2>1. UNCHANGED <<limiter, clock, trouble, instance, readiness>>
    BY <1>3 DEF Load, Unloadable, Candidate, Forbidden, Probe, Persist
  <2>2. TestsHold'
    BY <1>0, <1>3, LoadKeeps, TestEnds, ProbeKeeps, PersistKeeps
  <2>3. \A b \in Admins : job'[b].at = "window" => job'[b] = job[b]
    BY <1>0, <1>3 DEF Load, Unloadable, Candidate, Forbidden, Probe, Persist, TestsHold, Ended, AtRest
  <2>4. LimiterHolds'
    BY <1>0, <2>1, <2>3, JobsApart
  <2> QED BY <1>0, <2>1, <2>2, <2>4, ReadinessApart, InstanceApart DEF ProbesInv
<1>4. CASE Editing
  BY <1>0, <1>4, EditsKeep, JobsApart, ReadinessApart, InstanceApart DEF ProbesInv
<1>5. ASSUME NEW q \in Scrapers, Serving(q) PROVE ProbesInv'
  <2>1. UNCHANGED <<console, limiter, clock, trouble, instance>>
    BY <1>5 DEF Serving, Scrape, CheckDb, Store
  <2>2. ReadinessHolds'
    BY <1>0, <1>5, ScrapeKeeps, CheckDbKeeps, StoreKeeps DEF Serving
  <2>3. LimiterHolds'
    BY <1>0, <2>1, JobsApart DEF console
  <2> QED BY <1>0, <2>1, <2>2, <2>3, TestsApart, InstanceApart DEF ProbesInv
<1>6. CASE Looping
  BY <1>0, <1>6, LoopKeeps, TestsApart, JobsApart, ReadinessApart DEF ProbesInv, console
<1>7. CASE Turns
  <2>1. UNCHANGED <<console, limiter, clock>>
    BY <1>7 DEF Turns
  <2> QED BY <1>0, <1>7, <2>1, TurnsKeep, TestsApart, JobsApart DEF ProbesInv, console
<1>8. CASE ProbesTick
  <2>1. UNCHANGED <<console, limiter, trouble, instance, readiness>>
    BY <1>8 DEF ProbesTick
  <2> QED BY <1>0, <1>8, <2>1, TickKeepsReadiness, TickCounts, TestsApart, InstanceApart DEF ProbesInv
<1>9. CASE UNCHANGED probesVars
  BY <1>0, <1>9, TestsApart, JobsApart, ReadinessApart, InstanceApart DEF ProbesInv, probesVars, console
<1> QED BY <1>1, <1>2, <1>3, <1>4, <1>5, <1>6, <1>7, <1>8, <1>9 DEF ProbesNext, Testing

LEMMA ProbesBegin ==
    ASSUME ProbesInit
    PROVE  ProbesInv
<1>1. \A s \in Scopes : chips[s] = None
  BY DEF ProbesInit
<1>2. TestsHold
  <2>1. rows \in [Scopes -> Row \cup {None}]
    BY RequestsAssumption DEF ProbesInit
  <2>2. chips \in [Scopes -> Chip \cup {None}] /\ acts \in 0..MaxActs
    BY ProbeNumbers DEF ProbesInit
  <2>3. job \in [Admins -> JobType] /\ \A a \in Admins : JobIsTrue(job[a])
    BY RestIsTrue DEF ProbesInit
  <2> QED BY <1>1, <2>1, <2>2, <2>3 DEF TestsHold, ChipTellsTheTruth
<1>3. LimiterHolds
  <2>1. IsFiniteSet({}) /\ Cardinality({}) = 0
    BY FS_EmptySet
  <2> QED BY <2>1, ProbeNumbers DEF ProbesInit, LimiterHolds, AtRest
<1>4. ReadinessHolds
  <2>1. \A q \in Scrapers : scrape[q] = AtRest /\ AtRest \in ScrapeType /\ AtRest.at = "idle"
    BY DEF ProbesInit, AtRest, ScrapeType
  <2>2. scrape \in [Scrapers -> ScrapeType]
    BY <2>1 DEF ProbesInit
  <2>3. clock = 0 /\ 0 \in 0..Horizon /\ db \in [up : BOOLEAN, since : 0..Horizon] /\ db.since = 0
    BY ProbeNumbers DEF ProbesInit
  <2>4. cache = None
    BY DEF ProbesInit
  <2> QED BY <2>1, <2>2, <2>3, <2>4 DEF ReadinessHolds, ReadyIsRecent
<1>5. InstanceHolds
  BY ProbeNumbers DEF ProbesInit, InstanceHolds
<1> QED BY <1>2, <1>3, <1>4, <1>5 DEF ProbesInv

LEMMA ProbesInvIsInvariant == ProbesSpec => []ProbesInv
<1>1. ProbesInit => ProbesInv
  BY ProbesBegin
<1>2. ProbesInv /\ [ProbesNext]_probesVars => ProbesInv'
  BY ProbesSteps
<1> QED BY <1>1, <1>2, PTL DEF ProbesSpec

\* A chip that a test of the saved configuration left, and nobody has edited
\* under since, was earned by what calls are made with; and however many tests
\* are asked for at once, no more than the limit are recent but for those that
\* races wiped from the list (probe_allowed, test_provider).
THEOREM TestsAreTrueAlways == ProbesSpec => []TestsAreTrue
<1>1. ProbesInv => TestsAreTrue
  <2> SUFFICES ASSUME ProbesInv PROVE TestsAreTrue
    OBVIOUS
  <2>1. TestsHold /\ LimiterHolds /\ ReadinessHolds /\ InstanceHolds
    BY DEF ProbesInv
  <2>2. ProbesTypeOK
    BY <2>1 DEF ProbesTypeOK, TestsHold, LimiterHolds, ReadinessHolds, InstanceHolds
  <2>3. ChipTellsTheTruth /\ ProbesAreBounded
    BY <2>1, BoundIs DEF TestsHold
  <2> QED BY <2>2, <2>3 DEF TestsAreTrue
<1> QED BY <1>1, ProbesInvIsInvariant, PTL

\* However the database comes and goes between the request, the check and the
\* entry in the cache, /health/ready answers nothing that was last true longer
\* ago than the entry lives and its check took.
THEOREM ReadyIsRecentAlways == ProbesSpec => []ReadyIsRecent
<1>1. ProbesInv => ReadyIsRecent
  BY DEF ProbesInv, ReadinessHolds
<1> QED BY <1>1, ProbesInvIsInvariant, PTL
=============================================================================
